----------------------------- MODULE RefreshRate -----------------------------
(***************************************************************************)
(* The refresh rate of the panel: two settings of the framework, the peak  *)
(* and the lowest rate, and one of DeviceParts, whether apps may choose    *)
(* ("auto").  They are written by two switches of DeviceSettings and by    *)
(* the quick settings tile, which writes also when it is only looked at.   *)
(*                                                                         *)
(* All of them run on the main thread of one process.  A handler writes    *)
(* several settings, one after the other; the process may end in between.  *)
(* External: the shade, which covers the settings screen while it is open; *)
(* the display, which takes a rate between the two.                        *)
(***************************************************************************)
EXTENDS Naturals, Sequences

Rate == {60, 90}
Unset == 0               \* of the lowest rate: any

VARIABLES
  peak, lowest, auto,    \* settings; auto is 0 or 1
  todo,                  \* writes the handler has still to do
  screen,                \* DeviceSettings is open
  checked, usable,       \* ... and what its rate switch shows
  shade,                 \* open: the tile listens
  autoRefreshEnabled,    \* of the tile
  chosen, fixed,         \* ghosts: the peak last chosen, and if as a fixed rate
  cut                    \* ghost: the process ended between two writes

rates == <<peak, lowest, auto>>
ui == <<screen, checked, usable>>
tile == <<shade, autoRefreshEnabled>>
ghosts == <<chosen, fixed, cut>>
vars == <<rates, todo, ui, tile, ghosts>>

(* After Startup has imported the old preferences, which did not know of a *)
(* lowest rate.                                                            *)
Init ==
  /\ peak \in Rate /\ lowest = Unset /\ auto \in {0, 1}
  /\ todo = <<>>
  /\ screen = FALSE /\ checked = FALSE /\ usable = FALSE
  /\ shade = FALSE /\ autoRefreshEnabled = FALSE
  /\ chosen = peak /\ fixed = FALSE /\ cut = FALSE

MainThreadFree == todo = <<>>
isCurrentlyEnabled == peak = 90
RateOf(enabled) == IF enabled THEN 90 ELSE 60
setPeakRefresh(rate) == <<<<"peak", rate>>, <<"lowest", rate>>>>

Choose(rate, alone) == chosen' = rate /\ fixed' = alone /\ cut' = FALSE

-----------------------------------------------------------------------------
(* One write.  The change of "auto" is the last one of its handler, and    *)
(* the screen's rate switch is then made usable, or not.                   *)
Write ==
  /\ todo # <<>> /\ todo' = Tail(todo)
  /\ LET key == Head(todo)[1]  value == Head(todo)[2] IN
     /\ peak' = IF key = "peak" THEN value ELSE peak
     /\ lowest' = IF key = "lowest" THEN value ELSE lowest
     /\ auto' = IF key = "auto" THEN value ELSE auto
     /\ usable' = IF key = "auto" THEN value = 0 ELSE usable
  /\ UNCHANGED <<screen, checked, tile, ghosts>>

(* DeviceSettings: what the switches show is read when it is opened.       *)
onCreatePreferences ==
  /\ MainThreadFree /\ ~screen /\ ~shade /\ screen' = TRUE
  /\ checked' = isCurrentlyEnabled /\ usable' = (auto = 0)
  /\ UNCHANGED <<rates, todo, tile, ghosts>>

CloseScreen ==
  /\ MainThreadFree /\ screen /\ ~shade
  /\ screen' = FALSE /\ checked' = FALSE /\ usable' = FALSE
  /\ UNCHANGED <<rates, todo, tile, ghosts>>

AutoRefreshRateSwitch(enabled) ==
  /\ MainThreadFree /\ screen /\ ~shade
  /\ todo' = <<<<"peak", 90>>, <<"lowest", 60>>, <<"auto", IF enabled THEN 1 ELSE 0>>>>
  /\ Choose(90, FALSE)
  /\ UNCHANGED <<rates, ui, tile>>

RefreshRateSwitch ==             \* a click toggles what is shown
  /\ MainThreadFree /\ screen /\ usable /\ ~shade
  /\ checked' = ~checked
  /\ todo' = setPeakRefresh(RateOf(checked'))
  /\ Choose(RateOf(checked'), TRUE)
  /\ UNCHANGED <<rates, screen, usable, tile>>

-----------------------------------------------------------------------------
(* RefreshRateTileService: it writes the rate that it reads.               *)
\* Mutant: also if apps may choose.
TileWritesAlways(automatic) == setPeakRefresh(RateOf(isCurrentlyEnabled))
TileWrites(automatic) ==
  IF automatic THEN <<>> ELSE setPeakRefresh(RateOf(isCurrentlyEnabled))

onStartListening ==
  /\ MainThreadFree /\ ~shade /\ shade' = TRUE
  /\ autoRefreshEnabled' = (auto = 1)
  /\ todo' = TileWrites(autoRefreshEnabled')
  /\ UNCHANGED <<rates, ui, ghosts>>

onStopListening ==
  /\ MainThreadFree /\ shade /\ shade' = FALSE
  /\ UNCHANGED <<rates, todo, ui, autoRefreshEnabled, ghosts>>

onClick ==
  /\ MainThreadFree /\ shade /\ ~autoRefreshEnabled
  /\ LET rate == RateOf(~isCurrentlyEnabled) IN
     /\ todo' = setPeakRefresh(RateOf(isCurrentlyEnabled)) \o setPeakRefresh(rate)
     /\ Choose(rate, TRUE)
  /\ UNCHANGED <<rates, ui, tile>>

(* The process, or the device, ends; the settings survive.                 *)
ProcessEnds ==
  /\ todo' = <<>>
  /\ screen' = FALSE /\ checked' = FALSE /\ usable' = FALSE
  /\ shade' = FALSE /\ autoRefreshEnabled' = FALSE
  /\ cut' = (cut \/ todo # <<>>)
  /\ UNCHANGED <<rates, chosen, fixed>>

Next ==
  \/ Write \/ onCreatePreferences \/ CloseScreen \/ RefreshRateSwitch
  \/ \E enabled \in BOOLEAN : AutoRefreshRateSwitch(enabled)
  \/ onStartListening \/ onStopListening \/ onClick \/ ProcessEnds

Spec == Init /\ [][Next]_vars

-----------------------------------------------------------------------------
TypeOK ==
  /\ peak \in Rate /\ lowest \in Rate \cup {Unset} /\ auto \in {0, 1}
  /\ todo \in Seq({"peak", "lowest", "auto"} \X (Rate \cup {0, 1})) /\ Len(todo) <= 4
  /\ {screen, checked, usable, shade, autoRefreshEnabled, fixed, cut} \subseteq BOOLEAN
  /\ chosen \in Rate

(* Between handlers the peak is what the user last chose, on either switch *)
(* or the tile, however often the tile was looked at; a fixed rate leaves  *)
(* the display no other, the lowest rate is never above the peak, and as   *)
(* long as apps may choose nothing forces 90 Hz -- unless the process      *)
(* ended between two writes, and until the next choice.                    *)
RateFollowsChoice ==
  todo = <<>> /\ ~cut =>
    /\ peak = chosen /\ lowest <= peak
    /\ fixed => lowest = peak
    /\ auto = 1 => lowest # 90

=============================================================================
