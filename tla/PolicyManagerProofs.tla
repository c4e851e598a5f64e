------------------------ MODULE PolicyManagerProofs -------------------------
(***************************************************************************)
(* Proofs about PolicyManager: calls and recordings exclude what they must *)
(* and tell whom they must, and stopping a track undoes what starting it   *)
(* did, for any clients, sessions and configurations, whatever the two     *)
(* halves of the manager do in between.                                    *)
(***************************************************************************)
EXTENDS PolicyManager, FiniteSetTheorems, SequenceTheorems, WellFoundedInduction, TLAPS

-----------------------------------------------------------------------------
(* Induction, for sets of natural numbers: a smallest element that is not  *)
(* in the set contradicts one of the premises.                             *)
LEMMA Smallest ==
  ASSUME NEW T \in SUBSET Nat, T # {}
  PROVE  \E m \in T : \A n \in T : m <= n
<1> DEFINE R == {ss \in Nat \X Nat : ss[1] < ss[2]}
<1>1. IsWellFoundedOn(R, Nat)
  BY NatLessThanWellFounded DEF OpToRel
<1>2. PICK m \in T : \A n \in T : ~(<<n, m>> \in R)
  <2> HIDE DEF R
  <2> QED BY <1>1, WFMin
<1>3. ASSUME NEW n \in T PROVE m <= n
  <2>1. <<n, m>> \in Nat \X Nat /\ <<n, m>>[1] = n /\ <<n, m>>[2] = m
    OBVIOUS
  <2>2. ~(n < m)
    BY <1>2, <2>1
  <2> QED BY <2>2
<1> QED BY <1>3

LEMMA Induction ==
  ASSUME NEW T \in SUBSET Nat, 0 \in T, \A n \in T : n + 1 \in T
  PROVE  T = Nat
<1> SUFFICES ASSUME Nat \ T # {} PROVE FALSE
  OBVIOUS
<1>1. PICK m \in Nat \ T : \A n \in Nat \ T : m <= n
  BY Smallest
<1>2. m - 1 \in Nat /\ m - 1 \in T
  BY <1>1
<1> QED BY <1>1, <1>2

-----------------------------------------------------------------------------
(* The closing loop.  What it has done after n outputs ...                 *)
IsPass(pass, outputs, closing, n) ==
  pass = [i \in 0..n |-> IF i = 0 THEN [kept |-> <<>>, closed |-> FALSE]
                                  ELSE LookAt(pass[i - 1], outputs[i], closing)]

LEMMA PassExists ==
  ASSUME NEW outputs, NEW closing, NEW n \in Nat
  PROVE  \E pass : IsPass(pass, outputs, closing, n)
<1> DEFINE T == {m \in Nat : \E pass : IsPass(pass, outputs, closing, m)}
<1>1. 0 \in T
  <2>1. IsPass([i \in 0..0 |-> [kept |-> <<>>, closed |-> FALSE]], outputs, closing, 0)
    BY DEF IsPass
  <2> QED BY <2>1
<1>2. ASSUME NEW m \in T PROVE m + 1 \in T
  <2>1. PICK p : IsPass(p, outputs, closing, m)
    OBVIOUS
  <2> DEFINE q == [i \in 0..(m + 1) |-> IF i <= m THEN p[i]
                                        ELSE LookAt(p[m], outputs[m + 1], closing)]
  <2>2. ASSUME NEW i \in 0..(m + 1), i # 0
        PROVE  q[i] = LookAt(q[i - 1], outputs[i], closing)
    <3>1. i - 1 \in 0..m /\ q[i - 1] = p[i - 1]
      BY <2>2
    <3>2. CASE i <= m
      <4>1. \A k \in 0..m : p[k] = IF k = 0 THEN [kept |-> <<>>, closed |-> FALSE]
                                          ELSE LookAt(p[k - 1], outputs[k], closing)
        BY <2>1 DEF IsPass
      <4>2. p[i] = LookAt(p[i - 1], outputs[i], closing)
        BY <2>2, <3>2, <4>1
      <4> QED BY <3>1, <3>2, <4>2
    <3>3. CASE i = m + 1
      BY <3>1, <3>3
    <3> QED BY <3>2, <3>3
  <2>3. q[0] = [kept |-> <<>>, closed |-> FALSE]
    BY <2>1 DEF IsPass
  <2>4. q = [i \in 0..(m + 1) |-> q[i]]
    OBVIOUS
  <2> HIDE DEF q
  <2>5. q = [i \in 0..(m + 1) |-> IF i = 0 THEN [kept |-> <<>>, closed |-> FALSE]
                                  ELSE LookAt(q[i - 1], outputs[i], closing)]
    BY <2>2, <2>3, <2>4
  <2> QED BY <2>5 DEF IsPass
<1>3. T = Nat
  <2> HIDE DEF T
  <2>1. T \in SUBSET Nat
    BY DEF T
  <2> QED BY <1>1, <1>2, <2>1, Induction
<1> QED BY <1>3

(* ... and how the outputs that are left stand to the ones before it.      *)
LeftOf(o, p, closing) ==
  /\ p.profile = o.profile /\ p.session = o.session
  /\ p.jumped <=> o.jumped \/ o \in closing

(* Whatever the outputs were, what the loop leaves is a sequence of        *)
(* outputs, no longer than before, and each of them is one of those from   *)
(* before: marked as passed over if it should have been closed.            *)
LEMMA ClosingFacts ==
  ASSUME NEW outputs \in Seq(Output), NEW closing
  PROVE  LET after == ClosingLoop(outputs, closing)
         IN  /\ after \in Seq(Output) /\ Len(after) <= Len(outputs)
             /\ \A k \in 1..Len(after) :
                  \E j \in 1..Len(outputs) : LeftOf(outputs[j], after[k], closing)
<1> DEFINE n == Len(outputs)
           Pass(p) == p = [i \in 0..n |-> IF i = 0 THEN [kept |-> <<>>, closed |-> FALSE]
                                          ELSE LookAt(p[i - 1], outputs[i], closing)]
           pass == CHOOSE p : Pass(p)
           Good(i) == /\ pass[i].closed \in BOOLEAN
                      /\ pass[i].kept \in Seq(Output) /\ Len(pass[i].kept) <= i
                      /\ \A k \in 1..Len(pass[i].kept) :
                           \E j \in 1..i : LeftOf(outputs[j], pass[i].kept[k], closing)
<1>1. ClosingLoop(outputs, closing) = pass[n].kept
  BY DEF ClosingLoop
<1>2. n \in Nat
  BY LenProperties
<1>3. Pass(pass)
  <2>1. \E p : Pass(p)
    <3> HIDE DEF n
    <3>1. PICK p : IsPass(p, outputs, closing, n)
      BY <1>2, PassExists
    <3> QED BY <3>1 DEF IsPass
  <2> QED BY <2>1
<1>4. /\ pass[0] = [kept |-> <<>>, closed |-> FALSE]
      /\ \A i \in 1..n : pass[i] = LookAt(pass[i - 1], outputs[i], closing)
  <2> HIDE DEF n, pass
  <2>1. \A i \in 0..n : pass[i] = IF i = 0 THEN [kept |-> <<>>, closed |-> FALSE]
                                          ELSE LookAt(pass[i - 1], outputs[i], closing)
    BY <1>3
  <2>2. 0 \in 0..n /\ \A i \in 1..n : i \in 0..n /\ i # 0
    BY <1>2
  <2> QED BY <2>1, <2>2
<1> HIDE DEF pass
<1>5. Good(0)
  BY <1>4
<1>6. ASSUME NEW i \in Nat, i + 1 <= n, Good(i)
      PROVE  Good(i + 1)
  <2> DEFINE o == outputs[i + 1]  a == pass[i]
             p == [o EXCEPT !.jumped = @ \/ o \in closing]
  <2>1. o \in Output
    BY <1>6, ElementOfSeq
  <2>2. p \in Output /\ LeftOf(o, p, closing)
    BY <2>1 DEF Output, LeftOf
  <2>3. pass[i + 1] = LookAt(a, o, closing)
    <3>1. i + 1 \in 1..n /\ (i + 1) - 1 = i
      BY <1>2, <1>6
    <3> QED BY <3>1, <1>4
  <2>4. /\ a.kept \in Seq(Output) /\ Len(a.kept) <= i /\ Len(a.kept) \in Nat
        /\ \A k \in 1..Len(a.kept) : \E j \in 1..i : LeftOf(outputs[j], a.kept[k], closing)
    BY <1>6, LenProperties
  <2>5. CASE o \in closing /\ ~a.closed
    <3>1. pass[i + 1] = [kept |-> a.kept, closed |-> TRUE]
      BY <2>3, <2>5 DEF LookAt
    <3>2. \A j \in 1..i : j \in 1..(i + 1)
      BY <1>6
    <3>3. pass[i + 1].kept = a.kept /\ pass[i + 1].closed
      BY <3>1
    <3>4. Len(a.kept) <= i + 1
      BY <1>6, <2>4
    <3> HIDE DEF a
    <3> QED BY <2>4, <3>2, <3>3, <3>4
  <2>6. CASE ~(o \in closing /\ ~a.closed)
    <3> DEFINE s == Append(a.kept, p)
    <3>1. pass[i + 1] = [kept |-> s, closed |-> FALSE]
      BY <2>3, <2>6 DEF LookAt
    <3>2. pass[i + 1].kept = s /\ pass[i + 1].closed = FALSE
      BY <3>1
    <3> HIDE DEF a, o, p
    <3>3. /\ s \in Seq(Output) /\ Len(s) = Len(a.kept) + 1
          /\ s[Len(a.kept) + 1] = p
          /\ \A k \in 1..Len(a.kept) : s[k] = a.kept[k]
      BY <2>2, <2>4, AppendProperties
    <3> HIDE DEF s
    <3>4. Len(s) <= i + 1
      BY <1>6, <2>4, <3>3
    <3>5. ASSUME NEW k \in 1..Len(s)
          PROVE  \E j \in 1..(i + 1) : LeftOf(outputs[j], s[k], closing)
      <4>1. CASE k \in 1..Len(a.kept)
        <5>1. PICK j \in 1..i : LeftOf(outputs[j], a.kept[k], closing)
          BY <2>4, <4>1
        <5>2. j \in 1..(i + 1) /\ s[k] = a.kept[k]
          BY <1>6, <3>3, <4>1
        <5> QED BY <5>1, <5>2
      <4>2. CASE k = Len(a.kept) + 1
        <5>1. i + 1 \in 1..(i + 1)
          BY <1>6
        <5> QED BY <2>2, <3>3, <4>2, <5>1 DEF o
      <4> QED BY <2>4, <3>3, <4>1, <4>2
    <3> QED BY <3>2, <3>3, <3>4, <3>5
  <2> QED BY <2>5, <2>6
<1>7. \A i \in 0..n : Good(i)
  <2> DEFINE T == {i \in Nat : i <= n => Good(i)}
  <2> HIDE DEF Good, n
  <2>1. 0 \in T
    BY <1>5
  <2>2. ASSUME NEW i \in T PROVE i + 1 \in T
    <3>1. i + 1 <= n => i <= n
      BY <1>2
    <3> QED BY <3>1, <1>6
  <2>3. T = Nat
    <3> HIDE DEF T
    <3>1. T \in SUBSET Nat
      BY DEF T
    <3> QED BY <2>1, <2>2, <3>1, Induction
  <2> QED BY <1>2, <2>3
<1>8. Good(n)
  BY <1>2, <1>7
<1> QED BY <1>1, <1>8

(* Outputs of which each offload has been passed over by a closing loop.   *)
Clean(outputs) == \A i \in 1..Len(outputs) : Offload(outputs[i]) => outputs[i].jumped

LEMMA LoopKeepsClean ==
  ASSUME NEW outputs \in Seq(Output), NEW closing, Clean(outputs)
  PROVE  Clean(ClosingLoop(outputs, closing))
<1> DEFINE after == ClosingLoop(outputs, closing)
<1>1. \A k \in 1..Len(after) : \E j \in 1..Len(outputs) : LeftOf(outputs[j], after[k], closing)
  BY ClosingFacts
<1> HIDE DEF after
<1>2. Clean(after)
  BY <1>1 DEF Clean, LeftOf, Offload
<1> QED BY <1>2 DEF after

LEMMA LoopCleans ==
  ASSUME NEW outputs \in Seq(Output), NEW closing, Offloads \subseteq closing
  PROVE  Clean(ClosingLoop(outputs, closing))
<1> DEFINE after == ClosingLoop(outputs, closing)
<1>1. \A k \in 1..Len(after) : \E j \in 1..Len(outputs) : LeftOf(outputs[j], after[k], closing)
  BY ClosingFacts
<1> HIDE DEF after
<1>2. SUFFICES ASSUME NEW k \in 1..Len(after), Offload(after[k]) PROVE after[k].jumped
  BY DEF Clean, after
<1>3. PICK j \in 1..Len(outputs) : LeftOf(outputs[j], after[k], closing)
  BY <1>1
<1>4. outputs[j] \in Output /\ Offload(outputs[j])
  <2>1. outputs[j] \in Output
    BY <1>3, ElementOfSeq
  <2> QED BY <2>1, <1>2, <1>3 DEF LeftOf, Offload
<1> QED BY <1>3, <1>4 DEF LeftOf, Offloads

-----------------------------------------------------------------------------
(* Calls, recordings and players: TypeOK of AudioPolicy, in parts.         *)
ModesType ==
  /\ config \in Config /\ phone \in Mode /\ mPrevPhoneState \in Mode
  /\ mvoice_call_state \in BOOLEAN /\ irregular \in BOOLEAN /\ suspended \in 0..MaxSuspend

InputsType ==
  /\ mInputs \in [Client -> Input] /\ mIsInputRequestOnProgress \in BOOLEAN
  /\ rec_play_conc_on \in BOOLEAN /\ capture \in BOOLEAN

OutputsType ==
  /\ mOutputs \in Seq(Output) /\ Len(mOutputs) <= MaxOutput
  /\ granted \subseteq Session

(* An input that a call blocks is held, also while it is idle.             *)
HeldInv ==
  InVoiceCall => \A c \in Client :
    mInputs[c].state # "none" /\ Blocked(mInputs[c].source) => mInputs[c].held

(* The output is suspended once, and for a call whose end is noticed.      *)
SuspendInv ==
  suspended > 0 /\ ~irregular =>
    /\ suspended = 1 /\ isInCall /\ mvoice_call_state
    /\ Has("voiceConc") /\ Has("playDisabled") /\ ~Has("deepFallback")

IInv ==
  /\ ModesType /\ InputsType /\ OutputsType
  /\ CallStateKnown /\ SuspendInv
  /\ RecordingTold /\ HeldInv /\ CaptureReported
  /\ NoOffloadDuring => Clean(mOutputs)

LEMMA PolicyTypeParts == TypeOK <=> ModesType /\ InputsType /\ OutputsType
BY DEF TypeOK, ModesType, InputsType, OutputsType

LEMMA PolicyInitOK == Init => IInv
<1> SUFFICES ASSUME Init PROVE IInv
  OBVIOUS
<1>1. NoInput \in Input
  BY DEF NoInput, Input, Source
<1>2. mInputs \in [Client -> Input] /\ \A c \in Client : mInputs[c] = NoInput
  BY <1>1 DEF Init
<1>3. ActivePrimary(mInputs) = {} /\ \A c \in Client : mInputs[c].state = "none"
  BY <1>2, PolicyAssumption DEF ActivePrimary, NoInput
<1>4. mOutputs = <<>> /\ Len(mOutputs) = 0 /\ mOutputs \in Seq(Output)
  BY EmptySeq DEF Init
<1>5. MaxOutput \in Nat /\ MaxSuspend \in Nat
  BY PolicyAssumption
<1>6. ModesType
  <2>1. /\ config \in Config /\ mvoice_call_state \in BOOLEAN /\ irregular = FALSE
        /\ phone = "normal" /\ mPrevPhoneState = "normal" /\ suspended = 0
    BY DEF Init
  <2>2. suspended \in 0..MaxSuspend
    BY <1>5, <2>1
  <2>3. phone \in Mode /\ mPrevPhoneState \in Mode
    BY <2>1 DEF Mode
  <2> QED BY <2>1, <2>2, <2>3 DEF ModesType
<1>8. InputsType
  BY <1>2 DEF Init, InputsType
<1>9. OutputsType
  BY <1>4, <1>5 DEF Init, OutputsType
<1>7. ~InVoiceCall /\ ~NoOffloadDuring
  BY <1>3 DEF Init, InVoiceCall, NoOffloadDuring
<1> QED BY <1>3, <1>6, <1>7, <1>8, <1>9 DEF IInv, Init, CallStateKnown, SuspendInv, RecordingTold, HeldInv,
                                CaptureReported

(* The phone's state.                                                      *)
LEMMA ModesKept ==
  ASSUME ModesType, CallStateKnown, SuspendInv, NEW state \in Mode, setPhoneState(state)
  PROVE  ModesType' /\ CallStateKnown' /\ SuspendInv'
<1>1. /\ state # phone /\ phone' = state /\ mPrevPhoneState' = phone /\ config' = config
      /\ mvoice_call_state' = ((mvoice_call_state \/ EntersCall(state)) /\ ~LeavesCall(state))
      /\ suspended' = IF Suspends(state) THEN suspended + 1
                      ELSE IF LeavesCall(state) /\ ~Has("deepFallback") /\ suspended > 0
                           THEN suspended - 1 ELSE suspended
      /\ irregular' = (irregular \/ (suspended > 0 /\ state \in {"ringtone", "in_call"}))
      /\ Suspends(state) => suspended < MaxSuspend
  BY DEF setPhoneState
<1>2. MaxSuspend \in Nat
  BY PolicyAssumption
<1>3. suspended' \in 0..MaxSuspend
  BY <1>1, <1>2 DEF ModesType
<1>4. ModesType'
  BY <1>1, <1>3 DEF ModesType
<1>5. CallStateKnown'
  BY <1>1 DEF ModesType, CallStateKnown, InVoiceCall, Has, EntersCall, LeavesCall
<1>6. SuspendInv'
  <2> SUFFICES ASSUME suspended' > 0, ~irregular'
               PROVE  /\ suspended' = 1 /\ isInCall' /\ mvoice_call_state'
                      /\ Has("voiceConc")' /\ Has("playDisabled")' /\ ~Has("deepFallback")'
    BY DEF SuspendInv
  <2>1. CASE suspended = 0
    <3>1. Suspends(state)
      BY <1>1, <2>1
    <3>2. suspended' = 1 /\ EntersCall(state)
      BY <1>1, <2>1, <3>1 DEF Suspends
    <3>3. state = "in_call" /\ ~LeavesCall(state)
      BY <3>2 DEF EntersCall, LeavesCall
    <3>4. mvoice_call_state'
      BY <1>1, <3>2, <3>3
    <3> QED BY <1>1, <3>1, <3>2, <3>3, <3>4 DEF Suspends, EntersCall, Has, isInCall
  <2>2. CASE suspended > 0
    BY <1>1, <2>2 DEF ModesType, Mode, SuspendInv, Suspends, EntersCall, LeavesCall, Has, isInCall
  <2> QED BY <2>1, <2>2 DEF ModesType
<1> QED BY <1>4, <1>5, <1>6

LEMMA ModesUnchanged ==
  ASSUME ModesType, CallStateKnown, SuspendInv, UNCHANGED modes
  PROVE  /\ ModesType' /\ CallStateKnown' /\ SuspendInv'
         /\ InVoiceCall' = InVoiceCall /\ RecPlay' = RecPlay
         /\ \A flag : Has(flag)' = Has(flag)
         /\ \A source : Blocked(source)' = Blocked(source)
BY DEF modes, ModesType, CallStateKnown, SuspendInv, InVoiceCall, RecPlay, Has, Blocked, isInCall

-----------------------------------------------------------------------------
(* The inputs.  Of what a step does with them only this matters: active    *)
(* ones were active, or become so by startInput.                           *)
Inputs == [Client -> Input]

LEMMA EndedFacts ==
  ASSUME mInputs \in Inputs, NEW S \in SUBSET Client
  PROVE  /\ Ended(S) \in Inputs
         /\ \A c \in Client : /\ Ended(S)[c].source = mInputs[c].source
                              /\ Ended(S)[c].held = mInputs[c].held
                              /\ Ended(S)[c].state = IF c \in S /\ mInputs[c].state = "active"
                                                     THEN "idle" ELSE mInputs[c].state
<1>1. \A c \in Client : mInputs[c] \in Input
  BY DEF Inputs
<1>2. \A c \in Client : [mInputs[c] EXCEPT !.state = "idle"] \in Input
  BY <1>1 DEF Input
<1>3. \A c \in Client : Ended(S)[c] = IF c \in S /\ mInputs[c].state = "active"
                                      THEN [mInputs[c] EXCEPT !.state = "idle"] ELSE mInputs[c]
  BY DEF Ended
<1>4. Ended(S) \in Inputs
  BY <1>1, <1>2 DEF Ended, Inputs
<1> QED BY <1>1, <1>3, <1>4 DEF Input

LEMMA ModeInputs ==
  ASSUME mInputs \in Inputs, NEW state
  PROVE  /\ InputsInMode(state) \in Inputs
         /\ \A c \in Client :
              IF c \in Closed(state) THEN InputsInMode(state)[c] = NoInput
              ELSE /\ InputsInMode(state)[c].state = mInputs[c].state
                   /\ InputsInMode(state)[c].source = mInputs[c].source
                   /\ InputsInMode(state)[c].held = IF EntersCall(state) THEN HeldBack(c)
                                                    ELSE mInputs[c].held
<1>1. \A c \in Client : mInputs[c] \in Input /\ HeldBack(c) \in BOOLEAN
  BY DEF Inputs, HeldBack
<1>2. NoInput \in Input
  BY DEF NoInput, Input, Source
<1>3. \A c \in Client :
        [mInputs[c] EXCEPT !.held = IF EntersCall(state) THEN HeldBack(c) ELSE @] \in Input
  BY <1>1 DEF Input
<1>4. \A c \in Client :
        InputsInMode(state)[c] =
          IF c \in Closed(state) THEN NoInput
          ELSE [mInputs[c] EXCEPT !.held = IF EntersCall(state) THEN HeldBack(c) ELSE @]
  BY DEF InputsInMode
<1>5. InputsInMode(state) \in Inputs
  BY <1>2, <1>3 DEF InputsInMode, Inputs
<1> QED BY <1>1, <1>4, <1>5 DEF Input

(* The end of some recordings, by stopInput or at the beginning of a call. *)
LEMMA EndOK ==
  ASSUME mInputs \in Inputs, mInputs' \in Inputs, RecordingTold, CaptureReported,
         config' = config, NEW S \in SUBSET Client,
         \A c \in Client : (mInputs'[c].state = "active")
                            <=> (mInputs[c].state = "active" /\ c \notin S),
         \A c \in Client \ S : mInputs'[c].source = mInputs[c].source,
         capture' = CaptureAfter(S, mInputs'),
         rec_play_conc_on' = (rec_play_conc_on /\ ~RecPlayOff(S, mInputs'))
  PROVE  RecordingTold' /\ CaptureReported'
<1>1. ActivePrimary(mInputs') = ActivePrimary(mInputs) \ S
  BY PolicyAssumption DEF ActivePrimary
<1>2. RecPlay' = RecPlay /\ Has("vaConc")' = Has("vaConc")
  BY DEF RecPlay, Has
<1>3. ActivePrimary(mInputs)' = ActivePrimary(mInputs')
  BY DEF ActivePrimary
<1>4. RecordingTold'
  <2>1. CASE RecPlay /\ ActivePrimary(mInputs') # {}
    BY <1>1, <2>1 DEF RecordingTold, RecPlayOff
  <2>2. CASE ~(RecPlay /\ ActivePrimary(mInputs') # {})
    BY <1>2, <1>3, <2>2 DEF RecordingTold
  <2> QED BY <1>2, <1>3, <2>1, <2>2 DEF RecordingTold
<1>5. CaptureReported'
  <2> SUFFICES ASSUME ~Has("vaConc") PROVE capture' <=> ActivePrimary(mInputs') # {}
    BY <1>2, <1>3 DEF CaptureReported
  <2>1. capture <=> ActivePrimary(mInputs) # {}
    BY DEF CaptureReported
  <2>2. capture' <=> /\ capture
                     /\ ~(S \cap ActivePrimary(mInputs) # {} /\ ActivePrimary(mInputs') = {})
    BY DEF CaptureAfter
  <2>3. CASE ActivePrimary(mInputs') # {}
    BY <1>1, <2>1, <2>2, <2>3
  <2>4. CASE ActivePrimary(mInputs') = {}
    BY <1>1, <2>1, <2>2, <2>4
  <2> QED BY <2>3, <2>4
<1> QED BY <1>4, <1>5

(* What the inputs' steps keep.                                            *)
RecordInv == InputsType /\ RecordingTold /\ HeldInv /\ CaptureReported

LEMMA ModeRecordOK ==
  ASSUME ModesType, RecordInv, NEW state \in Mode, setPhoneState(state)
  PROVE  RecordInv'
<1> DEFINE S == Closed(state)
<1>1. /\ mInputs \in Inputs /\ mInputs' = InputsInMode(state)
      /\ state # phone /\ phone' = state /\ mPrevPhoneState' = phone /\ config' = config
      /\ capture' = CaptureAfter(S, mInputs')
      /\ rec_play_conc_on' = (rec_play_conc_on /\ ~RecPlayOff(S, mInputs'))
      /\ mIsInputRequestOnProgress' = mIsInputRequestOnProgress
  BY DEF setPhoneState, RecordInv, InputsType, Inputs
<1>2. /\ S \in SUBSET Client
      /\ \A c \in S : /\ EntersCall(state) /\ mInputs[c].state = "active"
                      /\ Blocked(mInputs[c].source)
      /\ EntersCall(state) => \A c \in Client \ S :
                                ~(mInputs[c].state = "active" /\ Blocked(mInputs[c].source))
  BY DEF Closed
<1>3. /\ mInputs' \in Inputs
      /\ \A c \in Client :
           IF c \in S THEN mInputs'[c] = NoInput
           ELSE /\ mInputs'[c].state = mInputs[c].state
                /\ mInputs'[c].source = mInputs[c].source
                /\ mInputs'[c].held = IF EntersCall(state) THEN HeldBack(c)
                                      ELSE mInputs[c].held
  BY <1>1, ModeInputs
<1>4. NoInput.state = "none"
  BY DEF NoInput
<1>5. /\ \A c \in Client : (mInputs'[c].state = "active")
                             <=> (mInputs[c].state = "active" /\ c \notin S)
      /\ \A c \in Client \ S : mInputs'[c].source = mInputs[c].source
  BY <1>3, <1>4
<1>6. RecordingTold' /\ CaptureReported'
  <2> HIDE DEF S
  <2> QED BY <1>1, <1>2, <1>3, <1>5, EndOK DEF RecordInv
<1>7. HeldInv'
  <2>1. SUFFICES ASSUME InVoiceCall', NEW c \in Client, mInputs'[c].state # "none",
                        Blocked(mInputs[c].source)'
                 PROVE  mInputs'[c].held
    BY DEF HeldInv
  <2> HIDE DEF S
  <2>2. Blocked(mInputs'[c].source) /\ Has("voiceConc")
    BY <1>1, <2>1 DEF Blocked, Has
  <2>3. c \notin S /\ mInputs'[c].state = mInputs[c].state
        /\ mInputs'[c].source = mInputs[c].source
        /\ mInputs'[c].held = IF EntersCall(state) THEN HeldBack(c) ELSE mInputs[c].held
    BY <1>3, <1>4, <2>1
  <2>4. CASE EntersCall(state)
    <3>1. mInputs[c].state # "active"
      BY <1>2, <2>2, <2>3, <2>4
    <3>2. mInputs[c] \in Input
      BY <1>1 DEF Inputs
    <3>3. mInputs[c].state = "idle"
      BY <2>1, <2>3, <3>1, <3>2 DEF Input
    <3> QED BY <2>2, <2>3, <2>4, <3>3 DEF HeldBack
  <2>5. CASE ~EntersCall(state)
    <3>1. InVoiceCall
      BY <1>1, <2>1, <2>2, <2>5 DEF InVoiceCall, EntersCall
    <3> QED BY <2>1, <2>2, <2>3, <2>5, <3>1 DEF RecordInv, HeldInv
  <2> QED BY <2>4, <2>5
<1>8. InputsType'
  <2>1. capture' \in BOOLEAN /\ rec_play_conc_on' \in BOOLEAN
    BY <1>1 DEF CaptureAfter
  <2> QED BY <1>1, <1>3, <2>1 DEF RecordInv, InputsType, Inputs
<1> QED BY <1>6, <1>7, <1>8 DEF RecordInv

(* A step of the inputs in which each input that is open has been open     *)
(* before, with the same source, or was not refused.                       *)
LEMMA HeldKept ==
  ASSUME HeldInv, UNCHANGED modes,
         \A c \in Client :
           \/ mInputs'[c].state = "none"
           \/ InVoiceCall => ~Blocked(mInputs'[c].source)
           \/ /\ mInputs[c].state # "none" /\ mInputs'[c].source = mInputs[c].source
              /\ mInputs'[c].held = mInputs[c].held
  PROVE  HeldInv'
BY DEF HeldInv, InVoiceCall, Blocked, Has, modes

LEMMA GetInputOK ==
  ASSUME RecordInv, CallStateKnown, NEW c \in Client, NEW source \in Source,
         getInputForAttr(c, source)
  PROVE  RecordInv'
<1> DEFINE new == [state |-> "idle", source |-> source, held |-> FALSE]
<1>1. /\ mInputs \in Inputs /\ mInputs[c].state = "none" /\ ~Refuses(source)
      /\ mInputs' = [mInputs EXCEPT ![c] = new]
      /\ UNCHANGED modes /\ config' = config
      /\ UNCHANGED <<mIsInputRequestOnProgress, rec_play_conc_on, capture>>
  BY DEF getInputForAttr, RecordInv, InputsType, Inputs, modes
<1>2. new \in Input
  BY DEF Input
<1>3. mInputs' \in Inputs /\ mInputs'[c] = new
      /\ \A d \in Client \ {c} : mInputs'[d] = mInputs[d]
  BY <1>1, <1>2 DEF Inputs
<1>4. InVoiceCall => ~Blocked(source)
  BY <1>1 DEF Refuses, CallStateKnown, Blocked
<1>5. HeldInv'
  <2>1. InVoiceCall => ~Blocked(mInputs'[c].source)
    BY <1>3, <1>4
  <2> HIDE DEF new
  <2> QED BY <1>1, <1>3, <2>1, HeldKept DEF RecordInv
<1>6. ActivePrimary(mInputs)' = ActivePrimary(mInputs)
  BY <1>1, <1>3, PolicyAssumption DEF ActivePrimary
<1>7. RecordingTold' /\ CaptureReported'
  BY <1>1, <1>6 DEF RecordInv, RecordingTold, CaptureReported, RecPlay, Has
<1> QED BY <1>1, <1>3, <1>5, <1>7 DEF RecordInv, InputsType, Inputs

LEMMA StopInputOK ==
  ASSUME RecordInv, NEW c \in Client, stopInput(c)
  PROVE  RecordInv'
<1>1. /\ mInputs \in Inputs /\ mInputs' = Ended({c}) /\ UNCHANGED modes /\ config' = config
      /\ capture' = CaptureAfter({c}, mInputs')
      /\ rec_play_conc_on' = (rec_play_conc_on /\ ~RecPlayOff({c}, mInputs'))
      /\ mIsInputRequestOnProgress' = mIsInputRequestOnProgress
  BY DEF stopInput, RecordInv, InputsType, Inputs, modes
<1>2. /\ mInputs' \in Inputs
      /\ \A d \in Client : /\ mInputs'[d].source = mInputs[d].source
                           /\ mInputs'[d].held = mInputs[d].held
                           /\ mInputs'[d].state = IF d \in {c} /\ mInputs[d].state = "active"
                                                  THEN "idle" ELSE mInputs[d].state
  BY <1>1, EndedFacts
<1>3. \A d \in Client : (mInputs'[d].state = "active")
                          <=> (mInputs[d].state = "active" /\ d \notin {c})
  BY <1>2
<1>4. RecordingTold' /\ CaptureReported'
  BY <1>1, <1>2, <1>3, EndOK DEF RecordInv
<1>5. HeldInv'
  BY <1>1, <1>2, HeldKept DEF RecordInv
<1>6. capture' \in BOOLEAN /\ rec_play_conc_on' \in BOOLEAN
  BY <1>1 DEF CaptureAfter
<1> QED BY <1>1, <1>2, <1>4, <1>5, <1>6 DEF RecordInv, InputsType, Inputs

LEMMA ReleaseInputOK ==
  ASSUME RecordInv, NEW c \in Client, releaseInput(c) \/ closeInput(c)
  PROVE  RecordInv'
<1>1. /\ mInputs \in Inputs /\ mInputs' = [mInputs EXCEPT ![c] = NoInput]
      /\ UNCHANGED modes /\ config' = config
      /\ UNCHANGED <<mIsInputRequestOnProgress, rec_play_conc_on>>
  BY DEF releaseInput, closeInput, RecordInv, InputsType, Inputs, modes
<1>2. NoInput \in Input /\ NoInput.state = "none"
  BY DEF NoInput, Input, Source
<1>3. mInputs' \in Inputs /\ mInputs'[c] = NoInput
      /\ \A d \in Client \ {c} : mInputs'[d] = mInputs[d]
  BY <1>1, <1>2 DEF Inputs
<1>4. HeldInv'
  BY <1>1, <1>2, <1>3, HeldKept DEF RecordInv
<1>5. /\ ActivePrimary(mInputs)' = ActivePrimary(mInputs')
      /\ ActivePrimary(mInputs') = ActivePrimary(mInputs) \ {c}
  BY <1>2, <1>3, PolicyAssumption DEF ActivePrimary
<1>6. RecordingTold'
  BY <1>1, <1>5 DEF RecordInv, RecordingTold, RecPlay, Has
<1>7. CaptureReported' /\ capture' \in BOOLEAN
  <2>1. CASE releaseInput(c)
    <3>1. capture' = capture /\ c \notin ActivePrimary(mInputs)
      BY <2>1 DEF releaseInput, ActivePrimary
    <3>2. ActivePrimary(mInputs') = ActivePrimary(mInputs)
      BY <1>5, <3>1
    <3> QED BY <1>1, <1>5, <3>1, <3>2 DEF RecordInv, InputsType, CaptureReported, Has
  <2>2. CASE closeInput(c)
    <3>1. /\ capture' = (capture /\ ~(c \in Primary /\ ActivePrimary(mInputs') = {}))
          /\ mInputs[c].state = "active"
      BY <2>2 DEF closeInput
    <3>2. c \in Primary <=> c \in ActivePrimary(mInputs)
      BY <3>1 DEF ActivePrimary
    <3>3. ~Has("vaConc") => (capture <=> ActivePrimary(mInputs) # {})
      BY DEF RecordInv, CaptureReported
    <3>4. ~Has("vaConc") => (capture' <=> ActivePrimary(mInputs') # {})
      BY <1>5, <3>1, <3>2, <3>3
    <3> QED BY <1>1, <1>5, <3>1, <3>4 DEF RecordInv, InputsType, CaptureReported, Has
  <2> QED BY <2>1, <2>2
<1> QED BY <1>1, <1>3, <1>4, <1>6, <1>7 DEF RecordInv, InputsType, Inputs

LEMMA StartInputOK ==
  ASSUME RecordInv, NEW c \in Client, NEW ok \in BOOLEAN, startInput(c, ok)
  PROVE  RecordInv'
<1> DEFINE first == RecPlay /\ ActivePrimary(mInputs) = {}
<1>1. /\ mInputs \in Inputs /\ UNCHANGED modes /\ config' = config
      /\ mInputs[c].state = "idle"
      /\ rec_play_conc_on' = (rec_play_conc_on \/ first)
      /\ mIsInputRequestOnProgress' =
           (IF Has("recPlayConc") THEN ~ok ELSE mIsInputRequestOnProgress)
      /\ mInputs' = IF ok THEN [mInputs EXCEPT ![c].state = "active"] ELSE mInputs
      /\ capture' = (capture \/ (ok /\ FirstCapture(c, mInputs')))
  BY DEF startInput, RecordInv, InputsType, Inputs, modes
<1>2. mInputs[c] \in Input /\ [mInputs[c] EXCEPT !.state = "active"] \in Input
  BY <1>1 DEF Inputs, Input
<1>3. /\ mInputs' \in Inputs
      /\ mInputs'[c].source = mInputs[c].source /\ mInputs'[c].held = mInputs[c].held
      /\ mInputs'[c].state = IF ok THEN "active" ELSE "idle"
      /\ \A d \in Client \ {c} : mInputs'[d] = mInputs[d]
  BY <1>1, <1>2 DEF Inputs, Input
<1>4. HeldInv'
  BY <1>1, <1>3, HeldKept DEF RecordInv
<1>5. /\ ActivePrimary(mInputs)' = ActivePrimary(mInputs')
      /\ ActivePrimary(mInputs') = ActivePrimary(mInputs) \cup (IF ok /\ c \in Primary THEN {c}
                                                                ELSE {})
  BY <1>1, <1>3, PolicyAssumption DEF ActivePrimary
<1>6. RecordingTold'
  BY <1>1, <1>5 DEF RecordInv, RecordingTold, RecPlay, Has
<1>7. CaptureReported'
  <2> SUFFICES ASSUME ~Has("vaConc") PROVE capture' <=> ActivePrimary(mInputs') # {}
    BY <1>1, <1>5 DEF CaptureReported, Has
  <2>1. capture <=> ActivePrimary(mInputs) # {}
    BY DEF RecordInv, CaptureReported
  <2>2. capture' <=> capture \/ (ok /\ c \in Primary /\ ActivePrimary(mInputs') = {c})
    BY <1>1 DEF FirstCapture
  <2> QED BY <1>5, <2>1, <2>2
<1>8. rec_play_conc_on' \in BOOLEAN /\ capture' \in BOOLEAN
      /\ mIsInputRequestOnProgress' \in BOOLEAN
  BY <1>1 DEF RecordInv, InputsType
<1> QED BY <1>3, <1>4, <1>6, <1>7, <1>8 DEF RecordInv, InputsType, Inputs

-----------------------------------------------------------------------------
(* The outputs.                                                            *)
OutputInv == OutputsType /\ (NoOffloadDuring => Clean(mOutputs))

LEMMA ModeOutputsOK ==
  ASSUME ModesType, InputsType, OutputInv, NEW state \in Mode, setPhoneState(state)
  PROVE  OutputInv'
<1> DEFINE Entry == IF EntersCall(state) THEN {o \in Output : FallsBack(o)} ELSE {}
           Dsd   == IF Has("dsdDisabled") THEN {o \in Output : o.profile = "dsd"} ELSE {}
           Comm  == IF RecPlay /\ state = "in_comm" THEN Offloads ELSE {}
           one   == ClosingLoop(mOutputs, Entry)
           two   == ClosingLoop(one, Dsd)
           three == ClosingLoop(two, Comm)
<1>1. /\ mOutputs' = three /\ granted' = granted /\ config' = config
      /\ state # phone /\ phone' = state /\ mPrevPhoneState' = phone
      /\ mInputs' = InputsInMode(state)
  BY DEF setPhoneState, OutputsInMode
<1>2. mOutputs \in Seq(Output) /\ Len(mOutputs) <= MaxOutput
  BY DEF OutputInv, OutputsType
<1>3. one \in Seq(Output) /\ Len(one) <= Len(mOutputs)
  <2> HIDE DEF Entry
  <2> QED BY <1>2, ClosingFacts
<1>4. two \in Seq(Output) /\ Len(two) <= Len(one)
  <2> HIDE DEF one, Dsd
  <2> QED BY <1>3, ClosingFacts
<1>5. three \in Seq(Output) /\ Len(three) <= Len(two)
  <2> HIDE DEF two, Comm
  <2> QED BY <1>4, ClosingFacts
<1>6. Clean(one) => Clean(three)
  <2> HIDE DEF one, Dsd, Comm
  <2>1. Clean(one) => Clean(two)
    BY <1>3, LoopKeepsClean
  <2> HIDE DEF two
  <2> QED BY <1>4, <2>1, LoopKeepsClean
<1>7. Clean(mOutputs) => Clean(one)
  <2> HIDE DEF Entry
  <2> QED BY <1>2, LoopKeepsClean
<1> HIDE DEF two, three
<1>8. OutputsType'
  <2> HIDE DEF one
  <2>1. /\ Len(mOutputs) \in Nat /\ Len(one) \in Nat /\ Len(two) \in Nat
        /\ Len(three) \in Nat /\ MaxOutput \in Nat
    BY <1>2, <1>3, <1>4, <1>5, LenProperties, PolicyAssumption
  <2> QED BY <1>1, <1>2, <1>3, <1>4, <1>5, <2>1 DEF OutputInv, OutputsType
<1>9. ASSUME NoOffloadDuring' PROVE Clean(mOutputs)'
  <2>1. CASE NoOffloadDuring
    BY <1>1, <1>6, <1>7, <2>1 DEF OutputInv, Clean
  <2>2. CASE ~NoOffloadDuring
    <3>1. ActivePrimary(mInputs') \subseteq ActivePrimary(mInputs)
      <4>1. \A c \in Client : mInputs'[c].state = "active" => mInputs[c].state = "active"
        <5>1. mInputs \in Inputs /\ NoInput.state = "none"
          BY DEF InputsType, Inputs, NoInput
        <5> QED BY <1>1, <5>1, ModeInputs
      <4> QED BY <4>1, PolicyAssumption DEF ActivePrimary
    <3>2. ~(RecPlay /\ ActivePrimary(mInputs) # {})' /\ RecPlay' = RecPlay
      <4>1. RecPlay' = RecPlay /\ ActivePrimary(mInputs)' = ActivePrimary(mInputs')
        BY <1>1 DEF RecPlay, Has, ActivePrimary
      <4> QED BY <2>2, <3>1, <4>1 DEF NoOffloadDuring
    <3>3. Has("voiceConc") /\ Has("playDisabled") /\ InVoiceCall' /\ ~InVoiceCall
      BY <1>1, <1>9, <2>2, <3>2 DEF NoOffloadDuring, Has
    <3>4. EntersCall(state)
      BY <1>1, <3>3 DEF InVoiceCall, EntersCall
    <3>5. Offloads \subseteq Entry
      BY <3>3, <3>4 DEF Offloads, FallsBack, Offload
    <3>6. Clean(one)
      <4> HIDE DEF Entry
      <4> QED BY <1>2, <3>5, LoopCleans
    <3> QED BY <1>1, <1>6, <3>6 DEF Clean
  <2> QED BY <2>1, <2>2
<1> QED BY <1>8, <1>9 DEF OutputInv

LEMMA StartOutputsOK ==
  ASSUME OutputInv, InputsType, NEW c \in Client, NEW ok \in BOOLEAN, startInput(c, ok)
  PROVE  OutputInv'
<1> DEFINE first == RecPlay /\ ActivePrimary(mInputs) = {}
           after == ClosingLoop(mOutputs, Offloads)
<1>1. /\ mOutputs' = IF first THEN after ELSE mOutputs
      /\ UNCHANGED modes /\ granted' = granted
      /\ mInputs' = IF ok THEN [mInputs EXCEPT ![c].state = "active"] ELSE mInputs
  BY DEF startInput
<1>2. mOutputs \in Seq(Output) /\ Len(mOutputs) <= MaxOutput
  BY DEF OutputInv, OutputsType
<1>3. after \in Seq(Output) /\ Len(after) <= Len(mOutputs) /\ Clean(after)
  BY <1>2, ClosingFacts, LoopCleans
<1> HIDE DEF after
<1>4. OutputsType'
  <2>1. Len(mOutputs) \in Nat /\ Len(after) \in Nat /\ MaxOutput \in Nat
    BY <1>2, <1>3, LenProperties, PolicyAssumption
  <2> QED BY <1>1, <1>2, <1>3, <2>1 DEF OutputInv, OutputsType
<1>5. ASSUME NoOffloadDuring' PROVE Clean(mOutputs)'
  <2>1. CASE first
    BY <1>1, <1>3, <2>1 DEF Clean
  <2>2. CASE ~first
    <3>1. NoOffloadDuring
      BY <1>1, <1>5, <2>2 DEF NoOffloadDuring, InVoiceCall, RecPlay, Has, modes
    <3> QED BY <1>1, <2>2, <3>1 DEF OutputInv, Clean
  <2> QED BY <2>1, <2>2
<1> QED BY <1>4, <1>5 DEF OutputInv

(* No other step of the inputs begins a recording or a call.               *)
LEMMA OutputsKept ==
  ASSUME OutputInv, UNCHANGED <<modes, mOutputs, granted>>,
         ActivePrimary(mInputs') \subseteq ActivePrimary(mInputs)
  PROVE  OutputInv'
<1>1. ActivePrimary(mInputs)' = ActivePrimary(mInputs')
  BY DEF ActivePrimary
<1>2. NoOffloadDuring' => NoOffloadDuring
  BY <1>1 DEF NoOffloadDuring, InVoiceCall, RecPlay, Has, modes
<1> QED BY <1>2 DEF OutputInv, OutputsType, Clean

(* What becomes of a request: while offload is excluded no flag asks for   *)
(* it any more.                                                            *)
LEMMA ProfileFacts ==
  ASSUME CallStateKnown, NEW q \in Request, NEW proxy \in BOOLEAN
  PROVE  /\ ProfileFor(q, proxy) \in Profile \cup {"mixed"}
         /\ NoOffloadDuring => ProfileFor(q, proxy) \notin {"compress", "dsd"}
<1> DEFINE f0 == VoipFlags(q)  f1 == VoiceFlags(f0, q)  f2 == RecordFlags(f1)
           f3 == ProxyFlags(f2, q, proxy)  f4 == DirectFlags(f3, q)
<1>1. "compress" \in f0 => f0 = {"compress"}
  BY DEF VoipFlags, Request
<1>2. "compress" \in f1 => f1 = {"compress"} /\ f1 = f0
  <2> HIDE DEF f0
  <2> QED BY <1>1 DEF VoiceFlags
<1>3. Has("voiceConc") /\ Has("playDisabled") /\ InVoiceCall => "compress" \notin f1
  <2>1. "voip_rx" \in f0 => "compress" \notin f0
    BY <1>1
  <2> HIDE DEF f0
  <2> QED BY <2>1 DEF VoiceFlags, CallStateKnown
<1> HIDE DEF f1
<1>4. /\ "compress" \in f2 => "compress" \in f1
      /\ RecordingNow => "compress" \notin f2
  BY <1>2 DEF RecordFlags
<1> HIDE DEF f2
<1>5. "compress" \in f3 => "compress" \in f2
  BY DEF ProxyFlags
<1> HIDE DEF f3
<1>6. "compress" \in f4 => "compress" \in f3
  BY DEF DirectFlags
<1>7. Flags(q, proxy) = f4
  BY DEF Flags, f1, f2, f3
<1> HIDE DEF f4
<1>8. NoOffloadDuring => "compress" \notin f4
  BY <1>3, <1>4, <1>5, <1>6 DEF NoOffloadDuring, RecordingNow
<1> QED BY <1>7, <1>8 DEF ProfileFor, Profile

LEMMA OfferOK ==
  ASSUME OutputInv, NEW s \in Session, NEW dsd \in BOOLEAN, isOffloadSupported(s, dsd)
  PROVE  OutputInv'
<1>1. UNCHANGED <<modes, mOutputs, mInputs>> /\ granted' = granted \cup {s}
  BY DEF isOffloadSupported, recording
<1> QED BY <1>1 DEF OutputInv, OutputsType, NoOffloadDuring, InVoiceCall, RecPlay, Has, modes,
                    ActivePrimary, Clean

LEMMA GetOutputOK ==
  ASSUME OutputInv, CallStateKnown, NEW s \in Session, NEW q \in Request,
         NEW proxy \in BOOLEAN, getOutputForDevices(s, q, proxy)
  PROVE  OutputInv'
<1> DEFINE p == ProfileFor(q, proxy)
           new == [profile |-> p, session |-> s, jumped |-> FALSE]
<1>1. /\ p # "mixed" /\ Len(mOutputs) < MaxOutput
      /\ mOutputs' = Append(mOutputs, new) /\ granted' = granted \ {s}
      /\ UNCHANGED <<modes, mInputs>>
  BY DEF getOutputForDevices, recording
<1>2. p \in Profile /\ (NoOffloadDuring => ~Offload(new))
  BY <1>1, ProfileFacts DEF Offload
<1>3. new \in Output
  <2> HIDE DEF p
  <2> QED BY <1>2 DEF Output
<1> HIDE DEF new
<1>4. mOutputs \in Seq(Output) /\ granted \subseteq Session /\ Len(mOutputs) \in Nat
  BY LenProperties DEF OutputInv, OutputsType
<1>5. /\ mOutputs' \in Seq(Output) /\ Len(mOutputs') = Len(mOutputs) + 1
      /\ mOutputs'[Len(mOutputs) + 1] = new
      /\ \A k \in 1..Len(mOutputs) : mOutputs'[k] = mOutputs[k]
  BY <1>1, <1>3, <1>4, AppendProperties
<1>6. MaxOutput \in Nat
  BY PolicyAssumption
<1>7. OutputsType'
  BY <1>1, <1>4, <1>5, <1>6 DEF OutputsType
<1>8. NoOffloadDuring' = NoOffloadDuring
  BY <1>1 DEF NoOffloadDuring, InVoiceCall, RecPlay, Has, modes, ActivePrimary
<1>9. ASSUME NoOffloadDuring PROVE Clean(mOutputs)'
  <2>1. SUFFICES ASSUME NEW k \in 1..Len(mOutputs'), Offload(mOutputs'[k])
                 PROVE  mOutputs'[k].jumped
    BY DEF Clean, Offload
  <2>2. CASE k \in 1..Len(mOutputs)
    BY <1>5, <1>9, <2>1, <2>2 DEF OutputInv, Clean
  <2>3. CASE k = Len(mOutputs) + 1
    BY <1>2, <1>5, <1>9, <2>1, <2>3
  <2> QED BY <1>4, <1>5, <2>2, <2>3
<1> QED BY <1>7, <1>8, <1>9 DEF OutputInv

LEMMA ReleaseOutputOK ==
  ASSUME OutputInv, NEW i, releaseOutput(i)
  PROVE  OutputInv'
<1>1. /\ i \in DOMAIN mOutputs /\ mOutputs' = RemoveAt(mOutputs, i)
      /\ UNCHANGED <<modes, mInputs, granted>>
  BY DEF releaseOutput, recording
<1> DEFINE n == Len(mOutputs)
           left == SubSeq(mOutputs, 1, i - 1)  right == SubSeq(mOutputs, i + 1, n)
<1>2. mOutputs \in Seq(Output) /\ n \in Nat /\ i \in 1..n
  BY <1>1, LenProperties DEF OutputInv, OutputsType
<1> HIDE DEF n
<1>3. /\ left \in Seq(Output) /\ Len(left) = i - 1
      /\ \A k \in 1..(i - 1) : left[k] = mOutputs[k]
  BY <1>2, SubSeqProperties DEF n
<1>4. /\ right \in Seq(Output) /\ Len(right) = n - i
      /\ \A k \in 1..(n - i) : right[k] = mOutputs[i + k]
  BY <1>2, SubSeqProperties DEF n
<1>5. mOutputs' = left \o right
  BY <1>1 DEF RemoveAt, n
<1> HIDE DEF left, right
<1>6. /\ mOutputs' \in Seq(Output) /\ Len(mOutputs') = n - 1
      /\ \A k \in 1..Len(mOutputs') : \E j \in 1..n : mOutputs'[k] = mOutputs[j]
  <2>1. /\ mOutputs' \in Seq(Output) /\ Len(mOutputs') = Len(left) + Len(right)
        /\ \A k \in 1..(Len(left) + Len(right)) :
             mOutputs'[k] = IF k <= Len(left) THEN left[k] ELSE right[k - Len(left)]
    BY <1>3, <1>4, <1>5, ConcatProperties
  <2>2. Len(mOutputs') = n - 1
    BY <1>2, <1>3, <1>4, <2>1
  <2>3. ASSUME NEW k \in 1..(n - 1) PROVE \E j \in 1..n : mOutputs'[k] = mOutputs[j]
    <3>1. CASE k <= i - 1
      BY <1>2, <1>3, <1>4, <2>1, <2>3, <3>1
    <3>2. CASE k > i - 1
      <4>1. k - (i - 1) \in 1..(n - i) /\ i + (k - (i - 1)) \in 1..n
        BY <1>2, <2>3, <3>2
      <4>2. mOutputs'[k] = right[k - (i - 1)]
        BY <1>2, <1>3, <1>4, <2>1, <2>3, <3>2
      <4> QED BY <1>4, <4>1, <4>2
    <3> QED BY <1>2, <3>1, <3>2
  <2> QED BY <2>1, <2>2, <2>3
<1>7. OutputsType'
  <2>1. n <= MaxOutput /\ granted \subseteq Session /\ MaxOutput \in Nat
    BY PolicyAssumption DEF OutputInv, OutputsType, n
  <2> QED BY <1>1, <1>2, <1>6, <2>1 DEF OutputsType
<1>8. NoOffloadDuring' = NoOffloadDuring
  BY <1>1 DEF NoOffloadDuring, InVoiceCall, RecPlay, Has, modes, ActivePrimary
<1>9. Clean(mOutputs) => Clean(mOutputs)'
  BY <1>6 DEF Clean, n
<1> QED BY <1>7, <1>8, <1>9 DEF OutputInv

-----------------------------------------------------------------------------
(* All steps of calls, recordings and players.                             *)
LEMMA PolicyStep ==
  ASSUME IInv, [Next]_vars
  PROVE  IInv'
<1>1. /\ ModesType /\ CallStateKnown /\ SuspendInv /\ InputsType
      /\ RecordInv /\ OutputInv
  BY DEF IInv, RecordInv, OutputInv
<1>2. ModesType' /\ CallStateKnown' /\ SuspendInv' /\ RecordInv' /\ OutputInv' => IInv'
  BY DEF IInv, RecordInv, OutputInv
<1>3. CASE \E state \in Mode : setPhoneState(state)
  BY <1>1, <1>2, <1>3, ModesKept, ModeRecordOK, ModeOutputsOK
<1>4. ASSUME NEW c \in Client, NEW source \in Records[c], getInputForAttr(c, source) PROVE IInv'
  <2>1. source \in Source
    BY <1>4, PolicyAssumption
  <2>2. UNCHANGED <<modes, mOutputs, granted>>
    BY <1>4 DEF getInputForAttr
  <2>3. ActivePrimary(mInputs') \subseteq ActivePrimary(mInputs)
    <3>1. /\ mInputs \in Inputs
          /\ mInputs' = [mInputs EXCEPT ![c] = [state |-> "idle", source |-> source,
                                                held |-> FALSE]]
      BY <1>1, <1>4 DEF getInputForAttr, InputsType, Inputs
    <3>2. \A d \in Client : mInputs'[d].state = "active" => mInputs[d].state = "active"
      BY <3>1 DEF Inputs
    <3> QED BY <3>2, PolicyAssumption DEF ActivePrimary
  <2> QED BY <1>1, <1>2, <1>4, <2>1, <2>2, <2>3, ModesUnchanged, GetInputOK, OutputsKept
<1>5. ASSUME NEW c \in Client, NEW ok \in BOOLEAN, startInput(c, ok) PROVE IInv'
  <2>1. UNCHANGED modes
    BY <1>5 DEF startInput
  <2> QED BY <1>1, <1>2, <1>5, <2>1, ModesUnchanged, StartInputOK, StartOutputsOK
<1>6. ASSUME NEW c \in Client, stopInput(c) \/ releaseInput(c) \/ closeInput(c) PROVE IInv'
  <2>1. UNCHANGED <<modes, mOutputs, granted>> /\ mInputs \in Inputs
    BY <1>1, <1>6 DEF stopInput, releaseInput, closeInput, InputsType, Inputs
  <2>2. \A d \in Client : mInputs'[d].state = "active" => mInputs[d].state = "active"
    <3>1. CASE stopInput(c)
      <4>1. mInputs' = Ended({c})
        BY <3>1 DEF stopInput
      <4> QED BY <2>1, <4>1, EndedFacts
    <3>2. CASE releaseInput(c) \/ closeInput(c)
      <4>1. mInputs' = [mInputs EXCEPT ![c] = NoInput] /\ NoInput.state = "none"
        BY <3>2 DEF releaseInput, closeInput, NoInput
      <4> QED BY <2>1, <4>1 DEF Inputs
    <3> QED BY <1>6, <3>1, <3>2
  <2>3. ActivePrimary(mInputs') \subseteq ActivePrimary(mInputs)
    BY <2>2, PolicyAssumption DEF ActivePrimary
  <2>4. RecordInv'
    BY <1>1, <1>6, StopInputOK, ReleaseInputOK
  <2> QED BY <1>1, <1>2, <2>1, <2>3, <2>4, ModesUnchanged, OutputsKept
<1>7. ASSUME UNCHANGED <<modes, recording>>, OutputInv' PROVE IInv'
  <2>1. /\ mInputs' = mInputs /\ rec_play_conc_on' = rec_play_conc_on /\ capture' = capture
        /\ mIsInputRequestOnProgress' = mIsInputRequestOnProgress
    BY <1>7 DEF recording
  <2>2. RecordInv'
    BY <1>1, <1>7, <2>1 DEF RecordInv, InputsType, RecordingTold, HeldInv, CaptureReported,
                            RecPlay, ActivePrimary, InVoiceCall, Blocked, Has, modes
  <2> QED BY <1>1, <1>2, <1>7, <2>2, ModesUnchanged
<1>8. CASE UNCHANGED vars
  <2>1. UNCHANGED <<modes, recording, mOutputs, granted, mInputs>>
    BY <1>8 DEF vars, recording
  <2>2. OutputInv'
    BY <1>1, <2>1, OutputsKept
  <2> QED BY <1>7, <2>1, <2>2
<1>9. ASSUME NEW s \in Session, NEW dsd \in BOOLEAN, isOffloadSupported(s, dsd) PROVE IInv'
  <2>1. UNCHANGED <<modes, recording>>
    BY <1>9 DEF isOffloadSupported
  <2> QED BY <1>1, <1>7, <1>9, <2>1, OfferOK
<1>10. ASSUME NEW s \in Session, NEW q \in Request, NEW proxy \in BOOLEAN,
              getOutputForDevices(s, q, proxy)
       PROVE  IInv'
  <2>1. UNCHANGED <<modes, recording>>
    BY <1>10 DEF getOutputForDevices
  <2> QED BY <1>1, <1>7, <1>10, <2>1, GetOutputOK
<1>11. ASSUME NEW i, releaseOutput(i) PROVE IInv'
  <2>1. UNCHANGED <<modes, recording>>
    BY <1>11 DEF releaseOutput
  <2> QED BY <1>1, <1>7, <1>11, <2>1, ReleaseOutputOK
<1> QED BY <1>3, <1>4, <1>5, <1>6, <1>8, <1>9, <1>10, <1>11 DEF Next

-----------------------------------------------------------------------------
(* Tracks and HDMI: TypeOK of AudioSources, in parts.                      *)
TracksType ==
  /\ active \subseteq Sources!Track /\ IsFiniteSet(active)
  /\ alarmMute \in 0..Sources!MaxMute
  /\ enforcedSystem \in BOOLEAN /\ submix \in BOOLEAN
  /\ switched \in BOOLEAN /\ cut \in BOOLEAN /\ failed \subseteq {"submix", "hdmi"}

HdmiType ==
  /\ hdmiSpkEnabled \in BOOLEAN /\ hdmi \in BOOLEAN /\ dpForVoice \in BOOLEAN
  /\ mHdmiAudioDisabled \in BOOLEAN /\ mHdmiAudioEvent \in BOOLEAN

Enforced == {t \in active : t.stream = "enforced"}

MuteInv == ~switched => alarmMute = IF enforcedSystem THEN Cardinality(Enforced) ELSE 0

SubmixInv ==
  /\ submix => Sources!Playing("mix") # {}
  /\ Sources!Playing("mix") # {} /\ ~cut /\ "submix" \notin failed => submix

SourcesInv == TracksType /\ HdmiType /\ MuteInv /\ SubmixInv /\ Sources!HdmiFollowsBoth

LEMMA SourcesInitOK == Sources!Init => SourcesInv
<1> SUFFICES ASSUME Sources!Init PROVE SourcesInv
  OBVIOUS
<1>1. /\ active = {} /\ alarmMute = 0 /\ enforcedSystem = FALSE /\ submix = FALSE
      /\ hdmiSpkEnabled \in BOOLEAN /\ hdmi = FALSE /\ mHdmiAudioDisabled = FALSE
      /\ mHdmiAudioEvent = FALSE /\ dpForVoice = FALSE /\ switched = FALSE /\ cut = FALSE
      /\ failed = {}
  BY DEF Sources!Init
<1>2. IsFiniteSet(active) /\ 0 \in 0..Sources!MaxMute
  BY <1>1, FS_EmptySet DEF Sources!MaxMute
<1>3. TracksType
  BY <1>1, <1>2 DEF TracksType
<1>4. HdmiType
  BY <1>1 DEF HdmiType
<1>5. MuteInv /\ SubmixInv
  BY <1>1 DEF MuteInv, SubmixInv, Sources!Playing
<1> QED BY <1>1, <1>3, <1>4, <1>5 DEF SourcesInv, Sources!HdmiFollowsBoth

LEMMA StartSourceOK ==
  ASSUME SourcesInv, NEW t \in Sources!Track, NEW opens \in BOOLEAN,
         Sources!startSource(t, opens)
  PROVE  SourcesInv'
<1>1. /\ t \notin active /\ alarmMute < Sources!MaxMute /\ active' = active \cup {t}
      /\ alarmMute' = IF t.stream = "enforced" /\ enforcedSystem THEN alarmMute + 1
                      ELSE alarmMute
      /\ submix' = (submix \/ (t.output = "mix" /\ opens))
      /\ failed' = IF t.output # "mix" \/ submix THEN failed
                   ELSE IF opens THEN failed \ {"submix"} ELSE failed \cup {"submix"}
      /\ cut' = (cut /\ ~submix')
      /\ UNCHANGED <<enforcedSystem, switched, hdmiSpkEnabled, hdmi, mHdmiAudioDisabled,
                     mHdmiAudioEvent, dpForVoice>>
  BY DEF Sources!startSource, Sources!devices
<1>2. TracksType /\ HdmiType /\ MuteInv /\ SubmixInv
  BY DEF SourcesInv
<1>3. IsFiniteSet(active')
  BY <1>1, <1>2, FS_AddElement DEF TracksType
<1>4. alarmMute' \in 0..Sources!MaxMute
  BY <1>1, <1>2 DEF TracksType, Sources!MaxMute
<1>5. TracksType'
  BY <1>1, <1>2, <1>3, <1>4 DEF TracksType
<1>6. MuteInv'
  <2>1. IsFiniteSet(Enforced) /\ t \notin Enforced
    BY <1>1, <1>2, FS_Subset DEF TracksType, Enforced
  <2>2. CASE t.stream = "enforced"
    <3>1. Enforced' = Enforced \cup {t}
      BY <1>1, <2>2 DEF Enforced
    <3>2. Cardinality(Enforced') = Cardinality(Enforced) + 1
      BY <2>1, <3>1, FS_AddElement
    <3> QED BY <1>1, <1>2, <2>2, <3>2 DEF MuteInv
  <2>3. CASE t.stream # "enforced"
    <3>1. Enforced' = Enforced
      BY <1>1, <2>3 DEF Enforced
    <3> QED BY <1>1, <1>2, <2>3, <3>1 DEF MuteInv
  <2> QED BY <2>2, <2>3
<1>7. SubmixInv'
  <2>1. CASE t.output = "mix"
    <3>1. t \in Sources!Playing("mix")'
      BY <1>1, <2>1 DEF Sources!Playing
    <3>2. ~submix' => "submix" \in failed'
      BY <1>1, <2>1
    <3> QED BY <3>1, <3>2 DEF SubmixInv
  <2>2. CASE t.output # "mix"
    <3>1. Sources!Playing("mix")' = Sources!Playing("mix")
      BY <1>1, <2>2 DEF Sources!Playing
    <3> QED BY <1>1, <1>2, <2>2, <3>1 DEF SubmixInv
  <2> QED BY <2>1, <2>2
<1>8. HdmiType'
  BY <1>1, <1>2 DEF HdmiType
<1>9. Sources!HdmiFollowsBoth'
  BY <1>1 DEF SourcesInv, Sources!HdmiFollowsBoth
<1> QED BY <1>5, <1>6, <1>7, <1>8, <1>9 DEF SourcesInv

LEMMA StopSourceOK ==
  ASSUME SourcesInv, NEW t \in Sources!Track, Sources!stopSource(t)
  PROVE  SourcesInv'
<1> DEFINE mix == Sources!Playing("mix")
<1>1. /\ t \in active /\ active' = active \ {t}
      /\ submix' = (submix /\ ~Sources!StopsLast(t))
      /\ cut' = (mix' # {} /\ (cut \/ (submix /\ Sources!StopsLast(t))))
      /\ alarmMute' = IF t.stream = "enforced" /\ enforcedSystem /\ alarmMute > 0
                      THEN alarmMute - 1 ELSE alarmMute
      /\ failed' = IF mix' = {} THEN failed \ {"submix"} ELSE failed
      /\ UNCHANGED <<enforcedSystem, switched, hdmiSpkEnabled, hdmi, mHdmiAudioDisabled,
                     mHdmiAudioEvent, dpForVoice>>
  BY DEF Sources!stopSource, Sources!devices
<1>2. TracksType /\ HdmiType /\ MuteInv /\ SubmixInv
  BY DEF SourcesInv
<1>3. IsFiniteSet(active')
  BY <1>1, <1>2, FS_RemoveElement DEF TracksType
<1>4. alarmMute' \in 0..Sources!MaxMute
  BY <1>1, <1>2 DEF TracksType, Sources!MaxMute
<1>5. TracksType'
  <2>1. submix' \in BOOLEAN /\ cut' \in BOOLEAN
    BY <1>1
  <2> QED BY <1>1, <1>2, <1>3, <1>4, <2>1 DEF TracksType
<1>6. MuteInv'
  <2>1. IsFiniteSet(Enforced)
    BY <1>2, FS_Subset DEF TracksType, Enforced
  <2>2. CASE t.stream = "enforced"
    <3>1. Enforced' = Enforced \ {t} /\ t \in Enforced
      BY <1>1, <2>2 DEF Enforced
    <3>2. /\ Cardinality(Enforced') = Cardinality(Enforced) - 1
          /\ Cardinality(Enforced) \in Nat /\ Cardinality(Enforced) # 0
      BY <2>1, <3>1, FS_RemoveElement, FS_CardinalityType, FS_EmptySet
    <3> QED BY <1>1, <1>2, <2>2, <3>2 DEF MuteInv
  <2>3. CASE t.stream # "enforced"
    <3>1. Enforced' = Enforced
      BY <1>1, <2>3 DEF Enforced
    <3> QED BY <1>1, <1>2, <2>3, <3>1 DEF MuteInv
  <2> QED BY <2>2, <2>3
<1>7. mix' = mix \ {t}
  BY <1>1 DEF Sources!Playing
<1>8. submix' => mix' # {}
  <2> SUFFICES ASSUME submix, mix' = {} PROVE Sources!StopsLast(t)
    BY <1>1
  <2>1. mix = {t}
    BY <1>2, <1>7 DEF SubmixInv
  <2>2. t.output = "mix"
    BY <2>1 DEF Sources!Playing
  <2>3. {u \in Sources!Playing(t.output) : u.stream = t.stream} = {t}
    BY <2>1, <2>2
  <2>4. Sources!Cardinality({t}) = 1
    BY FS_Singleton DEF Sources!Cardinality, Cardinality
  <2> QED BY <2>2, <2>3, <2>4 DEF Sources!StopsLast, Sources!ActivityCount
<1>9. mix' # {} /\ ~cut' /\ "submix" \notin failed' => submix'
  BY <1>1, <1>2, <1>7 DEF SubmixInv
<1>10. HdmiType'
  BY <1>1, <1>2 DEF HdmiType
<1>11. Sources!HdmiFollowsBoth'
  BY <1>1 DEF SourcesInv, Sources!HdmiFollowsBoth
<1> QED BY <1>5, <1>6, <1>8, <1>9, <1>10, <1>11 DEF SourcesInv, SubmixInv

LEMMA ForceUseOK ==
  ASSUME SourcesInv, Sources!setForceUse
  PROVE  SourcesInv'
<1>1. /\ enforcedSystem' = ~enforcedSystem
      /\ switched' = (switched \/ \E t \in active : t.stream = "enforced")
      /\ UNCHANGED <<active, alarmMute, submix, cut, hdmiSpkEnabled, failed, hdmi,
                     mHdmiAudioDisabled, mHdmiAudioEvent, dpForVoice>>
  BY DEF Sources!setForceUse, Sources!devices
<1>2. TracksType /\ HdmiType /\ MuteInv /\ SubmixInv
  BY DEF SourcesInv
<1>3. MuteInv'
  <2> SUFFICES ASSUME ~switched' PROVE alarmMute' = 0 /\ Cardinality(Enforced') = 0
    BY <1>1 DEF MuteInv
  <2>1. Enforced = {} /\ Enforced' = {}
    BY <1>1 DEF Enforced
  <2>2. Cardinality(Enforced) = 0
    BY <2>1, FS_EmptySet
  <2> QED BY <1>1, <1>2, <2>1, <2>2 DEF MuteInv
<1>4. TracksType' /\ HdmiType'
  BY <1>1, <1>2 DEF TracksType, HdmiType
<1>5. SubmixInv' /\ Sources!HdmiFollowsBoth'
  BY <1>1, <1>2 DEF SourcesInv, SubmixInv, Sources!Playing, Sources!HdmiFollowsBoth
<1> QED BY <1>3, <1>4, <1>5 DEF SourcesInv

LEMMA HdmiOK ==
  ASSUME SourcesInv, NEW speaker \in BOOLEAN,
         \/ Sources!DisconnectHdmi(speaker)
         \/ \E opens, voice \in BOOLEAN : Sources!ConnectHdmi(speaker, opens, voice)
  PROVE  SourcesInv'
<1>1. TracksType /\ HdmiType /\ MuteInv /\ SubmixInv /\ Sources!HdmiFollowsBoth
  BY DEF SourcesInv
<1>2. /\ UNCHANGED <<active, alarmMute, enforcedSystem, submix, switched, cut, hdmiSpkEnabled>>
      /\ failed' \ {"hdmi"} = failed \ {"hdmi"}
  BY DEF Sources!DisconnectHdmi, Sources!ConnectHdmi, Sources!sources
<1>3. failed' \subseteq {"submix", "hdmi"} /\ ("submix" \in failed' <=> "submix" \in failed)
  BY <1>1, <1>2 DEF TracksType
<1>4. TracksType'
  BY <1>1, <1>2, <1>3 DEF TracksType
<1>5. MuteInv' /\ SubmixInv'
  BY <1>1, <1>2, <1>3 DEF MuteInv, SubmixInv, Enforced, Sources!Playing
<1>6. CASE Sources!DisconnectHdmi(speaker)
  <2>1. HdmiType'
    BY <1>1, <1>2, <1>6 DEF HdmiType, Sources!DisconnectHdmi, Sources!Event
  <2>2. Sources!HdmiFollowsBoth'
    BY <1>1, <1>2, <1>6
       DEF HdmiType, Sources!DisconnectHdmi, Sources!Event, Sources!HdmiFollowsBoth
  <2> QED BY <1>4, <1>5, <2>1, <2>2 DEF SourcesInv
<1>7. ASSUME NEW opens \in BOOLEAN, NEW voice \in BOOLEAN,
             Sources!ConnectHdmi(speaker, opens, voice)
      PROVE  SourcesInv'
  <2>1. HdmiType'
    BY <1>1, <1>2, <1>7 DEF HdmiType, Sources!ConnectHdmi, Sources!Event
  <2>2. Sources!HdmiFollowsBoth'
    BY <1>1, <1>2, <1>7
       DEF HdmiType, Sources!ConnectHdmi, Sources!Event, Sources!Wanted, Sources!HdmiFollowsBoth
  <2> QED BY <1>4, <1>5, <2>1, <2>2 DEF SourcesInv
<1> QED BY <1>6, <1>7

LEMMA SourcesStep ==
  ASSUME SourcesInv, [Sources!Next]_sources
  PROVE  SourcesInv'
<1>1. CASE UNCHANGED sources
  BY <1>1 DEF sources, SourcesInv, TracksType, HdmiType, MuteInv, SubmixInv, Enforced,
              Sources!Playing, Sources!HdmiFollowsBoth
<1>2. CASE Sources!Next
  BY <1>2, StartSourceOK, StopSourceOK, ForceUseOK, HdmiOK DEF Sources!Next
<1> QED BY <1>1, <1>2

-----------------------------------------------------------------------------
(* Both halves of the manager, in any order: what one does is nothing to   *)
(* the other.                                                              *)
Together == /\ Init /\ Sources!Init
            /\ [][Next]_vars /\ [][Sources!Next]_sources

(* The sum that PolicyManager explores is part of that.                    *)
THEOREM SumIsTogether == ManagerSpec => Together
<1>1. ManagerInit => Init /\ Sources!Init
  BY DEF ManagerInit
<1>2. [ManagerNext]_<<half, concurrency, sources>> => [Next]_vars /\ [Sources!Next]_sources
  BY DEF ManagerNext, concurrency
<1> QED BY <1>1, <1>2, PTL DEF ManagerSpec, Together

(* Each half keeps its inductive invariant.                                *)
THEOREM Inductive == Together => [](IInv /\ SourcesInv)
<1>1. IInv /\ [Next]_vars => IInv'
  BY PolicyStep
<1>2. SourcesInv /\ [Sources!Next]_sources => SourcesInv'
  BY SourcesStep
<1> QED BY <1>1, <1>2, PolicyInitOK, SourcesInitOK, PTL DEF Together

(* Every variable of both halves keeps its type.                           *)
THEOREM TypeCorrect == ManagerSpec => []ManagerTypeOK
<1>1. SourcesInv => Sources!TypeOK
  <2> SUFFICES ASSUME SourcesInv PROVE Sources!TypeOK
    OBVIOUS
  <2>1. {enforcedSystem, submix, switched, cut, hdmiSpkEnabled, dpForVoice} \subseteq BOOLEAN
    BY DEF SourcesInv, TracksType, HdmiType
  <2>2. {hdmi, mHdmiAudioDisabled, mHdmiAudioEvent} \subseteq BOOLEAN
    BY DEF SourcesInv, HdmiType
  <2> QED BY <2>1, <2>2 DEF SourcesInv, TracksType, Sources!TypeOK
<1>2. IInv => TypeOK
  BY PolicyTypeParts DEF IInv
<1>3. IInv /\ SourcesInv => ManagerTypeOK
  BY <1>1, <1>2 DEF ManagerTypeOK
<1> QED BY <1>3, Inductive, SumIsTogether, PTL

(* Whenever mvoice_call_state, which is not initialized, decides about a   *)
(* request, a call has set it.                                             *)
THEOREM CallStateIsKnown == ManagerSpec => []CallStateKnown
<1>1. IInv => CallStateKnown
  BY DEF IInv
<1> QED BY <1>1, Inductive, SumIsTogether, PTL

(* The HAL has been told of recording, whatever inputs start, fail, stop   *)
(* or are closed.                                                          *)
THEOREM HalIsTold == ManagerSpec => []RecordingTold
<1>1. IInv => RecordingTold
  BY DEF IInv
<1> QED BY <1>1, Inductive, SumIsTogether, PTL

LEMMA OffloadPromise == IInv => OffloadExcluded
<1> SUFFICES ASSUME IInv, NoOffloadDuring, NEW i \in DOMAIN mOutputs, Offload(mOutputs[i])
             PROVE  mOutputs[i].jumped
  BY DEF OffloadExcluded
<1>1. i \in 1..Len(mOutputs)
  BY LenProperties DEF IInv, OutputsType
<1> QED BY <1>1 DEF IInv, Clean

(* During a recording or a call that excludes offload no offload output is *)
(* open but those that a closing loop has passed over, for any number of   *)
(* outputs.                                                                *)
THEOREM OffloadIsExcluded == ManagerSpec => []OffloadExcluded
BY OffloadPromise, Inductive, SumIsTogether, PTL

(* A source that calls block records during a call only if its input was   *)
(* already open when the call began.                                       *)
THEOREM NoBlockedRecording == ManagerSpec => []NoBlockedRecordingInCall
<1>1. IInv => NoBlockedRecordingInCall
  BY DEF IInv, HeldInv, NoBlockedRecordingInCall
<1> QED BY <1>1, Inductive, SumIsTogether, PTL

(* After a call the primary output is restored, however the call went over *)
(* into VoIP calls and back, if it was not resumed.                        *)
THEOREM PrimaryIsRestored == ManagerSpec => []PrimaryRestored
<1>1. IInv => PrimaryRestored
  BY DEF IInv, ModesType, SuspendInv, isInCall, PrimaryRestored
<1> QED BY <1>1, Inductive, SumIsTogether, PTL

(* Without VA concurrency the sound trigger service knows exactly whether  *)
(* an input of the primary module is active.                               *)
THEOREM CaptureIsReported == ManagerSpec => []CaptureReported
<1>1. IInv => CaptureReported
  BY DEF IInv
<1> QED BY <1>1, Inductive, SumIsTogether, PTL

LEMMA StopPromise == SourcesInv => Sources!StopUndoesStart
<1> SUFFICES ASSUME SourcesInv PROVE Sources!StopUndoesStart
  OBVIOUS
<1>1. Sources!Cardinality(Enforced) = Cardinality(Enforced)
  BY DEF Sources!Cardinality, Cardinality
<1> QED BY <1>1 DEF SourcesInv, MuteInv, SubmixInv, Enforced, Sources!StopUndoesStart

(* Mutes and submix input are what the active tracks ask for, in whatever  *)
(* order tracks start and stop -- unless the force use changed under an    *)
(* enforced sound, the input failed to open or was cut.                    *)
THEOREM StopDoesUndoStart == ManagerSpec => []StopUndoesStart
<1>1. SourcesInv => StopUndoesStart
  BY StopPromise DEF StopUndoesStart
<1> QED BY <1>1, Inductive, SumIsTogether, PTL

(* The HDMI output follows plug and speaker setting, in whatever order     *)
(* their events come, unless it could not be opened.                       *)
THEOREM HdmiDoesFollowBoth == ManagerSpec => []HdmiFollowsBoth
<1>1. SourcesInv => HdmiFollowsBoth
  BY DEF SourcesInv, HdmiFollowsBoth
<1> QED BY <1>1, Inductive, SumIsTogether, PTL

=============================================================================
