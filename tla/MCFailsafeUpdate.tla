-------------------------- MODULE MCFailsafeUpdate --------------------------
(* Values for the runs of FailsafeUpdate.                                  *)
EXTENDS FailsafeUpdate
CONSTANTS l1, l2, xbl

OneLun == {l1}
TwoLuns == {l1, l2}
NoLun == {}
SecondLun == {l2}
=============================================================================
