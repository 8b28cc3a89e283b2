--------------------------- MODULE MCLossRecovery ---------------------------
(***************************************************************************)
(* Instances of LossRecovery for TLC.                                      *)
(***************************************************************************)
EXTENDS LossRecovery
Two == <<1, 2>>
One == <<9>>
Budget(l, e, p) == [losses |-> l, early |-> e, pure |-> p]
Cases == {Budget(1, 1, 0), Budget(2, 0, 0), Budget(1, 0, 1), Budget(0, 1, 1)}
=============================================================================
