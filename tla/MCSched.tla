------------------------------ MODULE MCSched ------------------------------
(* Three task slots, three priorities (the lowest is out of range), one    *)
(* signal, and one level of Forbid and of Disable.                         *)
EXTENDS CroiSched, TLC

CONSTANTS boot, t1, t2

MCTask      == {boot, t1, t2}
MCThreePris == {-200, 0, 100}
Symmetry    == Permutations({t1, t2})
=============================================================================
