----------------------------- MODULE MCObjects -----------------------------
(***************************************************************************)
(* The kernel's passive objects, one kind per behaviour: two semaphores    *)
(* among three tasks of two priorities; a ring of four slots whose counters*)
(* wrap at eight, with three messages; two handle tables of three slots    *)
(* with two objects and generations that wrap.                             *)
(***************************************************************************)
EXTENDS CroiSemaphore, CaraRing, KobjHandles

CONSTANTS boot, t1, t2, x1, x2, m1, m2, m3, ta, tb, o1, o2

MCTask     == {boot, t1, t2}
MCTwoSems  == {x1, x2}
MCTwoPris  == {0, 100}
MCUserSigs == FirstUserSig..(NSig - 1)
MCSlot     == {m1, m2, m3}
MCTable    == {ta, tb}
MCObj      == {o1, o2}
Symmetry   ==
  UNION {Permutations(S) : S \in {{t1, t2}, {x1, x2}, {ta, tb}, {o1, o2}}}

VARIABLE kind

objectVars == <<kind, semVars, ringVars, handleVars>>

ObjectsInit ==
  /\ kind \in {"semaphores", "ring", "handles"}
  /\ SemInit /\ RingInit /\ HandlesInit

ObjectsNext ==
  /\ \/ kind = "semaphores" /\ SemNext /\ UNCHANGED <<ringVars, handleVars>>
     \/ kind = "ring" /\ RingNext /\ UNCHANGED <<semVars, handleVars>>
     \/ kind = "handles" /\ HandlesNext /\ UNCHANGED <<semVars, ringVars>>
  /\ UNCHANGED kind

ObjectsSpec == ObjectsInit /\ [][ObjectsNext]_objectVars
=============================================================================
