---------------------------- MODULE KobjHandles ----------------------------
(***************************************************************************)
(* Kernel objects and the per-task handle tables (src/croi/kobj/kobj.c and *)
(* src/croi/kobj/handle_table.c).                                          *)
(*                                                                         *)
(*   tables     per table and index: target, generation, next_free         *)
(*   freeHead   per table: free_head; a destroyed table has no slots        *)
(*   refs       the refcount of each object; gone: destroy has run         *)
(*   own        the references that kernel code took itself                *)
(*              (Kobj_Init's first one and Kobj_Retain's)                  *)
(*   issued     every handle that Open returned, with the object it was    *)
(*              opened for and whether its holder has closed it since      *)
(*                                                                         *)
(* A handle is the pair of the slot's generation and its index, packed in  *)
(* 32 bits by the code; generations have GenModulus values (2^16).         *)
(***************************************************************************)
EXTENDS Integers, FiniteSets, FiniteSetsExt

CONSTANTS
  Table,       \* the handle tables, one per task
  Obj,         \* the kernel objects
  Cap,         \* slots per table
  GenModulus,  \* the number of generations
  NoObj,       \* target == nullptr
  Invalid,     \* HANDLE_INVALID
  MaxOwn,      \* bound on the kernel's own references to an object
  MaxIssued    \* bound on the handles that are opened

ASSUME HandleAssumption ==
  /\ Cap \in Nat \ {0}
  /\ GenModulus \in Nat \ {0}
  /\ NoObj \notin Obj
  /\ Invalid \notin Nat
  /\ MaxOwn \in Nat
  /\ MaxIssued \in Nat

VARIABLES tables, freeHead, refs, own, gone, issued

handleVars == <<tables, freeHead, refs, own, gone, issued>>

Index == 0..(Cap - 1)
Handle == [gen : 0..(GenModulus - 1), idx : Index]

HandleTable_Init ==
  [i \in Index |-> [target |-> NoObj, generation |-> 0,
                    next_free |-> IF i + 1 < Cap THEN i + 1 ELSE Invalid]]

HandlesInit ==
  /\ tables = [t \in Table |-> HandleTable_Init]
  /\ freeHead = [t \in Table |-> 0]
  /\ refs = [o \in Obj |-> 0]
  /\ own = [o \in Obj |-> 0]
  /\ gone = {}
  /\ issued = {}

Alive(t) == DOMAIN tables[t] # {}
Live == {o \in Obj : refs[o] > 0}

-----------------------------------------------------------------------------
(* Kobj_Init, Kobj_Retain and Kobj_Release.                                *)

Kobj_Init(o) ==
  /\ refs[o] = 0 /\ o \notin gone
  /\ refs' = [refs EXCEPT ![o] = 1]
  /\ own' = [own EXCEPT ![o] = 1]
  /\ UNCHANGED <<tables, freeHead, gone, issued>>

\* Mutant of Dropped: the object is destroyed when one reference is left.
DroppedEarly(n) ==
  /\ refs' = [o \in Obj |-> refs[o] - n[o]]
  /\ gone' = gone \cup {o \in Obj : n[o] > 0 /\ refs[o] - n[o] <= 1}

\* Kobj_Release, n[o] times for each o: the last reference destroys.
Dropped(n) ==
  /\ refs' = [o \in Obj |-> refs[o] - n[o]]
  /\ gone' = gone \cup {o \in Obj : n[o] > 0 /\ refs[o] = n[o]}

Once(o) == [p \in Obj |-> IF p = o THEN 1 ELSE 0]

\* Kernel code retains only what it has a reference to, and releases only
\* its own references.
Kobj_Retain(o) ==
  /\ own[o] \in 1..(MaxOwn - 1)
  /\ refs' = [refs EXCEPT ![o] = @ + 1]
  /\ own' = [own EXCEPT ![o] = @ + 1]
  /\ UNCHANGED <<tables, freeHead, gone, issued>>

Kobj_Release(o) ==
  /\ own[o] > 0
  /\ own' = [own EXCEPT ![o] = @ - 1]
  /\ Dropped(Once(o))
  /\ UNCHANGED <<tables, freeHead, issued>>

-----------------------------------------------------------------------------
(* The table.                                                              *)

\* Opening needs a reference that keeps the object alive during the call.
HandleTable_Open(t, o) ==
  LET i == freeHead[t] IN
  /\ Alive(t)
  /\ own[o] > 0
  /\ i # Invalid
  /\ Cardinality(issued) < MaxIssued
  /\ freeHead' = [freeHead EXCEPT ![t] = tables[t][i].next_free]
  /\ tables' = [tables EXCEPT ![t][i].target = o]
  /\ refs' = [refs EXCEPT ![o] = @ + 1]
  /\ issued' = issued \cup
       {[id |-> Cardinality(issued), table |-> t, obj |-> o, closed |-> FALSE,
         h |-> [gen |-> tables[t][i].generation, idx |-> i]]}
  /\ UNCHANGED <<own, gone>>

\* Mutant of Valid: the generation is not compared.
ValidAnyGeneration(t, h) ==
  /\ h.idx \in DOMAIN tables[t]
  /\ tables[t][h.idx].target # NoObj

\* The checks that HandleTable_Lookup and HandleTable_Close share.
Valid(t, h) ==
  /\ h.idx \in DOMAIN tables[t]
  /\ tables[t][h.idx].target # NoObj
  /\ tables[t][h.idx].generation = h.gen

\* Lookup's answer for a handle of any type; NoObj stands for CARA_EBADF.
HandleTable_Lookup(t, h) == IF Valid(t, h) THEN tables[t][h.idx].target ELSE NoObj

\* Mutant of FreeSlot: the slot returns to the free list unchanged in
\* generation.
FreeSlotSameGeneration(t, i) ==
  [tables EXCEPT ![t][i] = [target |-> NoObj, generation |-> @.generation,
                           next_free |-> freeHead[t]]]

\* Mutant of FreeSlot: the old head of the free list is forgotten.
FreeSlotUnlinked(t, i) ==
  [tables EXCEPT ![t][i] = [target |-> NoObj, next_free |-> Invalid,
                           generation |-> (@.generation + 1) % GenModulus]]

FreeSlot(t, i) ==
  [tables EXCEPT ![t][i] = [target |-> NoObj, next_free |-> freeHead[t],
                           generation |-> (@.generation + 1) % GenModulus]]

\* A holder closes a handle it was given, perhaps again; issued' remembers that
\* it did.
HandleTable_Close(r) ==
  /\ issued' = (issued \ {r}) \cup {[r EXCEPT !.closed = TRUE]}
  /\ IF Valid(r.table, r.h)
     THEN /\ tables' = FreeSlot(r.table, r.h.idx)
          /\ freeHead' = [freeHead EXCEPT ![r.table] = r.h.idx]
          /\ Dropped(Once(tables[r.table][r.h.idx].target))
     ELSE UNCHANGED <<tables, freeHead, refs, gone>>
  /\ UNCHANGED own

\* The task exits: every reference its table still has is released.
HandleTable_Destroy(t) ==
  /\ Alive(t)
  /\ Dropped([o \in Obj |-> Cardinality({i \in Index : tables[t][i].target = o})])
  /\ tables' = [tables EXCEPT ![t] = << >>]
  /\ freeHead' = [freeHead EXCEPT ![t] = Invalid]
  /\ issued' = {IF r.table = t THEN [r EXCEPT !.closed = TRUE] ELSE r : r \in issued}
  /\ UNCHANGED own

HandlesNext ==
  \/ \E o \in Obj : Kobj_Init(o) \/ Kobj_Retain(o) \/ Kobj_Release(o)
  \/ \E t \in Table, o \in Obj : HandleTable_Open(t, o)
  \/ \E r \in issued : HandleTable_Close(r)
  \/ \E t \in Table : HandleTable_Destroy(t)

HandlesSpec == HandlesInit /\ [][HandlesNext]_handleVars

-----------------------------------------------------------------------------
(* Properties.                                                             *)

\* An object's reference count is what the kernel and the handle tables hold
\* together, and a destroyed object has none: no table points at it.
RefsCounted ==
  \A o \in Obj :
    LET opened == {p \in Table \X Index : p[2] \in DOMAIN tables[p[1]] /\ tables[p[1]][p[2]].target = o}
    IN  /\ refs[o] = own[o] + Cardinality(opened)
        /\ o \in gone => refs[o] = 0

\* q lists the slots that free_head leads to, in their order, up to the one
\* whose next_free ends the list.
IsFreeList(t, q, n) ==
  /\ freeHead[t] = IF n = 0 THEN Invalid ELSE q[1]
  /\ \A k \in 1..n : tables[t][q[k]].next_free = IF k = n THEN Invalid ELSE q[k + 1]

\* The free list of a table ends, holds its empty slots and no others, and each
\* of them once, so that Open fails only when every slot is in use and never
\* hands one out twice.
FreeListExact ==
  \A t \in Table : Alive(t) =>
    \E n \in 0..Cap : \E q \in [1..n -> Index] :
      /\ IsFreeList(t, q, n)
      /\ \A k, l \in 1..n : q[k] = q[l] => k = l
      /\ \A i \in Index : tables[t][i].target = NoObj <=> \E k \in 1..n : q[k] = i

\* The handles opened in r's slot after r.
LaterHandles(r) == {q \in issued : q.table = r.table /\ q.h.idx = r.h.idx /\ q.id > r.id}

\* A handle that its holder has not closed finds the object it was opened for,
\* even when older handles of the same slot are closed a second time (unless
\* the generation has wrapped and one of them is the same 32 bits).
OpenHandlesResolve ==
  \A r \in issued :
    ~r.closed /\ (\A q \in issued : q.table = r.table /\ q.h = r.h => q = r) =>
      HandleTable_Lookup(r.table, r.h) = r.obj

\* A handle that was closed finds nothing, whatever was opened in its slot
\* since, until the generation of the slot comes round to it again.
StaleHandlesRefused ==
  \A r \in issued :
    r.closed /\ Cardinality(LaterHandles(r)) < GenModulus =>
      HandleTable_Lookup(r.table, r.h) = NoObj
=============================================================================
