------------------------- MODULE KobjHandlesProofs -------------------------
(***************************************************************************)
(* Proofs about the handle tables of module KobjHandles, for every number  *)
(* of tables, objects, slots and generations.                              *)
(***************************************************************************)
EXTENDS KobjHandles, FiniteSetTheorems, TLAPS

Generation == 0..(GenModulus - 1)
SlotType == [target : Obj \cup {NoObj}, generation : Generation, next_free : Index \cup {Invalid}]
IssuedType == [id : Nat, table : Table, obj : Obj, closed : BOOLEAN, h : Handle]

HandlesType ==
  /\ tables \in [Table -> [Index -> SlotType] \cup {<< >>}]
  /\ freeHead \in [Table -> Index \cup {Invalid}]
  /\ refs \in [Obj -> Nat]
  /\ own \in [Obj -> Nat]
  /\ gone \in SUBSET Obj
  /\ issued \in SUBSET IssuedType

-----------------------------------------------------------------------------
(* The inductive invariant.                                                *)

\* The slots that hold a reference to o, in the tables f and in those of now.
OpenedIn(f, o) == {p \in Table \X Index : p[2] \in DOMAIN f[p[1]] /\ f[p[1]][p[2]].target = o}
Opened(o) == OpenedIn(tables, o)

\* The references to o are counted, and there are finitely many.
Counted(o) ==
  /\ IsFiniteSet(Opened(o))
  /\ refs[o] = own[o] + Cardinality(Opened(o))
  /\ o \in gone => refs[o] = 0

\* q is t's free list, of length n.
FreeList(t, q, n) ==
  /\ IsFreeList(t, q, n)
  /\ \A k, l \in 1..n : q[k] = q[l] => k = l
  /\ \A i \in Index : tables[t][i].target = NoObj <=> \E k \in 1..n : q[k] = i

\* t has a free list.
Listed(t) == Alive(t) => \E n \in 0..Cap : \E q \in [1..n -> Index] : FreeList(t, q, n)

\* The handles are numbered as they were issued.
Numbered ==
  /\ IsFiniteSet(issued)
  /\ \A r \in issued : r.id < Cardinality(issued)
  /\ \A r, q \in issued : r.id = q.id => r = q

\* The numbers of the handles that were issued for a slot.
SlotIds(t, i) == {n \in Nat : \E q \in issued : q.id = n /\ q.table = t /\ q.h.idx = i}

\* A slot's generation counts the handles issued for it, but for the one it
\* still holds.
GenerationCounts(t, i) ==
  Alive(t) =>
    tables[t][i].generation =
      (Cardinality(SlotIds(t, i)) - (IF tables[t][i].target = NoObj THEN 0 ELSE 1)) % GenModulus

\* A handle's generation counts the handles issued for its slot before it.
HandleCounts(r) ==
  r.h.gen = Cardinality({n \in SlotIds(r.table, r.h.idx) : n < r.id}) % GenModulus

\* The slot of a closed handle is empty unless it was opened again.
ClosedEmpties(r) ==
  r.closed /\ Alive(r.table) /\ (\A n \in SlotIds(r.table, r.h.idx) : n <= r.id) =>
    tables[r.table][r.h.idx].target = NoObj

\* r's slot holds what r was opened for.
Occupies(r) ==
  /\ Alive(r.table)
  /\ tables[r.table][r.h.idx].target = r.obj
  /\ tables[r.table][r.h.idx].generation = r.h.gen

\* Another handle has the same 32 bits.
Twin(r) == \E q \in issued : q # r /\ q.table = r.table /\ q.h = r.h

HandlesInv ==
  /\ HandlesType
  /\ \A o \in Obj : Counted(o)
  /\ \A t \in Table : Listed(t)
  /\ Numbered
  /\ \A t \in Table, i \in Index : GenerationCounts(t, i)
  /\ \A r \in issued : /\ HandleCounts(r)
                       /\ ClosedEmpties(r)
                       /\ ~r.closed => Occupies(r) \/ Twin(r)

-----------------------------------------------------------------------------
(* Tables and slots.                                                       *)

\* There is a slot.
LEMMA IndexNonEmpty == 0 \in Index /\ Index \subseteq Nat /\ Invalid \notin Index
  BY HandleAssumption DEF Index

\* A table is there with all its slots, or not at all.
LEMMA TableShape ==
  ASSUME NEW f \in [Table -> [Index -> SlotType] \cup {<< >>}], NEW t \in Table
  PROVE  /\ DOMAIN f[t] # {} => f[t] \in [Index -> SlotType] /\ DOMAIN f[t] = Index
         /\ f[t] \in [Index -> SlotType] => DOMAIN f[t] # {}
<1>1. f[t] \in [Index -> SlotType] \/ f[t] = << >>
  OBVIOUS
<1>2. DOMAIN << >> = {}
  OBVIOUS
<1> QED BY <1>1, <1>2, IndexNonEmpty

\* A step changes slot i of table t to s, and nothing else of the tables.
SlotChanged(t, i, s) ==
  /\ tables' \in [Table -> [Index -> SlotType] \cup {<< >>}]
  /\ Alive(t) /\ Alive(t)'
  /\ tables'[t][i] = s
  /\ \A j \in Index : j # i => tables'[t][j] = tables[t][j]
  /\ \A u \in Table : u # t => tables'[u] = tables[u]

\* So does an assignment.
LEMMA SlotSet ==
  ASSUME HandlesType, NEW t \in Table, Alive(t), NEW i \in Index, NEW s \in SlotType,
         tables' = [tables EXCEPT ![t][i] = s]
  PROVE  SlotChanged(t, i, s)
<1>1. tables[t] \in [Index -> SlotType]
  BY TableShape DEF HandlesType, Alive
<1>2. PICK f \in [Index -> SlotType] : f = [tables[t] EXCEPT ![i] = s]
  BY <1>1, Zenon
<1>3. f[i] = s /\ \A j \in Index : j # i => f[j] = tables[t][j]
  BY <1>1, <1>2
<1>4. tables' = [tables EXCEPT ![t] = f]
  BY <1>2
<1>5. /\ tables' \in [Table -> [Index -> SlotType] \cup {<< >>}] /\ tables'[t] = f
      /\ \A u \in Table : u # t => tables'[u] = tables[u]
  BY <1>4 DEF HandlesType
<1>6. Alive(t)'
  BY <1>5, TableShape DEF Alive
<1> QED BY <1>3, <1>5, <1>6 DEF SlotChanged

\* A live table's slots have their type.
LEMMA SlotTypes ==
  ASSUME HandlesType, NEW t \in Table, Alive(t), NEW i \in Index
  PROVE  /\ tables[t][i] \in SlotType
         /\ tables[t][i].target \in Obj \cup {NoObj}
         /\ tables[t][i].generation \in Generation
         /\ tables[t][i].next_free \in Index \cup {Invalid}
<1>1. tables[t][i] \in SlotType
  BY TableShape DEF HandlesType, Alive
<1> QED BY <1>1 DEF SlotType

\* The slot at the head of the free list is empty.
LEMMA HeadIsEmpty ==
  ASSUME HandlesType, NEW t \in Table, Alive(t), Listed(t), freeHead[t] # Invalid
  PROVE  freeHead[t] \in Index /\ tables[t][freeHead[t]].target = NoObj
<1>1. freeHead[t] \in Index
  BY DEF HandlesType
<1>2. PICK n \in 0..Cap : \E q \in [1..n -> Index] : FreeList(t, q, n)
  BY DEF Listed
<1>3. PICK q \in [1..n -> Index] : FreeList(t, q, n)
  BY <1>2
<1>4. n # 0 /\ freeHead[t] = q[1]
  BY <1>3 DEF FreeList, IsFreeList
<1>5. 1 \in 1..n
  BY <1>2, <1>4
<1> QED BY <1>1, <1>3, <1>4, <1>5 DEF FreeList

\* What HandleTable_Open leaves in slot i.
OpenedSlot(t, i, o) == [tables[t][i] EXCEPT !.target = o]

\* What HandleTable_Close leaves there.
ClosedSlot(t, i) == [target |-> NoObj, next_free |-> freeHead[t],
                     generation |-> (tables[t][i].generation + 1) % GenModulus]

\* Opening.
LEMMA OpenSlot ==
  ASSUME HandlesInv, NEW t \in Table, NEW o \in Obj, HandleTable_Open(t, o),
         NEW i, i = freeHead[t]
  PROVE  /\ i \in Index /\ tables[t][i].target = NoObj
         /\ SlotChanged(t, i, OpenedSlot(t, i, o))
         /\ OpenedSlot(t, i, o).target = o
         /\ OpenedSlot(t, i, o).generation = tables[t][i].generation
         /\ OpenedSlot(t, i, o).next_free = tables[t][i].next_free
<1>0. HandlesType /\ Alive(t) /\ Listed(t) /\ freeHead[t] # Invalid
  BY DEF HandlesInv, HandleTable_Open
<1>1. i \in Index /\ tables[t][i].target = NoObj
  BY <1>0, HeadIsEmpty
<1>2. tables[t][i] \in SlotType
  BY <1>0, <1>1, SlotTypes
<1>3. /\ OpenedSlot(t, i, o) \in SlotType
      /\ OpenedSlot(t, i, o).target = o
      /\ OpenedSlot(t, i, o).generation = tables[t][i].generation
      /\ OpenedSlot(t, i, o).next_free = tables[t][i].next_free
  <2>1. o \in Obj \cup {NoObj}
    OBVIOUS
  <2> QED BY <1>2, <2>1, Zenon DEF OpenedSlot, SlotType
<1>4. tables' = [tables EXCEPT ![t][i] = OpenedSlot(t, i, o)]
  BY DEF HandleTable_Open, OpenedSlot
<1>5. SlotChanged(t, i, OpenedSlot(t, i, o))
  BY <1>0, <1>1, <1>3, <1>4, SlotSet, Zenon
<1> QED BY <1>1, <1>3, <1>5

\* Closing.
LEMMA CloseSlot ==
  ASSUME HandlesType, NEW t \in Table, Alive(t), NEW i \in Index, tables' = FreeSlot(t, i)
  PROVE  /\ SlotChanged(t, i, ClosedSlot(t, i))
         /\ ClosedSlot(t, i).target = NoObj
         /\ ClosedSlot(t, i).generation = (tables[t][i].generation + 1) % GenModulus
         /\ ClosedSlot(t, i).next_free = freeHead[t]
<1>1. /\ ClosedSlot(t, i).target = NoObj
      /\ ClosedSlot(t, i).generation = (tables[t][i].generation + 1) % GenModulus
      /\ ClosedSlot(t, i).next_free = freeHead[t]
  BY DEF ClosedSlot
<1>2. ClosedSlot(t, i) \in SlotType
  <2>1. tables[t][i].generation \in Generation
    BY SlotTypes
  <2>2. (tables[t][i].generation + 1) % GenModulus \in Generation
    BY <2>1, HandleAssumption DEF Generation
  <2>3. freeHead[t] \in Index \cup {Invalid}
    BY DEF HandlesType
  <2> QED BY <2>2, <2>3 DEF ClosedSlot, SlotType
<1>3. tables' = [tables EXCEPT ![t][i] = ClosedSlot(t, i)]
  BY DEF FreeSlot, ClosedSlot
<1>4. SlotChanged(t, i, ClosedSlot(t, i))
  BY <1>2, <1>3, SlotSet, Zenon
<1> QED BY <1>1, <1>4

-----------------------------------------------------------------------------
(* The free list.                                                          *)

\* A table that a step leaves alone keeps its list.
LEMMA ListedKept ==
  ASSUME NEW t \in Table, Listed(t), tables'[t] = tables[t], freeHead'[t] = freeHead[t]
  PROVE  Listed(t)'
  BY DEF Listed, FreeList, IsFreeList, Alive

\* A list of different slots is no longer than the table.
LEMMA ListFits ==
  ASSUME NEW n \in Nat, NEW q \in [1..n -> Index], \A k, l \in 1..n : q[k] = q[l] => k = l
  PROVE  n <= Cap
<1>1. q \in Injection(1..n, Index)
  BY DEF Injection, IsInjective
<1>2. IsFiniteSet(Index) /\ Cardinality(Index) = Cap
  BY FS_Interval, HandleAssumption DEF Index
<1>3. Cardinality(1..n) = n
  BY FS_Interval
<1> QED BY <1>1, <1>2, <1>3, FS_Injection

\* Opening takes the head off the list.
LEMMA OpenListed ==
  ASSUME HandlesInv, NEW t \in Table, NEW o \in Obj, HandleTable_Open(t, o)
  PROVE  Listed(t)'
<1>0. PICK i : i = freeHead[t]
  OBVIOUS
<1>1. /\ i \in Index /\ tables[t][i].target = NoObj
      /\ Alive(t) /\ Alive(t)'
      /\ tables'[t][i].target = o /\ tables'[t][i].next_free = tables[t][i].next_free
      /\ \A j \in Index : j # i => tables'[t][j] = tables[t][j]
  BY <1>0, OpenSlot DEF SlotChanged
<1>2. /\ i # Invalid /\ freeHead'[t] = tables[t][i].next_free /\ o # NoObj
  BY <1>0, HandleAssumption DEF HandleTable_Open, HandlesInv, HandlesType
<1>3. PICK n \in 0..Cap : \E q \in [1..n -> Index] : FreeList(t, q, n)
  BY <1>1 DEF Listed, HandlesInv
<1>4. PICK q \in [1..n -> Index] : FreeList(t, q, n)
  BY <1>3
<1>5. n \in Nat \ {0} /\ q[1] = i /\ Cap \in Nat
  BY <1>0, <1>2, <1>3, <1>4, HandleAssumption DEF FreeList, IsFreeList
<1>6. PICK m \in Nat : n = m + 1 /\ m \in 0..Cap
  <2>1. n - 1 \in Nat /\ n = (n - 1) + 1 /\ n - 1 \in 0..Cap
    BY <1>3, <1>5
  <2> QED BY <2>1
<1>7. PICK r : r = [k \in 1..m |-> q[k + 1]]
  BY Zenon
<1>8. \A k \in 1..m : k + 1 \in 1..n /\ r[k] = q[k + 1] /\ q[k + 1] \in Index /\ q[k + 1] # i
  <2>1. 1 \in 1..n /\ \A k \in 1..m : k + 1 \in 1..n /\ k + 1 # 1
    BY <1>6
  <2> QED BY <1>4, <1>5, <1>7, <2>1, Zenon DEF FreeList
<1>9. r \in [1..m -> Index]
  BY <1>7, <1>8
<1>10. IsFreeList(t, r, m)'
  <2>1. freeHead'[t] = IF m = 0 THEN Invalid ELSE r[1]
    <3>1. 1 \in 1..n /\ tables[t][q[1]].next_free = IF 1 = n THEN Invalid ELSE q[2]
      BY <1>4, <1>6 DEF FreeList, IsFreeList
    <3>2. m # 0 => 1 \in 1..m /\ r[1] = q[2]
      BY <1>6, <1>8
    <3> QED BY <1>2, <1>5, <1>6, <3>1, <3>2
  <2>2. ASSUME NEW k \in 1..m
        PROVE  tables'[t][r[k]].next_free = IF k = m THEN Invalid ELSE r[k + 1]
    <3>1. tables'[t][r[k]] = tables[t][q[k + 1]]
      BY <1>1, <1>8
    <3>2. tables[t][q[k + 1]].next_free = IF k + 1 = n THEN Invalid ELSE q[(k + 1) + 1]
      BY <1>4, <1>8 DEF FreeList, IsFreeList
    <3>3. k # m => k + 1 \in 1..m /\ r[k + 1] = q[(k + 1) + 1]
      BY <1>6, <1>8
    <3> QED BY <1>6, <3>1, <3>2, <3>3
  <2> QED BY <2>1, <2>2 DEF IsFreeList
<1>11. \A k, l \in 1..m : r[k] = r[l] => k = l
  BY <1>4, <1>8 DEF FreeList
<1>12. ASSUME NEW j \in Index
       PROVE  tables'[t][j].target = NoObj <=> \E k \in 1..m : r[k] = j
  <2>1. CASE j = i
    BY <1>1, <1>2, <1>8, <2>1
  <2>2. CASE j # i
    <3>1. tables'[t][j].target = NoObj <=> \E k \in 1..n : q[k] = j
      BY <1>1, <1>4, <2>2 DEF FreeList
    <3>2. \A k \in 1..n : q[k] = j => k - 1 \in 1..m /\ q[(k - 1) + 1] = j
      BY <1>5, <1>6, <2>2
    <3> QED BY <1>8, <3>1, <3>2, Zenon
  <2> QED BY <2>1, <2>2
<1>13. FreeList(t, r, m)'
  BY <1>10, <1>11, <1>12 DEF FreeList
<1> QED BY <1>6, <1>9, <1>13 DEF Listed

\* Closing puts the slot at the head of the list.
LEMMA CloseListed ==
  ASSUME HandlesInv, NEW t \in Table, Alive(t), NEW i \in Index, tables[t][i].target # NoObj,
         tables' = FreeSlot(t, i), freeHead'[t] = i
  PROVE  Listed(t)'
<1>1. /\ tables'[t][i].target = NoObj /\ tables'[t][i].next_free = freeHead[t]
      /\ \A j \in Index : j # i => tables'[t][j] = tables[t][j]
  BY CloseSlot DEF SlotChanged, HandlesInv
<1>3. PICK n \in 0..Cap : \E q \in [1..n -> Index] : FreeList(t, q, n)
  BY DEF Listed, HandlesInv
<1>4. PICK q \in [1..n -> Index] : FreeList(t, q, n)
  BY <1>3
<1>5. n \in Nat /\ \A k \in 1..n : q[k] # i
  BY <1>4, HandleAssumption DEF FreeList
<1>6. PICK m \in Nat : m = n + 1
  BY <1>5
<1>7. PICK r : r = [k \in 1..m |-> IF k = 1 THEN i ELSE q[k - 1]]
  BY Zenon
<1>8. /\ 1 \in 1..m /\ r[1] = i
      /\ \A k \in 1..m : k # 1 => k - 1 \in 1..n /\ r[k] = q[k - 1] /\ q[k - 1] \in Index /\ q[k - 1] # i
  <2>1. 1 \in 1..m /\ \A k \in 1..m : k # 1 => k - 1 \in 1..n
    BY <1>5, <1>6
  <2> QED BY <1>5, <1>7, <2>1
<1>9. r \in [1..m -> Index]
  BY <1>7, <1>8
<1>10. \A k, l \in 1..m : r[k] = r[l] => k = l
  <2> SUFFICES ASSUME NEW k \in 1..m, NEW l \in 1..m, r[k] = r[l] PROVE k = l
    OBVIOUS
  <2>1. CASE k = 1 \/ l = 1
    BY <1>8, <2>1
  <2>2. CASE k # 1 /\ l # 1
    <3>1. k - 1 = l - 1
      BY <1>4, <1>8, <2>2 DEF FreeList
    <3> QED BY <3>1
  <2> QED BY <2>1, <2>2
<1>11. m \in 0..Cap
  BY <1>9, <1>10, ListFits, HandleAssumption
<1>12. IsFreeList(t, r, m)'
  <2>1. freeHead'[t] = IF m = 0 THEN Invalid ELSE r[1]
    BY <1>5, <1>6, <1>8
  <2>2. ASSUME NEW k \in 1..m
        PROVE  tables'[t][r[k]].next_free = IF k = m THEN Invalid ELSE r[k + 1]
    <3>1. k # m => k + 1 \in 1..m /\ r[k + 1] = q[k]
      <4>1. k # m => k + 1 \in 1..m /\ k + 1 # 1 /\ (k + 1) - 1 = k
        BY <1>6
      <4> QED BY <1>8, <4>1
    <3>2. CASE k = 1
      <4>1. tables'[t][r[k]].next_free = IF n = 0 THEN Invalid ELSE q[1]
        BY <1>1, <1>4, <1>8, <3>2 DEF FreeList, IsFreeList
      <4> QED BY <1>5, <1>6, <3>1, <3>2, <4>1
    <3>3. CASE k # 1
      <4>1. tables'[t][r[k]] = tables[t][q[k - 1]]
        BY <1>1, <1>8, <3>3
      <4>2. tables[t][q[k - 1]].next_free = IF k - 1 = n THEN Invalid ELSE q[(k - 1) + 1]
        BY <1>4, <1>8, <3>3 DEF FreeList, IsFreeList
      <4> QED BY <1>6, <3>1, <4>1, <4>2
    <3> QED BY <3>2, <3>3
  <2> QED BY <2>1, <2>2 DEF IsFreeList
<1>13. ASSUME NEW j \in Index
       PROVE  tables'[t][j].target = NoObj <=> \E k \in 1..m : r[k] = j
  <2>1. CASE j = i
    BY <1>1, <1>8, <2>1
  <2>2. CASE j # i
    <3>1. tables'[t][j].target = NoObj <=> \E k \in 1..n : q[k] = j
      BY <1>1, <1>4, <2>2 DEF FreeList
    <3>2. \A k \in 1..n : k + 1 \in 1..m /\ r[k + 1] = q[k]
      <4>1. \A k \in 1..n : k + 1 \in 1..m /\ k + 1 # 1 /\ (k + 1) - 1 = k
        BY <1>6
      <4> QED BY <1>8, <4>1
    <3>3. \A k \in 1..m : r[k] = j => k - 1 \in 1..n /\ q[k - 1] = j
      BY <1>8, <2>2
    <3> QED BY <3>1, <3>2, <3>3
  <2> QED BY <2>1, <2>2
<1>14. FreeList(t, r, m)'
  BY <1>10, <1>12, <1>13 DEF FreeList
<1> QED BY <1>9, <1>11, <1>14 DEF Listed

-----------------------------------------------------------------------------
(* The references.                                                         *)

\* A slot of a live table holds a reference or not.
LEMMA OpenedIs ==
  ASSUME NEW f \in [Table -> [Index -> SlotType] \cup {<< >>}],
         NEW o, NEW t \in Table, NEW i \in Index
  PROVE  <<t, i>> \in OpenedIn(f, o) <=> DOMAIN f[t] # {} /\ f[t][i].target = o
<1>1. DOMAIN f[t] # {} => DOMAIN f[t] = Index
  BY TableShape
<1>2. DOMAIN f[t] = {} => i \notin DOMAIN f[t]
  OBVIOUS
<1> QED BY <1>1, <1>2 DEF OpenedIn

\* The same of the tables of now.
LEMMA OpenedNow ==
  ASSUME HandlesType, NEW o, NEW t \in Table, NEW i \in Index
  PROVE  <<t, i>> \in Opened(o) <=> Alive(t) /\ tables[t][i].target = o
<1>1. tables \in [Table -> [Index -> SlotType] \cup {<< >>}]
  BY DEF HandlesType
<1>2. <<t, i>> \in OpenedIn(tables, o) <=> DOMAIN tables[t] # {} /\ tables[t][i].target = o
  BY <1>1, OpenedIs
<1> QED BY <1>2 DEF Opened, Alive

\* Its elements are such pairs.
LEMMA OpenedPairs ==
  ASSUME NEW f, NEW o, NEW p \in OpenedIn(f, o)
  PROVE  \E t \in Table, i \in Index : p = <<t, i>>
  BY DEF OpenedIn

\* The references to an object in the tables after one slot was changed.
LEMMA OpenedChanges ==
  ASSUME HandlesType, HandlesType', NEW t \in Table, NEW i \in Index, NEW s, SlotChanged(t, i, s),
         NEW o \in Obj
  PROVE  Opened(o)' = IF s.target = o THEN Opened(o) \cup {<<t, i>>} ELSE Opened(o) \ {<<t, i>>}
<1>1. ASSUME NEW u \in Table, NEW j \in Index
      PROVE  /\ <<u, j>> \in Opened(o) <=> Alive(u) /\ tables[u][j].target = o
             /\ <<u, j>> \in Opened(o)' <=> Alive(u)' /\ tables'[u][j].target = o
  <2>1. /\ tables \in [Table -> [Index -> SlotType] \cup {<< >>}]
        /\ tables' \in [Table -> [Index -> SlotType] \cup {<< >>}]
    BY DEF HandlesType
  <2>2. <<u, j>> \in OpenedIn(tables, o) <=> DOMAIN tables[u] # {} /\ tables[u][j].target = o
    BY <2>1, OpenedIs
  <2>3. <<u, j>> \in OpenedIn(tables', o) <=> DOMAIN tables'[u] # {} /\ tables'[u][j].target = o
    BY <2>1, OpenedIs
  <2> QED BY <2>2, <2>3 DEF Opened, Alive
<1>2. /\ Alive(t) /\ Alive(t)' /\ tables'[t][i] = s
      /\ \A j \in Index : j # i => tables'[t][j] = tables[t][j]
      /\ \A u \in Table : u # t => tables'[u] = tables[u] /\ (Alive(u)' <=> Alive(u))
  BY DEF SlotChanged, Alive
<1>3. ASSUME NEW u \in Table, NEW j \in Index, <<u, j>> # <<t, i>>
      PROVE  <<u, j>> \in Opened(o)' <=> <<u, j>> \in Opened(o)
  <2>1. u # t \/ j # i
    BY <1>3
  <2> QED BY <1>1, <1>2, <2>1
<1>4. <<t, i>> \in Opened(o)' <=> s.target = o
  BY <1>1, <1>2
<1>5. \A p \in Opened(o) : \E u \in Table, j \in Index : p = <<u, j>>
  BY OpenedPairs DEF Opened
<1>6. \A p \in Opened(o)' : \E u \in Table, j \in Index : p = <<u, j>>
  BY OpenedPairs DEF Opened
<1> QED BY <1>3, <1>4, <1>5, <1>6

\* Opening adds a reference, in a slot that held none.
LEMMA OpenCounted ==
  ASSUME HandlesInv, HandlesType', NEW t \in Table, NEW o \in Obj, HandleTable_Open(t, o),
         NEW p \in Obj
  PROVE  Counted(p)'
<1>0. PICK i : i = freeHead[t]
  OBVIOUS
<1>1. PICK s : s = OpenedSlot(t, i, o)
  OBVIOUS
<1>2. i \in Index /\ tables[t][i].target = NoObj /\ SlotChanged(t, i, s) /\ s.target = o
  BY <1>0, <1>1, OpenSlot
<1>3. /\ HandlesType /\ IsFiniteSet(Opened(p)) /\ refs[p] = own[p] + Cardinality(Opened(p))
      /\ p \in gone => refs[p] = 0
      /\ refs[p] \in Nat /\ own[p] \in Nat /\ own' = own /\ gone' = gone
      /\ own[o] > 0 /\ refs' = [refs EXCEPT ![o] = @ + 1]
  BY DEF HandlesInv, HandlesType, Counted, HandleTable_Open
<1>4. Cardinality(Opened(p)) \in Nat
  BY <1>3, FS_CardinalityType
<1>5. <<t, i>> \notin Opened(p)
  BY <1>2, <1>3, OpenedNow, HandleAssumption
<1>6. CASE p = o
  <2>1. Opened(p)' = Opened(p) \cup {<<t, i>>}
    BY <1>2, <1>3, <1>6, OpenedChanges
  <2>2. IsFiniteSet(Opened(p)') /\ Cardinality(Opened(p)') = Cardinality(Opened(p)) + 1
    <3>1. IsFiniteSet(Opened(p))
      BY <1>3
    <3>2. /\ IsFiniteSet(Opened(p) \cup {<<t, i>>})
          /\ Cardinality(Opened(p) \cup {<<t, i>>}) =
               IF <<t, i>> \in Opened(p) THEN Cardinality(Opened(p)) ELSE Cardinality(Opened(p)) + 1
      BY <3>1, FS_AddElement, Zenon
    <3> QED BY <1>5, <2>1, <3>2, Zenon
  <2>3. refs'[p] = refs[p] + 1 /\ p \notin gone
    BY <1>3, <1>4, <1>6 DEF HandlesType
  <2> QED BY <1>3, <1>4, <2>2, <2>3 DEF Counted
<1>7. CASE p # o
  <2>1. Opened(p)' = Opened(p)
    <3>1. Opened(p)' = Opened(p) \ {<<t, i>>}
      BY <1>2, <1>3, <1>7, OpenedChanges
    <3> QED BY <1>5, <3>1
  <2>2. refs'[p] = refs[p]
    BY <1>3, <1>7 DEF HandlesType
  <2> QED BY <1>3, <2>1, <2>2 DEF Counted
<1> QED BY <1>6, <1>7

\* Closing releases the reference that the slot held.
LEMMA CloseCounted ==
  ASSUME HandlesInv, HandlesType', NEW t \in Table, Alive(t), NEW i \in Index,
         NEW o \in Obj, tables[t][i].target = o, tables' = FreeSlot(t, i), Dropped(Once(o)), own' = own,
         NEW p \in Obj
  PROVE  Counted(p)'
<1>1. PICK s : s = ClosedSlot(t, i)
  OBVIOUS
<1>2. SlotChanged(t, i, s) /\ s.target = NoObj
  BY <1>1, CloseSlot DEF HandlesInv
<1>3. /\ HandlesType /\ IsFiniteSet(Opened(p)) /\ refs[p] = own[p] + Cardinality(Opened(p))
      /\ p \in gone => refs[p] = 0
      /\ refs[p] \in Nat /\ own[p] \in Nat
  BY DEF HandlesInv, HandlesType, Counted
<1>4. Cardinality(Opened(p)) \in Nat
  BY <1>3, FS_CardinalityType
<1>5. Opened(p)' = Opened(p) \ {<<t, i>>}
  BY <1>2, <1>3, OpenedChanges, HandleAssumption
<1>6. <<t, i>> \in Opened(p) <=> p = o
  BY <1>3, OpenedNow
<1>7. /\ IsFiniteSet(Opened(p)')
      /\ Cardinality(Opened(p)') = IF p = o THEN Cardinality(Opened(p)) - 1 ELSE Cardinality(Opened(p))
  <2>1. IsFiniteSet(Opened(p))
    BY <1>3
  <2>2. /\ IsFiniteSet(Opened(p) \ {<<t, i>>})
        /\ Cardinality(Opened(p) \ {<<t, i>>}) =
             IF <<t, i>> \in Opened(p) THEN Cardinality(Opened(p)) - 1 ELSE Cardinality(Opened(p))
    BY <2>1, FS_RemoveElement, Zenon
  <2> QED BY <1>5, <1>6, <2>2
<1>8. /\ refs'[p] = IF p = o THEN refs[p] - 1 ELSE refs[p]
      /\ p \in gone' <=> p \in gone \/ (p = o /\ refs[p] = 1)
  BY <1>3 DEF Dropped, Once
<1>9. p = o => refs[p] # 0
  <2>1. p = o => Cardinality(Opened(p)) # 0
    BY <1>3, <1>6, FS_EmptySet
  <2> QED BY <1>3, <1>4, <2>1
<1> QED BY <1>3, <1>4, <1>7, <1>8, <1>9 DEF Counted

\* The kernel's own calls count what they do.
LEMMA OwnCounted ==
  ASSUME HandlesInv, NEW o \in Obj, Kobj_Init(o) \/ Kobj_Retain(o) \/ Kobj_Release(o), NEW p \in Obj
  PROVE  Counted(p)' /\ refs'[p] \in Nat /\ own'[p] \in Nat
<1>1. /\ IsFiniteSet(Opened(p)) /\ refs[p] = own[p] + Cardinality(Opened(p))
      /\ p \in gone => refs[p] = 0
      /\ refs \in [Obj -> Nat] /\ own \in [Obj -> Nat]
  BY DEF HandlesInv, HandlesType, Counted
<1>2. refs[p] \in Nat /\ own[p] \in Nat /\ Cardinality(Opened(p)) \in Nat
  BY <1>1, FS_CardinalityType
<1>3. Opened(p)' = Opened(p)
  BY DEF Opened, Kobj_Init, Kobj_Retain, Kobj_Release
<1>4. CASE p # o
  <2>1. refs'[p] = refs[p] /\ own'[p] = own[p] /\ (p \in gone' <=> p \in gone)
    <3>1. CASE Kobj_Init(o) \/ Kobj_Retain(o)
      BY <1>1, <1>4, <3>1 DEF Kobj_Init, Kobj_Retain
    <3>2. CASE Kobj_Release(o)
      <4>1. own'[p] = own[p] /\ Dropped(Once(o)) /\ Once(o)[p] = 0
        BY <1>1, <1>4, <3>2 DEF Kobj_Release, Once
      <4>2. refs'[p] = refs[p] - Once(o)[p] /\ (p \in gone' <=> p \in gone \/ (Once(o)[p] > 0 /\ refs[p] = Once(o)[p]))
        BY <4>1, Zenon DEF Dropped
      <4> QED BY <1>2, <4>1, <4>2
    <3> QED BY <3>1, <3>2
  <2> QED BY <1>1, <1>2, <1>3, <2>1 DEF Counted
<1>5. CASE p = o /\ Kobj_Init(o)
  <2>1. refs'[p] = 1 /\ own'[p] = 1 /\ p \notin gone' /\ refs[p] = 0
    BY <1>1, <1>5 DEF Kobj_Init
  <2> QED BY <1>1, <1>2, <1>3, <2>1 DEF Counted
<1>6. CASE p = o /\ Kobj_Retain(o)
  <2>1. refs'[p] = refs[p] + 1 /\ own'[p] = own[p] + 1 /\ gone' = gone /\ own[p] > 0
    BY <1>1, <1>6, HandleAssumption DEF Kobj_Retain
  <2> QED BY <1>1, <1>2, <1>3, <2>1 DEF Counted
<1>7. CASE p = o /\ Kobj_Release(o)
  <2>1. /\ refs'[p] = refs[p] - 1 /\ own'[p] = own[p] - 1 /\ own[p] > 0
        /\ p \in gone' <=> p \in gone \/ refs[p] = 1
    BY <1>1, <1>7 DEF Kobj_Release, Dropped, Once
  <2> QED BY <1>1, <1>2, <1>3, <2>1 DEF Counted
<1> QED BY <1>4, <1>5, <1>6, <1>7

\* The references of one table are as many as its slots that hold one.
LEMMA TableReferences ==
  ASSUME HandlesType, NEW t \in Table, Alive(t), NEW o,
         NEW I, I = {i \in Index : tables[t][i].target = o},
         NEW P, P = {p \in Opened(o) : p[1] = t}
  PROVE  IsFiniteSet(P) /\ Cardinality(P) = Cardinality(I) /\ Cardinality(I) \in Nat
<1>1. IsFiniteSet(Index)
  BY FS_Interval, HandleAssumption DEF Index
<1>2. I \in SUBSET Index
  OBVIOUS
<1>3. IsFiniteSet(I)
  BY <1>1, <1>2, FS_Subset
<1>4. PICK f : f = [i \in I |-> <<t, i>>]
  BY Zenon
<1>5. \A i \in I : <<t, i>> \in P
  BY OpenedNow
<1>6. f \in [I -> P]
  BY <1>4, <1>5
<1>7. \A i, j \in I : f[i] = f[j] => i = j
  BY <1>4
<1>8. ASSUME NEW p \in P PROVE \E i \in I : f[i] = p
  <2>1. PICK u \in Table, i \in Index : p = <<u, i>>
    BY OpenedPairs DEF Opened
  <2>2. u = t
    BY <2>1
  <2>3. i \in I
    BY <2>1, <2>2, OpenedNow
  <2> QED BY <1>4, <2>1, <2>2, <2>3
<1>9. f \in Bijection(I, P)
  BY <1>6, <1>7, <1>8 DEF Bijection, Injection, Surjection, IsInjective
<1>10. ExistsBijection(I, P)
  BY <1>9 DEF ExistsBijection
<1> QED BY <1>3, <1>10, FS_Bijection, FS_CardinalityType

\* Destroying a table releases all of them.
LEMMA DestroyCounted ==
  ASSUME HandlesInv, HandlesType', NEW t \in Table, HandleTable_Destroy(t), NEW o \in Obj
  PROVE  Counted(o)'
<1>1. /\ HandlesType /\ IsFiniteSet(Opened(o)) /\ refs[o] = own[o] + Cardinality(Opened(o))
      /\ o \in gone => refs[o] = 0
      /\ refs[o] \in Nat /\ own[o] \in Nat /\ own' = own
      /\ tables' = [tables EXCEPT ![t] = << >>] /\ Alive(t)
  BY DEF HandlesInv, HandlesType, Counted, HandleTable_Destroy
<1>2. PICK I : I = {i \in Index : tables[t][i].target = o}
  BY Zenon
<1>3. PICK P : P = {p \in Opened(o) : p[1] = t}
  BY Zenon
<1>4. IsFiniteSet(P) /\ Cardinality(P) = Cardinality(I) /\ Cardinality(I) \in Nat
  BY <1>1, <1>2, <1>3, TableReferences, Zenon
<1>5. /\ refs'[o] = refs[o] - Cardinality(P)
      /\ o \in gone' <=> o \in gone \/ (Cardinality(P) > 0 /\ refs[o] = Cardinality(P))
  BY <1>2, <1>4 DEF HandleTable_Destroy, Dropped
<1>6. Opened(o)' = Opened(o) \ P
  <2>1. DOMAIN tables'[t] = {} /\ \A u \in Table : u # t => tables'[u] = tables[u]
    BY <1>1 DEF HandlesType
  <2>2. ASSUME NEW p \in Table \X Index
        PROVE  p \in Opened(o)' <=> p \in Opened(o) /\ p[1] # t
    <3>1. CASE p[1] = t
      BY <2>1, <3>1 DEF Opened, OpenedIn
    <3>2. CASE p[1] # t
      BY <2>1, <3>2 DEF Opened, OpenedIn
    <3> QED BY <3>1, <3>2
  <2>3. Opened(o) \subseteq Table \X Index /\ Opened(o)' \subseteq Table \X Index
    BY DEF Opened, OpenedIn
  <2> QED BY <1>3, <2>2, <2>3
<1>7. Opened(o) \cap P = P
  BY <1>3
<1>8. /\ IsFiniteSet(Opened(o)')
      /\ Cardinality(Opened(o)') = Cardinality(Opened(o)) - Cardinality(P)
  <2>1. /\ IsFiniteSet(Opened(o) \ P)
        /\ Cardinality(Opened(o) \ P) = Cardinality(Opened(o)) - Cardinality(Opened(o) \cap P)
    BY <1>1, FS_Difference, Zenon
  <2> QED BY <1>6, <1>7, <2>1, Zenon
<1>9. Cardinality(Opened(o)) \in Nat /\ Cardinality(Opened(o)') \in Nat
  BY <1>1, <1>8, FS_CardinalityType
<1>a. PICK a \in Nat, b \in Nat, c \in Nat :
        a = Cardinality(Opened(o)) /\ b = Cardinality(P) /\ c = Cardinality(Opened(o)')
  BY <1>4, <1>9
<1>b. PICK d \in Nat : d = own[o]
  BY <1>1
<1>c. c = a - b /\ refs[o] = d + a /\ refs'[o] = refs[o] - b
  BY <1>1, <1>5, <1>8, <1>a, <1>b
<1>10. refs'[o] = own[o] + Cardinality(Opened(o)')
  BY <1>a, <1>b, <1>c
<1>11. o \in gone' => refs'[o] = 0
  BY <1>1, <1>5, <1>a, <1>b, <1>c
<1> QED BY <1>1, <1>8, <1>10, <1>11 DEF Counted

-----------------------------------------------------------------------------
(* Arithmetic of the generations.                                          *)

\* Division with remainder, the quotient and the remainder named.
LEMMA Quotient ==
  ASSUME NEW m \in Nat \ {0}, NEW a \in Int
  PROVE  \E k \in Int, r \in 0..(m - 1) : a = m * k + r /\ r = a % m
<1>1. a = m * (a \div m) + (a % m)
  OBVIOUS
<1>2. a \div m \in Int /\ a % m \in 0..(m - 1)
  OBVIOUS
<1> QED BY <1>1, <1>2, Zenon

\* No multiple of m lies strictly between -m and m but zero.
LEMMA SmallMultiple ==
  ASSUME NEW m \in Nat \ {0}, NEW d \in Int, NEW e \in Int, e = m * d, -m < e, e < m
  PROVE  e = 0
<1>1. d >= 1 => e >= m
  OBVIOUS
<1>2. d <= -1 => e <= -m
  OBVIOUS
<1>3. d = 0 => e = 0
  OBVIOUS
<1> QED BY <1>1, <1>2, <1>3

\* Equal remainders of numbers less than m apart.
LEMMA ModApart ==
  ASSUME NEW m \in Nat \ {0}, NEW a \in Int, NEW b \in Int, a % m = b % m, -m < a - b, a - b < m
  PROVE  a = b
<1>1. PICK k \in Int, r \in 0..(m - 1) : a = m * k + r /\ r = a % m
  BY Quotient, Zenon
<1>2. PICK l \in Int, q \in 0..(m - 1) : b = m * l + q /\ q = b % m
  BY Quotient, Zenon
<1>3. PICK u \in Int, v \in Int : u = m * k /\ v = m * l
  OBVIOUS
<1>4. a = u + r /\ b = v + r
  BY <1>1, <1>2, <1>3
<1>5. u - v = m * (k - l)
  BY <1>3
<1>6. PICK e \in Int, d \in Int : e = u - v /\ d = k - l /\ e = m * d
  BY <1>5
<1>7. -m < e /\ e < m
  BY <1>4, <1>6
<1>8. e = 0
  BY <1>6, <1>7, SmallMultiple
<1> QED BY <1>4, <1>6, <1>8

\* A remainder is what it is the remainder of, up to multiples.
LEMMA ModIs ==
  ASSUME NEW m \in Nat \ {0}, NEW k \in Int, NEW r \in 0..(m - 1), NEW a \in Int, a = m * k + r
  PROVE  a % m = r
<1>1. PICK l \in Int, q \in 0..(m - 1) : a = m * l + q /\ q = a % m
  BY Quotient, Zenon
<1>2. PICK u \in Int, v \in Int : u = m * k /\ v = m * l
  OBVIOUS
<1>3. u - v = m * (k - l)
  BY <1>2
<1>4. PICK e \in Int, d \in Int : e = u - v /\ d = k - l /\ e = m * d
  BY <1>3
<1>5. a = u + r /\ a = v + q
  BY <1>1, <1>2
<1>6. -m < e /\ e < m
  BY <1>4, <1>5
<1>7. e = 0
  BY <1>4, <1>6, SmallMultiple
<1>8. q = r
  BY <1>4, <1>5, <1>7
<1> QED BY <1>1, <1>8

\* The successor of a remainder.
LEMMA ModInc ==
  ASSUME NEW m \in Nat \ {0}, NEW a \in Int
  PROVE  ((a % m) + 1) % m = (a + 1) % m
<1>1. PICK k \in Int, r \in 0..(m - 1) : a = m * k + r /\ r = a % m
  BY Quotient
<1>2. PICK u \in Int : u = m * k
  OBVIOUS
<1>a. PICK b \in Int : b = a + 1
  OBVIOUS
<1>3. CASE r + 1 < m
  <2>1. PICK s \in 0..(m - 1) : s = r + 1
    BY <1>1, <1>3
  <2>2. b = m * k + s
    <3>1. b = u + s
      <4>1. a = u + r
        BY <1>1, <1>2
      <4> QED BY <1>a, <2>1, <4>1
    <3> QED BY <1>2, <3>1
  <2>3. b % m = s
    BY <2>2, ModIs
  <2>4. s % m = s
    OBVIOUS
  <2> QED BY <1>1, <1>a, <2>1, <2>3, <2>4, Zenon
<1>4. CASE r + 1 = m
  <2>1. u + m = m * (k + 1)
    BY <1>2
  <2>2. a + 1 = u + m
    BY <1>1, <1>2, <1>4
  <2>3. PICK l \in Int, z \in 0..(m - 1) : b = m * l + z /\ z = 0
    <3>1. b = m * (k + 1) + 0 /\ k + 1 \in Int /\ 0 \in 0..(m - 1)
      BY <1>a, <2>1, <2>2
    <3> QED BY <3>1
  <2>4. b % m = 0
    BY <2>3, ModIs
  <2>5. m % m = 0
    OBVIOUS
  <2> QED BY <1>1, <1>4, <1>a, <2>4, <2>5, Zenon
<1> QED BY <1>1, <1>3, <1>4

-----------------------------------------------------------------------------
(* The handles that were issued.                                           *)

\* The same handle, closed or not.
SameHandle(q, r) == r.id = q.id /\ r.table = q.table /\ r.obj = q.obj /\ r.h = q.h

\* A step that at most closes handles: f is what becomes of each of them.
Relabelled(f) ==
  /\ f \in [issued -> IssuedType]
  /\ \A q \in issued : SameHandle(q, f[q])
  /\ issued' = {f[q] : q \in issued}

\* It keeps the numbers.
LEMMA RelabelledKeeps ==
  ASSUME HandlesInv, NEW f, Relabelled(f)
  PROVE  Numbered' /\ \A t, i : SlotIds(t, i)' = SlotIds(t, i)
<1>1. Numbered /\ issued \in SUBSET IssuedType
  BY DEF HandlesInv, HandlesType
<1>2. f \in [issued -> issued'] /\ \A r \in issued' : \E q \in issued : f[q] = r
  BY DEF Relabelled
<1>3. \A q, r \in issued : f[q] = f[r] => q = r
  <2> SUFFICES ASSUME NEW q \in issued, NEW r \in issued, f[q] = f[r] PROVE q = r
    OBVIOUS
  <2>1. q.id = f[q].id /\ r.id = f[r].id
    BY DEF Relabelled, SameHandle
  <2> QED BY <1>1, <2>1 DEF Numbered
<1>4. f \in Bijection(issued, issued')
  BY <1>2, <1>3 DEF Bijection, Injection, Surjection, IsInjective
<1>5. ExistsBijection(issued, issued')
  BY <1>4 DEF ExistsBijection
<1>6. IsFiniteSet(issued') /\ Cardinality(issued') = Cardinality(issued)
  BY <1>1, <1>5, FS_Bijection DEF Numbered
<1>7. \A q \in issued : f[q].id = q.id /\ f[q].table = q.table /\ f[q].h = q.h
  BY DEF Relabelled, SameHandle
<1>8. Numbered'
  <2>1. \A r \in issued' : r.id < Cardinality(issued')
    BY <1>1, <1>2, <1>6, <1>7 DEF Numbered
  <2>2. \A r, q \in issued' : r.id = q.id => r = q
    BY <1>1, <1>2, <1>7 DEF Numbered
  <2> QED BY <1>6, <2>1, <2>2 DEF Numbered
<1>9. ASSUME NEW t, NEW i PROVE SlotIds(t, i)' = SlotIds(t, i)
  <2>1. ASSUME NEW n \in Nat
        PROVE  (\E q \in issued' : q.id = n /\ q.table = t /\ q.h.idx = i) <=>
               (\E q \in issued : q.id = n /\ q.table = t /\ q.h.idx = i)
    BY <1>2, <1>7
  <2> QED BY <2>1 DEF SlotIds
<1> QED BY <1>8, <1>9

\* The handle that HandleTable_Open returns.
NewHandle(t, i, o) ==
  [id |-> Cardinality(issued), table |-> t, obj |-> o, closed |-> FALSE,
   h |-> [gen |-> tables[t][i].generation, idx |-> i]]

\* It is the next in number, and the last of its slot.
Issues(t, i, o, n, r) ==
  /\ n \in Nat /\ r.id = n /\ r.table = t /\ r.obj = o /\ ~r.closed
  /\ r.h.idx = i /\ r.h.gen = tables[t][i].generation
  /\ issued' = issued \cup {r}
  /\ SlotIds(t, i)' = SlotIds(t, i) \cup {n}
  /\ \A u, j : u # t \/ j # i => SlotIds(u, j)' = SlotIds(u, j)
  /\ \A u, j : SlotIds(u, j) \subseteq 0..(n - 1)

\* HandleTable_Open issues it.
LEMMA OpenNumbered ==
  ASSUME HandlesInv, NEW t \in Table, NEW o \in Obj, HandleTable_Open(t, o),
         NEW i, i = freeHead[t], NEW r, r = NewHandle(t, i, o), NEW n, n = Cardinality(issued)
  PROVE  Issues(t, i, o, n, r) /\ r \in IssuedType /\ Numbered'
<1> USE DEF Issues
<1>0. i \in Index /\ HandlesType /\ Numbered /\ Alive(t)
  BY OpenSlot, Zenon DEF HandlesInv, HandleTable_Open
<1>1. n \in Nat
  BY <1>0, FS_CardinalityType DEF Numbered
<1>2. tables[t][i].generation \in Generation
  BY <1>0, SlotTypes
<1>3. /\ r.id = n /\ r.table = t /\ r.obj = o /\ r.closed = FALSE
      /\ r.h = [gen |-> tables[t][i].generation, idx |-> i]
      /\ r.h.idx = i /\ r.h.gen = tables[t][i].generation
  BY DEF NewHandle
<1>4. r \in IssuedType
  <2>1. r.h \in Handle
    BY <1>0, <1>2, <1>3 DEF Handle, Generation
  <2> QED BY <1>1, <1>3, <2>1 DEF NewHandle, IssuedType
<1>5. issued' = issued \cup {r}
  BY DEF HandleTable_Open, NewHandle
<1>6. \A q \in issued : q \in IssuedType /\ q.id \in Nat /\ q.id < n
  BY <1>0 DEF Numbered, HandlesType, IssuedType
<1>7. r \notin issued
  BY <1>1, <1>3, <1>6
<1>8. IsFiniteSet(issued') /\ Cardinality(issued') = n + 1
  BY <1>0, <1>5, <1>7, FS_AddElement DEF Numbered
<1>9. Numbered'
  <2>1. \A q \in issued' : q.id < Cardinality(issued')
    BY <1>1, <1>3, <1>5, <1>6, <1>8
  <2>2. \A p, q \in issued' : p.id = q.id => p = q
    BY <1>0, <1>1, <1>3, <1>5, <1>6 DEF Numbered
  <2> QED BY <1>8, <2>1, <2>2 DEF Numbered
<1>10. SlotIds(t, i)' = SlotIds(t, i) \cup {n}
  BY <1>1, <1>3, <1>5 DEF SlotIds
<1>11. ASSUME NEW u, NEW j, u # t \/ j # i PROVE SlotIds(u, j)' = SlotIds(u, j)
  BY <1>3, <1>5, <1>11 DEF SlotIds
<1>12. \A u, j : SlotIds(u, j) \subseteq 0..(n - 1)
  BY <1>1, <1>6 DEF SlotIds
<1> QED BY <1>1, <1>3, <1>4, <1>5, <1>9, <1>10, <1>11, <1>12

\* Opening keeps the counts of the generations and the claims of the handles.
LEMMA OpenIssued ==
  ASSUME HandlesInv, HandlesType', NEW t \in Table, NEW o \in Obj, HandleTable_Open(t, o)
  PROVE  /\ \A u \in Table, j \in Index : GenerationCounts(u, j)'
         /\ \A r \in issued' : /\ HandleCounts(r)' /\ ClosedEmpties(r)'
                               /\ ~r.closed => Occupies(r)' \/ Twin(r)'
<1>0. PICK i : i = freeHead[t]
  OBVIOUS
<1>1. PICK s : s = OpenedSlot(t, i, o)
  OBVIOUS
<1>2. /\ i \in Index /\ tables[t][i].target = NoObj /\ SlotChanged(t, i, s)
      /\ s.target = o /\ s.generation = tables[t][i].generation /\ o # NoObj
  BY <1>0, <1>1, OpenSlot, HandleAssumption
<1>3. PICK n : n = Cardinality(issued)
  OBVIOUS
<1>4. PICK r : r = NewHandle(t, i, o)
  OBVIOUS
<1>5. /\ n \in Nat /\ r.id = n /\ r.table = t /\ r.obj = o /\ ~r.closed
      /\ r.h.idx = i /\ r.h.gen = tables[t][i].generation
      /\ issued' = issued \cup {r}
      /\ SlotIds(t, i)' = SlotIds(t, i) \cup {n}
      /\ \A u, j : u # t \/ j # i => SlotIds(u, j)' = SlotIds(u, j)
      /\ \A u, j : SlotIds(u, j) \subseteq 0..(n - 1)
  <2>1. Issues(t, i, o, n, r)
    BY <1>0, <1>3, <1>4, OpenNumbered
  <2> QED BY <2>1, Zenon DEF Issues
<1>6. /\ Alive(t) /\ Alive(t)' /\ tables'[t][i] = s
      /\ \A j \in Index : j # i => tables'[t][j] = tables[t][j]
      /\ \A u \in Table : u # t => tables'[u] = tables[u] /\ (Alive(u)' <=> Alive(u))
  BY <1>2 DEF SlotChanged, Alive
<1>7. IsFiniteSet(SlotIds(t, i)) /\ n \notin SlotIds(t, i)
  <2>1. IsFiniteSet(0..(n - 1))
    BY <1>5, FS_Interval
  <2>2. SlotIds(t, i) \in SUBSET (0..(n - 1))
    BY <1>5
  <2> QED BY <1>5, <2>1, <2>2, FS_Subset
<1>8. PICK c \in Nat : c = Cardinality(SlotIds(t, i))
  BY <1>7, FS_CardinalityType
<1>9. Cardinality(SlotIds(t, i)') = c + 1
  <2>1. Cardinality(SlotIds(t, i) \cup {n}) =
          IF n \in SlotIds(t, i) THEN Cardinality(SlotIds(t, i)) ELSE Cardinality(SlotIds(t, i)) + 1
    BY <1>7, FS_AddElement, Zenon
  <2> QED BY <1>5, <1>7, <1>8, <2>1
<1>10. tables[t][i].generation = c % GenModulus
  <2>1. tables[t][i].generation = (c - 0) % GenModulus
    BY <1>2, <1>6, <1>8 DEF HandlesInv, GenerationCounts
  <2> QED BY <1>8, <2>1
<1>11. ASSUME NEW u \in Table, NEW j \in Index PROVE GenerationCounts(u, j)'
  <2>1. CASE u = t /\ j = i
    <3>1. tables'[t][i].generation = ((c + 1) - 1) % GenModulus /\ tables'[t][i].target # NoObj
      BY <1>2, <1>6, <1>8, <1>10
    <3> QED BY <1>9, <2>1, <3>1 DEF GenerationCounts
  <2>2. CASE u # t \/ j # i
    <3>1. SlotIds(u, j)' = SlotIds(u, j) /\ (Alive(u)' <=> Alive(u)) /\ tables'[u][j] = tables[u][j]
      BY <1>5, <1>6, <2>2
    <3>2. GenerationCounts(u, j)
      BY DEF HandlesInv
    <3> QED BY <3>1, <3>2 DEF GenerationCounts
  <2> QED BY <2>1, <2>2
<1>12. \A q \in issued : /\ q.id \in Nat /\ q.id < n /\ q.table \in Table /\ q.h.idx \in Index
                         /\ q.obj \in Obj /\ q.id \in SlotIds(q.table, q.h.idx)
  BY <1>3 DEF HandlesInv, HandlesType, Numbered, IssuedType, Handle, SlotIds
<1>13. HandleCounts(r)'
  <2>1. {k \in SlotIds(t, i)' : k < n} = SlotIds(t, i)
    BY <1>5
  <2> QED BY <1>5, <1>8, <1>10, <2>1, Zenon DEF HandleCounts
<1>14. ASSUME NEW q \in issued PROVE HandleCounts(q)'
  <2>1. {k \in SlotIds(q.table, q.h.idx)' : k < q.id} = {k \in SlotIds(q.table, q.h.idx) : k < q.id}
    <3>1. SlotIds(q.table, q.h.idx)' = SlotIds(q.table, q.h.idx)
             \/ SlotIds(q.table, q.h.idx)' = SlotIds(q.table, q.h.idx) \cup {n}
      BY <1>5
    <3>2. ~(n < q.id)
      BY <1>5, <1>12
    <3> QED BY <3>1, <3>2
  <2>2. HandleCounts(q)
    BY DEF HandlesInv
  <2> QED BY <2>1, <2>2, Zenon DEF HandleCounts
<1>15. ClosedEmpties(r)' /\ Occupies(r)'
  BY <1>2, <1>5, <1>6 DEF ClosedEmpties, Occupies
<1>16. ASSUME NEW q \in issued PROVE ClosedEmpties(q)'
  <2>1. CASE q.table = t /\ q.h.idx = i
    <3>1. n \in SlotIds(q.table, q.h.idx)' /\ ~(n <= q.id)
      BY <1>5, <1>12, <2>1
    <3> QED BY <3>1 DEF ClosedEmpties
  <2>2. CASE q.table # t \/ q.h.idx # i
    <3>1. /\ SlotIds(q.table, q.h.idx)' = SlotIds(q.table, q.h.idx)
          /\ Alive(q.table)' <=> Alive(q.table)
          /\ tables'[q.table][q.h.idx] = tables[q.table][q.h.idx]
      BY <1>5, <1>6, <1>12, <2>2
    <3>2. ClosedEmpties(q)
      BY DEF HandlesInv
    <3> QED BY <3>1, <3>2 DEF ClosedEmpties
  <2> QED BY <2>1, <2>2
<1>17. ASSUME NEW q \in issued, ~q.closed PROVE Occupies(q)' \/ Twin(q)'
  <2>1. CASE Twin(q)
    BY <1>5, <2>1 DEF Twin
  <2>2. CASE Occupies(q)
    <3>1. q.table # t \/ q.h.idx # i
      BY <1>2, <1>12, <2>2, HandleAssumption DEF Occupies
    <3>2. (Alive(q.table)' <=> Alive(q.table)) /\ tables'[q.table][q.h.idx] = tables[q.table][q.h.idx]
      BY <1>6, <1>12, <3>1
    <3> QED BY <2>2, <3>2 DEF Occupies
  <2> QED BY <1>17, <2>1, <2>2 DEF HandlesInv
<1> QED BY <1>5, <1>11, <1>13, <1>14, <1>15, <1>16, <1>17

\* What an issued handle is.
LEMMA IssuedTypes ==
  ASSUME HandlesInv, NEW q \in issued
  PROVE  /\ q \in IssuedType /\ q.id \in Nat /\ q.table \in Table /\ q.obj \in Obj /\ q.obj # NoObj
         /\ q.h \in Handle /\ q.h.idx \in Index /\ q.closed \in BOOLEAN
         /\ q.id \in SlotIds(q.table, q.h.idx)
<1>1. q \in IssuedType
  BY DEF HandlesInv, HandlesType
<1>2. q.id \in Nat /\ q.table \in Table /\ q.obj \in Obj /\ q.h \in Handle /\ q.closed \in BOOLEAN
  BY <1>1 DEF IssuedType
<1>3. q.h.idx \in Index
  BY <1>2 DEF Handle
<1>4. q.id \in SlotIds(q.table, q.h.idx)
  BY <1>2 DEF SlotIds
<1> QED BY <1>1, <1>2, <1>3, <1>4, HandleAssumption

\* The handles issued for a slot are those before r, r and those after it.
LEMMA SlotCount ==
  ASSUME HandlesInv, NEW r \in issued,
         NEW S, S = SlotIds(r.table, r.h.idx),
         NEW E, E = {n \in S : n < r.id}, NEW L, L = {n \in S : n > r.id}
  PROVE  /\ IsFiniteSet(S) /\ IsFiniteSet(E) /\ IsFiniteSet(L)
         /\ Cardinality(S) \in Nat /\ Cardinality(E) \in Nat /\ Cardinality(L) \in Nat
         /\ Cardinality(S) = Cardinality(E) + 1 + Cardinality(L)
<1>1. PICK n \in Nat : n = Cardinality(issued)
  BY FS_CardinalityType DEF HandlesInv, Numbered
<1>2. S \in SUBSET (0..n) /\ r.id \in S /\ r.id \in Nat
  BY <1>1, IssuedTypes DEF HandlesInv, Numbered, SlotIds
<1>3. IsFiniteSet(S)
  <2>1. IsFiniteSet(0..n)
    BY <1>1, FS_Interval
  <2> QED BY <1>2, <2>1, FS_Subset
<1>4. E \in SUBSET S /\ L \in SUBSET S
  OBVIOUS
<1>5. IsFiniteSet(E) /\ IsFiniteSet(L)
  BY <1>3, <1>4, FS_Subset
<1>6. Cardinality(S) \in Nat /\ Cardinality(E) \in Nat /\ Cardinality(L) \in Nat
  BY <1>3, <1>5, FS_CardinalityType
<1>7. PICK F : F = E \cup {r.id}
  BY Zenon
<1>8. IsFiniteSet(F) /\ Cardinality(F) = Cardinality(E) + 1
  <2>1. r.id \notin E
    BY <1>2
  <2>2. /\ IsFiniteSet(E \cup {r.id})
        /\ Cardinality(E \cup {r.id}) = IF r.id \in E THEN Cardinality(E) ELSE Cardinality(E) + 1
    BY <1>5, FS_AddElement, Zenon
  <2> QED BY <1>7, <2>1, <2>2
<1>9. S = F \cup L /\ F \cap L = {}
  BY <1>2, <1>7
<1>10. Cardinality(F \cup L) = Cardinality(F) + Cardinality(L) - Cardinality(F \cap L)
  BY <1>5, <1>8, FS_Union, Zenon
<1>11. Cardinality(F \cap L) = 0
  BY <1>9, FS_EmptySet
<1>12. Cardinality(S) = Cardinality(F) + Cardinality(L) - 0
  BY <1>9, <1>10, <1>11, Zenon
<1>13. Cardinality(S) = Cardinality(E) + 1 + Cardinality(L)
  BY <1>6, <1>8, <1>12
<1> QED BY <1>3, <1>5, <1>6, <1>13

\* A slot in use has the generation of the handle that was issued last for it.
LEMMA LastGeneration ==
  ASSUME HandlesInv, NEW r \in issued, Alive(r.table), tables[r.table][r.h.idx].target # NoObj,
         \A n \in SlotIds(r.table, r.h.idx) : n <= r.id
  PROVE  tables[r.table][r.h.idx].generation = r.h.gen
<1>1. PICK S : S = SlotIds(r.table, r.h.idx)
  OBVIOUS
<1>2. PICK E : E = {n \in S : n < r.id}
  BY Zenon
<1>3. PICK L : L = {n \in S : n > r.id}
  BY Zenon
<1>4. /\ Cardinality(S) \in Nat /\ Cardinality(E) \in Nat /\ Cardinality(L) \in Nat
      /\ Cardinality(S) = Cardinality(E) + 1 + Cardinality(L)
  BY <1>1, <1>2, <1>3, SlotCount
<1>5. L = {}
  <2>1. S \subseteq Nat /\ r.id \in Nat
    BY <1>1, IssuedTypes DEF SlotIds
  <2> QED BY <1>1, <1>3, <2>1
<1>6. Cardinality(S) - 1 = Cardinality(E)
  BY <1>4, <1>5, FS_EmptySet
<1>7. tables[r.table][r.h.idx].generation = (Cardinality(S) - 1) % GenModulus
  BY <1>1, IssuedTypes, Zenon DEF HandlesInv, GenerationCounts
<1>8. r.h.gen = Cardinality(E) % GenModulus
  BY <1>1, <1>2 DEF HandlesInv, HandleCounts
<1> QED BY <1>6, <1>7, <1>8

\* Closing a handle marks it.
LEMMA CloseRelabels ==
  ASSUME HandlesInv, NEW r \in issued, issued' = (issued \ {r}) \cup {[r EXCEPT !.closed = TRUE]}
  PROVE  \E f : /\ Relabelled(f)
                /\ f[r].closed
                /\ \A q \in issued : q # r => f[q] = q
<1>1. PICK c : c = [r EXCEPT !.closed = TRUE]
  BY Zenon
<1>2. c \in IssuedType /\ c.closed /\ SameHandle(r, c)
  <2>1. r \in IssuedType /\ TRUE \in BOOLEAN
    BY IssuedTypes
  <2> QED BY <1>1, <2>1, Zenon DEF IssuedType, SameHandle
<1>3. PICK f : f = [q \in issued |-> IF q = r THEN c ELSE q]
  BY Zenon
<1>4. f[r] = c /\ \A q \in issued : q # r => f[q] = q
  BY <1>3
<1>5. f \in [issued -> IssuedType]
  BY <1>2, <1>3, IssuedTypes
<1>6. \A q \in issued : SameHandle(q, f[q])
  BY <1>2, <1>4 DEF SameHandle
<1>7. issued' = {f[q] : q \in issued}
  <2>1. issued' = (issued \ {r}) \cup {c}
    BY <1>1
  <2> QED BY <1>4, <2>1
<1>8. Relabelled(f)
  BY <1>5, <1>6, <1>7 DEF Relabelled
<1> QED BY <1>2, <1>4, <1>8

\* Destroying a table closes its handles.
LEMMA DestroyRelabels ==
  ASSUME HandlesInv, NEW t \in Table,
         issued' = {IF r.table = t THEN [r EXCEPT !.closed = TRUE] ELSE r : r \in issued}
  PROVE  \E f : /\ Relabelled(f)
                /\ \A q \in issued : IF q.table = t THEN f[q].closed ELSE f[q] = q
<1>1. PICK f : f = [r \in issued |-> IF r.table = t THEN [r EXCEPT !.closed = TRUE] ELSE r]
  BY Zenon
<1>2. ASSUME NEW q \in issued
      PROVE  /\ f[q] \in IssuedType /\ SameHandle(q, f[q])
             /\ IF q.table = t THEN f[q].closed ELSE f[q] = q
  <2>1. PICK c : c = [q EXCEPT !.closed = TRUE]
    BY Zenon
  <2>2. c \in IssuedType /\ c.closed /\ SameHandle(q, c) /\ q \in IssuedType
    <3>1. q \in IssuedType /\ TRUE \in BOOLEAN
      BY IssuedTypes
    <3> QED BY <2>1, <3>1, Zenon DEF IssuedType, SameHandle
  <2>3. f[q] = IF q.table = t THEN c ELSE q
    BY <1>1, <2>1, Zenon
  <2> QED BY <2>2, <2>3 DEF SameHandle
<1>3. f \in [issued -> IssuedType]
  BY <1>1, <1>2
<1>4. issued' = {f[q] : q \in issued}
  BY <1>1
<1>5. Relabelled(f)
  BY <1>2, <1>3, <1>4 DEF Relabelled
<1> QED BY <1>2, <1>5

\* Handles whose slot a step leaves alone keep what is claimed of them.
LEMMA ClaimsKept ==
  ASSUME HandlesInv, NEW f, Relabelled(f), NEW q \in issued, f[q] = q,
         \A u, j : SlotIds(u, j)' = SlotIds(u, j),
         Alive(q.table)' <=> Alive(q.table),
         tables'[q.table][q.h.idx] = tables[q.table][q.h.idx],
         \A p \in issued : f[p] = q => p = q
  PROVE  ClosedEmpties(q)' /\ (~q.closed => Occupies(q)' \/ Twin(q)')
<1>1. ClosedEmpties(q) /\ (~q.closed => Occupies(q) \/ Twin(q))
  BY DEF HandlesInv
<1>2. ClosedEmpties(q)'
  BY <1>1, Zenon DEF ClosedEmpties
<1>3. Occupies(q) => Occupies(q)'
  BY DEF Occupies
<1>4. Twin(q) => Twin(q)'
  <2> SUFFICES ASSUME Twin(q) PROVE Twin(q)'
    OBVIOUS
  <2>1. PICK p \in issued : p # q /\ p.table = q.table /\ p.h = q.h
    BY DEF Twin
  <2>2. f[p] \in issued' /\ f[p] # q /\ f[p].table = q.table /\ f[p].h = q.h
    BY <2>1 DEF Relabelled, SameHandle
  <2> QED BY <2>2 DEF Twin
<1> QED BY <1>1, <1>2, <1>3, <1>4

\* Handles keep the generation that counts those before them.
LEMMA CountsKept ==
  ASSUME HandlesInv, NEW f, Relabelled(f), \A u, j : SlotIds(u, j)' = SlotIds(u, j),
         NEW q \in issued
  PROVE  HandleCounts(f[q])'
<1>1. HandleCounts(q) /\ SameHandle(q, f[q])
  BY DEF HandlesInv, Relabelled
<1> QED BY <1>1 DEF HandleCounts, SameHandle

\* Closing a handle that is valid.
LEMMA CloseValidIssued ==
  ASSUME HandlesInv, NEW r \in issued, HandleTable_Close(r), Valid(r.table, r.h)
  PROVE  /\ Numbered'
         /\ \A u \in Table, j \in Index : GenerationCounts(u, j)'
         /\ \A q \in issued' : /\ HandleCounts(q)' /\ ClosedEmpties(q)'
                               /\ ~q.closed => Occupies(q)' \/ Twin(q)'
<1>0. PICK t \in Table, i \in Index : t = r.table /\ i = r.h.idx
  BY IssuedTypes
<1>1. /\ Alive(t) /\ tables[t][i].target # NoObj /\ tables[t][i].generation = r.h.gen
      /\ tables' = FreeSlot(t, i) /\ HandlesType
  BY <1>0 DEF Valid, Alive, HandleTable_Close, HandlesInv
<1>2. PICK s : s = ClosedSlot(t, i)
  OBVIOUS
<1>3. /\ SlotChanged(t, i, s) /\ s.target = NoObj
      /\ s.generation = (tables[t][i].generation + 1) % GenModulus
  BY <1>1, <1>2, CloseSlot
<1>4. /\ Alive(t)' /\ tables'[t][i] = s
      /\ \A j \in Index : j # i => tables'[t][j] = tables[t][j]
      /\ \A u \in Table : u # t => tables'[u] = tables[u] /\ (Alive(u)' <=> Alive(u))
  BY <1>3 DEF SlotChanged, Alive
<1>5. PICK f : Relabelled(f) /\ f[r].closed /\ \A q \in issued : q # r => f[q] = q
  BY CloseRelabels DEF HandleTable_Close
<1>6. Numbered' /\ \A u, j : SlotIds(u, j)' = SlotIds(u, j)
  BY <1>5, RelabelledKeeps
<1>7. ASSUME NEW u \in Table, NEW j \in Index PROVE GenerationCounts(u, j)'
  <2>0. GenerationCounts(u, j)
    BY DEF HandlesInv
  <2>1. CASE u = t /\ j = i
    <3>1. PICK c \in Nat : c = Cardinality(SlotIds(t, i))
      BY <1>0, SlotCount, Zenon
    <3>2. tables[t][i].generation = (c - 1) % GenModulus
      BY <1>1, <2>0, <2>1, <3>1 DEF GenerationCounts
    <3>3. (((c - 1) % GenModulus) + 1) % GenModulus = ((c - 1) + 1) % GenModulus
      <4>1. c - 1 \in Int /\ GenModulus \in Nat \ {0}
        BY <3>1, HandleAssumption
      <4> QED BY <4>1, ModInc, Zenon
    <3>4. (c - 1) + 1 = c - 0
      BY <3>1
    <3>5. s.generation = (c - 0) % GenModulus
      BY <1>3, <3>2, <3>3, <3>4
    <3> QED BY <1>3, <1>4, <1>6, <2>1, <3>1, <3>5 DEF GenerationCounts
  <2>2. CASE u # t \/ j # i
    BY <1>1, <1>4, <1>6, <2>0, <2>2 DEF GenerationCounts
  <2> QED BY <2>1, <2>2
<1>8. ASSUME NEW q \in issued'
      PROVE  /\ HandleCounts(q)' /\ ClosedEmpties(q)'
             /\ ~q.closed => Occupies(q)' \/ Twin(q)'
  <2>1. PICK p \in issued : q = f[p]
    BY <1>5 DEF Relabelled
  <2>2. HandleCounts(q)'
    BY <1>5, <1>6, <2>1, CountsKept
  <2>3. CASE p = r
    <3>1. q.table = t /\ q.h.idx = i /\ q.closed
      BY <1>0, <1>5, <2>1, <2>3 DEF Relabelled, SameHandle
    <3>2. ClosedEmpties(q)'
      BY <1>3, <1>4, <3>1 DEF ClosedEmpties
    <3> QED BY <2>2, <3>1, <3>2
  <2>4. CASE p # r /\ p.table = t /\ p.h.idx = i
    <3>1. q = p
      BY <1>5, <2>1, <2>4
    <3>2. ClosedEmpties(q)'
      BY <1>3, <1>4, <2>4, <3>1 DEF ClosedEmpties
    <3>3. ~q.closed => Twin(q)'
      <4> SUFFICES ASSUME ~q.closed PROVE Twin(q)'
        OBVIOUS
      <4>1. CASE Twin(q)
        <5>1. PICK w \in issued : w # q /\ w.table = q.table /\ w.h = q.h
          BY <4>1 DEF Twin
        <5>2. f[w] \in issued' /\ f[w] # q /\ f[w].table = q.table /\ f[w].h = q.h
          BY <1>5, <5>1 DEF Relabelled, SameHandle
        <5> QED BY <5>2 DEF Twin
      <4>2. CASE Occupies(q)
        <5>1. q.h.gen = r.h.gen /\ q.h.idx = r.h.idx /\ q.h \in Handle /\ r.h \in Handle
          BY <1>0, <1>1, <2>4, <3>1, <4>2, IssuedTypes DEF Occupies
        <5>2. q.h = r.h
          BY <5>1 DEF Handle
        <5>3. f[r] \in issued' /\ f[r] # q /\ f[r].table = q.table /\ f[r].h = q.h
          BY <1>0, <1>5, <2>4, <3>1, <5>2 DEF Relabelled, SameHandle
        <5> QED BY <5>3 DEF Twin
      <4> QED BY <3>1, <4>1, <4>2 DEF HandlesInv
    <3> QED BY <2>2, <3>2, <3>3
  <2>5. CASE p # r /\ (p.table # t \/ p.h.idx # i)
    <3>1. q = p /\ f[p] = p /\ p.table \in Table /\ p.h.idx \in Index
      BY <1>5, <2>1, <2>5, IssuedTypes
    <3>2. (Alive(p.table)' <=> Alive(p.table)) /\ tables'[p.table][p.h.idx] = tables[p.table][p.h.idx]
      BY <1>1, <1>4, <2>5, <3>1
    <3>3. \A w \in issued : f[w] = p => w = p
      <4>1. f[r] # p
        BY <1>0, <1>5, <2>5 DEF Relabelled, SameHandle
      <4> QED BY <1>5, <4>1
    <3>4. ClosedEmpties(p)' /\ (~p.closed => Occupies(p)' \/ Twin(p)')
      BY <1>5, <1>6, <3>1, <3>2, <3>3, ClaimsKept
    <3> QED BY <2>2, <3>1, <3>4
  <2> QED BY <2>3, <2>4, <2>5
<1> QED BY <1>6, <1>7, <1>8

\* Closing a handle that is not: only the holder's view changes.  The handle
\* was closed before, or the slot has another handle by now.
LEMMA CloseStaleIssued ==
  ASSUME HandlesInv, NEW r \in issued, HandleTable_Close(r), ~Valid(r.table, r.h)
  PROVE  /\ Numbered'
         /\ \A u \in Table, j \in Index : GenerationCounts(u, j)'
         /\ \A q \in issued' : /\ HandleCounts(q)' /\ ClosedEmpties(q)'
                               /\ ~q.closed => Occupies(q)' \/ Twin(q)'
<1>1. tables' = tables /\ \A u : Alive(u)' <=> Alive(u)
  BY DEF HandleTable_Close, Alive
<1>2. PICK f : Relabelled(f) /\ f[r].closed /\ \A q \in issued : q # r => f[q] = q
  BY CloseRelabels DEF HandleTable_Close
<1>3. Numbered' /\ \A u, j : SlotIds(u, j)' = SlotIds(u, j)
  BY <1>2, RelabelledKeeps
<1>4. ASSUME NEW u \in Table, NEW j \in Index PROVE GenerationCounts(u, j)'
  BY <1>1, <1>3 DEF GenerationCounts, HandlesInv
<1>5. ASSUME NEW q \in issued'
      PROVE  /\ HandleCounts(q)' /\ ClosedEmpties(q)'
             /\ ~q.closed => Occupies(q)' \/ Twin(q)'
  <2>1. PICK p \in issued : q = f[p]
    BY <1>2 DEF Relabelled
  <2>2. HandleCounts(q)'
    BY <1>2, <1>3, <2>1, CountsKept
  <2>3. CASE p = r
    <3>1. q.table = r.table /\ q.h = r.h /\ q.id = r.id /\ q.closed
      BY <1>2, <2>1, <2>3 DEF Relabelled, SameHandle
    <3>2. ASSUME Alive(r.table), \A n \in SlotIds(r.table, r.h.idx) : n <= r.id,
                 tables[r.table][r.h.idx].target # NoObj
          PROVE  FALSE
      <4>1. tables[r.table][r.h.idx].generation = r.h.gen
        BY <3>2, LastGeneration
      <4>2. DOMAIN tables[r.table] = Index /\ r.h.idx \in Index
        BY <3>2, IssuedTypes, TableShape, Zenon DEF HandlesInv, HandlesType, Alive
      <4> QED BY <3>2, <4>1, <4>2 DEF Valid
    <3>3. ClosedEmpties(q)'
      BY <1>1, <1>3, <3>1, <3>2 DEF ClosedEmpties
    <3> QED BY <2>2, <3>1, <3>3
  <2>4. CASE p # r
    <3>1. q = p /\ f[p] = p
      BY <1>2, <2>1, <2>4
    <3>2. \A w \in issued : f[w] = p => w = p
      <4>1. f[r] # p
        <5>1. f[r].id = r.id /\ (p.id = r.id => p = r)
          BY <1>2 DEF Relabelled, SameHandle, HandlesInv, Numbered
        <5> QED BY <2>4, <5>1
      <4> QED BY <1>2, <4>1
    <3>3. ClosedEmpties(p)' /\ (~p.closed => Occupies(p)' \/ Twin(p)')
      BY <1>1, <1>2, <1>3, <3>1, <3>2, ClaimsKept, Zenon
    <3> QED BY <2>2, <3>1, <3>3
  <2> QED BY <2>3, <2>4
<1> QED BY <1>3, <1>4, <1>5

\* Destroying a table.
LEMMA DestroyIssued ==
  ASSUME HandlesInv, NEW t \in Table, HandleTable_Destroy(t)
  PROVE  /\ Numbered'
         /\ \A u \in Table, j \in Index : GenerationCounts(u, j)'
         /\ \A q \in issued' : /\ HandleCounts(q)' /\ ClosedEmpties(q)'
                               /\ ~q.closed => Occupies(q)' \/ Twin(q)'
<1>1. /\ ~Alive(t)'
      /\ \A u \in Table : u # t => tables'[u] = tables[u] /\ (Alive(u)' <=> Alive(u))
  BY DEF HandleTable_Destroy, HandlesInv, HandlesType, Alive
<1>2. PICK f : /\ Relabelled(f)
               /\ \A q \in issued : IF q.table = t THEN f[q].closed ELSE f[q] = q
  BY DestroyRelabels, Zenon DEF HandleTable_Destroy
<1>3. Numbered' /\ \A u, j : SlotIds(u, j)' = SlotIds(u, j)
  BY <1>2, RelabelledKeeps
<1>4. ASSUME NEW u \in Table, NEW j \in Index PROVE GenerationCounts(u, j)'
  BY <1>1, <1>3 DEF GenerationCounts, HandlesInv
<1>5. ASSUME NEW q \in issued'
      PROVE  /\ HandleCounts(q)' /\ ClosedEmpties(q)'
             /\ ~q.closed => Occupies(q)' \/ Twin(q)'
  <2>1. PICK p \in issued : q = f[p]
    BY <1>2 DEF Relabelled
  <2>2. HandleCounts(q)' /\ p.table \in Table /\ q.table = p.table
    BY <1>2, <1>3, <2>1, CountsKept, IssuedTypes DEF Relabelled, SameHandle
  <2>3. CASE p.table = t
    BY <1>1, <1>2, <2>1, <2>2, <2>3, Zenon DEF ClosedEmpties
  <2>4. CASE p.table # t
    <3>1. q = p /\ f[p] = p
      BY <1>2, <2>1, <2>4
    <3>2. \A w \in issued : f[w] = p => w = p
      BY <1>2, <2>4 DEF Relabelled, SameHandle
    <3>3. ClosedEmpties(p)' /\ (~p.closed => Occupies(p)' \/ Twin(p)')
      BY <1>1, <1>2, <1>3, <2>2, <2>4, <3>1, <3>2, ClaimsKept
    <3> QED BY <2>2, <3>1, <3>3
  <2> QED BY <2>3, <2>4
<1> QED BY <1>3, <1>4, <1>5

-----------------------------------------------------------------------------
(* Every step keeps the invariant.                                         *)

\* Initially the tables are empty and their lists go through all slots.
LEMMA HandlesInitInv == HandlesInit => HandlesInv
<1> SUFFICES ASSUME HandlesInit PROVE HandlesInv
  OBVIOUS
<1>1. HandlesType
  <2>1. HandleTable_Init \in [Index -> SlotType]
    <3>1. ASSUME NEW i \in Index PROVE HandleTable_Init[i] \in SlotType
      <4>1. (IF i + 1 < Cap THEN i + 1 ELSE Invalid) \in Index \cup {Invalid}
        BY HandleAssumption DEF Index
      <4>2. 0 \in Generation /\ NoObj \in Obj \cup {NoObj}
        BY HandleAssumption DEF Generation
      <4> QED BY <4>1, <4>2 DEF HandleTable_Init, SlotType
    <3> QED BY <3>1 DEF HandleTable_Init
  <2> QED BY <2>1, IndexNonEmpty DEF HandlesInit, HandlesType
<1>2. ASSUME NEW t \in Table, NEW i \in Index
      PROVE  /\ tables[t][i].target = NoObj /\ tables[t][i].generation = 0
             /\ tables[t][i].next_free = IF i + 1 < Cap THEN i + 1 ELSE Invalid
  BY DEF HandlesInit, HandleTable_Init
<1>3. ASSUME NEW o \in Obj PROVE Counted(o)
  <2>1. Opened(o) = {}
    <3>1. ASSUME NEW p \in Opened(o) PROVE FALSE
      <4>1. PICK t \in Table, i \in Index : p = <<t, i>>
        BY <3>1, OpenedPairs DEF Opened
      <4> QED BY <1>1, <1>2, <3>1, <4>1, OpenedNow, HandleAssumption
    <3> QED BY <3>1
  <2> QED BY <2>1, FS_EmptySet DEF HandlesInit, Counted
<1>4. ASSUME NEW t \in Table PROVE Listed(t)
  <2>1. PICK q : q = [k \in 1..Cap |-> k - 1]
    BY Zenon
  <2>2. \A k \in 1..Cap : q[k] = k - 1 /\ k - 1 \in Index
    BY <2>1, HandleAssumption DEF Index
  <2>3. q \in [1..Cap -> Index] /\ Cap \in 0..Cap
    BY <2>1, <2>2, HandleAssumption
  <2>4. IsFreeList(t, q, Cap)
    <3>1. freeHead[t] = q[1] /\ Cap # 0
      BY <2>2, HandleAssumption DEF HandlesInit
    <3>2. ASSUME NEW k \in 1..Cap
          PROVE  tables[t][q[k]].next_free = IF k = Cap THEN Invalid ELSE q[k + 1]
      <4>1. tables[t][k - 1].next_free = IF (k - 1) + 1 < Cap THEN (k - 1) + 1 ELSE Invalid
        BY <1>2, <2>2, Zenon
      <4>2. k # Cap => k + 1 \in 1..Cap /\ q[k + 1] = k
        BY <2>2, HandleAssumption
      <4> QED BY <2>2, <4>1, <4>2, HandleAssumption
    <3> QED BY <3>1, <3>2 DEF IsFreeList
  <2>5. \A k, l \in 1..Cap : q[k] = q[l] => k = l
    BY <2>2
  <2>6. ASSUME NEW i \in Index PROVE tables[t][i].target = NoObj /\ \E k \in 1..Cap : q[k] = i
    <3>1. i + 1 \in 1..Cap /\ q[i + 1] = i
      BY <2>2, HandleAssumption DEF Index
    <3> QED BY <1>2, <3>1
  <2>7. FreeList(t, q, Cap)
    BY <2>4, <2>5, <2>6 DEF FreeList
  <2> QED BY <2>3, <2>7 DEF Listed
<1>5. Numbered
  BY FS_EmptySet DEF HandlesInit, Numbered
<1>6. ASSUME NEW t \in Table, NEW i \in Index PROVE GenerationCounts(t, i)
  <2>1. SlotIds(t, i) = {}
    BY DEF HandlesInit, SlotIds
  <2>2. 0 = (0 - 0) % GenModulus
    BY HandleAssumption
  <2> QED BY <1>2, <2>1, <2>2, FS_EmptySet DEF GenerationCounts
<1>7. issued = {}
  BY DEF HandlesInit
<1> QED BY <1>1, <1>3, <1>4, <1>5, <1>6, <1>7 DEF HandlesInv

\* The kernel's own calls.
LEMMA OwnInv ==
  ASSUME HandlesInv, NEW o \in Obj, Kobj_Init(o) \/ Kobj_Retain(o) \/ Kobj_Release(o)
  PROVE  HandlesInv'
<1>1. tables' = tables /\ freeHead' = freeHead /\ issued' = issued
  BY DEF Kobj_Init, Kobj_Retain, Kobj_Release
<1>2. \A p \in Obj : Counted(p)' /\ refs'[p] \in Nat /\ own'[p] \in Nat
  BY OwnCounted
<1>3. HandlesType'
  <2>1. /\ DOMAIN refs' = Obj /\ DOMAIN own' = Obj /\ gone' \in SUBSET Obj
        /\ refs' = [p \in Obj |-> refs'[p]] /\ own' = [p \in Obj |-> own'[p]]
    BY DEF Kobj_Init, Kobj_Retain, Kobj_Release, Dropped, HandlesInv, HandlesType
  <2>2. refs' \in [Obj -> Nat] /\ own' \in [Obj -> Nat]
    BY <1>2, <2>1
  <2> QED BY <1>1, <2>1, <2>2 DEF HandlesInv, HandlesType
<1>4. \A t \in Table : Listed(t)'
  BY <1>1, ListedKept DEF HandlesInv
<1>5. Numbered' /\ \A t \in Table, i \in Index : GenerationCounts(t, i)'
  BY <1>1 DEF HandlesInv, Numbered, GenerationCounts, Alive, SlotIds
<1>6. \A r \in issued' : /\ HandleCounts(r)' /\ ClosedEmpties(r)'
                         /\ ~r.closed => Occupies(r)' \/ Twin(r)'
  BY <1>1, Zenon DEF HandlesInv, HandleCounts, ClosedEmpties, Occupies, Twin, Alive, SlotIds
<1> QED BY <1>2, <1>3, <1>4, <1>5, <1>6 DEF HandlesInv

\* Closing a record of issued keeps its type.
LEMMA ClosedRecord ==
  ASSUME HandlesInv, NEW r \in issued
  PROVE  [r EXCEPT !.closed = TRUE] \in IssuedType
  BY IssuedTypes, Zenon DEF IssuedType

\* Opening a handle.
LEMMA OpenInv ==
  ASSUME HandlesInv, NEW t \in Table, NEW o \in Obj, HandleTable_Open(t, o)
  PROVE  HandlesInv'
<1>1. PICK i : i = freeHead[t]
  OBVIOUS
<1>2. PICK r, n : r = NewHandle(t, i, o) /\ n = Cardinality(issued)
  OBVIOUS
<1>3. i \in Index /\ SlotChanged(t, i, OpenedSlot(t, i, o))
  BY <1>1, OpenSlot
<1>4. Issues(t, i, o, n, r) /\ r \in IssuedType /\ Numbered'
  BY <1>1, <1>2, OpenNumbered
<1>5. HandlesType'
  <2>1. tables' \in [Table -> [Index -> SlotType] \cup {<< >>}]
    BY <1>3 DEF SlotChanged
  <2>2. tables[t][i].next_free \in Index \cup {Invalid}
    BY <1>3, SlotTypes DEF HandlesInv, HandleTable_Open
  <2>3. freeHead' \in [Table -> Index \cup {Invalid}]
    BY <1>1, <2>2 DEF HandlesInv, HandlesType, HandleTable_Open
  <2>4. refs' \in [Obj -> Nat] /\ own' \in [Obj -> Nat] /\ gone' \in SUBSET Obj
    BY DEF HandlesInv, HandlesType, HandleTable_Open
  <2>5. issued' \in SUBSET IssuedType
    BY <1>4, Zenon DEF HandlesInv, HandlesType, Issues
  <2> QED BY <2>1, <2>3, <2>4, <2>5 DEF HandlesType
<1>6. \A p \in Obj : Counted(p)'
  BY <1>5, OpenCounted
<1>7. ASSUME NEW u \in Table PROVE Listed(u)'
  <2>1. CASE u = t
    BY <2>1, OpenListed
  <2>2. CASE u # t
    <3>1. tables'[u] = tables[u]
      BY <1>3, <2>2 DEF SlotChanged
    <3>2. freeHead'[u] = freeHead[u]
      BY <2>2 DEF HandleTable_Open, HandlesInv, HandlesType
    <3> QED BY <3>1, <3>2, ListedKept DEF HandlesInv
  <2> QED BY <2>1, <2>2
<1>8. /\ \A u \in Table, j \in Index : GenerationCounts(u, j)'
      /\ \A q \in issued' : /\ HandleCounts(q)' /\ ClosedEmpties(q)'
                            /\ ~q.closed => Occupies(q)' \/ Twin(q)'
  BY <1>5, OpenIssued
<1> QED BY <1>4, <1>5, <1>6, <1>7, <1>8 DEF HandlesInv

\* Closing a valid handle.
LEMMA CloseValidInv ==
  ASSUME HandlesInv, NEW r \in issued, HandleTable_Close(r), Valid(r.table, r.h)
  PROVE  HandlesInv'
<1>1. PICK t, i, o : t = r.table /\ i = r.h.idx /\ o = tables[t][i].target
  OBVIOUS
<1>2. t \in Table /\ i \in Index
  BY <1>1, IssuedTypes
<1>3. Alive(t)
  BY <1>1 DEF Valid, Alive
<1>4. o \in Obj /\ o # NoObj
  BY <1>1, <1>2, <1>3, SlotTypes, Zenon DEF Valid, HandlesInv
<1>5. /\ tables' = FreeSlot(t, i) /\ Dropped(Once(o)) /\ own' = own
      /\ freeHead' = [freeHead EXCEPT ![t] = i]
      /\ issued' = (issued \ {r}) \cup {[r EXCEPT !.closed = TRUE]}
  BY <1>1 DEF HandleTable_Close
<1>6. SlotChanged(t, i, ClosedSlot(t, i))
  BY <1>2, <1>3, <1>5, CloseSlot DEF HandlesInv
<1>7. refs[o] \in Nat \ {0}
  <2>1. <<t, i>> \in Opened(o)
    BY <1>1, <1>2, <1>3, OpenedNow, Zenon DEF HandlesInv
  <2>2. IsFiniteSet(Opened(o)) /\ refs[o] = own[o] + Cardinality(Opened(o)) /\ own[o] \in Nat
    BY <1>4 DEF HandlesInv, HandlesType, Counted
  <2>3. PICK c : c = Cardinality(Opened(o))
    OBVIOUS
  <2>4. c \in Nat
    BY <2>2, <2>3, FS_CardinalityType, Zenon
  <2>5. c # 0
    BY <2>1, <2>2, <2>3, FS_EmptySet, Zenon
  <2> QED BY <2>2, <2>3, <2>4, <2>5
<1>8. HandlesType'
  <2>1. tables' \in [Table -> [Index -> SlotType] \cup {<< >>}]
    BY <1>6 DEF SlotChanged
  <2>2. freeHead' \in [Table -> Index \cup {Invalid}]
    BY <1>2, <1>5 DEF HandlesInv, HandlesType
  <2>3. refs' \in [Obj -> Nat] /\ own' \in [Obj -> Nat] /\ gone' \in SUBSET Obj
    <3>1. \A p \in Obj : refs[p] - Once(o)[p] \in Nat
      BY <1>4, <1>7 DEF Once, HandlesInv, HandlesType
    <3> QED BY <1>5, <3>1 DEF Dropped, HandlesInv, HandlesType
  <2>4. issued' \in SUBSET IssuedType
    BY <1>5, ClosedRecord DEF HandlesInv, HandlesType
  <2> QED BY <2>1, <2>2, <2>3, <2>4 DEF HandlesType
<1>9. \A p \in Obj : Counted(p)'
  BY <1>1, <1>2, <1>3, <1>4, <1>5, <1>8, CloseCounted
<1>10. ASSUME NEW u \in Table PROVE Listed(u)'
  <2>1. CASE u = t
    <3>1. freeHead'[t] = i
      BY <1>2, <1>5 DEF HandlesInv, HandlesType
    <3> QED BY <1>1, <1>2, <1>3, <1>4, <1>5, <2>1, <3>1, CloseListed
  <2>2. CASE u # t
    <3>1. tables'[u] = tables[u]
      BY <1>6, <2>2 DEF SlotChanged
    <3>2. freeHead'[u] = freeHead[u]
      BY <1>5, <2>2 DEF HandlesInv, HandlesType
    <3> QED BY <3>1, <3>2, ListedKept DEF HandlesInv
  <2> QED BY <2>1, <2>2
<1> QED BY <1>8, <1>9, <1>10, CloseValidIssued DEF HandlesInv

\* Closing a handle that is not valid.
LEMMA CloseStaleInv ==
  ASSUME HandlesInv, NEW r \in issued, HandleTable_Close(r), ~Valid(r.table, r.h)
  PROVE  HandlesInv'
<1>1. /\ tables' = tables /\ freeHead' = freeHead /\ refs' = refs /\ gone' = gone /\ own' = own
      /\ issued' = (issued \ {r}) \cup {[r EXCEPT !.closed = TRUE]}
  BY DEF HandleTable_Close
<1>2. HandlesType'
  <2>1. issued' \in SUBSET IssuedType
    BY <1>1, ClosedRecord DEF HandlesInv, HandlesType
  <2> QED BY <1>1, <2>1 DEF HandlesInv, HandlesType
<1>3. \A o \in Obj : Counted(o)'
  BY <1>1 DEF HandlesInv, Counted, Opened
<1>4. \A t \in Table : Listed(t)'
  BY <1>1, ListedKept DEF HandlesInv
<1> QED BY <1>2, <1>3, <1>4, CloseStaleIssued DEF HandlesInv

\* Destroying a table.
LEMMA DestroyInv ==
  ASSUME HandlesInv, NEW t \in Table, HandleTable_Destroy(t)
  PROVE  HandlesInv'
<1>1. ASSUME NEW o \in Obj
      PROVE  refs[o] - Cardinality({i \in Index : tables[t][i].target = o}) \in Nat
  <2>1. PICK P, I : P = {p \in Opened(o) : p[1] = t} /\ I = {i \in Index : tables[t][i].target = o}
    BY Zenon
  <2>2. IsFiniteSet(P) /\ Cardinality(P) = Cardinality(I) /\ Cardinality(I) \in Nat
    BY <2>1, TableReferences, Zenon DEF HandlesInv, HandleTable_Destroy
  <2>3. IsFiniteSet(Opened(o)) /\ refs[o] = own[o] + Cardinality(Opened(o)) /\ own[o] \in Nat
    BY DEF HandlesInv, HandlesType, Counted
  <2>4. Cardinality(P) <= Cardinality(Opened(o))
    <3>1. P \subseteq Opened(o)
      BY <2>1
    <3> QED BY <2>3, <3>1, FS_Subset, Zenon
  <2>5. PICK c : c = Cardinality(Opened(o))
    OBVIOUS
  <2>6. c \in Nat
    BY <2>3, <2>5, FS_CardinalityType, Zenon
  <2> QED BY <2>1, <2>2, <2>3, <2>4, <2>5, <2>6
<1>2. HandlesType'
  <2>1. /\ tables' \in [Table -> [Index -> SlotType] \cup {<< >>}]
        /\ freeHead' \in [Table -> Index \cup {Invalid}]
    BY DEF HandlesInv, HandlesType, HandleTable_Destroy
  <2>2. refs' \in [Obj -> Nat] /\ own' \in [Obj -> Nat] /\ gone' \in SUBSET Obj
    BY <1>1 DEF HandlesInv, HandlesType, HandleTable_Destroy, Dropped
  <2>3. issued' \in SUBSET IssuedType
    BY ClosedRecord DEF HandlesInv, HandlesType, HandleTable_Destroy
  <2> QED BY <2>1, <2>2, <2>3 DEF HandlesType
<1>3. \A o \in Obj : Counted(o)'
  BY <1>2, DestroyCounted
<1>4. ASSUME NEW u \in Table PROVE Listed(u)'
  <2>1. CASE u = t
    BY <2>1 DEF HandleTable_Destroy, Listed, Alive, HandlesInv, HandlesType
  <2>2. CASE u # t
    <3>1. tables'[u] = tables[u] /\ freeHead'[u] = freeHead[u]
      BY <2>2 DEF HandleTable_Destroy, HandlesInv, HandlesType
    <3> QED BY <3>1, ListedKept DEF HandlesInv
  <2> QED BY <2>1, <2>2
<1> QED BY <1>2, <1>3, <1>4, DestroyIssued DEF HandlesInv

\* The state predicates of the invariant are kept by a stuttering step.
LEMMA HandlesStutterInv ==
  ASSUME HandlesInv, UNCHANGED handleVars
  PROVE  HandlesInv'
<1>1. HandlesType' /\ \A o \in Obj : Counted(o)'
  BY DEF handleVars, HandlesInv, HandlesType, Counted, Opened
<1>2. \A t \in Table : Listed(t)'
  BY ListedKept DEF handleVars, HandlesInv
<1>3. Numbered' /\ \A t \in Table, i \in Index : GenerationCounts(t, i)'
  BY DEF handleVars, HandlesInv, Numbered, GenerationCounts, Alive, SlotIds
<1>4. \A r \in issued' : /\ HandleCounts(r)' /\ ClosedEmpties(r)'
                         /\ ~r.closed => Occupies(r)' \/ Twin(r)'
  BY Zenon DEF handleVars, HandlesInv, HandleCounts, ClosedEmpties, Occupies, Twin, Alive, SlotIds
<1> QED BY <1>1, <1>2, <1>3, <1>4 DEF HandlesInv

\* Every step keeps the invariant.
LEMMA HandlesNextInv == HandlesInv /\ [HandlesNext]_handleVars => HandlesInv'
<1> SUFFICES ASSUME HandlesInv, [HandlesNext]_handleVars PROVE HandlesInv'
  OBVIOUS
<1>1. ASSUME NEW o \in Obj, Kobj_Init(o) \/ Kobj_Retain(o) \/ Kobj_Release(o) PROVE HandlesInv'
  BY <1>1, OwnInv
<1>2. ASSUME NEW t \in Table, NEW o \in Obj, HandleTable_Open(t, o) PROVE HandlesInv'
  BY <1>2, OpenInv
<1>3. ASSUME NEW r \in issued, HandleTable_Close(r) PROVE HandlesInv'
  BY <1>3, CloseValidInv, CloseStaleInv
<1>4. ASSUME NEW t \in Table, HandleTable_Destroy(t) PROVE HandlesInv'
  BY <1>4, DestroyInv
<1> QED BY <1>1, <1>2, <1>3, <1>4, HandlesStutterInv DEF HandlesNext

\* The invariant holds in every state that the tables and the kernel can reach.
THEOREM HandlesInvariant == HandlesSpec => []HandlesInv
  BY HandlesInitInv, HandlesNextInv, PTL DEF HandlesSpec

-----------------------------------------------------------------------------
(* What it says to the callers.                                            *)

\* Reference counts are exact: Kobj_Release destroys an object with the last
\* reference, its own or a table's, and not before.
THEOREM HandlesRefsCounted == HandlesSpec => []RefsCounted
<1>1. HandlesInv => RefsCounted
  BY Zenon DEF HandlesInv, Counted, Opened, OpenedIn, RefsCounted
<1> QED BY <1>1, HandlesInvariant, PTL

\* A table's free list is exactly its empty slots: HandleTable_Open hands out
\* no slot twice and fails only when the table is full.
THEOREM HandlesFreeListExact == HandlesSpec => []FreeListExact
<1>1. HandlesInv => FreeListExact
  BY DEF HandlesInv, Listed, FreeList, FreeListExact
<1> QED BY <1>1, HandlesInvariant, PTL

\* A handle that is open is found by HandleTable_Lookup, whatever is closed
\* twice around it.
THEOREM HandlesOpenResolve == HandlesSpec => []OpenHandlesResolve
<1>1. HandlesInv => OpenHandlesResolve
  <2> SUFFICES ASSUME HandlesInv, NEW r \in issued, ~r.closed,
                      \A q \in issued : q.table = r.table /\ q.h = r.h => q = r
               PROVE  HandleTable_Lookup(r.table, r.h) = r.obj
    BY DEF OpenHandlesResolve
  <2>1. Occupies(r)
    BY DEF HandlesInv, Twin
  <2>2. r.table \in Table /\ r.h.idx \in Index /\ r.obj # NoObj
    BY IssuedTypes
  <2>3. DOMAIN tables[r.table] = Index
    BY <2>1, <2>2, TableShape, Zenon DEF Occupies, Alive, HandlesInv, HandlesType
  <2> QED BY <2>1, <2>2, <2>3 DEF Occupies, HandleTable_Lookup, Valid
<1> QED BY <1>1, HandlesInvariant, PTL

\* There are at least as many later handles of a slot as later numbers.
LEMMA LaterCount ==
  ASSUME HandlesInv, NEW r \in issued,
         NEW L, L = {n \in SlotIds(r.table, r.h.idx) : n > r.id}
  PROVE  Cardinality(L) <= Cardinality(LaterHandles(r)) /\ Cardinality(LaterHandles(r)) \in Nat
<1>1. PICK H, f : H = LaterHandles(r) /\ f = [q \in H |-> q.id]
  BY Zenon
<1>2. IsFiniteSet(H)
  <2>1. IsFiniteSet(issued) /\ H \subseteq issued
    BY <1>1 DEF HandlesInv, Numbered, LaterHandles
  <2> QED BY <2>1, FS_Subset, Zenon
<1>3. \A q \in H : q.id \in L
  BY <1>1, IssuedTypes DEF LaterHandles, SlotIds
<1>4. \A n \in L : \E q \in H : f[q] = n
  BY <1>1 DEF LaterHandles, SlotIds
<1>5. f \in Surjection(H, L)
  BY <1>1, <1>3, <1>4 DEF Surjection
<1>6. Cardinality(L) <= Cardinality(H)
  BY <1>2, <1>5, FS_Surjection, Zenon
<1>7. Cardinality(H) \in Nat
  BY <1>2, FS_CardinalityType, Zenon
<1> QED BY <1>1, <1>6, <1>7

\* A closed handle is refused by HandleTable_Lookup until its slot has been
\* opened as many times again as there are generations: 65,536 in the code.
THEOREM HandlesStaleRefused == HandlesSpec => []StaleHandlesRefused
<1>1. HandlesInv => StaleHandlesRefused
  <2> SUFFICES ASSUME HandlesInv, NEW r \in issued, r.closed,
                      Cardinality(LaterHandles(r)) < GenModulus, Valid(r.table, r.h)
               PROVE  FALSE
    BY DEF StaleHandlesRefused, HandleTable_Lookup
  <2>1. PICK t, i, S : t = r.table /\ i = r.h.idx /\ S = SlotIds(t, i)
    OBVIOUS
  <2>2. PICK E, L : E = {n \in S : n < r.id} /\ L = {n \in S : n > r.id}
    BY Zenon
  <2>3. t \in Table /\ i \in Index /\ Alive(t) /\ tables[t][i].target # NoObj
        /\ r.id \in Nat /\ tables[t][i].generation = r.h.gen
    BY <2>1, IssuedTypes DEF Valid, Alive
  <2>4. /\ IsFiniteSet(L) /\ Cardinality(S) = Cardinality(E) + 1 + Cardinality(L)
        /\ Cardinality(E) \in Nat /\ Cardinality(L) \in Nat
    BY <2>1, <2>2, SlotCount
  <2>5. PICK e, l, s : e = Cardinality(E) /\ l = Cardinality(L) /\ s = Cardinality(S)
    OBVIOUS
  <2>6. (s - 1) % GenModulus = e % GenModulus
    <3>1. GenerationCounts(t, i)
      BY <2>3 DEF HandlesInv
    <3>2. r.h.gen = (Cardinality(SlotIds(t, i)) - 1) % GenModulus
      BY <2>3, <3>1, Zenon DEF GenerationCounts
    <3>3. r.h.gen = Cardinality({n \in SlotIds(t, i) : n < r.id}) % GenModulus
      BY <2>1 DEF HandlesInv, HandleCounts
    <3>4. r.h.gen = (s - 1) % GenModulus /\ r.h.gen = e % GenModulus
      BY <2>1, <2>2, <2>5, <3>2, <3>3
    <3> QED BY <3>4
  <2>7. l < GenModulus
    <3>1. l <= Cardinality(LaterHandles(r)) /\ Cardinality(LaterHandles(r)) \in Nat
      BY <2>1, <2>2, <2>5, LaterCount
    <3> QED BY <2>4, <2>5, <3>1, HandleAssumption
  <2>8. l = 0
    <3>1. s - 1 \in Int /\ e \in Int /\ (s - 1) - e = l /\ l \in Nat
      BY <2>4, <2>5
    <3>2. GenModulus \in Nat \ {0} /\ -GenModulus < (s - 1) - e /\ (s - 1) - e < GenModulus
      BY <2>7, <3>1, HandleAssumption
    <3>3. s - 1 = e
      BY <2>6, <3>1, <3>2, ModApart
    <3> QED BY <2>4, <2>5, <3>1, <3>3
  <2>9. L = {}
    BY <2>4, <2>5, <2>8, FS_EmptySet, Zenon
  <2>10. \A n \in SlotIds(t, i) : n <= r.id
    BY <2>1, <2>2, <2>3, <2>9 DEF SlotIds
  <2>11. ClosedEmpties(r)
    BY DEF HandlesInv
  <2> QED BY <2>1, <2>3, <2>10, <2>11, Zenon DEF ClosedEmpties
<1> QED BY <1>1, HandlesInvariant, PTL
=============================================================================
