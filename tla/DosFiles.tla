------------------------------- MODULE DosFiles -------------------------------
(***************************************************************************)
(* dos.library over a mounted volume (src/logaic/dos/handler.c, ops.c,      *)
(* loadseg.c): locks, file handles, current directories, IoErr and          *)
(* seglists.  The calls are functions on one record; a call of a process is *)
(* atomic (the system call runs to its end on the only hart) except for a   *)
(* console read, and except that the power may fail between two volume      *)
(* transactions.  The volume keeps FileTree's promises.                     *)
(*                                                                         *)
(* The console's input side (src/croi/console_input.c): bytes come from the *)
(* injection ring or the UART, and a reader cooks one line in the shared    *)
(* line buffer, yielding while no byte is there.  A reader's own state is   *)
(* the n of its fill_line.                                                  *)
(***************************************************************************)
EXTENDS Integers, Sequences, SequencesExt, FiniteSets, Functions, TLC

CONSTANTS
  RawCap,    \* RAW_CAP
  UartCap,   \* the UART's own receive FIFO
  LineCap,   \* LINE_CAP
  NL, BS,    \* Enter and backspace; every other byte is printable
  Procs,      \* the processes; None is the value of a missing one
  Names,      \* 1..k, in the order of their hashes
  MaxCnode,   \* cnodes are 1..MaxCnode, the root is 1
  MaxBlocks,  \* how many locks, handles and seglists exist at a time
  PosMod,     \* u64 positions are taken modulo this
  MaxLen,     \* how long a file grows
  ELF         \* the cell an executable starts with

(***************************************************************************)
(* The console.                                                            *)
(***************************************************************************)
EmptyConsole ==
  [raw |-> [i \in 0..(RawCap - 1) |-> 0], head |-> 0, tail |-> 0,
   uart |-> << >>, line |-> << >>, len |-> 0, pos |-> 0,
   typed |-> << >>,      \* ghost: every byte that was accepted, in order
   read |-> << >>]       \* ghost: every byte that was returned, in order

\* The ring may fill up: full and empty look the same.
PushFills(con, c) ==
  [con EXCEPT !.raw[con.tail] = c, !.tail = (@ + 1) % RawCap, !.typed = Append(@, c)]

\* One slot of the ring stays empty; a byte too many is dropped.
raw_push(con, c) ==
  LET next == (con.tail + 1) % RawCap
  IN  IF next = con.head THEN con
      ELSE [con EXCEPT !.raw[con.tail] = c, !.tail = next, !.typed = Append(@, c)]

Croi_ConsoleInput_Inject(con, s) == FoldLeft(raw_push, con, s)

\* The UART's receiver.
Receive(con, c) == [con EXCEPT !.uart = Append(@, c), !.typed = Append(@, c)]

HasByte(con) == con.head # con.tail \/ con.uart # << >>

\* How many bytes the ring holds.
Waiting(con) == (con.tail - con.head) % RawCap

\* The bytes in the order console_getc hands them out, the ring's first, and the
\* console after k calls of it.
Bytes(con) == [i \in 1..Waiting(con) |-> con.raw[(con.head + i - 1) % RawCap]] \o con.uart

console_getc(con, k) ==
  LET raws == Min({k, Waiting(con)})
  IN  [con EXCEPT !.head = (@ + raws) % RawCap, !.uart = SubSeq(@, k - raws + 1, Len(@))]

Pending(con) == con.pos < con.len

StartLine(con) == IF Pending(con) THEN con ELSE [con EXCEPT !.pos = 0, !.len = 0]

Put(line, i, c) == [k \in 1..(IF i > Len(line) THEN i ELSE Len(line)) |-> IF k = i THEN c ELSE line[k]]

\* One turn of fill_line's loop: a is [line, n], c the byte.
fill_byte(a, c) ==
  CASE c = NL -> [line |-> Put(a.line, a.n + 1, NL), n |-> a.n + 1]
    [] c = BS -> [a EXCEPT !.n = IF @ > 0 THEN @ - 1 ELSE @]
    [] OTHER  -> IF a.n < LineCap - 1 THEN [line |-> Put(a.line, a.n + 1, c), n |-> a.n + 1] ELSE a

\* The loop runs, letting nobody else in, until Enter or until the bytes end.
fill_line(con, n) ==
  LET bytes == Bytes(con)
      ends  == { i \in DOMAIN bytes : bytes[i] = NL }
      k     == IF ends = {} THEN Len(bytes) ELSE Min(ends)
      a     == FoldLeft(fill_byte, [line |-> con.line, n |-> n], SubSeq(bytes, 1, k))
  IN  [con |-> [console_getc(con, k) EXCEPT !.line = a.line, !.len = IF ends = {} THEN @ ELSE a.n],
       n |-> a.n, done |-> ends # {}]

\* The copy out, once a line is pending.
Croi_ConsoleInput_Read(con, want) ==
  LET avail == con.len - con.pos
      k     == IF want < avail THEN want ELSE avail
      bytes == SubSeq(con.line, con.pos + 1, con.pos + k)
  IN  [con |-> [con EXCEPT !.pos = @ + k, !.read = @ \o bytes], bytes |-> bytes]

\* What a line discipline makes of the bytes accepted so far.
Cooked(typed) ==
  LET Turn(a, c) ==
        CASE c = NL -> [done |-> a.done \o a.cur \o <<NL>>, cur |-> << >>]
          [] c = BS -> IF a.cur = << >> THEN a ELSE [a EXCEPT !.cur = Front(@)]
          [] OTHER  -> IF Len(a.cur) < LineCap - 1 THEN [a EXCEPT !.cur = Append(@, c)] ELSE a
  IN  FoldLeft(Turn, [done |-> << >>, cur |-> << >>], typed).done

(***************************************************************************)
(* Locks, handles and seglists.                                            *)
(***************************************************************************)
Root == 1
Missing == 0            \* the null lock, handle and cnode
Ids == 1..MaxBlocks
MinElf == 2             \* scaled from 64 bytes

Fresh(S, f) == CHOOSE i \in S \ DOMAIN f : \A j \in S \ DOMAIN f : i <= j
Room(S, f) == DOMAIN f # S
Without(f, x) == Restrict(f, DOMAIN f \ {x})

(* The volume: directories map names to cnodes, files hold cells.          *)
Carafs_DirLookup(d, dir, n) ==
  IF dir \in DOMAIN d.dirs /\ n \in DOMAIN d.dirs[dir] THEN d.dirs[dir][n] ELSE Missing

Live(d) == DOMAIN d.dirs \cup DOMAIN d.files
Holders(d, c) == { x \in (DOMAIN d.dirs) \X Names : Carafs_DirLookup(d, x[1], x[2]) = c }
IsFile(d, c) == c \in DOMAIN d.files

CanCreate(d, dir, n, full) ==
  dir \in DOMAIN d.dirs /\ n \notin DOMAIN d.dirs[dir] /\ ~full /\ Live(d) # 1..MaxCnode

Carafs_DirCreate(d, dir, n, type) ==
  LET c == CHOOSE x \in (1..MaxCnode) \ Live(d) : \A y \in (1..MaxCnode) \ Live(d) : x <= y
      e == [d EXCEPT !.dirs[dir] = (n :> c) @@ @]
  IN  IF type = "file" THEN [e EXCEPT !.files = (c :> << >>) @@ @]
      ELSE [e EXCEPT !.dirs = (c :> << >>) @@ @]

CanRemove(d, dir, n) ==
  LET c == Carafs_DirLookup(d, dir, n)
  IN  c # Missing /\ (c \in DOMAIN d.dirs => d.dirs[c] = << >>)

Carafs_DirRemove(d, dir, n) ==
  LET c == Carafs_DirLookup(d, dir, n)
      e == [d EXCEPT !.dirs[dir] = Without(@, n),
                     !.locks = [l \in DOMAIN @ |-> IF @[l].cnode = dir
                                                   THEN [@[l] EXCEPT !.stay = @ \ {n}] ELSE @[l]]]
  IN  IF Cardinality(Holders(d, c)) > 1 THEN e
      ELSE [e EXCEPT !.dirs = Without(@, c), !.files = Without(@, c)]

CanLink(d, dir, n, c) == dir \in DOMAIN d.dirs /\ n \notin DOMAIN d.dirs[dir] /\ IsFile(d, c)
Carafs_DirLink(d, dir, n, c) == [d EXCEPT !.dirs[dir] = (n :> c) @@ @]

Carafs_FileRead(d, c, pos, len) ==
  LET cells == d.files[c]
  IN  IF pos >= Len(cells) THEN << >>
      ELSE SubSeq(cells, pos + 1, IF pos + len < Len(cells) THEN pos + len ELSE Len(cells))

Carafs_FileWrite(d, c, pos, src) ==
  LET end == pos + Len(src)
  IN  [d EXCEPT !.files[c] = [i \in 1..(IF end > Len(@) THEN end ELSE Len(@)) |->
         IF i \in (pos + 1)..end THEN src[i - pos] ELSE IF i <= Len(@) THEN @[i] ELSE 0]]

(* A result: the state after it, what it returns and the IoErr code.       *)
Ok(d, r) == [d |-> d, res |-> r, err |-> "none"]
Fail(d, e) == [d |-> d, res |-> Missing, err |-> e]
AllocShared(d) == [d EXCEPT !.heap = @ + 1]
FreeShared(d) == [d EXCEPT !.heap = @ - 1]

(* Memory is gone after a power cut, and the volume stays as committed.    *)
NoMemory ==
  [locks |-> << >>, handles |-> << >>, segs |-> << >>, heap |-> 0,
   cwd |-> [p \in Procs |-> Missing], cos |-> [p \in Procs |-> Missing],
   cis |-> [p \in Procs |-> Missing], ioerr |-> [p \in Procs |-> "none"]]
PowerCut(d) == NoMemory @@ d

lock_cnode(d, lock) == IF lock = Missing THEN Root ELSE d.locks[lock].cnode

\* A path: an optional volume prefix, then names.
dos_resolve(d, base, path) ==
  LET Step(c, n) == IF c = Missing THEN Missing ELSE Carafs_DirLookup(d, c, n)
  IN  FoldLeft(Step, IF path.vol THEN Root ELSE base, path.names)

dos_resolve_parent(d, base, path) ==
  IF path.names = << >> THEN Missing
  ELSE dos_resolve(d, base, [path EXCEPT !.names = Front(@)])

NewLock(d, c, name) ==
  LET l == Fresh(Ids, d.locks)
  IN  Ok([d EXCEPT !.locks = (l :> [cnode |-> c, name |-> name, cursor |-> 0, ext |-> TRUE,
                                    seen |-> << >>, stay |-> {}, done |-> FALSE,
                                    hit |-> FALSE, skip |-> {}]) @@ @], l)

LocateObject(d, base, path, oom) ==
  IF oom THEN Fail(d, "no free store")
  ELSE LET a == AllocShared(d)
           c == dos_resolve(d, lock_cnode(d, base), path)
       IN  IF c = Missing THEN Fail(FreeShared(a), "object not found")
           ELSE NewLock(a, c, IF path.names = << >> THEN Missing ELSE Last(path.names))

FreeLock(d, lock) ==
  Ok(IF lock = Missing THEN d ELSE FreeShared([d EXCEPT !.locks = Without(@, lock)]), TRUE)

\* The listing fields lie behind the public lock: a lock without them has
\* nothing there, and what is read and written belongs to another block.
\* (Ghosts of a listing: seen, the entries shown; stay, those that were there all
\* the time; skip, those whose own block could not be read; done, that the last
\* answer was ERROR_NO_MORE_ENTRIES, and hit, that it came of a failed read.)
ExamineObject(d, lock, fails) ==
  LET c == lock_cnode(d, lock)
  IN  IF c \notin Live(d) \/ fails THEN Fail(d, "object not found")
      ELSE IF lock = Missing THEN Ok(d, TRUE)
      ELSE IF ~d.locks[lock].ext THEN Ok([d EXCEPT !.outside = TRUE], TRUE)
      ELSE Ok([d EXCEPT !.locks[lock].cursor = 0, !.locks[lock].seen = << >>,
                        !.locks[lock].done = FALSE, !.locks[lock].hit = FALSE, !.locks[lock].skip = {},
                        !.locks[lock].stay = IF c \in DOMAIN d.dirs THEN DOMAIN d.dirs[c] ELSE {}], TRUE)

Later(d, lock) ==
  LET c == d.locks[lock].cnode
  IN  IF c \in DOMAIN d.dirs THEN { n \in DOMAIN d.dirs[c] : n > d.locks[lock].cursor } ELSE {}

\* The end of the directory, or an error of Carafs_DirNext: the cursor stays.
NoMore(d, lock, hit) ==
  Fail([d EXCEPT !.locks[lock].done = TRUE, !.locks[lock].hit = hit], "no more entries")

\* The entry at the cursor, unless its object cannot be read.
Shows(d, lock, n, fails) ==
  LET at == [d EXCEPT !.locks[lock].cursor = n, !.locks[lock].done = FALSE]
  IN  IF fails = "stat" THEN Fail([at EXCEPT !.locks[lock].skip = @ \cup {n}], "object not found")
      ELSE Ok([at EXCEPT !.locks[lock].seen = Append(@, n)], TRUE)

ExamineNextSkips(d, lock, fails) ==
  IF lock = Missing THEN Fail(d, "object wrong type")
  ELSE IF ~d.locks[lock].ext THEN Ok([d EXCEPT !.outside = TRUE], TRUE)
  ELSE IF fails = "next" \/ Later(d, lock) = {} THEN NoMore(d, lock, fails = "next")
  ELSE Shows(d, lock, CHOOSE x \in Later(d, lock) : \A y \in Later(d, lock) : x >= y, fails)

ExamineNext(d, lock, fails) ==
  IF lock = Missing THEN Fail(d, "object wrong type")
  ELSE IF ~d.locks[lock].ext THEN Ok([d EXCEPT !.outside = TRUE], TRUE)
  ELSE IF fails = "next" \/ Later(d, lock) = {} THEN NoMore(d, lock, fails = "next")
  ELSE Shows(d, lock, CHOOSE x \in Later(d, lock) : \A y \in Later(d, lock) : x <= y, fails)

NewHandle(d, c, kind) ==
  LET h == Fresh(Ids, d.handles)
  IN  Ok([AllocShared(d) EXCEPT
            !.handles = (h :> [cnode |-> c, pos |-> 0, kind |-> kind]) @@ @], h)

Croi_Dos_MakeConsoleHandle(d, oom) ==
  IF oom THEN Fail(d, "none") ELSE NewHandle(d, Missing, "console")

FindObject(d, base, path, mode, full, oom, cut) ==
  LET parent == dos_resolve_parent(d, lock_cnode(d, base), path)
      n      == Last(path.names)
      c      == Carafs_DirLookup(d, parent, n)
      Handle(e) == IF oom THEN Fail(e, "no free store")
                   ELSE NewHandle(e, Carafs_DirLookup(e, parent, n), "file")
      Make(e) == IF CanCreate(e, parent, n, full)
                 THEN Handle(Carafs_DirCreate(e, parent, n, "file"))
                 ELSE Fail(e, "disk full")
      bare   == IF c # Missing /\ CanRemove(d, parent, n) THEN Carafs_DirRemove(d, parent, n) ELSE d
  IN  CASE parent = Missing -> Fail(d, "object not found")
        [] parent # Missing /\ mode = "input" ->
             IF c = Missing THEN Fail(d, "object not found") ELSE Handle(d)
        [] parent # Missing /\ mode = "output" ->
             IF cut THEN Fail(PowerCut(bare), "none") ELSE Make(bare)
        [] parent # Missing /\ mode = "update" ->
             IF c = Missing THEN Make(d) ELSE Handle(d)

End(d, file) ==
  Ok(IF file = Missing THEN d ELSE FreeShared([d EXCEPT !.handles = Without(@, file)]), TRUE)

ReadFile(d, file, len) ==
  LET h == d.handles[file]
  IN  IF file = Missing THEN Fail(d, "seek error")
      ELSE IF ~IsFile(d, h.cnode) THEN Fail(d, "seek error")
      ELSE LET cells == Carafs_FileRead(d, h.cnode, h.pos, len)
           IN  Ok([d EXCEPT !.handles[file].pos = @ + Len(cells)], cells)

\* A position so large that pos + len wraps gives a small new size, and the
\* bytes land before the file's own storage.
WriteFile(d, file, src, full) ==
  LET h == d.handles[file]
  IN  IF file = Missing THEN Fail(d, "disk full")
      ELSE IF h.kind = "console" THEN Ok(d, Len(src))
      ELSE IF src = << >> THEN Ok(d, 0)
      ELSE IF ~IsFile(d, h.cnode) \/ full THEN Fail(d, "disk full")
      ELSE LET w == [d EXCEPT !.handles[file].pos = (@ + Len(src)) % PosMod]
           IN  IF h.pos + Len(src) >= PosMod THEN Ok([w EXCEPT !.outside = TRUE], Len(src))
               ELSE IF h.pos + Len(src) > MaxLen THEN Fail(d, "disk full")
               ELSE Ok(Carafs_FileWrite(w, h.cnode, h.pos, src), Len(src))

\* The new position is the sum in 64 bits, unchecked.
SeekFile(d, file, off, mode) ==
  LET h == d.handles[file]
      base == CASE mode = "beginning" -> 0
                [] mode = "end" -> Len(d.files[h.cnode])
                [] mode = "current" -> h.pos
  IN  IF file = Missing THEN Fail(d, "seek error")
      ELSE IF h.kind = "console" \/ (mode = "end" /\ h.cnode \notin Live(d)) THEN Fail(d, "seek error")
      ELSE Ok([d EXCEPT !.handles[file].pos =
                 (IF mode = "end" /\ ~IsFile(d, h.cnode) THEN Cardinality(DOMAIN d.dirs[h.cnode]) + off
                  ELSE base + off) % PosMod], h.pos)

DeleteObject(d, base, path) ==
  LET parent == dos_resolve_parent(d, lock_cnode(d, base), path)
  IN  IF parent = Missing \/ ~CanRemove(d, parent, Last(path.names))
      THEN Fail(d, "object not found")
      ELSE Ok(Carafs_DirRemove(d, parent, Last(path.names)), TRUE)

\* The new name first, then the old one goes.  `fails` is the transaction that
\* fails, "link" or "remove", and cut a power failure between the two.
RenameUnlinksFirst(d, base, from, to, fails, cut) ==
  LET pold == dos_resolve_parent(d, lock_cnode(d, base), from)
      pnew == dos_resolve_parent(d, lock_cnode(d, base), to)
      c    == Carafs_DirLookup(d, pold, Last(from.names))
  IN  IF pold = Missing \/ pnew = Missing THEN Fail(d, "object not found")
      ELSE IF c = Missing THEN Fail(d, "object not found")
      ELSE IF ~CanLink(d, pnew, Last(to.names), c) \/ fails = "remove" THEN Fail(d, "object wrong type")
      ELSE LET gone == Carafs_DirRemove(d, pold, Last(from.names))
           IN  IF cut THEN Fail(PowerCut(gone), "none")
               ELSE IF fails = "link" THEN Fail(gone, "object wrong type")
               ELSE Ok([gone EXCEPT !.dirs[pnew] = (Last(to.names) :> c) @@ @,
                                    !.files = (c :> d.files[c]) @@ @], TRUE)

RenameObject(d, base, from, to, fails, cut) ==
  LET pold == dos_resolve_parent(d, lock_cnode(d, base), from)
      pnew == dos_resolve_parent(d, lock_cnode(d, base), to)
      c    == Carafs_DirLookup(d, pold, Last(from.names))
  IN  IF pold = Missing \/ pnew = Missing THEN Fail(d, "object not found")
      ELSE IF c = Missing THEN Fail(d, "object not found")
      ELSE IF ~CanLink(d, pnew, Last(to.names), c) \/ fails = "link" THEN Fail(d, "object wrong type")
      ELSE LET both == Carafs_DirLink(d, pnew, Last(to.names), c)
           IN  IF cut THEN Fail(PowerCut(both), "none")
               ELSE IF fails = "remove" THEN Fail(both, "object wrong type")
               ELSE Ok(Carafs_DirRemove(both, pold, Last(from.names)), TRUE)

CreateDir(d, base, path, full, oom) ==
  LET parent == dos_resolve_parent(d, lock_cnode(d, base), path)
      n      == Last(path.names)
  IN  IF parent = Missing THEN Fail(d, "object exists")
      ELSE IF ~CanCreate(d, parent, n, full) THEN Fail(d, "object exists")
      ELSE LET e == Carafs_DirCreate(d, parent, n, "dir")
           IN  IF oom THEN Fail(e, "no free store")
               ELSE NewLock(AllocShared(e), Carafs_DirLookup(e, parent, n), n)

(***************************************************************************)
(* loadseg.c: the image is read whole and checked; the handle is closed and *)
(* every block given back on each way out.                                  *)
(***************************************************************************)
\* `oom` is the number of the allocation that fails (the handle, the image,
\* the seglist), 0 for none.  The handle is closed on every way out, and a
\* directory can be opened but not read.
LoadSeg(d, base, path, oom) ==
  LET parent == dos_resolve_parent(d, lock_cnode(d, base), path)
      c      == IF path.names = << >> THEN Missing ELSE Carafs_DirLookup(d, parent, Last(path.names))
      size   == IF IsFile(d, c) THEN Len(d.files[c]) ELSE Cardinality(DOMAIN d.dirs[c])
  IN  IF c = Missing THEN Fail(d, "object not found")
      ELSE IF oom = 1 THEN Fail(d, "no free store")
      ELSE IF size = 0 THEN Fail(d, "object wrong type")
      ELSE IF oom = 2 THEN Fail(d, "no free store")
      ELSE IF ~IsFile(d, c) \/ size < MinElf THEN Fail(FreeShared(AllocShared(d)), "object wrong type")
      ELSE IF d.files[c][1] # ELF THEN Fail(FreeShared(AllocShared(d)), "object wrong type")
      ELSE IF oom = 3 THEN Fail(FreeShared(AllocShared(d)), "no free store")
      ELSE LET s == Fresh(Ids, d.segs)
           IN  Ok([AllocShared(AllocShared(d)) EXCEPT !.segs = (s :> d.files[c]) @@ @], s)

UnLoadSeg(d, s) ==
  IF s = Missing THEN d ELSE FreeShared(FreeShared([d EXCEPT !.segs = Without(@, s)]))
=============================================================================
