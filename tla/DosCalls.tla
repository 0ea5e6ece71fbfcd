------------------------------- MODULE DosCalls -------------------------------
(***************************************************************************)
(* Processes calling dos.library (the syscall flavour of                    *)
(* src/logaic/dos/ops.c and loadseg.c), their console, a shell              *)
(* (src/userland/shell.c) that reads commands and runs them, and power      *)
(* failures.                                                               *)
(***************************************************************************)
EXTENDS DosFiles

CONSTANTS
  Data,      \* what programs write
  Seeks,     \* [off, mode]
  Shells,    \* the processes that run a shell
  Scripts,   \* what somebody types
  Quit,      \* the word that ends the shell
  CDir,      \* the name of the directory C
  NSignals,  \* signals a process can allocate
  Volumes,   \* the volumes a run may start from: [dirs, files]
  MaxFaults, \* how many allocations, transactions and power supplies fail
  Loads      \* from a workload's name to [calls, procs, shell, paths, blocks]: the paths
             \* are [vol, names]

VARIABLES
  dos,     \* the library's state and the volume
  con,     \* the console
  proc,    \* what a process does: [at, n, want, sigs, seg, line]
  keys,    \* what is still to be typed
  faults,  \* how much has failed
  load,    \* the workload
  last     \* the last call: [op, p, ok]

vars == << dos, con, proc, keys, faults, load, last >>

Idle == [at |-> "idle", n |-> 0, want |-> 0, sigs |-> 0, seg |-> Missing, line |-> << >>, runs |-> 0]

Init ==
  /\ load \in DOMAIN Loads
  /\ \E v \in Volumes : dos = NoMemory @@ v @@ [outside |-> FALSE]
  /\ con = EmptyConsole
  /\ proc = [p \in Procs |-> IF p \in Loads[load].shell THEN [Idle EXCEPT !.at = "prompt"] ELSE Idle]
  /\ keys \in (IF "type" \in Loads[load].calls THEN Scripts ELSE {<< >>})
  /\ faults = 0
  /\ last = [op |-> "start", p |-> Missing, ok |-> TRUE]

May(call) == call \in Loads[load].calls
Uses == Loads[load].paths
Blocks == 1..Loads[load].blocks
Actors == { p \in Loads[load].procs : proc[p].at = "idle" }

\* A failure is spent when it happens.
Fault(f) == f => faults < MaxFaults
Spend(f) == faults' = IF f THEN faults + 1 ELSE faults

set_ioerr(d, p, code) == [d EXCEPT !.ioerr[p] = code]

Done(p, op, r) ==
  /\ dos' = set_ioerr(r.d, p, r.err)
  /\ last' = [op |-> op, p |-> p, ok |-> r.err = "none"]
  /\ UNCHANGED << con, proc, keys, load >>

(* A call that does not touch IoErr.                                       *)
Silent(p, op, d) ==
  /\ dos' = d
  /\ last' = [op |-> op, p |-> p, ok |-> TRUE]
  /\ UNCHANGED << con, proc, keys, faults, load >>

Croi_Dos_Lock_Impl(p) ==
  /\ May("lock") /\ Room(Blocks, dos.locks)
  /\ \E path \in Uses, oom \in BOOLEAN :
       /\ Fault(oom) /\ Spend(oom)
       /\ Done(p, "Lock", LocateObject(dos, dos.cwd[p], path, oom))

\* A program unlocks no lock that is somebody's current directory.
Croi_Dos_UnLock_Impl(p) ==
  \E l \in DOMAIN dos.locks \ { dos.cwd[q] : q \in Procs } :
    May("lock") /\ Silent(p, "UnLock", FreeLock(dos, l).d)

\* Only the public part of the lock is allocated and copied.
Croi_Dos_DupLock_Impl(p) ==
  /\ May("dup") /\ Room(Blocks, dos.locks)
  /\ \E l \in DOMAIN dos.locks, oom \in BOOLEAN :
       /\ Fault(oom) /\ Spend(oom)
       /\ IF oom THEN Done(p, "DupLock", Fail(dos, "no free store"))
          ELSE LET dup == [dos.locks[l] EXCEPT !.ext = FALSE, !.seen = << >>, !.stay = {},
                                               !.cursor = 0, !.done = FALSE, !.hit = FALSE,
                                               !.skip = {}]
               IN  /\ dos' = [AllocShared(dos) EXCEPT !.locks = (Fresh(Ids, dos.locks) :> dup) @@ @]
                   /\ last' = [op |-> "DupLock", p |-> p, ok |-> TRUE]
                   /\ UNCHANGED << con, proc, keys, load >>

Croi_Dos_CurrentDir_Impl(p) ==
  \E l \in DOMAIN dos.locks \cup {Missing} :
    /\ May("cwd") /\ l # dos.cwd[p]
    /\ Silent(p, "CurrentDir", [dos EXCEPT !.cwd[p] = l])

Croi_Dos_Examine_Impl(p) ==
  \E l \in DOMAIN dos.locks \cup {Missing}, fails \in BOOLEAN :
    /\ May("list") /\ Fault(fails) /\ Spend(fails)
    /\ Done(p, "Examine", ExamineObject(dos, l, fails))

Croi_Dos_ExNext_Impl(p) ==
  \E l \in DOMAIN dos.locks \cup {Missing}, fails \in {"none", "next", "stat"} :
    /\ May("list") /\ Fault(fails # "none") /\ Spend(fails # "none")
    /\ Done(p, "ExNext", ExamineNext(dos, l, fails))

Croi_Dos_Open_Impl(p) ==
  /\ May("open") /\ Room(Blocks, dos.handles)
  /\ \E path \in Uses, mode \in {"input", "output", "update"}, oom \in BOOLEAN, full \in BOOLEAN, cut \in BOOLEAN :
       /\ Cardinality({ b \in {1, 2, 3} : <<oom, full, cut>>[b] }) <= 1
       /\ cut => mode = "output"
       /\ Fault(oom \/ full \/ cut) /\ Spend(oom \/ full \/ cut)
       /\ LET r == FindObject(dos, dos.cwd[p], path, mode, full, oom, cut)
          IN  /\ dos' = IF cut THEN r.d ELSE set_ioerr(r.d, p, r.err)
              /\ last' = [op |-> IF cut THEN "PowerFails" ELSE IF mode = "output" THEN "New" ELSE "Open",
                          p |-> p, ok |-> r.err = "none"]
              /\ proc' = IF cut THEN [q \in Procs |-> Idle] ELSE proc
              /\ UNCHANGED << con, keys, load >>

\* The console handles stay with their process.
Croi_Dos_Close_Impl(p) ==
  \E h \in { x \in DOMAIN dos.handles : dos.handles[x].kind = "file" } :
    May("open") /\ Silent(p, "Close", End(dos, h).d)

\* The console's Read: a pending rest of a line is returned at once, otherwise
\* the process goes round fill_line's loop, yielding, until a line is whole.
Copy(p, c, then, want) ==
  LET r == Croi_ConsoleInput_Read(c, want)
  IN  /\ con' = r.con
      /\ proc' = [proc EXCEPT ![p].at = then, ![p].n = 0, ![p].want = 0,
                              ![p].line = IF then = "idle" THEN @ ELSE r.bytes]

After(at) == IF at = "reading" THEN "idle" ELSE "load"

StartRead(p, at, want) ==
  /\ IF Pending(con) THEN Copy(p, con, After(at), want)
     ELSE /\ con' = StartLine(con)
          /\ proc' = [proc EXCEPT ![p].at = at, ![p].n = 0, ![p].want = want]
  /\ last' = [op |-> "Read", p |-> p, ok |-> TRUE]
  /\ UNCHANGED << dos, keys, faults, load >>

FillLine(p) ==
  /\ proc[p].at \in {"reading", "shell reading"} /\ HasByte(con)
  /\ LET s == fill_line(con, proc[p].n)
     IN  IF s.done THEN Copy(p, s.con, After(proc[p].at), proc[p].want)
         ELSE con' = s.con /\ proc' = [proc EXCEPT ![p].n = s.n]
  /\ last' = [op |-> "Fill", p |-> p, ok |-> TRUE]
  /\ UNCHANGED << dos, keys, faults, load >>

\* A byte arrives at the UART, or is injected.
TypeKey ==
  /\ keys # << >> /\ Len(con.uart) < UartCap
  /\ con' = IF May("inject") THEN Croi_ConsoleInput_Inject(con, <<Head(keys)>>)
            ELSE Receive(con, Head(keys))
  /\ keys' = Tail(keys)
  /\ last' = [op |-> "Type", p |-> Missing, ok |-> TRUE]
  /\ UNCHANGED << dos, proc, faults, load >>

Croi_Dos_Read_Impl(p) ==
  \E h \in DOMAIN dos.handles :
    \/ /\ May("file") /\ dos.handles[h].kind = "file"
       /\ Done(p, "Read", ReadFile(dos, h, 1)) /\ UNCHANGED faults
    \/ /\ May("console") /\ h = dos.cis[p]
       /\ \E want \in {1, LineCap - 1} : StartRead(p, "reading", want)

Croi_Dos_Write_Impl(p) ==
  /\ May("file")
  /\ \E h \in DOMAIN dos.handles, src \in Data, full \in BOOLEAN :
       /\ Fault(full) /\ Spend(full)
       /\ Done(p, "Write", WriteFile(dos, h, src, full))

Croi_Dos_Seek_Impl(p) ==
  /\ May("file")
  /\ \E h \in DOMAIN dos.handles, s \in Seeks :
       Done(p, "Seek", SeekFile(dos, h, s.off, s.mode)) /\ UNCHANGED faults

Croi_Dos_DeleteFile_Impl(p) ==
  \E path \in Uses :
    May("delete") /\ Done(p, "Delete", DeleteObject(dos, dos.cwd[p], path)) /\ UNCHANGED faults

Croi_Dos_Rename_Impl(p) ==
  /\ May("rename")
  /\ \E from \in Uses, to \in Uses, fails \in {"none", "link", "remove"}, cut \in BOOLEAN :
       /\ cut => fails = "none"
       /\ Fault(fails # "none" \/ cut) /\ Spend(fails # "none" \/ cut)
       /\ LET r == RenameObject(dos, dos.cwd[p], from, to, fails, cut)
          IN  /\ dos' = IF cut THEN PowerCut(r.d) ELSE set_ioerr(r.d, p, r.err)
              /\ last' = [op |-> "Rename", p |-> p, ok |-> r.err = "none" /\ ~cut]
              /\ proc' = IF cut THEN [q \in Procs |-> Idle] ELSE proc
              /\ UNCHANGED << con, keys, load >>

Croi_Dos_CreateDir_Impl(p) ==
  /\ May("mkdir") /\ Room(Blocks, dos.locks)
  /\ \E path \in Uses, full \in BOOLEAN, oom \in BOOLEAN :
       /\ ~(full /\ oom) /\ Fault(full \/ oom) /\ Spend(full \/ oom)
       /\ Done(p, "CreateDir", CreateDir(dos, dos.cwd[p], path, full, oom))

ensure_console(d, slot, oom) ==
  IF slot # Missing THEN [d |-> d, res |-> slot] ELSE Croi_Dos_MakeConsoleHandle(d, oom)

Croi_Dos_Output_Impl(p) ==
  \E oom \in BOOLEAN :
    /\ May("console") /\ (dos.cos[p] = Missing => Room(Blocks, dos.handles))
    /\ Fault(oom) /\ Spend(oom)
    /\ LET r == ensure_console(dos, dos.cos[p], oom) IN dos' = [r.d EXCEPT !.cos[p] = r.res]
    /\ last' = [op |-> "Output", p |-> p, ok |-> dos'.cos[p] # Missing]
    /\ UNCHANGED << con, proc, keys, load >>

Croi_Dos_Input_Impl(p) ==
  \E oom \in BOOLEAN :
    /\ May("console") /\ (dos.cis[p] = Missing => Room(Blocks, dos.handles))
    /\ Fault(oom) /\ Spend(oom)
    /\ LET r == ensure_console(dos, dos.cis[p], oom) IN dos' = [r.d EXCEPT !.cis[p] = r.res]
    /\ last' = [op |-> "Input", p |-> p, ok |-> dos'.cis[p] # Missing]
    /\ UNCHANGED << con, proc, keys, load >>

Croi_Dos_LoadSeg_Impl(p) ==
  /\ May("seg") /\ Room(Blocks, dos.handles) /\ Room(Blocks, dos.segs)
  /\ \E path \in Uses, oom \in 0..3 :
       /\ Fault(oom # 0) /\ Spend(oom # 0)
       /\ Done(p, "LoadSeg", LoadSeg(dos, dos.cwd[p], path, oom))

Croi_Dos_UnLoadSeg_Impl(p) ==
  \E s \in DOMAIN dos.segs : May("seg") /\ Silent(p, "UnLoadSeg", UnLoadSeg(dos, s))

\* A signal and a child, or neither; the caller waits for the child's exit.
RunCommand(p, s, oom) ==
  /\ UNCHANGED << con, keys, load >>
  /\ IF proc[p].sigs = NSignals \/ oom
     THEN /\ dos' = set_ioerr(dos, p, "no free store")
          /\ proc' = [proc EXCEPT ![p].at = IF @ = "idle" THEN @ ELSE "report"]
          /\ last' = [op |-> "RunCommand", p |-> p, ok |-> FALSE]
     ELSE /\ proc' = [proc EXCEPT ![p].at = IF @ = "idle" THEN "waiting" ELSE "running",
                                  ![p].sigs = @ + 1, ![p].seg = s]
          /\ last' = [op |-> "RunCommand", p |-> p, ok |-> TRUE]
          /\ UNCHANGED dos

Croi_Dos_RunCommand_Impl(p) ==
  \E s \in DOMAIN dos.segs, oom \in BOOLEAN :
    May("seg") /\ Fault(oom) /\ Spend(oom) /\ RunCommand(p, s, oom)

\* The child's exit wakes nobody.
ExitUnseen(p) ==
  /\ proc[p].at \in {"waiting", "running"}
  /\ last' = [op |-> "Exit", p |-> p, ok |-> TRUE]
  /\ UNCHANGED << dos, con, proc, keys, faults, load >>

\* The child exits, the waiting caller frees its signal.
ChildExits(p) ==
  /\ proc[p].at \in {"waiting", "running"}
  /\ proc' = [proc EXCEPT ![p].at = IF @ = "waiting" THEN "idle" ELSE "report", ![p].sigs = @ - 1,
                          ![p].seg = IF proc[p].at = "waiting" THEN Missing ELSE @,
                          ![p].runs = IF proc[p].at = "waiting" THEN @ ELSE @ + 1]
  /\ last' = [op |-> "Exit", p |-> p, ok |-> TRUE]
  /\ UNCHANGED << dos, con, keys, faults, load >>

(***************************************************************************)
(* The shell: prompt, read, load the word or C/word, run, unload.           *)
(***************************************************************************)
Word(line) == SelectSeq(line, LAMBDA c : c # NL)
Path(names) == [vol |-> FALSE, names |-> names]
WordName(line) == IF Len(Word(line)) = 1 THEN Word(line)[1] ELSE Missing

ShellPrompt(p) == proc[p].at = "prompt" /\ StartRead(p, "shell reading", LineCap - 1)

ShellSearches(p, path, found, missing) ==
  \E oom \in 0..3 :
    /\ Fault(oom # 0) /\ Spend(oom # 0)
    /\ LET r == LoadSeg(dos, dos.cwd[p], path, oom)
       IN  /\ dos' = set_ioerr(r.d, p, r.err)
           /\ proc' = [proc EXCEPT ![p].at = IF r.err = "none" THEN found ELSE missing,
                                   ![p].seg = IF r.err = "none" THEN r.res ELSE Missing]
           /\ last' = [op |-> "LoadSeg", p |-> p, ok |-> r.err = "none"]
    /\ UNCHANGED << con, keys, load >>

ShellParse(p) ==
  LET line == proc[p].line
  IN  /\ proc[p].at = "load"
      /\ IF Word(line) = << >> \/ WordName(line) = Quit
         THEN /\ proc' = [proc EXCEPT ![p].at = IF Word(line) = << >> THEN "prompt" ELSE "ended"]
              /\ last' = [op |-> "Parse", p |-> p, ok |-> TRUE]
              /\ UNCHANGED << dos, con, keys, faults, load >>
         ELSE ShellSearches(p, Path(<<WordName(line)>>), "run", "search")

ShellSearchC(p) ==
  proc[p].at = "search" /\ ShellSearches(p, Path(<<CDir, WordName(proc[p].line)>>), "run", "prompt")

ShellRun(p) ==
  /\ proc[p].at = "run"
  /\ \E oom \in BOOLEAN : Fault(oom) /\ Spend(oom) /\ RunCommand(p, proc[p].seg, oom)

ShellReport(p) ==
  /\ proc[p].at = "report"
  /\ dos' = UnLoadSeg(dos, proc[p].seg)
  /\ proc' = [proc EXCEPT ![p].at = "prompt", ![p].seg = Missing, ![p].line = << >>]
  /\ last' = [op |-> "UnLoadSeg", p |-> p, ok |-> TRUE]
  /\ UNCHANGED << con, keys, faults, load >>

ShellStep(p) ==
  ShellPrompt(p) \/ ShellParse(p) \/ ShellSearchC(p) \/ ShellRun(p) \/ ShellReport(p)

\* The power fails between two calls.
PowerFails ==
  /\ May("power") /\ Fault(TRUE) /\ Spend(TRUE)
  /\ dos' = PowerCut(dos) /\ con' = EmptyConsole /\ proc' = [p \in Procs |-> Idle]
  /\ last' = [op |-> "PowerFails", p |-> Missing, ok |-> TRUE]
  /\ UNCHANGED << keys, load >>

Call(p) ==
  \/ Croi_Dos_Lock_Impl(p) \/ Croi_Dos_UnLock_Impl(p) \/ Croi_Dos_DupLock_Impl(p)
  \/ Croi_Dos_CurrentDir_Impl(p) \/ Croi_Dos_Examine_Impl(p) \/ Croi_Dos_ExNext_Impl(p)
  \/ Croi_Dos_Open_Impl(p) \/ Croi_Dos_Close_Impl(p) \/ Croi_Dos_Read_Impl(p)
  \/ Croi_Dos_Write_Impl(p) \/ Croi_Dos_Seek_Impl(p) \/ Croi_Dos_DeleteFile_Impl(p)
  \/ Croi_Dos_Rename_Impl(p) \/ Croi_Dos_CreateDir_Impl(p) \/ Croi_Dos_Output_Impl(p)
  \/ Croi_Dos_Input_Impl(p) \/ Croi_Dos_LoadSeg_Impl(p) \/ Croi_Dos_UnLoadSeg_Impl(p)
  \/ Croi_Dos_RunCommand_Impl(p)

Next ==
  \/ \E p \in Actors : Call(p)
  \/ \E p \in Procs : FillLine(p) \/ ChildExits(p) \/ ShellStep(p)
  \/ TypeKey
  \/ PowerFails

\* A runnable shell runs, and the commands it starts end.
Spec ==
  /\ Init /\ [][Next]_vars
  /\ \A p \in Shells : WF_vars(FillLine(p)) /\ WF_vars(ChildExits(p)) /\ WF_vars(ShellStep(p))

(***************************************************************************)
(* Properties.                                                             *)
(***************************************************************************)
\* A listing that ran from Examine to ERROR_NO_MORE_ENTRIES has shown every
\* entry that was there all the time, and none twice, whatever other processes
\* created and removed in between: the place is kept in the lock.  When a read of
\* the directory fails the caller gets the same answer early (handler.c:325-328),
\* but a listing that goes on from there still comes to show all; only an entry
\* whose own block could not be read is passed over (handler.c:331-334).
ListingComplete ==
  \A l \in DOMAIN dos.locks :
    LET k == dos.locks[l]
    IN  /\ \A i, j \in DOMAIN k.seen : i < j => k.seen[i] < k.seen[j]
        /\ k.done /\ ~k.hit => k.stay \subseteq Range(k.seen) \cup k.skip

\* A file's cells go with DeleteFile or with a truncating Open, and change
\* only by Write: no other call, failing, succeeding or cut short by the power,
\* loses one.  In particular a Rename keeps the file under at least one name.
FilesSurvive ==
  [][\A f \in DOMAIN dos.files :
       \/ last'.op \in {"Delete", "New", "Write"}
       \/ last'.op = "PowerFails" /\ May("open")
       \/ f \in DOMAIN dos'.files /\ dos'.files[f] = dos.files[f]
          /\ Holders(dos', f) # {}]_vars

\* The bytes that were accepted into the ring or by the UART reach the readers
\* once and in the order they came, as edited lines, and when no byte is left
\* nothing of a whole line is missing (the ring's head and tail wrap, full and
\* empty differ, and the line buffer is refilled only when it was read out;
\* console_input.c:25-49, 64-100, 117-130).  One process reads at a time, and the
\* bytes come from one of the two sources.
ConsoleInOrder ==
  /\ IsPrefix(con.read, Cooked(con.typed))
  /\ ~HasByte(con) /\ ~Pending(con) => con.read = Cooked(con.typed)

\* The shell gets back to its prompt after every command word.
ShellComesBack ==
  \A p \in Shells : (proc[p].at = "load") ~> (proc[p].at \in {"prompt", "shell reading", "ended"})

\* Runs stop where a call has touched memory outside its block.
Sound == ~dos.outside
=============================================================================
