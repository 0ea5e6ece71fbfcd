-------------------------------- MODULE FileTree --------------------------------
(***************************************************************************)
(* What a CaraFS volume promises its caller (the comments of carafs.h on    *)
(* the Carafs_Dir*, Carafs_File* and Carafs_Xattr* calls): directories map  *)
(* names to objects, files hold cells, objects carry attributes, and a      *)
(* call that fails changes nothing.  CarafsVolume implements it.            *)
(***************************************************************************)
EXTENDS Integers, Sequences

CONSTANTS
  Objects, Names, Root,
  Writes,      \* the writes callers make: [off, src]
  AttrValues   \* the attribute values callers set

VARIABLES
  dirs,    \* from the live directories to functions from names to objects
  files,   \* from the live files to their cells
  attrs    \* from the live objects to functions from attribute names to values

vars == << dirs, files, attrs >>
Live == DOMAIN attrs
Without(f, S) == [x \in DOMAIN f \ S |-> f[x]]
With(f, x, v) == [y \in DOMAIN f \cup {x} |-> IF y = x THEN v ELSE f[y]]

Init ==
  /\ dirs = [d \in {Root} |-> << >>]
  /\ files = << >>
  /\ attrs = [o \in {Root} |-> << >>]

Holders(o) == { <<d, n>> \in (DOMAIN dirs) \X Names : n \in DOMAIN dirs[d] /\ dirs[d][n] = o }

\* A new object of any type under a name that is free.
Create(d, n, o) ==
  /\ n \notin DOMAIN dirs[d] /\ o \notin Live
  /\ attrs' = With(attrs, o, << >>)
  /\ LET named == With(dirs, d, With(dirs[d], n, o))
     IN  \/ dirs' = named /\ files' = With(files, o, << >>)
         \/ dirs' = With(named, o, << >>) /\ UNCHANGED files
         \/ dirs' = named /\ UNCHANGED files

\* An object that no directory names (Carafs_CnodeCreate), and its end.
CreateLoose(o) ==
  /\ o \notin Live
  /\ attrs' = With(attrs, o, << >>) /\ files' = With(files, o, << >>) /\ UNCHANGED dirs
DeleteLoose(o) ==
  /\ o \in DOMAIN files /\ Holders(o) = {}
  /\ attrs' = Without(attrs, {o}) /\ files' = Without(files, {o}) /\ UNCHANGED dirs

Link(d, n, o) ==
  /\ n \notin DOMAIN dirs[d] /\ o \in DOMAIN files
  /\ dirs' = With(dirs, d, With(dirs[d], n, o))
  /\ UNCHANGED << files, attrs >>

\* The name goes; the object goes with its last name.
Unlink(d, n) ==
  /\ n \in DOMAIN dirs[d]
  /\ LET o    == dirs[d][n]
         rest == With(dirs, d, Without(dirs[d], {n}))
         gone == IF Holders(o) = {<<d, n>>} THEN {o} ELSE {}
     IN  /\ o \in DOMAIN dirs => dirs[o] = << >>
         /\ dirs' = Without(rest, gone)
         /\ files' = Without(files, gone)
         /\ attrs' = Without(attrs, gone)

\* The cells of a write land where they were asked for, zeros fill a gap, and
\* nothing else in the file changes.
Overlay(old, w) ==
  LET end == w.off + Len(w.src)
  IN  [i \in 1..(IF end > Len(old) THEN end ELSE Len(old)) |->
         IF i \in (w.off + 1)..end THEN w.src[i - w.off]
         ELSE IF i <= Len(old) THEN old[i] ELSE 0]

Write(f, w) ==
  /\ files' = [files EXCEPT ![f] = Overlay(@, w)]
  /\ UNCHANGED << dirs, attrs >>

SetAttr(o, n, v) ==
  /\ attrs' = [attrs EXCEPT ![o] = With(@, n, v)]
  /\ UNCHANGED << dirs, files >>

RemoveAttr(o, n) ==
  /\ attrs' = [attrs EXCEPT ![o] = Without(@, {n})]
  /\ UNCHANGED << dirs, files >>

Next ==
  \/ \E d \in DOMAIN dirs, n \in Names :
       \/ \E o \in Objects : Create(d, n, o) \/ Link(d, n, o)
       \/ Unlink(d, n)
  \/ \E o \in Objects : CreateLoose(o) \/ DeleteLoose(o)
  \/ \E f \in DOMAIN files : \E w \in Writes : Write(f, w)
  \/ \E o \in Live, n \in Names : RemoveAttr(o, n) \/ \E v \in AttrValues : SetAttr(o, n, v)

Spec == Init /\ [][Next]_vars
=============================================================================
