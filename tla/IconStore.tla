----------------------------- MODULE IconStore ------------------------------
(***************************************************************************)
(* icon.library (src/croi/icon/icon_lib.c, icon_strings.c): icons kept in  *)
(* the attribute "cara.icon" of the object they belong to and, the default *)
(* of each type, in an attribute of the volume's root.                     *)
(*                                                                         *)
(*   ic.exists   the objects on the volume                                 *)
(*   ic.attr     per attribute, of an object or the default of a type, the *)
(*               serialised icon there (<<>>: none): what the cache has    *)
(*   ic.home     the same, as the volume's home blocks have it             *)
(*   ic.got      what the last call returned                               *)
(*   ic.put, ic.asked   what was last stored where, and what the last call *)
(*               asked for: the program's own knowledge                    *)
(*   ic.doubt    the objects on which a put or a delete has failed late    *)
(*                                                                         *)
(* An icon is a record [type, x, y, stack, tool, window, tts, drawer]; a   *)
(* string a sequence of characters, NullStr the null pointer.  In a blob a *)
(* number is one cell whatever its width, so BLOB_MAX counts cells.        *)
(***************************************************************************)
EXTENDS Integers, Sequences, SequencesExt, FiniteSets

CONSTANTS
    IconObjs, RootDir,         \* objects with icons; the volume's root directory
    Icons, NullStr, NoIcon, NoDrawer,
    BLOB_MAX, MAX_TOOLTYPES,   \* CARA_ICON_BLOB_MAX, ICON_MAX_TOOLTYPES
    DrawerTypes, WBPROJECT, NO_POSITION,
    ToolKeys, EQ, BAR,         \* names of tool types; the characters = and |
    BUMP_MAX                   \* ICON_BUMP_MAX

VARIABLE ic

MAGIC == 51728
VERSION == 1

-----------------------------------------------------------------------------
(* The serialised form. *)

w_str(s) == IF s = NullStr THEN <<0>> ELSE <<Len(s)>> \o s

Croi_Icon_BlobBuild(d) ==
    LET tts == SubSeq(d.tts, 1, IF Len(d.tts) < MAX_TOOLTYPES THEN Len(d.tts) ELSE MAX_TOOLTYPES)
        drawer == d.drawer # NoDrawer
        blob == <<MAGIC, VERSION, d.type, IF drawer THEN 1 ELSE 0, d.x, d.y, d.stack>>
                \o w_str(d.tool) \o w_str(d.window) \o <<Len(tts)>>
                \o FoldLeft(LAMBDA b, s : b \o w_str(s), <<>>, tts)
                \o IF drawer THEN d.drawer ELSE <<>> IN
    IF Len(blob) > BLOB_MAX THEN <<>> ELSE blob

(* The cursor r over a blob, and the values it has read.                   *)
r_u(r, blob) ==
    IF r.off + 1 > Len(blob) THEN [r EXCEPT !.ok = FALSE, !.vals = Append(@, 0)]
    ELSE [r EXCEPT !.off = @ + 1, !.vals = Append(@, blob[r.off + 1])]

r_str(r, blob) ==
    LET n == r_u([r EXCEPT !.vals = <<>>], blob) IN
    IF ~n.ok \/ n.off + n.vals[1] > Len(blob) THEN [r EXCEPT !.ok = FALSE, !.vals = Append(@, <<>>)]
    ELSE [n EXCEPT !.off = @ + n.vals[1],
                   !.vals = Append(r.vals, SubSeq(blob, n.off + 1, n.off + n.vals[1]))]

Reads(r, blob, kinds) ==
    FoldLeft(LAMBDA c, k : IF k = "str" THEN r_str(c, blob) ELSE r_u(c, blob), r, kinds)

icon_blob_parse(blob, oom) ==
    LET ids == Reads([off |-> 0, ok |-> TRUE, vals |-> <<>>], blob, <<"u", "u">>)
        head == Reads(ids, blob, <<"u", "u", "u", "u", "u", "str", "str", "u">>)
        v == head.vals
        ntt == v[10]
        drawer == v[4] = 1
        all == Reads(head, blob, [i \in 1..ntt |-> "str"] \o IF drawer THEN <<"u", "u">> ELSE <<>>) IN
    IF ~ids.ok \/ v[1] # MAGIC \/ v[2] # VERSION THEN NoIcon
    ELSE IF ~head.ok \/ ntt > MAX_TOOLTYPES THEN NoIcon
    ELSE IF ~all.ok \/ oom THEN NoIcon
    ELSE [type |-> v[3], x |-> v[5], y |-> v[6], stack |-> v[7], tool |-> v[8],
          window |-> IF v[9] = <<>> THEN NullStr ELSE v[9],
          tts |-> SubSeq(all.vals, 11, 10 + ntt),
          drawer |-> IF drawer THEN SubSeq(all.vals, 11 + ntt, 12 + ntt) ELSE NoDrawer]

(* The default attribute's name ends in a digit.                           *)
icon_def_xattr_name(type) == type % 8

icon_make_default(type, oom) ==
    LET d == [type |-> type, x |-> NO_POSITION, y |-> NO_POSITION, stack |-> 0, tool |-> <<>>,
              window |-> NullStr, tts |-> <<>>,
              drawer |-> IF type \in DrawerTypes THEN <<48, 0>> ELSE NoDrawer]
        blob == Croi_Icon_BlobBuild(d) IN
    IF blob = <<>> THEN NoIcon ELSE icon_blob_parse(blob, oom)

-----------------------------------------------------------------------------
(* The calls.  fault is what fails in a call that reads: "read" the lock   *)
(* or Carafs_XattrGet, "oom" its first allocation.  A call that writes     *)
(* fails in the ways of Carafs_XattrSet: "begin" before it changes         *)
(* anything, "room" with the old record closed over in the cached object   *)
(* (unless it is the last), "commit" with the object dropped from the      *)
(* cache.  The bytes that closing a gap leaves behind are taken for no     *)
(* record.                                                                 *)

Attrs == IconObjs \cup 0..7
Owner(a) == IF a \in IconObjs THEN a ELSE RootDir

Late(x, a, attr) == [x EXCEPT !.attr = attr, !.doubt = @ \cup {Owner(a)}]

Carafs_XattrSet(x, a, blob, d, fails) ==
    CASE fails = "none"   -> {[x EXCEPT !.attr[a] = blob, !.put[a] = d]}
      [] fails = "begin"  -> {x}
      [] fails = "room"   -> {Late(x, a, x.attr), Late(x, a, [x.attr EXCEPT ![a] = <<>>])}
      [] fails = "commit" ->
            {Late(x, a, [b \in Attrs |-> IF Owner(b) = Owner(a) THEN x.home[b] ELSE x.attr[b]])}

Carafs_XattrGet(x, a, fault) == IF fault = "read" THEN <<>> ELSE x.attr[a]

Croi_Icon_ReadCnode(x, a, fault) ==
    LET blob == Carafs_XattrGet(x, a, fault) IN
    IF blob = <<>> THEN NoIcon ELSE icon_blob_parse(blob, fault = "oom")

Croi_Icon_GetDiskObject_Impl(x, o, fault) ==
    IF o \notin x.exists THEN NoIcon ELSE Croi_Icon_ReadCnode(x, o, fault)

(* Whether the first allocation was made, so that the default's is the     *)
(* second.                                                                 *)
Tried(x, a) == x.attr[a] # <<>> /\ icon_blob_parse(x.attr[a], FALSE) # NoIcon

Croi_Icon_GetDiskObjectNew_Impl(x, o, fault) ==
    LET d == Croi_Icon_GetDiskObject_Impl(x, o, fault) IN
    IF d # NoIcon THEN d ELSE icon_make_default(WBPROJECT, fault = "oom" /\ ~Tried(x, o))

Croi_Icon_GetDefDiskObject_Impl(x, type, fault) ==
    LET a == icon_def_xattr_name(type)
        d == Croi_Icon_ReadCnode(x, a, fault) IN
    IF d # NoIcon THEN d ELSE icon_make_default(type, fault = "oom" /\ ~Tried(x, a))

(* The calls that write: the states they may leave.                        *)
Croi_Icon_PutDiskObject_Impl(x, o, d, fails) ==
    LET blob == Croi_Icon_BlobBuild(d) IN
    IF blob = <<>> \/ o \notin x.exists THEN {x} ELSE Carafs_XattrSet(x, o, blob, d, fails)

Croi_Icon_PutDefDiskObject_Impl(x, d, fails) ==
    LET blob == Croi_Icon_BlobBuild(d) IN
    IF blob = <<>> THEN {x} ELSE Carafs_XattrSet(x, icon_def_xattr_name(d.type), blob, d, fails)

(* Removing a record takes no room.                                        *)
Croi_Icon_DeleteDiskObject_Impl(x, o, fails) ==
    IF o \notin x.exists \/ x.attr[o] = <<>> \/ fails = "room" THEN {x}
    ELSE Carafs_XattrSet(x, o, <<>>, NoIcon, fails)

-----------------------------------------------------------------------------
(* Tool types and names of copies. *)

RECURSIVE FindFrom(_, _, _)
FindFrom(tts, key, i) ==
    LET n == Len(key) IN
    IF i > Len(tts) THEN NullStr
    ELSE IF IsPrefix(key, tts[i]) /\ (Len(tts[i]) = n \/ tts[i][n + 1] = EQ)
         THEN SubSeq(tts[i], n + 2, Len(tts[i]))
         ELSE FindFrom(tts, key, i + 1)

Croi_Icon_FindToolType(tts, key) == FindFrom(tts, key, 1)

RECURSIVE MatchFrom(_, _, _)
MatchFrom(s, value, i) ==
    LET at == SubSeq(s, i, Len(s))
        n == Len(value)
        bar == SelectInSeq(at, LAMBDA c : c = BAR) IN
    \/ IsPrefix(value, at) /\ (Len(at) = n \/ at[n + 1] = BAR)
    \/ bar # 0 /\ MatchFrom(s, value, i + bar)

Croi_Icon_MatchToolValue(s, value) == s # NullStr /\ MatchFrom(s, value, 1)

(* A name is its revision (0: no copy_of_, 1: copy_of_, n: copy_n_of_) and *)
(* the rest, cut to the buffer.                                            *)
Croi_Icon_BumpRevision(name) ==
    LET rev == name.rev + 1
        prefix == IF rev = 1 THEN 8 ELSE IF rev < 10 THEN 10 ELSE 11
        room == BUMP_MAX - 1 - prefix IN
    [rev |-> rev, base |-> SubSeq(name.base, 1, IF Len(name.base) < room THEN Len(name.base) ELSE room)]

-----------------------------------------------------------------------------
IconInit ==
    ic = [exists |-> {}, attr |-> [a \in Attrs |-> <<>>], home |-> [a \in Attrs |-> <<>>],
          got |-> NoIcon, put |-> [a \in Attrs |-> NoIcon], asked |-> "nothing", doubt |-> {}]

Call(x) == [x EXCEPT !.asked = "nothing", !.got = NoIcon]
Answers(what, o, fault, d) == ic' = [ic EXCEPT !.got = d, !.asked = <<what, o, fault>>]

Faults == {"none", "read", "oom"}
Failures == {"none", "begin", "room", "commit"}

(* The blocks of an object are written home.                               *)
Writeback(c) ==
    ic' = Call([ic EXCEPT !.home = [a \in Attrs |-> IF Owner(a) = c THEN ic.attr[a] ELSE @[a]]])

ObjectIcons ==
    \E o \in IconObjs :
          \/ o \notin ic.exists /\ ic' = Call([ic EXCEPT !.exists = @ \cup {o}])
          \/ /\ o \in ic.exists  \* the object is deleted, its attributes with it
             /\ ic' = Call([ic EXCEPT !.exists = @ \ {o}, !.attr[o] = <<>>, !.home[o] = <<>>,
                                      !.put[o] = NoIcon, !.doubt = @ \ {o}])
          \/ \E d \in Icons, fails \in Failures :
                \E x \in Croi_Icon_PutDiskObject_Impl(ic, o, d, fails) : ic' = Call(x)
          \/ \E fails \in Failures :
                \E x \in Croi_Icon_DeleteDiskObject_Impl(ic, o, fails) : ic' = Call(x)
          \/ /\ ic.put[o] # NoIcon /\ ic.attr[o] # <<>> \* somebody else cuts the attribute short
             /\ ic' = Call([ic EXCEPT !.attr[o] = SubSeq(@, 1, Len(@) - 1), !.put[o] = NoIcon])
          \/ \E fault \in Faults :
                \/ Answers("icon", o, fault, Croi_Icon_GetDiskObject_Impl(ic, o, fault))
                \/ Answers("new", o, fault, Croi_Icon_GetDiskObjectNew_Impl(ic, o, fault))
          \/ Writeback(o)

DefaultIcons ==
    \/ \E d \in Icons :
          \/ \E fails \in Failures :
                \E x \in Croi_Icon_PutDefDiskObject_Impl(ic, d, fails) : ic' = Call(x)
          \/ \E fault \in Faults :
                Answers("def", d.type, fault, Croi_Icon_GetDefDiskObject_Impl(ic, d.type, fault))
    \/ Writeback(RootDir)

-----------------------------------------------------------------------------
(* What must hold. *)

(* An icon as it can be stored. *)
Stored(d) ==
    [d EXCEPT !.tool = IF @ = NullStr THEN <<>> ELSE @,
              !.window = IF @ = <<>> THEN NullStr ELSE @,
              !.tts = SubSeq(@, 1, IF Len(@) < MAX_TOOLTYPES THEN Len(@) ELSE MAX_TOOLTYPES)]

Key(entry) ==
    LET e == SelectInSeq(entry, LAMBDA c : c = EQ) IN IF e = 0 THEN entry ELSE SubSeq(entry, 1, e - 1)

Alternatives(s) ==
    LET starts == {k \in 1..(Len(s) + 1) : k = 1 \/ s[k - 1] = BAR}
        ends == {k \in 0..Len(s) : k = Len(s) \/ s[k + 1] = BAR} IN
    {SubSeq(s, p[1], p[2]) : p \in {q \in starts \X ends :
        q[1] <= q[2] + 1 /\ \A k \in q[1]..q[2] : s[k] # BAR}}

(* The icon a program gets is the one last put there, with what the format *)
(* does not tell apart made the same: an icon that does not fit, a write   *)
(* that fails before it began or a missing object leave the old one, a     *)
(* blob cut short is no icon, and GetDiskObjectNew and GetDefDiskObject    *)
(* have a default to give.  That is promised while reads and allocations   *)
(* succeed and until a write to the object fails late; but even then what  *)
(* comes is nothing, the default, or a whole icon some program put         *)
(* (icon_lib.c:130-178, 237-530).                                          *)
IconsReadBack ==
    LET what == ic.asked[1]
        o == ic.asked[2]
        a == IF what = "def" THEN icon_def_xattr_name(o) ELSE o
        Default == CASE what = "icon" -> ic.got = NoIcon
                     [] what = "new"  -> ic.got.type = WBPROJECT
                     [] what = "def"  -> /\ ic.got.type = o
                                         /\ ic.got.drawer # NoDrawer <=> o \in DrawerTypes IN
    ic.asked # "nothing" =>
        /\ (ic.asked[3] = "none" /\ Owner(a) \notin ic.doubt) =>
              IF ic.put[a] # NoIcon THEN ic.got = Stored(ic.put[a]) ELSE Default
        /\ ic.got = NoIcon \/ Default \/ \E d \in Icons : ic.got = Stored(d)

(* In the tool types of an icon, a name finds the value of the first entry *)
(* with that key, a value matches if it is one of the alternatives, and    *)
(* the copies of a name that fits have names of their own                  *)
(* (icon_strings.c:38-85, 102-161).                                        *)
ToolTypesFound ==
    (ic.got # NoIcon) =>
        \A key \in ToolKeys :
           LET tts == ic.got.tts
               v == Croi_Icon_FindToolType(tts, key)
               i == SelectInSeq(tts, LAMBDA e : Key(e) = key)
               copy == Croi_Icon_BumpRevision([rev |-> Len(tts), base |-> key]) IN
           /\ IF i = 0 THEN v = NullStr
              ELSE v = SubSeq(tts[i], Len(key) + 2, Len(tts[i]))
           /\ \A w \in ToolKeys : i # 0 => (Croi_Icon_MatchToolValue(v, w) <=> w \in Alternatives(v))
           /\ Len(key) + 20 < BUMP_MAX => copy.base = key
=============================================================================
