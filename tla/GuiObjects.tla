----------------------------- MODULE GuiObjects -----------------------------
(***************************************************************************)
(* BOOPSI (croi/intuition_lib/boopsi.c, boopsi_registry.c): classes,       *)
(* objects, the registry of named classes and lists of objects.            *)
(*                                                                         *)
(*   bp.cls   the IClass structs: live, super, name, objs (cl_ObjectCount) *)
(*            and subs (cl_SubclassCount)                                  *)
(*   bp.reg   g_classes                                                    *)
(*   bp.obj   the class of each object (o_Class), None when it is freed    *)
(*   bp.succ, bp.pred   ln_Succ and ln_Pred of the object nodes and of the *)
(*            list's two sentinels                                         *)
(*   bp.iter  the iterator a program hands to NextObject                   *)
(***************************************************************************)
EXTENDS Integers, Sequences, SequencesExt, FiniteSets

CONSTANTS
    Classes, Objects, Names,
    Root,           \* the class with which the registry starts
    Nil, ListHead, ListTail, \* nullptr, the list's lh_Head and lh_Tail nodes
    MaxClasses      \* BOOPSI_MAX_CLASSES

Croi_FindClass_Impl(bp, name) ==
    LET hits == SelectSeq(bp.reg, LAMBDA c : bp.cls[c].name = name) IN
    IF hits = <<>> THEN Nil ELSE hits[1]

Croi_Boopsi_RegisterClass(bp, c) ==
    IF Croi_FindClass_Impl(bp, bp.cls[c].name) # Nil \/ Len(bp.reg) >= MaxClasses THEN bp
    ELSE [bp EXCEPT !.reg = Append(@, c)]

(* The last entry takes the place of the one removed.                      *)
Croi_Boopsi_UnregisterClass(bp, c) ==
    LET at == SelectInSeq(bp.reg, LAMBDA d : d = c)
        last == Len(bp.reg) IN
    IF at = 0 THEN bp
    ELSE [bp EXCEPT !.reg = SubSeq([@ EXCEPT ![at] = bp.reg[last]], 1, last - 1)]

(* A class needs a superclass, and memory.                                 *)
Croi_Intuition_MakeClass(bp, c, super, name, oom) ==
    IF super = Nil \/ oom THEN bp
    ELSE [bp EXCEPT !.cls[super].subs = @ + 1,
                    !.cls[c] = [live |-> TRUE, super |-> super, name |-> name,
                                objs |-> 0, subs |-> 0]]

CanFreeClass(bp, c) == bp.cls[c].objs = 0 /\ bp.cls[c].subs = 0

(* Mutant: only objects keep a class.                                      *)
FreeIgnoresSubs(bp, c) ==
    IF bp.cls[c].objs # 0 THEN bp
    ELSE [bp EXCEPT !.cls[bp.cls[c].super].subs = @ - 1, !.cls[c].live = FALSE]

Croi_Intuition_FreeClass(bp, c) ==
    IF ~CanFreeClass(bp, c) THEN bp
    ELSE [bp EXCEPT !.cls[bp.cls[c].super].subs = @ - 1, !.cls[c].live = FALSE]

-----------------------------------------------------------------------------
(* The methods of rootclass that have an effect.                           *)

OM_NEW(bp, o, c, oom) ==
    IF oom THEN bp
    ELSE [bp EXCEPT !.obj[o] = c, !.cls[c].objs = @ + 1, !.succ[o] = Nil, !.pred[o] = Nil]

OM_DISPOSE(bp, o) == [bp EXCEPT !.obj[o] = Nil, !.cls[bp.obj[o]].objs = @ - 1]

OM_ADDTAIL(bp, o) ==
    LET last == bp.pred[ListTail] IN
    [bp EXCEPT !.succ[o] = ListTail, !.pred[o] = last,
               !.succ[last] = o, !.pred[ListTail] = o]

OM_REMOVE(bp, o) ==
    IF bp.succ[o] = Nil \/ bp.pred[o] = Nil THEN bp
    ELSE [bp EXCEPT !.succ[bp.pred[o]] = bp.succ[o], !.pred[bp.succ[o]] = bp.pred[o]]

(* Mutant: the iterator is one too far.                                    *)
NextObjectSkips(bp) ==
    IF bp.iter = Nil \/ bp.succ[bp.iter] = Nil THEN [obj |-> Nil, iter |-> bp.iter]
    ELSE LET n == bp.succ[bp.iter] IN
         [obj |-> bp.iter, iter |-> IF n = ListTail THEN n ELSE bp.succ[n]]

(* The iterator is past the object returned.                               *)
Croi_Intuition_NextObject(bp) ==
    IF bp.iter = Nil \/ bp.succ[bp.iter] = Nil THEN [obj |-> Nil, iter |-> bp.iter]
    ELSE [obj |-> bp.iter, iter |-> bp.succ[bp.iter]]

Croi_Boopsi_Init ==
    [cls |-> [c \in Classes |-> [live |-> c = Root, super |-> Nil,
                                 name |-> IF c = Root THEN Root ELSE Nil, objs |-> 0, subs |-> 0]],
     reg |-> <<Root>>,
     obj |-> [o \in Objects |-> Nil],
     succ |-> [n \in Objects \cup {ListHead, ListTail} |-> IF n = ListHead THEN ListTail ELSE Nil],
     pred |-> [n \in Objects \cup {ListHead, ListTail} |-> IF n = ListTail THEN ListHead ELSE Nil],
     iter |-> Nil]


-----------------------------------------------------------------------------
(***************************************************************************)
(* commodities.library (croi/commodities/commodities_lib.c): trees of      *)
(* commodity objects, and input descriptions.                              *)
(*                                                                         *)
(*   cx.live   allocated objects        cx.parent  .parent                 *)
(*   cx.kids   .children and .next: the children of each object, in order  *)
(*   cx.pri, cx.active, cx.error, cx.ix the fields of those names          *)
(*                                                                         *)
(* The list code relies on an object being attached only while it is       *)
(* detached; programs that attach twice are not modelled.                  *)
(***************************************************************************)

CONSTANTS CxObjs, NullObj, MinPri, MaxPri

BADFILTER == "BADFILTER"
NULLATTACH == "NULLATTACH"

Croi_Cx_CreateCxObj_Impl(cx, o, pri) ==
    [cx EXCEPT !.live = @ \cup {o}, !.parent[o] = NullObj, !.kids[o] = <<>>,
               !.pri[o] = pri, !.active[o] = FALSE, !.error[o] = {}, !.ix[o] = {}]

Croi_Cx_ActivateCxObj_Impl(cx, o, on) == [cx EXCEPT !.active[o] = on]

Croi_Cx_ClearCxObjError_Impl(cx, o) == [cx EXCEPT !.error[o] = {}]

(* The objects of a list keep their places when a priority changes.        *)
Croi_Cx_SetCxObjPri_Impl(cx, o, pri) ==
    [cx EXCEPT !.pri[o] = IF pri < MinPri THEN MinPri ELSE IF pri > MaxPri THEN MaxPri ELSE pri]

Croi_Cx_AttachCxObj_Impl(cx, h, o) ==
    IF h = NullObj THEN cx
    ELSE IF o = NullObj THEN [cx EXCEPT !.error[h] = @ \cup {NULLATTACH}]
    ELSE [cx EXCEPT !.parent[o] = h, !.kids[h] = Append(@, o)]

InsertBehind(s, n, o) == SubSeq(s, 1, n) \o <<o>> \o SubSeq(s, n + 1, Len(s))

(* Before the first object of a lower priority.                            *)
Croi_Cx_EnqueueCxObj_Impl(cx, h, o) ==
    LET n == SelectInSeq(cx.kids[h], LAMBDA c : cx.pri[c] < cx.pri[o]) IN
    [cx EXCEPT !.parent[o] = h,
               !.kids[h] = InsertBehind(@, IF n = 0 THEN Len(@) ELSE n - 1, o)]

(* Behind pred, or first.                                                  *)
Croi_Cx_InsertCxObj_Impl(cx, h, o, pred) ==
    [cx EXCEPT !.parent[o] = h,
               !.kids[h] = InsertBehind(@, SelectInSeq(@, LAMBDA c : c = pred), o)]

Croi_Cx_RemoveCxObj_Impl(cx, o) ==
    LET h == cx.parent[o]
        cut == IF h = NullObj THEN cx
               ELSE [cx EXCEPT !.kids[h] = SelectSeq(@, LAMBDA c : c # o)] IN
    [cut EXCEPT !.parent[o] = NullObj]

RECURSIVE Subtree(_, _)
Subtree(cx, o) == {o} \cup UNION {Subtree(cx, cx.kids[o][i]) : i \in DOMAIN cx.kids[o]}

cx_free_subtree(cx, o) ==
    LET gone == Subtree(cx, o) IN
    [cx EXCEPT !.live = @ \ gone,
               !.kids = [p \in CxObjs |-> IF p \in gone THEN <<>> ELSE cx.kids[p]],
               !.parent = [p \in CxObjs |-> IF p \in gone THEN NullObj ELSE cx.parent[p]]]

Croi_Cx_DeleteCxObj_Impl(cx, o) == cx_free_subtree(Croi_Cx_RemoveCxObj_Impl(cx, o), o)

-----------------------------------------------------------------------------
(* Input descriptions.  A token is <<table, value>>; the table "none" is   *)
(* that of a word in none of cx_quals, cx_classes and cx_keys.             *)

(* Values of one table's tokens, in order.                                 *)
Of(tokens, table) == SelectSeq(tokens, LAMBDA t : t[1] = table)

Croi_Cx_ParseIX_Impl(tokens) ==
    LET code == Of(tokens, "key")
        class == Of(tokens, "class")
        LastOf(s, default) == IF s = <<>> THEN default ELSE s[Len(s)][2] IN
    [ok |-> Of(tokens, "none") = <<>>,
     qual |-> {t[2] : t \in ToSet(Of(tokens, "qual"))},
     code |-> LastOf(code, 0),
     mask |-> code # <<>>,
     class |-> LastOf(class, IF code # <<>> THEN "RAWKEY" ELSE "NULL")]

Croi_Cx_SetFilter_Impl(cx, o, tokens) ==
    LET ix == Croi_Cx_ParseIX_Impl(tokens) IN
    IF ~ix.ok THEN [cx EXCEPT !.error[o] = @ \cup {BADFILTER}]
    ELSE [cx EXCEPT !.ix[o] = {ix}]

CxInit ==
    [live |-> {}, parent |-> [o \in CxObjs |-> NullObj], kids |-> [o \in CxObjs |-> <<>>],
     pri |-> [o \in CxObjs |-> 0], active |-> [o \in CxObjs |-> FALSE],
     error |-> [o \in CxObjs |-> {}], ix |-> [o \in CxObjs |-> {}]]

(***************************************************************************)
(* gadtools.library (croi/gadtools/gadtools_lib.c): gadgets and menus made *)
(* from tags on the shared heap.  A call that allocates takes oom, the     *)
(* number of its allocation that fails (0: none does).                     *)
(*                                                                         *)
(*   gt.live   blocks of the shared heap in use by gadtools                *)
(*   gt.list   the gadgets behind the context gadget, in chain order       *)
(*   gt.ctx    the context gadget exists                                   *)
(*   gt.active the active gadget of the window, gt.down the mouse button   *)
(*                                                                         *)
(* sel is a gadget's GFLG_SELECTED, the pressed look that the input router *)
(* sets and clears and also the state of a checkbox.                       *)
(*                                                                         *)
(* A tag list is reduced to the one tag a kind reads: a value, or None.    *)
(* Text is a sequence of codes: a digit is itself and Minus the sign.      *)
(***************************************************************************)
CONSTANTS
    None,
    MaxPot,     \* MAXPOT, the largest UWORD
    Ulong,      \* the modulus of u32 arithmetic
    StrBuf      \* CARA_GT_STRBUF

Minus == -1

RECURSIVE Digits(_)
Digits(n) == IF n < 10 THEN <<n>> ELSE Append(Digits(n \div 10), n % 10)

gt_format_number(n) == IF n < 0 THEN <<Minus>> \o Digits(-n) ELSE Digits(n)

gt_strcopy(src) == IF Len(src) < StrBuf THEN src ELSE SubSeq(src, 1, StrBuf - 1)

(* Leading digits after an optional sign; the rest is ignored.             *)
gt_parse_int(s) ==
    LET neg == s # <<>> /\ s[1] = Minus
        body == IF neg THEN Tail(s) ELSE s
        v == FoldLeft(LAMBDA acc, c : IF acc.stop \/ c = Minus THEN [acc EXCEPT !.stop = TRUE]
                                      ELSE [acc EXCEPT !.v = @ * 10 + c],
                      [v |-> 0, stop |-> FALSE], body).v IN
    IF neg THEN -v ELSE v

(* Mutant: the level is not kept between the ends.                         *)
LevelUnclamped(level, min, max) ==
    IF max <= min THEN 0
    ELSE ((((level - min) * MaxPot) % Ulong) \div (max - min)) % (MaxPot + 1)

gt_level_to_pot(level, min, max) ==
    LET l == IF level < min THEN min ELSE IF level > max THEN max ELSE level IN
    IF max <= min THEN 0
    ELSE ((((l - min) * MaxPot) % Ulong) \div (max - min)) % (MaxPot + 1)

gt_pot_to_level(pot, min, max) ==
    IF max <= min THEN min ELSE min + ((pot * (max - min)) % Ulong) \div MaxPot

(* A scroller's top line: UWORD pot, the range not clamped.                *)
TopToPot(top, range) ==
    IF range > 0 THEN (((top * MaxPot) % Ulong) \div range) % (MaxPot + 1) ELSE 0
PotToTop(pot, range) == IF range > 0 THEN ((pot * range) % Ulong) \div MaxPot ELSE 0

Or(arg, default) == IF arg = None THEN default ELSE arg

(* An index that is no label's becomes the first.                          *)
Label(i, n) == IF n > 0 /\ i >= n THEN 0 ELSE i

-----------------------------------------------------------------------------
(* Gadgets.  new = [kind, lo, hi] is what the tags fixed at creation say:  *)
(* hi labels, a slider's ends, or a scroller's visible and total lines.    *)

Croi_GT_CreateContext_Impl(gt, oom) ==
    IF oom = 1 THEN gt ELSE [gt EXCEPT !.live = @ + 1, !.ctx = TRUE]

AtLeastOne(n) == IF n < 1 THEN 1 ELSE n

MakeGadget(new, arg) ==
    LET g == [kind |-> new.kind, lo |-> new.lo, hi |-> new.hi, val |-> 0, pot |-> 0,
              text |-> <<>>, sel |-> FALSE]
        end == IF new.hi <= new.lo THEN new.lo + 1 ELSE new.hi IN
    CASE new.kind = "checkbox" -> [g EXCEPT !.sel = Or(arg, 0) # 0]
      [] new.kind = "number"   -> [g EXCEPT !.val = Or(arg, 0),
                                            !.text = gt_format_number(Or(arg, 0))]
      [] new.kind = "cycle"    -> [g EXCEPT !.val = Label(Or(arg, 0), new.hi)]
      [] new.kind = "string"   -> [g EXCEPT !.text = gt_strcopy(Or(arg, <<>>))]
      [] new.kind = "integer"  -> [g EXCEPT !.val = Or(arg, 0),
                                            !.text = gt_format_number(Or(arg, 0))]
      [] new.kind = "slider"   -> [g EXCEPT !.hi = end,
                                     !.pot = gt_level_to_pot(Or(arg, new.lo), new.lo, end)]
      [] new.kind = "scroller" -> [g EXCEPT !.lo = AtLeastOne(@), !.hi = AtLeastOne(@),
                                     !.pot = TopToPot(Or(arg, 0),
                                                AtLeastOne(new.hi) - AtLeastOne(new.lo))]
      [] new.kind = "button"   -> g

(* Two blocks, the extension and the gadget; both or neither stay.  A      *)
(* failure before (prevGad = None) is passed on.                           *)
Croi_GT_CreateGadgetA_Impl(gt, prevGad, new, arg, oom) ==
    IF prevGad = None \/ oom \in {1, 2} THEN gt
    ELSE [gt EXCEPT !.live = @ + 2, !.list = Append(@, MakeGadget(new, arg))]

Croi_GT_FreeGadgets_Impl(gt) ==
    [gt EXCEPT !.live = @ - 2 * Len(gt.list) - (IF gt.ctx THEN 1 ELSE 0), !.active = 0,
               !.list = <<>>, !.ctx = FALSE]

Croi_GT_GetGadgetAttrsA_Impl(g) ==
    CASE g.kind = "integer"  -> gt_parse_int(g.text)
      [] g.kind = "string"   -> g.text
      [] g.kind = "slider"   -> gt_pot_to_level(g.pot, g.lo, g.hi)
      [] g.kind = "scroller" -> PotToTop(g.pot, g.hi - g.lo)
      [] g.kind = "button"   -> None
      [] g.kind = "checkbox" -> IF g.sel THEN 1 ELSE 0
      [] OTHER               -> g.val

Croi_GT_SetGadgetAttrsA_Impl(g, arg) ==
    CASE g.kind = "checkbox" -> [g EXCEPT !.sel = IF arg = None THEN @ ELSE arg # 0]
      [] g.kind = "number"   -> [g EXCEPT !.val = Or(arg, @),
                                          !.text = gt_format_number(Or(arg, g.val))]
      [] g.kind = "cycle"    -> [g EXCEPT !.val = Label(Or(arg, @), g.hi)]
      [] g.kind = "string"   -> [g EXCEPT !.text = IF arg = None THEN @ ELSE gt_strcopy(arg)]
      [] g.kind = "integer"  -> [g EXCEPT !.val = Or(arg, @),
                                          !.text = gt_format_number(Or(arg, g.val))]
      [] g.kind = "slider"   ->
            [g EXCEPT !.pot = gt_level_to_pot(
                          Or(arg, gt_pot_to_level(g.pot, g.lo, g.hi)), g.lo, g.hi)]
      [] g.kind = "scroller" ->
            [g EXCEPT !.pot = TopToPot(Or(arg, PotToTop(g.pot, g.hi - g.lo)), g.hi - g.lo)]
      [] g.kind = "button"   -> g

(* What GT_GetIMsg does to the gadget of a GADGETUP, and the message's     *)
(* Code (None: as the router left it).                                     *)
Croi_GT_GetIMsg_Impl(g) ==
    LET n == IF g.hi > 0 THEN (g.val + 1) % g.hi ELSE g.val IN
    CASE g.kind = "cycle"    -> [g |-> [g EXCEPT !.val = n], code |-> n]
      [] g.kind = "checkbox" -> [g |-> [g EXCEPT !.sel = ~@], code |-> IF g.sel THEN 0 ELSE 1]
      [] OTHER               -> [g |-> g, code |-> None]

-----------------------------------------------------------------------------
(* Menus: a NewMenu array is a sequence of "title", "item" and "sub"; a    *)
(* menu is a sequence of items, an item the number of its subitems.        *)

(* One entry of the walk; the oom-th allocation ends it.                   *)
MenuEntry(acc, type, oom) ==
    LET m == acc.menus
        last == Len(m)
        wanted == \/ type = "title"
                  \/ type = "item" /\ m # <<>>
                  \/ type = "sub" /\ m # <<>> /\ m[last] # <<>> IN
    IF acc.done \/ ~wanted THEN acc
    ELSE IF acc.allocs + 1 = oom THEN [acc EXCEPT !.done = TRUE]
    ELSE [acc EXCEPT
            !.allocs = @ + 1,
            !.menus = CASE type = "title" -> Append(m, <<>>)
                        [] type = "item"  -> [m EXCEPT ![last] = Append(@, 0)]
                        [] type = "sub"   -> [m EXCEPT ![last][Len(m[last])] = @ + 1]]

Croi_GT_CreateMenusA_Impl(newmenu, oom) ==
    FoldLeft(LAMBDA acc, type : MenuEntry(acc, type, oom),
             [menus |-> <<>>, allocs |-> 0, done |-> FALSE], newmenu)

(* The blocks FreeMenus reaches.                                           *)
Croi_GT_FreeMenus_Impl(menus) ==
    FoldLeft(LAMBDA n, m : n + 1 + FoldLeft(LAMBDA k, subs : k + 1 + subs, 0, m), 0, menus)

(* The strip read back in the order of the array.                          *)
MenuOrder(menus) ==
    LET Subs(n) == [k \in 1..n |-> "sub"]
        Items(m) == FoldLeft(LAMBDA s, n : s \o <<"item">> \o Subs(n), <<>>, m) IN
    FoldLeft(LAMBDA s, m : s \o <<"title">> \o Items(m), <<>>, menus)
=============================================================================
