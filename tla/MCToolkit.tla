----------------------------- MODULE MCToolkit ------------------------------
(***************************************************************************)
(* The libraries programs are built on: gadtools, asl, BOOPSI,             *)
(* commodities and intuition's screens; exec's lists and libraries and     *)
(* utility's tags; iffparse and icon.  A behaviour is one program's use of *)
(* one of them (load); every step is one call, or the user acting on a     *)
(* gadget between calls.                                                   *)
(***************************************************************************)
EXTENDS GuiObjects, ExecUtility, IffParse, IconStore, TLC

CONSTANTS
    NewGadgets,     \* what gadgets are made from: [kind, lo, hi]
    Args,           \* values of the tag a kind reads, per kind
    Texts,          \* texts of string gadgets and of requesters
    DirMax,         \* CARA_ASL_DIRMAX
    NewMenus,       \* NewMenu arrays
    Descriptions,   \* input descriptions: sequences of tokens
    Pris,           \* priorities programs ask for
    Screens, Boot   \* struct Screens, and the one of the boot

VARIABLES
    load,
    gt, prevGad, vi,    \* gadgets; what CreateGadgetA returned; VisualInfo
    clicks, last,       \* GADGETUPs queued (indices); what the last call did
    strip,              \* menus made and not freed
    asl,                \* the file requester
    bp, owed,           \* BOOPSI; objects an iteration has yet to return
    cx,
    scr                 \* screens: open, active, prev_active, order of opening

gtVars == <<gt, prevGad, vi, clicks, last>>
vars == <<load, gt, prevGad, vi, clicks, last, strip, asl, bp, owed, cx, scr, lists, libs, tags, iff, ic>>

gui == <<gtVars, strip, asl, bp, owed, cx, scr>>
data == <<lists, libs, tags, iff, ic>>

-----------------------------------------------------------------------------
(* gadtools: a program makes a list of gadgets, uses them and frees them.  *)

GtCall == load = "gadgets" /\ UNCHANGED <<load, strip, asl, bp, owed, cx, scr, data>>

Croi_GT_GetVisualInfoA_Impl ==
    /\ GtCall /\ ~vi
    /\ vi' = TRUE /\ gt' = [gt EXCEPT !.live = @ + 1]
    /\ last' = None /\ UNCHANGED <<prevGad, clicks>>

Croi_GT_FreeVisualInfo_Impl ==
    /\ GtCall /\ vi /\ gt.list = <<>>
    /\ vi' = FALSE /\ gt' = [gt EXCEPT !.live = @ - 1]
    /\ last' = None /\ UNCHANGED <<prevGad, clicks>>

CreateContext(oom) ==
    /\ GtCall /\ vi /\ ~gt.ctx
    /\ gt' = Croi_GT_CreateContext_Impl(gt, oom)
    /\ prevGad' = IF oom = 1 THEN None ELSE 0
    /\ last' = None /\ UNCHANGED <<vi, clicks>>

CreateGadget(new, arg, oom) ==
    /\ GtCall /\ vi /\ Len(gt.list) < 2
    /\ gt' = Croi_GT_CreateGadgetA_Impl(gt, prevGad, new, arg, oom)
    /\ prevGad' = IF gt' = gt \/ oom # 0 THEN None ELSE Len(gt'.list)
    /\ last' = IF prevGad' = None THEN None
               ELSE [call |-> "create", i |-> prevGad', arg |-> arg]
    /\ UNCHANGED <<vi, clicks>>

FreeGadgets ==
    /\ GtCall /\ gt.ctx
    /\ gt' = Croi_GT_FreeGadgets_Impl(gt)
    /\ prevGad' = None /\ clicks' = <<>> /\ last' = None /\ UNCHANGED vi

SetAttrs(i, arg) ==
    /\ GtCall /\ i \in DOMAIN gt.list
    /\ gt' = [gt EXCEPT !.list[i] = Croi_GT_SetGadgetAttrsA_Impl(@, arg)]
    /\ last' = [call |-> "set", i |-> i, arg |-> arg]
    /\ UNCHANGED <<prevGad, vi, clicks>>

(* The user's part, as the input router does it.  Pressing the button over *)
(* a gadget selects it and makes it the active one, pressing it elsewhere  *)
(* (over = 0) changes nothing; a knob jumps to the pointer.                *)
Knob(g) == g.kind \in {"slider", "scroller"}

UserPresses(over) ==
    /\ GtCall /\ gt.list # <<>> /\ ~gt.down
    /\ \/ over = 0 /\ gt' = [gt EXCEPT !.down = TRUE]
       \/ /\ over # 0
          /\ \E pot \in IF Knob(gt.list[over]) THEN {MaxPot \div 2, MaxPot} ELSE {0} :
                gt' = [gt EXCEPT !.down = TRUE, !.active = over,
                                 !.list[over] = [@ EXCEPT !.sel = TRUE, !.pot = pot]]
    /\ last' = None /\ UNCHANGED <<prevGad, vi, clicks>>

(* Letting it go deselects the active gadget, wherever the pointer is.  If *)
(* it was selected there is a GADGETUP for a knob, and for a gadget with   *)
(* GACT_RELVERIFY under the pointer.                                       *)
UserReleases(over) ==
    LET a == gt.active
        selected == a # 0 /\ gt.list[a].sel
        up == /\ selected
              /\ \/ Knob(gt.list[a])
                 \/ over = a /\ gt.list[a].kind \in {"button", "checkbox", "cycle"} IN
    /\ GtCall /\ gt.down /\ Len(clicks) < 2
    /\ gt' = [gt EXCEPT !.down = FALSE,
                        !.list = IF selected THEN [@ EXCEPT ![a].sel = FALSE] ELSE @]
    /\ clicks' = IF up THEN Append(clicks, a) ELSE clicks
    /\ last' = None /\ UNCHANGED <<prevGad, vi>>

UserTypes ==
    LET a == gt.active IN
    /\ GtCall /\ a # 0 /\ gt.list[a].kind \in {"string", "integer"}
    /\ Len(gt.list[a].text) < StrBuf - 1
    /\ gt' = [gt EXCEPT !.list[a].text = Append(@, 7)]
    /\ last' = None /\ UNCHANGED <<prevGad, vi, clicks>>

GetIMsg ==
    /\ GtCall /\ clicks # <<>>
    /\ LET i == clicks[1]
           got == Croi_GT_GetIMsg_Impl(gt.list[i]) IN
       /\ gt' = [gt EXCEPT !.list[i] = got.g]
       /\ last' = [call |-> "imsg", i |-> i, arg |-> got.code]
    /\ clicks' = Tail(clicks) /\ UNCHANGED <<prevGad, vi>>

-----------------------------------------------------------------------------
(* Menus. *)

CreateMenus(newmenu, oom) ==
    /\ load = "menus" /\ strip.from = <<>>
    /\ strip' = [menus |-> Croi_GT_CreateMenusA_Impl(newmenu, oom).menus,
                 live |-> Croi_GT_CreateMenusA_Impl(newmenu, oom).allocs,
                 from |-> newmenu, oom |-> oom]
    /\ UNCHANGED <<load, gtVars, asl, bp, owed, cx, scr, data>>

FreeMenus ==
    /\ load = "menus" /\ strip.from # <<>>
    /\ strip' = [menus |-> <<>>, live |-> strip.live - Croi_GT_FreeMenus_Impl(strip.menus),
                 from |-> <<>>, oom |-> 0]
    /\ UNCHANGED <<load, gtVars, asl, bp, owed, cx, scr, data>>

-----------------------------------------------------------------------------
(* asl: the file requester, one field of it.                               *)

AslCall == load = "asl" /\ UNCHANGED <<load, gtVars, strip, bp, owed, cx, scr, data>>

asl_strcopy(src) == IF Len(src) < DirMax THEN src ELSE SubSeq(src, 1, DirMax - 1)

Croi_Asl_AllocAslRequest_Impl(drawer) ==
    /\ AslCall /\ ~asl.made
    /\ asl' = [asl EXCEPT !.made = TRUE, !.dir = asl_strcopy(drawer), !.answer = None]

(* The window with the string gadget; a drawer tag replaces the buffer.    *)
Croi_Asl_Build(drawer) ==
    LET dir == IF drawer = None THEN asl.dir ELSE asl_strcopy(drawer) IN
    /\ AslCall /\ asl.made /\ ~asl.open
    /\ asl' = [asl EXCEPT !.dir = dir, !.open = TRUE, !.built = dir, !.typed = FALSE,
                          !.port = <<>>, !.answer = None,
                          !.gad = MakeGadget([kind |-> "string", lo |-> 0, hi |-> 0], dir)]

AslUser ==
    /\ AslCall /\ asl.open
    /\ \/ /\ Len(asl.gad.text) < StrBuf - 1
          /\ asl' = [asl EXCEPT !.gad.text = Append(@, 7), !.typed = TRUE]
       \/ /\ Len(asl.port) < 2
          /\ \E id \in {"ok", "cancel", "field"} : asl' = [asl EXCEPT !.port = Append(@, id)]

(* All messages that are there are taken: any OK copies the field back,    *)
(* the last of OK and Cancel is the answer.  The Return of a field is not. *)
Croi_Asl_Wait ==
    /\ AslCall /\ asl.open /\ asl.port # <<>>
    /\ asl' = IF ToSet(asl.port) \cap {"ok", "cancel"} = {} THEN [asl EXCEPT !.port = <<>>]
              ELSE [asl EXCEPT
                      !.dir = IF "ok" \in ToSet(asl.port) THEN asl_strcopy(asl.gad.text) ELSE @,
                      !.open = FALSE,
                      !.answer = asl.port[SelectLastInSeq(asl.port, LAMBDA m : m # "field")]]

Croi_Asl_FreeAslRequest_Impl ==
    /\ AslCall /\ asl.made /\ ~asl.open
    /\ asl' = [asl EXCEPT !.made = FALSE]

-----------------------------------------------------------------------------
(* BOOPSI.  A program frees a class only after RemoveClass, disposes of an *)
(* object only when it is on no list, and adds it to a list only once.     *)

BpCall == load = "classes" /\ UNCHANGED <<load, gtVars, strip, asl, cx, scr, data>>

Listed(o) ==
    /\ bp.obj[o] # Nil
    /\ bp.succ[o] # Nil
    /\ bp.succ[bp.pred[o]] = o

AddClass(c) ==
    /\ BpCall /\ bp.cls[c].live /\ bp' = Croi_Boopsi_RegisterClass(bp, c) /\ UNCHANGED owed

RemoveClass(c) ==
    /\ BpCall /\ bp.cls[c].live /\ c # Root
    /\ bp' = Croi_Boopsi_UnregisterClass(bp, c) /\ UNCHANGED owed

(* The superclass is found by name.                                        *)
MakeClass(c, super, name, oom) ==
    /\ BpCall /\ ~bp.cls[c].live
    /\ bp' = Croi_Intuition_MakeClass(bp, c, Croi_FindClass_Impl(bp, super), name, oom)
    /\ UNCHANGED owed

FreeClass(c) ==
    /\ BpCall /\ c # Root /\ bp.cls[c].live /\ c \notin ToSet(bp.reg)
    /\ bp' = Croi_Intuition_FreeClass(bp, c) /\ UNCHANGED owed

Croi_Intuition_NewObjectA(o, name, oom) ==
    LET c == Croi_FindClass_Impl(bp, name) IN
    /\ BpCall /\ bp.obj[o] = Nil
    /\ bp' = IF c = Nil THEN bp ELSE OM_NEW(bp, o, c, oom)
    /\ UNCHANGED owed

Croi_Intuition_DisposeObject(o) ==
    /\ BpCall /\ bp.obj[o] # Nil /\ ~Listed(o)
    /\ bp' = OM_DISPOSE(bp, o) /\ UNCHANGED owed

Croi_Boopsi_RootDispatch(o) ==
    /\ BpCall /\ bp.obj[o] # Nil
    /\ \/ /\ bp.succ[o] = Nil /\ bp' = OM_ADDTAIL(bp, o) /\ UNCHANGED owed
       \/ /\ Listed(o) /\ bp.iter # o /\ bp' = OM_REMOVE(bp, o) /\ owed' = owed \ {o}

StartWalk ==
    /\ BpCall /\ bp.iter = Nil
    /\ bp' = [bp EXCEPT !.iter = bp.succ[ListHead]] /\ owed' = {o \in Objects : Listed(o)}

NextObject ==
    LET got == Croi_Intuition_NextObject(bp) IN
    /\ BpCall /\ bp.iter # Nil
    /\ owed' = owed \ {got.obj}
    /\ bp' = [bp EXCEPT !.iter = IF got.obj = Nil THEN Nil ELSE got.iter]

-----------------------------------------------------------------------------
(* Commodities. *)

CxCall(l) == load = l /\ UNCHANGED <<load, gtVars, strip, asl, bp, owed, scr, data>>

Loose(o) == o \in cx.live /\ cx.parent[o] = NullObj

CxTree ==
    /\ CxCall("cx")
    /\ \E o \in CxObjs :
          \/ /\ o \notin cx.live
             /\ \E pri \in Pris : cx' = Croi_Cx_CreateCxObj_Impl(cx, o, pri)
          \/ \E pri \in Pris : o \in cx.live /\ cx' = Croi_Cx_SetCxObjPri_Impl(cx, o, pri)
          \/ /\ o \in cx.live /\ cx' = Croi_Cx_RemoveCxObj_Impl(cx, o)
          \/ /\ o \in cx.live /\ cx' = Croi_Cx_DeleteCxObj_Impl(cx, o)
          \/ \E h \in cx.live : /\ Loose(o) /\ h \notin Subtree(cx, o)
                                /\ \/ cx' = Croi_Cx_AttachCxObj_Impl(cx, h, o)
                                   \/ cx' = Croi_Cx_EnqueueCxObj_Impl(cx, h, o)
                                   \/ \E p \in ToSet(cx.kids[h]) \cup {NullObj} :
                                         cx' = Croi_Cx_InsertCxObj_Impl(cx, h, o, p)

(* One object's fields. *)
CxFields ==
    /\ CxCall("filter")
    /\ \/ cx.live = {} /\ \E o \in CxObjs, pri \in Pris : cx' = Croi_Cx_CreateCxObj_Impl(cx, o, pri)
       \/ \E o \in cx.live :
          \/ \E on \in BOOLEAN : cx' = Croi_Cx_ActivateCxObj_Impl(cx, o, on)
          \/ cx' = Croi_Cx_AttachCxObj_Impl(cx, o, NullObj)
          \/ cx' = Croi_Cx_ClearCxObjError_Impl(cx, o)
          \/ \E d \in Descriptions : cx' = Croi_Cx_SetFilter_Impl(cx, o, d)

-----------------------------------------------------------------------------
(* Screens, opened over the one framebuffer. *)

ScrCall == load = "screens" /\ UNCHANGED <<load, gtVars, strip, asl, bp, owed, cx, data>>

Croi_OpenScreen_Impl(s) ==
    /\ ScrCall /\ s \notin scr.open
    /\ scr' = [scr EXCEPT !.open = @ \cup {s}, !.active = s, !.prev[s] = scr.active,
                          !.order = Append(@, s)]

(* Frees the screen, clears the active one if it was this, and makes the   *)
(* remembered one active.                                                  *)
Croi_CloseScreen_Impl(s) ==
    LET cleared == IF scr.active = s THEN None ELSE scr.active IN
    /\ ScrCall /\ s \in scr.open /\ s # Boot
    /\ scr' = [scr EXCEPT !.open = @ \ {s},
                          !.active = IF scr.prev[s] # None THEN scr.prev[s] ELSE cleared,
                          !.nested = @ /\ scr.order[Len(scr.order)] = s,
                          !.order = SelectSeq(@, LAMBDA t : t # s)]

-----------------------------------------------------------------------------
Init ==
    /\ load \in {"gadgets", "menus", "asl", "classes", "cx", "filter", "screens",
                 "lists", "libs", "tags", "iff", "icons", "defaults"}
    /\ ListsInit /\ (load # "lists" => \A n \in Nodes : lists.pri[n] = 0)
    /\ LibsInit /\ IffInit /\ IconInit
    /\ TagsInit /\ (load # "tags" => tags.mem = <<DONE>>)
    /\ gt = [live |-> 0, list |-> <<>>, ctx |-> FALSE, active |-> 0, down |-> FALSE]
    /\ prevGad = None /\ vi = FALSE /\ clicks = <<>> /\ last = None
    /\ strip = [menus |-> <<>>, live |-> 0, from |-> <<>>, oom |-> 0]
    /\ asl = [made |-> FALSE, open |-> FALSE, dir |-> <<>>, built |-> <<>>, typed |-> FALSE,
              port |-> <<>>, answer |-> None,
              gad |-> MakeGadget([kind |-> "string", lo |-> 0, hi |-> 0], <<>>)]
    /\ bp = Croi_Boopsi_Init /\ owed = {}
    /\ cx = CxInit
    /\ scr = [open |-> {Boot}, active |-> Boot, prev |-> [s \in Screens |-> None],
              order |-> <<Boot>>, nested |-> TRUE]

GadgetStep ==
    \/ Croi_GT_GetVisualInfoA_Impl
    \/ \E oom \in {0, 1} : CreateContext(oom)
    \/ Croi_GT_FreeVisualInfo_Impl
    \/ \E new \in NewGadgets, oom \in 0..2 :
          \E arg \in Args[new.kind] \cup {None} : CreateGadget(new, arg, oom)
    \/ FreeGadgets
    \/ \E i \in DOMAIN gt.list :
          \E arg \in Args[gt.list[i].kind] \cup {None} : SetAttrs(i, arg)
    \/ \E over \in 0..Len(gt.list) : UserPresses(over) \/ UserReleases(over)
    \/ UserTypes
    \/ GetIMsg

MenuStep == (\E m \in NewMenus, oom \in 0..3 : CreateMenus(m, oom)) \/ FreeMenus

AslStep ==
    \/ \E d \in Texts : Croi_Asl_AllocAslRequest_Impl(d)
    \/ \E d \in Texts \cup {None} : Croi_Asl_Build(d)
    \/ AslUser \/ Croi_Asl_Wait \/ Croi_Asl_FreeAslRequest_Impl

ClassStep ==
    \/ \E c \in Classes :
          \/ AddClass(c) \/ RemoveClass(c) \/ FreeClass(c)
          \/ \E super, name \in Names, oom \in BOOLEAN : MakeClass(c, super, name, oom)
    \/ \E o \in Objects :
          \/ \E name \in Names, oom \in BOOLEAN : Croi_Intuition_NewObjectA(o, name, oom)
          \/ Croi_Intuition_DisposeObject(o) \/ Croi_Boopsi_RootDispatch(o)
    \/ StartWalk \/ NextObject

ScreenStep == \E s \in Screens : Croi_OpenScreen_Impl(s) \/ Croi_CloseScreen_Impl(s)

ListStep == load = "lists" /\ ListsNext /\ UNCHANGED <<load, gui, libs, tags, iff, ic>>
LibraryStep == load = "libs" /\ LibsNext /\ UNCHANGED <<load, gui, lists, tags, iff, ic>>
TagStep == load = "tags" /\ TagsNext /\ UNCHANGED <<load, gui, lists, libs, iff, ic>>
IffStep == load = "iff" /\ IffNext /\ UNCHANGED <<load, gui, lists, libs, tags, ic>>
IconStep ==
    /\ \/ load = "icons" /\ ObjectIcons
       \/ load = "defaults" /\ DefaultIcons
    /\ UNCHANGED <<load, gui, lists, libs, tags, iff>>

Next ==
    \/ GadgetStep \/ MenuStep \/ AslStep \/ ClassStep \/ CxTree \/ CxFields \/ ScreenStep
    \/ ListStep \/ LibraryStep \/ TagStep \/ IffStep \/ IconStep

Spec == Init /\ [][Next]_vars

-----------------------------------------------------------------------------
(* What must hold. *)

(* Whichever allocation fails, the blocks in use are the gadgets of the    *)
(* chain with their extensions, the context and the VisualInfo, so         *)
(* FreeGadgets on the context cleans up a partial chain                    *)
(* (gadtools_lib.c:198-220).                                               *)
GadgetBlocksAccounted ==
    gt.live = 2 * Len(gt.list) + (IF gt.ctx THEN 1 ELSE 0) + (IF vi THEN 1 ELSE 0)

Between(v, lo, hi) == IF v < lo THEN lo ELSE IF v > hi THEN hi ELSE v

(* What a program reads back is what it set: an index past the labels      *)
(* reads as the first, a text is cut to the buffer, a level or a top line  *)
(* is kept in range and may read one lower, since level and pot convert    *)
(* with truncation both ways; and the Code of a message is the state read  *)
(* (gadtools_lib.c:158-179, 264-352, 594-618).  That holds for ranges of   *)
(* at most MAXPOT: in longer ones the u32 product wraps.  A top line past  *)
(* the range is a program's error.                                         *)
GadgetsReadBack ==
    (last # None /\ last.arg # None) =>
        LET g == gt.list[last.i]
            v == Croi_GT_GetGadgetAttrsA_Impl(g)
            Near(n) == v = n \/ v = n - 1 IN
        CASE last.call = "imsg"    -> v = last.arg
          [] g.kind = "cycle"      -> v = Label(last.arg, g.hi)
          [] g.kind = "checkbox"   -> v = IF last.arg = 0 THEN 0 ELSE 1
          [] g.kind = "string"     -> v = gt_strcopy(last.arg)
          [] Knob(g) /\ g.hi - g.lo > MaxPot -> TRUE
          [] g.kind = "slider"     -> Near(Between(last.arg, g.lo, g.hi))
          [] g.kind = "scroller"   -> Near(Between(last.arg, 0, Between(g.hi - g.lo, 0, g.hi)))
          [] OTHER                 -> v = last.arg

(* After OK the drawer of a file requester is what its field showed: what  *)
(* the user left there or, untouched, the one it was opened with as far as *)
(* the field held it; after Cancel it is the one it was opened with,       *)
(* unless OK was pressed too before the program looked (asl_lib.c:100-130, *)
(* 284-306).                                                               *)
AslReadsBack ==
    /\ asl.answer = "ok" =>
          /\ asl.dir = asl.gad.text
          /\ ~asl.typed => asl.dir = gt_strcopy(asl.built)
    /\ asl.answer = "cancel" => asl.dir = asl.built \/ "ok" \in ToSet(asl.port)

(* The entries of a NewMenu array that have a menu or an item to go to.    *)
Wanted(newmenu) ==
    LET title == SelectInSeq(newmenu, LAMBDA t : t = "title")
        from == IF title = 0 THEN <<>> ELSE SubSeq(newmenu, title, Len(newmenu))
        Prior(k) == SelectLastInSubSeq(from, 1, k, LAMBDA t : t # "sub")
        kept == SelectSeq([k \in DOMAIN from |-> k],
                          LAMBDA k : from[k] # "sub" \/ from[Prior(k)] = "item") IN
    [k \in DOMAIN kept |-> from[kept[k]]]

(* CreateMenus chains every entry that has a place, in order; when memory  *)
(* runs out it returns what was made before; FreeMenus then frees every    *)
(* block (gadtools_lib.c:681-751, 776-798).                                *)
MenusComplete ==
    strip.menus # <<>> =>
        LET all == Wanted(strip.from)
            n == IF strip.oom = 0 \/ strip.oom > Len(all) THEN Len(all) ELSE strip.oom - 1 IN
        /\ MenuOrder(strip.menus) = SubSeq(all, 1, n)
        /\ strip.live = Croi_GT_FreeMenus_Impl(strip.menus)

(* Every live class and object hangs off a live class, the counts that     *)
(* keep FreeClass from freeing a class in use are exact, and the registry  *)
(* holds live classes under distinct names (boopsi.c:82-101, 178-217).     *)
ClassesHeld ==
    LET live == {c \in Classes : bp.cls[c].live} IN
    /\ \A c \in live \ {Root} : bp.cls[c].super \in live
    /\ \A o \in Objects : bp.obj[o] # Nil => bp.obj[o] \in live
    /\ \A c \in live :
          /\ bp.cls[c].objs = Cardinality({o \in Objects : bp.obj[o] = c})
          /\ bp.cls[c].subs = Cardinality({d \in live : bp.cls[d].super = c})
    /\ ToSet(bp.reg) \subseteq live
    /\ \A i, j \in DOMAIN bp.reg : bp.cls[bp.reg[i]].name = bp.cls[bp.reg[j]].name => i = j

(* An iteration that ends has returned every object that was on the list   *)
(* all the while, though others were added, and those returned removed and *)
(* disposed of, on the way (boopsi.c:109-131, 275-287).                    *)
WalkSeesAll ==
    [][bp.iter # Nil /\ bp'.iter = Nil => owed = {}]_vars

(* Commodity objects form a forest: an object is on the list of its parent *)
(* and on no other, once, and nothing live refers to a freed object        *)
(* (commodities_lib.c:107-203).                                            *)
CxForest ==
    /\ \A o \in CxObjs : \A h \in CxObjs :
          Cardinality({i \in DOMAIN cx.kids[h] : cx.kids[h][i] = o})
            = IF o \in cx.live /\ cx.parent[o] = h THEN 1 ELSE 0
    /\ \A o \in cx.live : cx.parent[o] \in cx.live \cup {NullObj}

(* As long as screens are closed in the reverse order of opening, the      *)
(* active screen is the one opened last (bridge.c:415-417 "OpenScreen      *)
(* saves the previously-active screen so CloseScreen restores it").        *)
ScreenRestored == scr.nested => scr.active = scr.order[Len(scr.order)]

(* What a program puts through a library and reads back is what it put, as *)
(* far as the library says it keeps it: gadgets' attributes and the drawer *)
(* of a requester above, tags through the calls that copy and edit tag     *)
(* lists, IFF files, icons and their tool types.                           *)
ReadsBack ==
    /\ GadgetsReadBack
    /\ AslReadsBack
    /\ TagsReadBack
    /\ IffReadsBack
    /\ IconsReadBack
    /\ ToolTypesFound

(* What each toolkit library keeps about the objects it made agrees with   *)
(* the objects there are, in whatever order they are made, moved and freed *)
(* and whichever allocation fails: the five above, exec's lists and open   *)
(* counts, and the copies iffparse gathered.                               *)
ToolkitBooks ==
    /\ GadgetBlocksAccounted
    /\ MenusComplete
    /\ ClassesHeld
    /\ CxForest
    /\ ScreenRestored
    /\ ListsLinked
    /\ LibrariesCounted
    /\ IffBlocksAccounted

-----------------------------------------------------------------------------
(* Small values of the constants.                                          *)

CONSTANTS root, c1, c2, o1, o2, x1, x2, x3, boot, s1, s2, n1, n2, n3, file

(* Ranges with and without a divisor of MaxPot, and a longer one; a cycle  *)
(* without labels.                                                         *)
MCNewGadgets ==
    {[kind |-> "button", lo |-> 0, hi |-> 0], [kind |-> "checkbox", lo |-> 0, hi |-> 0],
     [kind |-> "number", lo |-> 0, hi |-> 0], [kind |-> "cycle", lo |-> 0, hi |-> 2],
     [kind |-> "cycle", lo |-> 0, hi |-> 0], [kind |-> "string", lo |-> 0, hi |-> 0],
     [kind |-> "integer", lo |-> 0, hi |-> 0], [kind |-> "slider", lo |-> 1, hi |-> 4],
     [kind |-> "slider", lo |-> -1, hi |-> 1], [kind |-> "slider", lo |-> 0, hi |-> 126],
     [kind |-> "scroller", lo |-> 2, hi |-> 4],
     [kind |-> "scroller", lo |-> 3, hi |-> 2]}

MCTexts == {<<>>, <<1, 2>>, <<1, 2, 3, 4>>, <<1, 2, 3, 4, 5, 6>>}

MCArgs ==
    [button |-> {}, checkbox |-> {0, 1}, number |-> {-12, 7}, cycle |-> {1, 2},
     string |-> {<<>>, <<1, 2>>, <<1, 2, 3, 4>>}, integer |-> {-10, 25}, slider |-> {0, 1, 3, 70}, scroller |-> {0, 1, 2}]

MCNewMenus == UNION {[1..n -> {"title", "item", "sub"}] : n \in 0..5}

MCDescriptions == {<< <<"qual", "ctrl">>, <<"key", 1>>, <<"qual", "alt">> >>,
                   << <<"class", "RAWMOUSE">> >>, << <<"qual", "ctrl">>, <<"none", 0>> >>}

MCPris == {0, 1, 200}

MCNodeName == (n1 :> "dos") @@ (n2 :> NoName) @@ (n3 :> "dos")

T(t, d) == [tag |-> t, data |-> d]
MCTagLists ==
    {<<T("a", 1), T("b", 0), DONE>>,
     <<T("a", 2), T("a", 1), T("c", 3), DONE>>,
     <<T("ignore", 7), T("b", 5), T("skip", 1), T("a", 9), T("more", 7), DONE, T("c", 0), T("b", 0), DONE>>,
     <<T("more", 0), DONE>>, <<DONE>>,
     <<T("c", 3), T("ignore", 0), T("b", 5), T("b", 0), DONE>>}
MCTagMaps == {("a" :> "b") @@ ("b" :> "a"), ("a" :> "ignore"), ("c" :> "a") @@ ("b" :> "d")}

(* With and without what the format leaves out, and one that does not fit. *)
Plain == [type |-> 4, x |-> 5, y |-> 6, stack |-> 9, tool |-> <<1>>, window |-> NullStr, tts |-> <<>>,
          drawer |-> NoDrawer]
MCIcons ==
    {Plain, [Plain EXCEPT !.tool = NullStr, !.window = <<>>, !.type = 2, !.drawer = <<3, 7>>],
     [Plain EXCEPT !.window = <<1, 2>>, !.tts = << <<1, 61, 2, 124, 1>>, <<1>>, <<2>> >>],
     [Plain EXCEPT !.type = 8, !.tts = << <<1, 2>>, <<1, 61>> >>, !.drawer = <<1, 1>>],
     [Plain EXCEPT !.tool = [i \in 1..18 |-> 1]]}
MCToolKeys == {<<>>, <<1>>, <<2>>, <<1, 2>>}
=============================================================================
