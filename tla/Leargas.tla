------------------------------ MODULE Leargas -------------------------------
(***************************************************************************)
(* Leargas, the window system (src/src/croi/leargas): windows on a screen, *)
(* focus, gadgets, menus, the sprite-less pointer and the IDCMP messages a *)
(* window's port receives.  The whole of Leargas' process-wide state is    *)
(* one record ui; every call is a function from ui to ui, because the      *)
(* scheduler is cooperative and no call of Leargas yields.                 *)
(*                                                                         *)
(*   ui.front    Screen.FirstWindow..., front-most first                   *)
(*   ui.win      the Window structs; .port is the IDCMP ring (a sequence)  *)
(*   ui.gad      the Gadget structs; a window's .chain holds their order   *)
(*   ui.act      g_active_window       ui.actg  g_active_gadget            *)
(*   ui.menu     g_menu_win            ui.mouse Screen.MouseX/MouseY       *)
(*   ui.fb       the tracked pixels: a function from points to colours     *)
(*   ui.ptr      the pointer: place, save_valid (shown), save buffer, the  *)
(*               box of pixels of its image and its ink (not transparent)  *)
(*   ui.live     IntuiMessages allocated and not yet freed                 *)
(*                                                                         *)
(* A colour says what was painted last.  Fonts, frames, the title text and *)
(* the knob are layout inside a painted box and are left out.              *)
(***************************************************************************)
EXTENDS Integers, Sequences, SequencesExt, FiniteSets, TLC

CONSTANTS
    Windows, Gadgets,   \* the structs programs may allocate
    None,               \* nullptr
    ScreenW, ScreenH,   \* Screen.Width, Screen.Height
    BarH,               \* LEARGAS_WINDOW_DEFAULT_BORDER_TOP
    PortCap,            \* LEARGAS_IDCMP_RING_CAP
    MaxPot              \* MAXPOT

ASSUME ScreenAssumption ==
    /\ {ScreenW, ScreenH, BarH, PortCap, MaxPot} \subseteq Nat \ {0}
    /\ None \notin Windows \cup Gadgets

Inside(p, r) ==
    /\ p[1] >= r.x /\ p[1] < r.x + r.w
    /\ p[2] >= r.y /\ p[2] < r.y + r.h

Clamp(v, lo, hi) == IF v < lo THEN lo ELSE IF v > hi THEN hi ELSE v

Relative(ui, w, p) == <<p[1] - ui.win[w].x, p[2] - ui.win[w].y>>

GadgetsOf(ui, w) == {ui.win[w].chain[i] : i \in DOMAIN ui.win[w].chain}

-----------------------------------------------------------------------------
(* Painting. *)

Background == <<"pen0">>

FillRect(ui, r, colour) ==
    [ui EXCEPT !.fb = [p \in {q \in DOMAIN ui.fb : Inside(q, r)} |-> colour]
                      @@ ui.fb]

GadgetBox(ui, w, g) ==
    [ui.gad[g].box EXCEPT !.x = @ + ui.win[w].x, !.y = @ + ui.win[w].y]

(* Leargas_Gadget_Render: the three kinds paint their own box; the face    *)
(* shows the pressed, ghosted or edited look.                              *)
Leargas_Gadget_Render(ui, w, g) ==
    IF w = None \/ g = None THEN ui
    ELSE FillRect(ui, GadgetBox(ui, w, g),
                  <<g, ui.gad[g].sel, ui.gad[g].off, ui.actg = g, ui.gad[g].val>>)

Leargas_Window_Render(ui, w) ==
    FoldLeft(LAMBDA u, g : Leargas_Gadget_Render(u, w, g),
             FillRect(ui, ui.win[w], <<w, ui.win[w].active>>),
             ui.win[w].chain)

clear_window_region(ui, w) == FillRect(ui, ui.win[w], Background)

(* full_refresh repaints in the order of FirstWindow.                      *)
full_refresh(ui) ==
    FoldLeft(Leargas_Window_Render,
             [ui EXCEPT !.fb = [p \in DOMAIN ui.fb |-> Background]], ui.front)

-----------------------------------------------------------------------------
(* The pointer: the pixels under the image are saved, and blits clip to    *)
(* the framebuffer, so a pixel off the screen is neither saved nor drawn.  *)

ImageAt(ui, at) == [o \in ui.ptr.box |-> <<at[1] + o[1], at[2] + o[2]>>]

PointerCells(ui) ==
    {<<ui.ptr.at[1] + o[1], ui.ptr.at[2] + o[2]>> : o \in ui.ptr.box}

save_underneath(ui, at) ==
    LET image == ImageAt(ui, at)
        on == {o \in ui.ptr.box : image[o] \in DOMAIN ui.fb} IN
    [ui EXCEPT !.ptr.save = [o \in on |-> ui.fb[image[o]]] @@ @]

restore_underneath(ui, at) ==
    LET image == ImageAt(ui, at)
        on == {o \in ui.ptr.box : image[o] \in DOMAIN ui.fb} IN
    [ui EXCEPT !.fb = [p \in {image[o] : o \in on} |->
                          ui.ptr.save[CHOOSE o \in on : image[o] = p]] @@ @]

composite_pointer(ui, at) ==
    LET image == ImageAt(ui, at) IN
    [ui EXCEPT !.fb = [p \in {image[o] : o \in ui.ptr.ink} \cap DOMAIN ui.fb |->
                          <<"pointer">>] @@ @]

DrawPointer(ui, at) ==
    [composite_pointer(save_underneath(ui, at), at)
        EXCEPT !.ptr.at = at, !.ptr.shown = TRUE]

Leargas_Pointer_Hide(ui) ==
    IF ~ui.ptr.shown THEN ui
    ELSE [restore_underneath(ui, ui.ptr.at) EXCEPT !.ptr.shown = FALSE]

Leargas_Pointer_Show(ui) ==
    IF ui.ptr.shown THEN ui ELSE DrawPointer(ui, ui.ptr.at)

(* Mutant: saves the new place before the old one is restored.             *)
MoveSavesFirst(ui, at) ==
    IF at = ui.ptr.at THEN ui
    ELSE LET saved == save_underneath(ui, at)
             lifted == IF ui.ptr.shown THEN restore_underneath(ui, ui.ptr.at) ELSE ui IN
         [composite_pointer([lifted EXCEPT !.ptr.save = saved.ptr.save], at)
             EXCEPT !.ptr.at = at, !.ptr.shown = TRUE]

Leargas_Pointer_Move(ui, at) ==
    IF at = ui.ptr.at THEN ui
    ELSE DrawPointer(IF ui.ptr.shown THEN restore_underneath(ui, ui.ptr.at)
                     ELSE ui, at)

-----------------------------------------------------------------------------
(* IDCMP: the four posters build a message, queue it on the window's port  *)
(* and free it again when the ring is full.                                *)

Leargas_IDCMP_Post(ui, w, class, code) ==
    IF \/ w = None
       \/ ~ui.win[w].hasPort
       \/ class \notin ui.win[w].idcmp
       \/ Len(ui.win[w].port) >= PortCap        \* Croi_PutMsg fails: Croi_Free
    THEN ui
    ELSE [ui EXCEPT
            !.live = @ + 1,
            !.win[w].port = Append(@, [class |-> class, code |-> code,
                                       at |-> Relative(ui, w, ui.mouse)])]

Leargas_IDCMP_RouteKey(ui, w, code) == Leargas_IDCMP_Post(ui, w, "RAWKEY", code)

Leargas_IDCMP_PostMenuPick(ui, w, code) ==
    Leargas_IDCMP_Post(ui, w, "MENUPICK", code)

Leargas_IDCMP_PostMouseButtons(ui, w) ==
    Leargas_IDCMP_Post(ui, w, "MOUSEBUTTONS", None)

Leargas_IDCMP_PostCloseWindow(ui, w) ==
    Leargas_IDCMP_Post(ui, w, "CLOSEWINDOW", None)

Leargas_Gadget_RouteUp(ui, w, g) == Leargas_IDCMP_Post(ui, w, "GADGETUP", g)

Leargas_IDCMP_GetMsg(ui, w) == [ui EXCEPT !.win[w].port = Tail(@)]

Leargas_IDCMP_DisposeMsg(ui) == [ui EXCEPT !.live = @ - 1]

-----------------------------------------------------------------------------
(* Focus and hit tests. *)

(* Mutant: the walk ends at the last window that contains the point.       *)
HitTestBackmost(ui, p) ==
    LET hits == SelectSeq(ui.front, LAMBDA w : Inside(p, ui.win[w])) IN
    IF hits = <<>> THEN None ELSE hits[Len(hits)]

Leargas_Window_HitTest(ui, p) ==
    LET hits == SelectSeq(ui.front, LAMBDA w : Inside(p, ui.win[w])) IN
    IF hits = <<>> THEN None ELSE hits[1]

Leargas_Gadget_HitTest(ui, w, rel) ==
    LET hits == SelectSeq(ui.win[w].chain,
                          LAMBDA g : ~ui.gad[g].off /\ Inside(rel, ui.gad[g].box)) IN
    IF hits = <<>> THEN None ELSE hits[1]

BorderTop(ui, w) ==
    IF "BORDERLESS" \in ui.win[w].flags THEN 0
    ELSE IF "DRAGBAR" \in ui.win[w].flags THEN BarH ELSE 1

Leargas_Window_CloseHitTest(ui, w, rel) ==
    /\ {"DRAGBAR", "CLOSEGADGET"} \subseteq ui.win[w].flags
    /\ Inside(rel, [x |-> ui.win[w].w - BorderTop(ui, w), y |-> 0,
                    w |-> BorderTop(ui, w), h |-> BorderTop(ui, w)])

Leargas_SetActiveWindow(ui, w) ==
    LET old == ui.act
        left == IF old = None THEN [ui EXCEPT !.act = w]
                ELSE Leargas_Window_Render(
                        [ui EXCEPT !.act = w, !.win[old].active = FALSE], old) IN
    IF w = old THEN ui
    ELSE IF w = None THEN left
    ELSE Leargas_Window_Render([left EXCEPT !.win[w].active = TRUE], w)

-----------------------------------------------------------------------------
(* Windows. *)

Leargas_Window_LinkToScreen(ui, w) == [ui EXCEPT !.front = <<w>> \o @]

Leargas_Window_UnlinkFromScreen(ui, w) ==
    [ui EXCEPT !.front = SelectSeq(@, LAMBDA v : v # w)]

Border(ui, w) == IF "BORDERLESS" \in ui.win[w].flags THEN 0 ELSE 1

(* The window's content RPort is a sub-bitmap that caches where on the     *)
(* screen the content box lies.                                            *)
setup_rport(ui, w) ==
    LET r == ui.win[w] IN
    [ui EXCEPT !.win[w].rp =
        [x |-> r.x + Border(ui, w), y |-> r.y + BorderTop(ui, w),
         w |-> Clamp(r.w - 2 * Border(ui, w), 0, r.w),
         h |-> Clamp(r.h - BorderTop(ui, w) - Border(ui, w), 0, r.h)]]

(* The Window filled in from NewWindow nw.                                 *)
Leargas_Window_InitInPlace(ui, w, nw) ==
    setup_rport([ui EXCEPT !.win[w] = [nw EXCEPT !.open = TRUE, !.active = FALSE,
                                                 !.strip = None, !.port = <<>>]], w)

(* gotPort: a signal bit and a port could be had (only asked for when some *)
(* IDCMP class was requested).                                             *)
Leargas_OpenWindow(ui, w, nw, gotPort) ==
    LET made == [Leargas_Window_InitInPlace(ui, w, nw)
                    EXCEPT !.win[w].hasPort = gotPort /\ nw.idcmp # {}]
        shown == Leargas_Window_Render(Leargas_Window_LinkToScreen(made, w), w) IN
    IF nw.w <= 0 \/ nw.h <= 0 THEN ui
    ELSE IF "ACTIVATE" \in nw.flags THEN Leargas_SetActiveWindow(shown, w)
    ELSE shown

(* A window's memory once Croi_Free has it back.                           *)
FreedWindow ==
    [open |-> FALSE, active |-> FALSE, hasPort |-> FALSE, port |-> <<>>,
     idcmp |-> {}, flags |-> {}, chain |-> <<>>, strip |-> None,
     x |-> 0, y |-> 0, w |-> 0, h |-> 0, minW |-> 0, minH |-> 0, maxW |-> 0, maxH |-> 0,
     rp |-> [x |-> 0, y |-> 0, w |-> 0, h |-> 0]]

(* The messages still queued are freed with the port.                      *)
ReleaseWindow(ui, w) ==
    [Leargas_Window_UnlinkFromScreen(clear_window_region(ui, w), w)
        EXCEPT !.live = @ - Len(ui.win[w].port), !.win[w] = FreedWindow]

(* Mutant: the focus is not given up first.                                *)
CloseKeepsFocus(ui, w) == ReleaseWindow(ui, w)

Leargas_CloseWindow(ui, w) ==
    ReleaseWindow(IF ui.act = w THEN Leargas_SetActiveWindow(ui, None) ELSE ui, w)

Leargas_MoveWindow(ui, w, dx, dy) ==
    Leargas_Window_Render(
        setup_rport([clear_window_region(ui, w) EXCEPT !.win[w].x = @ + dx,
                                                       !.win[w].y = @ + dy], w), w)

AtLeastMin(v, min) == IF min # 0 /\ v < min THEN min ELSE v
AtMostMax(v, max) == IF max # 0 /\ v > max THEN max ELSE v
Limited(v, min, max) == Clamp(AtMostMax(AtLeastMin(v, min), max), 1, 65535)

Leargas_SizeWindow(ui, w, dx, dy) ==
    LET r == ui.win[w] IN
    Leargas_Window_Render(
        setup_rport([clear_window_region(ui, w) EXCEPT
                        !.win[w].w = Limited(r.w + dx, r.minW, r.maxW),
                        !.win[w].h = Limited(r.h + dy, r.minH, r.maxH)], w), w)

Leargas_WindowToFront(ui, w) ==
    Leargas_Window_Render(
        Leargas_Window_LinkToScreen(Leargas_Window_UnlinkFromScreen(ui, w), w), w)

Leargas_WindowToBack(ui, w) ==
    Leargas_Window_Render(
        [Leargas_Window_UnlinkFromScreen(ui, w) EXCEPT !.front = Append(@, w)], w)

(* The title text itself is layout; the window is painted again.           *)
Leargas_SetWindowTitles(ui, w) == Leargas_Window_Render(ui, w)

-----------------------------------------------------------------------------
(* Gadget chains. *)

Leargas_AddGadget(ui, w, g) ==
    [ui EXCEPT !.win[w].chain = IF g \in GadgetsOf(ui, w) THEN @ ELSE Append(@, g)]

Leargas_RemoveGadget(ui, w, g) ==
    [ui EXCEPT !.win[w].chain = SelectSeq(@, LAMBDA h : h # g)]

-----------------------------------------------------------------------------
(***************************************************************************)
(* The input side of Leargas: the HID input pump (croi/input_pump.c), the  *)
(* router that drains the input ring (leargas/router.c), string and        *)
(* proportional gadgets and menus.                                         *)
(*                                                                         *)
(* An input event is [class, code, dx, dy].  The pump task posts the       *)
(* events of the reports that have completed and drains the ring before it *)
(* yields, so posting and routing are one step for every other task.       *)
(***************************************************************************)

CONSTANTS
    Menus,      \* the menu strips: each a sequence of menus, a menu a
                \* sequence of items [width, enabled]
    HeaderW,    \* width of a menu header in the bar
    MenuBarH,   \* menu_bar_height()
    MaxChars,   \* StringInfo.MaxChars
    InputCap    \* LEARGAS_INPUT_RING_CAP

Key(code) == [class |-> "RAWKEY", code |-> code, dx |-> 0, dy |-> 0]
Mouse(code, dx, dy) == [class |-> "RAWMOUSE", code |-> code, dx |-> dx, dy |-> dy]

-----------------------------------------------------------------------------
(* Menus. *)

(* Leargas_Menu_Layout: headers side by side, a menu's items below its     *)
(* header, all as wide as the widest of them.                              *)
Leargas_Menu_Layout(strip) ==
    [m \in DOMAIN strip |->
        [i \in DOMAIN strip[m] |->
            [x |-> (m - 1) * (HeaderW + 1), y |-> MenuBarH + (i - 1),
             w |-> CHOOSE n \in {strip[m][j].width : j \in DOMAIN strip[m]} :
                       \A j \in DOMAIN strip[m] : strip[m][j].width <= n,
             h |-> 1]]]

Leargas_SetMenuStrip(ui, w, strip) == [ui EXCEPT !.win[w].strip = strip]

Leargas_ClearMenuStrip(ui, w) == [ui EXCEPT !.win[w].strip = None]

(* Leargas_ItemAddress: menu and item numbers count from zero.             *)
Leargas_ItemAddress(strip, code) ==
    IF \/ code = None
       \/ code[1] + 1 \notin DOMAIN strip
       \/ code[2] + 1 \notin DOMAIN strip[code[1] + 1]
    THEN None
    ELSE <<code[1] + 1, code[2] + 1>>

render_bar(ui, w) ==
    LET layout == Leargas_Menu_Layout(ui.win[w].strip) IN
    FoldLeft(LAMBDA u, boxes : FoldLeft(LAMBDA v, b : FillRect(v, b, <<"menu">>), u, boxes),
             FillRect(ui, [x |-> 0, y |-> 0, w |-> ScreenW, h |-> MenuBarH], <<"menu">>),
             layout)

Leargas_Menu_Begin(ui, w) ==
    IF w = None THEN ui
    ELSE IF ui.win[w].strip = None THEN ui
    ELSE render_bar([ui EXCEPT !.menu = w], w)

(* The pick of Leargas_Menu_End: the last enabled item under the point.    *)
MenuCode(strip, p) ==
    LET layout == Leargas_Menu_Layout(strip)
        hits == {<<m, i>> \in (DOMAIN strip) \X (1..3) :
                    /\ i \in DOMAIN strip[m]
                    /\ strip[m][i].enabled
                    /\ Inside(p, layout[m][i])}
        last == CHOOSE h \in hits : \A k \in hits :
                    k[1] < h[1] \/ (k[1] = h[1] /\ k[2] <= h[2]) IN
    IF hits = {} THEN None ELSE <<last[1] - 1, last[2] - 1>>

Leargas_Menu_End(ui) ==
    IF ui.menu = None THEN ui
    ELSE full_refresh([ui EXCEPT !.menu = None])

-----------------------------------------------------------------------------
(* Proportional and string gadgets; .val is the pot or the text length.    *)

Leargas_Prop_HandleDrag(ui, g, rel) ==
    LET box == ui.gad[g].box
        span == IF ui.gad[g].vert THEN box.h ELSE box.w
        pos == IF ui.gad[g].vert THEN rel[2] - box.y ELSE rel[1] - box.x IN
    IF span <= 1 THEN ui
    ELSE [ui EXCEPT !.gad[g].val = (Clamp(pos, 0, span - 1) * MaxPot) \div (span - 1)]

EditKey(ui, g, code) ==
    [ui EXCEPT !.gad[g].val =
        IF code = "backspace" THEN (IF @ > 0 THEN @ - 1 ELSE @)
        ELSE IF code = "letter" /\ @ < MaxChars - 1 THEN @ + 1 ELSE @]

Leargas_String_Handles(ui) == ui.actg # None /\ ui.gad[ui.actg].kind = "string"

Leargas_String_RouteKey(ui, ev) ==
    LET g == ui.actg
        hidden == Leargas_Pointer_Hide(ui)
        dropped == Leargas_Pointer_Show(
                      Leargas_Gadget_Render([hidden EXCEPT !.actg = None], ui.act, g)) IN
    IF ev.code = "return" THEN Leargas_Gadget_RouteUp(dropped, ui.act, g)
    ELSE IF EditKey(ui, g, ev.code) = ui THEN ui
    ELSE Leargas_Pointer_Show(
            Leargas_Gadget_Render(EditKey(hidden, g, ev.code), ui.act, g))

-----------------------------------------------------------------------------
(* Leargas_Input_Drain, one event at a time. *)

Pointed(ui, ev) ==
    <<Clamp(ui.ptr.at[1] + ev.dx, 0, ScreenW - 1),
      Clamp(ui.ptr.at[2] + ev.dy, 0, ScreenH - 1)>>

PressGadget(ui, w, g, rel) ==
    LET pressed == [ui EXCEPT !.gad[g].sel = TRUE, !.actg = g] IN
    Leargas_Gadget_Render(
        IF ui.gad[g].kind = "prop" THEN Leargas_Prop_HandleDrag(pressed, g, rel)
        ELSE pressed, w, g)

LeftDown(ui, p) ==
    LET hit == Leargas_Window_HitTest(ui, p)
        lifted == Leargas_SetActiveWindow(Leargas_Pointer_Hide(ui), hit)
        rel == Relative(ui, hit, p)
        g == Leargas_Gadget_HitTest(ui, hit, rel) IN
    IF hit = None THEN ui
    ELSE Leargas_Pointer_Show(
            IF Leargas_Window_CloseHitTest(ui, hit, rel)
            THEN Leargas_IDCMP_PostCloseWindow(lifted, hit)
            ELSE IF g # None THEN PressGadget(lifted, hit, g, rel)
            ELSE Leargas_IDCMP_PostMouseButtons(lifted, hit))

LeftUp(ui, p) ==
    LET g == ui.actg
        aw == ui.act
        released == Leargas_Pointer_Show(
                       Leargas_Gadget_Render(
                          [Leargas_Pointer_Hide(ui) EXCEPT !.gad[g].sel = FALSE], aw, g)) IN
    IF g = None THEN ui
    ELSE IF ~ui.gad[g].sel THEN ui
    ELSE IF aw = None THEN released
    ELSE IF \/ ui.gad[g].kind = "prop"
            \/ /\ ui.gad[g].kind = "bool"
               /\ ui.gad[g].verify
               /\ Leargas_Gadget_HitTest(released, aw, Relative(ui, aw, p)) = g
    THEN Leargas_Gadget_RouteUp(released, aw, g)
    ELSE released

RightDown(ui) ==
    Leargas_Pointer_Show(Leargas_Menu_Begin(Leargas_Pointer_Hide(ui), ui.act))

RightUp(ui, p) ==
    LET over == Leargas_Pointer_Show(Leargas_Menu_End(Leargas_Pointer_Hide(ui)))
        strip == ui.win[ui.menu].strip IN
    IF ui.menu = None THEN over
    ELSE Leargas_IDCMP_PostMenuPick(over, ui.menu,
            IF strip = None THEN None ELSE MenuCode(strip, p))

DragProp(ui, p) ==
    LET g == ui.actg
        moved == Leargas_Prop_HandleDrag(ui, g, Relative(ui, ui.act, p)) IN
    IF g = None \/ ui.act = None THEN ui
    ELSE IF ~ui.gad[g].sel \/ ui.gad[g].kind # "prop" THEN ui
    ELSE IF moved.gad[g] = ui.gad[g] THEN ui
    ELSE Leargas_Pointer_Show(Leargas_Gadget_Render(
            [Leargas_Pointer_Hide(ui) EXCEPT !.gad[g] = moved.gad[g]], ui.act, g))

Button(ui, ev, p) ==
    CASE ev.code = "lbutton" -> LeftDown(ui, p)
      [] ev.code = "lbutton up" -> LeftUp(ui, p)
      [] ev.code = "rbutton" -> RightDown(ui)
      [] ev.code = "rbutton up" -> RightUp(ui, p)
      [] ev.code = "nobutton" -> ui

(* The position is mirrored into the screen before anything is posted.     *)
RouteMouse(ui, ev) ==
    LET p == Pointed(ui, ev) IN
    Leargas_Pointer_Move(DragProp(Button([ui EXCEPT !.mouse = p], ev, p), p), p)

Leargas_Input_Route(ui, ev) ==
    IF ev.class = "RAWKEY"
    THEN IF Leargas_String_Handles(ui) THEN Leargas_String_RouteKey(ui, ev)
         ELSE Leargas_IDCMP_RouteKey(ui, ui.act, ev.code)
    ELSE RouteMouse(ui, ev)

(* The ring keeps the first InputCap events posted before the drain.       *)
Leargas_Input_Drain(ui, posted) ==
    FoldLeft(Leargas_Input_Route, ui,
             IF Len(posted) <= InputCap THEN posted ELSE SubSeq(posted, 1, InputCap))

-----------------------------------------------------------------------------
(* The pump: a completed report becomes events.  prev_buttons is one       *)
(* variable for every mouse.                                               *)

KeyboardEvents(key) == IF key = None THEN <<>> ELSE <<Key(key)>>

MouseEvents(prev, report) ==
    (IF report.dx # 0 \/ report.dy # 0
     THEN <<Mouse("nobutton", report.dx, report.dy)>> ELSE <<>>)
    \o (IF report.left /\ ~prev THEN <<Mouse("lbutton", 0, 0)>>
        ELSE IF ~report.left /\ prev THEN <<Mouse("lbutton up", 0, 0)>>
        ELSE <<>>)
=============================================================================
