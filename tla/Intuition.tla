----------------------------- MODULE Intuition ------------------------------
(***************************************************************************)
(* intuition.library over Leargas (croi/intuition_lib/bridge.c): programs  *)
(* open, move, size and close windows, edit gadget chains and menu strips, *)
(* read their ports and run requesters, while the input pump task routes   *)
(* what the user does.  A step is one system call or one turn of the pump; *)
(* the scheduler is cooperative, so nothing is finer.                      *)
(*                                                                         *)
(* Window w belongs to one program, which opens it with NewOf[w] and       *)
(* closes it itself (window_alloc.c:82, the closer is the opener).         *)
(* Memory: CloseWindow frees the window, and a requester frees its own     *)
(* gadgets; freed gadgets leave ui.alloc.  What Leargas does with a        *)
(* pointer to freed memory is undefined: see ActiveGadgetLive below.       *)
(***************************************************************************)
EXTENDS Leargas

CONSTANTS
    NewOf,      \* the NewWindow of each window
    GadgetOf,   \* each gadget as its program fills it in
    PtrBox, PtrInk, \* the pointer image
    Loads,      \* the workloads: the calls made, the windows used, those open
                \* at the start, the displacements of windows and of the mouse
    Requesters  \* the windows that are requesters

VARIABLES
    ui,
    bare,       \* ui as it would be had the pointer no image (workload "screen")
    prev,       \* prev_buttons of the pump: the left button
    pressed,    \* the gadget the held button was pressed on
    home,       \* the window in which the active gadget became so
    held,       \* messages each program has taken and not yet disposed of
    byPump,     \* the last step was the pump's (followed in workload "screen")
    load        \* the workload

vars == <<ui, bare, prev, pressed, home, held, byPump, load>>

Does(call) == call \in Loads[load].calls

Call(F(_)) ==
    /\ ui' = F(ui)
    /\ bare' = IF load = "screen" THEN F(bare) ELSE bare
    /\ byPump' = FALSE
    /\ UNCHANGED <<prev, pressed, load>>

Syscall(F(_)) == Call(F) /\ UNCHANGED <<held, home>>

Open(w) == ui.win[w].open

-----------------------------------------------------------------------------
(* Windows. *)

Croi_OpenWindow_Impl(w, gotPort) ==
    /\ Does("open") /\ ~Open(w) /\ w \notin Requesters
    /\ Syscall(LAMBDA u : Leargas_OpenWindow(u, w, NewOf[w], gotPort))

Croi_CloseWindow_Impl(w) ==
    /\ Does("close") /\ Open(w) /\ w \notin Requesters
    /\ Syscall(LAMBDA u : Leargas_CloseWindow(u, w))

Croi_MoveWindow_Impl(w, d) ==
    /\ Does("move") /\ Open(w)
    /\ Syscall(LAMBDA u : Leargas_MoveWindow(u, w, d[1], d[2]))

Croi_SizeWindow_Impl(w, d) ==
    /\ Does("size") /\ Open(w)
    /\ Syscall(LAMBDA u : Leargas_SizeWindow(u, w, d[1], d[2]))

Croi_WindowToFront_Impl(w) ==
    /\ Does("depth") /\ Open(w)
    /\ Syscall(LAMBDA u : Leargas_WindowToFront(u, w))

Croi_WindowToBack_Impl(w) ==
    /\ Does("depth") /\ Open(w)
    /\ Syscall(LAMBDA u : Leargas_WindowToBack(u, w))

Croi_SetWindowTitles_Impl(w) ==
    /\ Does("titles") /\ Open(w)
    /\ Syscall(LAMBDA u : Leargas_SetWindowTitles(u, w))

Croi_RefreshWindowFrame_Impl(w) ==
    /\ Does("titles") /\ Open(w)
    /\ Syscall(LAMBDA u : Leargas_Window_Render(u, w))

Croi_ModifyIDCMP_Impl(w, classes) ==
    /\ Does("idcmp") /\ Open(w)
    /\ Syscall(LAMBDA u : [u EXCEPT !.win[w].idcmp = classes])

Croi_ReportMouse_Impl(w, flag) ==
    /\ Does("idcmp") /\ Open(w)
    /\ Syscall(LAMBDA u : [u EXCEPT
          !.win[w].idcmp = IF flag THEN @ \cup {"MOUSEMOVE"} ELSE @ \ {"MOUSEMOVE"}])

(* The focus edges are posted here and nowhere else: a click that moves    *)
(* the focus posts neither.                                                *)
Activated(u, w) ==
    LET old == u.act IN
    IF old = w THEN u
    ELSE Leargas_IDCMP_Post(
            Leargas_IDCMP_Post(Leargas_SetActiveWindow(u, w), old, "INACTIVEWINDOW", None),
            w, "ACTIVEWINDOW", None)

Croi_ActivateWindow_Impl(w) ==
    /\ Does("activate") /\ Open(w)
    /\ Syscall(LAMBDA u : Activated(u, w))

-----------------------------------------------------------------------------
(* Gadgets and menus. *)

Croi_AddGadget_Impl(w, g) ==
    /\ Does("gadgets") /\ Open(w) /\ g \in ui.alloc
    /\ \A v \in Windows \ {w} : g \notin GadgetsOf(ui, v)
    /\ Syscall(LAMBDA u : Leargas_Gadget_Render(Leargas_AddGadget(u, w, g), w, g))

Croi_RemoveGadget_Impl(w, g) ==
    /\ Does("gadgets") /\ Open(w) /\ g \in GadgetsOf(ui, w)
    /\ Syscall(LAMBDA u : Leargas_RemoveGadget(u, w, g))

Croi_OnOffGadget_Impl(w, g, off) ==
    /\ Does("ghost") /\ Open(w) /\ g \in GadgetsOf(ui, w)
    /\ Syscall(LAMBDA u : Leargas_Gadget_Render([u EXCEPT !.gad[g].off = off], w, g))

Croi_ActivateGadget_Impl(w, g) ==
    /\ Does("editing") /\ Open(w) /\ g \in GadgetsOf(ui, w)
    /\ Call(LAMBDA u : Leargas_Gadget_Render([u EXCEPT !.actg = g], w, g))
    /\ home' = w /\ UNCHANGED held

Croi_RefreshGList_Impl(w) ==
    /\ Does("titles") /\ Open(w)
    /\ Syscall(LAMBDA u : FoldLeft(LAMBDA v, g : Leargas_Gadget_Render(v, w, g),
                                   u, u.win[w].chain))

Croi_SetMenuStrip_Impl(w, strip) ==
    /\ Does("menus") /\ Open(w)
    /\ Syscall(LAMBDA u : Leargas_SetMenuStrip(u, w, strip))

Croi_ClearMenuStrip_Impl(w) ==
    /\ Does("menus") /\ Open(w)
    /\ Syscall(LAMBDA u : Leargas_ClearMenuStrip(u, w))

-----------------------------------------------------------------------------
(* A program reads its port: it takes the oldest message, and disposes of  *)
(* it when it has looked at it.                                            *)

TakeMsg(w) ==
    /\ Does("read") /\ w \notin Requesters /\ ui.win[w].port # <<>> /\ held[w] = 0
    /\ held' = [held EXCEPT ![w] = 1] /\ UNCHANGED home
    /\ Call(LAMBDA u : Leargas_IDCMP_GetMsg(u, w))

ReplyMsg(w) ==
    /\ held[w] = 1
    /\ held' = [held EXCEPT ![w] = 0] /\ UNCHANGED home
    /\ Call(LAMBDA u : Leargas_IDCMP_DisposeMsg(u))

-----------------------------------------------------------------------------
(* AutoRequest and EasyRequestArgs: build a window with its own gadgets,   *)
(* wait for a GADGETUP, free the gadgets, close the window.  There may be  *)
(* no memory for some of the gadgets, and no port.                         *)

Croi_Requester_Build(w, got, gotPort) ==
    LET made == SelectSeq(NewOf[w].chain, LAMBDA g : g \in got) IN
    /\ Does("request") /\ w \in Requesters /\ ~Open(w)
    /\ Syscall(LAMBDA u :
          FoldLeft(LAMBDA v, g : Leargas_Gadget_Render(Leargas_AddGadget(v, w, g), w, g),
                   [Leargas_OpenWindow(u, w, [NewOf[w] EXCEPT !.chain = <<>>], gotPort)
                        EXCEPT !.alloc = @ \cup got], made))

(* The wait takes every message; the last GADGETUP decides.  Without a     *)
(* port to wait on the requester is gone at once.                          *)
Croi_Requester_Wait(w) ==
    LET answered == \E i \in DOMAIN ui.win[w].port : ui.win[w].port[i].class = "GADGETUP"
        Drained(u) == [u EXCEPT !.live = @ - Len(u.win[w].port), !.win[w].port = <<>>]
        Freed(u) == [u EXCEPT !.alloc = @ \ GadgetsOf(u, w), !.win[w].chain = <<>>] IN
    /\ w \in Requesters /\ Open(w) /\ (ui.win[w].hasPort => ui.win[w].port # <<>>)
    /\ Syscall(LAMBDA u : IF answered \/ ~u.win[w].hasPort
                          THEN Leargas_CloseWindow(Freed(Drained(u)), w)
                          ELSE Drained(u))

-----------------------------------------------------------------------------
(* The input pump: one turn, with one keyboard and one mouse attached.     *)

Turn(events, left) ==
    /\ ui' = Leargas_Input_Drain(ui, events)
    /\ bare' = IF load = "screen" THEN Leargas_Input_Drain(bare, events) ELSE bare
    /\ prev' = left
    /\ pressed' = IF left = prev THEN pressed
                  ELSE IF ~left THEN None
                  ELSE IF ui'.actg # None /\ ui'.gad[ui'.actg].sel THEN ui'.actg ELSE None
    /\ home' = IF left /\ ~prev /\ pressed' # None THEN ui'.act
               ELSE IF ui'.actg = None THEN None ELSE home
    /\ byPump' = (load = "screen")
    /\ UNCHANGED <<held, load>>

PumpKey(key) ==
    /\ Does("keys")
    /\ Turn(KeyboardEvents(key), prev)

PumpMouse(report) ==
    /\ Does("mouse")
    /\ MouseEvents(prev, report) # <<>>
    /\ Turn(MouseEvents(prev, report), report.left)

(* The pump never posts the menu button; the kernel's tests do, straight   *)
(* into the ring.                                                          *)
MenuButton(code) ==
    /\ Does("menu button")
    /\ Turn(<<Mouse(code, 0, 0)>>, prev)

-----------------------------------------------------------------------------
(* The boot screen: no window, the pointer shown at the top left.          *)
UiInit(pixels, box, ink) ==
    LET blank == [p \in pixels |-> Background] IN
    DrawPointer(
        [front |-> <<>>, win |-> [w \in Windows |-> FreedWindow],
         gad |-> GadgetOf, act |-> None, actg |-> None, menu |-> None,
         mouse |-> <<0, 0>>, fb |-> blank, live |-> 0,
         alloc |-> Gadgets \ UNION {ToSet(NewOf[w].chain) : w \in Requesters},
         ptr |-> [at |-> <<0, 0>>, shown |-> FALSE, box |-> box, ink |-> ink,
                  save |-> [o \in box |-> Background]]], <<0, 0>>)

Opened(u) ==
    FoldLeft(LAMBDA v, w : Leargas_OpenWindow(v, w, NewOf[w], TRUE), u, Loads[load].start)

Init ==
    /\ load \in DOMAIN Loads
    /\ LET pixels == IF load = "screen" THEN (0..ScreenW-1) \X (0..ScreenH-1) ELSE {} IN
       /\ ui = Leargas_Pointer_Show(
                  Opened(Leargas_Pointer_Hide(UiInit(pixels, PtrBox, PtrInk))))
       /\ bare = Opened(UiInit(pixels, {}, {}))
    /\ prev = FALSE /\ pressed = None /\ home = None /\ byPump = FALSE
    /\ held = [w \in Windows |-> 0]

Programs ==
    \E w \in Loads[load].windows :
        \/ \E gotPort \in BOOLEAN : Croi_OpenWindow_Impl(w, gotPort)
        \/ Croi_CloseWindow_Impl(w)
        \/ \E d \in Loads[load].shifts : Croi_MoveWindow_Impl(w, d) \/ Croi_SizeWindow_Impl(w, d)
        \/ Croi_WindowToFront_Impl(w)
        \/ Croi_WindowToBack_Impl(w)
        \/ Croi_SetWindowTitles_Impl(w)
        \/ Croi_RefreshWindowFrame_Impl(w)
        \/ Croi_RefreshGList_Impl(w)
        \/ \E classes \in {{}, {"RAWKEY"}} : Croi_ModifyIDCMP_Impl(w, classes)
        \/ \E flag \in BOOLEAN : Croi_ReportMouse_Impl(w, flag)
        \/ Croi_ActivateWindow_Impl(w)
        \/ \E g \in Gadgets :
              \/ Croi_AddGadget_Impl(w, g)
              \/ Croi_RemoveGadget_Impl(w, g)
              \/ \E off \in BOOLEAN : Croi_OnOffGadget_Impl(w, g, off)
              \/ Croi_ActivateGadget_Impl(w, g)
        \/ \E strip \in Menus : Croi_SetMenuStrip_Impl(w, strip)
        \/ Croi_ClearMenuStrip_Impl(w)
        \/ TakeMsg(w)
        \/ ReplyMsg(w)
        \/ \E got \in SUBSET ToSet(NewOf[w].chain), gotPort \in BOOLEAN :
              Croi_Requester_Build(w, got, gotPort)
        \/ Croi_Requester_Wait(w)

User ==
    \/ \E key \in {"letter", "backspace", "return"} : PumpKey(key)
    \/ \E d \in Loads[load].moves \cup {<<0, 0>>}, left \in BOOLEAN :
          PumpMouse([dx |-> d[1], dy |-> d[2], left |-> left])
    \/ \E code \in {"rbutton", "rbutton up"} : MenuButton(code)

Next == Programs \/ User

Spec == Init /\ [][Next]_vars

-----------------------------------------------------------------------------
(* What must hold. *)

(* The window with the focus is open, it alone has WFLG_WINDOWACTIVE, and  *)
(* the screen's list holds every open window once: OpenWindow, CloseWindow *)
(* depth arrangement and clicks keep the three in step (focus.c:55,        *)
(* window_alloc.c:64, window.c:188).                                       *)
FocusConsistent ==
    /\ {w \in Windows : Open(w) /\ ui.win[w].active} = {ui.act} \ {None}
    /\ ToSet(ui.front) = {w \in Windows : Open(w)}
    /\ Len(ui.front) = Cardinality(ToSet(ui.front))

(* Every IntuiMessage allocated is queued on a port or in the hands of a   *)
(* program: full rings, closed windows and requesters free what they drop  *)
(* (idcmp.c:43, window_alloc.c:84, bridge.c:607).                          *)
MessagesAccounted ==
    ui.live = SumFunction([w \in Windows |-> Len(ui.win[w].port) + held[w]])

(* The window system's books agree after every call and event: the two    *)
(* above, and the content bitmap lies where the window lies                *)
(* (window.c:227-270).                                                     *)
WindowsConsistent ==
    /\ FocusConsistent
    /\ MessagesAccounted
    /\ \A w \in Windows : Open(w) => setup_rport(ui, w) = ui

NewMessages(w) ==
    IF Len(ui'.win[w].port) > Len(ui.win[w].port)
    THEN ToSet(SubSeq(ui'.win[w].port, Len(ui.win[w].port) + 1, Len(ui'.win[w].port)))
    ELSE {}

(* A click reaches a program only if its window is the front-most one at   *)
(* the pointer, with the window-relative place of the click, and only if   *)
(* neither the close box nor a gadget is there (router.c:120-159).         *)
ClickEarned(w, m) ==
    /\ Inside(m.at, [ui'.win[w] EXCEPT !.x = 0, !.y = 0])
    /\ Relative(ui', w, ui'.ptr.at) = m.at
    /\ ~Leargas_Window_CloseHitTest(ui', w, m.at)
    /\ Leargas_Gadget_HitTest(ui', w, m.at) = None
    /\ \A i, j \in DOMAIN ui'.front :
          ui'.front[i] = w /\ Inside(ui'.mouse, ui'.win[ui'.front[j]]) => i <= j

(* GADGETUP is the active gadget's: a proportional one's when the button   *)
(* that was pressed on it is released (router.c:179-182), a boolean one's  *)
(* when that happens over it (183-189), a string's on Return, which it     *)
(* gives up the focus with (string_gadget.c:213-229).  A boolean gadget    *)
(* reports to the window it is on.  The others report to the window with   *)
(* the focus, which is the one they are on unless the focus has gone to    *)
(* another window since the gadget became active, or it was taken off.     *)
GadgetUpEarned(w, m) ==
    LET g == m.code
        kind == ui.gad[g].kind IN
    /\ ui.actg = g
    /\ kind = "string" => ui'.actg = None /\ prev' = prev
    /\ kind # "string" => pressed = g /\ ~prev'
    /\ kind = "bool" => g \in GadgetsOf(ui, w) /\ Inside(m.at, ui.gad[g].box)
    /\ \A v \in Windows : g \in GadgetsOf(ui, v) /\ home = ui.act => v = w

(* A menu pick names an enabled item under the pointer of the strip the    *)
(* window has, through the same numbers ItemAddress decodes (menu.c:102,   *)
(* 203).                                                                   *)
PickEarned(w, m) ==
    LET strip == ui.win[w].strip
        item == Leargas_ItemAddress(strip, m.code) IN
    /\ item # None
    /\ strip[item[1]][item[2]].enabled
    /\ Inside(ui'.mouse, Leargas_Menu_Layout(strip)[item[1]][item[2]])

(* A message that arrives at a program's port was earned by what the user  *)
(* did, where the user did it: clicks, gadgets used and menu picks, in     *)
(* whatever way windows were opened, moved, restacked and closed meanwhile *)
(* (while the window in menu mode is open, see MenuWindowOpen, and no      *)
(* gadget has kept the pressed look, see PressedLook).                     *)
MessagesEarned ==
    [][\A w \in Windows : \A m \in NewMessages(w) :
          /\ m.class = "MOUSEBUTTONS" => ClickEarned(w, m)
          /\ m.class = "GADGETUP" => GadgetUpEarned(w, m)
          /\ m.class = "MENUPICK" /\ m.code # None => PickEarned(w, m)]_vars

(* The pixels that differ from a screen that never had a pointer, once the *)
(* pointer is lifted.                                                      *)
Damage ==
    LET lifted == Leargas_Pointer_Hide(ui).fb IN
    {p \in DOMAIN lifted : lifted[p] # bare.fb[p]}

(* The router never damages a pixel, and a program that draws while the    *)
(* pointer is shown damages none but those the pointer covers              *)
(* (router.c:118, pointer.c:103-115).                                      *)
PointerDamage ==
    [][Damage' \subseteq Damage \cup (IF byPump' THEN {} ELSE PointerCells(ui))]_vars

(* The gadget with the input focus is one that still exists (leargas.h:514 *)
(* "The gadget currently holding input focus (the last one pressed), or    *)
(* nullptr").                                                              *)
ActiveGadgetLive == ui.actg # None => ui.actg \in ui.alloc

(* The window in menu mode is open.                                        *)
MenuWindowOpen == ui.menu # None => Open(ui.menu)

(* While no button is held no gadget looks pressed.                        *)
PressedLook ==
    \A g \in Gadgets : ui.gad[g].sel => prev /\ ui.actg = g

=============================================================================
