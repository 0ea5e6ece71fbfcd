------------------------------- MODULE MCGui --------------------------------
(***************************************************************************)
(* Two overlapping windows and a requester on a 3 x 2 screen.              *)
(***************************************************************************)
EXTENDS Intuition

CONSTANTS w1, w2, rq, str, btn, prp, vrt, ok

MCNew(x, y, w, h, flags, idcmp, chain) ==
    [FreedWindow EXCEPT !.x = x, !.y = y, !.w = w, !.h = h, !.flags = flags,
                        !.idcmp = idcmp, !.chain = chain, !.minW = 2]

MCNewOf ==
    (w1 :> MCNew(0, 0, 2, 2, {"DRAGBAR", "CLOSEGADGET", "ACTIVATE"},
                 {"MOUSEBUTTONS", "CLOSEWINDOW", "GADGETUP", "MENUPICK"}, <<str, btn>>))
    @@ (w2 :> MCNew(1, 0, 2, 2, {"DRAGBAR", "CLOSEGADGET"},
                 {"MOUSEBUTTONS", "RAWKEY", "GADGETUP", "ACTIVEWINDOW", "INACTIVEWINDOW"},
                 <<prp>>))
    @@ (rq :> MCNew(1, 0, 2, 2, {"DRAGBAR", "ACTIVATE"}, {"GADGETUP"}, <<ok>>))

MCGadget(kind, x, y, w) ==
    [kind |-> kind, box |-> [x |-> x, y |-> y, w |-> w, h |-> 1], sel |-> FALSE,
     off |-> FALSE, verify |-> kind = "bool", val |-> 0, vert |-> FALSE]

MCGadgetOf ==
    (str :> MCGadget("string", 0, 1, 1)) @@ (btn :> MCGadget("bool", 1, 1, 1))
    @@ (prp :> MCGadget("prop", 0, 1, 2))
    @@ (vrt :> [MCGadget("prop", 0, 0, 1) EXCEPT !.box.h = 2, !.vert = TRUE])
    @@ (ok :> MCGadget("bool", 0, 1, 1))

Sideways == {<<-1, 0>>, <<1, 0>>}
UpDown == {<<0, 1>>, <<0, -1>>}

(* Two menus whose item boxes overlap in the second column.                *)
MCStrip == << <<[width |-> 3, enabled |-> TRUE], [width |-> 1, enabled |-> FALSE]>>,
              <<[width |-> 2, enabled |-> TRUE]>> >>

MCMenus == {MCStrip, SubSeq(MCStrip, 1, 1)}

MCLoad(calls, windows, start, shifts, moves) ==
    [calls |-> calls, windows |-> windows, start |-> start, shifts |-> shifts,
     moves |-> moves]

Round == {<<1, 0>>, <<-1, 1>>, <<0, -1>>}

MCLoads ==
    [clicks |-> MCLoad({"read", "mouse"}, {w1, w2}, <<w1, w2>>, {}, Round),
     typing |-> MCLoad({"mouse", "keys", "editing"}, {w1, w2}, <<w1, w2>>, {},
                       {<<-1, 1>>, <<1, 0>>}),
     menus |-> MCLoad({"read", "open", "close", "mouse", "menus", "menu button"}, {w1}, <<w1>>,
                      {}, Round),
     windows |-> MCLoad({"open", "close", "move", "size", "depth"}, {w1, w2}, <<w2>>,
                        Sideways, {}),
     depth |-> MCLoad({"move", "depth", "mouse"}, {w2}, <<w1, w2>>, Sideways, {<<1, 0>>}),
     gadgets |-> MCLoad({"gadgets", "mouse"}, {w1}, <<w1>>, {}, {<<1, 0>>, <<-1, 1>>}),
     idcmp |-> MCLoad({"read", "idcmp", "ghost", "activate", "keys", "mouse"}, {w2},
                      <<w2, w1>>, {}, {<<1, 0>>}),
     requests |-> MCLoad({"request", "mouse"}, {w2, rq}, <<w2>>, {}, Round),
     screen |-> MCLoad({"open", "close", "titles", "mouse"}, {w2}, <<w2>>, {},
                       {<<1, 0>>, <<-1, 1>>})]

MCPtrBox == {<<0, 0>>, <<1, 0>>, <<0, 1>>}
MCPtrInk == {<<0, 0>>, <<1, 0>>}

(* Explore no further once Leargas holds a pointer to freed memory, or a   *)
(* gadget keeps the pressed look.  Windows stay near the screen.           *)
Sound == ActiveGadgetLive /\ MenuWindowOpen /\ PressedLook
Near ==
    \A w \in Windows : ui.win[w].open =>
        ui.win[w].x \in -1..1 /\ ui.win[w].w \in 2..3
Bounded == Sound /\ Near
=============================================================================
