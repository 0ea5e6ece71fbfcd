-------------------------------- MODULE MCDos --------------------------------
(***************************************************************************)
(* Two processes and a shell on a volume with a file, a command in C and a  *)
(* directory.                                                              *)
(***************************************************************************)
EXTENDS DosCalls

CONSTANTS p1, p2, sh

MCPath(vol, names) == [vol |-> vol, names |-> names]
MCVolumes ==
  {[dirs |-> (1 :> ((1 :> 2) @@ (2 :> 3))) @@ (3 :> (3 :> 4)),
    files |-> (2 :> <<7>>) @@ (4 :> <<9, 7>>)]}

MCScripts ==
  {<<1, NL, 3, NL, 3, 3, NL, NL, 4, NL>>, <<3, BS, BS, 1, 1, 1, 1, 1, NL, 3, NL>>}

MCData == {<<7>>, <<9, 7>>}

MCSeeks == {[off |-> 1, mode |-> "beginning"], [off |-> 0, mode |-> "end"], [off |-> -1, mode |-> "current"]}

MCLoad(calls, procs, shell, paths, blocks) ==
  [calls |-> calls, procs |-> procs, shell |-> shell, paths |-> paths, blocks |-> blocks]

File == MCPath(FALSE, <<1>>)
Drawer == MCPath(TRUE, <<2>>)
Inner == MCPath(TRUE, <<2, 3>>)
Other == MCPath(FALSE, <<4>>)
Here == MCPath(FALSE, << >>)

MCLoads ==
  [names |-> MCLoad({"lock", "cwd", "rename", "power"}, {p1, p2}, {}, {File, Drawer, Inner}, 1),
   trees |-> MCLoad({"delete", "rename", "mkdir", "power"}, {p1}, {}, {File, Drawer, Inner, Here}, 1),
   lists |-> MCLoad({"lock", "list", "delete", "mkdir"}, {p1}, {}, {Other, Here}, 2),
   dups |-> MCLoad({"lock", "dup", "list"}, {p1, p2}, {}, {Drawer, Other}, 2),
   files |-> MCLoad({"open", "file", "delete"}, {p1}, {}, {File, Drawer}, 2),
   shared |-> MCLoad({"open", "file"}, {p1}, {}, {Inner}, 2),
   segs |-> MCLoad({"seg", "delete"}, {p1, p2}, {}, {File, Drawer, Inner}, 2),
   console |-> MCLoad({"console", "type", "inject"}, {p1}, {}, {}, 2),
   shell |-> MCLoad({"type"}, {}, {sh}, {}, 2)]
=============================================================================
