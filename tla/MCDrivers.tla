----------------------------- MODULE MCDrivers ------------------------------
(***************************************************************************)
(* The drivers and the bring-up of the root volume on small instances.       *)
(* Nothing couples them but the order in which entry.c starts them, so a      *)
(* behaviour belongs to one of them (load) and the others stand still.        *)
(***************************************************************************)
EXTENDS NvmeDriver, VolumeBoot, XhciDriver

CONSTANT Loads

VARIABLE load

allVars == <<load, nvmeVars, bootVars, xhciVars>>

(* Controllers: one in order, one without the NVM command set, one without a  *)
(* namespace, one with blocks of another size.                                *)
MCControllers ==
  {[nvm |-> TRUE, namespaces |-> 1, blocks |-> TRUE], [nvm |-> FALSE, namespaces |-> 1, blocks |-> TRUE],
   [nvm |-> TRUE, namespaces |-> 0, blocks |-> TRUE], [nvm |-> TRUE, namespaces |-> 1, blocks |-> FALSE]}

(* Transfers of one and of two chunks, one past the end, a flush. *)
T(op, lba, n, buf) == [op |-> op, lba |-> lba, n |-> n, buf |-> buf]
MCTransfers ==
  {T("read", 0, 3, << >>), T("read", 2, 2, << >>), T("write", 0, 3, <<7, 8, 9>>), T("write", 2, 1, <<6>>),
   T("read", 1, 0, << >>), T("flush", 0, 0, << >>)}

MCDisks == {Blank, Foreign}

(* Devices: a keyboard with two mice, the second of which finds no place; a    *)
(* mouse behind a short interface, with a short endpoint; one with an endpoint  *)
(* number that cannot be and a tree that breaks off; one whose configuration    *)
(* is too short to have a value; one                                            *)
(* without a configuration.                                                    *)
D(t, num, class) == [t |-> t, num |-> num, class |-> class, long |-> TRUE]
Short(d) == [d EXCEPT !.long = FALSE]
Combo ==
  <<D("config", 1, ""), D("interface", 0, "kbd"), D("hid", 0, ""), D("endpoint", 2, "int-in"),
    D("interface", 1, "mouse"), D("endpoint", 1, "int-in"), D("interface", 2, "mouse"), D("endpoint", 3, "int-in")>>
Mouse ==
  <<D("config", 1, ""), D("interface", 0, "store"), D("endpoint", 1, "bulk"),
    Short(D("interface", 1, "kbd")), D("endpoint", 2, "int-in"), D("interface", 1, "mouse"),
    Short(D("endpoint", 2, "int-in")), D("endpoint", 1, "int-in"), D("endpoint", 3, "int-in"), D("bad", 0, "")>>
Odd ==
  <<D("config", 1, ""), D("interface", 0, "kbd"), D("endpoint", 0, "int-in"), D("bad", 0, ""), D("interface", 0, "mouse")>>
Unset == <<Short(D("config", 1, "")), D("interface", 0, "kbd"), D("endpoint", 1, "int-in")>>
Dev(t) == [there |-> TRUE, tree |-> t]
None == [there |-> FALSE, tree |-> << >>]
MCPlugs == {<<Dev(Combo), None>>, <<Dev(Unset), Dev(Mouse)>>, <<Dev(Odd), Dev(<< >>)>>}

DriversInit ==
  /\ load \in Loads
  /\ NvmeInit /\ BootInit /\ XhciInit
  /\ load # "nvme" => dev.is = CHOOSE c \in Controllers : TRUE
  /\ load # "boot" => disk = Blank /\ boot.cached = FALSE
  /\ load # "xhci" => hw.plug = CHOOSE p \in Plugs : TRUE

NvmeRuns == load = "nvme" /\ NvmeNext /\ UNCHANGED <<load, bootVars, xhciVars>>
BootRuns == load = "boot" /\ BootNext /\ UNCHANGED <<load, nvmeVars, xhciVars>>
XhciRuns == load = "xhci" /\ XhciNext /\ UNCHANGED <<load, nvmeVars, bootVars>>

DriversNext == NvmeRuns \/ BootRuns \/ XhciRuns

DriversSpec ==
  /\ DriversInit /\ [][DriversNext]_allVars
  /\ load = "xhci" => XhciFairness

(* InputFlows of XhciDriver, where it is the driver that runs: a configured     *)
(* endpoint keeps delivering reports across the wraps of its ring.              *)
UsbInputFlows == load = "xhci" => InputFlows
=============================================================================
