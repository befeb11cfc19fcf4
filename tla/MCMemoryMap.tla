---------------------------- MODULE MCMemoryMap ----------------------------
(***************************************************************************)
(* Configurations of MemoryMap for TLC.  Zorro II memory is at 2 and 3,    *)
(* the configuration window at 10, boards follow it, ROM is at 15; Zorro   *)
(* III memory begins at 16, PiSCSI's fixed address is 48.                  *)
(***************************************************************************)
EXTENDS MemoryMap

MCItems == <<"kickstart", "z2ram", "z3ram", "z3more">>
MCFileAddress == [kickstart |-> 15, z2ram |-> 2, z3ram |-> 16, z3more |-> 21]

\* amiga.cfg with PiSCSI before the A314, as its lines are in the file.
MCZ2 == <<"PISCSI", "A314", "z2ram", "PISTORM_DEV">>
MCZ3 == <<"z3ram", "z3more">>

\* amiga.cfg with nothing but the line "setvar a314".
AloneZ2 == <<"A314", "PISTORM_DEV">>

AsAssigned(ram, more1, more2, a314, dev) ==
    [b \in Boards |-> CASE b = "z2ram" -> ram [] b = "z3ram" -> more1 [] b = "z3more" -> more2
                       [] b = "PISCSI" -> 11 [] b = "A314" -> a314 [] b = "PISTORM_DEV" -> dev]

\* Another Kickstart, loaded with another configuration, puts memory elsewhere,
\* and has no room for the A314.
MCAssignments == {AsAssigned(2, 21, 38, 12, 13), AsAssigned(3, 38, 16, NoBase, 12)}

AloneAssignments == {AsAssigned(2, 21, 38, 11, 12)}

\* What the theorems ask of the addresses, but for a configuration without PiSCSI.
ASSUME MCAddresses ==
    AllPlaced /\ RamClear /\ StraysClear /\ ("PISCSI" \in Boards => PiscsiFirst)
=============================================================================
