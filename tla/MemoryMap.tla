----------------------------- MODULE MemoryMap -----------------------------
(***************************************************************************)
(* Where an access of the emulated CPU goes, and how the Amiga's           *)
(* expansion.library moves it: AutoConfig of the emulated boards           *)
(* (amiga-autoconf.c), the ranges the platform looks at                    *)
(* (adjust_ranges_amiga), the mapped memory (memory_mapped.c), and the CPU *)
(* core's range tables and translation caches (MusashiRanges).  The Amiga  *)
(* is reset at any time; after a boot another configuration file may be    *)
(* loaded.                                                                 *)
(*                                                                         *)
(* An address has three digits of two bits, top (bits 31-24), mid (23-20)  *)
(* and low (19-16); a board, whatever its size, is one slot long.  Zorro   *)
(* II addresses have no top.  Programs run after the overlay of the ROM    *)
(* was switched off, which Kickstart does before AutoConfig.               *)
(***************************************************************************)
EXTENDS MusashiRanges

CONSTANTS
    Items,          \* the map lines of the configuration, in order: RAM and ROM
    FileAddress,    \* their addresses
    Roms,           \* which of them are ROM
    Zorro2, Zorro3,         \* the Zorro II and Zorro III boards, in order (ac_z2_type, ac_z3_type)
    AC_Z2_BASE, PISCSI_OFFSET,
    Assignments,    \* where expansion.library may put the boards
    Physical,       \* number of physical Zorro boards
    MaxLoads        \* bound: configuration files that are loaded

IoBoards == {"A314", "PISCSI", "PISTORM_DEV"}
Seen(s) == {s[i] : i \in DOMAIN s}
Boards == Seen(Zorro2) \cup Seen(Zorro3)
Ram == Seen(Items) \ Roms
NoBase == 0 - 1

Address == 0 .. 63
Low(a) == a % 4
Mid(a) == ((a \div 4) % 4) * 4
Top(a) == (a \div 16) * 16

ASSUME MapAssumption ==
    /\ Roms \subseteq Seen(Items)
    /\ Items \in Seq(STRING) /\ Zorro2 \in Seq(STRING) /\ Zorro3 \in Seq(STRING)
    /\ Seen(Zorro2) \subseteq Ram \cup IoBoards /\ Seen(Zorro3) \subseteq Ram
    /\ Ram \cap IoBoards = {} /\ "physical" \notin Boards
    /\ \A i, j \in DOMAIN Zorro2 : Zorro2[i] = Zorro2[j] => i = j
    /\ \A i, j \in DOMAIN Zorro3 : Zorro3[i] = Zorro3[j] => i = j
    /\ Seen(Zorro2) \cap Seen(Zorro3) = {}
    /\ FileAddress \in [Seen(Items) -> Address]
    /\ Assignments \subseteq [Boards -> Address \cup {NoBase}]
    /\ \A f \in Assignments :
          /\ \A b \in Boards, c \in Boards : f[b] = f[c] /\ f[b] # NoBase => b = c
          /\ \A b \in Seen(Zorro2) : f[b] # NoBase => Top(f[b]) = 0
          /\ \A b \in Boards, r \in Roms : f[b] # FileAddress[r]
    /\ AC_Z2_BASE \in Address /\ PISCSI_OFFSET \in Address
    /\ Physical \in Nat /\ MaxLoads \in Nat \ {0}

VARIABLES
    load,           \* number of the configuration that is loaded
    base,           \* where the Amiga puts the boards of this configuration
    physical_z2_first,
    map_offset,     \* of the items
    read_ranges, write_ranges,
    fc_read, fc_write,                      \* the translation caches
    ac_base,        \* addresses written for memory boards, by place in their list
    io_base,        \* a314_base, piscsi_base, pistorm_dev_base
    z2_current, z3_current, z2_done, z3_done,
    waiting,        \* ac_waiting_for_physical_pic
    custom, mapped, \* [low, high) of the configuration
    line,           \* of the configuration file that is read next
    amiga,          \* what expansion.library does next
    probed,         \* the board it has read the type of
    unconfigured    \* physical boards that are

config == <<load, base, physical_z2_first>>
ranges == <<read_ranges, write_ranges>>
caches == <<fc_read, fc_write>>
places == <<z2_current, z3_current, z2_done, z3_done>>
limits == <<custom, mapped>>
program == <<line, amiga, probed, unconfigured>>
vars == <<config, map_offset, ranges, caches, ac_base, io_base, places, waiting, limits, program>>

\* The memory of an item; that of an earlier configuration has been freed.
Memory(b) == <<load, b>>
Device(d) == <<0, d>>
Bus == Device("bus")
Nothing == Entry(NoBase, Bus)

Least(s) == IF s = {} THEN 0 ELSE Min(s)
Greatest(s) == IF s = {} THEN 0 ELSE Max(s)

MappedRange_Starts(offsets) ==
    [low  |-> Least({offsets[b] : b \in DOMAIN offsets} \ {0}),
     high |-> Greatest({offsets[b] : b \in DOMAIN offsets})]

\* adjust_ranges_amiga.  Neither the A314 nor the interaction device counts.
MappedRange(offsets) ==
    [low  |-> Least({offsets[b] : b \in DOMAIN offsets} \ {0}),
     high |-> Greatest({offsets[b] + 1 : b \in DOMAIN offsets})]

CustomRange_NoBoard(done, piscsi_base) ==
    LET window == IF (Zorro2 # <<>> \/ Zorro3 # <<>>) /\ ~done THEN {AC_Z2_BASE} ELSE {}
        piscsi == IF "PISCSI" \in Boards THEN {PISCSI_OFFSET} ELSE {}
    IN [low |-> Least(window \cup piscsi), high |-> Greatest({a + 1 : a \in window \cup piscsi})]

CustomRange(done, piscsi_base) ==
    LET window == IF (Zorro2 # <<>> \/ Zorro3 # <<>>) /\ ~done THEN {AC_Z2_BASE} ELSE {}
        piscsi == IF "PISCSI" \in Boards THEN {PISCSI_OFFSET} ELSE {}
        board == IF "PISCSI" \in Boards /\ piscsi_base # 0 THEN {piscsi_base} ELSE {}
    IN [low |-> Least(window \cup piscsi \cup board),
        high |-> Greatest({a + 1 : a \in window \cup piscsi})]

-----------------------------------------------------------------------------
\* Where an access goes.

Within(a, r) == r.low <= a /\ a < r.high

\* The configuration window, and the board whose registers it shows.
Open == ~z2_done \/ ~z3_done
Window(a) == Open /\ a = AC_Z2_BASE
Current == IF z2_done THEN Zorro3[z3_current] ELSE Zorro2[z2_current]

\* custom_read_amiga and custom_write_amiga, which look for the boards in this
\* order, and PiSCSI's fixed address, which comes before.
At(b, a) == b \in Boards /\ a = io_base[b]
Custom(a) ==
    IF a = PISCSI_OFFSET THEN "PISCSI"
    ELSE IF Window(a) THEN IF waiting THEN "bus" ELSE "autoconf"
    ELSE IF At("PISTORM_DEV", a) THEN "PISTORM_DEV"
    ELSE IF At("PISCSI", a) THEN "PISCSI"
    ELSE IF At("A314", a) THEN "A314"
    ELSE "bus"

\* The first item that covers the address (handle_mapped_read and _write).
Covering(a) == {i \in DOMAIN Items : map_offset[Items[i]] = a}

\* platform_read_check and platform_write_check
Platform(a) ==
    IF Within(a, custom) /\ Custom(a) # "bus" THEN Device(Custom(a))
    ELSE IF Within(a, mapped) /\ Covering(a) # {} THEN Memory(Items[Min(Covering(a))])
    ELSE Bus

\* m68ki_read_8_fc, m68ki_write_8_fc and the wider ones
Access(cache, table, a) ==
    IF cache.addr = a THEN cache.data
    ELSE IF Hits(table, a) # {} THEN FirstHit(table, a).data
    ELSE Platform(a)

\* What a read and a write of a byte reach; of the boards the A314 takes no wider
\* writes, which custom_write_amiga leaves to the bus.
Reads(a) == Access(fc_read, read_ranges, a)
Writes(a) == Access(fc_write, write_ranges, a)

\* get_mapped_data_pointer_by_address, used for the Pi's own transfers
Pointer(a) == IF Covering(a) # {} THEN Memory(Items[Min(Covering(a))]) ELSE Bus
-----------------------------------------------------------------------------
\* Loading a configuration, and resets.

Init ==
    /\ load = 1 /\ base \in Assignments /\ physical_z2_first \in BOOLEAN
    /\ map_offset = FileAddress
    /\ read_ranges = <<>> /\ write_ranges = <<>>
    /\ fc_read = Nothing /\ fc_write = Nothing
    /\ ac_base = [i \in DOMAIN Zorro2 \cup DOMAIN Zorro3 |-> 0] /\ io_base = [b \in IoBoards |-> 0]
    /\ z2_current = 1 /\ z3_current = 1 /\ z2_done = FALSE /\ z3_done = FALSE
    /\ waiting = FALSE
    /\ custom = [low |-> 0, high |-> 0] /\ mapped = [low |-> 0, high |-> 0]
    /\ line = 1 /\ amiga = "loading" /\ probed = "none" /\ unconfigured = Physical

\* add_mapping: a ROM is put into the core's table.
AddMapping ==
    /\ amiga = "loading" /\ line \in DOMAIN Items
    /\ read_ranges' = IF Items[line] \in Roms
                         THEN AddRomRange(read_ranges, FileAddress[Items[line]], Memory(Items[line]))
                         ELSE read_ranges
    /\ line' = line + 1
    /\ UNCHANGED <<config, map_offset, write_ranges, caches, ac_base, io_base, places, waiting, limits,
                   amiga, probed, unconfigured>>

Adjust(offsets, done, piscsi_base) ==
    /\ mapped' = MappedRange(offsets)
    /\ custom' = CustomRange(done, piscsi_base)

\* handle_reset_amiga.  The core's tables and caches and the boards' addresses
\* stay; physical boards lose theirs.
ResetAmiga ==
    /\ z2_done' = (Zorro2 = <<>>) /\ z3_done' = (Zorro3 = <<>>)
    /\ z2_current' = 1 /\ z3_current' = 1
    /\ waiting' = FALSE
    /\ Adjust(map_offset, Zorro2 = <<>> /\ Zorro3 = <<>>, io_base["PISCSI"])
    /\ amiga' = "probe" /\ probed' = "none" /\ unconfigured' = Physical
    /\ UNCHANGED <<config, map_offset, ranges, caches, ac_base, io_base, line>>

\* setup_platform_amiga and the first reset
Boot == amiga = "loading" /\ line > Len(Items) /\ ResetAmiga

Reset == amiga # "loading" /\ ResetAmiga

LoadConfig_KeepsRanges ==
    /\ amiga = "booted" /\ load < MaxLoads
    /\ load' = load + 1 /\ base' \in Assignments /\ physical_z2_first' \in BOOLEAN
    /\ map_offset' = FileAddress
    /\ z2_current' = 1 /\ z3_current' = 1
    /\ waiting' = FALSE
    /\ custom' = [low |-> 0, high |-> 0] /\ mapped' = [low |-> 0, high |-> 0]
    /\ line' = 1 /\ amiga' = "loading" /\ probed' = "none"
    /\ UNCHANGED <<ranges, caches, ac_base, io_base, z2_done, z3_done, unconfigured>>

\* The interaction device asks for a configuration: free_config_file with
\* shutdown_platform_amiga, and load_config_file.
LoadConfig ==
    /\ amiga = "booted" /\ load < MaxLoads
    /\ load' = load + 1 /\ base' \in Assignments /\ physical_z2_first' \in BOOLEAN
    /\ map_offset' = FileAddress
    /\ read_ranges' = <<>> /\ write_ranges' = <<>>
    /\ z2_current' = 1 /\ z3_current' = 1
    /\ waiting' = FALSE
    /\ custom' = [low |-> 0, high |-> 0] /\ mapped' = [low |-> 0, high |-> 0]
    /\ line' = 1 /\ amiga' = "loading" /\ probed' = "none"
    /\ UNCHANGED <<caches, ac_base, io_base, z2_done, z3_done, unconfigured>>

-----------------------------------------------------------------------------
\* AutoConfig: expansion.library reads a board's type, then writes its address
\* in parts, or tells it to shut up, and starts over.

Reachable == Open /\ Within(AC_Z2_BASE, custom)

\* The board that a write to the window reaches.
Target == IF Reachable /\ ~waiting THEN Current ELSE "physical"

Probe_NeverResumes ==
    /\ amiga = "probe" /\ Reachable
    /\ waiting' = (waiting \/ (physical_z2_first /\ unconfigured > 0))
    /\ probed' = IF physical_z2_first /\ unconfigured > 0 THEN "physical" ELSE Current
    /\ amiga' = "write"
    /\ UNCHANGED <<config, map_offset, ranges, caches, ac_base, io_base, places, limits, line, unconfigured>>

\* autoconfig_read_memory_8, autoconfig_read_memory_z3_8, and the look at the bus before
\* them if physical boards come first.
Probe ==
    /\ amiga = "probe" /\ Reachable
    /\ waiting' = (physical_z2_first /\ unconfigured > 0)
    /\ probed' = IF waiting' THEN "physical" ELSE Current
    /\ amiga' = "write"
    /\ UNCHANGED <<config, map_offset, ranges, caches, ac_base, io_base, places, limits, line, unconfigured>>

\* The window is closed: the type is that of a physical board, if one is left.
ProbeBus ==
    /\ amiga = "probe" /\ ~Reachable
    /\ IF unconfigured > 0
          THEN amiga' = "write" /\ probed' = "physical"
          ELSE amiga' = "booted" /\ probed' = "none"
    /\ UNCHANGED <<config, map_offset, ranges, caches, ac_base, io_base, places, waiting, limits, line, unconfigured>>

WritePhysical ==
    /\ amiga = "write" /\ Target = "physical"
    /\ unconfigured' = Max({unconfigured - 1, 0})
    /\ amiga' = "probe"
    /\ UNCHANGED <<config, map_offset, ranges, caches, ac_base, io_base, places, waiting, limits, line, probed>>

\* Memory board b is mapped at address a.
MapRam(b, a) ==
    LET r == AddRamRange(read_ranges, write_ranges, a, Memory(b))
    IN /\ map_offset' = [map_offset EXCEPT ![b] = a]
       /\ read_ranges' = r.read /\ write_ranges' = r.write

\* Told of its last part, or to shut up, a Zorro II board gets address a.
FinishZ2(a) ==
    LET b == Zorro2[z2_current]
    IN /\ IF b \in Ram
             THEN MapRam(b, a) /\ ac_base' = [ac_base EXCEPT ![z2_current] = a] /\ UNCHANGED io_base
             ELSE io_base' = [io_base EXCEPT ![b] = a] /\ UNCHANGED <<map_offset, ranges, ac_base>>
       /\ z2_current' = z2_current + 1
       /\ z2_done' = (z2_current = Len(Zorro2))
       /\ IF z2_done' THEN Adjust(map_offset', z3_done, io_base'["PISCSI"]) ELSE UNCHANGED limits
       /\ amiga' = "probe"
       /\ UNCHANGED <<config, caches, z3_current, z3_done, waiting, line, probed, unconfigured>>

FinishZ3(a) ==
    /\ MapRam(Zorro3[z3_current], a)
    /\ ac_base' = [ac_base EXCEPT ![z3_current] = a]
    /\ z3_current' = z3_current + 1
    /\ z3_done' = (z3_current = Len(Zorro3))
    /\ IF z3_done' THEN Adjust(map_offset', z2_done, io_base["PISCSI"]) ELSE UNCHANGED limits
    /\ amiga' = "probe"
    /\ UNCHANGED <<config, io_base, caches, z2_current, z2_done, waiting, line, probed, unconfigured>>

\* What has been written of the address so far; that of an earlier boot, of an
\* earlier configuration or of the other list's board, if nothing has.
Z2Base == IF Current \in Ram THEN ac_base[z2_current] ELSE io_base[Current]
Z3Base == ac_base[z3_current]

Writing(step) == amiga = step /\ Target # "physical" /\ base[probed] # NoBase

\* Register 0x4a, with bits 19-16; the others are cleared.
Z2Low ==
    /\ Writing("write") /\ ~z2_done
    /\ IF Current \in Ram
          THEN ac_base' = [ac_base EXCEPT ![z2_current] = Low(base[probed])] /\ UNCHANGED io_base
          ELSE io_base' = [io_base EXCEPT ![Current] = Low(base[probed])] /\ UNCHANGED ac_base
    /\ amiga' = "finish"
    /\ UNCHANGED <<config, map_offset, ranges, caches, places, waiting, limits, line, probed, unconfigured>>

\* Register 0x48, with bits 23-20.
Z2High ==
    /\ Writing("finish") /\ ~z2_done
    /\ FinishZ2(Z2Base - Mid(Z2Base) + Mid(base[probed]))

\* Register 0x48 of a Zorro III board, with bits 23-16.
Z3Low ==
    /\ Writing("write") /\ z2_done
    /\ ac_base' = [ac_base EXCEPT ![z3_current] = Top(Z3Base) + Mid(base[probed]) + Low(base[probed])]
    /\ amiga' = "finish"
    /\ UNCHANGED <<config, map_offset, ranges, caches, io_base, places, waiting, limits, line, probed, unconfigured>>

\* Register 0x44, with bits 31-24.
Z3High ==
    /\ Writing("finish") /\ z2_done
    /\ FinishZ3(Mid(Z3Base) + Low(Z3Base) + Top(base[probed]))

\* Register 0x44, written as a word.
Z3Word ==
    /\ Writing("write") /\ z2_done
    /\ FinishZ3(base[probed])

\* Register 0x4c: there is no room for the board.
ShutUp ==
    /\ amiga = "write" /\ Target # "physical" /\ base[probed] = NoBase
    /\ IF z2_done THEN FinishZ3(Z3Base) ELSE FinishZ2(Z2Base)

-----------------------------------------------------------------------------
\* The CPU's accesses, as far as they change its caches.

CpuRead(a) ==
    /\ amiga # "loading" /\ fc_read.addr # a
    /\ Hits(read_ranges, a) # {}
    /\ fc_read' = FirstHit(read_ranges, a)
    /\ UNCHANGED <<config, map_offset, ranges, fc_write, ac_base, io_base, places, waiting, limits, program>>

CpuWrite(a) ==
    /\ amiga # "loading" /\ fc_write.addr # a
    /\ Hits(write_ranges, a) # {}
    /\ fc_write' = FirstHit(write_ranges, a)
    /\ UNCHANGED <<config, map_offset, ranges, fc_read, ac_base, io_base, places, waiting, limits, program>>

-----------------------------------------------------------------------------
AutoConfig == Probe \/ ProbeBus \/ WritePhysical \/ Z2Low \/ Z2High \/ Z3Low \/ Z3High \/ Z3Word \/ ShutUp

Starting == AddMapping \/ Boot \/ AutoConfig

Next == \/ Starting \/ Reset \/ LoadConfig
        \/ \E i \in DOMAIN read_ranges : CpuRead(read_ranges[i].addr)
        \/ \E i \in DOMAIN write_ranges : CpuWrite(write_ranges[i].addr)

Spec == Init /\ [][Next]_vars

\* The emulator loads what it was asked for, and Kickstart goes on.
FairSpec == Spec /\ WF_vars(Starting)

-----------------------------------------------------------------------------
\* What may be in the tables and the caches.
Entries == [addr : Address \cup {NoBase},
            data : (0 .. MaxLoads) \X (Boards \cup Seen(Items) \cup {"bus"})]

\* Every variable has its type.
TypeOK ==
    /\ load \in 1 .. MaxLoads /\ base \in Assignments /\ physical_z2_first \in BOOLEAN
    /\ map_offset \in [Seen(Items) -> Address]
    /\ read_ranges \in Seq(Entries) /\ write_ranges \in Seq(Entries)
    /\ Len(read_ranges) <= MaxRanges /\ Len(write_ranges) <= MaxRanges
    /\ fc_read \in Entries /\ fc_write \in Entries
    /\ ac_base \in [DOMAIN Zorro2 \cup DOMAIN Zorro3 -> Address] /\ io_base \in [IoBoards -> Address]
    /\ z2_current \in 1 .. Len(Zorro2) + 1 /\ z3_current \in 1 .. Len(Zorro3) + 1
    /\ z2_done \in BOOLEAN /\ z3_done \in BOOLEAN /\ waiting \in BOOLEAN
    /\ custom \in [low : Nat, high : Nat] /\ mapped \in [low : Nat, high : Nat]
    /\ line \in 1 .. Len(Items) + 1 /\ unconfigured \in 0 .. Physical
    /\ amiga \in {"loading", "probe", "write", "finish", "booted"}
    /\ probed \in Boards \cup {"none", "physical"}

\* The boards that were given an address since the last reset.
Configured ==
    {b \in Boards : /\ amiga # "loading" /\ base[b] # NoBase
                    /\ \/ \E i \in DOMAIN Zorro2 : i < z2_current /\ Zorro2[i] = b
                       \/ \E i \in DOMAIN Zorro3 : i < z3_current /\ Zorro3[i] = b}

\* Is there memory in the cache that LoadConfig has freed?
Stale(cache) == cache.addr # NoBase /\ cache.data[1] # load
Fresh == ~Stale(fc_read) /\ ~Stale(fc_write)

\* A memory board is one memory: once it is configured, the CPU's reads and
\* writes and the Pi's transfers all reach it at the address it was given, through
\* three look-ups that are filled at different times: caches and tables
\* that earlier boots left, and the map, also when a reset cut a boot short.
\* Not all may do so while a board that did not fit into a table waits for
\* the ranges to be adjusted, at the end of its list, and while a cache holds
\* freed memory.
ConfiguredRamWorks ==
    \A b \in Configured \cap Ram :
        /\ Pointer(base[b]) = Memory(b)
        /\ Fresh /\ (Len(read_ranges) < MaxRanges \/ ~Open)
              => Reads(base[b]) = Memory(b) /\ Writes(base[b]) = Memory(b)

\* A look-up at the address of a configured memory board finds that board's
\* memory in the core's tables, or nothing.
RangesOfTheirOwn ==
    \A b \in Configured \cap Ram : \A t \in {read_ranges, write_ranges} :
        \A i \in Hits(t, base[b]) : t[i].data = Memory(b)

\* A booted Amiga reaches every board's registers at the address it gave the
\* board, whatever comes before it: memory, other boards, the limits of the
\* platform's range.
IoBoardsReached ==
    amiga = "booted" /\ Fresh =>
        \A b \in Configured \cap IoBoards :
            Reads(base[b]) = Device(b) /\ Writes(base[b]) = Device(b)

\* An address is written to the board whose type was read, though virtual and
\* physical boards answer at the same window, one after the other.
WritesReachProbedBoard == amiga \in {"write", "finish"} => Target = probed

\* Once nobody resets the Amiga or loads a configuration any more, its boot ends, the
\* first as any later one, with what earlier boots left behind: the window is
\* closed once every board is configured, and the next one shows in it before.
BootEnds == <>[][~(Reset \/ LoadConfig)]_vars => <>[](amiga = "booted")

-----------------------------------------------------------------------------
\* What the addresses have to be for ConfiguredRamWorks and IoBoardsReached to hold of
\* any boards; those of the configurations that are checked are so.

\* Every memory board gets an address.
AllPlaced == \A f \in Assignments : \A b \in Ram \cap Boards : f[b] # NoBase

\* Of two items at one address, b is found: it is before c on the lines of the configuration ...
LineBefore(b, c) ==
    \E i \in DOMAIN Items : Items[i] = b /\ \A j \in DOMAIN Items : Items[j] = c => i < j

\* ... or c has got its address, which is another one, before b.
ListedBefore(c, b) ==
    \E z \in {Zorro2, Zorro3} : \E i, j \in DOMAIN z : i < j /\ z[i] = c /\ z[j] = b

\* Memory is not put at 0, where the mapped range never begins, nor at PiSCSI's fixed address,
\* nor at the address that another item has in the file, if that one would be found.
RamClear ==
    \A f \in Assignments : \A b \in Ram \cap Boards :
        /\ f[b] \notin {0, PISCSI_OFFSET}
        /\ \A c \in Ram \ {b} : f[b] = FileAddress[c] => LineBefore(b, c) \/ ListedBefore(c, b)

\* The order in which the boards' registers are looked for.
LookedAtFirst == {<<"PISTORM_DEV", "PISCSI">>, <<"PISTORM_DEV", "A314">>, <<"PISCSI", "A314">>}

\* A board for which there is no room keeps the address, or the part of an address,
\* that an earlier boot gave it: nothing is there that would be looked for after it.
StraysClear ==
    \A f \in Assignments, g \in Assignments : \A d \in IoBoards \cap Boards, b \in Boards :
        f[d] = NoBase /\ g[d] # NoBase /\ (b \in Ram \/ <<d, b>> \in LookedAtFirst)
            => f[b] \notin {g[d], Low(g[d])}

\* The boards' range begins at PiSCSI's address and ends behind its fixed one.
PiscsiFirst ==
    /\ "PISCSI" \in Boards
    /\ \A f \in Assignments :
          /\ f["PISCSI"] \notin {0, NoBase}
          /\ \A d \in IoBoards \cap Boards :
                f[d] # NoBase => f["PISCSI"] <= f[d] /\ f[d] < PISCSI_OFFSET
=============================================================================
