--------------------------- MODULE MusashiRanges ---------------------------
(***************************************************************************)
(* The CPU core's tables of memory that it accesses by pointer (m68kcpu.c, *)
(* m68kcpu.h): read_addr[], read_data[] and write_addr[], write_data[].    *)
(* A range is one slot long, so that read_upper[] and write_upper[] are    *)
(* left out: memory occupies its first address and no other.               *)
(***************************************************************************)
EXTENDS Integers, Sequences, FiniteSetsExt

CONSTANTS MaxRanges   \* ranges that fit into a table (7 in the code)

ASSUME RangesAssumption == MaxRanges \in Nat

\* A place of a table, or of a translation cache.
Entry(a, d) == [addr |-> a, data |-> d]

\* The places of table t that cover address a; a look-up takes the first.
Hits(t, a) == {i \in DOMAIN t : t[i].addr = a}
FirstHit(t, a) == t[CHOOSE i \in Hits(t, a) : \A j \in Hits(t, a) : i <= j]

\* The place that add_ram_range and add_rom_range adjust.
Same(t, a, d) == {i \in DOMAIN t : t[i].addr = a \/ t[i].data = d}
Adjusted(t, a, d) ==
    [t EXCEPT ![CHOOSE i \in Same(t, a, d) : \A j \in Same(t, a, d) : i <= j] = Entry(a, d)]

Added_OneMore(t, a, d) == IF Len(t) <= MaxRanges THEN Append(t, Entry(a, d)) ELSE t

\* A table that is full stays as it is; only a message says so.
Added(t, a, d) == IF Len(t) < MaxRanges THEN Append(t, Entry(a, d)) ELSE t

\* m68k_add_ram_range: the address or the memory is looked for among the
\* ranges for writing, and only its range for writing is adjusted.
AddRamRange(read, write, a, d) ==
    IF Same(write, a, d) # {}
    THEN [read |-> read, write |-> Adjusted(write, a, d)]
    ELSE [read |-> Added(read, a, d), write |-> Added(write, a, d)]

\* m68k_add_rom_range
AddRomRange(read, a, d) ==
    IF Same(read, a, d) # {} THEN Adjusted(read, a, d) ELSE Added(read, a, d)
=============================================================================
