-------------------------- MODULE MemoryMap_proofs --------------------------
(***************************************************************************)
(* Theorems about MemoryMap, for any boards, items, addresses that         *)
(* expansion.library may give them, and size of the core's tables.         *)
(***************************************************************************)
EXTENDS MemoryMap, SequenceTheorems, FiniteSetTheorems, WellFoundedInduction, TLAPS

\* Every set of numbers has a least one: with it, what holds for 0 and for n + 1
\* whenever it holds for n, holds for all.
LEMMA LeastNumber ==
    ASSUME NEW S \in SUBSET Nat, S # {}
    PROVE  \E m \in S : \A k \in S : m <= k
<1> DEFINE T == {0 .. k : k \in S}
<1>1. T \subseteq FiniteSubsetsOf(Nat)
  <2>1. SUFFICES ASSUME NEW k \in S PROVE 0 .. k \in FiniteSubsetsOf(Nat)  OBVIOUS
  <2>2. IsFiniteSet(0 .. k)  BY FS_Interval
  <2> QED  BY <2>2 DEF FiniteSubsetsOf
<1>2. PICK x \in T : \A y \in T : ~(<<y, x>> \in StrictSubsetOrdering(Nat))
  <2>1. IsWellFoundedOn(StrictSubsetOrdering(Nat), FiniteSubsetsOf(Nat))
    BY FS_StrictSubsetOrderingWellFounded
  <2>2. T # {}  OBVIOUS
  <2> HIDE DEF T
  <2> QED  BY <1>1, <2>1, <2>2, WFMin
<1>3. PICK m \in S : x = 0 .. m  OBVIOUS
<1>4. ASSUME NEW k \in S, k < m PROVE FALSE
  <2>1. 0 .. k \in T  OBVIOUS
  <2>2. 0 .. k \subseteq 0 .. m /\ m \in 0 .. m /\ m \notin 0 .. k  BY <1>4
  <2>3. 0 .. k # 0 .. m  BY <2>2
  <2>4. 0 .. k \in SUBSET Nat /\ 0 .. m \in SUBSET Nat  OBVIOUS
  <2>5. <<0 .. k, 0 .. m>> \in StrictSubsetOrdering(Nat)
    BY <2>2, <2>3, <2>4 DEF StrictSubsetOrdering
  <2> QED  BY <1>2, <1>3, <2>1, <2>5
<1> QED  BY <1>4

-----------------------------------------------------------------------------
\* The core's tables (MusashiRanges).

\* What was added to a table or adjusted in it is what the caller gave.
LEMMA AddedType ==
    ASSUME NEW S, NEW t \in Seq(S), NEW a, NEW d, Entry(a, d) \in S
    PROVE  Added(t, a, d) \in Seq(S)
  BY DEF Added

\* The same of an entry whose address is adjusted.
LEMMA AdjustedType ==
    ASSUME NEW S, NEW t \in Seq(S), NEW a, NEW d, Entry(a, d) \in S
    PROVE  Adjusted(t, a, d) \in Seq(S)
<1> DEFINE k == CHOOSE i \in Same(t, a, d) : \A j \in Same(t, a, d) : i <= j
<1>1. [t EXCEPT ![k] = Entry(a, d)] \in Seq(S)
  <2>1. CASE k \in 1 .. Len(t)  BY <2>1, ExceptSeq
  <2>2. CASE k \notin 1 .. Len(t)
    <3>1. [t EXCEPT ![k] = Entry(a, d)] = t  BY <2>2
    <3> QED  BY <3>1
  <2> QED  BY <2>1, <2>2
<1> QED  BY <1>1 DEF Adjusted

\* m68k_add_ram_range gives both tables what the caller gave.
LEMMA AddRamType ==
    ASSUME NEW S, NEW r \in Seq(S), NEW w \in Seq(S), NEW a, NEW d, Entry(a, d) \in S
    PROVE  AddRamRange(r, w, a, d).read \in Seq(S) /\ AddRamRange(r, w, a, d).write \in Seq(S)
  BY AddedType, AdjustedType DEF AddRamRange

\* m68k_add_rom_range gives the read table what the caller gave.
LEMMA AddRomType ==
    ASSUME NEW S, NEW r \in Seq(S), NEW a, NEW d, Entry(a, d) \in S
    PROVE  AddRomRange(r, a, d) \in Seq(S)
  BY AddedType, AdjustedType DEF AddRomRange

-----------------------------------------------------------------------------
\* The parts of an address.

\* A Zorro II address is put together from its low part and its middle.
LEMMA Z2Parts ==
    ASSUME NEW a \in Address, Top(a) = 0
    PROVE  Low(a) - Mid(Low(a)) + Mid(a) = a
  BY DEF Address, Low, Mid, Top

\* A Zorro III address from what the first byte left and from its top.
LEMMA Z3Parts ==
    ASSUME NEW a \in Address
    PROVE  Mid(a) + Low(a) + Top(a) = a
  BY DEF Address, Low, Mid, Top

\* The first byte of a Zorro III address leaves the top of the old one, and
\* puts the other parts in their places.
LEMMA Z3LowParts ==
    ASSUME NEW old \in Address, NEW a \in Address
    PROVE  /\ Mid(Top(old) + Mid(a) + Low(a)) = Mid(a)
           /\ Low(Top(old) + Mid(a) + Low(a)) = Low(a)
           /\ Top(old) + Mid(a) + Low(a) \in Address
  BY DEF Address, Low, Mid, Top

\* What is put together from parts of addresses is an address.
LEMMA PartTypes ==
    ASSUME NEW a \in Address, NEW b \in Address
    PROVE  /\ Low(a) \in Address
           /\ a - Mid(a) + Mid(b) \in Address
           /\ Mid(a) + Low(a) + Top(b) \in Address
  BY DEF Address, Low, Mid, Top

-----------------------------------------------------------------------------
\* The window.

\* No board has been read when the configuration is loaded.
LEMMA ProbedInit == Init => WritesReachProbedBoard
  BY DEF Init, WritesReachProbedBoard

\* What Target looks at, if the window, the places and the program are left alone.
LEMMA TargetSame ==
    ASSUME UNCHANGED <<places, waiting, custom>>
    PROVE  Target' = Target
  BY DEF places, Target, Reachable, Open, Within, Current

\* A board is read and its address written while the same board is in the window.
LEMMA ProbedStep == WritesReachProbedBoard /\ [Next]_vars => WritesReachProbedBoard'
<1> SUFFICES ASSUME WritesReachProbedBoard, [Next]_vars PROVE WritesReachProbedBoard'  OBVIOUS
<1> USE DEF WritesReachProbedBoard
<1>1. ASSUME amiga' \notin {"write", "finish"} PROVE WritesReachProbedBoard'
  BY <1>1
<1>2. ASSUME AddMapping PROVE WritesReachProbedBoard'
  BY <1>2 DEF AddMapping
<1>3. ASSUME Boot \/ Reset PROVE WritesReachProbedBoard'
  BY <1>3 DEF Boot, Reset, ResetAmiga
<1>4. ASSUME Probe PROVE WritesReachProbedBoard'
  <2>1. UNCHANGED <<places, custom>>  BY <1>4 DEF Probe, limits
  <2>2. Reachable' = Reachable /\ Current' = Current
    BY <2>1 DEF places, Reachable, Open, Within, Current
  <2>3. CASE waiting'  BY <1>4, <2>3 DEF Probe, Target
  <2>4. CASE ~waiting'  BY <1>4, <2>2, <2>4 DEF Probe, Target
  <2> QED  BY <2>3, <2>4
<1>5. ASSUME ProbeBus PROVE WritesReachProbedBoard'
  <2>1. Target' = Target  BY <1>5, TargetSame DEF ProbeBus, limits
  <2> QED  BY <1>5, <2>1 DEF ProbeBus, Target
<1>6. ASSUME WritePhysical PROVE WritesReachProbedBoard'
  BY <1>6 DEF WritePhysical
<1>7. ASSUME Z2Low \/ Z3Low PROVE WritesReachProbedBoard'
  <2>1. Target' = Target  BY <1>7, TargetSame DEF Z2Low, Z3Low, limits
  <2> QED  BY <1>7, <2>1 DEF Z2Low, Z3Low, Writing
<1>8. ASSUME Z2High \/ Z3High \/ Z3Word \/ ShutUp PROVE WritesReachProbedBoard'
  BY <1>8 DEF Z2High, Z3High, Z3Word, ShutUp, FinishZ2, FinishZ3
<1>9. ASSUME LoadConfig PROVE WritesReachProbedBoard'
  BY <1>9 DEF LoadConfig
<1>10. ASSUME NEW a, CpuRead(a) \/ CpuWrite(a) PROVE WritesReachProbedBoard'
  <2>1. Target' = Target  BY <1>10, TargetSame DEF CpuRead, CpuWrite, limits
  <2> QED  BY <1>10, <2>1 DEF CpuRead, CpuWrite, program
<1>11. ASSUME UNCHANGED vars PROVE WritesReachProbedBoard'
  <2>1. Target' = Target  BY <1>11, TargetSame DEF vars, limits
  <2> QED  BY <1>11, <2>1 DEF vars, program
<1> QED  BY <1>2, <1>3, <1>4, <1>5, <1>6, <1>7, <1>8, <1>9, <1>10, <1>11
         DEF Next, Starting, AutoConfig

\* Zorro II, Zorro III and physical boards take their turns at the window
\* without an address ever going to another board than the one that was read.
THEOREM BoardsAsProbed == Spec => []WritesReachProbedBoard
<1>1. Init => WritesReachProbedBoard  BY ProbedInit
<1>2. WritesReachProbedBoard /\ [Next]_vars => WritesReachProbedBoard'  BY ProbedStep
<1> QED  BY <1>1, <1>2, PTL DEF Spec

-----------------------------------------------------------------------------
\* The places in the lists of boards.

\* A list that is not done has a current board.
PlacesInv ==
    /\ z2_done \in BOOLEAN /\ z3_done \in BOOLEAN
    /\ z2_current \in Nat \ {0} /\ z3_current \in Nat \ {0}
    /\ amiga # "loading" => /\ ~z2_done => z2_current \in DOMAIN Zorro2
                            /\ ~z3_done => z3_current \in DOMAIN Zorro3

\* A place in a list of boards, and the one behind it, if it was not the last.
LEMMA PlaceInList ==
    ASSUME NEW z \in Seq(STRING), NEW k \in DOMAIN z
    PROVE  /\ Len(z) \in Nat /\ DOMAIN z = 1 .. Len(z)
           /\ k \in Nat \ {0} /\ k + 1 \in 1 .. Len(z) + 1
           /\ k # Len(z) => k + 1 \in DOMAIN z
  OBVIOUS

\* A board that gets its address leaves its place to the next of its list.
LEMMA PlacesZ2 ==
    ASSUME PlacesInv, amiga # "loading", ~z2_done, NEW a, FinishZ2(a)
    PROVE  PlacesInv'
<1>1. z2_current \in DOMAIN Zorro2 /\ z3_current \in Nat \ {0}  BY DEF PlacesInv
<1>2. /\ UNCHANGED <<z3_current, z3_done>>
      /\ z2_current' = z2_current + 1 /\ z2_done' = (z2_current = Len(Zorro2))
  BY DEF FinishZ2
<1>3. z2_done' \in BOOLEAN /\ z2_current' \in Nat \ {0} /\ (~z2_done' => z2_current' \in DOMAIN Zorro2)
  <2>1. Zorro2 \in Seq(STRING)  BY MapAssumption
  <2>2. /\ z2_current + 1 \in 1 .. Len(Zorro2) + 1 /\ Len(Zorro2) \in Nat
        /\ z2_current # Len(Zorro2) => z2_current + 1 \in DOMAIN Zorro2
    BY <1>1, <2>1, PlaceInList
  <2>3. CASE z2_current = Len(Zorro2)
    <3>1. z2_done' = TRUE  BY <1>2, <2>3, Zenon
    <3>2. z2_current' \in Nat \ {0}  BY <1>2, <2>2
    <3> QED  BY <3>1, <3>2
  <2>4. CASE z2_current # Len(Zorro2)  BY <1>2, <2>2, <2>4
  <2> QED  BY <2>3, <2>4
<1>4. amiga' = "probe"  BY DEF FinishZ2
<1> QED  BY <1>1, <1>2, <1>3, <1>4 DEF PlacesInv

\* The same of a Zorro III board.
LEMMA PlacesZ3 ==
    ASSUME PlacesInv, amiga # "loading", ~z3_done, NEW a, FinishZ3(a)
    PROVE  PlacesInv'
<1>1. z3_current \in DOMAIN Zorro3 /\ z2_current \in Nat \ {0}  BY DEF PlacesInv
<1>2. /\ UNCHANGED <<z2_current, z2_done>>
      /\ z3_current' = z3_current + 1 /\ z3_done' = (z3_current = Len(Zorro3))
  BY DEF FinishZ3
<1>3. z3_done' \in BOOLEAN /\ z3_current' \in Nat \ {0} /\ (~z3_done' => z3_current' \in DOMAIN Zorro3)
  <2>1. Zorro3 \in Seq(STRING)  BY MapAssumption
  <2>2. /\ z3_current + 1 \in 1 .. Len(Zorro3) + 1 /\ Len(Zorro3) \in Nat
        /\ z3_current # Len(Zorro3) => z3_current + 1 \in DOMAIN Zorro3
    BY <1>1, <2>1, PlaceInList
  <2>3. CASE z3_current = Len(Zorro3)
    <3>1. z3_done' = TRUE  BY <1>2, <2>3, Zenon
    <3>2. z3_current' \in Nat \ {0}  BY <1>2, <2>2
    <3> QED  BY <3>1, <3>2
  <2>4. CASE z3_current # Len(Zorro3)  BY <1>2, <2>2, <2>4
  <2> QED  BY <2>3, <2>4
<1>4. amiga' = "probe"  BY DEF FinishZ3
<1> QED  BY <1>1, <1>2, <1>3, <1>4 DEF PlacesInv

\* A reset begins both lists again, and is done with the empty ones.
LEMMA PlacesReset ==
    ASSUME ResetAmiga
    PROVE  PlacesInv'
<1>1. Zorro2 \in Seq(STRING) /\ Zorro3 \in Seq(STRING)  BY MapAssumption
<1>2. ASSUME NEW s \in Seq(STRING), s # <<>> PROVE 1 \in DOMAIN s
  <2>1. Len(s) \in Nat /\ DOMAIN s = 1 .. Len(s) /\ Len(s) # 0  BY <1>2, EmptySeq
  <2> QED  BY <2>1
<1>3. z2_current' = 1 /\ z3_current' = 1  BY DEF ResetAmiga
<1>4. z2_done' \in BOOLEAN /\ (~z2_done' => 1 \in DOMAIN Zorro2)
  <2>1. z2_done' = (Zorro2 = <<>>)  BY DEF ResetAmiga
  <2> QED  BY <1>1, <1>2, <2>1
<1>5. z3_done' \in BOOLEAN /\ (~z3_done' => 1 \in DOMAIN Zorro3)
  <2>1. z3_done' = (Zorro3 = <<>>)  BY DEF ResetAmiga
  <2> QED  BY <1>1, <1>2, <2>1
<1> QED  BY <1>3, <1>4, <1>5 DEF PlacesInv

\* The board that was read is the first of its list that has no address.
LEMMA CurrentBoard ==
    ASSUME PlacesInv, WritesReachProbedBoard, base \in Assignments,
           amiga \in {"write", "finish"}, Target # "physical"
    PROVE  /\ probed = Current /\ probed \in Boards
           /\ ~z2_done => /\ z2_current \in DOMAIN Zorro2 /\ probed = Zorro2[z2_current]
                          /\ probed \in Ram \cup IoBoards
                          /\ base[probed] # NoBase => Top(base[probed]) = 0
           /\ z2_done => /\ ~z3_done /\ z3_current \in DOMAIN Zorro3
                         /\ probed = Zorro3[z3_current] /\ probed \in Ram
           /\ base[probed] # NoBase => base[probed] \in Address
<1>1. probed = Current /\ Open
  BY DEF WritesReachProbedBoard, Target, Reachable
<1>2. CASE ~z2_done
  <2>1. z2_current \in DOMAIN Zorro2 /\ probed = Zorro2[z2_current]
    BY <1>1, <1>2 DEF PlacesInv, Current
  <2>2. probed \in Seen(Zorro2)  BY <2>1 DEF Seen
  <2>3. probed \in Ram \cup IoBoards /\ probed \in Boards  BY <2>2, MapAssumption DEF Boards
  <2>4. base \in [Boards -> Address \cup {NoBase}] /\ (base[probed] # NoBase => Top(base[probed]) = 0)
    BY <2>2, MapAssumption
  <2> QED  BY <1>1, <1>2, <2>1, <2>3, <2>4
<1>3. CASE z2_done
  <2>0. ~z3_done /\ amiga # "loading"  BY <1>1, <1>3 DEF Open
  <2>1. z3_current \in DOMAIN Zorro3 /\ probed = Zorro3[z3_current]
    BY <1>1, <1>3, <2>0 DEF PlacesInv, Current
  <2>2. probed \in Seen(Zorro3)  BY <2>1 DEF Seen
  <2>3. probed \in Ram /\ probed \in Boards
    <3>1. Seen(Zorro3) \subseteq Ram  BY MapAssumption
    <3> QED  BY <2>2, <3>1 DEF Boards
  <2>4. base \in [Boards -> Address \cup {NoBase}]  BY MapAssumption
  <2> QED  BY <1>1, <1>3, <2>0, <2>1, <2>3, <2>4
<1> QED  BY <1>2, <1>3

\* No step leaves a list that is not done without a current board.
LEMMA PlacesStep ==
    ASSUME PlacesInv, WritesReachProbedBoard, base \in Assignments, [Next]_vars
    PROVE  PlacesInv'
<1>1. CASE Boot \/ Reset  BY <1>1, PlacesReset DEF Boot, Reset
<1>2. CASE AddMapping \/ LoadConfig
  BY <1>2 DEF AddMapping, LoadConfig, PlacesInv, places
<1>u. ASSUME UNCHANGED places, amiga # "loading" \/ amiga' = amiga PROVE PlacesInv'
  BY <1>u DEF PlacesInv, places
<1>3. CASE Probe \/ ProbeBus \/ WritePhysical
  BY <1>3, <1>u DEF Probe, ProbeBus, WritePhysical
<1>4. CASE Z2Low \/ Z3Low
  BY <1>4, <1>u DEF Z2Low, Z3Low, Writing
<1>5. CASE Z2High
  BY <1>5, PlacesZ2 DEF Z2High, Writing
<1>6. CASE Z3High \/ Z3Word
  <2>1. amiga \in {"write", "finish"} /\ Target # "physical" /\ z2_done
    BY <1>6 DEF Z3High, Z3Word, Writing
  <2>2. ~z3_done  BY <2>1, CurrentBoard
  <2> QED  BY <1>6, <2>1, <2>2, PlacesZ3 DEF Z3High, Z3Word
<1>7. CASE ShutUp
  <2>1. amiga = "write" /\ Target # "physical"  BY <1>7 DEF ShutUp
  <2>2. CASE z2_done
    <3>1. FinishZ3(Z3Base)  BY <1>7, <2>2 DEF ShutUp
    <3> QED  BY <2>1, <2>2, <3>1, CurrentBoard, PlacesZ3
  <2>3. CASE ~z2_done
    <3>1. FinishZ2(Z2Base)  BY <1>7, <2>3 DEF ShutUp
    <3> QED  BY <2>1, <2>3, <3>1, PlacesZ2
  <2> QED  BY <2>2, <2>3
<1>8. CASE \E a : CpuRead(a) \/ CpuWrite(a)
  BY <1>8, <1>u DEF CpuRead, CpuWrite, program
<1>9. CASE UNCHANGED vars
  BY <1>9, <1>u DEF vars, program
<1> QED  BY <1>1, <1>2, <1>3, <1>4, <1>5, <1>6, <1>7, <1>8, <1>9 DEF Next, Starting, AutoConfig

\* Before the first line of the configuration both lists are at their beginning.
LEMMA PlacesInit == Init => PlacesInv
<1> SUFFICES ASSUME Init PROVE PlacesInv  OBVIOUS
<1>1. z2_done \in BOOLEAN /\ z3_done \in BOOLEAN /\ amiga = "loading"  BY DEF Init
<1>2. z2_current \in Nat \ {0} /\ z3_current \in Nat \ {0}  BY DEF Init
<1> QED  BY <1>1, <1>2 DEF PlacesInv

-----------------------------------------------------------------------------
(***************************************************************************)
(* Type correctness.  It needs to know that the list whose turn it is has  *)
(* a current board, and that the board which was read is that one.         *)
(***************************************************************************)

\* The least of a set of numbers, 0 of none.
LEMMA LeastIs ==
    ASSUME NEW S \in SUBSET Nat
    PROVE  /\ Least(S) \in Nat
           /\ \A x \in S : Least(S) <= x
           /\ S # {} => Least(S) \in S
<1>1. CASE S = {}  BY <1>1 DEF Least
<1>2. CASE S # {}
  <2>1. PICK m \in S : \A k \in S : m <= k  BY <1>2, LeastNumber
  <2>2. Min(S) \in S /\ \A k \in S : Min(S) <= k  BY <2>1 DEF Min
  <2> QED  BY <1>2, <2>2 DEF Least
<1> QED  BY <1>1, <1>2

\* The greatest of a set of numbers up to n, 0 of none.
LEMMA GreatestIs ==
    ASSUME NEW n \in Nat, NEW S \in SUBSET (0 .. n)
    PROVE  /\ Greatest(S) \in Nat
           /\ \A x \in S : x <= Greatest(S)
           /\ S # {} => Greatest(S) \in S
<1>1. CASE S = {}  BY <1>1 DEF Greatest
<1>2. CASE S # {}
  <2> DEFINE D == {n - x : x \in S}
  <2>1. D \in SUBSET Nat /\ D # {}
    <3>1. \A x \in S : x \in Int /\ 0 <= x /\ x <= n  OBVIOUS
    <3>2. \A x \in S : n - x \in Nat  BY <3>1
    <3> QED  BY <1>2, <3>2
  <2>2. PICK m \in D : \A k \in D : m <= k
    <3> HIDE DEF D
    <3> QED  BY <2>1, LeastNumber
  <2>3. PICK g \in S : m = n - g  BY <2>2
  <2>4. \A x \in S : n - g <= n - x  BY <2>2, <2>3
  <2>5. \A x \in S : g >= x  BY <2>4
  <2>6. Max(S) \in S /\ \A k \in S : Max(S) >= k
    <3>1. \E x \in S : \A k \in S : x >= k  BY <2>5
    <3> QED  BY <3>1, Zenon DEF Max
  <2>7. \A k \in S : k <= Max(S)  BY <2>6
  <2>8. Greatest(S) = Max(S)  BY <1>2, Zenon DEF Greatest
  <2>9. Max(S) \in Nat
    <3>1. Max(S) \in 0 .. n  BY <2>6
    <3> QED  BY <3>1
  <2> QED  BY <2>6, <2>7, <2>8, <2>9, Zenon
<1> QED  BY <1>1, <1>2

\* The limits of the ranges the platform looks at are numbers.
LEMMA MappedRangeType ==
    ASSUME NEW offsets, DOMAIN offsets = Seen(Items), \A b \in Seen(Items) : offsets[b] \in Address
    PROVE  MappedRange(offsets) \in [low : Nat, high : Nat]
<1> DEFINE L == {offsets[b] : b \in DOMAIN offsets} \ {0}
           H == {offsets[b] + 1 : b \in DOMAIN offsets}
<1>1. L \in SUBSET Nat  BY DEF Address
<1>2. H \in SUBSET (0 .. 64)  BY DEF Address
<1>3. MappedRange(offsets) = [low |-> Least(L), high |-> Greatest(H)]  BY DEF MappedRange
<1> HIDE DEF L, H
<1>4. Least(L) \in Nat /\ Greatest(H) \in Nat  BY <1>1, <1>2, LeastIs, GreatestIs
<1> QED  BY <1>3, <1>4

\* What the limits of the boards' range are taken from.
CustomStarts(done, p) ==
    (IF (Zorro2 # <<>> \/ Zorro3 # <<>>) /\ ~done THEN {AC_Z2_BASE} ELSE {})
    \cup (IF "PISCSI" \in Boards THEN {PISCSI_OFFSET} ELSE {})
    \cup (IF "PISCSI" \in Boards /\ p # 0 THEN {p} ELSE {})

CustomEnds(done) ==
    {a + 1 : a \in (IF (Zorro2 # <<>> \/ Zorro3 # <<>>) /\ ~done THEN {AC_Z2_BASE} ELSE {})
                   \cup (IF "PISCSI" \in Boards THEN {PISCSI_OFFSET} ELSE {})}

\* The boards' range, and that its limits are numbers.
LEMMA CustomRangeIs ==
    ASSUME NEW done, NEW p \in Address
    PROVE  /\ CustomRange(done, p) = [low |-> Least(CustomStarts(done, p)), high |-> Greatest(CustomEnds(done))]
           /\ CustomStarts(done, p) \in SUBSET Nat /\ CustomEnds(done) \in SUBSET (0 .. 64)
           /\ CustomRange(done, p) \in [low : Nat, high : Nat]
<1>1. CustomRange(done, p) = [low |-> Least(CustomStarts(done, p)), high |-> Greatest(CustomEnds(done))]
  BY DEF CustomRange, CustomStarts, CustomEnds
<1>2. AC_Z2_BASE \in Address /\ PISCSI_OFFSET \in Address  BY MapAssumption
<1>3. CustomStarts(done, p) \in SUBSET Nat  BY <1>2 DEF CustomStarts, Address
<1>4. CustomEnds(done) \in SUBSET (0 .. 64)
  <2>1. \A a \in Address : a + 1 \in 0 .. 64  BY DEF Address
  <2>2. \A e \in CustomEnds(done) : e = AC_Z2_BASE + 1 \/ e = PISCSI_OFFSET + 1  BY DEF CustomEnds
  <2> QED  BY <1>2, <2>1, <2>2
<1>5. Least(CustomStarts(done, p)) \in Nat /\ Greatest(CustomEnds(done)) \in Nat
  BY <1>3, <1>4, LeastIs, GreatestIs
<1> QED  BY <1>1, <1>3, <1>4, <1>5

\* A table never gets longer than it is.
LEMMA AddedLength ==
    ASSUME NEW S, NEW t \in Seq(S), NEW a, NEW d, Entry(a, d) \in S, Len(t) <= MaxRanges
    PROVE  Len(Added(t, a, d)) <= MaxRanges
<1> DEFINE u == Append(t, Entry(a, d))
<1>1. Len(u) = Len(t) + 1 /\ Len(t) \in Nat  BY AppendProperties, LenProperties
<1>2. Added(t, a, d) = IF Len(t) < MaxRanges THEN u ELSE t  BY DEF Added
<1> HIDE DEF u
<1> QED  BY <1>1, <1>2, RangesAssumption

\* Adjusting an entry does not lengthen a table.
LEMMA AdjustedLength ==
    ASSUME NEW S, NEW t \in Seq(S), NEW a, NEW d, Entry(a, d) \in S
    PROVE  Len(Adjusted(t, a, d)) = Len(t)
<1> DEFINE k == CHOOSE i \in Same(t, a, d) : \A j \in Same(t, a, d) : i <= j
           u == Adjusted(t, a, d)
<1>1. DOMAIN u = DOMAIN t  BY DEF Adjusted
<1>2. u \in Seq(S)  BY AdjustedType
<1> HIDE DEF u
<1>3. DOMAIN u = 1 .. Len(u) /\ DOMAIN t = 1 .. Len(t) /\ Len(u) \in Nat /\ Len(t) \in Nat
  BY <1>2, LenProperties
<1>4. Len(u) = Len(t)
  <2>1. ASSUME Len(t) < Len(u) PROVE FALSE
    <3>1. Len(u) \in 1 .. Len(u) /\ Len(u) \notin 1 .. Len(t)  BY <1>3, <2>1
    <3> QED  BY <1>1, <1>3, <3>1
  <2>2. ASSUME Len(u) < Len(t) PROVE FALSE
    <3>1. Len(t) \in 1 .. Len(t) /\ Len(t) \notin 1 .. Len(u)  BY <1>3, <2>2
    <3> QED  BY <1>1, <1>3, <3>1
  <2>3. Len(u) \in Nat /\ Len(t) \in Nat  BY <1>3
  <2> QED  BY <2>1, <2>2, <2>3
<1> QED  BY <1>4 DEF u

\* What the tables, the map and the boards' addresses are after a board got its address.
LEMMA MapRamType ==
    ASSUME TypeOK, NEW b \in Ram, NEW a \in Address, MapRam(b, a)
    PROVE  /\ map_offset' \in [Seen(Items) -> Address]
           /\ read_ranges' \in Seq(Entries) /\ write_ranges' \in Seq(Entries)
           /\ Len(read_ranges') <= MaxRanges /\ Len(write_ranges') <= MaxRanges
<1>1. read_ranges \in Seq(Entries) /\ write_ranges \in Seq(Entries)
      /\ Len(read_ranges) <= MaxRanges /\ Len(write_ranges) <= MaxRanges
      /\ map_offset \in [Seen(Items) -> Address] /\ load \in 1 .. MaxLoads
  BY DEF TypeOK
<1>2. MaxLoads \in Nat  BY MapAssumption
<1>3. b \in Seen(Items)  BY DEF Ram
<1>4. Entry(a, Memory(b)) \in Entries
  BY <1>1, <1>2, <1>3 DEF Entry, Memory, Entries
<1>5. map_offset' \in [Seen(Items) -> Address]  BY <1>1, <1>3 DEF MapRam
<1> DEFINE e == Memory(b)
<1> HIDE DEF e
<1>6. /\ read_ranges' = AddRamRange(read_ranges, write_ranges, a, e).read
      /\ write_ranges' = AddRamRange(read_ranges, write_ranges, a, e).write
  BY DEF MapRam, e
<1>7. CASE Same(write_ranges, a, e) # {}
  <2>1. read_ranges' = read_ranges /\ write_ranges' = Adjusted(write_ranges, a, e)
    BY <1>6, <1>7 DEF AddRamRange
  <2> QED  BY <1>1, <1>4, <1>5, <2>1, AdjustedType, AdjustedLength DEF e
<1>8. CASE Same(write_ranges, a, e) = {}
  <2>1. read_ranges' = Added(read_ranges, a, e) /\ write_ranges' = Added(write_ranges, a, e)
    BY <1>6, <1>8 DEF AddRamRange
  <2> QED  BY <1>1, <1>4, <1>5, <2>1, AddedType, AddedLength DEF e
<1> QED  BY <1>7, <1>8

\* The types are right before the first line of the configuration.
LEMMA TypeInit == Init => TypeOK
<1> SUFFICES ASSUME Init PROVE TypeOK  OBVIOUS
<1>1. 0 \in Address /\ MaxRanges \in Nat  BY RangesAssumption DEF Address
<1>2. Physical \in Nat /\ MaxLoads \in Nat \ {0} /\ FileAddress \in [Seen(Items) -> Address]
      /\ Zorro2 \in Seq(STRING) /\ Zorro3 \in Seq(STRING) /\ Items \in Seq(STRING)
  BY MapAssumption
<1>3. Len(Zorro2) \in Nat /\ Len(Zorro3) \in Nat /\ Len(Items) \in Nat  BY <1>2
<1>4. Nothing \in Entries
  <2>1. 0 \in 0 .. MaxLoads  BY <1>2
  <2> QED  BY <2>1 DEF Nothing, Bus, Device, Entry, Entries
<1>5. /\ load \in 1 .. MaxLoads /\ base \in Assignments /\ physical_z2_first \in BOOLEAN
      /\ map_offset \in [Seen(Items) -> Address] /\ fc_read \in Entries /\ fc_write \in Entries
      /\ read_ranges = <<>> /\ write_ranges = <<>>
  BY <1>2, <1>4 DEF Init
<1>6. /\ ac_base \in [DOMAIN Zorro2 \cup DOMAIN Zorro3 -> Address] /\ io_base \in [IoBoards -> Address]
      /\ custom \in [low : Nat, high : Nat] /\ mapped \in [low : Nat, high : Nat]
  BY <1>1 DEF Init
<1>7. /\ z2_current \in 1 .. Len(Zorro2) + 1 /\ z3_current \in 1 .. Len(Zorro3) + 1
      /\ line \in 1 .. Len(Items) + 1 /\ unconfigured \in 0 .. Physical
  BY <1>2, <1>3 DEF Init
<1>8. /\ z2_done \in BOOLEAN /\ z3_done \in BOOLEAN /\ waiting \in BOOLEAN
      /\ amiga = "loading" /\ probed = "none"
  BY DEF Init
<1> QED  BY <1>1, <1>5, <1>6, <1>7, <1>8 DEF TypeOK

\* The limits after they were adjusted.
LEMMA AdjustType ==
    ASSUME NEW offsets \in [Seen(Items) -> Address], NEW done, NEW p \in Address, Adjust(offsets, done, p)
    PROVE  custom' \in [low : Nat, high : Nat] /\ mapped' \in [low : Nat, high : Nat]
<1>1. MappedRange(offsets) \in [low : Nat, high : Nat]  BY MappedRangeType
<1>2. CustomRange(done, p) \in [low : Nat, high : Nat]  BY CustomRangeIs
<1> QED  BY <1>1, <1>2 DEF Adjust

\* The variables keep their types when a Zorro II board gets its address ...
LEMMA FinishZ2Type ==
    ASSUME TypeOK, PlacesInv, amiga # "loading", ~z2_done, NEW a \in Address, FinishZ2(a)
    PROVE  TypeOK'
<1> DEFINE b == Zorro2[z2_current]
<1>1. z2_current \in DOMAIN Zorro2 /\ b \in Ram \cup IoBoards
  <2>1. z2_current \in DOMAIN Zorro2  BY DEF PlacesInv
  <2>2. b \in Seen(Zorro2)  BY <2>1 DEF Seen
  <2>3. Seen(Zorro2) \subseteq Ram \cup IoBoards  BY MapAssumption
  <2> QED  BY <2>1, <2>2, <2>3
<1>2. z2_current' \in 1 .. Len(Zorro2) + 1 /\ z2_current' = z2_current + 1
  <2>1. Zorro2 \in Seq(STRING)  BY MapAssumption
  <2>2. z2_current + 1 \in 1 .. Len(Zorro2) + 1  BY <1>1, <2>1, PlaceInList
  <2> QED  BY <2>2 DEF FinishZ2
<1>3. z2_done' \in BOOLEAN  BY PlacesZ2 DEF PlacesInv
<1> HIDE DEF b
<1>4. /\ map_offset' \in [Seen(Items) -> Address]
      /\ read_ranges' \in Seq(Entries) /\ write_ranges' \in Seq(Entries)
      /\ Len(read_ranges') <= MaxRanges /\ Len(write_ranges') <= MaxRanges
      /\ ac_base' \in [DOMAIN Zorro2 \cup DOMAIN Zorro3 -> Address] /\ io_base' \in [IoBoards -> Address]
  <2>1. CASE b \in Ram
    <3>1. MapRam(b, a) /\ ac_base' = [ac_base EXCEPT ![z2_current] = a] /\ io_base' = io_base
      BY <2>1 DEF FinishZ2, b
    <3> QED  BY <2>1, <3>1, MapRamType DEF TypeOK
  <2>2. CASE b \notin Ram
    <3>1. io_base' = [io_base EXCEPT ![b] = a] /\ UNCHANGED <<map_offset, read_ranges, write_ranges, ac_base>>
      BY <2>2 DEF FinishZ2, ranges, b
    <3> QED  BY <1>1, <2>2, <3>1 DEF TypeOK
  <2> QED  BY <2>1, <2>2
<1>5. custom' \in [low : Nat, high : Nat] /\ mapped' \in [low : Nat, high : Nat]
  <2>1. Adjust(map_offset', z3_done, io_base'["PISCSI"]) \/ UNCHANGED <<custom, mapped>>
    BY DEF FinishZ2, limits
  <2>2. io_base'["PISCSI"] \in Address  BY <1>4 DEF IoBoards
  <2>3. CASE Adjust(map_offset', z3_done, io_base'["PISCSI"])
    BY <1>4, <2>2, <2>3, AdjustType
  <2>4. CASE UNCHANGED <<custom, mapped>>  BY <2>4 DEF TypeOK
  <2> QED  BY <2>1, <2>3, <2>4
<1>6. amiga' = "probe" /\ UNCHANGED <<config, caches, z3_current, z3_done, waiting, line, probed, unconfigured>>
  BY DEF FinishZ2
<1> QED  BY <1>2, <1>3, <1>4, <1>5, <1>6 DEF TypeOK, config, caches

\* ... and when a Zorro III board does.
LEMMA FinishZ3Type ==
    ASSUME TypeOK, PlacesInv, amiga # "loading", ~z3_done, NEW a \in Address, FinishZ3(a)
    PROVE  TypeOK'
<1> DEFINE b == Zorro3[z3_current]
<1>1. z3_current \in DOMAIN Zorro3 /\ b \in Ram
  <2>1. z3_current \in DOMAIN Zorro3  BY DEF PlacesInv
  <2>2. b \in Seen(Zorro3)  BY <2>1 DEF Seen
  <2>3. Seen(Zorro3) \subseteq Ram  BY MapAssumption
  <2> QED  BY <2>1, <2>2, <2>3
<1>2. z3_current' \in 1 .. Len(Zorro3) + 1 /\ z3_current' = z3_current + 1
  <2>1. Zorro3 \in Seq(STRING)  BY MapAssumption
  <2>2. z3_current + 1 \in 1 .. Len(Zorro3) + 1  BY <1>1, <2>1, PlaceInList
  <2> QED  BY <2>2 DEF FinishZ3
<1>3. z3_done' \in BOOLEAN  BY PlacesZ3 DEF PlacesInv
<1> HIDE DEF b
<1>4. /\ map_offset' \in [Seen(Items) -> Address]
      /\ read_ranges' \in Seq(Entries) /\ write_ranges' \in Seq(Entries)
      /\ Len(read_ranges') <= MaxRanges /\ Len(write_ranges') <= MaxRanges
      /\ ac_base' \in [DOMAIN Zorro2 \cup DOMAIN Zorro3 -> Address]
  <2>1. MapRam(b, a) /\ ac_base' = [ac_base EXCEPT ![z3_current] = a]  BY DEF FinishZ3, b
  <2> QED  BY <1>1, <2>1, MapRamType DEF TypeOK
<1>5. custom' \in [low : Nat, high : Nat] /\ mapped' \in [low : Nat, high : Nat]
  <2>1. Adjust(map_offset', z2_done, io_base["PISCSI"]) \/ UNCHANGED <<custom, mapped>>
    BY DEF FinishZ3, limits
  <2>2. io_base["PISCSI"] \in Address  BY DEF TypeOK, IoBoards
  <2>3. CASE Adjust(map_offset', z2_done, io_base["PISCSI"])
    BY <1>4, <2>2, <2>3, AdjustType
  <2>4. CASE UNCHANGED <<custom, mapped>>  BY <2>4 DEF TypeOK
  <2> QED  BY <2>1, <2>3, <2>4
<1>6. amiga' = "probe" /\ UNCHANGED <<config, io_base, caches, z2_current, z2_done, waiting, line, probed, unconfigured>>
  BY DEF FinishZ3
<1> QED  BY <1>2, <1>3, <1>4, <1>5, <1>6 DEF TypeOK, config, caches

\* What a look-up finds is in the table.
LEMMA FirstHitIs ==
    ASSUME NEW S, NEW t \in Seq(S), NEW a, Hits(t, a) # {}
    PROVE  FirstHit(t, a) \in S /\ FirstHit(t, a).addr = a
<1> DEFINE H == Hits(t, a)
           k == CHOOSE i \in H : \A j \in H : i <= j
<1>1. H \in SUBSET Nat /\ H # {}  BY DEF Hits
<1>2. k \in H
  <2> HIDE DEF H
  <2>1. \E i \in H : \A j \in H : i <= j  BY <1>1, LeastNumber
  <2> QED  BY <2>1
<1>3. FirstHit(t, a) = t[k]  BY DEF FirstHit
<1>4. k \in DOMAIN t /\ t[k].addr = a  BY <1>2 DEF Hits
<1> HIDE DEF k
<1>5. t[k] \in S  BY <1>4
<1> QED  BY <1>3, <1>4, <1>5

\* No step takes a variable out of its type.
LEMMA TypeStep ==
    ASSUME TypeOK, PlacesInv, WritesReachProbedBoard, [Next]_vars
    PROVE  TypeOK'
<1>a. base \in Assignments  BY DEF TypeOK
<1>b. MaxLoads \in Nat /\ Physical \in Nat /\ FileAddress \in [Seen(Items) -> Address]
  BY MapAssumption
<1>1. CASE AddMapping
  <2>1. line \in DOMAIN Items /\ line' \in 1 .. Len(Items) + 1
    <3>1. line \in DOMAIN Items /\ line' = line + 1 /\ Items \in Seq(STRING)
      BY <1>1, MapAssumption DEF AddMapping
    <3> QED  BY <3>1, PlaceInList
  <2> DEFINE i == Items[line]
             e == Memory(i)
             a == FileAddress[i]
  <2>2. i \in Seen(Items) /\ a \in Address  BY <2>1, <1>b DEF Seen
  <2>3. Entry(a, e) \in Entries  BY <1>b, <2>2 DEF TypeOK, Entry, Entries, Memory
  <2>4. read_ranges \in Seq(Entries) /\ Len(read_ranges) <= MaxRanges  BY DEF TypeOK
  <2>5. read_ranges' \in {read_ranges, Adjusted(read_ranges, a, e), Added(read_ranges, a, e)}
    <3>1. CASE i \in Roms
      <4>1. read_ranges' = AddRomRange(read_ranges, a, e)  BY <1>1, <3>1, Zenon DEF AddMapping
      <4> QED  BY <4>1, Zenon DEF AddRomRange
    <3>2. CASE i \notin Roms
      <4>1. read_ranges' = read_ranges  BY <1>1, <3>2, Zenon DEF AddMapping
      <4> QED  BY <4>1
    <3> QED  BY <3>1, <3>2
  <2> HIDE DEF a, e
  <2>6. read_ranges' \in Seq(Entries) /\ Len(read_ranges') <= MaxRanges
    <3>1. CASE read_ranges' = read_ranges  BY <2>4, <3>1
    <3>2. CASE read_ranges' = Adjusted(read_ranges, a, e)
      BY <2>3, <2>4, <3>2, AdjustedType, AdjustedLength
    <3>3. CASE read_ranges' = Added(read_ranges, a, e)
      BY <2>3, <2>4, <3>3, AddedType, AddedLength
    <3> QED  BY <2>5, <3>1, <3>2, <3>3
  <2> QED  BY <1>1, <2>1, <2>6
           DEF AddMapping, TypeOK, config, caches, places, limits
<1>2. CASE Boot \/ Reset
  <2>1. ResetAmiga  BY <1>2 DEF Boot, Reset
  <2>2. custom' \in [low : Nat, high : Nat] /\ mapped' \in [low : Nat, high : Nat]
    <3>1. Adjust(map_offset, Zorro2 = <<>> /\ Zorro3 = <<>>, io_base["PISCSI"])  BY <2>1 DEF ResetAmiga
    <3>2. map_offset \in [Seen(Items) -> Address] /\ io_base["PISCSI"] \in Address
      BY DEF TypeOK, IoBoards
    <3> QED  BY <3>1, <3>2, AdjustType
  <2>3. z2_done' \in BOOLEAN /\ z3_done' \in BOOLEAN  BY <2>1, PlacesReset DEF PlacesInv
  <2>4. Len(Zorro2) \in Nat /\ Len(Zorro3) \in Nat  BY MapAssumption
  <2>5. z2_current' \in 1 .. Len(Zorro2) + 1 /\ z3_current' \in 1 .. Len(Zorro3) + 1
    BY <2>1, <2>4 DEF ResetAmiga
  <2>6. /\ waiting' = FALSE /\ amiga' = "probe" /\ probed' = "none" /\ unconfigured' \in 0 .. Physical
        /\ UNCHANGED <<load, base, physical_z2_first, map_offset, read_ranges, write_ranges,
                       fc_read, fc_write, ac_base, io_base, line>>
    BY <1>b, <2>1 DEF ResetAmiga, config, ranges, caches
  <2> QED  BY <2>2, <2>3, <2>5, <2>6 DEF TypeOK
<1>3. CASE LoadConfig
  <2>1. Len(Zorro2) \in Nat /\ Len(Zorro3) \in Nat /\ Len(Items) \in Nat  BY MapAssumption
  <2>2. /\ z2_current' \in 1 .. Len(Zorro2) + 1 /\ z3_current' \in 1 .. Len(Zorro3) + 1
        /\ line' \in 1 .. Len(Items) + 1
    BY <1>3, <2>1 DEF LoadConfig
  <2>3. load' \in 1 .. MaxLoads  BY <1>3, <1>b DEF LoadConfig, TypeOK
  <2>4. /\ read_ranges' \in Seq(Entries) /\ Len(read_ranges') <= MaxRanges
        /\ write_ranges' \in Seq(Entries) /\ Len(write_ranges') <= MaxRanges
    BY <1>3, RangesAssumption DEF LoadConfig
  <2>5. /\ base' \in Assignments /\ physical_z2_first' \in BOOLEAN /\ map_offset' = FileAddress
        /\ waiting' = FALSE /\ amiga' = "loading" /\ probed' = "none"
        /\ custom' = [low |-> 0, high |-> 0] /\ mapped' = [low |-> 0, high |-> 0]
        /\ UNCHANGED <<fc_read, fc_write, ac_base, io_base, z2_done, z3_done, unconfigured>>
    BY <1>3 DEF LoadConfig, caches
  <2> QED  BY <1>b, <2>2, <2>3, <2>4, <2>5 DEF TypeOK
<1>4. CASE Probe
  <2>1. PlacesInv /\ amiga = "probe" /\ Open  BY <1>4 DEF Probe, Reachable
  <2>2. Current \in Boards
    <3>1. CASE z2_done
      <4>1. z3_current \in DOMAIN Zorro3  BY <2>1, <3>1 DEF PlacesInv, Open
      <4> QED  BY <3>1, <4>1 DEF Current, Boards, Seen
    <3>2. CASE ~z2_done
      <4>1. z2_current \in DOMAIN Zorro2  BY <2>1, <3>2 DEF PlacesInv
      <4> QED  BY <3>2, <4>1 DEF Current, Boards, Seen
    <3> QED  BY <3>1, <3>2
  <2>3. probed' \in {"physical", Current} /\ amiga' = "write"  BY <1>4 DEF Probe
  <2>4. waiting' \in BOOLEAN
    <3>1. waiting' = (physical_z2_first /\ unconfigured > 0)  BY <1>4, Zenon DEF Probe
    <3> QED  BY <3>1
  <2> QED  BY <1>4, <2>2, <2>3, <2>4 DEF Probe, TypeOK, config, ranges, caches, places, limits
<1>5. CASE ProbeBus
  <2>1. amiga' \in {"write", "booted"} /\ probed' \in {"physical", "none"}
    BY <1>5 DEF ProbeBus
  <2> QED  BY <1>5, <2>1 DEF ProbeBus, TypeOK, config, ranges, caches, places, limits
<1>6. CASE WritePhysical
  <2>1. unconfigured' \in 0 .. Physical
    <3> DEFINE S == {unconfigured - 1, 0}
    <3>1. unconfigured \in 0 .. Physical  BY DEF TypeOK
    <3>2. \E x \in S : \A y \in S : x >= y
      <4>1. CASE unconfigured = 0  BY <4>1
      <4>2. CASE unconfigured # 0  BY <3>1, <4>2, <1>b
      <4> QED  BY <4>1, <4>2
    <3>3. Max(S) \in S /\ \A y \in S : Max(S) >= y
      <4> HIDE DEF S
      <4> QED  BY <3>2, Zenon DEF Max
    <3>4. Max(S) \in 0 .. Physical  BY <3>1, <3>3, <1>b
    <3> QED  BY <1>6, <3>4 DEF WritePhysical
  <2> QED  BY <1>6, <2>1 DEF WritePhysical, TypeOK, config, ranges, caches, places, limits
<1>7. CASE Z2Low
  <2>1. amiga = "write" /\ Target # "physical" /\ base[probed] # NoBase /\ ~z2_done
    BY <1>7 DEF Z2Low, Writing
  <2>2. /\ z2_current \in DOMAIN Zorro2 /\ probed = Current /\ probed \in Ram \cup IoBoards
        /\ Low(base[probed]) \in Address
    BY <2>1, <1>a, CurrentBoard, PartTypes
  <2>3. ac_base' \in [DOMAIN Zorro2 \cup DOMAIN Zorro3 -> Address] /\ io_base' \in [IoBoards -> Address]
    <3>1. CASE probed \in Ram
      <4>1. ac_base' = [ac_base EXCEPT ![z2_current] = Low(base[probed])] /\ io_base' = io_base
        BY <1>7, <2>2, <3>1 DEF Z2Low
      <4> QED  BY <2>2, <4>1 DEF TypeOK
    <3>2. CASE probed \notin Ram
      <4>1. io_base' = [io_base EXCEPT ![probed] = Low(base[probed])] /\ ac_base' = ac_base
        BY <1>7, <2>2, <3>2 DEF Z2Low
      <4> QED  BY <2>2, <4>1 DEF TypeOK
    <3> QED  BY <3>1, <3>2
  <2> QED  BY <1>7, <2>3 DEF Z2Low, TypeOK, config, ranges, caches, places, limits
<1>8. CASE Z3Low
  <2>1. amiga = "write" /\ Target # "physical" /\ base[probed] # NoBase /\ z2_done
    BY <1>8 DEF Z3Low, Writing
  <2>2. z3_current \in DOMAIN Zorro3 /\ base[probed] \in Address
    BY <2>1, <1>a, CurrentBoard
  <2>3. Z3Base \in Address  BY <2>2 DEF TypeOK, Z3Base
  <2>4. Top(Z3Base) + Mid(base[probed]) + Low(base[probed]) \in Address
    BY <2>2, <2>3, Z3LowParts
  <2>5. ac_base' \in [DOMAIN Zorro2 \cup DOMAIN Zorro3 -> Address]
    BY <1>8, <2>2, <2>4 DEF Z3Low, TypeOK
  <2> QED  BY <1>8, <2>5 DEF Z3Low, TypeOK, config, ranges, caches, places, limits
<1>9. CASE Z2High
  <2>1. amiga = "finish" /\ Target # "physical" /\ base[probed] # NoBase /\ ~z2_done
    BY <1>9 DEF Z2High, Writing
  <2>2. Z2Base \in Address /\ base[probed] \in Address
    <3>1. probed = Current /\ z2_current \in DOMAIN Zorro2 /\ probed \in Ram \cup IoBoards
          /\ base[probed] \in Address
      BY <2>1, <1>a, CurrentBoard
    <3> QED  BY <3>1 DEF Z2Base, TypeOK
  <2>3. Z2Base - Mid(Z2Base) + Mid(base[probed]) \in Address  BY <2>2, PartTypes
  <2> QED  BY <1>9, <2>1, <2>3, FinishZ2Type DEF Z2High
<1>10. CASE Z3High \/ Z3Word
  <2>1. amiga \in {"write", "finish"} /\ Target # "physical" /\ base[probed] # NoBase /\ z2_done
    BY <1>10 DEF Z3High, Z3Word, Writing
  <2>2. ~z3_done /\ z3_current \in DOMAIN Zorro3 /\ base[probed] \in Address
    BY <2>1, <1>a, CurrentBoard
  <2>3. Z3Base \in Address  BY <2>2 DEF TypeOK, Z3Base
  <2>4. Mid(Z3Base) + Low(Z3Base) + Top(base[probed]) \in Address  BY <2>2, <2>3, PartTypes
  <2>5. \E a \in Address : FinishZ3(a)  BY <1>10, <2>2, <2>4 DEF Z3High, Z3Word
  <2> QED  BY <2>1, <2>2, <2>5, FinishZ3Type
<1>11. CASE ShutUp
  <2>1. amiga = "write" /\ Target # "physical"  BY <1>11 DEF ShutUp
  <2>2. CASE z2_done
    <3>1. ~z3_done /\ z3_current \in DOMAIN Zorro3  BY <2>1, <2>2, <1>a, CurrentBoard
    <3>2. Z3Base \in Address  BY <3>1 DEF TypeOK, Z3Base
    <3>3. FinishZ3(Z3Base)  BY <1>11, <2>2 DEF ShutUp
    <3> QED  BY <2>1, <3>1, <3>2, <3>3, FinishZ3Type
  <2>3. CASE ~z2_done
    <3>1. probed = Current /\ z2_current \in DOMAIN Zorro2 /\ probed \in Ram \cup IoBoards
      BY <2>1, <2>3, <1>a, CurrentBoard
    <3>2. Z2Base \in Address  BY <3>1 DEF Z2Base, TypeOK
    <3>3. FinishZ2(Z2Base)  BY <1>11, <2>3 DEF ShutUp
    <3> QED  BY <2>1, <2>3, <3>2, <3>3, FinishZ2Type
  <2> QED  BY <2>2, <2>3
<1>12. ASSUME NEW a, CpuRead(a) PROVE TypeOK'
  <2>1. fc_read' \in Entries  BY <1>12, FirstHitIs DEF CpuRead, TypeOK
  <2> QED  BY <1>12, <2>1 DEF CpuRead, TypeOK, config, ranges, places, limits, program
<1>13. ASSUME NEW a, CpuWrite(a) PROVE TypeOK'
  <2>1. fc_write' \in Entries  BY <1>13, FirstHitIs DEF CpuWrite, TypeOK
  <2> QED  BY <1>13, <2>1 DEF CpuWrite, TypeOK, config, ranges, places, limits, program
<1>14. CASE UNCHANGED vars
  BY <1>14 DEF vars, TypeOK, config, ranges, caches, places, limits, program
<1> QED  BY <1>1, <1>2, <1>3, <1>4, <1>5, <1>6, <1>7, <1>8, <1>9, <1>10, <1>11, <1>12, <1>13, <1>14
         DEF Next, Starting, AutoConfig

\* Every variable keeps its type: the tables of the core never get longer than
\* they are, and addresses stay addresses, however often boards are told
\* parts of an address, shut up, reset and loaded again.
THEOREM MapTypeOK == Spec => []TypeOK
<1> DEFINE Inv == TypeOK /\ PlacesInv /\ WritesReachProbedBoard
<1>1. Init => Inv  BY TypeInit, PlacesInit, ProbedInit
<1>2. Inv /\ [Next]_vars => Inv'
  <2> SUFFICES ASSUME Inv, [Next]_vars PROVE Inv'  OBVIOUS
  <2>1. base \in Assignments  BY DEF TypeOK
  <2> QED  BY <2>1, TypeStep, PlacesStep, ProbedStep
<1> QED  BY <1>1, <1>2, PTL DEF Spec

-----------------------------------------------------------------------------
\* The ranges of the core.

\* What may be in the tables: this configuration's memory boards where
\* the Amiga puts them, and its ROMs.
Own == {Entry(base[b], Memory(b)) : b \in Ram \cap Boards}
         \cup {Entry(FileAddress[r], Memory(r)) : r \in Roms}

TablesInv ==
    /\ load \in Nat /\ base \in Assignments
    /\ read_ranges \in Seq(Own) /\ write_ranges \in Seq(Own)

\* A half-written address is the half of the one that is being written.
PartsInv ==
    /\ ac_base \in [DOMAIN Zorro2 \cup DOMAIN Zorro3 -> Address]
    /\ io_base \in [IoBoards -> Address]
    /\ amiga = "finish" =>
          /\ probed \in Boards /\ base[probed] # NoBase
          /\ IF z2_done
             THEN Mid(Z3Base) = Mid(base[probed]) /\ Low(Z3Base) = Low(base[probed])
             ELSE Z2Base = Low(base[probed])

RangesInv == TablesInv /\ PlacesInv /\ PartsInv /\ WritesReachProbedBoard

\* What belongs to a configuration depends on nothing else.
LEMMA OwnSame ==
    ASSUME UNCHANGED <<load, base>>
    PROVE  Own' = Own
  BY DEF Own, Memory

\* Nothing that the invariant mentions is changed, but possibly the caches.
LEMMA RangesSame ==
    ASSUME RangesInv, WritesReachProbedBoard', UNCHANGED <<config, ranges, ac_base, io_base, places, amiga, probed>>
    PROVE  RangesInv'
<1>1. Own' = Own  BY OwnSame DEF config
<1>2. Z2Base' = Z2Base /\ Z3Base' = Z3Base  BY DEF places, Z2Base, Z3Base, Current
<1>3. TablesInv'  BY <1>1 DEF RangesInv, TablesInv, config, ranges
<1>4. PlacesInv'  BY DEF RangesInv, PlacesInv, places
<1>5. PartsInv'  BY <1>2 DEF RangesInv, PartsInv, config, places
<1> QED  BY <1>3, <1>4, <1>5 DEF RangesInv

\* The board that was read, under the invariant.
LEMMA ProbedIsCurrent ==
    ASSUME RangesInv, amiga \in {"write", "finish"}, Target # "physical"
    PROVE  /\ probed = Current /\ probed \in Boards
           /\ ~z2_done => /\ z2_current \in DOMAIN Zorro2 /\ probed = Zorro2[z2_current]
                          /\ probed \in Ram \cup IoBoards
                          /\ base[probed] # NoBase => Top(base[probed]) = 0
           /\ z2_done => /\ ~z3_done /\ z3_current \in DOMAIN Zorro3
                         /\ probed = Zorro3[z3_current] /\ probed \in Ram
           /\ base[probed] # NoBase => base[probed] \in Address
  BY CurrentBoard DEF RangesInv, TablesInv

\* A memory board that is mapped where it should be keeps the tables as they should be.
LEMMA MapRamTables ==
    ASSUME TablesInv, UNCHANGED <<load, base>>, NEW b \in Ram \cap Boards, MapRam(b, base[b])
    PROVE  TablesInv'
<1>1. Own' = Own  BY OwnSame
<1>2. Entry(base[b], Memory(b)) \in Own  BY DEF Own
<1>3. /\ AddRamRange(read_ranges, write_ranges, base[b], Memory(b)).read \in Seq(Own)
      /\ AddRamRange(read_ranges, write_ranges, base[b], Memory(b)).write \in Seq(Own)
  BY <1>2, AddRamType DEF TablesInv
<1> QED  BY <1>1, <1>3 DEF TablesInv, MapRam

\* The last part of a Zorro II address keeps the invariant.
LEMMA FinishZ2Ranges ==
    ASSUME RangesInv, amiga # "loading", ~z2_done,
           NEW a \in Address, FinishZ2(a),
           Zorro2[z2_current] \in Ram => Zorro2[z2_current] \in Boards /\ a = base[Zorro2[z2_current]],
           Zorro2[z2_current] \notin Ram => Zorro2[z2_current] \in IoBoards
    PROVE  RangesInv'
<1> DEFINE b == Zorro2[z2_current]
<1>1. z2_current \in DOMAIN Zorro2 /\ z2_current \in Nat \ {0} /\ z3_current \in Nat \ {0}
  BY DEF RangesInv, PlacesInv
<1>2. amiga' = "probe" /\ UNCHANGED <<load, base, z3_current, z3_done>>
      /\ z2_current' = z2_current + 1 /\ z2_done' = (z2_current = Len(Zorro2))
  BY DEF FinishZ2, config
<1>3. TablesInv'
  <2>1. CASE b \in Ram
    <3>1. MapRam(b, base[b])  BY <2>1 DEF FinishZ2
    <3> QED  BY <2>1, <3>1, <1>2, MapRamTables DEF RangesInv
  <2>2. CASE b \notin Ram
    <3>1. UNCHANGED ranges  BY <2>2 DEF FinishZ2
    <3> QED  BY <3>1, <1>2, OwnSame DEF RangesInv, TablesInv, ranges
  <2> QED  BY <2>1, <2>2
<1>4. PlacesInv'  BY PlacesZ2 DEF RangesInv
<1>5. PartsInv'
  <2>1. ac_base' \in [DOMAIN Zorro2 \cup DOMAIN Zorro3 -> Address]
    <3>1. ac_base' = ac_base \/ ac_base' = [ac_base EXCEPT ![z2_current] = a]  BY DEF FinishZ2
    <3> QED  BY <3>1 DEF RangesInv, PartsInv
  <2>2. io_base' \in [IoBoards -> Address]
    <3>1. io_base' = io_base \/ io_base' = [io_base EXCEPT ![b] = a]  BY DEF FinishZ2
    <3> QED  BY <3>1 DEF RangesInv, PartsInv
  <2> QED  BY <1>2, <2>1, <2>2 DEF PartsInv
<1>6. WritesReachProbedBoard'  BY <1>2 DEF WritesReachProbedBoard
<1> QED  BY <1>3, <1>4, <1>5, <1>6 DEF RangesInv

\* So does the last part of a Zorro III address.
LEMMA FinishZ3Ranges ==
    ASSUME RangesInv, amiga # "loading", z2_done, ~z3_done, z3_current \in DOMAIN Zorro3,
           NEW a \in Address, FinishZ3(a),
           Zorro3[z3_current] \in Ram \cap Boards, a = base[Zorro3[z3_current]]
    PROVE  RangesInv'
<1> DEFINE b == Zorro3[z3_current]
<1>1. z2_current \in Nat \ {0} /\ z3_current \in Nat \ {0} /\ z2_done \in BOOLEAN
  BY DEF RangesInv, PlacesInv
<1>2. amiga' = "probe" /\ UNCHANGED <<load, base, z2_current, z2_done, io_base>>
      /\ z3_current' = z3_current + 1 /\ z3_done' = (z3_current = Len(Zorro3))
  <2>1. /\ amiga' = "probe" /\ z3_current' = z3_current + 1 /\ z3_done' = (z3_current = Len(Zorro3))
        /\ UNCHANGED <<config, io_base, caches, z2_current, z2_done, waiting, line, probed, unconfigured>>
    BY DEF FinishZ3
  <2> QED  BY <2>1 DEF config
<1>3. TablesInv'
  <2>1. MapRam(Zorro3[z3_current], a)  BY DEF FinishZ3
  <2> QED  BY <2>1, <1>2, MapRamTables DEF RangesInv
<1>4. PlacesInv'  BY PlacesZ3 DEF RangesInv
<1>5. PartsInv'
  <2>1. ac_base' = [ac_base EXCEPT ![z3_current] = a]  BY DEF FinishZ3
  <2>2. ac_base' \in [DOMAIN Zorro2 \cup DOMAIN Zorro3 -> Address]  BY <2>1 DEF RangesInv, PartsInv
  <2> QED  BY <1>2, <2>2 DEF RangesInv, PartsInv
<1>6. WritesReachProbedBoard'  BY <1>2 DEF WritesReachProbedBoard
<1> QED  BY <1>3, <1>4, <1>5, <1>6 DEF RangesInv

\* A Zorro II board is told its address, or to shut up.  Then it keeps what it has.
Z2Told(b) ==
    /\ amiga # "loading" /\ ~z2_done /\ z2_current \in DOMAIN Zorro2 /\ b = Zorro2[z2_current]
    /\ b \in Boards /\ b \in Ram \cup IoBoards /\ base[b] \in Address \cup {NoBase}
    /\ b \in Ram => base[b] # NoBase
    /\ FinishZ2(IF base[b] = NoBase THEN io_base[b] ELSE base[b])

\* A Zorro III board is told its address.
Z3Told(b) ==
    /\ amiga # "loading" /\ z2_done /\ ~z3_done /\ z3_current \in DOMAIN Zorro3 /\ b = Zorro3[z3_current]
    /\ b \in Ram \cap Boards /\ base[b] # NoBase /\ base[b] \in Address
    /\ FinishZ3(base[b])

\* However its parts were written, the board that was read gets the address
\* that the Amiga chose for it.
LEMMA ToldBoard ==
    ASSUME AllPlaced, RangesInv, Z2High \/ Z3High \/ Z3Word \/ ShutUp
    PROVE  (\E b : Z2Told(b)) \/ (\E b : Z3Told(b))
<1>1. CASE Z2High
  <2>1. /\ amiga = "finish" /\ Target # "physical" /\ base[probed] # NoBase /\ ~z2_done
        /\ FinishZ2(Z2Base - Mid(Z2Base) + Mid(base[probed]))
    BY <1>1 DEF Z2High, Writing
  <2>2. /\ probed = Zorro2[z2_current] /\ probed \in Ram \cup IoBoards /\ probed \in Boards
        /\ Top(base[probed]) = 0 /\ base[probed] \in Address /\ z2_current \in DOMAIN Zorro2
    BY <2>1, ProbedIsCurrent
  <2>3. Z2Base = Low(base[probed])  BY <2>1 DEF RangesInv, PartsInv
  <2>4. FinishZ2(base[probed])  BY <2>1, <2>2, <2>3, Z2Parts
  <2>5. Z2Told(probed)  BY <2>1, <2>2, <2>4 DEF Z2Told
  <2> QED  BY <2>5
<1>2. CASE Z3High \/ Z3Word
  <2>1. amiga \in {"write", "finish"} /\ Target # "physical" /\ base[probed] # NoBase /\ z2_done
    BY <1>2 DEF Z3High, Z3Word, Writing
  <2>2. /\ ~z3_done /\ z3_current \in DOMAIN Zorro3 /\ probed = Zorro3[z3_current]
        /\ probed \in Ram \cap Boards /\ base[probed] \in Address
    BY <2>1, ProbedIsCurrent
  <2>3. FinishZ3(base[probed])
    <3>1. CASE Z3High
      <4>1. amiga = "finish" /\ FinishZ3(Mid(Z3Base) + Low(Z3Base) + Top(base[probed]))
        BY <3>1 DEF Z3High, Writing
      <4>2. Mid(Z3Base) = Mid(base[probed]) /\ Low(Z3Base) = Low(base[probed])
        BY <2>1, <4>1 DEF RangesInv, PartsInv
      <4> QED  BY <2>2, <4>1, <4>2, Z3Parts
    <3>2. CASE Z3Word  BY <3>2 DEF Z3Word
    <3> QED  BY <1>2, <3>1, <3>2
  <2>4. Z3Told(probed)  BY <2>1, <2>2, <2>3 DEF Z3Told
  <2> QED  BY <2>4
<1>3. CASE ShutUp
  <2>1. amiga = "write" /\ Target # "physical" /\ base[probed] = NoBase
        /\ IF z2_done THEN FinishZ3(Z3Base) ELSE FinishZ2(Z2Base)
    BY <1>3 DEF ShutUp
  <2>2. probed \in Boards /\ probed \notin Ram
    BY <2>1, ProbedIsCurrent DEF AllPlaced, RangesInv, TablesInv
  <2>3. /\ ~z2_done /\ probed = Zorro2[z2_current] /\ probed \in IoBoards /\ probed = Current
        /\ z2_current \in DOMAIN Zorro2
    BY <2>1, <2>2, ProbedIsCurrent
  <2>4. FinishZ2(io_base[probed])
    BY <2>1, <2>2, <2>3 DEF Z2Base
  <2>5. Z2Told(probed)  BY <2>1, <2>2, <2>3, <2>4 DEF Z2Told
  <2> QED  BY <2>5
<1> QED  BY <1>1, <1>2, <1>3

\* The tables are empty before the first line of the configuration.
LEMMA RangesInit == Init => RangesInv
<1> SUFFICES ASSUME Init PROVE RangesInv  OBVIOUS
<1>1. TablesInv  BY DEF Init, TablesInv
<1>2. PlacesInv  BY PlacesInit
<1>3. PartsInv
  <2>1. 0 \in Address  BY DEF Address
  <2>2. ac_base \in [DOMAIN Zorro2 \cup DOMAIN Zorro3 -> Address]  BY <2>1 DEF Init
  <2>3. io_base \in [IoBoards -> Address]  BY <2>1 DEF Init
  <2>4. amiga # "finish"  BY DEF Init
  <2> QED  BY <2>2, <2>3, <2>4 DEF PartsInv
<1> QED  BY <1>1, <1>2, <1>3, ProbedInit DEF RangesInv

\* No step of the loader, of a reset, of AutoConfig or of the CPU puts what is
\* not the configuration's into a table.
LEMMA RangesStep == AllPlaced /\ RangesInv /\ [Next]_vars => RangesInv'
<1> SUFFICES ASSUME AllPlaced, RangesInv, [Next]_vars PROVE RangesInv'  OBVIOUS
<1>0. WritesReachProbedBoard' /\ PlacesInv'
  BY ProbedStep, PlacesStep DEF RangesInv, TablesInv
<1>1. ASSUME AddMapping PROVE RangesInv'
  <2>1. Own' = Own  BY <1>1, OwnSame DEF AddMapping, config
  <2>2. TablesInv'
    <3>1. CASE Items[line] \in Roms
      <4>1. Entry(FileAddress[Items[line]], Memory(Items[line])) \in Own  BY <3>1 DEF Own
      <4>2. AddRomRange(read_ranges, FileAddress[Items[line]], Memory(Items[line])) \in Seq(Own)
        BY <4>1, AddRomType DEF RangesInv, TablesInv
      <4> QED  BY <1>1, <2>1, <3>1, <4>2 DEF RangesInv, TablesInv, AddMapping, config
    <3>2. CASE Items[line] \notin Roms
      BY <1>1, <2>1, <3>2 DEF RangesInv, TablesInv, AddMapping, config
    <3> QED  BY <3>1, <3>2
  <2>3. PartsInv'  BY <1>1 DEF RangesInv, PartsInv, AddMapping
  <2> QED  BY <1>0, <2>2, <2>3 DEF RangesInv
<1>2. ASSUME Boot \/ Reset PROVE RangesInv'
  <2>1. ResetAmiga  BY <1>2 DEF Boot, Reset
  <2>2. TablesInv'  BY <2>1, OwnSame DEF ResetAmiga, RangesInv, TablesInv, config, ranges
  <2>3. PartsInv'  BY <2>1 DEF ResetAmiga, RangesInv, PartsInv
  <2> QED  BY <1>0, <2>2, <2>3 DEF RangesInv
<1>3. ASSUME LoadConfig PROVE RangesInv'
  <2>1. TablesInv'  BY <1>3 DEF LoadConfig, RangesInv, TablesInv
  <2>2. PartsInv'  BY <1>3 DEF LoadConfig, RangesInv, PartsInv
  <2> QED  BY <1>0, <2>1, <2>2 DEF RangesInv
<1>4. ASSUME Probe \/ ProbeBus \/ WritePhysical PROVE RangesInv'
  <2>1. UNCHANGED <<config, ranges, ac_base, io_base, places>> /\ amiga' # "finish"
        /\ amiga # "loading"
    BY <1>4 DEF Probe, ProbeBus, WritePhysical
  <2>2. TablesInv'  BY <2>1, OwnSame DEF RangesInv, TablesInv, config, ranges
  <2>3. PartsInv'  BY <2>1 DEF RangesInv, PartsInv
  <2> QED  BY <1>0, <2>2, <2>3 DEF RangesInv
<1>5. ASSUME Z2Low PROVE RangesInv'
  <2>1. /\ amiga = "write" /\ Target # "physical" /\ base[probed] # NoBase /\ ~z2_done
        /\ UNCHANGED <<config, ranges, places, probed>>
    BY <1>5 DEF Z2Low, Writing
  <2>2. /\ z2_current \in DOMAIN Zorro2 /\ probed = Zorro2[z2_current] /\ probed \in Ram \cup IoBoards
        /\ probed = Current /\ probed \in Boards /\ base[probed] \in Address
    BY <2>1, ProbedIsCurrent
  <2> DEFINE low == Low(base[probed])
  <2>3. low \in Address  BY <2>2, PartTypes
  <2>4. Current' = Current  BY <2>1 DEF places, Current
  <2>5. /\ ac_base' \in [DOMAIN Zorro2 \cup DOMAIN Zorro3 -> Address]
        /\ io_base' \in [IoBoards -> Address] /\ Z2Base' = low
    <3> HIDE DEF low
    <3>1. CASE probed \in Ram
      <4>1. ac_base' = [ac_base EXCEPT ![z2_current] = low] /\ io_base' = io_base
        BY <1>5, <2>2, <3>1 DEF Z2Low, low
      <4>2. z2_current' = z2_current  BY <2>1 DEF places
      <4> QED  BY <2>2, <2>3, <2>4, <3>1, <4>1, <4>2 DEF RangesInv, PartsInv, Z2Base
    <3>2. CASE probed \notin Ram
      <4>1. io_base' = [io_base EXCEPT ![probed] = low] /\ ac_base' = ac_base
        BY <1>5, <2>2, <3>2 DEF Z2Low, low
      <4> QED  BY <2>2, <2>3, <2>4, <3>2, <4>1 DEF RangesInv, PartsInv, Z2Base
    <3> QED  BY <3>1, <3>2
  <2>6. PartsInv'  BY <2>1, <2>2, <2>5 DEF PartsInv, config, places
  <2>7. TablesInv'  BY <2>1, OwnSame DEF RangesInv, TablesInv, config, ranges
  <2> QED  BY <1>0, <2>6, <2>7 DEF RangesInv
<1>6. ASSUME Z3Low PROVE RangesInv'
  <2>1. /\ amiga = "write" /\ Target # "physical" /\ base[probed] # NoBase /\ z2_done
        /\ UNCHANGED <<config, ranges, places, probed, io_base>>
        /\ ac_base' = [ac_base EXCEPT ![z3_current] = Top(Z3Base) + Mid(base[probed]) + Low(base[probed])]
    BY <1>6 DEF Z3Low, Writing
  <2>2. z3_current \in DOMAIN Zorro3 /\ probed \in Boards /\ base[probed] \in Address
    BY <2>1, ProbedIsCurrent
  <2> DEFINE part == Top(Z3Base) + Mid(base[probed]) + Low(base[probed])
  <2>3. Z3Base \in Address  BY <2>2 DEF RangesInv, PartsInv, Z3Base
  <2>4. part \in Address /\ Mid(part) = Mid(base[probed]) /\ Low(part) = Low(base[probed])
    BY <2>2, <2>3, Z3LowParts
  <2>5. ac_base' \in [DOMAIN Zorro2 \cup DOMAIN Zorro3 -> Address] /\ Z3Base' = part
    <3>1. ac_base' = [ac_base EXCEPT ![z3_current] = part] /\ z3_current' = z3_current
      BY <2>1 DEF places
    <3> HIDE DEF part
    <3> QED  BY <2>2, <2>4, <3>1 DEF RangesInv, PartsInv, Z3Base
  <2>6. PartsInv'
    <3> HIDE DEF part
    <3>1. UNCHANGED <<base, probed, z2_done>>  BY <2>1 DEF config, places
    <3>2. Mid(Z3Base') = Mid(base[probed]) /\ Low(Z3Base') = Low(base[probed])  BY <2>4, <2>5
    <3> QED  BY <2>1, <2>2, <2>5, <3>1, <3>2 DEF PartsInv, RangesInv, Mid, Low
  <2>7. TablesInv'  BY <2>1, OwnSame DEF RangesInv, TablesInv, config, ranges
  <2> QED  BY <1>0, <2>6, <2>7 DEF RangesInv
<1>7. ASSUME NEW b, Z2Told(b) PROVE RangesInv'
  <2>1. io_base[b] \in Address \/ b \in Ram  BY <1>7 DEF Z2Told, RangesInv, PartsInv
  <2>2. FinishZ2(IF base[b] = NoBase THEN io_base[b] ELSE base[b])  BY <1>7 DEF Z2Told
  <2> QED  BY <1>7, <2>1, <2>2, FinishZ2Ranges DEF Z2Told
<1>8. ASSUME NEW b, Z3Told(b) PROVE RangesInv'
  BY <1>8, FinishZ3Ranges DEF Z3Told
<1>9. ASSUME Z2High \/ Z3High \/ Z3Word \/ ShutUp PROVE RangesInv'
  BY <1>7, <1>8, <1>9, ToldBoard
<1>10. ASSUME NEW a, CpuRead(a) \/ CpuWrite(a) PROVE RangesInv'
  BY <1>0, <1>10, RangesSame DEF CpuRead, CpuWrite, program
<1>11. ASSUME UNCHANGED vars PROVE RangesInv'
  BY <1>0, <1>11, RangesSame DEF vars, program
<1> QED  BY <1>1, <1>2, <1>3, <1>4, <1>5, <1>6, <1>9, <1>10, <1>11
         DEF Next, Starting, AutoConfig

\* The tables hold what belongs to the configuration in every state.
LEMMA RangesAlways == ASSUME AllPlaced PROVE Spec => []RangesInv
<1>1. Init => RangesInv  BY RangesInit
<1>2. RangesInv /\ [Next]_vars => RangesInv'  BY RangesStep
<1> QED  BY <1>1, <1>2, PTL DEF Spec

\* A memory board's address is that of no other board and no ROM, so that what is found
\* there is the board's own memory.
THEOREM RangesOwn == ASSUME AllPlaced PROVE Spec => []RangesOfTheirOwn
<1>1. RangesInv => RangesOfTheirOwn
  <2> SUFFICES ASSUME RangesInv, NEW b \in Configured \cap Ram,
                      NEW t \in {read_ranges, write_ranges}, NEW i \in Hits(t, base[b])
               PROVE  t[i].data = Memory(b)
    BY DEF RangesOfTheirOwn
  <2>1. b \in Boards /\ b \in Ram /\ base[b] # NoBase  BY DEF Configured
  <2>2. t \in Seq(Own) /\ i \in DOMAIN t /\ t[i].addr = base[b]
    BY DEF RangesInv, TablesInv, Hits
  <2>3. t[i] \in Own  BY <2>2
  <2>4. CASE \E c \in Ram \cap Boards : t[i] = Entry(base[c], Memory(c))
    <3>1. PICK c \in Ram \cap Boards : t[i] = Entry(base[c], Memory(c))  BY <2>4
    <3>2. base[c] = base[b]  BY <2>2, <3>1 DEF Entry
    <3>3. c = b  BY <2>1, <3>2, MapAssumption DEF RangesInv, TablesInv
    <3> QED  BY <3>1, <3>3 DEF Entry
  <2>5. CASE \E r \in Roms : t[i] = Entry(FileAddress[r], Memory(r))
    <3>1. PICK r \in Roms : t[i] = Entry(FileAddress[r], Memory(r))  BY <2>5
    <3>2. FileAddress[r] = base[b]  BY <2>2, <3>1 DEF Entry
    <3> QED  BY <2>1, <3>2, MapAssumption DEF RangesInv, TablesInv
  <2> QED  BY <2>3, <2>4, <2>5 DEF Own
<1> QED  BY <1>1, RangesAlways, PTL

-----------------------------------------------------------------------------
(***************************************************************************)
(* What the CPU's accesses reach.  The three look-ups are filled at        *)
(* different times, so that the invariant says of each what it holds of    *)
(* the boards that have their addresses.                                   *)
(***************************************************************************)

Holds(t, e) == \E i \in DOMAIN t : t[i] = e

\* The core's tables: as long as there is room in the one for reading, none of the two
\* lacks a configured board.
FilledInv ==
    /\ Len(write_ranges) <= Len(read_ranges)
    /\ amiga = "loading" => write_ranges = <<>>
    /\ Len(read_ranges) < MaxRanges =>
          /\ \A i \in DOMAIN write_ranges : Holds(read_ranges, write_ranges[i])
          /\ \A b \in Configured \cap Ram : Holds(write_ranges, Entry(base[b], Memory(b)))

\* The map and the boards' registers: an item is where the file or the Amiga put it.
MapInv ==
    /\ \A c \in Seen(Items) : \/ map_offset[c] = FileAddress[c]
                              \/ c \in Ram \cap Boards /\ map_offset[c] = base[c]
    /\ \A b \in Configured \cap Ram : map_offset[b] = base[b]
    /\ \A d \in Configured \cap IoBoards : io_base[d] = base[d]

\* The address of a board that has none in this boot, if it is not 0, is one that an
\* earlier boot gave it, or began to.
IoInv ==
    \A d \in IoBoards : io_base[d] # 0 =>
        d \in Boards /\ \E g \in Assignments : g[d] # NoBase /\ io_base[d] \in {g[d], Low(g[d])}

\* A list that is done has been gone through.
DoneInv ==
    amiga # "loading" => /\ z2_done => \A i \in DOMAIN Zorro2 : i < z2_current
                         /\ z3_done => \A i \in DOMAIN Zorro3 : i < z3_current

\* The caches hold what was in a table of this configuration, or an earlier one's.
CacheInv ==
    \A c \in {fc_read, fc_write} : c.addr = NoBase \/ c.data[1] < load \/ c \in Own

\* The ranges the platform looks at: those of the map once the window is closed; the
\* window's address is in them before.
LimitsInv ==
    amiga # "loading" =>
        /\ ~Open => mapped = MappedRange(map_offset) /\ custom = CustomRange(TRUE, io_base["PISCSI"])
        /\ Open => \E p \in Address : custom = CustomRange(FALSE, p)
        /\ Open => Zorro2 # <<>> \/ Zorro3 # <<>>
        /\ amiga = "booted" => ~Open

\* The first part of a Zorro II board's address is written.
Z2Part ==
    /\ amiga # "loading" /\ ~z2_done /\ z2_current \in DOMAIN Zorro2
    /\ Zorro2[z2_current] \in Boards \cap IoBoards /\ base[Zorro2[z2_current]] # NoBase
    /\ io_base' = [io_base EXCEPT ![Zorro2[z2_current]] = Low(base[Zorro2[z2_current]])]

\* A cache is filled from a table.
Fills(c, t) == \E a : Hits(t, a) # {} /\ c = FirstHit(t, a)

\* Everything else that happens leaves the look-ups and the places alone.
Aside ==
    /\ UNCHANGED <<config, map_offset, ranges, places, limits>>
    /\ amiga' = "loading" <=> amiga = "loading"
    /\ amiga' = "booted" => amiga = "booted" \/ ~Reachable
    /\ io_base' = io_base \/ Z2Part
    /\ fc_read' = fc_read \/ Fills(fc_read', read_ranges)
    /\ fc_write' = fc_write \/ Fills(fc_write', write_ranges)

\* The steps, as far as the look-ups are concerned.
LEMMA StepKinds ==
    ASSUME AllPlaced, RangesInv, [Next]_vars
    PROVE  AddMapping \/ ResetAmiga \/ LoadConfig \/ Aside \/ (\E b : Z2Told(b)) \/ (\E b : Z3Told(b))
<1>1. CASE Boot \/ Reset  BY <1>1 DEF Boot, Reset
<1>2. CASE Probe \/ ProbeBus \/ WritePhysical
  BY <1>2 DEF Probe, ProbeBus, WritePhysical, Aside, caches
<1>3. CASE Z2Low
  <2>1. /\ amiga = "write" /\ Target # "physical" /\ base[probed] # NoBase /\ ~z2_done
        /\ UNCHANGED <<config, map_offset, ranges, places, limits, caches>> /\ amiga' = "finish"
    BY <1>3 DEF Z2Low, Writing
  <2>2. /\ z2_current \in DOMAIN Zorro2 /\ probed = Zorro2[z2_current] /\ probed \in Ram \cup IoBoards
        /\ probed = Current /\ probed \in Boards
    BY <2>1, ProbedIsCurrent
  <2>3. io_base' = io_base \/ Z2Part
    <3>1. CASE probed \in Ram  BY <1>3, <2>2, <3>1 DEF Z2Low
    <3>2. CASE probed \notin Ram
      <4>1. io_base' = [io_base EXCEPT ![probed] = Low(base[probed])]
        BY <1>3, <2>2, <3>2 DEF Z2Low
      <4> QED  BY <2>1, <2>2, <3>2, <4>1 DEF Z2Part
    <3> QED  BY <3>1, <3>2
  <2> QED  BY <2>1, <2>3 DEF Aside, caches
<1>4. CASE Z3Low  BY <1>4 DEF Z3Low, Writing, Aside, caches
<1>5. CASE Z2High \/ Z3High \/ Z3Word \/ ShutUp  BY <1>5, ToldBoard
<1>6. CASE \E i \in DOMAIN read_ranges : CpuRead(read_ranges[i].addr)
  BY <1>6 DEF CpuRead, Aside, Fills, program
<1>7. CASE \E i \in DOMAIN write_ranges : CpuWrite(write_ranges[i].addr)
  BY <1>7 DEF CpuWrite, Aside, Fills, program
<1>8. CASE UNCHANGED vars  BY <1>8 DEF vars, Aside, caches, program
<1> QED  BY <1>1, <1>2, <1>3, <1>4, <1>5, <1>6, <1>7, <1>8 DEF Next, Starting, AutoConfig

-----------------------------------------------------------------------------
\* The boards that have their addresses.

\* A step aside configures no board ...
LEMMA ConfiguredAside == ASSUME Aside PROVE Configured' = Configured
<1>1. UNCHANGED <<base, z2_current, z3_current>>  BY DEF Aside, config, places
<1>2. amiga' = "loading" <=> amiga = "loading"  BY DEF Aside
<1> QED  BY <1>1, <1>2 DEF Configured

\* ... a reset takes all addresses away ...
LEMMA ConfiguredReset == ASSUME ResetAmiga PROVE Configured' = {}
<1>1. z2_current' = 1 /\ z3_current' = 1  BY DEF ResetAmiga
<1>2. Zorro2 \in Seq(STRING) /\ Zorro3 \in Seq(STRING)  BY MapAssumption
<1>3. ASSUME NEW z \in Seq(STRING), NEW i \in DOMAIN z PROVE ~(i < 1)
  <2>1. i \in 1 .. Len(z)  OBVIOUS
  <2> QED  BY <2>1
<1> QED  BY <1>1, <1>2, <1>3 DEF Configured

\* ... and a board that is told its address is the only one that gets one.
LEMMA ConfiguredZ2 ==
    ASSUME PlacesInv, NEW b, Z2Told(b)
    PROVE  Configured' \subseteq Configured \cup {b} /\ (b \in Configured' => base[b] # NoBase)
<1>1. /\ UNCHANGED <<base, z3_current>> /\ z2_current' = z2_current + 1 /\ b = Zorro2[z2_current]
      /\ amiga # "loading" /\ z2_current \in Nat
  BY DEF Z2Told, FinishZ2, config, PlacesInv
<1>2. ASSUME NEW i \in DOMAIN Zorro2, i < z2_current', i # z2_current PROVE i < z2_current
  <2>1. Zorro2 \in Seq(STRING)  BY MapAssumption
  <2>2. i \in Nat  BY <2>1, PlaceInList
  <2> QED  BY <1>1, <1>2, <2>2
<1>3. ASSUME NEW c \in Configured', c # b PROVE c \in Configured
  <2>1. c \in Boards /\ base[c] # NoBase
        /\ \/ \E i \in DOMAIN Zorro2 : i < z2_current' /\ Zorro2[i] = c
           \/ \E i \in DOMAIN Zorro3 : i < z3_current /\ Zorro3[i] = c
    BY <1>1, <1>3 DEF Configured
  <2> QED  BY <1>1, <1>2, <1>3, <2>1 DEF Configured
<1>4. ASSUME b \in Configured' PROVE base[b] # NoBase
  BY <1>1, <1>4 DEF Configured
<1> QED  BY <1>3, <1>4

\* The same of a Zorro III board.
LEMMA ConfiguredZ3 ==
    ASSUME PlacesInv, NEW b, Z3Told(b)
    PROVE  Configured' \subseteq Configured \cup {b}
<1>1. /\ UNCHANGED <<base, z2_current>> /\ z3_current' = z3_current + 1 /\ b = Zorro3[z3_current]
      /\ amiga # "loading" /\ z3_current \in Nat
  BY DEF Z3Told, FinishZ3, config, PlacesInv
<1>2. ASSUME NEW i \in DOMAIN Zorro3, i < z3_current', i # z3_current PROVE i < z3_current
  <2>1. Zorro3 \in Seq(STRING)  BY MapAssumption
  <2>2. i \in Nat  BY <2>1, PlaceInList
  <2> QED  BY <1>1, <1>2, <2>2
<1>3. ASSUME NEW c \in Configured', c # b PROVE c \in Configured
  <2>1. c \in Boards /\ base[c] # NoBase
        /\ \/ \E i \in DOMAIN Zorro2 : i < z2_current /\ Zorro2[i] = c
           \/ \E i \in DOMAIN Zorro3 : i < z3_current' /\ Zorro3[i] = c
    BY <1>1, <1>3 DEF Configured
  <2> QED  BY <1>1, <1>2, <1>3, <2>1 DEF Configured
<1> QED  BY <1>3

\* The board whose turn it is is not among them.
LEMMA CurrentHasNone ==
    ASSUME PlacesInv, z2_current \in DOMAIN Zorro2
    PROVE  Zorro2[z2_current] \notin Configured
<1>1. z2_current \in Nat  BY DEF PlacesInv
<1>2. \A i, j \in DOMAIN Zorro2 : Zorro2[i] = Zorro2[j] => i = j  BY MapAssumption
<1>3. Seen(Zorro2) \cap Seen(Zorro3) = {}  BY MapAssumption
<1>4. \A i \in DOMAIN Zorro2 : i < z2_current => Zorro2[i] # Zorro2[z2_current]
  BY <1>1, <1>2
<1>5. \A i \in DOMAIN Zorro3 : Zorro3[i] # Zorro2[z2_current]
  BY <1>3 DEF Seen
<1> QED  BY <1>4, <1>5 DEF Configured

-----------------------------------------------------------------------------
\* The core's tables.

\* A board that is mapped where it should be is in both tables, while there is room in them.
LEMMA MapRamFills ==
    ASSUME TablesInv, FilledInv, Len(read_ranges) <= MaxRanges, UNCHANGED <<load, base>>,
           NEW b \in Ram \cap Boards, base[b] # NoBase, MapRam(b, base[b]),
           Configured' \subseteq Configured \cup {b}, amiga' # "loading"
    PROVE  FilledInv'
<1> DEFINE e == Entry(base[b], Memory(b))
           r == read_ranges
           w == write_ranges
           R == read_ranges'
           W == write_ranges'
<1>1. r \in Seq(Own) /\ w \in Seq(Own) /\ base \in Assignments  BY DEF TablesInv
<1>2. e \in Own  BY DEF Own
<1>3. Len(r) \in Nat /\ Len(w) \in Nat /\ Len(w) <= Len(r) /\ Len(r) <= MaxRanges
      /\ DOMAIN r = 1 .. Len(r) /\ DOMAIN w = 1 .. Len(w) /\ MaxRanges \in Nat
  BY <1>1, LenProperties, RangesAssumption DEF FilledInv
<1>4. ASSUME NEW i \in DOMAIN w, w[i].addr = base[b] \/ w[i].data = Memory(b) PROVE w[i] = e
  <2>1. w[i] \in Own  BY <1>1
  <2>2. CASE \E c \in Ram \cap Boards : w[i] = Entry(base[c], Memory(c))
    <3>1. PICK c \in Ram \cap Boards : w[i] = Entry(base[c], Memory(c))  BY <2>2
    <3>2. base[c] = base[b] \/ c = b  BY <1>4, <3>1 DEF Entry, Memory
    <3>3. c = b  BY <1>1, <3>2, MapAssumption
    <3> QED  BY <3>1, <3>3
  <2>3. CASE \E s \in Roms : w[i] = Entry(FileAddress[s], Memory(s))
    <3>1. PICK s \in Roms : w[i] = Entry(FileAddress[s], Memory(s))  BY <2>3
    <3>2. FileAddress[s] # base[b]  BY <1>1, MapAssumption
    <3>3. s # b  BY DEF Ram
    <3> QED  BY <1>4, <3>1, <3>2, <3>3 DEF Entry, Memory
  <2> QED  BY <2>1, <2>2, <2>3 DEF Own
<1>5. /\ R = AddRamRange(r, w, base[b], Memory(b)).read
      /\ W = AddRamRange(r, w, base[b], Memory(b)).write
  BY DEF MapRam
<1>6. Memory(b)' = Memory(b) /\ \A c : Memory(c)' = Memory(c)  BY DEF Memory
<1>7. CASE Same(w, base[b], Memory(b)) # {}
  <2> DEFINE S == Same(w, base[b], Memory(b))
             k == CHOOSE i \in S : \A j \in S : i <= j
  <2>1. \A i \in S : i \in DOMAIN w /\ w[i] = e  BY <1>4 DEF Same
  <2>2. PICK m \in S : \A j \in S : m <= j
    <3>1. S \in SUBSET Nat  BY <1>3, <2>1
    <3> QED  BY <1>7, <3>1, LeastNumber
  <2>3. k \in S  BY <2>2
  <2>4. W = [w EXCEPT ![k] = e] /\ R = r  BY <1>5, <1>7 DEF AddRamRange, Adjusted
  <2>5. W = w
    <3>1. w = [i \in DOMAIN w |-> w[i]]  BY <1>1
    <3> HIDE DEF k, S, e
    <3> QED  BY <2>1, <2>3, <2>4, <3>1
  <2>6. Holds(w, e)  BY <2>1, <2>2 DEF Holds
  <2>7. ASSUME Len(r) < MaxRanges, NEW c \in Configured' \cap Ram PROVE Holds(w, Entry(base[c], Memory(c)))
    BY <2>6, <2>7 DEF FilledInv
  <2> HIDE DEF e
  <2>8. ASSUME Len(r) < MaxRanges, NEW i \in DOMAIN w PROVE Holds(r, w[i])
    BY <2>8 DEF FilledInv
  <2> QED  BY <1>3, <1>6, <2>4, <2>5, <2>7 DEF FilledInv
<1>8. CASE Same(w, base[b], Memory(b)) = {}
  <2>1. R = Added(r, base[b], Memory(b)) /\ W = Added(w, base[b], Memory(b))
    BY <1>5, <1>8 DEF AddRamRange
  <2>2. /\ R = IF Len(r) < MaxRanges THEN Append(r, e) ELSE r
        /\ W = IF Len(w) < MaxRanges THEN Append(w, e) ELSE w
    BY <2>1 DEF Added
  <2> HIDE DEF e
  <2>3. CASE Len(r) < MaxRanges
    <3>1. R = Append(r, e) /\ W = Append(w, e)
      <4>1. Len(w) < MaxRanges  BY <1>3, <2>3
      <4> QED  BY <2>2, <2>3, <4>1, Zenon
    <3>2. Len(R) = Len(r) + 1 /\ Len(W) = Len(w) + 1 /\ DOMAIN R = 1 .. Len(r) + 1 /\ DOMAIN W = 1 .. Len(w) + 1
      BY <1>1, <1>2, <3>1, AppendProperties
    <3>3. /\ \A i \in 1 .. Len(r) : R[i] = r[i]
          /\ \A i \in 1 .. Len(w) : W[i] = w[i]
          /\ R[Len(r) + 1] = e /\ W[Len(w) + 1] = e
      BY <1>1, <1>2, <3>1, AppendProperties
    <3>4. /\ \A x : Holds(r, x) \/ x = e => Holds(R, x)
          /\ \A x : Holds(w, x) \/ x = e => Holds(W, x)
      <4>1. /\ Len(r) + 1 \in DOMAIN R /\ Len(w) + 1 \in DOMAIN W
            /\ DOMAIN r \subseteq DOMAIN R /\ DOMAIN w \subseteq DOMAIN W
        BY <1>3, <3>2
      <4> QED  BY <1>3, <3>3, <4>1 DEF Holds
    <3>5. ASSUME NEW i \in DOMAIN W PROVE Holds(R, W[i])
      <4>1. i \in DOMAIN w \/ i = Len(w) + 1  BY <1>3, <3>2
      <4> QED  BY <1>3, <2>3, <3>3, <3>4, <4>1 DEF FilledInv
    <3>6. ASSUME NEW c \in Configured' \cap Ram PROVE Holds(W, Entry(base[c], Memory(c)))
      BY <2>3, <3>4 DEF FilledInv, e
    <3>7. Len(W) <= Len(R)  BY <1>3, <3>2
    <3>8. \A c \in Configured' \cap Ram : Holds(write_ranges, Entry(base[c], Memory(c)))'
      <4>1. base' = base  OBVIOUS
      <4> QED  BY <1>6, <3>6, <4>1 DEF Entry
    <3>9. \A i \in DOMAIN W : Holds(R, W[i])  BY <3>5
    <3> HIDE DEF R, W
    <3> QED  BY <3>7, <3>8, <3>9 DEF FilledInv, R, W
  <2>4. CASE ~(Len(r) < MaxRanges)
    <3>1. R = r  BY <2>2, <2>4
    <3>2. Len(r) = MaxRanges
      <4> DEFINE n == Len(r)
      <4>1. n \in Nat /\ n <= MaxRanges /\ ~(n < MaxRanges) /\ MaxRanges \in Nat  BY <1>3, <2>4
      <4> HIDE DEF n
      <4>2. n = MaxRanges  BY <4>1
      <4> QED  BY <4>2 DEF n
    <3>3. Len(W) <= MaxRanges
      <4>1. CASE Len(w) < MaxRanges
        <5>1. W = Append(w, e)  BY <2>2, <4>1
        <5>2. Len(W) = Len(w) + 1  BY <1>1, <1>2, <5>1, AppendProperties
        <5> QED  BY <1>3, <4>1, <5>2
      <4>2. CASE ~(Len(w) < MaxRanges)  BY <1>3, <2>2, <4>2
      <4> QED  BY <4>1, <4>2
    <3> QED  BY <1>3, <3>1, <3>2, <3>3 DEF FilledInv
  <2> QED  BY <2>3, <2>4
<1> QED  BY <1>7, <1>8

\* All that the steps below need to know.
WorksInv ==
    TypeOK /\ RangesInv /\ FilledInv /\ MapInv /\ IoInv /\ DoneInv /\ CacheInv /\ LimitsInv

\* The tables are the same, and no memory board has got an address.
LEMMA FilledSame ==
    ASSUME FilledInv, UNCHANGED <<ranges, load, base>>, Configured' \cap Ram \subseteq Configured,
           amiga' = "loading" => amiga = "loading"
    PROVE  FilledInv'
<1>1. read_ranges' = read_ranges /\ write_ranges' = write_ranges /\ base' = base /\ load' = load
  BY DEF ranges
<1>2. \A c : Memory(c)' = Memory(c)  BY <1>1 DEF Memory
<1>3. Len(write_ranges') <= Len(read_ranges') /\ (amiga' = "loading" => write_ranges' = <<>>)
  BY <1>1 DEF FilledInv
<1>4. ASSUME Len(read_ranges) < MaxRanges
      PROVE  /\ \A i \in DOMAIN write_ranges : Holds(read_ranges, write_ranges[i])
             /\ \A b \in Configured' \cap Ram : Holds(write_ranges, Entry(base[b], Memory(b)))
  BY <1>4 DEF FilledInv
<1>5. \A b : Holds(write_ranges, Entry(base[b], Memory(b)))' <=> Holds(write_ranges, Entry(base[b], Memory(b)))
  BY <1>1, <1>2 DEF Holds, Entry
<1>6. \A i : Holds(read_ranges, write_ranges[i])' <=> Holds(read_ranges, write_ranges[i])
  BY <1>1 DEF Holds
<1> QED  BY <1>1, <1>3, <1>4, <1>5, <1>6 DEF FilledInv

\* No step leaves a configured board out of the tables while there is room.
LEMMA FilledStep == ASSUME AllPlaced, WorksInv, [Next]_vars PROVE FilledInv'
<1>a. RangesInv' /\ TablesInv /\ PlacesInv /\ FilledInv /\ Len(read_ranges) <= MaxRanges
  BY RangesStep DEF WorksInv, RangesInv, TypeOK
<1>1. CASE AddMapping
  <2>1. amiga' = "loading" /\ write_ranges' = <<>>
    BY <1>1, <1>a DEF AddMapping, FilledInv
  <2>2. Configured' = {}  BY <2>1 DEF Configured
  <2>3. Len(write_ranges') <= Len(read_ranges')
    <3>1. Len(read_ranges') \in Nat  BY <1>a DEF RangesInv, TablesInv
    <3> QED  BY <2>1, <3>1
  <2> QED  BY <2>1, <2>2, <2>3 DEF FilledInv
<1>2. CASE ResetAmiga
  BY <1>2, <1>a, ConfiguredReset, FilledSame DEF ResetAmiga, config
<1>3. CASE LoadConfig
  <2>1. amiga' = "loading" /\ write_ranges' = <<>> /\ read_ranges' = <<>>
    BY <1>3 DEF LoadConfig
  <2>2. Configured' = {}  BY <2>1 DEF Configured
  <2> QED  BY <2>1, <2>2 DEF FilledInv
<1>4. CASE Aside
  <2>1. Configured' = Configured  BY <1>4, ConfiguredAside
  <2> QED  BY <1>4, <1>a, <2>1, FilledSame DEF Aside, config
<1>5. ASSUME NEW b, Z2Told(b) PROVE FilledInv'
  <2>1. /\ UNCHANGED <<load, base>> /\ amiga' = "probe" /\ b = Zorro2[z2_current]
        /\ b \in Boards /\ (b \in Ram => base[b] # NoBase)
    BY <1>5 DEF Z2Told, FinishZ2, config
  <2>2. Configured' \subseteq Configured \cup {b}  BY <1>a, <1>5, ConfiguredZ2
  <2>3. CASE b \in Ram
    <3>1. MapRam(b, base[b])  BY <1>5, <2>1, <2>3 DEF Z2Told, FinishZ2
    <3> QED  BY <1>a, <2>1, <2>2, <2>3, <3>1, MapRamFills
  <2>4. CASE b \notin Ram
    <3>1. UNCHANGED ranges  BY <1>5, <2>1, <2>4 DEF Z2Told, FinishZ2
    <3> QED  BY <1>a, <2>1, <2>2, <2>4, <3>1, FilledSame
  <2> QED  BY <2>3, <2>4
<1>6. ASSUME NEW b, Z3Told(b) PROVE FilledInv'
  <2>1. /\ UNCHANGED <<load, base>> /\ amiga' = "probe" /\ MapRam(b, base[b])
        /\ b \in Ram \cap Boards /\ base[b] # NoBase
    BY <1>6 DEF Z3Told, FinishZ3, config
  <2>2. Configured' \subseteq Configured \cup {b}  BY <1>a, <1>6, ConfiguredZ3
  <2> QED  BY <1>a, <2>1, <2>2, MapRamFills
<1> QED  BY <1>1, <1>2, <1>3, <1>4, <1>5, <1>6, StepKinds DEF WorksInv

\* No step takes a configured board off the map or its registers from where they are.
LEMMA MapStep == ASSUME AllPlaced, WorksInv, [Next]_vars PROVE MapInv'
<1>a. /\ MapInv /\ PlacesInv /\ map_offset \in [Seen(Items) -> Address] /\ io_base \in [IoBoards -> Address]
  BY DEF WorksInv, RangesInv, TypeOK
<1>u. ASSUME UNCHANGED <<map_offset, base>>, Configured' = {} PROVE MapInv'
  BY <1>a, <1>u DEF MapInv
<1>1. CASE AddMapping
  <2>1. Configured' = {} /\ UNCHANGED <<map_offset, base>>
    BY <1>1 DEF AddMapping, Configured, config
  <2> QED  BY <2>1, <1>u
<1>2. CASE ResetAmiga
  <2>1. UNCHANGED <<map_offset, base>>  BY <1>2 DEF ResetAmiga, config
  <2> QED  BY <2>1, <1>2, <1>u, ConfiguredReset
<1>3. CASE LoadConfig
  <2>1. Configured' = {} /\ map_offset' = FileAddress  BY <1>3 DEF LoadConfig, Configured
  <2> QED  BY <2>1 DEF MapInv
<1>4. CASE Aside
  <2>1. Configured' = Configured  BY <1>4, ConfiguredAside
  <2>2. UNCHANGED <<map_offset, base>>  BY <1>4 DEF Aside, config
  <2>3. ASSUME NEW d \in Configured \cap IoBoards PROVE io_base'[d] = io_base[d]
    <3>1. CASE io_base' = io_base  BY <3>1
    <3>2. CASE Z2Part
      <4>1. d # Zorro2[z2_current]  BY <1>a, <3>2, CurrentHasNone DEF Z2Part
      <4> QED  BY <1>a, <3>2, <4>1 DEF Z2Part
    <3> QED  BY <1>4, <3>1, <3>2 DEF Aside
  <2> QED  BY <1>a, <2>1, <2>2, <2>3 DEF MapInv
<1>5. ASSUME NEW b, Z2Told(b) PROVE MapInv'
  <2>1. base' = base /\ b = Zorro2[z2_current] /\ b \in Boards /\ b \in Ram \cup IoBoards
    BY <1>5 DEF Z2Told, FinishZ2, config
  <2>2. Configured' \subseteq Configured \cup {b} /\ (b \in Configured' => base[b] # NoBase)
    BY <1>a, <1>5, ConfiguredZ2
  <2>3. CASE b \in Ram
    <3>1. MapRam(b, base[b]) /\ io_base' = io_base  BY <1>5, <2>1, <2>3 DEF Z2Told, FinishZ2
    <3>2. map_offset' = [map_offset EXCEPT ![b] = base[b]] /\ b \notin IoBoards
      <4>1. Ram \cap IoBoards = {}  BY MapAssumption
      <4> QED  BY <2>3, <3>1, <4>1 DEF MapRam
    <3> QED  BY <1>a, <2>1, <2>2, <2>3, <3>1, <3>2 DEF MapInv, Ram
  <2>4. CASE b \notin Ram
    <3>1. map_offset' = map_offset  BY <1>5, <2>1, <2>4 DEF Z2Told, FinishZ2
    <3>2. io_base' = [io_base EXCEPT ![b] = IF base[b] = NoBase THEN io_base[b] ELSE base[b]]
      BY <1>5, <2>1, <2>4, Zenon DEF Z2Told, FinishZ2
    <3> QED  BY <1>a, <2>1, <2>2, <2>4, <3>1, <3>2 DEF MapInv
  <2> QED  BY <2>3, <2>4
<1>6. ASSUME NEW b, Z3Told(b) PROVE MapInv'
  <2>1. /\ UNCHANGED <<base, io_base>> /\ map_offset' = [map_offset EXCEPT ![b] = base[b]]
        /\ b \in Ram \cap Boards /\ b \notin IoBoards
    <3>1. Ram \cap IoBoards = {}  BY MapAssumption
    <3> QED  BY <1>6, <3>1 DEF Z3Told, FinishZ3, MapRam, config
  <2>2. Configured' \subseteq Configured \cup {b}  BY <1>a, <1>6, ConfiguredZ3
  <2> QED  BY <1>a, <2>1, <2>2 DEF MapInv, Ram
<1> QED  BY <1>1, <1>2, <1>3, <1>4, <1>5, <1>6, StepKinds DEF WorksInv

\* No step gives a board's registers an address that is not one of its own.
LEMMA IoStep == ASSUME AllPlaced, WorksInv, [Next]_vars PROVE IoInv'
<1>a. IoInv /\ io_base \in [IoBoards -> Address] /\ base \in Assignments
  BY DEF WorksInv, TypeOK
<1>s. ASSUME NEW d \in Boards, base[d] # NoBase, NEW x \in {base[d], Low(base[d])},
             io_base' = [io_base EXCEPT ![d] = x]
      PROVE  IoInv'
  BY <1>a, <1>s DEF IoInv
<1>1. CASE AddMapping \/ ResetAmiga \/ LoadConfig
  <2>1. io_base' = io_base  BY <1>1 DEF AddMapping, ResetAmiga, LoadConfig
  <2> QED  BY <1>a, <2>1 DEF IoInv
<1>2. CASE Aside
  <2>1. CASE io_base' = io_base  BY <1>a, <2>1 DEF IoInv
  <2>2. CASE Z2Part  BY <1>s, <2>2 DEF Z2Part
  <2> QED  BY <1>2, <2>1, <2>2 DEF Aside
<1>3. ASSUME NEW b, Z2Told(b) PROVE IoInv'
  <2>1. b = Zorro2[z2_current] /\ b \in Boards /\ b \in Ram \cup IoBoards  BY <1>3 DEF Z2Told
  <2>2. CASE io_base' = io_base  BY <1>a, <2>2 DEF IoInv
  <2>3. CASE io_base' # io_base
    <3>1. io_base' = [io_base EXCEPT ![b] = IF base[b] = NoBase THEN io_base[b] ELSE base[b]]
      BY <1>3, <2>1, <2>3, Zenon DEF Z2Told, FinishZ2
    <3>2. base[b] # NoBase  BY <1>a, <2>3, <3>1
    <3>3. io_base' = [io_base EXCEPT ![b] = base[b]]  BY <3>1, <3>2
    <3> QED  BY <1>s, <2>1, <3>2, <3>3
  <2> QED  BY <2>2, <2>3
<1>4. ASSUME NEW b, Z3Told(b) PROVE IoInv'
  <2>1. io_base' = io_base  BY <1>4 DEF Z3Told, FinishZ3
  <2> QED  BY <1>a, <2>1 DEF IoInv
<1> QED  BY <1>1, <1>2, <1>3, <1>4, StepKinds DEF WorksInv

\* No step calls a list done that has not been gone through.
LEMMA DoneStep == ASSUME AllPlaced, WorksInv, [Next]_vars PROVE DoneInv'
<1>a. DoneInv /\ PlacesInv  BY DEF WorksInv, RangesInv
<1>b. Zorro2 \in Seq(STRING) /\ Zorro3 \in Seq(STRING)  BY MapAssumption
<1>c. ASSUME NEW z \in Seq(STRING), NEW i \in DOMAIN z, NEW k \in Nat, k = Len(z) PROVE i < k + 1
  <2>1. i \in Nat /\ i <= Len(z)  BY PlaceInList
  <2> QED  BY <1>c, <2>1
<1>1. CASE AddMapping \/ LoadConfig
  BY <1>1 DEF AddMapping, LoadConfig, DoneInv
<1>2. CASE ResetAmiga
  <2>1. z2_done' = (Zorro2 = <<>>) /\ z3_done' = (Zorro3 = <<>>)  BY <1>2 DEF ResetAmiga
  <2>2. /\ z2_done' => Zorro2 = <<>>
        /\ z3_done' => Zorro3 = <<>>
    BY <2>1, Zenon
  <2>3. \A i : i \notin DOMAIN <<>>  OBVIOUS
  <2> QED  BY <2>2, <2>3 DEF DoneInv
<1>3. CASE Aside
  BY <1>a, <1>3 DEF Aside, DoneInv, places
<1>4. ASSUME NEW b, Z2Told(b) PROVE DoneInv'
  <2>1. /\ UNCHANGED <<z3_current, z3_done>> /\ amiga # "loading"
        /\ z2_current' = z2_current + 1 /\ z2_done' = (z2_current = Len(Zorro2)) /\ z2_current \in Nat
    BY <1>a, <1>4 DEF Z2Told, FinishZ2, PlacesInv
  <2>2. z2_done' => \A i \in DOMAIN Zorro2 : i < z2_current'  BY <1>b, <1>c, <2>1
  <2> QED  BY <1>a, <2>1, <2>2 DEF DoneInv
<1>5. ASSUME NEW b, Z3Told(b) PROVE DoneInv'
  <2>1. /\ UNCHANGED <<z2_current, z2_done>> /\ amiga # "loading"
        /\ z3_current' = z3_current + 1 /\ z3_done' = (z3_current = Len(Zorro3)) /\ z3_current \in Nat
    BY <1>a, <1>5 DEF Z3Told, FinishZ3, PlacesInv
  <2>2. z3_done' => \A i \in DOMAIN Zorro3 : i < z3_current'  BY <1>b, <1>c, <2>1
  <2> QED  BY <1>a, <2>1, <2>2 DEF DoneInv
<1> QED  BY <1>1, <1>2, <1>3, <1>4, <1>5, StepKinds DEF WorksInv

\* What a cache is filled with was in the table.
LEMMA FillsFrom ==
    ASSUME NEW S, NEW t \in Seq(S), NEW c, Fills(c, t)
    PROVE  c \in S
<1>1. PICK a : Hits(t, a) # {} /\ c = FirstHit(t, a)  BY DEF Fills
<1> QED  BY <1>1, FirstHitIs

\* No step puts anything else into a cache, and a new configuration leaves old memory there.
LEMMA CacheStep == ASSUME AllPlaced, WorksInv, [Next]_vars PROVE CacheInv'
<1>a. /\ CacheInv /\ load \in Nat /\ read_ranges \in Seq(Own) /\ write_ranges \in Seq(Own)
      /\ fc_read.data[1] \in Nat /\ fc_write.data[1] \in Nat
  BY DEF WorksInv, RangesInv, TablesInv, TypeOK, Entries
<1>1. CASE LoadConfig
  <2>1. load' = load + 1 /\ UNCHANGED caches  BY <1>1 DEF LoadConfig
  <2>2. ASSUME NEW c \in {fc_read, fc_write} PROVE c.addr = NoBase \/ c.data[1] < load + 1
    <3>1. ASSUME c \in Own PROVE c.data[1] = load  BY <3>1 DEF Own, Entry, Memory
    <3>2. c.data[1] \in Nat  BY <1>a
    <3>3. c.data[1] < load \/ c.data[1] = load => c.data[1] < load + 1  BY <1>a, <3>2
    <3> QED  BY <1>a, <3>1, <3>3 DEF CacheInv
  <2> QED  BY <2>1, <2>2 DEF CacheInv, caches
<1>u. ASSUME UNCHANGED <<load, base>>, NEW c \in {fc_read, fc_write},
             NEW d, d = c \/ d \in Own
      PROVE  d.addr = NoBase \/ d.data[1] < load' \/ d \in Own'
  BY <1>a, <1>u, OwnSame DEF CacheInv
<1>2. CASE Aside
  <2>1. UNCHANGED <<load, base>>  BY <1>2 DEF Aside, config
  <2>2. /\ fc_read' = fc_read \/ fc_read' \in Own
        /\ fc_write' = fc_write \/ fc_write' \in Own
    BY <1>2, <1>a, FillsFrom DEF Aside
  <2> QED  BY <1>u, <2>1, <2>2 DEF CacheInv
<1>3. ASSUME UNCHANGED <<load, base, fc_read, fc_write>> PROVE CacheInv'
  BY <1>3, <1>u DEF CacheInv
<1>4. CASE AddMapping \/ ResetAmiga
  BY <1>3, <1>4 DEF AddMapping, ResetAmiga, config, caches
<1>5. ASSUME NEW b, Z2Told(b) \/ Z3Told(b) PROVE CacheInv'
  BY <1>3, <1>5 DEF Z2Told, Z3Told, FinishZ2, FinishZ3, config, caches
<1> QED  BY <1>1, <1>2, <1>4, <1>5, StepKinds DEF WorksInv

\* The window's address is in the boards' range while the window is open.
LEMMA WindowInRange ==
    ASSUME LimitsInv, amiga # "loading", Open
    PROVE  Reachable
<1>1. PICK p \in Address : custom = CustomRange(FALSE, p)  BY DEF LimitsInv
<1>2. AC_Z2_BASE \in CustomStarts(FALSE, p) /\ AC_Z2_BASE + 1 \in CustomEnds(FALSE)
  BY DEF LimitsInv, CustomStarts, CustomEnds
<1> DEFINE S == CustomStarts(FALSE, p)
           E == CustomEnds(FALSE)
<1>3. custom = [low |-> Least(S), high |-> Greatest(E)] /\ S \in SUBSET Nat /\ E \in SUBSET (0 .. 64)
  BY <1>1, CustomRangeIs
<1> HIDE DEF S, E
<1>4. Least(S) <= AC_Z2_BASE  BY <1>2, <1>3, LeastIs DEF S
<1>5. AC_Z2_BASE + 1 <= Greatest(E) /\ Greatest(E) \in Nat  BY <1>2, <1>3, GreatestIs DEF E
<1>6. AC_Z2_BASE < Greatest(E)
  <2>1. AC_Z2_BASE \in Nat
    <3>1. AC_Z2_BASE \in Address  BY MapAssumption
    <3> QED  BY <3>1 DEF Address
  <2> QED  BY <1>5, <2>1
<1> QED  BY <1>3, <1>4, <1>6 DEF Reachable, Within

\* The ranges are adjusted whenever the window opens or closes.
LEMMA LimitsStep == ASSUME AllPlaced, WorksInv, [Next]_vars PROVE LimitsInv'
<1>a. /\ LimitsInv /\ z2_done \in BOOLEAN /\ z3_done \in BOOLEAN /\ io_base \in [IoBoards -> Address]
      /\ io_base["PISCSI"] \in Address
  BY DEF WorksInv, TypeOK, IoBoards
<1>b. TypeOK'  BY TypeStep DEF WorksInv, RangesInv
<1>c. io_base'["PISCSI"] \in Address  BY <1>b DEF TypeOK, IoBoards
<1>1. CASE AddMapping \/ LoadConfig
  BY <1>1 DEF AddMapping, LoadConfig, LimitsInv
<1>2. CASE ResetAmiga
  <2>1. /\ z2_done' = (Zorro2 = <<>>) /\ z3_done' = (Zorro3 = <<>>) /\ UNCHANGED <<map_offset, io_base>>
        /\ mapped' = MappedRange(map_offset)
        /\ custom' = CustomRange(Zorro2 = <<>> /\ Zorro3 = <<>>, io_base["PISCSI"])
        /\ amiga' = "probe"
    BY <1>2 DEF ResetAmiga, Adjust
  <2>2. CASE Zorro2 = <<>> /\ Zorro3 = <<>>
    <3>1. ~Open'  BY <2>1, <2>2 DEF Open
    <3>2. (Zorro2 = <<>> /\ Zorro3 = <<>>) = TRUE  BY <2>2
    <3> QED  BY <2>1, <3>1, <3>2 DEF LimitsInv
  <2>3. CASE ~(Zorro2 = <<>> /\ Zorro3 = <<>>)
    <3>1. Open'  BY <2>1, <2>3 DEF Open
    <3>2. (Zorro2 = <<>> /\ Zorro3 = <<>>) = FALSE  BY <2>3
    <3> QED  BY <1>a, <2>1, <2>3, <3>1, <3>2 DEF LimitsInv
  <2> QED  BY <2>2, <2>3
<1>3. CASE Aside
  <2>1. /\ UNCHANGED <<map_offset, custom, mapped, z2_done, z3_done>>
        /\ amiga' = "loading" <=> amiga = "loading"
        /\ amiga' = "booted" => amiga = "booted" \/ ~Reachable
    BY <1>3 DEF Aside, places, limits
  <2>2. Open' = Open  BY <2>1 DEF Open
  <2>3. amiga' = "booted" => ~Open  BY <1>a, <2>1, WindowInRange DEF LimitsInv
  <2>4. ASSUME ~Open PROVE io_base' = io_base
    <3>1. CASE Z2Part
      <4>1. z2_done  BY <1>a, <2>4 DEF Open
      <4> QED  BY <1>3, <3>1, <4>1 DEF Z2Part
    <3> QED  BY <1>3, <3>1 DEF Aside
  <2> QED  BY <1>a, <2>1, <2>2, <2>3, <2>4 DEF LimitsInv
<1>d. ASSUME NEW done \in BOOLEAN, Zorro2 # <<>> \/ Zorro3 # <<>>, Open' <=> ~done, amiga' = "probe",
             mapped' = MappedRange(map_offset'), custom' = CustomRange(done, io_base'["PISCSI"])
      PROVE  LimitsInv'
  <2>1. CASE done
    <3>1. done = TRUE  BY <2>1
    <3> QED  BY <1>d, <3>1 DEF LimitsInv
  <2>2. CASE ~done
    <3>1. done = FALSE  BY <2>2
    <3> QED  BY <1>c, <1>d, <3>1 DEF LimitsInv
  <2> QED  BY <2>1, <2>2
<1>4. ASSUME NEW b, Z2Told(b) PROVE LimitsInv'
  <2>1. /\ z3_done' = z3_done /\ amiga' = "probe" /\ z2_done' = (z2_current = Len(Zorro2))
        /\ IF z2_done' THEN Adjust(map_offset', z3_done, io_base'["PISCSI"]) ELSE UNCHANGED limits
        /\ amiga # "loading" /\ ~z2_done /\ z2_current \in DOMAIN Zorro2
    BY <1>4 DEF Z2Told, FinishZ2
  <2>2. Zorro2 # <<>>  BY <2>1
  <2>3. CASE z2_done'  BY <1>a, <1>d, <2>1, <2>2, <2>3 DEF Adjust, Open
  <2>4. CASE ~z2_done'
    <3>1. UNCHANGED limits /\ Open /\ Open'  BY <2>1, <2>4 DEF Open
    <3> QED  BY <1>a, <2>1, <2>2, <3>1 DEF LimitsInv, limits
  <2> QED  BY <2>3, <2>4
<1>5. ASSUME NEW b, Z3Told(b) PROVE LimitsInv'
  <2>1. /\ UNCHANGED <<z2_done, io_base>> /\ amiga' = "probe" /\ z3_done' = (z3_current = Len(Zorro3))
        /\ IF z3_done' THEN Adjust(map_offset', z2_done, io_base["PISCSI"]) ELSE UNCHANGED limits
        /\ amiga # "loading" /\ z2_done /\ ~z3_done /\ z3_current \in DOMAIN Zorro3
    BY <1>5 DEF Z3Told, FinishZ3
  <2>2. Zorro3 # <<>>  BY <2>1
  <2>3. CASE z3_done'  BY <1>a, <1>d, <2>1, <2>2, <2>3 DEF Adjust, Open
  <2>4. CASE ~z3_done'
    <3>1. UNCHANGED limits /\ Open /\ Open'  BY <2>1, <2>4 DEF Open
    <3> QED  BY <1>a, <2>1, <2>2, <3>1 DEF LimitsInv, limits
  <2> QED  BY <2>3, <2>4
<1> QED  BY <1>1, <1>2, <1>3, <1>4, <1>5, StepKinds DEF WorksInv

\* All of it holds before the first line of the configuration.
LEMMA WorksInit == Init => WorksInv
<1> SUFFICES ASSUME Init PROVE WorksInv  OBVIOUS
<1>1. TypeOK /\ RangesInv  BY TypeInit, RangesInit
<1>2. amiga = "loading" /\ Configured = {} /\ fc_read.addr = NoBase /\ fc_write.addr = NoBase
  BY DEF Init, Configured, Nothing, Entry
<1>3. FilledInv  BY <1>2 DEF Init, FilledInv
<1>4. MapInv /\ IoInv  BY <1>2 DEF Init, MapInv, IoInv
<1>5. DoneInv /\ CacheInv /\ LimitsInv  BY <1>2 DEF DoneInv, CacheInv, LimitsInv
<1> QED  BY <1>1, <1>3, <1>4, <1>5 DEF WorksInv

\* And in every state.
LEMMA WorksAlways == ASSUME AllPlaced PROVE Spec => []WorksInv
<1>1. Init => WorksInv  BY WorksInit
<1>2. WorksInv /\ [Next]_vars => WorksInv'
  <2> SUFFICES ASSUME WorksInv, [Next]_vars PROVE WorksInv'  OBVIOUS
  <2>1. TypeOK'  BY TypeStep DEF WorksInv, RangesInv
  <2>2. RangesInv'  BY RangesStep DEF WorksInv
  <2> QED  BY <2>1, <2>2, FilledStep, MapStep, IoStep, DoneStep, CacheStep, LimitsStep DEF WorksInv
<1> QED  BY <1>1, <1>2, PTL DEF Spec

-----------------------------------------------------------------------------
\* What is where the boards are.

\* No other board and no ROM is where a board is.
LEMMA AloneAt ==
    ASSUME base \in Assignments, NEW b \in Boards, base[b] # NoBase
    PROVE  /\ \A c \in Boards : base[c] = base[b] => c = b
           /\ \A r \in Roms : base[b] # FileAddress[r]
  BY MapAssumption

\* What the configuration has at the address of a board is the board's own memory.
LEMMA OwnAt ==
    ASSUME base \in Assignments, NEW b \in Boards, base[b] # NoBase, NEW e \in Own, e.addr = base[b]
    PROVE  b \in Ram /\ e.data = Memory(b)
<1>1. CASE \E c \in Ram \cap Boards : e = Entry(base[c], Memory(c))
  <2>1. PICK c \in Ram \cap Boards : e = Entry(base[c], Memory(c))  BY <1>1
  <2>2. base[c] = base[b]  BY <2>1 DEF Entry
  <2>3. c = b  BY <2>2, AloneAt
  <2> QED  BY <2>1, <2>3 DEF Entry
<1>2. CASE \E r \in Roms : e = Entry(FileAddress[r], Memory(r))
  <2>1. PICK r \in Roms : e = Entry(FileAddress[r], Memory(r))  BY <1>2
  <2>2. FileAddress[r] = base[b]  BY <2>1 DEF Entry
  <2> QED  BY <2>2, AloneAt
<1> QED  BY <1>1, <1>2 DEF Own

\* Once the window is closed, every board that has an address of this boot is configured.
LEMMA AllConfigured ==
    ASSUME DoneInv, amiga # "loading", ~Open, NEW d \in Boards, base[d] # NoBase
    PROVE  d \in Configured
<1>1. /\ \A i \in DOMAIN Zorro2 : i < z2_current
      /\ \A i \in DOMAIN Zorro3 : i < z3_current
  BY DEF DoneInv, Open
<1>2. (\E i \in DOMAIN Zorro2 : Zorro2[i] = d) \/ (\E i \in DOMAIN Zorro3 : Zorro3[i] = d)
  BY DEF Boards, Seen
<1> QED  BY <1>1, <1>2 DEF Configured

\* A board that is before a configured one in its list is configured.
LEMMA EarlierConfigured ==
    ASSUME AllPlaced, PlacesInv, base \in Assignments, NEW b \in Configured, NEW c \in Ram, ListedBefore(c, b)
    PROVE  c \in Configured
<1>1. PICK z \in {Zorro2, Zorro3} : \E i, j \in DOMAIN z : i < j /\ z[i] = c /\ z[j] = b
  BY DEF ListedBefore
<1>2. PICK i, j \in DOMAIN z : i < j /\ z[i] = c /\ z[j] = b  BY <1>1
<1>3. z \in Seq(STRING) /\ Seen(Zorro2) \cap Seen(Zorro3) = {}
      /\ \A k, l \in DOMAIN z : z[k] = z[l] => k = l
  BY <1>1, MapAssumption
<1>4. i \in Nat /\ j \in Nat  BY <1>3, PlaceInList
<1>5. c \in Boards /\ base[c] # NoBase
  <2>1. c \in Boards  BY <1>1, <1>2 DEF Boards, Seen
  <2> QED  BY <2>1 DEF AllPlaced
<1>6. amiga # "loading" /\ z2_current \in Nat /\ z3_current \in Nat
  BY DEF Configured, PlacesInv
<1>7. CASE z = Zorro2
  <2>1. \A k \in DOMAIN Zorro3 : Zorro3[k] # b  BY <1>2, <1>3, <1>7 DEF Seen
  <2>2. j < z2_current  BY <1>2, <1>3, <1>7, <2>1 DEF Configured
  <2>3. i < z2_current  BY <1>2, <1>4, <1>6, <2>2
  <2> QED  BY <1>2, <1>5, <1>6, <1>7, <2>3 DEF Configured
<1>8. CASE z = Zorro3
  <2>1. \A k \in DOMAIN Zorro2 : Zorro2[k] # b  BY <1>2, <1>3, <1>8 DEF Seen
  <2>2. j < z3_current  BY <1>2, <1>3, <1>8, <2>1 DEF Configured
  <2>3. i < z3_current  BY <1>2, <1>4, <1>6, <2>2
  <2> QED  BY <1>2, <1>5, <1>6, <1>8, <2>3 DEF Configured
<1> QED  BY <1>1, <1>7, <1>8

\* The Pi's transfers find a configured memory board in the map.
LEMMA PointerReaches ==
    ASSUME AllPlaced, RamClear, WorksInv, NEW b \in Configured \cap Ram
    PROVE  Covering(base[b]) # {} /\ Pointer(base[b]) = Memory(b)
<1>1. /\ MapInv /\ PlacesInv /\ base \in Assignments /\ b \in Boards /\ base[b] # NoBase
      /\ map_offset[b] = base[b]
  BY DEF WorksInv, RangesInv, TypeOK, MapInv, Configured
<1> DEFINE C == Covering(base[b])
           m == Min(C)
<1>2. PICK i \in DOMAIN Items : Items[i] = b  BY DEF Ram, Seen
<1>3. i \in C  BY <1>1, <1>2 DEF Covering
<1>4. C \in SUBSET Nat
  <2>1. Items \in Seq(STRING)  BY MapAssumption
  <2> QED  BY <2>1, PlaceInList DEF Covering
<1>5. m \in C /\ \A k \in C : m <= k
  <2> HIDE DEF C
  <2>1. PICK x \in C : \A k \in C : x <= k  BY <1>3, <1>4, LeastNumber
  <2> QED  BY <2>1 DEF Min
<1> DEFINE c == Items[m]
<1>6. c \in Seen(Items) /\ map_offset[c] = base[b] /\ m \in DOMAIN Items
  BY <1>5 DEF Covering, Seen
<1>7. c = b
  <2> SUFFICES ASSUME c # b PROVE FALSE  OBVIOUS
  <2>1. c \notin Boards \/ map_offset[c] # base[c]
    BY <1>1, <1>6, AloneAt
  <2>2. map_offset[c] = FileAddress[c]  BY <1>1, <1>6, <2>1 DEF MapInv
  <2>3. c \in Ram  BY <1>1, <1>6, <2>2, AloneAt DEF Ram
  <2>4. FileAddress[c] = base[b]  BY <1>6, <2>2
  <2>5. LineBefore(b, c) \/ ListedBefore(c, b)  BY <1>1, <2>3, <2>4 DEF RamClear
  <2>6. CASE LineBefore(b, c)
    <3>1. PICK k \in DOMAIN Items : Items[k] = b /\ k < m  BY <1>6, <2>6 DEF LineBefore
    <3>2. k \in C  BY <1>1, <3>1 DEF Covering
    <3>3. m <= k /\ k \in Nat /\ m \in Nat  BY <1>4, <1>5, <3>2
    <3> QED  BY <3>1, <3>3
  <2>7. CASE ListedBefore(c, b)
    <3>1. c \in Configured  BY <1>1, <2>3, <2>7, EarlierConfigured
    <3>2. map_offset[c] = base[c] /\ c \in Boards  BY <1>1, <2>3, <3>1 DEF MapInv, Configured
    <3> QED  BY <2>1, <3>2
  <2> QED  BY <2>5, <2>6, <2>7
<1> HIDE DEF m
<1> QED  BY <1>3, <1>7 DEF Pointer, m

\* Once the window is closed, no board's registers are where a memory board is.
LEMMA NoRegistersAt ==
    ASSUME RamClear, StraysClear, WorksInv, amiga # "loading", ~Open, NEW b \in Configured \cap Ram
    PROVE  Custom(base[b]) = "bus"
<1>1. /\ MapInv /\ IoInv /\ DoneInv /\ base \in Assignments /\ b \in Boards /\ base[b] # NoBase
  BY DEF WorksInv, TypeOK, Configured
<1>2. base[b] # PISCSI_OFFSET /\ base[b] # 0  BY <1>1 DEF RamClear
<1>3. ASSUME NEW d \in IoBoards, At(d, base[b]) PROVE FALSE
  <2>1. d \in Boards /\ io_base[d] = base[b]  BY <1>3 DEF At
  <2>2. CASE base[d] # NoBase
    <3>1. d \in Configured  BY <1>1, <2>1, <2>2, AllConfigured
    <3>2. io_base[d] = base[d]  BY <1>1, <3>1 DEF MapInv
    <3>3. d = b  BY <1>1, <2>1, <3>2, AloneAt
    <3>4. Ram \cap IoBoards = {}  BY MapAssumption
    <3> QED  BY <3>3, <3>4
  <2>3. CASE base[d] = NoBase
    <3>1. PICK g \in Assignments : g[d] # NoBase /\ io_base[d] \in {g[d], Low(g[d])}
      BY <1>1, <1>2, <2>1 DEF IoInv
    <3>2. base[b] \notin {g[d], Low(g[d])}  BY <1>1, <2>1, <2>3, <3>1 DEF StraysClear
    <3> QED  BY <2>1, <3>1, <3>2
  <2> QED  BY <2>2, <2>3
<1>4. ~At("PISTORM_DEV", base[b]) /\ ~At("PISCSI", base[b]) /\ ~At("A314", base[b])
  BY <1>3 DEF IoBoards
<1> QED  BY <1>2, <1>4 DEF Custom, Window

\* And the platform's look-up finds the memory board in the map.
LEMMA PlatformReaches ==
    ASSUME AllPlaced, RamClear, StraysClear, WorksInv, amiga # "loading", ~Open, NEW b \in Configured \cap Ram
    PROVE  Platform(base[b]) = Memory(b)
<1>1. Custom(base[b]) = "bus"  BY NoRegistersAt
<1>2. Covering(base[b]) # {} /\ Pointer(base[b]) = Memory(b)  BY PointerReaches
<1>3. Within(base[b], mapped)
  <2> DEFINE L == {map_offset[c] : c \in DOMAIN map_offset} \ {0}
             H == {map_offset[c] + 1 : c \in DOMAIN map_offset}
             a == base[b]
  <2>1. mapped = [low |-> Least(L), high |-> Greatest(H)]  BY DEF WorksInv, LimitsInv, MappedRange
  <2>2. /\ map_offset \in [Seen(Items) -> Address] /\ b \in Seen(Items) /\ map_offset[b] = a /\ a # 0
    BY DEF WorksInv, TypeOK, MapInv, Ram, RamClear, Configured
  <2>3. L \in SUBSET Nat /\ H \in SUBSET (0 .. 64) /\ a \in L /\ a + 1 \in H /\ a \in Nat
    BY <2>2 DEF Address
  <2> HIDE DEF L, H, a
  <2>4. Least(L) <= a /\ a + 1 <= Greatest(H) /\ Greatest(H) \in Nat
    BY <2>3, LeastIs, GreatestIs
  <2>5. a < Greatest(H)  BY <2>3, <2>4
  <2> QED  BY <2>1, <2>4, <2>5 DEF Within, a
<1> QED  BY <1>1, <1>2, <1>3 DEF Platform, Pointer

\* A look-up reaches a memory board, if its cache is fresh, its table sound, and what the table
\* lacks is found by the platform.
LEMMA AccessReaches ==
    ASSUME WorksInv, NEW b \in Configured \cap Ram, NEW cache \in {fc_read, fc_write}, ~Stale(cache),
           NEW table \in Seq(Own),
           Holds(table, Entry(base[b], Memory(b))) \/ Platform(base[b]) = Memory(b)
    PROVE  Access(cache, table, base[b]) = Memory(b)
<1>1. /\ CacheInv /\ base \in Assignments /\ b \in Boards /\ base[b] # NoBase /\ load \in Nat
      /\ cache.data[1] \in Nat
  BY DEF WorksInv, TypeOK, Configured, RangesInv, TablesInv, Entries
<1>2. ASSUME cache.addr = base[b] PROVE cache.data = Memory(b)
  <2>1. cache.data[1] = load  BY <1>1, <1>2 DEF Stale
  <2>2. cache \in Own  BY <1>1, <1>2, <2>1 DEF CacheInv
  <2> QED  BY <1>1, <1>2, <2>2, OwnAt
<1>3. ASSUME Hits(table, base[b]) # {} PROVE FirstHit(table, base[b]).data = Memory(b)
  <2>1. FirstHit(table, base[b]) \in Own /\ FirstHit(table, base[b]).addr = base[b]
    <3> DEFINE S == Hits(table, base[b])
               k == CHOOSE i \in S : \A j \in S : i <= j
    <3>1. S \in SUBSET Nat  BY DEF Hits
    <3>2. k \in S
      <4> HIDE DEF S
      <4>1. \E i \in S : \A j \in S : i <= j  BY <1>3, <3>1, LeastNumber DEF S
      <4> QED  BY <4>1
    <3>3. k \in DOMAIN table /\ table[k].addr = base[b]  BY <3>2 DEF Hits
    <3>4. FirstHit(table, base[b]) = table[k]  BY DEF FirstHit
    <3> HIDE DEF k
    <3> QED  BY <3>3, <3>4
  <2> QED  BY <1>1, <2>1, OwnAt
<1>4. ASSUME Hits(table, base[b]) = {} PROVE Platform(base[b]) = Memory(b)
  <2>1. ~Holds(table, Entry(base[b], Memory(b)))  BY <1>4 DEF Holds, Hits, Entry
  <2> QED  BY <2>1
<1> QED  BY <1>2, <1>3, <1>4 DEF Access

\* A memory board that the Amiga has configured is one memory: reads and writes of the CPU and
\* the Pi's own transfers reach it, at the address it was given, for any
\* boards and addresses, as long as there is room for every memory board.
THEOREM RamWorks ==
    ASSUME AllPlaced, RamClear, StraysClear PROVE Spec => []ConfiguredRamWorks
<1>1. WorksInv => ConfiguredRamWorks
  <2> SUFFICES ASSUME WorksInv, NEW b \in Configured \cap Ram
               PROVE  /\ Pointer(base[b]) = Memory(b)
                      /\ Fresh /\ (Len(read_ranges) < MaxRanges \/ ~Open)
                            => Reads(base[b]) = Memory(b) /\ Writes(base[b]) = Memory(b)
    BY DEF ConfiguredRamWorks
  <2>1. Pointer(base[b]) = Memory(b)  BY PointerReaches
  <2>2. ASSUME Fresh, Len(read_ranges) < MaxRanges \/ ~Open
        PROVE  Reads(base[b]) = Memory(b) /\ Writes(base[b]) = Memory(b)
    <3> DEFINE e == Entry(base[b], Memory(b))
    <3>1. read_ranges \in Seq(Own) /\ write_ranges \in Seq(Own) /\ FilledInv /\ amiga # "loading"
      BY DEF WorksInv, RangesInv, TablesInv, Configured
    <3>2. Platform(base[b]) = Memory(b) \/ (Holds(read_ranges, e) /\ Holds(write_ranges, e))
      <4>1. CASE Len(read_ranges) < MaxRanges
        <5>1. PICK i \in DOMAIN write_ranges : write_ranges[i] = e
          BY <3>1, <4>1 DEF FilledInv, Holds
        <5>2. Holds(read_ranges, e)  BY <3>1, <4>1, <5>1 DEF FilledInv
        <5> QED  BY <5>1, <5>2 DEF Holds
      <4>2. CASE ~Open  BY <3>1, <4>2, PlatformReaches
      <4> QED  BY <2>2, <4>1, <4>2
    <3>3. ~Stale(fc_read) /\ ~Stale(fc_write)  BY <2>2 DEF Fresh
    <3> QED  BY <3>1, <3>2, <3>3, AccessReaches DEF Reads, Writes
  <2> QED  BY <2>1, <2>2
<1>2. Spec => []WorksInv  BY WorksAlways
<1> QED  BY <1>1, <1>2, PTL

\* The custom look-up finds the registers of a configured board.
LEMMA CustomReaches ==
    ASSUME StraysClear, PiscsiFirst, WorksInv, amiga # "loading", ~Open, NEW d \in Configured \cap IoBoards
    PROVE  Custom(base[d]) = d
<1>1. /\ MapInv /\ IoInv /\ DoneInv /\ base \in Assignments /\ d \in Boards /\ base[d] # NoBase
      /\ io_base[d] = base[d]
  BY DEF WorksInv, TypeOK, Configured, MapInv
<1>2. base[d] # PISCSI_OFFSET /\ base[d] # 0
  <2>1. base["PISCSI"] # 0 /\ base["PISCSI"] # NoBase /\ base["PISCSI"] <= base[d] /\ base[d] < PISCSI_OFFSET
    BY <1>1 DEF PiscsiFirst
  <2>2. base \in [Boards -> Address \cup {NoBase}] /\ PISCSI_OFFSET \in Address  BY <1>1, MapAssumption
  <2>3. base["PISCSI"] \in Address /\ base[d] \in Address  BY <1>1, <2>1, <2>2 DEF PiscsiFirst
  <2> QED  BY <2>1, <2>2, <2>3 DEF Address
<1>3. ASSUME NEW c \in IoBoards, c # d, <<c, d>> \in LookedAtFirst, At(c, base[d]) PROVE FALSE
  <2>1. c \in Boards /\ io_base[c] = base[d]  BY <1>3 DEF At
  <2>2. CASE base[c] # NoBase
    <3>1. c \in Configured  BY <1>1, <2>1, <2>2, AllConfigured
    <3>2. io_base[c] = base[c]  BY <1>1, <3>1 DEF MapInv
    <3>3. c = d  BY <1>1, <2>1, <3>2, AloneAt
    <3> QED  BY <1>3, <3>3
  <2>3. CASE base[c] = NoBase
    <3>1. PICK g \in Assignments : g[c] # NoBase /\ io_base[c] \in {g[c], Low(g[c])}
      BY <1>1, <1>2, <2>1 DEF IoInv
    <3>2. base[d] \notin {g[c], Low(g[c])}  BY <1>1, <1>3, <2>1, <2>3, <3>1 DEF StraysClear
    <3> QED  BY <2>1, <3>1, <3>2
  <2> QED  BY <2>2, <2>3
<1>4. At(d, base[d]) /\ ~Window(base[d])  BY <1>1 DEF At, Window
<1>5. CASE d = "PISTORM_DEV"  BY <1>2, <1>4, <1>5 DEF Custom
<1>6. CASE d = "PISCSI"
  <2>1. ~At("PISTORM_DEV", base[d])  BY <1>3, <1>6 DEF LookedAtFirst, IoBoards
  <2> QED  BY <1>2, <1>4, <1>6, <2>1 DEF Custom
<1>7. CASE d = "A314"
  <2>1. ~At("PISTORM_DEV", base[d]) /\ ~At("PISCSI", base[d])
    BY <1>3, <1>7 DEF LookedAtFirst, IoBoards
  <2> QED  BY <1>2, <1>4, <1>7, <2>1 DEF Custom
<1> QED  BY <1>5, <1>6, <1>7 DEF IoBoards

\* Its address is in the boards' range.
LEMMA RegistersInRange ==
    ASSUME PiscsiFirst, WorksInv, amiga # "loading", ~Open, NEW d \in Configured \cap IoBoards
    PROVE  Within(base[d], custom)
<1>1. /\ MapInv /\ DoneInv /\ base \in Assignments /\ d \in Boards /\ base[d] # NoBase
      /\ custom = CustomRange(TRUE, io_base["PISCSI"])
  BY DEF WorksInv, TypeOK, Configured, LimitsInv
<1> DEFINE p == base["PISCSI"]
           S == CustomStarts(TRUE, p)
           E == CustomEnds(TRUE)
<1>2. /\ "PISCSI" \in Boards /\ p # 0 /\ p # NoBase /\ p <= base[d] /\ base[d] < PISCSI_OFFSET
  BY <1>1 DEF PiscsiFirst
<1>3. base \in [Boards -> Address \cup {NoBase}] /\ PISCSI_OFFSET \in Address  BY <1>1, MapAssumption
<1>4. p \in Address /\ base[d] \in Address  BY <1>1, <1>2, <1>3
<1>5. io_base["PISCSI"] = p
  <2>1. "PISCSI" \in Configured  BY <1>1, <1>2, AllConfigured
  <2> QED  BY <1>1, <2>1 DEF MapInv, IoBoards
<1>6. p \in S /\ PISCSI_OFFSET + 1 \in E  BY <1>2 DEF CustomStarts, CustomEnds
<1>7. custom = [low |-> Least(S), high |-> Greatest(E)] /\ S \in SUBSET Nat /\ E \in SUBSET (0 .. 64)
  BY <1>1, <1>4, <1>5, CustomRangeIs
<1> HIDE DEF S, E
<1>8. Least(S) <= p /\ Least(S) \in Nat /\ PISCSI_OFFSET + 1 <= Greatest(E) /\ Greatest(E) \in Nat
  BY <1>6, <1>7, LeastIs, GreatestIs
<1>9. Least(S) <= base[d] /\ base[d] < Greatest(E)
  <2>1. p \in Nat /\ base[d] \in Nat /\ PISCSI_OFFSET \in Nat  BY <1>3, <1>4 DEF Address
  <2> HIDE DEF p
  <2> QED  BY <1>2, <1>8, <2>1
<1> QED  BY <1>7, <1>9 DEF Within

\* No cache and no table has anything at its address.
LEMMA AccessPasses ==
    ASSUME WorksInv, NEW d \in Configured \cap IoBoards, NEW cache \in {fc_read, fc_write}, ~Stale(cache),
           NEW table \in Seq(Own)
    PROVE  Access(cache, table, base[d]) = Platform(base[d])
<1>1. /\ CacheInv /\ base \in Assignments /\ d \in Boards /\ base[d] # NoBase /\ load \in Nat
      /\ d \notin Ram /\ cache.data[1] \in Nat
  BY MapAssumption DEF WorksInv, TypeOK, Configured, RangesInv, TablesInv, Entries
<1>2. ASSUME cache.addr = base[d] PROVE FALSE
  <2>1. cache.data[1] = load  BY <1>1, <1>2 DEF Stale
  <2>2. cache \in Own  BY <1>1, <1>2, <2>1 DEF CacheInv
  <2> QED  BY <1>1, <1>2, <2>2, OwnAt
<1>3. ASSUME NEW i \in DOMAIN table, table[i].addr = base[d] PROVE FALSE
  <2>1. table[i] \in Own  OBVIOUS
  <2> QED  BY <1>1, <1>3, <2>1, OwnAt
<1>4. Hits(table, base[d]) = {}  BY <1>3 DEF Hits
<1> QED  BY <1>2, <1>4 DEF Access

\* A booted Amiga reaches the registers of every board that it has given an address, whatever
\* memory, other boards and earlier boots there are, if PiSCSI is the first of the boards.
THEOREM RegistersReached ==
    ASSUME AllPlaced, StraysClear, PiscsiFirst PROVE Spec => []IoBoardsReached
<1>1. WorksInv => IoBoardsReached
  <2> SUFFICES ASSUME WorksInv, amiga = "booted", Fresh, NEW d \in Configured \cap IoBoards
               PROVE  Reads(base[d]) = Device(d) /\ Writes(base[d]) = Device(d)
    BY DEF IoBoardsReached
  <2>1. ~Open /\ read_ranges \in Seq(Own) /\ write_ranges \in Seq(Own)
    BY DEF WorksInv, LimitsInv, RangesInv, TablesInv
  <2>2. Custom(base[d]) = d /\ Within(base[d], custom)  BY <2>1, CustomReaches, RegistersInRange
  <2>3. Platform(base[d]) = Device(d)  BY <2>2 DEF Platform, IoBoards
  <2>4. ~Stale(fc_read) /\ ~Stale(fc_write)  BY DEF Fresh
  <2> QED  BY <2>1, <2>3, <2>4, AccessPasses DEF Reads, Writes
<1>2. Spec => []WorksInv  BY WorksAlways
<1> QED  BY <1>1, <1>2, PTL
=============================================================================
