------------------------- MODULE IrqDelivery_proofs -------------------------
(***************************************************************************)
(* Theorems about IrqDelivery, for any set of real interrupts, any number  *)
(* of waiting keys, with or without resets and the pause key.              *)
(***************************************************************************)
EXTENDS IrqDelivery, TLAPS

\* The bound on waiting keys is a number.
LEMMA QueueBound == MaxQueued \in Nat
  BY IrqAssumption

\* The highest request of a set is one of its members.
LEMMA MaxOfLevels ==
    ASSUME NEW S \in SUBSET Levels, S # {}
    PROVE  Max(S) \in S
<1>1. \E x \in S : \A y \in S : x >= y
  <2>1. CASE 7 \in S  BY <2>1 DEF Levels
  <2>2. CASE 7 \notin S /\ 3 \in S  BY <2>2 DEF Levels
  <2>3. CASE 7 \notin S /\ 3 \notin S /\ 2 \in S  BY <2>3 DEF Levels
  <2>4. CASE 7 \notin S /\ 3 \notin S /\ 2 \notin S
    <3>1. S = {0}  BY <2>4 DEF Levels
    <3> QED  BY <3>1
  <2> QED  BY <2>1, <2>2, <2>3, <2>4
<1> QED  BY <1>1 DEF Max

\* A level that is told to the core is one of an interrupt of the Amiga.
LEMMA LevelToldType ==
    ASSUME TypeOK
    PROVE  Max({PinLevel, emulated_ipl}) \in Levels
<1>1. PinLevel \in Levels
  <2>1. CASE Pins = {}  BY <2>1 DEF PinLevel, Levels
  <2>2. CASE Pins # {}
    <3>1. Pins \in SUBSET Levels  BY IrqAssumption DEF TypeOK, Pins, Levels
    <3> QED  BY <2>2, <3>1, MaxOfLevels DEF PinLevel
  <2> QED  BY <2>1, <2>2
<1>2. emulated_ipl \in Levels  BY DEF TypeOK, Levels, PORTS_IPL
<1>3. {PinLevel, emulated_ipl} \in SUBSET Levels  BY <1>1, <1>2
<1> QED  BY <1>3, MaxOfLevels

-----------------------------------------------------------------------------
\* The variables have their types before the first instruction.
LEMMA TypeInit == Init => TypeOK
<1> SUFFICES ASSUME Init PROVE TypeOK  OBVIOUS
<1>1. emulated_irqs \in BOOLEAN /\ emulated_ipl \in {0, PORTS_IPL}  BY DEF Init, PORTS_IPL
<1>2. 0 \in Levels  BY DEF Levels
<1>3. queued \in 0 .. MaxQueued  BY QueueBound DEF Init
<1> QED  BY <1>1, <1>2, <1>3 DEF Init, TypeOK

\* No thread and no access takes a variable out of its type.
LEMMA TypeStep == TypeOK /\ [Next]_vars => TypeOK'
<1> SUFFICES ASSUME TypeOK, [Next]_vars PROVE TypeOK'  OBVIOUS
<1> USE DEF TypeOK, emulated, delivery, access, keyboard
<1>1. CASE CpuLoop
  <2>1. CASE SetLevel
    <3>1. last_irq' \in Levels \cup {8}
      BY <2>1, LevelToldType DEF SetLevel
    <3>2. irq => last_irq' \in Levels  BY <2>1, LevelToldType DEF SetLevel
    <3>3. int_level' \in Levels /\ last_last_irq' \in Levels \cup {8}
      BY <2>1, <3>1, <3>2 DEF SetLevel
    <3> QED  BY <2>1, <3>1, <3>3 DEF SetLevel
  <2>2. CASE EndSlice \/ ReleaseLevel \/ ResetLevels
    <3>1. 0 \in Levels  BY DEF Levels
    <3> QED  BY <2>2, <3>1 DEF EndSlice, ReleaseLevel, ResetLevels
  <2>3. CASE IntreqStore
    <3>1. emulated_irqs' \in BOOLEAN  BY <2>3, Zenon DEF IntreqStore
    <3> QED  BY <2>3, <3>1 DEF IntreqStore
  <2>4. CASE IntreqSettle
    <3>1. emulated_ipl' \in {0, PORTS_IPL}  BY <2>4 DEF IntreqSettle
    <3> QED  BY <2>4, <3>1 DEF IntreqSettle
  <2> QED  BY <1>1, <2>1, <2>2, <2>3, <2>4 DEF CpuLoop
<1>2. CASE Servers
  <2>1. CASE ReadCiaaDat  BY <2>1, IrqAssumption DEF ReadCiaaDat
  <2>2. CASE WriteIntreq
    <3>1. overlap' \in BOOLEAN  BY <2>2, Zenon DEF WriteIntreq, MarkOverlap
    <3> QED  BY <2>2, <3>1 DEF WriteIntreq
  <2>3. CASE ServeVertb \/ Serve \/ ReadCiaaIcr
    BY <2>3 DEF ServeVertb, Serve, ReadCiaaIcr
  <2> QED  BY <1>2, <2>1, <2>2, <2>3 DEF Servers
<1>3. CASE Reset \/ Raise
  <2>1. overlap' \in BOOLEAN
    BY <1>3, Zenon DEF Reset, Raise, RaiseLoad, RaiseOr, RaiseCompare, RaiseSet, MarkOverlap
  <2>2. CASE Reset  BY <2>1, <2>2 DEF Reset
  <2>3. CASE Raise
    <3>1. emulated_irqs' \in BOOLEAN
      BY <2>3, Zenon DEF Raise, RaiseLoad, RaiseOr, RaiseCompare, RaiseSet
    <3> QED
      BY <2>1, <2>3, <3>1 DEF Raise, RaiseLoad, RaiseOr, RaiseCompare, RaiseSet
  <2> QED  BY <1>3, <2>2, <2>3
<1>4. CASE Enable \/ IplSample
  <2>1. irq' \in BOOLEAN  BY <1>4, Zenon DEF Enable, IplSample
  <2>2. ipl_enabled' \in BOOLEAN  BY <1>4, Zenon DEF Enable, IplSample
  <2>3. CASE Enable  BY <2>1, <2>2, <2>3 DEF Enable
  <2>4. CASE IplSample  BY <2>1, <2>2, <2>4 DEF IplSample
  <2> QED  BY <1>4, <2>3, <2>4
<1>5. CASE Keyboard
  <2>1. kb_hook_enabled' \in BOOLEAN
    BY <1>5, Zenon
    DEF Keyboard, KeyPress, KeyTest, PollTimeout, ToggleHook, PausePressed, Unplugged
  <2>2. CASE KeyPress  BY <2>1, <2>2, QueueBound DEF KeyPress
  <2>3. CASE KeyTest \/ PollTimeout  BY <2>1, <2>3 DEF KeyTest, PollTimeout
  <2>4. CASE ToggleHook \/ PausePressed \/ Unplugged
    BY <2>1, <2>4 DEF ToggleHook, PausePressed, Unplugged, Levels
  <2> QED  BY <1>5, <2>2, <2>3, <2>4 DEF Keyboard
<1>6. ASSUME NEW l \in Requests, Request(l) PROVE TypeOK'
  BY <1>6 DEF Request
<1>7. CASE UNCHANGED vars
  BY <1>7 DEF vars
<1> QED
  BY <1>1, <1>2, <1>3, <1>4, <1>5, <1>6, <1>7 DEF Next

\* Every variable keeps its type; the levels told to the core are those of
\* interrupts the Amiga has, real or emulated, and never made up.
THEOREM IrqTypeOK == Spec => []TypeOK
  BY TypeInit, TypeStep, PTL DEF Spec

-----------------------------------------------------------------------------
(***************************************************************************)
(* LevelMatches says nothing while emulated_irqs is being changed.  What   *)
(* each half of a change leaves behind has to be known: the keyboard       *)
(* thread raises the level last, the CPU thread finds it again last, and   *)
(* unless they overlap neither sees the other half way through.            *)
(***************************************************************************)
Matches == emulated_ipl = IF emulated_irqs THEN PORTS_IPL ELSE 0

Raising == raise \in {"or", "compare", "set"}
Clearing == cpu \in {"store", "settle", "reset"}

LevelInv ==
    ~overlap =>
        /\ ~(Raising /\ Clearing)
        /\ raise = "or" \/ ~Changing => Matches
        /\ raise \in {"compare", "set"} => emulated_irqs
        /\ cpu \in {"settle", "reset"} => ~emulated_irqs

\* KeyTest starts a raise without looking whether one is under way: none is.
RaiseInv == kbd = "test" => raise = "off"

\* Nothing is raised, cleared or requested when the emulator starts.
LEMMA LevelInit == Init => LevelInv /\ RaiseInv
  BY DEF Init, LevelInv, RaiseInv, Matches, Raising, Clearing, Changing

\* The thread that raises goes on to its next test only when the raise is over.
LEMMA RaiseStep ==
    ASSUME RaiseInv, [Next]_vars
    PROVE  RaiseInv'
<1> USE DEF RaiseInv, emulated, delivery, access, keyboard
<1>1. CASE Raise
  BY <1>1 DEF Raise, RaiseLoad, RaiseOr, RaiseCompare, RaiseSet
<1>2. CASE Keyboard
  BY <1>2
  DEF Keyboard, KeyPress, KeyTest, PollTimeout, ToggleHook, PausePressed, Unplugged, AtPoll
<1>3. CASE CpuLoop \/ Servers
  BY <1>3 DEF CpuLoop, EndSlice, SetLevel, ReleaseLevel, ResetLevels, IntreqStore, IntreqSettle,
              Servers, ServeVertb, Serve, ReadCiaaIcr, ReadCiaaDat, WriteIntreq
<1>4. CASE Reset \/ Enable \/ IplSample \/ (\E l \in Requests : Request(l)) \/ UNCHANGED vars
  BY <1>4 DEF Reset, Enable, IplSample, Request, vars
<1> QED  BY <1>1, <1>2, <1>3, <1>4 DEF Next

\* Until a raise and a clear overlap the level told to the core and the
\* interrupt flags agree, but for the steps of whoever is changing them.
LEMMA LevelStep ==
    ASSUME TypeOK, LevelInv, RaiseInv, [Next]_vars
    PROVE  LevelInv'
<1> USE DEF TypeOK, LevelInv, Matches, Raising, Clearing, Changing
<1> USE DEF emulated, delivery, access, keyboard
<1>1. CASE Raise
  <2>1. CASE RaiseLoad
    <3>1. ~overlap' => ~overlap /\ ~Changing
      BY <2>1, Zenon DEF RaiseLoad, MarkOverlap
    <3> QED  BY <2>1, <3>1 DEF RaiseLoad
  <2>2. CASE RaiseOr \/ RaiseCompare \/ RaiseSet
    BY <2>2 DEF RaiseOr, RaiseCompare, RaiseSet, PORTS_IPL
  <2> QED  BY <1>1, <2>1, <2>2 DEF Raise
<1>2. CASE Servers
  <2>1. CASE WriteIntreq
    <3>1. ~emulated_irqs \/ (~overlap' => ~overlap /\ ~Changing)
      BY <2>1, Zenon DEF WriteIntreq, MarkOverlap
    <3> QED  BY <2>1, <3>1 DEF WriteIntreq
  <2>2. CASE ServeVertb \/ Serve \/ ReadCiaaIcr \/ ReadCiaaDat
    BY <2>2 DEF ServeVertb, Serve, ReadCiaaIcr, ReadCiaaDat
  <2> QED  BY <1>2, <2>1, <2>2 DEF Servers
<1>3. CASE Reset
  <2>1. ~overlap' => ~overlap /\ ~Changing  BY <1>3, Zenon DEF Reset, MarkOverlap
  <2> QED  BY <1>3, <2>1 DEF Reset
<1>4. CASE CpuLoop
  BY <1>4 DEF CpuLoop, EndSlice, SetLevel, ReleaseLevel, ResetLevels, IntreqStore, IntreqSettle
<1>5. CASE Keyboard
  <2>1. CASE KeyTest  BY <2>1 DEF KeyTest, RaiseInv
  <2>2. CASE PollTimeout  BY <2>2 DEF PollTimeout, AtPoll
  <2>3. CASE KeyPress \/ ToggleHook \/ PausePressed \/ Unplugged
    BY <2>3 DEF KeyPress, ToggleHook, PausePressed, Unplugged
  <2> QED  BY <1>5, <2>1, <2>2, <2>3 DEF Keyboard
<1>6. CASE Enable \/ IplSample \/ \E l \in Requests : Request(l)
  BY <1>6 DEF Enable, IplSample, Request
<1>7. CASE UNCHANGED vars
  BY <1>7 DEF vars
<1> QED
  BY <1>1, <1>2, <1>3, <1>4, <1>5, <1>6, <1>7 DEF Next

\* Unless two threads changed emulated_irqs at once: an emulated interrupt has
\* its level and no level is left without an interrupt, whenever no change is
\* under way (amiga_emulate_irq, amiga_handle_intrq_write, a reset).
THEOREM IrqLevelMatches == Spec => []LevelMatches
<1>1. TypeOK /\ LevelInv /\ RaiseInv /\ [Next]_vars => LevelInv' /\ RaiseInv'
  BY LevelStep, RaiseStep
<1>2. LevelInv => LevelMatches  BY DEF LevelInv, LevelMatches, Matches
<1> QED  BY <1>1, <1>2, LevelInit, IrqTypeOK, PTL DEF Spec
=============================================================================
