--------------------------- MODULE PiScsi_proofs ----------------------------
(***************************************************************************)
(* Theorems about PiScsi, for any tasks, requests, drives and sizes.       *)
(***************************************************************************)
EXTENDS PiScsi, TLAPS

-----------------------------------------------------------------------------
\* The driver's programs.

\* The registers of request r before its i-th access.
Before(op, i) == {Program(op)[j] : j \in 1 .. i - 1}

LEMMA Programs ==
    ASSUME NEW op \in Ops
    PROVE  /\ Len(Program(op)) \in Nat /\ Len(Program(op)) > 1
           /\ Program(op)[1] = "DRVNUMX"
<1>1. CASE op \in Rw32  BY <1>1 DEF Program
<1>2. CASE op \notin Rw32 /\ op \in Rw64  BY <1>2 DEF Program
<1>3. CASE op \notin Rw32 \cup Rw64 /\ op \in Scsi  BY <1>3 DEF Program
<1>4. CASE op \notin Rw32 \cup Rw64 \cup Scsi /\ op = "GEOMETRY"  BY <1>4 DEF Program
<1>5. CASE op \notin Rw32 \cup Rw64 \cup Scsi /\ op = "CAPACITY"  BY <1>5 DEF Program
<1>6. CASE op \notin Rw32 \cup Rw64 \cup Scsi /\ op \notin {"GEOMETRY", "CAPACITY"}
  BY <1>6 DEF Program
<1> QED  BY <1>1, <1>2, <1>3, <1>4, <1>5, <1>6

\* A command comes after everything that it needs.
LEMMA CommandLast ==
    ASSUME NEW op \in Ops, NEW i \in 1 .. Len(Program(op)), Program(op)[i] = "COMMAND"
    PROVE  /\ {"ADDR1", "ADDR2", "ADDR3"} \subseteq Before(op, i)
           /\ op \in Rw64 => "ADDR4" \in Before(op, i)
           /\ op \in Scsi => "BLOCKS" \in Before(op, i)
           /\ op \in Rw32 \cup Rw64 \cup Scsi
<1>1. CASE op \in Rw32
  <2>1. i = 6 /\ Program(op)[3] = "ADDR1" /\ Program(op)[4] = "ADDR2" /\ Program(op)[5] = "ADDR3"
    BY <1>1 DEF Program, Rw32
  <2>2. op \notin Rw64 /\ op \notin Scsi  BY <1>1 DEF Rw32, Rw64, Scsi
  <2> QED  BY <1>1, <2>1, <2>2 DEF Before
<1>2. CASE op \in Rw64
  <2>1. /\ i = 7 /\ Program(op)[3] = "ADDR1" /\ Program(op)[4] = "ADDR2"
        /\ Program(op)[5] = "ADDR3" /\ Program(op)[6] = "ADDR4"
    BY <1>2 DEF Program, Rw32, Rw64
  <2>2. op \notin Scsi  BY <1>2 DEF Rw64, Scsi
  <2> QED  BY <1>2, <2>1, <2>2 DEF Before
<1>3. CASE op \in Scsi
  <2>1. /\ i = 8 /\ Program(op)[4] = "BLOCKS" /\ Program(op)[5] = "ADDR1"
        /\ Program(op)[6] = "ADDR2" /\ Program(op)[7] = "ADDR3"
    BY <1>3 DEF Program, Rw32, Rw64, Scsi
  <2>2. op \notin Rw64  BY <1>3 DEF Rw64, Scsi
  <2> QED  BY <1>3, <2>1, <2>2 DEF Before
<1>4. CASE op \in Sizes \cup {"INQUIRY"}
  BY <1>4 DEF Program, Rw32, Rw64, Scsi, Sizes
<1> QED  BY <1>1, <1>2, <1>3, <1>4 DEF Ops

\* The number of blocks is read after their size.
LEMMA BlocksAfterSize ==
    ASSUME NEW op \in Ops, NEW i \in 1 .. Len(Program(op)), Program(op)[i] = "BLOCKS"
    PROVE  "BLOCKSIZE" \in Before(op, i)
<1>1. i \in 3 .. 4 /\ Program(op)[2] = "BLOCKSIZE"
  BY DEF Program, Ops, Rw32, Rw64, Scsi, Sizes
<1> QED  BY <1>1 DEF Before

\* Selecting a drive and writing an address are never the last access.
LEMMA SelectNotLast ==
    ASSUME NEW op \in Ops, NEW i \in 1 .. Len(Program(op)),
           Program(op)[i] \in {"DRVNUMX", "DRVNUM"} \cup DOMAIN Addr
    PROVE  i < Len(Program(op))
<1>1. Program(op)[i] \in {"DRVNUMX", "DRVNUM", "ADDR1", "ADDR2", "ADDR3", "ADDR4"}  BY DEF Addr
<1>2. CASE op \in Rw32  BY <1>1, <1>2 DEF Program
<1>3. CASE op \notin Rw32 /\ op \in Rw64  BY <1>1, <1>3 DEF Program
<1>4. CASE op \notin Rw32 \cup Rw64 /\ op \in Scsi  BY <1>1, <1>4 DEF Program
<1>5. CASE op \notin Rw32 \cup Rw64 \cup Scsi  BY <1>1, <1>5 DEF Program
<1> QED  BY <1>2, <1>3, <1>4, <1>5

LEMMA AddrDomain ==
    /\ DOMAIN Addr = {"ADDR1", "ADDR2", "ADDR3", "ADDR4"}
    /\ \A reg \in DOMAIN Addr : Addr[reg] \in 1 .. 4
  BY DEF Addr

\* What is before the next access: the same and this one.
LEMMA BeforeNext ==
    ASSUME NEW op, NEW i \in Nat \ {0}
    PROVE  Before(op, i + 1) = Before(op, i) \cup {Program(op)[i]}
<1>1. 1 .. (i + 1) - 1 = (1 .. i - 1) \cup {i}  OBVIOUS
<1> QED  BY <1>1 DEF Before

LEMMA BeforeFirst == \A op : Before(op, 1) = {} /\ Before(op, 0) = {}
  BY DEF Before
-----------------------------------------------------------------------------
\* Types, and the drive that is selected.

\* Once a task has selected its drive, whichever is selected has an image.
DriveSelected == \A t \in Tasks : pc[t] > 1 => piscsi_cur_drive \in Units

LEMMA ValueType ==
    ASSUME NEW r \in Request, NEW i \in 1 .. 4
    PROVE  Value(r, i) \in Word
<1>1. /\ r.start \in Word /\ r.high \in Word /\ r.count \in Nat /\ r.count \in Word
      /\ r.data \in Word
  BY DEF Request, Word
<1>2. r.count * SECTOR \in Nat  BY <1>1, DriveAssumption
<1>3. (r.count * SECTOR) % WORD \in Word  BY <1>2, DriveAssumption DEF Word
<1> QED  BY <1>1, <1>3 DEF Value

LEMMA InProgram ==
    ASSUME TypeOK, NEW t \in Tasks, ~Idle(t)
    PROVE  /\ request[t] \in Request /\ request[t].op \in Ops
           /\ pc[t] \in 1 .. Len(Program(request[t].op))
           /\ At(t) = Program(request[t].op)[pc[t]]
<1>1. request[t] \in Request /\ request[t].op \in Ops  BY DEF TypeOK, Request
<1>2. pc[t] \in 0 .. Len(Program(request[t].op)) /\ pc[t] # 0  BY DEF TypeOK, Idle
<1>3. Len(Program(request[t].op)) \in Nat  BY <1>1, Programs
<1> QED  BY <1>1, <1>2, <1>3 DEF At

LEMMA NotIdle == \A t : At(t) # "none" => ~Idle(t)
  BY DEF At

\* A task that uses a drive's sizes has selected one.
LEMMA SizesSelected ==
    ASSUME TypeOK, DriveSelected, NEW t \in Tasks, At(t) \in {"BLOCKSIZE", "BLOCKS"}
    PROVE  piscsi_cur_drive \in Units
<1>1. ~Idle(t)  BY NotIdle
<1>2. pc[t] # 1  BY <1>1, InProgram, Programs
<1>3. pc[t] \in Nat \ {0}  BY <1>1 DEF TypeOK, Idle
<1> QED  BY <1>2, <1>3 DEF DriveSelected

\* The counter of a task that goes on, and of one that ends.
LEMMA ContinueType ==
    ASSUME TypeOK, NEW t \in Tasks, ~Idle(t),
           pc[t] < Len(Program(request[t].op)), Continue(t), request' = request
    PROVE  /\ pc' \in [Tasks -> Nat] /\ outcome' \in [Tasks -> Outcome]
           /\ \A s \in Tasks : pc'[s] \in 0 .. Len(Program(request'[s].op))
<1>1. pc \in [Tasks -> Nat] /\ outcome \in [Tasks -> Outcome]  BY DEF TypeOK
<1>2. Len(Program(request[t].op)) \in Nat  BY InProgram, Programs
<1>3. pc' = [pc EXCEPT ![t] = pc[t] + 1] /\ outcome' = outcome  BY DEF Continue
<1> QED  BY <1>1, <1>2, <1>3 DEF TypeOK

LEMMA ReplyType ==
    ASSUME TypeOK, NEW t \in Tasks, NEW o \in Outcome, Reply(t, o),
           request' \in [Tasks -> Request],
           \A s \in Tasks : s # t => request'[s] = request[s]
    PROVE  /\ pc' \in [Tasks -> Nat] /\ outcome' \in [Tasks -> Outcome]
           /\ \A s \in Tasks : pc'[s] \in 0 .. Len(Program(request'[s].op))
<1>1. pc \in [Tasks -> Nat] /\ outcome \in [Tasks -> Outcome]  BY DEF TypeOK
<1>2. pc' = [pc EXCEPT ![t] = 0] /\ outcome' = [outcome EXCEPT ![t] = o]  BY DEF Reply
<1>3. request'[t].op \in Ops  BY DEF Request
<1>4. Len(Program(request'[t].op)) \in Nat  BY <1>3, Programs
<1> QED  BY <1>1, <1>2, <1>4 DEF TypeOK

LEMMA InitType == Init => TypeOK /\ DriveSelected
<1> SUFFICES ASSUME Init PROVE TypeOK /\ DriveSelected  OBVIOUS
<1> USE DriveAssumption
<1>1. request \in [Tasks -> Request] /\ \A t \in Tasks : request[t] \in Requests[t]
  BY DEF Init
<1>2. \A t \in Tasks : pc[t] \in 0 .. Len(Program(request[t].op))
  <2> TAKE t \in Tasks
  <2>1. request[t].op \in Ops  BY <1>1 DEF Request
  <2> QED  BY <2>1, Programs DEF Init
<1>3. /\ piscsi_cur_drive \in 0 .. NUM_UNITS - 1 /\ piscsi_u32 \in [1 .. 4 -> Word]
      /\ file_size \in [Units -> Nat] /\ pc \in [Tasks -> Nat]
  BY DEF Init, Word, NUM_UNITS
<1>4. outcome \in [Tasks -> Outcome]  BY DEF Init, Outcome
<1>5. /\ block_size \in [Tasks -> Nat] /\ aborted \in [Tasks -> BOOLEAN]
      /\ own \in [Tasks -> BOOLEAN] /\ owner \in [0 .. 4 -> Tasks \cup {"nobody"}]
  BY DEF Init
<1> QED  BY <1>1, <1>2, <1>3, <1>4, <1>5 DEF TypeOK, DriveSelected, Init
LEMMA ContinueOrReplyType ==
    ASSUME TypeOK, NEW t \in Tasks, ~Idle(t), NEW o \in Outcome, ContinueOrReply(t, o),
           request' = request
    PROVE  /\ pc' \in [Tasks -> Nat] /\ outcome' \in [Tasks -> Outcome]
           /\ \A s \in Tasks : pc'[s] \in 0 .. Len(Program(request'[s].op))
<1>1. request' \in [Tasks -> Request] /\ \A s \in Tasks : s # t => request'[s] = request[s]
  BY DEF TypeOK
<1> QED  BY <1>1, ContinueType, ReplyType DEF ContinueOrReply

\* A task that is past its first access has selected a drive, whichever step it does.
LEMMA SelectedStays ==
    ASSUME TypeOK, DriveSelected, NEW t \in Tasks, At(t) \notin {"none", "DRVNUMX"},
           pc' \in [Tasks -> Nat], \A s \in Tasks : s # t => pc'[s] = pc[s],
           UNCHANGED piscsi_cur_drive
    PROVE  DriveSelected'
<1>1. ~Idle(t)  BY DEF At
<1>2. /\ request[t].op \in Ops /\ pc[t] \in 1 .. Len(Program(request[t].op))
      /\ At(t) = Program(request[t].op)[pc[t]]
  BY <1>1, InProgram
<1>3. pc[t] # 1 /\ pc[t] > 0  BY <1>2, Programs
<1>4. piscsi_cur_drive \in Units  BY <1>2, <1>3 DEF DriveSelected
<1> QED  BY <1>4 DEF DriveSelected

LEMMA BeginType ==
    ASSUME TypeOK, DriveSelected, NEW t \in Tasks, NEW r \in Requests[t], BeginIO(t, r)
    PROVE  TypeOK' /\ DriveSelected'
<1>1. r \in Request  BY DriveAssumption
<1>2. /\ request' = [request EXCEPT ![t] = r] /\ request' \in [Tasks -> Request]
      /\ request'[t] = r
  BY <1>1 DEF BeginIO, TypeOK
<1>3. r.op \in Ops  BY <1>1 DEF Request
<1>4. Len(Program(r.op)) \in Nat /\ Len(Program(r.op)) > 1  BY <1>3, Programs
<1>5. CASE aborted[t]
  <2>1. Reply(t, Failed) /\ Failed \in Outcome  BY <1>5 DEF BeginIO, Outcome
  <2>2. /\ pc' \in [Tasks -> Nat] /\ outcome' \in [Tasks -> Outcome]
        /\ \A s \in Tasks : pc'[s] \in 0 .. Len(Program(request'[s].op))
    BY <1>2, <2>1, ReplyType DEF TypeOK
  <2>3. pc' = [pc EXCEPT ![t] = 0]  BY <2>1 DEF Reply
  <2> QED  BY <1>2, <2>2, <2>3, DriveAssumption DEF BeginIO, TypeOK, DriveSelected, registers
<1>6. CASE ~aborted[t]
  <2>1. pc' = [pc EXCEPT ![t] = 1] /\ outcome' = [outcome EXCEPT ![t] = None]
    BY <1>6 DEF BeginIO
  <2>2. pc \in [Tasks -> Nat] /\ outcome \in [Tasks -> Outcome] /\ None \in Outcome
    BY DEF TypeOK, Outcome
  <2>3. pc' \in [Tasks -> Nat] /\ outcome' \in [Tasks -> Outcome]  BY <2>1, <2>2
  <2>4. \A s \in Tasks : pc'[s] \in 0 .. Len(Program(request'[s].op))
    BY <1>2, <1>4, <2>1, <2>2 DEF TypeOK
  <2> QED  BY <1>2, <2>1, <2>3, <2>4, DriveAssumption DEF BeginIO, TypeOK, DriveSelected, registers
<1> QED  BY <1>5, <1>6

LEMMA AbortType ==
    ASSUME TypeOK, DriveSelected, NEW t \in Tasks, AbortIO(t)
    PROVE  TypeOK' /\ DriveSelected'
  BY DEF AbortIO, TypeOK, DriveSelected, registers

LEMMA SelectType ==
    ASSUME TypeOK, DriveSelected, NEW t \in Tasks, SelectDrive(t)
    PROVE  TypeOK' /\ DriveSelected'
<1>1. ~Idle(t)  BY NotIdle DEF SelectDrive
<1>2. request[t].unit \in Units /\ piscsi_cur_drive' = request[t].unit
  BY <1>1, InProgram DEF Request, SelectDrive
<1>3. pc[t] < Len(Program(request[t].op))
  <2>1. /\ request[t].op \in Ops /\ pc[t] \in 1 .. Len(Program(request[t].op))
        /\ Program(request[t].op)[pc[t]] \in {"DRVNUMX", "DRVNUM"}
    BY <1>1, InProgram DEF SelectDrive
  <2> QED  BY <2>1, SelectNotLast
<1>4. /\ pc' \in [Tasks -> Nat] /\ outcome' \in [Tasks -> Outcome]
      /\ \A s \in Tasks : pc'[s] \in 0 .. Len(Program(request'[s].op))
  BY <1>1, <1>3, ContinueType DEF SelectDrive
<1>5. piscsi_cur_drive' \in 0 .. NUM_UNITS - 1  BY <1>2, DriveAssumption
<1>6. owner' \in [0 .. 4 -> Tasks \cup {"nobody"}]  BY DEF SelectDrive, TypeOK
<1> QED  BY <1>2, <1>4, <1>5, <1>6 DEF SelectDrive, TypeOK, DriveSelected

LEMMA BlockSizeType ==
    ASSUME TypeOK, DriveSelected, NEW t \in Tasks, ReadBlockSize(t)
    PROVE  TypeOK' /\ DriveSelected'
<1>1. ~Idle(t)  BY NotIdle DEF ReadBlockSize
<1>2. piscsi_cur_drive \in Units  BY SizesSelected DEF ReadBlockSize
<1>3. Reply(t, Failed) \/ ContinueOrReply(t, None)  BY DEF ReadBlockSize
<1>4. None \in Outcome /\ Failed \in Outcome  BY DEF Outcome
<1>5. request' = request /\ UNCHANGED piscsi_cur_drive  BY DEF ReadBlockSize, registers
<1>6. /\ pc' \in [Tasks -> Nat] /\ outcome' \in [Tasks -> Outcome]
      /\ \A s \in Tasks : pc'[s] \in 0 .. Len(Program(request'[s].op))
  BY <1>1, <1>3, <1>4, <1>5, ContinueOrReplyType, ReplyType DEF TypeOK
<1>7. block_size' \in [Tasks -> Nat] /\ own' \in [Tasks -> BOOLEAN]
  BY <1>2, DriveAssumption DEF ReadBlockSize, Use, TypeOK
<1>8. \A s \in Tasks : s # t => pc'[s] = pc[s]
  BY <1>3 DEF ContinueOrReply, Continue, Reply, TypeOK
<1>9. DriveSelected'  BY <1>5, <1>6, <1>8, SelectedStays DEF ReadBlockSize
<1> QED  BY <1>6, <1>7, <1>9 DEF ReadBlockSize, TypeOK, registers

LEMMA BlocksType ==
    ASSUME TypeOK, DriveSelected, NEW t \in Tasks, ReadBlocks(t)
    PROVE  TypeOK' /\ DriveSelected'
<1> DEFINE blocks == Blocks(piscsi_cur_drive)
           size == [kind |-> "size", size |-> block_size[t], blocks |-> blocks]
<1>1. ~Idle(t)  BY NotIdle DEF ReadBlocks
<1>2. piscsi_cur_drive \in Units  BY SizesSelected DEF ReadBlocks
<1>3. Reply(t, Failed) \/ ContinueOrReply(t, size)  BY DEF ReadBlocks
<1>4. size \in Outcome /\ Failed \in Outcome
  <2>1. ImageSize[piscsi_cur_drive] \in Nat /\ BlockSize[piscsi_cur_drive] \in Nat \ {0}
    BY <1>2, DriveAssumption
  <2>2. blocks \in Word  BY <2>1, DriveAssumption DEF Word, Blocks
  <2>3. block_size[t] \in Nat  BY DEF TypeOK
  <2> HIDE DEF blocks
  <2> QED  BY <2>2, <2>3 DEF Outcome
<1>5. request' = request /\ UNCHANGED piscsi_cur_drive  BY DEF ReadBlocks, registers
<1> HIDE DEF size
<1>6. /\ pc' \in [Tasks -> Nat] /\ outcome' \in [Tasks -> Outcome]
      /\ \A s \in Tasks : pc'[s] \in 0 .. Len(Program(request'[s].op))
  BY <1>1, <1>3, <1>4, <1>5, ContinueOrReplyType, ReplyType DEF TypeOK
<1>7. own' \in [Tasks -> BOOLEAN]  BY DEF ReadBlocks, Use, TypeOK
<1>8. \A s \in Tasks : s # t => pc'[s] = pc[s]
  BY <1>3 DEF ContinueOrReply, Continue, Reply, TypeOK
<1>9. DriveSelected'  BY <1>5, <1>6, <1>8, SelectedStays DEF ReadBlocks
<1> QED  BY <1>6, <1>7, <1>9 DEF ReadBlocks, TypeOK, registers
LEMMA AddrType ==
    ASSUME TypeOK, DriveSelected, NEW t \in Tasks, WriteAddr(t)
    PROVE  TypeOK' /\ DriveSelected'
<1>1. ~Idle(t)  BY NotIdle DEF WriteAddr, Addr
<1>2. /\ request[t] \in Request /\ request[t].op \in Ops
      /\ pc[t] \in 1 .. Len(Program(request[t].op))
      /\ Program(request[t].op)[pc[t]] \in DOMAIN Addr
  BY <1>1, InProgram DEF WriteAddr
<1>3. pc[t] < Len(Program(request[t].op))  BY <1>2, SelectNotLast
<1>4. /\ pc' \in [Tasks -> Nat] /\ outcome' \in [Tasks -> Outcome]
      /\ \A s \in Tasks : pc'[s] \in 0 .. Len(Program(request'[s].op))
  BY <1>1, <1>3, ContinueType DEF WriteAddr
<1>5. Addr[At(t)] \in 1 .. 4  BY DEF WriteAddr, Addr
<1>6. \A i \in 1 .. 4 : Value(request[t], i) \in Word  BY <1>2, ValueType
<1>7. piscsi_u32' \in [1 .. 4 -> Word] /\ owner' \in [0 .. 4 -> Tasks \cup {"nobody"}]
  BY <1>5, <1>6 DEF WriteAddr, TypeOK
<1>8. \A s \in Tasks : s # t => pc'[s] = pc[s]  BY DEF WriteAddr, Continue, TypeOK
<1>9. UNCHANGED piscsi_cur_drive /\ At(t) \notin {"none", "DRVNUMX"}  BY DEF WriteAddr, Addr
<1>10. DriveSelected'  BY <1>4, <1>8, <1>9, SelectedStays
<1> QED  BY <1>4, <1>7, <1>10 DEF WriteAddr, TypeOK

LEMMA CommandType ==
    ASSUME TypeOK, DriveSelected, NEW t \in Tasks, Command(t)
    PROVE  TypeOK' /\ DriveSelected'
<1> DEFINE op == request[t].op
           unit == Drive(t)
           at == Position(op, unit)
           length == piscsi_u32[2]
           write == op \in Writes
           bytes == Moved(write, unit, at, length)
           o == [kind |-> "moved", unit |-> unit, write |-> write, at |-> at, length |-> length,
                 data |-> piscsi_u32[3], bytes |-> bytes]
<1>1. ~Idle(t)  BY NotIdle DEF Command
<1>2. request[t] \in Request /\ unit \in Units  BY <1>1, InProgram DEF Request, Drive
<1>3. /\ length \in Nat /\ length \in Word /\ piscsi_u32[3] \in Word
      /\ piscsi_u32[1] \in Nat /\ piscsi_u32[4] \in Nat
  BY DEF TypeOK, Word
<1>4. at \in Nat
  <2>1. BlockSize[unit] \in Nat /\ WORD \in Nat \ {0}  BY <1>2, DriveAssumption
  <2>2. \A m, n \in Nat : m * n \in Nat  OBVIOUS
  <2>3. piscsi_u32[1] * BlockSize[unit] \in Nat /\ piscsi_u32[4] * WORD \in Nat
    BY <1>3, <2>1, <2>2
  <2> HIDE DEF unit, op
  <2> QED  BY <1>3, <2>1, <2>3 DEF Position
<1>5. bytes \in Nat
  <2>1. file_size[unit] \in Nat  BY <1>2 DEF TypeOK
  <2> HIDE DEF unit, at, length, write
  <2> QED  BY <1>3, <1>4, <2>1 DEF Moved
<1>6. o \in Outcome
  <2>1. write \in BOOLEAN  OBVIOUS
  <2> HIDE DEF unit, at, length, write, bytes
  <2> QED  BY <1>2, <1>3, <1>4, <1>5, <2>1 DEF Outcome
<1>7. Reply(t, o)  BY DEF Command
<1> HIDE DEF o
<1>8. request' = request /\ UNCHANGED piscsi_cur_drive  BY DEF Command, registers
<1>9. /\ pc' \in [Tasks -> Nat] /\ outcome' \in [Tasks -> Outcome]
      /\ \A s \in Tasks : pc'[s] \in 0 .. Len(Program(request'[s].op))
  BY <1>6, <1>7, <1>8, ReplyType DEF TypeOK
<1>10. file_size' \in [Units -> Nat]
  <2>1. file_size' = file_size \/ file_size' = [file_size EXCEPT ![unit] = at + length]
    BY DEF Command
  <2>2. file_size \in [Units -> Nat]  BY DEF TypeOK
  <2> HIDE DEF unit, at, length
  <2>3. at + length \in Nat  BY <1>3, <1>4
  <2> QED  BY <1>2, <2>1, <2>2, <2>3
<1>11. own' \in [Tasks -> BOOLEAN]  BY DEF Command, Use, TypeOK
<1>12. \A s \in Tasks : s # t => pc'[s] = pc[s]  BY <1>7 DEF Reply, TypeOK
<1>13. At(t) \notin {"none", "DRVNUMX"}  BY DEF Command
<1>14. DriveSelected'  BY <1>8, <1>9, <1>12, <1>13, SelectedStays
<1> QED  BY <1>9, <1>10, <1>11, <1>14 DEF Command, TypeOK, registers

LEMMA ResetType == TypeOK /\ DriveSelected /\ Reset => TypeOK' /\ DriveSelected'
<1> SUFFICES ASSUME TypeOK, DriveSelected, Reset PROVE TypeOK' /\ DriveSelected'  OBVIOUS
<1>1. \A t \in Tasks : Len(Program(request[t].op)) \in Nat  BY Programs DEF TypeOK, Request
<1>2. /\ pc' \in [Tasks -> Nat] /\ outcome' \in [Tasks -> Outcome]
      /\ \A t \in Tasks : pc'[t] \in 0 .. Len(Program(request'[t].op))
  BY <1>1 DEF Reset, TypeOK, Outcome
<1>3. /\ aborted' \in [Tasks -> BOOLEAN] /\ own' \in [Tasks -> BOOLEAN]
  BY DEF Reset
<1>4. owner' \in [0 .. 4 -> Tasks \cup {"nobody"}]
  <2>1. owner \in [0 .. 4 -> Tasks \cup {"nobody"}]  BY DEF TypeOK
  <2> QED  BY <2>1 DEF Reset
<1>5. piscsi_cur_drive' \in 0 .. NUM_UNITS - 1  BY DEF Reset, NUM_UNITS
<1>6. UNCHANGED <<piscsi_u32, file_size, request, block_size>>  BY DEF Reset
<1>7. DriveSelected'  BY DEF Reset, DriveSelected
<1> QED  BY <1>2, <1>3, <1>4, <1>5, <1>6, <1>7 DEF TypeOK

LEMMA NextType == TypeOK /\ DriveSelected /\ [Next]_vars => TypeOK' /\ DriveSelected'
<1> SUFFICES ASSUME TypeOK, DriveSelected, [Next]_vars PROVE TypeOK' /\ DriveSelected'  OBVIOUS
<1>1. ASSUME NEW t \in Tasks, NEW r \in Requests[t], BeginIO(t, r)
      PROVE  TypeOK' /\ DriveSelected'
  BY <1>1, BeginType
<1>2. ASSUME NEW t \in Tasks,
             AbortIO(t) \/ SelectDrive(t) \/ ReadBlockSize(t) \/ ReadBlocks(t)
             \/ WriteAddr(t) \/ Command(t)
      PROVE  TypeOK' /\ DriveSelected'
  BY <1>2, AbortType, SelectType, BlockSizeType, BlocksType, AddrType, CommandType
<1>3. CASE Reset  BY <1>3, ResetType
<1>4. CASE UNCHANGED vars  BY <1>4 DEF vars, registers, TypeOK, DriveSelected, Idle
<1> QED  BY <1>1, <1>2, <1>3, <1>4 DEF Next

LEMMA TypeAlways == Spec => [](TypeOK /\ DriveSelected)
  BY InitType, NextType, PTL DEF Spec

\* The types of the driver and of the registers, for any requests and drives.
THEOREM PiScsiTypeOK == Spec => []TypeOK
  BY TypeAlways, PTL

\* The registers that divide by a drive's block size are read with a drive
\* selected that has an image, although any task may select another in between
\* and a reset leaves the controller at a drive that may have none.
THEOREM NeverDividesByZero == Spec => []NoDivisionByZero
<1>1. TypeOK /\ DriveSelected => NoDivisionByZero  BY SizesSelected DEF NoDivisionByZero
<1> QED  BY <1>1, TypeAlways, PTL

-----------------------------------------------------------------------------
\* What a task finds in the registers, and what comes of its request.

\* Access reg of t's request was done: what it wrote is there as long as t is the
\* last writer, and what it read is right as long as what t used was its own.
Done(t, reg) ==
    /\ reg \in {"DRVNUMX", "DRVNUM"} /\ owner[0] = t => piscsi_cur_drive = request[t].unit
    /\ reg \in DOMAIN Addr /\ owner[Addr[reg]] = t =>
          piscsi_u32[Addr[reg]] = Value(request[t], Addr[reg])
    /\ reg = "BLOCKSIZE" /\ own[t] => block_size[t] = BlockSize[request[t].unit]
    /\ reg = "BLOCKS" /\ own[t] => ~BadBlocks(request[t], Blocks(request[t].unit))

\* The property's claim for one task.
Right(r, o, mine) == mine /\ Direct(r) => Exact(r, o)

\* The inductive invariant, for one task.
Sound(t) ==
    /\ ~Idle(t) => outcome[t] = None
    /\ \A reg \in Before(request[t].op, pc[t]) : Done(t, reg)
    /\ Right(request[t], outcome[t], own[t])

Grown == \A u \in Units : file_size[u] >= ImageSize[u]

SoundInv == Grown /\ \A t \in Tasks : Sound(t)

\* An outcome that moves nothing and tells nothing is right.
LEMMA NothingIsRight == \A r, mine : Right(r, None, mine) /\ Right(r, Failed, mine)
  BY DEF Right, Exact, None, Failed

\* A task whose own variables stay, and which no longer counts as the writer of
\* a register that another task writes.
LEMMA SoundStays ==
    ASSUME NEW t \in Tasks, Sound(t),
           UNCHANGED <<request[t], pc[t], outcome[t], own[t], block_size[t]>>,
           owner'[0] = t => owner[0] = t /\ UNCHANGED piscsi_cur_drive,
           \A i \in 1 .. 4 : owner'[i] = t => owner[i] = t /\ UNCHANGED piscsi_u32[i]
    PROVE  Sound(t)'
<1>1. \A reg : Done(t, reg) => Done(t, reg)'
  <2> SUFFICES ASSUME NEW reg, Done(t, reg) PROVE Done(t, reg)'  OBVIOUS
  <2>1. reg \in DOMAIN Addr => Addr[reg] \in 1 .. 4  BY DEF Addr
  <2> QED  BY <2>1 DEF Done
<1>2. Before(request[t].op, pc[t])' = Before(request[t].op, pc[t])  BY DEF Before
<1>3. (~Idle(t) => outcome[t] = None)'
  <2>1. ~Idle(t) => outcome[t] = None  BY DEF Sound
  <2> QED  BY <2>1 DEF Idle
<1>4. Right(request[t], outcome[t], own[t])'  BY DEF Sound
<1>5. \A reg \in Before(request[t].op, pc[t]) : Done(t, reg)  BY DEF Sound
<1>6. \A reg \in Before(request[t].op, pc[t])' : Done(t, reg)'  BY <1>1, <1>2, <1>5
<1> QED  BY <1>3, <1>4, <1>6 DEF Sound

\* A task that goes on.
LEMMA SoundContinues ==
    ASSUME TypeOK, NEW t \in Tasks, Sound(t), ~Idle(t), Continue(t),
           UNCHANGED request, own'[t] => own[t],
           \A reg : Done(t, reg) => Done(t, reg)',
           NEW now, now = At(t), Done(t, now)'
    PROVE  Sound(t)'
<1>1. pc[t] \in Nat \ {0} /\ pc \in [Tasks -> Nat]  BY DEF TypeOK, Idle
<1>2. pc'[t] = pc[t] + 1 /\ outcome' = outcome  BY <1>1 DEF Continue
<1>3. Before(request'[t].op, pc'[t]) = Before(request[t].op, pc[t]) \cup {now}
  BY <1>1, <1>2, BeforeNext DEF At
<1>4. \A reg \in Before(request'[t].op, pc'[t]) : Done(t, reg)'  BY <1>3 DEF Sound
<1>5. outcome'[t] = None  BY <1>2 DEF Sound
<1> QED  BY <1>4, <1>5, NothingIsRight DEF Sound

\* A task that ends.
LEMMA SoundReplies ==
    ASSUME TypeOK, NEW t \in Tasks, NEW o, Reply(t, o), Right(request'[t], o, own'[t])
    PROVE  Sound(t)'
<1>1. pc \in [Tasks -> Nat] /\ outcome \in [Tasks -> Outcome]  BY DEF TypeOK
<1>2. pc'[t] = 0 /\ outcome'[t] = o  BY <1>1 DEF Reply
<1> QED  BY <1>2, BeforeFirst DEF Sound, Idle
-----------------------------------------------------------------------------
\* What each access does to the task that does it.

LEMMA BeginSound ==
    ASSUME TypeOK, NEW t \in Tasks, NEW r \in Requests[t], BeginIO(t, r)
    PROVE  Sound(t)'
<1>1. CASE aborted[t]
  <2>1. Reply(t, Failed)  BY <1>1 DEF BeginIO
  <2> QED  BY <2>1, NothingIsRight, SoundReplies
<1>2. CASE ~aborted[t]
  <2>1. pc' = [pc EXCEPT ![t] = 1] /\ outcome' = [outcome EXCEPT ![t] = None]
    BY <1>2 DEF BeginIO
  <2>2. pc'[t] = 1 /\ outcome'[t] = None  BY <2>1 DEF TypeOK
  <2> QED  BY <2>2, BeforeFirst, NothingIsRight DEF Sound
<1> QED  BY <1>1, <1>2

LEMMA SelectSound ==
    ASSUME TypeOK, NEW t \in Tasks, Sound(t), SelectDrive(t)
    PROVE  Sound(t)'
<1>1. ~Idle(t)  BY NotIdle DEF SelectDrive
<1>2. piscsi_cur_drive' = request[t].unit /\ UNCHANGED <<piscsi_u32, request, block_size, own>>
  BY DEF SelectDrive
<1>3. owner' = [owner EXCEPT ![0] = t] /\ owner \in [0 .. 4 -> Tasks \cup {"nobody"}]
  BY DEF SelectDrive, TypeOK
<1>4. \A i \in 1 .. 4 : owner'[i] = owner[i]  BY <1>3
<1>5. \A reg : Done(t, reg) => Done(t, reg)'
  <2> SUFFICES ASSUME NEW reg, Done(t, reg) PROVE Done(t, reg)'  OBVIOUS
  <2> QED  BY <1>2, <1>4, AddrDomain DEF Done
<1>6. \A reg \in {"DRVNUMX", "DRVNUM"} : Done(t, reg)'  BY <1>2, AddrDomain DEF Done
<1>7. At(t) \in {"DRVNUMX", "DRVNUM"} /\ Continue(t)  BY DEF SelectDrive
<1> QED  BY <1>1, <1>2, <1>5, <1>6, <1>7, SoundContinues
\* What a task reads of its drive's sizes is of its drive, if it counts as its own.
LEMMA OwnDrive ==
    ASSUME TypeOK, NEW t \in Tasks, Sound(t), At(t) \in {"BLOCKSIZE", "BLOCKS"}, Use(t, {0})
    PROVE  own'[t] => own[t] /\ piscsi_cur_drive = request[t].unit
<1>1. ~Idle(t)  BY NotIdle
<1>2. /\ request[t].op \in Ops /\ pc[t] \in 1 .. Len(Program(request[t].op))
      /\ At(t) = Program(request[t].op)[pc[t]]
  BY <1>1, InProgram
<1>3. "DRVNUMX" \in Before(request[t].op, pc[t])
  <2>1. Program(request[t].op)[1] = "DRVNUMX" /\ pc[t] # 1  BY <1>2, Programs
  <2>2. Len(Program(request[t].op)) \in Nat  BY <1>2, Programs
  <2>3. 1 \in 1 .. pc[t] - 1  BY <1>2, <2>1, <2>2
  <2> QED  BY <2>1, <2>3 DEF Before
<1>4. Done(t, "DRVNUMX")  BY <1>3 DEF Sound
<1>5. own'[t] => own[t] /\ owner[0] = t
  <2>1. own \in [Tasks -> BOOLEAN]  BY DEF TypeOK
  <2> QED  BY <2>1 DEF Use
<1> QED  BY <1>4, <1>5 DEF Done

LEMMA BlockSizeSound ==
    ASSUME TypeOK, NEW t \in Tasks, Sound(t), ReadBlockSize(t)
    PROVE  Sound(t)'
<1>1. ~Idle(t)  BY NotIdle DEF ReadBlockSize
<1>2. own'[t] => own[t] /\ piscsi_cur_drive = request[t].unit  BY OwnDrive DEF ReadBlockSize
<1>3. UNCHANGED <<piscsi_cur_drive, piscsi_u32, request, owner>>  BY DEF ReadBlockSize, registers
<1>4. block_size'[t] = BlockSize[piscsi_cur_drive]  BY DEF ReadBlockSize, TypeOK
<1>5. \A reg : Done(t, reg) => Done(t, reg)'
  <2> SUFFICES ASSUME NEW reg, Done(t, reg) PROVE Done(t, reg)'  OBVIOUS
  <2> QED  BY <1>2, <1>3, <1>4 DEF Done
<1>6. Done(t, "BLOCKSIZE")'  BY <1>2, <1>3, <1>4, AddrDomain DEF Done
<1>7. Reply(t, Failed) \/ Reply(t, None) \/ Continue(t)  BY DEF ReadBlockSize, ContinueOrReply
<1>8. At(t) = "BLOCKSIZE"  BY DEF ReadBlockSize
<1> QED  BY <1>1, <1>2, <1>3, <1>5, <1>6, <1>7, <1>8, SoundContinues, SoundReplies, NothingIsRight

LEMMA BlocksSound ==
    ASSUME TypeOK, NEW t \in Tasks, Sound(t), ReadBlocks(t)
    PROVE  Sound(t)'
<1> DEFINE blocks == Blocks(piscsi_cur_drive)
           size == [kind |-> "size", size |-> block_size[t], blocks |-> blocks]
<1>1. ~Idle(t) /\ At(t) = "BLOCKS"  BY NotIdle DEF ReadBlocks
<1>2. own'[t] => own[t] /\ piscsi_cur_drive = request[t].unit  BY OwnDrive DEF ReadBlocks
<1>3. UNCHANGED <<piscsi_cur_drive, piscsi_u32, request, owner, block_size>>
  BY DEF ReadBlocks, registers
<1>4. \A reg : Done(t, reg) => Done(t, reg)'
  <2> SUFFICES ASSUME NEW reg, Done(t, reg) PROVE Done(t, reg)'  OBVIOUS
  <2> QED  BY <1>2, <1>3 DEF Done
<1>5. CASE BadBlocks(request[t], blocks)
  <2>1. Reply(t, Failed)  BY <1>5 DEF ReadBlocks
  <2> QED  BY <2>1, SoundReplies, NothingIsRight
<1>6. CASE ~BadBlocks(request[t], blocks) /\ Continue(t)
  <2>1. Done(t, "BLOCKS")'  BY <1>2, <1>3, <1>6, AddrDomain DEF Done
  <2> QED  BY <1>1, <1>2, <1>3, <1>4, <1>6, <2>1, SoundContinues
<1>7. CASE Reply(t, size)
  <2>1. request[t].op \in Ops /\ pc[t] \in 1 .. Len(Program(request[t].op))
    BY <1>1, InProgram
  <2>2. Program(request[t].op)[pc[t]] = "BLOCKS"  BY <1>1, InProgram
  <2>3. "BLOCKSIZE" \in Before(request[t].op, pc[t])  BY <2>1, <2>2, BlocksAfterSize
  <2>4. own[t] => block_size[t] = BlockSize[request[t].unit]  BY <2>3 DEF Sound, Done
  <2>5. own'[t] => size.size = BlockSize[request[t].unit] /\ size.blocks = Blocks(request[t].unit)
    BY <1>2, <2>4
  <2>6. size.kind = "size"  OBVIOUS
  <2> HIDE DEF size
  <2>7. Right(request'[t], size, own'[t])  BY <1>3, <2>5, <2>6 DEF Right, Exact
  <2> QED  BY <1>7, <2>7, SoundReplies
<1>8. BadBlocks(request[t], blocks) \/ Continue(t) \/ Reply(t, size)
  BY DEF ReadBlocks, ContinueOrReply
<1> QED  BY <1>5, <1>6, <1>7, <1>8

LEMMA AddrSound ==
    ASSUME TypeOK, NEW t \in Tasks, Sound(t), WriteAddr(t)
    PROVE  Sound(t)'
<1> DEFINE i == Addr[At(t)]
<1>1. ~Idle(t) /\ At(t) \in DOMAIN Addr  BY NotIdle, AddrDomain DEF WriteAddr
<1>2. i \in 1 .. 4  BY <1>1, AddrDomain
<1>3. /\ piscsi_u32' = [piscsi_u32 EXCEPT ![i] = Value(request[t], i)]
      /\ owner' = [owner EXCEPT ![i] = t]
      /\ UNCHANGED <<piscsi_cur_drive, request, block_size, own>> /\ Continue(t)
  BY DEF WriteAddr
<1>4. piscsi_u32 \in [1 .. 4 -> Word] /\ owner \in [0 .. 4 -> Tasks \cup {"nobody"}]
  BY DEF TypeOK
<1>5. piscsi_u32'[i] = Value(request[t], i)  BY <1>2, <1>3, <1>4
<1>6. \A j \in 1 .. 4 : j # i => UNCHANGED <<piscsi_u32[j], owner[j]>>  BY <1>2, <1>3, <1>4
<1>7. owner'[0] = owner[0]  BY <1>2, <1>3, <1>4
<1> HIDE DEF i
<1>8. \A reg : Done(t, reg) => Done(t, reg)'
  <2> SUFFICES ASSUME NEW reg, Done(t, reg) PROVE Done(t, reg)'  OBVIOUS
  <2>1. reg \in DOMAIN Addr => Addr[reg] \in 1 .. 4 /\ Addr' = Addr  BY AddrDomain DEF Addr
  <2> QED  BY <1>3, <1>5, <1>6, <1>7, <2>1 DEF Done
<1>9. \A reg \in DOMAIN Addr : Addr[reg] = i => Done(t, reg)'
  <2> SUFFICES ASSUME NEW reg \in DOMAIN Addr, Addr[reg] = i PROVE Done(t, reg)'  OBVIOUS
  <2>1. Addr' = Addr /\ reg \notin {"DRVNUMX", "DRVNUM", "BLOCKSIZE", "BLOCKS"}
    BY AddrDomain DEF Addr
  <2> QED  BY <1>3, <1>5, <2>1 DEF Done
<1>10. Addr[At(t)] = i  BY DEF i
<1> QED  BY <1>1, <1>3, <1>8, <1>9, <1>10, SoundContinues
\* Blocks whose bytes a word can count: no more blocks than a disk has, in a word,
\* are no more bytes than it has.
LEMMA BlocksInside ==
    ASSUME NEW s \in Nat, NEW c \in Nat, NEW b \in Nat \ {0}, NEW size \in Nat, NEW w \in Nat \ {0},
           s * b + c * b < w, (s + c) % w <= (size \div b) % w
    PROVE  (s * b) % w = s * b /\ (c * b) % w = c * b /\ s * b + c * b <= size
<1>1. s * b \in Nat /\ c * b \in Nat  OBVIOUS
<1>2. (s * b) % w = s * b /\ (c * b) % w = c * b  BY <1>1
<1>3. s * b + c * b = (s + c) * b  OBVIOUS
<1>4. s + c <= (s + c) * b  OBVIOUS
<1>5. (s + c) % w = s + c  BY <1>3, <1>4
<1>6. size \div b \in Nat /\ (size \div b) * b <= size  OBVIOUS
<1>7. (size \div b) % w <= size \div b  BY <1>6
<1>8. s + c <= size \div b  BY <1>5, <1>6, <1>7
<1>9. (s + c) * b <= (size \div b) * b  BY <1>6, <1>8
<1> QED  BY <1>2, <1>3, <1>6, <1>9

\* All bytes of a transfer inside an image are moved.
LEMMA AllMoved ==
    ASSUME NEW u \in Units, NEW at \in Nat, NEW length \in Nat, NEW write \in BOOLEAN,
           file_size[u] \in Nat, ImageSize[u] \in Nat, file_size[u] >= ImageSize[u],
           at + length <= ImageSize[u]
    PROVE  Moved(write, u, at, length) = length
  BY DEF Moved

LEMMA Values ==
    \A r : /\ Value(r, 1) = r.start /\ Value(r, 3) = r.data /\ Value(r, 4) = r.high
          /\ Value(r, 2) = IF r.op \in Scsi THEN (r.count * SECTOR) % WORD ELSE r.count
  BY DEF Value

LEMMA CommandSound ==
    ASSUME TypeOK, Grown, NEW t \in Tasks, Sound(t), Command(t)
    PROVE  Sound(t)'
<1> DEFINE r == request[t]
           unit == Drive(t)
           at == Position(r.op, unit)
           length == piscsi_u32[2]
           write == r.op \in Writes
           o == [kind |-> "moved", unit |-> unit, write |-> write, at |-> at, length |-> length,
                 data |-> piscsi_u32[3], bytes |-> Moved(write, unit, at, length)]
<1>1. ~Idle(t) /\ At(t) = "COMMAND"  BY NotIdle DEF Command
<1>2. /\ r \in Request /\ r.op \in Ops /\ pc[t] \in 1 .. Len(Program(r.op))
      /\ Program(r.op)[pc[t]] = "COMMAND"
  BY <1>1, InProgram
<1>3. unit = r.unit /\ unit \in Units  BY <1>2 DEF Drive, Request
<1>4. Reply(t, o) /\ request' = request  BY DEF Command
<1>5. own'[t] => /\ own[t] /\ owner[1] = t /\ owner[2] = t /\ owner[3] = t
                 /\ r.op \in Rw64 => owner[4] = t
  <2>1. own \in [Tasks -> BOOLEAN]  BY DEF TypeOK
  <2> QED  BY <2>1 DEF Command, Use
<1>6. own'[t] => /\ piscsi_u32[1] = Value(r, 1) /\ piscsi_u32[2] = Value(r, 2)
                 /\ piscsi_u32[3] = Value(r, 3)
                 /\ r.op \in Rw64 => piscsi_u32[4] = Value(r, 4)
  <2>1. /\ {"ADDR1", "ADDR2", "ADDR3"} \subseteq Before(r.op, pc[t])
        /\ r.op \in Rw64 => "ADDR4" \in Before(r.op, pc[t])
    BY <1>2, CommandLast
  <2>2. /\ Done(t, "ADDR1") /\ Done(t, "ADDR2") /\ Done(t, "ADDR3")
        /\ r.op \in Rw64 => Done(t, "ADDR4")
    BY <2>1 DEF Sound
  <2>3. Addr["ADDR1"] = 1 /\ Addr["ADDR2"] = 2 /\ Addr["ADDR3"] = 3 /\ Addr["ADDR4"] = 4
    BY DEF Addr
  <2> QED  BY <1>5, <2>2, <2>3, AddrDomain DEF Done
<1>7. own'[t] /\ r.op \in Scsi => ~BadBlocks(r, Blocks(r.unit))
  <2>1. r.op \in Scsi => Done(t, "BLOCKS")  BY <1>2, CommandLast DEF Sound
  <2> QED  BY <1>5, <2>1 DEF Done
<1>8. /\ o.kind = "moved" /\ o.unit = unit /\ o.write = write /\ o.at = at /\ o.length = length
      /\ o.data = piscsi_u32[3] /\ o.bytes = Moved(write, unit, at, length)
  OBVIOUS
<1>9. ASSUME own'[t], Direct(r) PROVE Exact(r, o)
  <2>1. r.start \in Nat /\ r.count \in Nat /\ r.high \in Nat  BY <1>2 DEF Request, Word
  <2>2. /\ BlockSize[r.unit] \in Nat \ {0} /\ ImageSize[r.unit] \in Nat /\ WORD \in Nat \ {0}
        /\ file_size[r.unit] \in Nat /\ file_size[r.unit] >= ImageSize[r.unit]
    BY <1>3, DriveAssumption DEF TypeOK, Grown
  <2>3. o.data = r.data  BY <1>6, <1>8, <1>9, Values
  <2>4. at = Start(r) /\ length = Length(r) /\ (r.op \in Scsi => Inside(r))
    <3>1. CASE r.op \in Scsi
      <4>1. /\ BlockSize[r.unit] = SECTOR
            /\ r.start * BlockSize[r.unit] + r.count * BlockSize[r.unit] < WORD
        BY <1>9, <3>1 DEF Direct, Start, Length
      <4>2. (r.start + r.count) % WORD <= Blocks(r.unit)
        <5>1. ~((r.start + r.count) % WORD > Blocks(r.unit))
          BY <1>7, <1>9, <3>1 DEF BadBlocks
        <5>2. (r.start + r.count) % WORD \in Int /\ Blocks(r.unit) \in Int
          BY <2>1, <2>2 DEF Blocks
        <5> QED  BY <5>1, <5>2
      <4>3. /\ (r.start * BlockSize[r.unit]) % WORD = r.start * BlockSize[r.unit]
            /\ (r.count * BlockSize[r.unit]) % WORD = r.count * BlockSize[r.unit]
            /\ r.start * BlockSize[r.unit] + r.count * BlockSize[r.unit] <= ImageSize[r.unit]
        <5> DEFINE s == r.start
                   c == r.count
                   b == BlockSize[r.unit]
                   size == ImageSize[r.unit]
        <5>1. (s + c) % WORD <= (size \div b) % WORD  BY <4>2 DEF Blocks
        <5>2. s * b + c * b < WORD  BY <4>1
        <5>3. s \in Nat /\ c \in Nat /\ b \in Nat \ {0} /\ size \in Nat  BY <2>1, <2>2
        <5> HIDE DEF s, c, b, size
        <5>4. (s * b) % WORD = s * b /\ (c * b) % WORD = c * b /\ s * b + c * b <= size
          BY <2>2, <5>1, <5>2, <5>3, BlocksInside
        <5> QED  BY <5>4 DEF s, c, b, size
      <4>4. at = (r.start * BlockSize[r.unit]) % WORD /\ length = (r.count * SECTOR) % WORD
        BY <1>3, <1>6, <1>9, <3>1, Values DEF Position
      <4> QED  BY <3>1, <4>1, <4>3, <4>4 DEF Start, Length, Inside
    <3>2. CASE r.op \in Rw64
      <4>1. r.op \notin Scsi  BY <3>2 DEF Rw64, Scsi
      <4>2. r.op \in Rw64 /\ own'[t]  BY <1>9, <3>2
      <4>3. piscsi_u32[4] = r.high /\ piscsi_u32[1] = r.start /\ length = r.count
        BY <1>6, <4>1, <4>2, Values
      <4>4. at = r.high * WORD + r.start  BY <4>1, <4>2, <4>3 DEF Position
      <4> QED  BY <4>1, <4>2, <4>3, <4>4 DEF Start, Length
    <3>3. CASE r.op \in Rw32
      <4>1. r.op \notin Scsi \cup Rw64  BY <3>3 DEF Rw32, Rw64, Scsi
      <4> QED  BY <1>3, <1>6, <1>9, <4>1, Values DEF Position, Start, Length
    <3> QED  BY <1>2, <3>1, <3>2, <3>3, CommandLast
  <2>5. at \in Nat /\ length \in Nat
    <3>1. length \in Nat  BY DEF TypeOK, Word
    <3>2. r.start * BlockSize[r.unit] \in Nat /\ r.high * WORD \in Nat  BY <2>1, <2>2
    <3>3. Start(r) \in Nat
      <4> HIDE DEF r
      <4> QED  BY <2>1, <3>2 DEF Start
    <3> QED  BY <2>4, <3>1, <3>3
  <2>6. Inside(r) => Moved(write, unit, at, length) = length
    <3>1. Inside(r) => at + length <= ImageSize[r.unit]  BY <2>4 DEF Inside
    <3>2. write \in BOOLEAN  OBVIOUS
    <3> QED  BY <1>3, <2>2, <2>5, <3>1, <3>2, AllMoved
  <2>7. o.unit = r.unit /\ (o.write <=> r.op \in Writes)
    <3> HIDE DEF o, unit
    <3> QED  BY <1>3, <1>8
  <2> HIDE DEF o, at, length, unit, write
  <2>8. o.kind # "size" /\ (Inside(r) => o.bytes = o.length)  BY <1>8, <2>6
  <2> QED  BY <1>8, <2>3, <2>4, <2>7, <2>8, Zenon DEF Exact
<1>10. Right(r, o, own'[t])  BY <1>9 DEF Right
<1> HIDE DEF o
<1> QED  BY <1>4, <1>10, SoundReplies
-----------------------------------------------------------------------------
\* What a task's access does to the others.

LEMMA OthersSound ==
    ASSUME TypeOK, NEW s \in Tasks, NEW t \in Tasks, t # s, Sound(t),
           \/ \E r \in Requests[s] : BeginIO(s, r)
           \/ AbortIO(s) \/ SelectDrive(s) \/ ReadBlockSize(s) \/ ReadBlocks(s)
           \/ WriteAddr(s) \/ Command(s)
    PROVE  Sound(t)'
<1>1. /\ request \in [Tasks -> Request] /\ pc \in [Tasks -> Nat]
      /\ outcome \in [Tasks -> Outcome] /\ own \in [Tasks -> BOOLEAN]
      /\ block_size \in [Tasks -> Nat] /\ owner \in [0 .. 4 -> Tasks \cup {"nobody"}]
      /\ piscsi_u32 \in [1 .. 4 -> Word]
  BY DEF TypeOK
<1>2. (Continue(s) \/ \E o : Reply(s, o)) => UNCHANGED <<pc[t], outcome[t]>>
  BY <1>1 DEF Continue, Reply
<1>3. \A r : Use(s, r) => UNCHANGED own[t]  BY <1>1 DEF Use
<1>4. \A o : ContinueOrReply(s, o) => Continue(s) \/ \E q : Reply(s, q)  BY DEF ContinueOrReply
<1>5. ASSUME NEW r \in Requests[s], BeginIO(s, r) PROVE Sound(t)'
  <2>1. UNCHANGED <<pc[t], outcome[t]>>  BY <1>1, <1>5 DEF BeginIO, Reply
  <2>2. UNCHANGED <<request[t], own[t], block_size[t], registers, owner>>
    BY <1>1, <1>5 DEF BeginIO
  <2> QED  BY <2>1, <2>2, SoundStays DEF registers
<1>6. CASE AbortIO(s)
  <2>1. UNCHANGED <<request[t], pc[t], outcome[t], own[t], block_size[t], owner, registers>>
    BY <1>6 DEF AbortIO
  <2> QED  BY <2>1, SoundStays DEF registers
<1>7. CASE SelectDrive(s)
  <2>1. UNCHANGED <<request[t], pc[t], outcome[t], own[t], block_size[t], piscsi_u32>>
    BY <1>2, <1>7 DEF SelectDrive
  <2>2. owner'[0] = s /\ \A i \in 1 .. 4 : owner'[i] = owner[i]  BY <1>1, <1>7 DEF SelectDrive
  <2> QED  BY <2>1, <2>2, SoundStays
<1>8. CASE ReadBlockSize(s)
  <2>1. UNCHANGED <<pc[t], outcome[t]>>  BY <1>2, <1>4, <1>8 DEF ReadBlockSize
  <2>2. UNCHANGED <<request[t], own[t], block_size[t], registers, owner>>
    BY <1>1, <1>3, <1>8 DEF ReadBlockSize
  <2> QED  BY <2>1, <2>2, SoundStays DEF registers
<1>9. CASE ReadBlocks(s)
  <2>1. UNCHANGED <<pc[t], outcome[t]>>  BY <1>2, <1>4, <1>9 DEF ReadBlocks
  <2>2. UNCHANGED <<request[t], own[t], block_size[t], registers, owner>>
    BY <1>3, <1>9 DEF ReadBlocks
  <2> QED  BY <2>1, <2>2, SoundStays DEF registers
<1>10. CASE WriteAddr(s)
  <2> DEFINE j == Addr[At(s)]
  <2>1. j \in 1 .. 4  BY <1>10, AddrDomain DEF WriteAddr
  <2>2. UNCHANGED <<request[t], pc[t], outcome[t], own[t], block_size[t], piscsi_cur_drive>>
    BY <1>2, <1>10 DEF WriteAddr
  <2>3. piscsi_u32' = [piscsi_u32 EXCEPT ![j] = Value(request[s], j)]
        /\ owner' = [owner EXCEPT ![j] = s]
    BY <1>10 DEF WriteAddr
  <2> HIDE DEF j
  <2>4. /\ owner'[0] = owner[0]
        /\ \A i \in 1 .. 4 : owner'[i] = t => owner[i] = t /\ UNCHANGED piscsi_u32[i]
    BY <1>1, <2>1, <2>3
  <2> QED  BY <2>2, <2>4, SoundStays
<1>11. CASE Command(s)
  <2>1. UNCHANGED <<pc[t], outcome[t]>>  BY <1>2, <1>11 DEF Command
  <2>2. UNCHANGED <<request[t], own[t], block_size[t], registers, owner>>
    BY <1>3, <1>11 DEF Command
  <2> QED  BY <2>1, <2>2, SoundStays DEF registers
<1> QED  BY <1>5, <1>6, <1>7, <1>8, <1>9, <1>10, <1>11

\* The images only grow.
LEMMA GrownStays == TypeOK /\ TypeOK' /\ Grown /\ [Next]_vars => Grown'
<1> SUFFICES ASSUME TypeOK, TypeOK', Grown, [Next]_vars PROVE Grown'  OBVIOUS
<1>1. \A u \in Units : file_size[u] \in Nat /\ file_size'[u] \in Nat /\ ImageSize[u] \in Nat
  BY DriveAssumption DEF TypeOK
<1>2. CASE file_size' = file_size  BY <1>2 DEF Grown
<1>3. ASSUME NEW t \in Tasks, Command(t) PROVE Grown'
  <2>1. \/ file_size' = file_size
        \/ \E u, n : n > file_size[u] /\ file_size' = [file_size EXCEPT ![u] = n]
    BY <1>3 DEF Command
  <2>2. ASSUME NEW u, NEW n, n > file_size[u], file_size' = [file_size EXCEPT ![u] = n]
        PROVE  Grown'
    <3>1. \A v \in Units : v # u => file_size'[v] = file_size[v]  BY <2>2 DEF TypeOK
    <3>2. u \in Units => file_size'[u] = n  BY <2>2 DEF TypeOK
    <3>3. \A v \in Units : file_size'[v] >= file_size[v]
      <4> SUFFICES ASSUME NEW v \in Units PROVE file_size'[v] >= file_size[v]  OBVIOUS
      <4>1. CASE v = u  BY <1>1, <2>2, <3>2, <4>1
      <4>2. CASE v # u  BY <1>1, <3>1, <4>2
      <4> QED  BY <4>1, <4>2
    <3> QED  BY <1>1, <3>3 DEF Grown
  <2> QED  BY <2>1, <2>2 DEF Grown
<1> QED
  BY <1>2, <1>3 DEF Next, vars, BeginIO, AbortIO, SelectDrive, ReadBlockSize, ReadBlocks,
                    WriteAddr, Reset

LEMMA ResetSound == ASSUME Reset, NEW t \in Tasks PROVE Sound(t)'
<1>1. pc'[t] = 0 /\ outcome'[t] = None  BY DEF Reset
<1> QED  BY <1>1, BeforeFirst, NothingIsRight DEF Sound, Idle

LEMMA NextSound == TypeOK /\ TypeOK' /\ SoundInv /\ [Next]_vars => SoundInv'
<1> SUFFICES ASSUME TypeOK, TypeOK', SoundInv, [Next]_vars PROVE SoundInv'  OBVIOUS
<1>1. Grown'  BY GrownStays DEF SoundInv
<1>2. \A t \in Tasks : Sound(t)'
  <2> SUFFICES ASSUME NEW t \in Tasks PROVE Sound(t)'  OBVIOUS
  <2>1. Sound(t) /\ Grown  BY DEF SoundInv
  <2>2. ASSUME NEW s \in Tasks, NEW r \in Requests[s], BeginIO(s, r) PROVE Sound(t)'
    BY <2>1, <2>2, BeginSound, OthersSound
  <2>3. ASSUME NEW s \in Tasks, AbortIO(s) PROVE Sound(t)'
    <3>1. CASE s = t
      <4>1. UNCHANGED <<request[t], pc[t], outcome[t], own[t], block_size[t], owner, registers>>
        BY <2>3 DEF AbortIO
      <4> QED  BY <2>1, <4>1, SoundStays DEF registers
    <3> QED  BY <2>1, <2>3, <3>1, OthersSound
  <2>4. ASSUME NEW s \in Tasks, SelectDrive(s) PROVE Sound(t)'
    BY <2>1, <2>4, SelectSound, OthersSound
  <2>5. ASSUME NEW s \in Tasks, ReadBlockSize(s) PROVE Sound(t)'
    BY <2>1, <2>5, BlockSizeSound, OthersSound
  <2>6. ASSUME NEW s \in Tasks, ReadBlocks(s) PROVE Sound(t)'
    BY <2>1, <2>6, BlocksSound, OthersSound
  <2>7. ASSUME NEW s \in Tasks, WriteAddr(s) PROVE Sound(t)'
    BY <2>1, <2>7, AddrSound, OthersSound
  <2>8. ASSUME NEW s \in Tasks, Command(s) PROVE Sound(t)'
    BY <2>1, <2>8, CommandSound, OthersSound
  <2>9. CASE Reset  BY <2>9, ResetSound
  <2>10. CASE UNCHANGED vars
    <3>1. UNCHANGED <<request[t], pc[t], outcome[t], own[t], block_size[t], owner, registers>>
      BY <2>10 DEF vars
    <3> QED  BY <2>1, <3>1, SoundStays DEF registers
  <2> QED  BY <2>2, <2>3, <2>4, <2>5, <2>6, <2>7, <2>8, <2>9, <2>10 DEF Next
<1> QED  BY <1>1, <1>2 DEF SoundInv

LEMMA InitSound == Init => SoundInv
<1> SUFFICES ASSUME Init PROVE SoundInv  OBVIOUS
<1>1. Grown  BY DriveAssumption DEF Init, Grown
<1>2. \A t \in Tasks : pc[t] = 0 /\ outcome[t] = None  BY DEF Init
<1>3. \A t \in Tasks : Sound(t)  BY <1>2, BeforeFirst, NothingIsRight DEF Sound, Idle
<1> QED  BY <1>1, <1>3 DEF SoundInv

LEMMA SoundAlways == Spec => []SoundInv
<1>1. TypeOK /\ TypeOK' /\ SoundInv /\ [Next]_vars => SoundInv'  BY NextSound
<1> QED  BY <1>1, InitSound, PiScsiTypeOK, PTL DEF Spec

\* A request whose registers were its own moves exactly its bytes and learns its own
\* drive's size, for any sizes of words, sectors, blocks and images.
THEOREM ExactUnlessTorn == Spec => []UndisturbedIsExact
<1>1. SoundInv => UndisturbedIsExact  BY DEF SoundInv, Sound, Right, UndisturbedIsExact
<1> QED  BY <1>1, SoundAlways, PTL
=============================================================================
