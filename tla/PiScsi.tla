------------------------------- MODULE PiScsi -------------------------------
(***************************************************************************)
(* PiSCSI: the Amiga's driver (piscsi-amiga-2.c) and the registers of the  *)
(* emulated controller (handle_piscsi_read, handle_piscsi_write).          *)
(*                                                                         *)
(* The driver runs in the task that asks for the transfer, without a lock, *)
(* and Exec changes tasks between any two accesses to the registers, which *)
(* are the same for all drives.  Addresses and lengths are bytes; WORD     *)
(* stands for 2^32 and SECTOR for 512.  The Amiga is reset at any time.    *)
(***************************************************************************)
EXTENDS Integers, Sequences

CONSTANTS
    Tasks,          \* of the Amiga; each has one IORequest
    Requests,       \* what each of them may ask for
    Units,          \* with an image
    BlockSize,      \* devs[].block_size, from the image's rigid disk block
    ImageSize,      \* devs[].fs
    WORD, SECTOR

NUM_UNITS == 7

Rw32 == {"READ", "WRITE"}               \* CMD_READ, CMD_WRITE and TD_FORMAT
Rw64 == {"READ64", "WRITE64"}           \* the same of TD64 and NSD
Scsi == {"SCSIREAD", "SCSIWRITE"}       \* READ and WRITE (6) and (10)
Sizes == {"GEOMETRY", "CAPACITY"}       \* TD_GETGEOMETRY; READ CAPACITY, MODE SENSE
Ops == Rw32 \cup Rw64 \cup Scsi \cup Sizes \cup {"INQUIRY"}
Writes == {"WRITE", "WRITE64", "SCSIWRITE"}

\* start and count are io_Offset and io_Length, or the SCSI command's block and
\* number of blocks; high is the high half of a 64 bit offset.
Word == 0 .. WORD - 1
Request == [op : Ops, unit : Units, start : Word, high : Word, count : Word, data : Word]

ASSUME DriveAssumption ==
    /\ WORD \in Nat \ {0} /\ SECTOR \in Nat \ {0}
    /\ Units \subseteq 0 .. NUM_UNITS - 1 /\ "nobody" \notin Tasks
    /\ BlockSize \in [Units -> Nat \ {0}] /\ ImageSize \in [Units -> Nat]
    /\ Requests \in [Tasks -> SUBSET Request]

VARIABLES
    piscsi_cur_drive, piscsi_u32,
    file_size,      \* of the images; d->fs stays what it was
    request, pc,    \* of the tasks: what they ask for and which access is next
    block_size,     \* local variable of the driver
    aborted,        \* the task's IORequest has io_Error = IOERR_ABORTED
    outcome,        \* of its request
    owner, own      \* history: who wrote a register last; what a task used was its own

registers == <<piscsi_cur_drive, piscsi_u32>>
vars == <<registers, file_size, request, pc, block_size, aborted, outcome, owner, own>>

Program_Unselected(op) ==
    IF op \in Rw32 THEN <<"DRVNUMX", "BLOCKSIZE", "ADDR1", "ADDR2", "ADDR3", "COMMAND">>
    ELSE IF op \in Rw64 THEN <<"DRVNUMX", "BLOCKSIZE", "ADDR1", "ADDR2", "ADDR3", "ADDR4", "COMMAND">>
    ELSE IF op \in Scsi THEN <<"DRVNUMX", "BLOCKSIZE", "DRVNUM", "BLOCKS",
                               "ADDR1", "ADDR2", "ADDR3", "COMMAND">>
    ELSE IF op = "CAPACITY" THEN <<"DRVNUMX", "BLOCKSIZE", "DRVNUM", "BLOCKS">>
    ELSE <<"BLOCKSIZE", "BLOCKS">>

\* The registers that the driver writes and reads for a request, in order.
\* If the request is refused, it ends early.
Program(op) ==
    IF op \in Rw32 THEN <<"DRVNUMX", "BLOCKSIZE", "ADDR1", "ADDR2", "ADDR3", "COMMAND">>
    ELSE IF op \in Rw64 THEN <<"DRVNUMX", "BLOCKSIZE", "ADDR1", "ADDR2", "ADDR3", "ADDR4", "COMMAND">>
    ELSE IF op \in Scsi THEN <<"DRVNUMX", "BLOCKSIZE", "DRVNUM", "BLOCKS",
                               "ADDR1", "ADDR2", "ADDR3", "COMMAND">>
    ELSE IF op = "GEOMETRY" THEN <<"DRVNUMX", "BLOCKSIZE", "BLOCKS">>
    ELSE IF op = "CAPACITY" THEN <<"DRVNUMX", "BLOCKSIZE", "DRVNUM", "BLOCKS">>
    ELSE <<"DRVNUMX", "BLOCKSIZE">>

Idle(t) == pc[t] = 0
At(t) == IF Idle(t) THEN "none" ELSE Program(request[t].op)[pc[t]]
Addr == [ADDR1 |-> 1, ADDR2 |-> 2, ADDR3 |-> 3, ADDR4 |-> 4]

None == [kind |-> "none"]
Failed == [kind |-> "error"]
Outcome ==
    {None, Failed} \cup [kind : {"size"}, size : Nat, blocks : Word]
    \cup [kind : {"moved"}, unit : Units, write : BOOLEAN, at : Nat, length : Word,
           data : Word, bytes : Nat]

Init ==
    /\ piscsi_cur_drive = NUM_UNITS - 1 /\ piscsi_u32 = [i \in 1 .. 4 |-> 0]
    /\ file_size = ImageSize
    /\ request \in [Tasks -> UNION {Requests[t] : t \in Tasks}]
    /\ \A t \in Tasks : request[t] \in Requests[t]
    /\ pc = [t \in Tasks |-> 0]
    /\ block_size = [t \in Tasks |-> SECTOR]
    /\ aborted = [t \in Tasks |-> FALSE] /\ outcome = [t \in Tasks |-> None]
    /\ owner = [r \in 0 .. 4 |-> "nobody"] /\ own = [t \in Tasks |-> TRUE]

\* The request goes on, or it ends with outcome o.
Continue(t) == pc' = [pc EXCEPT ![t] = @ + 1] /\ UNCHANGED outcome
Reply(t, o) == pc' = [pc EXCEPT ![t] = 0] /\ outcome' = [outcome EXCEPT ![t] = o]
ContinueOrReply_NeverEnds(t, o) == Continue(t)

ContinueOrReply(t, o) ==
    IF pc[t] < Len(Program(request[t].op)) THEN Continue(t) ELSE Reply(t, o)

\* The task uses what register r holds.
Use(t, r) == own' = [own EXCEPT ![t] = @ /\ \A i \in r : owner[i] = t]

\* begin_io and piscsi_perform_io
BeginIO(t, r) ==
    /\ Idle(t)
    /\ request' = [request EXCEPT ![t] = r]
    /\ own' = [own EXCEPT ![t] = TRUE]
    /\ block_size' = [block_size EXCEPT ![t] = SECTOR]
    /\ IF aborted[t]
          THEN Reply(t, Failed)
          ELSE pc' = [pc EXCEPT ![t] = 1] /\ outcome' = [outcome EXCEPT ![t] = None]
    /\ UNCHANGED <<registers, file_size, aborted, owner>>

\* abort_io, of a request that has been replied to: the driver's requests are never queued.
AbortIO(t) ==
    /\ Idle(t) /\ aborted' = [aborted EXCEPT ![t] = TRUE]
    /\ UNCHANGED <<registers, file_size, request, pc, block_size, outcome, owner, own>>

\* PISCSI_CMD_DRVNUMX, and PISCSI_CMD_DRVNUM with a number that is none too large
SelectDrive(t) ==
    /\ At(t) \in {"DRVNUMX", "DRVNUM"}
    /\ piscsi_cur_drive' = request[t].unit /\ owner' = [owner EXCEPT ![0] = t]
    /\ Continue(t)
    /\ UNCHANGED <<piscsi_u32, file_size, request, block_size, aborted, own>>

\* piscsi_rw's early returns
BadRequest(r, size) == r.op \in Rw32 \cup Rw64 /\ (r.data = 0 \/ r.count < size)

\* PISCSI_CMD_BLOCKSIZE
ReadBlockSize(t) ==
    LET size == BlockSize[piscsi_cur_drive]
    IN /\ At(t) = "BLOCKSIZE"
       /\ block_size' = [block_size EXCEPT ![t] = size]
       /\ IF BadRequest(request[t], size) THEN Reply(t, Failed) ELSE ContinueOrReply(t, None)
       /\ Use(t, {0})
       /\ UNCHANGED <<registers, file_size, request, aborted, owner>>

\* piscsi_scsi's check, in 32 bits
BadBlocks(r, maxblocks) ==
    r.op \in Scsi /\ ((r.start + r.count) % WORD > maxblocks \/ r.count = 0 \/ r.data = 0)

\* How long a drive is; the register has 32 bits.
Blocks(unit) == (ImageSize[unit] \div BlockSize[unit]) % WORD

\* PISCSI_CMD_BLOCKS
ReadBlocks(t) ==
    LET blocks == Blocks(piscsi_cur_drive)
    IN /\ At(t) = "BLOCKS"
       /\ IF BadBlocks(request[t], blocks)
             THEN Reply(t, Failed)
             ELSE ContinueOrReply(t, [kind |-> "size", size |-> block_size[t], blocks |-> blocks])
       /\ Use(t, {0})
       /\ UNCHANGED <<registers, file_size, request, block_size, aborted, owner>>

\* What the driver writes to piscsi_u32[i - 1].
Value(r, i) ==
    CASE i = 1 -> r.start
      [] i = 2 -> IF r.op \in Scsi THEN (r.count * SECTOR) % WORD ELSE r.count
      [] i = 3 -> r.data
      [] i = 4 -> r.high

\* PISCSI_CMD_ADDR1 and the others
WriteAddr(t) ==
    /\ At(t) \in DOMAIN Addr
    /\ LET i == Addr[At(t)]
       IN /\ piscsi_u32' = [piscsi_u32 EXCEPT ![i] = Value(request[t], i)]
          /\ owner' = [owner EXCEPT ![i] = t]
    /\ Continue(t)
    /\ UNCHANGED <<piscsi_cur_drive, file_size, request, block_size, aborted, own>>

Position_NoHigh(op, unit) ==
    IF op \in Scsi THEN (piscsi_u32[1] * BlockSize[unit]) % WORD ELSE piscsi_u32[1]

\* Where a transfer begins: a block's address is computed in 32 bits.
Position(op, unit) ==
    IF op \in Scsi THEN (piscsi_u32[1] * BlockSize[unit]) % WORD
    ELSE IF op \in Rw64 THEN piscsi_u32[4] * WORD + piscsi_u32[1]
    ELSE piscsi_u32[1]

\* The bytes that a transfer moves: a file grows, but ends.
Moved(write, unit, at, length) ==
    IF write \/ at + length <= file_size[unit] THEN length
    ELSE IF at < file_size[unit] THEN file_size[unit] - at ELSE 0

\* The drive whose number is written to the command register.
Drive(t) == request[t].unit

\* PISCSI_CMD_READ, WRITE, READBYTES, WRITEBYTES, READ64 and WRITE64.  What the
\* Pi's read() or write() returns is not looked at.
Command(t) ==
    LET op == request[t].op
        unit == Drive(t)
        at == Position(op, unit)
        length == piscsi_u32[2]
        write == op \in Writes
    IN /\ At(t) = "COMMAND"
       /\ file_size' = IF write /\ length > 0 /\ at + length > file_size[unit]
                          THEN [file_size EXCEPT ![unit] = at + length] ELSE file_size
       /\ Reply(t, [kind |-> "moved", unit |-> unit, write |-> write, at |-> at, length |-> length,
                    data |-> piscsi_u32[3], bytes |-> Moved(write, unit, at, length)])
       /\ Use(t, {1, 2, 3} \cup IF op \in Rw64 THEN {4} ELSE {})
       /\ UNCHANGED <<registers, request, block_size, aborted, owner>>

\* The Amiga's tasks are gone; the driver is loaded again and looks for its units.
Reset ==
    /\ piscsi_cur_drive' = NUM_UNITS - 1 /\ owner' = [owner EXCEPT ![0] = "nobody"]
    /\ pc' = [t \in Tasks |-> 0] /\ aborted' = [t \in Tasks |-> FALSE]
    /\ outcome' = [t \in Tasks |-> None] /\ own' = [t \in Tasks |-> TRUE]
    /\ UNCHANGED <<piscsi_u32, file_size, request, block_size>>

Next ==
    \/ \E t \in Tasks :
          \/ \E r \in Requests[t] : BeginIO(t, r)
          \/ AbortIO(t)
          \/ SelectDrive(t) \/ ReadBlockSize(t) \/ ReadBlocks(t) \/ WriteAddr(t) \/ Command(t)
    \/ Reset

Spec == Init /\ [][Next]_vars

-----------------------------------------------------------------------------
\* Every variable has its type; a task is inside the driver's program for its request.
TypeOK ==
    /\ piscsi_cur_drive \in 0 .. NUM_UNITS - 1 /\ piscsi_u32 \in [1 .. 4 -> Word]
    /\ file_size \in [Units -> Nat]
    /\ request \in [Tasks -> Request] /\ pc \in [Tasks -> Nat]
    /\ \A t \in Tasks : request[t] \in Requests[t] /\ pc[t] \in 0 .. Len(Program(request[t].op))
    /\ block_size \in [Tasks -> Nat] /\ aborted \in [Tasks -> BOOLEAN] /\ own \in [Tasks -> BOOLEAN]
    /\ owner \in [0 .. 4 -> Tasks \cup {"nobody"}]
    /\ outcome \in [Tasks -> Outcome]

\* No register that looks up a drive's block size, or divides by it, is read
\* while the drive that is selected has no image, whatever tasks select and
\* whenever the Amiga is reset.
NoDivisionByZero ==
    \A t \in Tasks : At(t) \in {"BLOCKSIZE", "BLOCKS"} => piscsi_cur_drive \in Units

\* Where a request's bytes are, in any number of bits.
Start(r) ==
    IF r.op \in Scsi THEN r.start * BlockSize[r.unit]
    ELSE IF r.op \in Rw64 THEN r.high * WORD + r.start
    ELSE r.start
Length(r) == IF r.op \in Scsi THEN r.count * BlockSize[r.unit] ELSE r.count
Inside(r) == Start(r) + Length(r) <= ImageSize[r.unit]

\* What the SCSI commands can say in 32 bits and in blocks of 512 bytes.
Direct(r) == r.op \in Scsi => BlockSize[r.unit] = SECTOR /\ Start(r) + Length(r) < WORD

\* Do all of these bytes go where they should, or is nothing done?
Exact(r, o) ==
    /\ o.kind = "moved" =>
          /\ o.unit = r.unit /\ (o.write <=> r.op \in Writes)
          /\ o.at = Start(r) /\ o.length = Length(r) /\ o.data = r.data
          /\ r.op \in Scsi => Inside(r)
          /\ Inside(r) => o.bytes = o.length
    /\ o.kind = "size" => o.size = BlockSize[r.unit] /\ o.blocks = Blocks(r.unit)

\* A request whose registers no other task wrote before it used them moves
\* exactly the bytes that it is for, in its direction and at its own drive, none
\* beyond a SCSI drive's end, and learns the sizes of its own drive, whatever
\* else goes on at other drives and was left in the registers, also by a reset.
UndisturbedIsExact ==
    \A t \in Tasks : own[t] /\ Direct(request[t]) => Exact(request[t], outcome[t])

\* A SCSI transfer moves as many blocks as it is for, of a drive with any block
\* size.
ScsiMovesBlocks ==
    \A t \in Tasks : own[t] /\ request[t].op \in Scsi /\ outcome[t].kind = "moved" =>
        outcome[t].length = request[t].count * BlockSize[request[t].unit]
=============================================================================
