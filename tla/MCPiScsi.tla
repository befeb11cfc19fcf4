------------------------------ MODULE MCPiScsi ------------------------------
(***************************************************************************)
(* Instances of PiScsi for TLC.  A word has sixteen values and a sector is *)
(* two bytes: drive 0 has six blocks of a sector, drive 1 is longer than a *)
(* word can say and its blocks are two sectors.                            *)
(***************************************************************************)
EXTENDS PiScsi

MCBlockSize == [u \in {0, 1} |-> IF u = 0 THEN 2 ELSE 4]
MCImageSize == [u \in {0, 1} |-> IF u = 0 THEN 12 ELSE 24]

Req(op, unit, start, high, count, data) ==
    [op |-> op, unit |-> unit, start |-> start, high |-> high, count |-> count, data |-> data]

\* Whole blocks and too few bytes; inside an image, across its end, beyond it.
MCRequests ==
    [a |-> { Req("READ", 0, 10, 0, 4, 1), Req("SCSIREAD", 0, 4, 0, 2, 1), Req("SCSIWRITE", 0, 5, 0, 2, 1),
             Req("WRITE64", 1, 4, 1, 8, 1), Req("CAPACITY", 0, 0, 0, 0, 1) },
     b |-> { Req("WRITE", 1, 4, 0, 4, 2), Req("READ", 1, 4, 0, 2, 2), Req("READ64", 1, 0, 1, 4, 2),
             Req("SCSIREAD", 1, 1, 0, 1, 2), Req("GEOMETRY", 1, 0, 0, 0, 2) }]
=============================================================================
