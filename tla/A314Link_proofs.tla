-------------------------- MODULE A314Link_proofs --------------------------
(***************************************************************************)
(* Proofs about the A314 link, for rings of every size, packets of every   *)
(* size that fits a ring and every bound on queues: the variables keep     *)
(* their types, neither ring is ever overrun, the driver's task never      *)
(* waits without the events it needs being enabled, and when both sides    *)
(* rest every packet has been delivered.                                   *)
(***************************************************************************)
EXTENDS A314Link, SequenceTheorems, TLAPS

USE RingSizeAssumption, LinkAssumption

-----------------------------------------------------------------------------
\* Ring arithmetic without the modulus: the forms the solvers can use.

\* used_in_... is the plain difference, or the difference once round the ring.
LEMMA UsedCases ==
    ASSUME NEW t \in Pointer, NEW h \in Pointer
    PROVE  /\ Used(t, h) = IF h <= t THEN t - h ELSE t - h + N
           /\ Used(t, h) \in Pointer
<1>1. CASE h <= t
  <2>1. t - h \in 0 .. N - 1  BY <1>1 DEF Pointer
  <2>2. (t - h) % N = t - h  BY <2>1
  <2> QED  BY <1>1, <2>1, <2>2 DEF Used, Pointer
<1>2. CASE ~(h <= t)
  <2> DEFINE d == t - h + N
  <2>1. d \in 1 .. N - 1  BY <1>2 DEF Pointer
  <2>2. (t - h) % N = d  BY <2>1, <1>2 DEF Pointer
  <2> QED  BY <1>2, <2>1, <2>2 DEF Used, Pointer
<1> QED  BY <1>1, <1>2

\* Advancing a pointer by at most a ring adds, and subtracts N at the end.
LEMMA AdvanceCases ==
    ASSUME NEW p \in Pointer, NEW n \in 0 .. N
    PROVE  /\ Advance(p, n) = IF p + n < N THEN p + n ELSE p + n - N
           /\ Advance(p, n) \in Pointer
<1>1. CASE p + n < N
  <2>1. p + n \in 0 .. N - 1  BY <1>1 DEF Pointer
  <2> QED  BY <1>1, <2>1 DEF Advance, Pointer
<1>2. CASE ~(p + n < N)
  <2>1. p + n - N \in 0 .. N - 1  BY <1>2 DEF Pointer
  <2>2. (p + n) % N = p + n - N  BY <2>1, <1>2 DEF Pointer
  <2> QED  BY <1>2, <2>1, <2>2 DEF Advance, Pointer
<1> QED  BY <1>1, <1>2

\* Every action, as the case splits below name them.
LEMMA NextCases ==
    ASSUME [Next]_vars
    PROVE  \/ StartMute \/ StartNotify \/ StartEnable
           \/ TaskWake \/ TaskMute \/ TaskGetMsg \/ TaskNoMsg \/ TaskReceive \/ TaskReceived
           \/ TaskSendQueued \/ TaskEvents \/ TaskCheck \/ TaskEnable \/ TaskNotify
           \/ IntServer \/ AmigaReset \/ PutMsg
           \/ PiIrq \/ PiReadTail \/ PiReadHead \/ PiReceive \/ PiClient
           \/ PiFlush \/ PiFlushed \/ PiWriteTail \/ PiWriteHead \/ PiRaise
           \/ UNCHANGED vars
  BY DEF Next, Start, Task, Pi

-----------------------------------------------------------------------------
\* Type correctness.

\* Taking one element out of a queue leaves a queue of the same things.
LEMMA RemoveAtType ==
    ASSUME NEW S, NEW q \in Seq(S), NEW i \in DOMAIN q
    PROVE  RemoveAt(q, i) \in Seq(S)
<1>1. i \in 1 .. Len(q)  OBVIOUS
<1>2. SubSeq(q, 1, i - 1) \in Seq(S) /\ SubSeq(q, i + 1, Len(q)) \in Seq(S)
  BY <1>1, SubSeqProperties
<1> QED  BY <1>2, ConcatProperties DEF RemoveAt

\* A queue of more than one is not empty without its head.
LEMMA LongTail ==
    ASSUME NEW S, NEW q \in Seq(S), Len(q) > 1
    PROVE  Tail(q) \in Seq(S) \ {<<>>}
<1>1. q # <<>>  OBVIOUS
<1>2. Tail(q) \in Seq(S) /\ Len(Tail(q)) = Len(q) - 1  BY <1>1, HeadTailProperties
<1>3. Len(Tail(q)) # 0  BY <1>2, LenProperties
<1> QED  BY <1>2, <1>3, EmptySeq

\* What joins the Pi's send queue keeps it a sequence of non-empty packet queues.
LEMMA EnqueuedType ==
    ASSUME NEW q \in Seq(Seq(Sizes) \ {<<>>}), NEW n \in Sizes, NEW e \in Enqueued(q, n)
    PROVE  e \in Seq(Seq(Sizes) \ {<<>>})
<1>1. CASE e = Append(q, <<n>>)
  <2>1. <<n>> \in Seq(Sizes) \ {<<>>}  OBVIOUS
  <2> QED  BY <1>1, <2>1, AppendProperties
<1>2. ASSUME NEW i \in DOMAIN q, e = [q EXCEPT ![i] = Append(@, n)]
      PROVE  e \in Seq(Seq(Sizes) \ {<<>>})
  <2>1. q[i] \in Seq(Sizes)  OBVIOUS
  <2>2. Append(q[i], n) \in Seq(Sizes) \ {<<>>}  BY <2>1, AppendProperties
  <2>3. i \in 1 .. Len(q)  OBVIOUS
  <2> QED  BY <1>2, <2>2, <2>3, ExceptSeq
<1> QED  BY <1>1, <1>2 DEF Enqueued

\* SendOrQueue and CloseSocket keep the types of what they change.
LEMMA SendOrQueueType ==
    ASSUME TypeOK, NEW q \in Seq(Sizes), NEW n \in Sizes, SendOrQueue(q, n)
    PROVE  a2r_tail' \in Pointer /\ a2rBytes' \in Int /\ sendq' \in Seq(Sizes)
<1>1. a2r_tail \in Pointer /\ a2rBytes \in Int  BY DEF TypeOK
<1>2. n \in 0 .. N /\ n \in Int  OBVIOUS
<1>3. Advance(a2r_tail, n) \in Pointer  BY <1>1, <1>2, AdvanceCases
<1>4. Append(q, n) \in Seq(Sizes)  BY AppendProperties
<1> QED  BY <1>1, <1>2, <1>3, <1>4 DEF SendOrQueue, AppendA2R

LEMMA CloseSocketType ==
    ASSUME TypeOK, CloseSocket
    PROVE  a2r_tail' \in Pointer /\ a2rBytes' \in Int /\ sendq' \in Seq(Sizes)
<1>0. sendq \in Seq(Sizes) /\ a2r_tail \in Pointer /\ a2rBytes \in Int  BY DEF TypeOK
<1>1. PICK q \in {sendq} \cup {RemoveAt(sendq, i) : i \in DOMAIN sendq} :
          \/ sendq' = q /\ UNCHANGED <<a2r_tail, a2rBytes>>
          \/ SendOrQueue(q, Header)
  BY DEF CloseSocket
<1>2. q \in Seq(Sizes)  BY <1>0, <1>1, RemoveAtType
<1>3. CASE SendOrQueue(q, Header)  BY <1>2, <1>3, SendOrQueueType
<1>4. CASE sendq' = q /\ UNCHANGED <<a2r_tail, a2rBytes>>  BY <1>0, <1>2, <1>4
<1> QED  BY <1>1, <1>3, <1>4

\* The packet that waits first is a packet.
LEMMA FrontSizeType ==
    ASSUME TypeOK, pq # <<>>
    PROVE  FrontSize \in Sizes
<1>1. Head(pq) \in Seq(Sizes) \ {<<>>}  BY DEF TypeOK
<1> QED  BY <1>1 DEF FrontSize

LEMMA NotifyType ==
    ASSUME TypeOK, NEW events, Notify(events)
    PROVE  irq' \in Seq(BOOLEAN) /\ Len(irq') <= IrqCap
<1> DEFINE b == "STARTED" \in events
<1>1. irq \in Seq(BOOLEAN) /\ Len(irq) <= IrqCap  BY DEF TypeOK
<1>2. b \in BOOLEAN  OBVIOUS
<1>3. irq' = IF events # {} /\ Len(irq) < IrqCap THEN Append(irq, b) ELSE irq
  BY Zenon DEF Notify
<1> HIDE DEF b
<1>4. Append(irq, b) \in Seq(BOOLEAN) /\ Len(Append(irq, b)) = Len(irq) + 1
  BY <1>1, <1>2, AppendProperties
<1>5. Len(irq) \in Nat  BY <1>1, LenProperties
<1>6. Len(irq) < IrqCap => Len(irq) + 1 <= IrqCap  BY <1>5
<1> QED  BY <1>1, <1>3, <1>4, <1>6, Zenon

LEMMA MarkWrapsType ==
    ASSUME TypeOK, MarkWraps
    PROVE  missed' \subseteq A_EVENTS \cup WRAPS \cup {"STALE"}
  BY DEF TypeOK, MarkWraps, WRAPS

LEMMA TypeInit == Init => TypeOK
<1> SUFFICES ASSUME Init PROVE TypeOK  OBVIOUS
<1>1. 0 \in Pointer  BY DEF Pointer
<1>2. irq \in Seq(BOOLEAN) /\ Len(irq) <= IrqCap  BY DEF Init
<1>3. port \in Nat /\ sendq \in Seq(Sizes) /\ pq \in Seq(Seq(Sizes) \ {<<>>})  BY DEF Init
<1>4. started \in BOOLEAN /\ open \in BOOLEAN  BY DEF Init
<1>5. /\ prev \in [a2r_tail : Pointer, r2a_head : Pointer]
      /\ cs \in [a2r_tail : Pointer, r2a_head : Pointer,
                 r2a_tail : Pointer, a2r_head : Pointer]
  BY <1>1 DEF Init, NoPrev
<1>6. pc = "off" /\ ppc = "idle"  BY DEF Init
<1> QED  BY <1>1, <1>2, <1>3, <1>4, <1>5, <1>6 DEF Init, TypeOK

LEMMA TypeStep == TypeOK /\ [Next]_vars => TypeOK'
<1> SUFFICES ASSUME TypeOK, [Next]_vars PROVE TypeOK'  OBVIOUS
<1> USE DEF TypeOK
<1>z. 0 \in Pointer  BY DEF Pointer
<1>n. NoPrev \in [a2r_tail : Pointer, r2a_head : Pointer]  BY <1>z DEF NoPrev
<1>s. \A n \in Sizes : n \in 0 .. N /\ n \in Int  OBVIOUS
<1>1. CASE StartMute
  BY <1>1 DEF StartMute, ringVars, piVars
<1>2. CASE StartNotify
  BY <1>2, NotifyType DEF StartNotify, ringVars, piVars
<1>3. CASE StartEnable
  BY <1>3 DEF StartEnable, ringVars, piVars, A_EVENTS
<1>4. CASE TaskWake
  BY <1>4 DEF TaskWake, commVars, ringVars, piVars
<1>5. CASE TaskMute
  BY <1>5 DEF TaskMute, ringVars, piVars
<1>6. CASE TaskGetMsg
  <2>1. a2r_tail' \in Pointer /\ a2rBytes' \in Int /\ sendq' \in Seq(Sizes)
    <3>1. CASE UNCHANGED <<a2r_tail, a2rBytes, sendq>>  BY <3>1
    <3>2. CASE \E n \in Sizes : SendOrQueue(sendq, n)  BY <3>2, SendOrQueueType
    <3>3. CASE CloseSocket  BY <3>3, CloseSocketType
    <3> QED  BY <1>6, <3>1, <3>2, <3>3 DEF TaskGetMsg
  <2>2. missed' \subseteq A_EVENTS \cup WRAPS \cup {"STALE"}
    BY <1>6, MarkWrapsType DEF TaskGetMsg
  <2>3. port' \in Nat  BY <1>6 DEF TaskGetMsg
  <2> QED  BY <1>6, <2>1, <2>2, <2>3 DEF TaskGetMsg, commVars, piVars
<1>28. CASE TaskNoMsg
  BY <1>28 DEF TaskNoMsg, commVars, ringVars, piVars
<1>7. CASE TaskReceive
  <2>1. PICK n \in Sizes \cup {Used(r2a_tail, r2a_head)} :
            /\ n <= Used(r2a_tail, r2a_head)
            /\ r2a_head' = Advance(r2a_head, n) /\ r2aBytes' = r2aBytes - n
    BY <1>7 DEF TaskReceive
  <2>0. Used(r2a_tail, r2a_head) \in Pointer  BY UsedCases
  <2>2. n \in 0 .. N  BY <1>s, <2>0 DEF Pointer
  <2>3. Advance(r2a_head, n) \in Pointer  BY <2>2, AdvanceCases
  <2>4. r2a_head' \in Pointer /\ r2aBytes' \in Int  BY <2>1, <2>2, <2>3
  <2>5. a2r_tail' \in Pointer /\ a2rBytes' \in Int /\ sendq' \in Seq(Sizes)
    <3>1. CASE UNCHANGED <<a2r_tail, a2rBytes, sendq>>  BY <3>1
    <3>2. CASE CloseSocket  BY <3>2, CloseSocketType
    <3> QED  BY <1>7, <3>1, <3>2 DEF TaskReceive
  <2>6. missed' \subseteq A_EVENTS \cup WRAPS \cup {"STALE"}
    BY <1>7, MarkWrapsType DEF TaskReceive
  <2> QED  BY <1>7, <2>4, <2>5, <2>6 DEF TaskReceive, commVars, piVars
<1>8. CASE TaskReceived
  BY <1>8 DEF TaskReceived, commVars, ringVars, piVars
<1>9. CASE TaskSendQueued
  <2>1. Head(sendq) \in Sizes /\ Tail(sendq) \in Seq(Sizes)
    BY <1>9 DEF TaskSendQueued, QueuedFits
  <2>2. Advance(a2r_tail, Head(sendq)) \in Pointer  BY <2>1, <1>s, AdvanceCases
  <2>3. missed' \subseteq A_EVENTS \cup WRAPS \cup {"STALE"}
    BY <1>9, MarkWrapsType DEF TaskSendQueued
  <2> QED  BY <1>9, <1>s, <2>1, <2>2, <2>3 DEF TaskSendQueued, AppendA2R, commVars, piVars
<1>10. CASE TaskEvents
  BY <1>10 DEF TaskEvents, ringVars, piVars, R_EVENTS
<1>11. CASE TaskCheck
  BY <1>11, <1>n DEF TaskCheck, TaskSettle, commVars, ringVars, piVars, A_EVENTS
<1>12. CASE TaskEnable
  BY <1>12 DEF TaskEnable, ringVars, piVars
<1>13. CASE TaskNotify
  BY <1>13, NotifyType DEF TaskNotify, ringVars, piVars
<1>14. CASE IntServer
  BY <1>14 DEF IntServer, ringVars, piVars, SIGNALS, A_EVENTS
<1>15. CASE AmigaReset
  BY <1>15, <1>n DEF AmigaReset, commVars, ringVars, piVars
<1>16. CASE PutMsg
  BY <1>16 DEF PutMsg, commVars, ringVars, piVars, SIGNALS
<1>17. CASE PiIrq
  <2>1. Head(irq) \in BOOLEAN /\ Tail(irq) \in Seq(BOOLEAN) /\ Len(Tail(irq)) = Len(irq) - 1
    BY <1>17, HeadTailProperties DEF PiIrq
  <2>2. irq' \in Seq(BOOLEAN) /\ Len(irq') <= IrqCap
    <3>1. Len(irq) \in Nat  BY LenProperties
    <3>2. Len(irq) - 1 <= IrqCap  BY <3>1
    <3>3. irq' = Tail(irq)  BY <1>17, Zenon DEF PiIrq
    <3> QED  BY <2>1, <3>2, <3>3, Zenon
  <2>3. started' \in BOOLEAN /\ open' \in BOOLEAN
    <3>1. started' = (started \/ Head(irq)) /\ open' = (open /\ ~Head(irq))
      BY <1>17, Zenon DEF PiIrq
    <3> QED  BY <3>1
  <2>4. pq' \in Seq(Seq(Sizes) \ {<<>>})
    <3>1. pq' = <<>> \/ pq' = pq  BY <1>17, Zenon DEF PiIrq
    <3> QED  BY <3>1, EmptySeq
  <2>5. ppc' \in {"idle", "status"}  BY <1>17 DEF PiIrq
  <2> QED  BY <1>17, <2>2, <2>3, <2>4, <2>5 DEF PiIrq, ringVars, amiVars
<1>18. CASE PiReadTail
  BY <1>18 DEF PiReadTail, commVars, ringVars, amiVars
<1>19. CASE PiReadHead
  BY <1>19 DEF PiReadHead, commVars, ringVars, amiVars
<1>20. CASE PiReceive
  <2>1. cs.a2r_tail \in Pointer /\ cs.a2r_head \in Pointer  OBVIOUS
  <2>2. Used(cs.a2r_tail, cs.a2r_head) \in Int  BY <2>1, UsedCases DEF Pointer
  <2>3. a2rBytes' \in Int /\ updated' \subseteq A_EVENTS
    BY <1>20, <2>2 DEF PiReceive, A_EVENTS
  <2>4. cs' \in [a2r_tail : Pointer, r2a_head : Pointer,
                 r2a_tail : Pointer, a2r_head : Pointer]
    BY <1>20, <2>1 DEF PiReceive
  <2>5. open' \in BOOLEAN /\ ppc' = "flush"
    BY <1>20 DEF PiReceive
  <2>6. pq' \in Seq(Seq(Sizes) \ {<<>>})
    <3>1. CASE pq' = pq  BY <3>1
    <3>2. ASSUME NEW q \in {pq} \cup Cleared,
                 pq' = q \/ \E n \in Sizes : pq' \in Enqueued(q, n)
          PROVE  pq' \in Seq(Seq(Sizes) \ {<<>>})
      <4>1. q \in Seq(Seq(Sizes) \ {<<>>})  BY RemoveAtType DEF Cleared
      <4> QED  BY <3>2, <4>1, EnqueuedType
    <3> QED  BY <1>20, <3>1, <3>2, Zenon DEF PiReceive
  <2> QED  BY <1>20, <2>3, <2>4, <2>5, <2>6 DEF PiReceive, commVars, amiVars
<1>21. CASE PiClient
  <2>1. pq' \in Seq(Seq(Sizes) \ {<<>>})
    <3>1. CASE \E n \in Sizes : pq' \in Enqueued(pq, n)  BY <3>1, EnqueuedType
    <3>2. CASE \E q \in Cleared : pq' \in Enqueued(q, Header)
      <4>1. \A q \in Cleared : q \in Seq(Seq(Sizes) \ {<<>>})  BY RemoveAtType DEF Cleared
      <4> QED  BY <3>2, <4>1, EnqueuedType
    <3> QED  BY <1>21, <3>1, <3>2 DEF PiClient
  <2> QED  BY <1>21, <2>1 DEF PiClient, commVars, ringVars, amiVars
<1>22. CASE PiFlush
  <2>1. FrontSize \in Sizes  BY <1>22, FrontSizeType DEF PiFlush, FrontFits
  <2>2. pq' \in Seq(Seq(Sizes) \ {<<>>})
    <3>1. Head(pq) \in Seq(Sizes) \ {<<>>} /\ Tail(pq) \in Seq(Seq(Sizes) \ {<<>>})
      BY <1>22 DEF PiFlush, FrontFits
    <3>2. CASE Len(Head(pq)) > 1
      <4>1. Tail(Head(pq)) \in Seq(Sizes) \ {<<>>}  BY <3>1, <3>2, LongTail
      <4>2. pq' = Append(Tail(pq), Tail(Head(pq)))  BY <1>22, <3>2 DEF PiFlush
      <4> QED  BY <3>1, <4>1, <4>2, AppendProperties
    <3>3. CASE ~(Len(Head(pq)) > 1)
      BY <1>22, <3>1, <3>3 DEF PiFlush
    <3> QED  BY <3>2, <3>3
  <2>3. cs.r2a_tail \in Pointer  OBVIOUS
  <2>4. Advance(cs.r2a_tail, FrontSize) \in Pointer  BY <2>1, <2>3, <1>s, AdvanceCases
  <2>5. cs' \in [a2r_tail : Pointer, r2a_head : Pointer,
                 r2a_tail : Pointer, a2r_head : Pointer]
    BY <1>22, <2>4 DEF PiFlush
  <2>6. r2aBytes' \in Int
    <3>1. r2aBytes \in Int /\ FrontSize \in Int  BY <2>1
    <3>2. r2aBytes' = r2aBytes + FrontSize  BY <1>22, Zenon DEF PiFlush
    <3> QED  BY <3>1, <3>2
  <2>7. updated' \subseteq A_EVENTS
    <3>1. updated \subseteq A_EVENTS  OBVIOUS
    <3>2. updated' = updated \cup {"R2A_TAIL"}  BY <1>22, Zenon DEF PiFlush
    <3> QED  BY <3>1, <3>2 DEF A_EVENTS
  <2> QED  BY <1>22, <2>2, <2>5, <2>6, <2>7 DEF PiFlush, commVars, amiVars
<1>23. CASE PiFlushed
  BY <1>23 DEF PiFlushed, commVars, ringVars, amiVars
<1>24. CASE PiWriteTail
  BY <1>24 DEF PiWriteTail, commVars, amiVars
<1>25. CASE PiWriteHead
  BY <1>25 DEF PiWriteHead, commVars, amiVars
<1>26. CASE PiRaise
  BY <1>26 DEF PiRaise, ringVars, amiVars
<1>27. CASE UNCHANGED vars
  BY <1>27 DEF vars, commVars, ringVars, amiVars, piVars
<1> QED
  BY <1>1, <1>2, <1>3, <1>4, <1>5, <1>6, <1>7, <1>8, <1>9, <1>10, <1>11, <1>12, <1>13,
     <1>14, <1>15, <1>16, <1>17, <1>18, <1>19, <1>20, <1>21, <1>22, <1>23, <1>24, <1>25,
     <1>26, <1>27, <1>28, NextCases

\* The variables of the link keep their types: pointers stay inside their ring
\* and the socket pair within its buffer, whatever the size of the ring.
THEOREM LinkTypeOK == Spec => []TypeOK
  BY TypeInit, TypeStep, PTL DEF Spec
-----------------------------------------------------------------------------
(***************************************************************************)
(* RingAccounting.  It is not inductive: whether the Pi overruns R2A       *)
(* depends on a head it read at some earlier irq, and whether the Amiga    *)
(* overruns A2R on a head the Pi may not have published yet.  The two      *)
(* invariants below, one for each ring, add that these copies lag behind   *)
(* the real pointers and never overtake them, and that outside             *)
(* write_channel_status the Pi's own pointers are the published ones.      *)
(***************************************************************************)
R2AInv ==
    /\ r2aBytes = Used(cs.r2a_tail, r2a_head)
    /\ Used(cs.r2a_tail, r2a_head) <= Used(cs.r2a_tail, cs.r2a_head)
    /\ Used(r2a_tail, r2a_head) <= Used(cs.r2a_tail, r2a_head)
    /\ (ppc \notin {"flush", "publish"} \/ "R2A_TAIL" \notin updated) => r2a_tail = cs.r2a_tail

A2RInv ==
    /\ a2rBytes = Used(a2r_tail, cs.a2r_head)
    /\ Used(a2r_tail, cs.a2r_head) <= Used(a2r_tail, a2r_head)
    /\ Used(cs.a2r_tail, cs.a2r_head) <= Used(a2r_tail, cs.a2r_head)
    /\ (ppc \notin {"flush", "publish", "publish2"} \/ "A2R_HEAD" \notin updated)
          => a2r_head = cs.a2r_head

\* Appending n bytes that fit behind the head h adds n to what is used behind h
\* and behind every head g that h has not passed.
LEMMA UsedAfterAppend ==
    ASSUME NEW t \in Pointer, NEW h \in Pointer, NEW g \in Pointer, NEW n \in 0 .. N,
           Used(t, h) + n <= N - 1, Used(t, g) <= Used(t, h)
    PROVE  /\ Advance(t, n) \in Pointer
           /\ Used(Advance(t, n), g) = Used(t, g) + n
<1> DEFINE a == Advance(t, n)
<1>1. a \in Pointer /\ a = IF t + n < N THEN t + n ELSE t + n - N  BY AdvanceCases
<1> HIDE DEF a
<1>2. Used(t, h) = IF h <= t THEN t - h ELSE t - h + N  BY UsedCases
<1>3. Used(t, g) = IF g <= t THEN t - g ELSE t - g + N  BY UsedCases
<1>4. Used(a, g) = IF g <= a THEN a - g ELSE a - g + N  BY <1>1, UsedCases
<1>5. Used(a, g) = Used(t, g) + n  BY <1>1, <1>2, <1>3, <1>4 DEF Pointer
<1> QED  BY <1>1, <1>5 DEF a

\* Consuming n of the bytes behind a head leaves the rest.
LEMMA UsedAfterConsume ==
    ASSUME NEW t \in Pointer, NEW h \in Pointer, NEW n \in 0 .. N, n <= Used(t, h)
    PROVE  /\ Advance(h, n) \in Pointer
           /\ Used(t, Advance(h, n)) = Used(t, h) - n
<1> DEFINE a == Advance(h, n)
<1>1. a \in Pointer /\ a = IF h + n < N THEN h + n ELSE h + n - N  BY AdvanceCases
<1> HIDE DEF a
<1>2. Used(t, h) = IF h <= t THEN t - h ELSE t - h + N  BY UsedCases
<1>3. Used(t, a) = IF a <= t THEN t - a ELSE t - a + N  BY <1>1, UsedCases
<1>4. Used(t, a) = Used(t, h) - n  BY <1>1, <1>2, <1>3 DEF Pointer
<1> QED  BY <1>1, <1>4 DEF a

\* A tail advanced by what is used ends up where the other tail is.
LEMMA UsedDifference ==
    ASSUME NEW t \in Pointer, NEW u \in Pointer, NEW h \in Pointer,
           Used(u, h) <= Used(t, h)
    PROVE  Used(t, u) = Used(t, h) - Used(u, h)
<1>1. Used(t, h) = IF h <= t THEN t - h ELSE t - h + N  BY UsedCases
<1>2. Used(u, h) = IF h <= u THEN u - h ELSE u - h + N  BY UsedCases
<1>3. Used(t, u) = IF u <= t THEN t - u ELSE t - u + N  BY UsedCases
<1> QED  BY <1>1, <1>2, <1>3 DEF Pointer

LEMMA RingInit == Init => R2AInv /\ A2RInv
<1> SUFFICES ASSUME Init PROVE R2AInv /\ A2RInv  OBVIOUS
<1>1. 0 \in Pointer  BY DEF Pointer
<1>2. Used(0, 0) = 0  BY <1>1, UsedCases
<1> QED  BY <1>2 DEF Init, R2AInv, A2RInv

\* What TypeOK says of the pointers, and of the differences in the invariants.
LEMMA PointerTypes ==
    ASSUME TypeOK
    PROVE  /\ a2r_tail \in Pointer /\ r2a_head \in Pointer
           /\ r2a_tail \in Pointer /\ a2r_head \in Pointer
           /\ cs.a2r_tail \in Pointer /\ cs.r2a_head \in Pointer
           /\ cs.r2a_tail \in Pointer /\ cs.a2r_head \in Pointer
           /\ cs \in [a2r_tail : Pointer, r2a_head : Pointer,
                      r2a_tail : Pointer, a2r_head : Pointer]
  BY DEF TypeOK

LEMMA UsedTypes ==
    ASSUME TypeOK
    PROVE  /\ Used(cs.r2a_tail, r2a_head) \in Nat /\ Used(cs.r2a_tail, cs.r2a_head) \in Nat
           /\ Used(r2a_tail, r2a_head) \in Nat /\ Used(a2r_tail, cs.a2r_head) \in Nat
           /\ Used(a2r_tail, a2r_head) \in Nat /\ Used(cs.a2r_tail, cs.a2r_head) \in Nat
<1>1. \A t, h \in Pointer : Used(t, h) \in Pointer  BY UsedCases
<1>2. \A k \in Pointer : k \in Nat  BY DEF Pointer
<1> QED  BY <1>1, <1>2, PointerTypes

\* Sending a packet that fits, sending or queueing one, and closing a socket
\* leave the A2R ring in order.
LEMMA AppendInv ==
    ASSUME TypeOK, A2RInv, NEW n \in Sizes, RoomFor(a2r_tail, a2r_head, n), AppendA2R(n),
           UNCHANGED <<a2r_head, cs, ppc, updated>>
    PROVE  A2RInv'
<1>1. n \in 0 .. N /\ n \in Int  OBVIOUS
<1>2. Used(a2r_tail', cs.a2r_head) = Used(a2r_tail, cs.a2r_head) + n
  BY <1>1, PointerTypes, UsedAfterAppend DEF RoomFor, AppendA2R, A2RInv
<1>3. Used(a2r_tail', a2r_head) = Used(a2r_tail, a2r_head) + n
  BY <1>1, PointerTypes, UsedTypes, UsedAfterAppend DEF RoomFor, AppendA2R
<1> QED  BY <1>1, <1>2, <1>3, UsedTypes DEF AppendA2R, A2RInv

LEMMA SendOrQueueInv ==
    ASSUME TypeOK, A2RInv, NEW q, NEW n \in Sizes, SendOrQueue(q, n),
           UNCHANGED <<a2r_head, cs, ppc, updated>>
    PROVE  A2RInv'
<1>1. CASE UNCHANGED <<a2r_tail, a2rBytes>>  BY <1>1 DEF A2RInv
<1>2. CASE RoomFor(a2r_tail, a2r_head, n) /\ AppendA2R(n)  BY <1>2, AppendInv
<1> QED  BY <1>1, <1>2 DEF SendOrQueue

LEMMA CloseSocketInv ==
    ASSUME TypeOK, A2RInv, CloseSocket, UNCHANGED <<a2r_head, cs, ppc, updated>>
    PROVE  A2RInv'
<1>1. CASE UNCHANGED <<a2r_tail, a2rBytes>>  BY <1>1 DEF A2RInv
<1>2. CASE \E q \in {sendq} \cup {RemoveAt(sendq, i) : i \in DOMAIN sendq} : SendOrQueue(q, Header)
  BY <1>2, SendOrQueueInv
<1> QED  BY <1>1, <1>2 DEF CloseSocket

LEMMA RingStep == TypeOK /\ R2AInv /\ A2RInv /\ [Next]_vars => R2AInv' /\ A2RInv'
<1> SUFFICES ASSUME TypeOK, R2AInv, A2RInv, [Next]_vars PROVE R2AInv' /\ A2RInv'  OBVIOUS
<1>s. \A n \in Sizes : n \in 0 .. N /\ n \in Int  OBVIOUS
\* Actions that touch neither ring and none of the Pi's copies.
<1>u. ASSUME UNCHANGED <<ringVars, cs, ppc, updated>> PROVE R2AInv' /\ A2RInv'
  BY <1>u DEF ringVars, R2AInv, A2RInv
<1>r. ASSUME UNCHANGED <<r2a_head, r2a_tail, r2aBytes, cs, ppc, updated>> PROVE R2AInv'
  BY <1>r DEF R2AInv
<1>1. CASE StartMute \/ StartNotify \/ StartEnable
  BY <1>1, <1>u DEF StartMute, StartNotify, StartEnable, piVars
<1>2. CASE TaskWake \/ TaskMute \/ TaskNoMsg \/ TaskReceived \/ TaskEvents
  BY <1>2, <1>u DEF TaskWake, TaskMute, TaskNoMsg, TaskReceived, TaskEvents, piVars
<1>3. CASE TaskCheck \/ TaskEnable \/ TaskNotify
  BY <1>3, <1>u DEF TaskCheck, TaskEnable, TaskNotify, piVars
<1>4. CASE IntServer \/ AmigaReset \/ PutMsg
  BY <1>4, <1>u DEF IntServer, AmigaReset, PutMsg, piVars
<1>5. CASE TaskGetMsg
  <2>1. UNCHANGED <<r2a_head, r2a_tail, a2r_head, r2aBytes, cs, ppc, updated>>
    BY <1>5 DEF TaskGetMsg, piVars
  <2>2. CASE UNCHANGED <<a2r_tail, a2rBytes>>
    BY <2>1, <2>2, <1>u DEF ringVars
  <2>3. CASE \E n \in Sizes : SendOrQueue(sendq, n)
    BY <2>1, <2>3, <1>r, SendOrQueueInv
  <2>4. CASE CloseSocket
    BY <2>1, <2>4, <1>r, CloseSocketInv
  <2> QED  BY <1>5, <2>2, <2>3, <2>4 DEF TaskGetMsg
<1>6. CASE TaskSendQueued
  <2>1. Head(sendq) \in Sizes  BY <1>6 DEF TypeOK, TaskSendQueued, QueuedFits
  <2>2. UNCHANGED <<r2a_head, r2a_tail, a2r_head, r2aBytes, cs, ppc, updated>>
    BY <1>6 DEF TaskSendQueued, piVars
  <2> QED  BY <1>6, <2>1, <2>2, <1>r, AppendInv DEF TaskSendQueued, QueuedFits
<1>7. CASE TaskReceive
  <2>1. PICK n \in Sizes \cup {Used(r2a_tail, r2a_head)} :
            /\ n <= Used(r2a_tail, r2a_head)
            /\ r2a_head' = Advance(r2a_head, n) /\ r2aBytes' = r2aBytes - n
    BY <1>7 DEF TaskReceive
  <2>2. n \in 0 .. N
    <3>1. Used(r2a_tail, r2a_head) \in 0 .. N  BY PointerTypes, UsedCases DEF Pointer
    <3> QED  BY <1>s, <3>1
  <2>3. n <= Used(cs.r2a_tail, r2a_head) /\ n <= Used(cs.r2a_tail, cs.r2a_head)
    BY UsedTypes, <2>1, <2>2 DEF R2AInv
  <2>4. Used(cs.r2a_tail, r2a_head') = Used(cs.r2a_tail, r2a_head) - n
    BY PointerTypes, <2>1, <2>2, <2>3, UsedAfterConsume
  <2>5. Used(r2a_tail, r2a_head') = Used(r2a_tail, r2a_head) - n
    BY PointerTypes, <2>1, <2>2, UsedAfterConsume
  <2>6. UNCHANGED <<r2a_tail, a2r_head, cs, ppc, updated>>
    BY <1>7 DEF TaskReceive, piVars
  <2>7. R2AInv'  BY UsedTypes, <2>1, <2>2, <2>4, <2>5, <2>6 DEF R2AInv
  <2>8. A2RInv'
    <3>1. CASE UNCHANGED <<a2r_tail, a2rBytes, sendq>>  BY <3>1, <2>6 DEF A2RInv
    <3>2. CASE CloseSocket  BY <3>2, <2>6, CloseSocketInv
    <3> QED  BY <1>7, <3>1, <3>2 DEF TaskReceive
  <2> QED  BY <2>7, <2>8
<1>8. CASE PiIrq
  BY <1>8 DEF PiIrq, ringVars, R2AInv, A2RInv
<1>9. CASE PiReadTail
  <2>1. /\ cs'.a2r_tail = a2r_tail /\ cs'.r2a_head = cs.r2a_head
        /\ cs'.r2a_tail = cs.r2a_tail /\ cs'.a2r_head = cs.a2r_head
    BY <1>9, PointerTypes DEF PiReadTail
  <2> QED  BY <1>9, UsedTypes, <2>1 DEF PiReadTail, ringVars, R2AInv, A2RInv
<1>10. CASE PiReadHead
  <2>1. /\ cs'.a2r_tail = cs.a2r_tail /\ cs'.r2a_head = r2a_head
        /\ cs'.r2a_tail = r2a_tail /\ cs'.a2r_head = a2r_head
    BY <1>10, PointerTypes DEF PiReadHead
  <2>2. r2a_tail = cs.r2a_tail /\ a2r_head = cs.a2r_head
    BY <1>10 DEF PiReadHead, R2AInv, A2RInv
  <2> QED  BY <1>10, UsedTypes, <2>1, <2>2 DEF PiReadHead, ringVars, R2AInv, A2RInv
<1>11. CASE PiReceive
  <2>0. UNCHANGED <<a2r_tail, r2a_head, r2a_tail, a2r_head, r2aBytes>> /\ ppc = "recv" /\ ppc' = "flush"
    BY <1>11 DEF PiReceive
  <2>1. CASE UNCHANGED <<cs, a2rBytes, updated>>
    BY <2>0, <2>1 DEF R2AInv, A2RInv
  <2>2. CASE /\ cs' = [cs EXCEPT !.a2r_head = cs.a2r_tail]
             /\ a2rBytes' = a2rBytes - Used(cs.a2r_tail, cs.a2r_head)
             /\ updated' = updated \cup {"A2R_HEAD"}
    <3>1. /\ cs'.a2r_tail = cs.a2r_tail /\ cs'.r2a_head = cs.r2a_head
          /\ cs'.r2a_tail = cs.r2a_tail /\ cs'.a2r_head = cs.a2r_tail
      BY <2>2, PointerTypes
    <3>2. Used(a2r_tail, cs.a2r_tail) = Used(a2r_tail, cs.a2r_head) - Used(cs.a2r_tail, cs.a2r_head)
      BY PointerTypes, UsedDifference DEF A2RInv
    <3>3. Used(cs.a2r_tail, cs.a2r_tail) = 0  BY PointerTypes, UsedCases DEF Pointer
    <3>4. R2AInv'  BY <2>0, <2>2, <3>1 DEF R2AInv
    <3>5. A2RInv'  BY UsedTypes, <2>0, <2>2, <3>1, <3>2, <3>3 DEF A2RInv
    <3> QED  BY <3>4, <3>5
  <2> QED  BY <1>11, <2>1, <2>2, Zenon DEF PiReceive
<1>12. CASE PiClient
  BY <1>12 DEF PiClient, ringVars, R2AInv, A2RInv
<1>13. CASE PiFlush
  <2>1. FrontSize \in Sizes  BY <1>13, FrontSizeType DEF PiFlush, FrontFits
  <2>2. Used(cs.r2a_tail, cs.r2a_head) + FrontSize <= N - 1
    BY <1>13, <1>s, <2>1, UsedTypes DEF PiFlush, FrontFits
  <2>3. /\ cs'.a2r_tail = cs.a2r_tail /\ cs'.r2a_head = cs.r2a_head
        /\ cs'.r2a_tail = Advance(cs.r2a_tail, FrontSize) /\ cs'.a2r_head = cs.a2r_head
    BY <1>13, PointerTypes DEF PiFlush
  <2>4. /\ UNCHANGED <<a2r_tail, r2a_head, r2a_tail, a2r_head, a2rBytes, ppc>> /\ ppc = "flush"
        /\ r2aBytes' = r2aBytes + FrontSize /\ updated' = updated \cup {"R2A_TAIL"}
    BY <1>13 DEF PiFlush
  <2>5. Used(cs'.r2a_tail, r2a_head) = Used(cs.r2a_tail, r2a_head) + FrontSize
    BY PointerTypes, <1>s, <2>1, <2>2, <2>3, UsedAfterAppend DEF R2AInv
  <2>6. Used(cs'.r2a_tail, cs.r2a_head) = Used(cs.r2a_tail, cs.r2a_head) + FrontSize
    BY PointerTypes, UsedTypes, <1>s, <2>1, <2>2, <2>3, UsedAfterAppend
  <2>7. R2AInv'  BY UsedTypes, <1>s, <2>1, <2>3, <2>4, <2>5, <2>6 DEF R2AInv
  <2>8. A2RInv'  BY <2>3, <2>4 DEF A2RInv
  <2> QED  BY <2>7, <2>8
<1>14. CASE PiFlushed
  BY <1>14 DEF PiFlushed, ringVars, R2AInv, A2RInv
<1>15. CASE PiWriteTail
  BY <1>15, UsedTypes DEF PiWriteTail, R2AInv, A2RInv
<1>16. CASE PiWriteHead
  BY <1>16, UsedTypes DEF PiWriteHead, R2AInv, A2RInv
<1>17. CASE PiRaise
  BY <1>17 DEF PiRaise, ringVars, R2AInv, A2RInv
<1>18. CASE UNCHANGED vars
  BY <1>18, <1>u DEF vars, piVars
<1> QED
  BY <1>1, <1>2, <1>3, <1>4, <1>5, <1>6, <1>7, <1>8, <1>9, <1>10, <1>11, <1>12, <1>13,
     <1>14, <1>15, <1>16, <1>17, <1>18, NextCases

\* Neither ring is ever overrun, for rings of every size and packets of every
\* size: the difference of the pointers is the number of unread bytes, although
\* each side writes from an old copy of the other side's pointer.
THEOREM RingsNeverOverrun == Spec => []RingAccounting
<1>1. Spec => [](TypeOK /\ R2AInv /\ A2RInv)
  BY TypeInit, TypeStep, RingInit, RingStep, PTL DEF Spec
<1>2. R2AInv /\ A2RInv => RingAccounting  BY DEF R2AInv, A2RInv, RingAccounting
<1> QED  BY <1>1, <1>2, PTL
-----------------------------------------------------------------------------
(***************************************************************************)
(* NeverSleepsDeaf.  It holds because the events to wait for are chosen    *)
(* after the last look at the send queue, nothing joins that queue before  *)
(* the task waits, and the only one to clear a_enable in between, the      *)
(* interrupt server, signals the task when it does.                        *)
(***************************************************************************)
ListenInv ==
    /\ pc \in {"off", "started", "installed"} => sendq = <<>>
    /\ pc \in {"enable", "notify"} =>
          "R2A_TAIL" \in enable /\ (sendq # <<>> => "A2R_HEAD" \in enable)
    /\ pc = "notify" => a_enable = enable \/ "INT" \in sig
    /\ NeverSleepsDeaf

LEMMA ListenInit == Init => ListenInv
  BY DEF Init, ListenInv, NeverSleepsDeaf, Asleep

LEMMA ListenStep == ListenInv /\ [Next]_vars => ListenInv'
<1> SUFFICES ASSUME ListenInv, [Next]_vars PROVE ListenInv'  OBVIOUS
<1> USE DEF ListenInv, NeverSleepsDeaf, Asleep
<1>1. CASE StartMute  BY <1>1 DEF StartMute
<1>2. CASE StartNotify  BY <1>2 DEF StartNotify
<1>3. CASE StartEnable  BY <1>3 DEF StartEnable
<1>4. CASE TaskWake  BY <1>4 DEF TaskWake
<1>5. CASE TaskMute  BY <1>5 DEF TaskMute
<1>6. CASE TaskGetMsg
  <2>1. pc = "msgs" /\ pc' = "msgs"  BY <1>6 DEF TaskGetMsg
  <2> QED  BY <2>1
<1>7. CASE TaskReceive  BY <1>7 DEF TaskReceive
<1>8. CASE TaskReceived  BY <1>8 DEF TaskReceived
<1>9. CASE TaskSendQueued  BY <1>9 DEF TaskSendQueued
<1>10. CASE TaskEvents  BY <1>10 DEF TaskEvents
<1>11. CASE TaskCheck
  <2>1. pc' = "recv" \/ pc' = "enable"  BY <1>11 DEF TaskCheck, TaskSettle
  <2>2. pc' = "enable" => "R2A_TAIL" \in enable' /\ (sendq' # <<>> => "A2R_HEAD" \in enable')
    BY <1>11 DEF TaskCheck, TaskSettle
  <2> QED  BY <2>1, <2>2
<1>12. CASE TaskEnable  BY <1>12 DEF TaskEnable
<1>13. CASE TaskNotify  BY <1>13 DEF TaskNotify
<1>14. CASE IntServer
  <2>1. UNCHANGED <<pc, sendq, enable>>  BY <1>14 DEF IntServer
  <2>2. UNCHANGED <<a_enable, sig>> \/ "INT" \in sig'  BY <1>14 DEF IntServer
  <2> QED  BY <2>1, <2>2
<1>15. CASE AmigaReset  BY <1>15 DEF AmigaReset
<1>16. CASE PutMsg  BY <1>16 DEF PutMsg
<1>26. CASE TaskNoMsg  BY <1>26 DEF TaskNoMsg
<1>17. ASSUME UNCHANGED <<a_enable, amiVars>> PROVE ListenInv'
  BY <1>17 DEF amiVars
<1>18. CASE PiIrq  BY <1>18, <1>17 DEF PiIrq
<1>19. CASE PiReadTail \/ PiReadHead  BY <1>19, <1>17 DEF PiReadTail, PiReadHead, commVars
<1>20. CASE PiReceive  BY <1>20, <1>17 DEF PiReceive, commVars
<1>21. CASE PiClient  BY <1>21, <1>17 DEF PiClient, commVars
<1>22. CASE PiFlush \/ PiFlushed  BY <1>22, <1>17 DEF PiFlush, PiFlushed, commVars
<1>23. CASE PiWriteTail \/ PiWriteHead  BY <1>23, <1>17 DEF PiWriteTail, PiWriteHead, commVars
<1>24. CASE PiRaise  BY <1>24, <1>17 DEF PiRaise
<1>25. CASE UNCHANGED vars  BY <1>25, <1>17 DEF vars, commVars
<1> QED
  BY <1>1, <1>2, <1>3, <1>4, <1>5, <1>6, <1>7, <1>8, <1>9, <1>10, <1>11, <1>12, <1>13,
     <1>14, <1>15, <1>16, <1>18, <1>19, <1>20, <1>21, <1>22, <1>23, <1>24, <1>25, <1>26, NextCases

\* The driver's task never waits deaf: it only waits with R2A_TAIL enabled, and
\* with A2R_HEAD enabled when packets wait for room, or with a signal pending.
THEOREM TaskNeverSleepsDeaf == Spec => []NeverSleepsDeaf
<1>1. ListenInv => NeverSleepsDeaf  BY DEF ListenInv
<1> QED  BY <1>1, ListenInit, ListenStep, PTL DEF Spec
-----------------------------------------------------------------------------
(***************************************************************************)
(* QuietMeansDelivered.  That nothing is left behind when both sides rest  *)
(* depends on who will still look at what: every pointer that moved has    *)
(* either been seen by the other side, or somebody is on the way to tell   *)
(* it, or the moment a wake-up was lost is recorded in `missed`.  RaiseInv *)
(* says so of what the Amiga moved, TaskDoneInv of what the Pi moved and   *)
(* PiDoneInv that the Pi rests only when it can do nothing more.           *)
(***************************************************************************)
\* The task has noted the pointers and will compare them before it waits.
InRound == pc \in {"mute", "msgs", "recv", "room", "check"}

\* The Pi will read the pointers again: at one of these steps, at the next
\* byte from the irq socket, or when the device is opened.
PiWillLook(steps) ==
    ~started \/ irq # <<>> \/ ppc \in steps \/ pc \in {"off", "started"}

\* The task is going to raise the event for a pointer it moved.
WillTell(moved, wrap, event) ==
    \/ wrap \in missed
    \/ InRound /\ moved
    \/ pc \in {"enable", "notify"} /\ event \in r_ev

TailMoved == a2r_tail # prev.a2r_tail
HeadMoved == r2a_head # prev.r2a_head

RaiseTailInv == a2r_tail # cs.a2r_tail =>
    PiWillLook({"status"}) \/ WillTell(TailMoved, "A2R_WRAP", "A2R_TAIL")

RaiseHeadInv == r2a_head # cs.r2a_head =>
    PiWillLook({"status", "status2"}) \/ WillTell(HeadMoved, "R2A_WRAP", "R2A_HEAD")

RaiseEventsInv == pc = "check" =>
    /\ TailMoved => "A2R_TAIL" \in r_ev
    /\ HeadMoved => "R2A_HEAD" \in r_ev

RaiseInv == RaiseTailInv /\ RaiseHeadInv /\ RaiseEventsInv

PiDoneInv ==
    /\ cs.a2r_tail = cs.a2r_head \/ ppc \in {"status2", "recv"}
    /\ ppc \in {"idle", "publish", "publish2", "raise"} => ~FrontFits

\* The task is signalled, will find the event, or has missed it.
TaskWillLook(event, steps) ==
    \/ sig # {} \/ event \in a_events \/ event \in missed
    \/ ppc \in steps /\ event \in updated

TaskDoneInv ==
    /\ pc \in {"enable", "notify", "wait"} /\ QueuedFits => TaskWillLook("A2R_HEAD", {"raise"})
    /\ pc \in {"started", "installed", "enable", "notify", "wait"} /\ r2a_head # r2a_tail
          => TaskWillLook("R2A_TAIL", {"publish2", "raise"}) \/ "STALE" \in missed

QuietInv == RaiseInv /\ PiDoneInv /\ TaskDoneInv

\* Initially nothing has moved and nothing is queued.
LEMMA QuietInit == Init => QuietInv
  BY DEF Init, QuietInv, RaiseInv, RaiseTailInv, RaiseHeadInv, RaiseEventsInv, PiWillLook,
         PiDoneInv, FrontFits, TaskDoneInv

\* After write_r_events with an event there is a byte for the Pi: a full socket
\* pair, which loses the new byte, is not empty either.
LEMMA NotifyLeavesByte ==
    ASSUME TypeOK, NEW events, Notify(events), events # {}
    PROVE  irq' # <<>>
<1> DEFINE b == "STARTED" \in events
<1>1. irq \in Seq(BOOLEAN) /\ b \in BOOLEAN  BY DEF TypeOK
<1>2. irq' = IF Len(irq) < IrqCap THEN Append(irq, b) ELSE irq  BY Zenon DEF Notify
<1> HIDE DEF b
<1>3. CASE Len(irq) < IrqCap
  <2>1. Len(Append(irq, b)) = Len(irq) + 1 /\ Len(irq) \in Nat
    BY <1>1, AppendProperties, LenProperties
  <2> QED  BY <1>2, <1>3, <2>1
<1>4. CASE ~(Len(irq) < IrqCap)
  <2>1. Len(irq) # 0  BY <1>4
  <2> QED  BY <1>2, <1>4, <2>1
<1> QED  BY <1>3, <1>4

\* Writing an event the Pi does not look for never takes a byte away.
LEMMA NotifyKeepsByte ==
    ASSUME TypeOK, NEW events, Notify(events), irq # <<>>
    PROVE  irq' # <<>>
<1>1. CASE events # {}  BY <1>1, NotifyLeavesByte
<1>2. CASE events = {}  BY <1>2 DEF Notify
<1> QED  BY <1>1, <1>2

\* A turn of the task's loops that moves a pointer is remembered: by the
\* difference from prev, or in missed when the pointer came round to it.
LEMMA MarkedRaise ==
    ASSUME RaiseInv, MarkWraps, InRound, pc # "check", pc' = pc,
           UNCHANGED <<irq, prev, r_ev, ppc, started, cs>>
    PROVE  RaiseInv'
<1>1. /\ a2r_tail' # a2r_tail => a2r_tail' # prev.a2r_tail \/ "A2R_WRAP" \in missed'
      /\ a2r_tail' = a2r_tail /\ "A2R_WRAP" \in missed => "A2R_WRAP" \in missed'
  BY DEF MarkWraps, WRAPS
<1>2. /\ r2a_head' # r2a_head => r2a_head' # prev.r2a_head \/ "R2A_WRAP" \in missed'
      /\ r2a_head' = r2a_head /\ "R2A_WRAP" \in missed => "R2A_WRAP" \in missed'
  BY DEF MarkWraps, WRAPS
<1>3. RaiseTailInv'
  BY <1>1 DEF RaiseInv, RaiseTailInv, PiWillLook, WillTell, InRound, TailMoved
<1>4. RaiseHeadInv'
  BY <1>2 DEF RaiseInv, RaiseHeadInv, PiWillLook, WillTell, InRound, HeadMoved
<1> QED  BY <1>3, <1>4 DEF RaiseInv, RaiseEventsInv

\* What the Amiga moved the Pi has seen or will be told of.
LEMMA RaiseStep == TypeOK /\ RaiseInv /\ [Next]_vars => RaiseInv'
<1> SUFFICES ASSUME TypeOK, RaiseInv, [Next]_vars PROVE RaiseInv'  OBVIOUS
<1> USE DEF RaiseInv, RaiseTailInv, RaiseHeadInv, RaiseEventsInv, PiWillLook, WillTell,
            InRound, TailMoved, HeadMoved
<1>1. CASE StartMute  BY <1>1 DEF StartMute, ringVars, piVars
<1>2. CASE StartNotify
  <2>1. irq' # <<>> /\ pc' = "installed"  BY <1>2, NotifyLeavesByte DEF StartNotify
  <2> QED  BY <2>1
<1>3. CASE StartEnable  BY <1>3 DEF StartEnable, ringVars, piVars
<1>4. CASE TaskWake
  <2>1. /\ pc = "wait" /\ pc' \in {"mute", "recv"}
        /\ prev'.a2r_tail = a2r_tail /\ prev'.r2a_head = r2a_head
        /\ "A2R_WRAP" \in missed => "A2R_WRAP" \in missed'
        /\ "R2A_WRAP" \in missed => "R2A_WRAP" \in missed'
        /\ UNCHANGED <<irq, a2r_tail, r2a_head, ppc, started, cs>>
    BY <1>4 DEF TaskWake, A_EVENTS, commVars, ringVars, piVars
  <2> QED  BY <2>1
<1>5. CASE TaskMute \/ TaskNoMsg \/ TaskReceived
  BY <1>5 DEF TaskMute, TaskNoMsg, TaskReceived, commVars, ringVars, piVars
<1>6. CASE TaskGetMsg \/ TaskReceive \/ TaskSendQueued
  <2>1. /\ MarkWraps /\ pc \in {"msgs", "recv", "room"} /\ pc' = pc
        /\ UNCHANGED <<irq, prev, r_ev, ppc, started, cs>>
    BY <1>6 DEF TaskGetMsg, TaskReceive, TaskSendQueued, commVars, piVars
  <2> QED  BY <2>1, MarkedRaise
<1>7. CASE TaskEvents  BY <1>7 DEF TaskEvents, ringVars, piVars
<1>8. CASE TaskCheck
  <2>0. pc = "check" /\ UNCHANGED <<irq, a2r_tail, r2a_head, missed, ppc, started, cs>>
    BY <1>8 DEF TaskCheck, commVars, ringVars, piVars
  <2>1. \/ pc' = "enable" /\ UNCHANGED r_ev
        \/ pc' = "recv" /\ UNCHANGED prev
    BY <1>8 DEF TaskCheck, TaskSettle
  <2> QED  BY <2>0, <2>1
<1>9. CASE TaskEnable  BY <1>9 DEF TaskEnable, ringVars, piVars
<1>10. CASE TaskNotify
  <2>0. pc = "notify" /\ pc' = "wait" /\ UNCHANGED <<a2r_tail, r2a_head, ppc, started, cs>>
    BY <1>10 DEF TaskNotify, ringVars, piVars
  <2>1. CASE r_ev # {}
    <3>1. irq' # <<>>  BY <1>10, <2>1, NotifyLeavesByte DEF TaskNotify
    <3> QED  BY <2>0, <3>1
  <2>2. CASE r_ev = {}
    <3>1. irq' = irq /\ missed' = missed  BY <1>10, <2>2 DEF TaskNotify, Notify
    <3> QED  BY <2>0, <2>2, <3>1
  <2> QED  BY <2>1, <2>2
<1>11. CASE IntServer
  <2>1. /\ missed \subseteq missed'
        /\ UNCHANGED <<irq, a2r_tail, r2a_head, pc, prev, r_ev, ppc, started, cs>>
    BY <1>11 DEF IntServer, ringVars, piVars
  <2> QED  BY <2>1
<1>12. CASE AmigaReset  BY <1>12 DEF AmigaReset, commVars, ringVars, piVars
<1>13. CASE PutMsg  BY <1>13 DEF PutMsg, commVars, ringVars, piVars
<1>14. CASE PiIrq
  <2>1. ppc' = "status" \/ ~started'  BY <1>14 DEF PiIrq
  <2>2. UNCHANGED <<a2r_tail, r2a_head, pc, prev, r_ev>>  BY <1>14 DEF PiIrq, ringVars, amiVars
  <2>3. CASE ppc' = "status"  BY <2>2, <2>3
  <2>4. CASE ~started'  BY <2>2, <2>4
  <2> QED  BY <2>1, <2>3, <2>4
<1>15. CASE PiReadTail
  <2>1. /\ cs'.a2r_tail = a2r_tail /\ cs'.r2a_head = cs.r2a_head /\ ppc' = "status2"
        /\ UNCHANGED <<a2r_tail, r2a_head, pc, prev, r_ev, missed>>
    BY <1>15, PointerTypes DEF PiReadTail, ringVars, amiVars
  <2> QED  BY <2>1
<1>16. CASE PiReadHead
  <2>1. /\ cs'.a2r_tail = cs.a2r_tail /\ cs'.r2a_head = r2a_head /\ ppc = "status2"
        /\ UNCHANGED <<irq, a2r_tail, r2a_head, pc, prev, r_ev, missed, started>>
    BY <1>16, PointerTypes DEF PiReadHead, commVars, ringVars, amiVars
  <2> QED  BY <2>1
<1>17. ASSUME UNCHANGED <<irq, a2r_tail, r2a_head, pc, prev, r_ev, missed, started>>,
              ppc \notin {"status", "status2"},
              cs'.a2r_tail = cs.a2r_tail, cs'.r2a_head = cs.r2a_head
       PROVE  RaiseInv'
  BY <1>17
<1>18. CASE PiReceive
  <2>1. cs'.a2r_tail = cs.a2r_tail /\ cs'.r2a_head = cs.r2a_head
    BY <1>18, PointerTypes DEF PiReceive
  <2> QED  BY <1>18, <2>1, <1>17 DEF PiReceive, commVars, amiVars
<1>19. CASE PiFlush
  <2>1. cs'.a2r_tail = cs.a2r_tail /\ cs'.r2a_head = cs.r2a_head
    BY <1>19, PointerTypes DEF PiFlush
  <2> QED  BY <1>19, <2>1, <1>17 DEF PiFlush, commVars, amiVars
<1>20. CASE PiClient \/ PiFlushed
  BY <1>20, <1>17 DEF PiClient, PiFlushed, commVars, ringVars, amiVars
<1>21. CASE PiWriteTail \/ PiWriteHead \/ PiRaise
  BY <1>21, <1>17 DEF PiWriteTail, PiWriteHead, PiRaise, commVars, ringVars, amiVars
<1>22. CASE UNCHANGED vars
  BY <1>22 DEF vars, commVars, ringVars, amiVars, piVars
<1> QED
  BY <1>1, <1>2, <1>3, <1>4, <1>5, <1>6, <1>7, <1>8, <1>9, <1>10, <1>11, <1>12, <1>13,
     <1>14, <1>15, <1>16, <1>18, <1>19, <1>20, <1>21, <1>22, NextCases

\* The Pi rests only when it has received all it has seen and the packet at the
\* front of its send queue does not fit into the room it knows of.
LEMMA PiDoneStep == TypeOK /\ PiDoneInv /\ [Next]_vars => PiDoneInv'
<1> SUFFICES ASSUME TypeOK, PiDoneInv, [Next]_vars PROVE PiDoneInv'  OBVIOUS
<1>u. ASSUME UNCHANGED <<ppc, cs, pq>> PROVE PiDoneInv'
  BY <1>u DEF PiDoneInv, FrontFits, FrontSize
<1>1. CASE StartMute \/ StartNotify \/ StartEnable
  BY <1>1, <1>u DEF StartMute, StartNotify, StartEnable, piVars
<1>2. CASE TaskWake \/ TaskMute \/ TaskGetMsg \/ TaskNoMsg
  BY <1>2, <1>u DEF TaskWake, TaskMute, TaskGetMsg, TaskNoMsg, piVars
<1>3. CASE TaskReceive \/ TaskReceived \/ TaskSendQueued \/ TaskEvents
  BY <1>3, <1>u DEF TaskReceive, TaskReceived, TaskSendQueued, TaskEvents, piVars
<1>4. CASE TaskCheck \/ TaskEnable \/ TaskNotify
  BY <1>4, <1>u DEF TaskCheck, TaskEnable, TaskNotify, piVars
<1>5. CASE IntServer \/ AmigaReset \/ PutMsg
  BY <1>5, <1>u DEF IntServer, AmigaReset, PutMsg, piVars
<1>6. CASE PiIrq
  <2>1. ppc = "idle" /\ ppc' \in {"idle", "status"} /\ UNCHANGED cs /\ (pq' = <<>> \/ pq' = pq)
    BY <1>6, Zenon DEF PiIrq
  <2> QED  BY <2>1 DEF PiDoneInv, FrontFits, FrontSize
<1>7. CASE PiReadTail \/ PiReadHead
  BY <1>7 DEF PiReadTail, PiReadHead, PiDoneInv
<1>8. CASE PiReceive
  <2>1. ppc' = "flush" /\ cs'.a2r_tail = cs'.a2r_head
    BY <1>8, PointerTypes DEF PiReceive
  <2> QED  BY <2>1 DEF PiDoneInv
<1>9. CASE PiClient
  BY <1>9 DEF PiClient, PiDoneInv
<1>10. CASE PiFlush
  <2>1. /\ ppc = "flush" /\ ppc' = "flush"
        /\ cs'.a2r_tail = cs.a2r_tail /\ cs'.a2r_head = cs.a2r_head
    BY <1>10, PointerTypes DEF PiFlush
  <2> QED  BY <2>1 DEF PiDoneInv
<1>11. CASE PiFlushed
  BY <1>11 DEF PiFlushed, PiDoneInv, FrontFits, FrontSize
<1>12. CASE PiWriteTail \/ PiWriteHead \/ PiRaise
  BY <1>12 DEF PiWriteTail, PiWriteHead, PiRaise, PiDoneInv, FrontFits, FrontSize
<1>13. CASE UNCHANGED vars
  BY <1>13, <1>u DEF vars, piVars
<1> QED
  BY <1>1, <1>2, <1>3, <1>4, <1>5, <1>6, <1>7, <1>8, <1>9, <1>10, <1>11, <1>12, <1>13, NextCases

\* What the Pi moved the task has seen, will be signalled for, or has missed.
LEMMA TaskDoneStep ==
    R2AInv /\ A2RInv /\ ListenInv /\ TaskDoneInv /\ [Next]_vars => TaskDoneInv'
<1> SUFFICES ASSUME R2AInv, A2RInv, ListenInv, TaskDoneInv, [Next]_vars
             PROVE  TaskDoneInv'
  OBVIOUS
<1> USE DEF TaskDoneInv, TaskWillLook
<1>q. ASSUME UNCHANGED <<a2r_tail, a2r_head, sendq>> PROVE QueuedFits' = QueuedFits
  BY <1>q DEF QueuedFits
<1>1. CASE StartMute
  <2>1. pc' = "started" /\ (r2a_head' # r2a_tail' => "STALE" \in missed')
    BY <1>1 DEF StartMute, ringVars
  <2> QED  BY <2>1
<1>2. CASE StartNotify  BY <1>2 DEF StartNotify, ringVars, piVars
<1>3. CASE StartEnable
  <2>1. sendq' = <<>>  BY <1>3 DEF StartEnable, ListenInv
  <2>2. ~QueuedFits'  BY <2>1 DEF QueuedFits
  <2> QED  BY <1>3, <2>2 DEF StartEnable, ringVars, piVars
<1>4. ASSUME pc' \in {"off", "mute", "msgs", "recv", "room", "check"} PROVE TaskDoneInv'
  BY <1>4
<1>5. CASE TaskWake \/ TaskMute \/ TaskGetMsg \/ TaskNoMsg \/ AmigaReset
  BY <1>5, <1>4 DEF TaskWake, TaskMute, TaskGetMsg, TaskNoMsg, AmigaReset
<1>6. CASE TaskReceive \/ TaskReceived \/ TaskSendQueued \/ TaskEvents
  BY <1>6, <1>4 DEF TaskReceive, TaskReceived, TaskSendQueued, TaskEvents
<1>7. CASE TaskCheck
  <2>1. \/ pc' = "recv"
        \/ r2a_head = r2a_tail /\ (sendq = <<>> \/ ~QueuedFits)
    BY <1>7 DEF TaskCheck
  <2>2. UNCHANGED <<a2r_tail, a2r_head, r2a_head, r2a_tail, sendq>>
    BY <1>7 DEF TaskCheck, ringVars
  <2>3. sendq = <<>> => ~QueuedFits  BY DEF QueuedFits
  <2> QED  BY <2>1, <2>2, <2>3, <1>q, <1>4
<1>8. CASE TaskEnable
  BY <1>8, <1>q DEF TaskEnable, ringVars, piVars
<1>9. CASE TaskNotify
  <2>1. missed \ WRAPS \subseteq missed'  BY <1>9 DEF TaskNotify
  <2> QED  BY <1>9, <2>1, <1>q DEF TaskNotify, ringVars, piVars, WRAPS
<1>10. CASE IntServer
  <2>1. /\ pc \notin {"off", "started"}
        /\ missed \subseteq missed'
        /\ UNCHANGED <<a2r_tail, a2r_head, r2a_head, r2a_tail, sendq, pc, ppc, updated>>
    BY <1>10 DEF IntServer, ringVars, piVars
  <2>2. sig' # {} \/ (sig' = sig /\ a_events \subseteq missed')
    <3>1. sig' = sig \cup {"INT"} \/ (missed' = missed \cup a_events /\ sig' = sig)
      BY <1>10, Zenon DEF IntServer
    <3>2. CASE sig' = sig \cup {"INT"}
      <4>1. "INT" \in sig'  BY <3>2
      <4> QED  BY <4>1
    <3>3. CASE missed' = missed \cup a_events /\ sig' = sig  BY <3>3
    <3> QED  BY <3>1, <3>2, <3>3
  <2>3. CASE sig' # {}
    <3>1. TaskWillLook("A2R_HEAD", {"raise"})' /\ TaskWillLook("R2A_TAIL", {"publish2", "raise"})'
      BY <2>3
    <3> QED  BY <3>1, Zenon
  <2>4. CASE sig' = sig /\ a_events \subseteq missed'
    <3>1. TaskWillLook("A2R_HEAD", {"raise"}) => TaskWillLook("A2R_HEAD", {"raise"})'
      BY <2>1, <2>4
    <3>2. \/ ~(TaskWillLook("R2A_TAIL", {"publish2", "raise"}) \/ "STALE" \in missed)
          \/ TaskWillLook("R2A_TAIL", {"publish2", "raise"})' \/ "STALE" \in missed'
      BY <2>1, <2>4
    <3> HIDE DEF TaskWillLook
    <3>3. QueuedFits' = QueuedFits  BY <2>1, <1>q
    <3> QED  BY <2>1, <3>1, <3>2, <3>3, Zenon
  <2> QED  BY <2>2, <2>3, <2>4
<1>11. CASE PutMsg
  <2>1. sig' # {}  BY <1>11 DEF PutMsg
  <2> QED  BY <2>1
<1>12. ASSUME UNCHANGED <<a_events, a2r_tail, r2a_head, r2a_tail, a2r_head, pc, sig, sendq, missed>>,
              ppc \notin {"publish2", "raise"}
       PROVE  TaskDoneInv'
  BY <1>12, <1>q
<1>13. CASE PiIrq \/ PiReadTail \/ PiReadHead
  BY <1>13, <1>12 DEF PiIrq, PiReadTail, PiReadHead, commVars, ringVars, amiVars
<1>14. CASE PiReceive \/ PiClient \/ PiFlush \/ PiFlushed
  BY <1>14, <1>12 DEF PiReceive, PiClient, PiFlush, PiFlushed, commVars, ringVars, amiVars
<1>15. CASE PiWriteTail
  <2>1. /\ ppc = "publish" /\ ppc' = "publish2" /\ r2a_tail' = cs.r2a_tail
        /\ UNCHANGED <<a_events, a2r_tail, r2a_head, a2r_head, pc, sig, sendq, updated, missed>>
    BY <1>15 DEF PiWriteTail, commVars, amiVars
  <2>2. "R2A_TAIL" \notin updated => r2a_tail' = r2a_tail  BY <2>1 DEF R2AInv
  <2> QED  BY <2>1, <2>2, <1>q
<1>16. CASE PiWriteHead
  <2>1. /\ ppc = "publish2" /\ ppc' = "raise" /\ a2r_head' = cs.a2r_head
        /\ UNCHANGED <<a_events, a2r_tail, r2a_head, r2a_tail, pc, sig, sendq, updated, missed>>
    BY <1>16 DEF PiWriteHead, commVars, amiVars
  <2>2. "A2R_HEAD" \notin updated => a2r_head' = a2r_head  BY <2>1 DEF A2RInv
  <2> QED  BY <2>1, <2>2, <1>q
<1>17. CASE PiRaise
  <2>1. /\ a_events' = a_events \cup updated
        /\ UNCHANGED <<a2r_tail, r2a_head, r2a_tail, a2r_head, pc, sig, sendq, missed>>
    BY <1>17 DEF PiRaise, ringVars, amiVars
  <2> QED  BY <2>1, <1>q
<1>18. CASE UNCHANGED vars
  BY <1>18, <1>q DEF vars, commVars, ringVars, amiVars, piVars
<1> QED
  BY <1>1, <1>2, <1>3, <1>5, <1>6, <1>7, <1>8, <1>9, <1>10, <1>11, <1>13, <1>14, <1>15,
     <1>16, <1>17, <1>18, NextCases

\* The invariants together say what "quiet" promises: the Pi has seen and done
\* everything, so what the Amiga still has queued would fit, and conversely.
LEMMA QuietConsequence ==
    ASSUME TypeOK, R2AInv, A2RInv, ListenInv, QuietInv
    PROVE  QuietMeansDelivered
<1> SUFFICES ASSUME Quiet, missed = {}
             PROVE  r2aBytes = 0 /\ a2rBytes = 0 /\ sendq = <<>> /\ pq = <<>>
  BY DEF QuietMeansDelivered
<1> USE PointerTypes
<1>0. /\ pc = "wait" /\ sig = {} /\ a_events \cap a_enable = {}
      /\ ppc = "idle" /\ irq = <<>> /\ started
  BY DEF Quiet, Asleep
<1>1. a2r_tail = cs.a2r_tail /\ r2a_head = cs.r2a_head
  BY <1>0 DEF QuietInv, RaiseInv, RaiseTailInv, RaiseHeadInv, PiWillLook, WillTell, InRound
<1>2. cs.a2r_tail = cs.a2r_head /\ ~FrontFits  BY <1>0 DEF QuietInv, PiDoneInv
<1>3. r2a_tail = cs.r2a_tail /\ a2r_head = cs.a2r_head  BY <1>0 DEF R2AInv, A2RInv
<1>4. \A p \in Pointer : Used(p, p) = 0  BY UsedCases DEF Pointer
<1>5. a2rBytes = 0  BY <1>1, <1>2, <1>4 DEF A2RInv
<1>s. \A n \in Sizes : n <= N - 1 /\ n \in Int  OBVIOUS
<1>6. sendq = <<>>
  <2> SUFFICES ASSUME sendq # <<>> PROVE FALSE  OBVIOUS
  <2>1. Head(sendq) \in Sizes  BY DEF TypeOK
  <2>2. Used(a2r_tail, a2r_head) = 0  BY <1>1, <1>2, <1>3, <1>4
  <2>r. 0 + Head(sendq) <= N - 1
    <3>1. Head(sendq) \in Int /\ Head(sendq) <= N - 1  BY <1>s, <2>1, Zenon
    <3> QED  BY <3>1
  <2>3. QueuedFits  BY <2>2, <2>r, Zenon DEF QueuedFits, RoomFor
  <2>4. "A2R_HEAD" \in a_events  BY <1>0, <2>3 DEF QuietInv, TaskDoneInv, TaskWillLook
  <2>5. "A2R_HEAD" \in a_enable  BY <1>0 DEF ListenInv, NeverSleepsDeaf, Asleep
  <2> QED  BY <1>0, <2>4, <2>5
<1>7. r2a_head = r2a_tail
  <2> SUFFICES ASSUME r2a_head # r2a_tail PROVE FALSE  OBVIOUS
  <2>1. "R2A_TAIL" \in a_events  BY <1>0 DEF QuietInv, TaskDoneInv, TaskWillLook
  <2>2. "R2A_TAIL" \in a_enable  BY <1>0 DEF ListenInv, NeverSleepsDeaf, Asleep
  <2> QED  BY <1>0, <2>1, <2>2
<1>8. r2aBytes = 0  BY <1>3, <1>4, <1>7 DEF R2AInv
<1>9. pq = <<>>
  <2> SUFFICES ASSUME pq # <<>> PROVE FALSE  OBVIOUS
  <2>1. FrontSize \in Sizes  BY FrontSizeType
  <2>2. Used(cs.r2a_tail, cs.r2a_head) = 0  BY <1>1, <1>3, <1>4, <1>7
  <2>3. FrontFits  BY <1>s, <2>1, <2>2 DEF FrontFits
  <2> QED  BY <1>2, <2>3
<1> QED  BY <1>5, <1>6, <1>8, <1>9

\* When the driver's task and the Pi both wait and no byte or enabled event is
\* pending, every packet has been delivered and no queue holds one, unless a
\* wake-up was lost in one of the ways `missed` records (a tail or head that
\* came round to where the round began, an event read away by the interrupt
\* server or at start).  For every size of the rings, of the packets, of the
\* queues and of the irq socket pair, with and without resets of the Amiga.
THEOREM QuietDelivers == Spec => []QuietMeansDelivered
<1> DEFINE Inv == TypeOK /\ R2AInv /\ A2RInv /\ ListenInv /\ QuietInv
<1>1. Init => Inv  BY TypeInit, RingInit, ListenInit, QuietInit
<1>2. Inv /\ [Next]_vars => Inv'
  BY TypeStep, RingStep, ListenStep, RaiseStep, PiDoneStep, TaskDoneStep DEF QuietInv
<1>3. Inv => QuietMeansDelivered  BY QuietConsequence
<1> QED  BY <1>1, <1>2, <1>3, PTL DEF Spec
=============================================================================
