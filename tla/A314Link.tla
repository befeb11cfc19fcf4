------------------------------ MODULE A314Link ------------------------------
(***************************************************************************)
(* The A314 physical channel: two byte rings in a shared communication     *)
(* area, and the notifications by which the Amiga driver and the           *)
(* Raspberry Pi thread wake each other.                                     *)
(*                                                                         *)
(* Three actors share the area.  The Amiga driver task (task_main of       *)
(* a314driver.c) and its interrupt server (int_server.asm) run on the      *)
(* emulated CPU; the interrupt server may run between any two steps of the *)
(* task, and runs whenever ANY device raises the shared PORTS interrupt.   *)
(* The Pi thread (main_loop of a314.cc) runs in parallel with both.        *)
(*                                                                         *)
(* What the packets mean is the business of A314Channels; here a packet is *)
(* the number of ring cells it takes.                                      *)
(***************************************************************************)
EXTENDS A314Ring, SequencesExt

CONSTANTS
    Sizes,      \* cells a packet may take: 3 + payload length in the code
    Header,     \* cells of a packet without payload: 3 in the code
    MaxRequests,    \* bound: requests and sockets waiting in the driver
    MaxPending,     \* bound: channels in the Pi's send queue, packets of each
    IrqCap,     \* bytes the irq socket pair buffers
    CanReset    \* whether the Amiga may be reset and the device opened again

ASSUME LinkAssumption ==
    /\ Sizes \subseteq 1 .. N - 1 /\ Header \in Sizes
    /\ MaxRequests \in Nat /\ MaxPending \in Nat
    /\ IrqCap \in Nat \ {0}
    /\ CanReset \in BOOLEAN

VARIABLES
    \* the communication area
    a_events,   \* events for the Amiga, cleared by reading them
    a_enable,   \* events for which the Amiga wants to be signalled
    a2r_tail, r2a_head,     \* written by the Amiga
    r2a_tail, a2r_head,     \* written by the Pi
    irq,        \* bytes in the irq socket pair: whether R_EVENT_STARTED is in each
    \* the Amiga driver
    pc,         \* where task_start or task_main is
    sig,        \* signals pending for the task
    port,       \* how many requests are in task_mp
    sendq,      \* sizes of the packets waiting in the socket send queue
    prev,       \* prev_a2r_tail and prev_r2a_head
    r_ev,       \* the local r_events
    enable,     \* the local a_enable
    \* the Pi thread
    ppc,        \* where main_loop is
    started,    \* a314_device_started
    cs,         \* channel_status
    updated,    \* channel_status_updated
    open,       \* whether a client has a logical channel
    pq,         \* send_queue: the packet_queue of each waiting channel, as sizes
    \* history
    r2aBytes,   \* bytes written to R2A by the Pi and not yet read
    a2rBytes,   \* bytes written to A2R by the Amiga and not yet read
    missed      \* why a wake-up may have been lost, if it may

commVars == <<a_events, a_enable, irq>>
ringVars == <<a2r_tail, r2a_head, r2a_tail, a2r_head, r2aBytes, a2rBytes>>
amiVars  == <<pc, sig, port, sendq, prev, r_ev, enable>>
piVars   == <<ppc, started, cs, updated, open, pq>>
vars == <<commVars, ringVars, amiVars, piVars, missed>>

A_EVENTS == {"R2A_TAIL", "A2R_HEAD"}
R_EVENTS == {"A2R_TAIL", "R2A_HEAD", "STARTED"}
SIGNALS  == {"MSGPORT", "INT"}
WRAPS    == {"A2R_WRAP", "R2A_WRAP"}

\* The locals of task_main are cleared when their last use in a round is over.
NoPrev == [a2r_tail |-> 0, r2a_head |-> 0]

Init ==
    /\ a_events = {} /\ a_enable = {} /\ irq = <<>>
    /\ a2r_tail = 0 /\ r2a_head = 0 /\ r2a_tail = 0 /\ a2r_head = 0
    /\ r2aBytes = 0 /\ a2rBytes = 0
    /\ pc = "off" /\ sig = {} /\ port = 0 /\ sendq = <<>>
    /\ prev = NoPrev
    /\ r_ev = {} /\ enable = {}
    /\ ppc = "idle" /\ started = FALSE /\ updated = {}
    /\ open = FALSE /\ pq = <<>>
    /\ cs = [a2r_tail |-> 0, r2a_head |-> 0, r2a_tail |-> 0, a2r_head |-> 0]
    /\ missed = {}

-----------------------------------------------------------------------------
\* Steps of the emulated CPU: writes to r_events and to the A2R ring.

\* write_r_events: one byte into a non-blocking socket, lost when it is full.
\* The Pi looks for STARTED in it and for no other event.
Notify(events) ==
    irq' = IF events # {} /\ Len(irq) < IrqCap THEN Append(irq, "STARTED" \in events) ELSE irq

\* A tail or a head that moves and comes round to where this round began:
\* comparing it with prev_... (a314driver.c:590-593) says nothing moved.
MarkWraps ==
    LET mark(m, new, old, start) ==
            IF new = old THEN missed \cap {m} ELSE IF new = start THEN {m} ELSE {}
    IN missed' = (missed \ WRAPS)
                 \cup mark("A2R_WRAP", a2r_tail', a2r_tail, prev.a2r_tail)
                 \cup mark("R2A_WRAP", r2a_head', r2a_head, prev.r2a_head)

\* append_a2r_packet
AppendA2R(n) ==
    /\ a2r_tail' = Advance(a2r_tail, n)
    /\ a2rBytes' = a2rBytes + n

\* A socket has a packet to send, q being the rest of the send queue: it is
\* sent at once if nobody waits and it fits, else the socket joins the queue.
SendOrQueue(q, n) ==
    \/ /\ q = <<>> /\ RoomFor(a2r_tail, a2r_head, n)
       /\ AppendA2R(n)
       /\ sendq' = q
    \/ /\ ~(q = <<>> /\ RoomFor(a2r_tail, a2r_head, n))
       /\ sendq' = Append(q, n)
       /\ UNCHANGED <<a2r_tail, a2rBytes>>

\* close_socket: the socket leaves the send queue if it waits there, and a RESET
\* is sent or queued if the Pi is to be told.
CloseSocket ==
    \E q \in {sendq} \cup {RemoveAt(sendq, i) : i \in DOMAIN sendq} :
        \/ sendq' = q /\ UNCHANGED <<a2r_tail, a2rBytes>>
        \/ Len(q) + port' < MaxRequests /\ SendOrQueue(q, Header)

-----------------------------------------------------------------------------
\* The Amiga driver: opening the device (task_start), then task_main.

\* task_start up to reading a_events away.  The task itself was created just
\* before and waits for its first signal.  Packets of an earlier session may
\* still lie in R2A; the event that announced them is discarded here.
StartMute ==
    /\ pc = "off"
    /\ a_enable' = {} /\ a_events' = {}
    /\ pc' = "started"
    /\ missed' = IF r2a_head = r2a_tail THEN {} ELSE {"STALE"}
    /\ UNCHANGED <<irq, ringVars, sig, port, sendq, prev, r_ev, enable, piVars>>

StartNotify ==
    /\ pc = "started"
    /\ Notify({"STARTED"})
    /\ pc' = "installed"
    /\ UNCHANGED <<a_events, a_enable, ringVars, sig, port, sendq, prev, r_ev, enable, piVars, missed>>

\* add_interrupt_handler has run; the last statement enables events.
StartEnable ==
    /\ pc = "installed"
    /\ a_enable' = {"R2A_TAIL"}
    /\ pc' = "wait"
    /\ UNCHANGED <<a_events, irq, ringVars, sig, port, sendq, prev, r_ev, enable, piVars, missed>>

\* An application sends a request (begin_io).  The task has priority 80
\* (startup.c:28), so applications run only while it waits.
PutMsg ==
    /\ pc = "wait"
    /\ port + Len(sendq) < MaxRequests
    /\ port' = port + 1
    /\ sig' = sig \cup {"MSGPORT"}
    /\ UNCHANGED <<commVars, ringVars, pc, sendq, prev, r_ev, enable, piVars, missed>>

\* IntServer, on any PORTS interrupt.  Reading a_events clears it, whoever
\* raised the interrupt and whether or not the events are enabled.
IntServer ==
    /\ pc \notin {"off", "started"}
    /\ a_events # {}
    /\ a_events' = {}
    /\ \/ /\ a_events \cap a_enable # {}
          /\ a_enable' = {}
          /\ sig' = sig \cup {"INT"}
          /\ UNCHANGED missed
       \/ /\ a_events \cap a_enable = {}
          /\ missed' = missed \cup a_events
          /\ UNCHANGED <<a_enable, sig>>
    /\ UNCHANGED <<irq, ringVars, pc, port, sendq, prev, r_ev, enable, piVars>>

\* Wait returns and the old pointers are noted.
TaskWake ==
    /\ pc = "wait" /\ sig # {}
    /\ sig' = {}
    /\ prev' = [a2r_tail |-> a2r_tail, r2a_head |-> r2a_head]
    /\ pc' = IF "MSGPORT" \in sig THEN "mute" ELSE "recv"
    /\ missed' = missed \ (A_EVENTS \cup {"STALE"})
    /\ UNCHANGED <<commVars, ringVars, port, sendq, r_ev, enable, piVars>>

TaskMute ==
    /\ pc = "mute"
    /\ a_enable' = {}
    /\ pc' = "msgs"
    /\ UNCHANGED <<a_events, irq, ringVars, sig, port, sendq, prev, r_ev, enable, piVars, missed>>

\* One turn of the GetMsg loop: handle_app_request.  Reads and requests that
\* fail need no packet; connect, write and eos need one; reset, and a read or
\* write whose length does not fit, close the socket.
TaskGetMsg ==
    /\ pc = "msgs"
    /\ port > 0
    /\ port' = port - 1
    /\ \/ UNCHANGED <<a2r_tail, a2rBytes, sendq>>
       \/ \E n \in Sizes : SendOrQueue(sendq, n)
       \/ CloseSocket
    /\ UNCHANGED <<commVars, r2a_head, r2a_tail, a2r_head, r2aBytes, pc, sig, prev, r_ev, enable, piVars>>
    /\ MarkWraps

TaskNoMsg ==
    /\ pc = "msgs"
    /\ port = 0
    /\ pc' = "recv"
    /\ UNCHANGED <<commVars, ringVars, sig, port, sendq, prev, r_ev, enable, piVars, missed>>

\* One turn of handle_packets_received_r2a: a packet leaves the ring and may
\* close its socket.  Where the packets in the ring end is not kept: one may be
\* of any size, or all there is.
TaskReceive ==
    /\ pc = "recv"
    /\ r2a_head # r2a_tail
    /\ \E n \in Sizes \cup {Used(r2a_tail, r2a_head)} :
          /\ n <= Used(r2a_tail, r2a_head)
          /\ r2a_head' = Advance(r2a_head, n)
          /\ r2aBytes' = r2aBytes - n
    /\ UNCHANGED port
    /\ UNCHANGED <<a2r_tail, a2rBytes, sendq>> \/ CloseSocket
    /\ UNCHANGED <<commVars, r2a_tail, a2r_head, pc, sig, prev, r_ev, enable, piVars>>
    /\ MarkWraps

TaskReceived ==
    /\ pc = "recv"
    /\ r2a_head = r2a_tail
    /\ pc' = "room"
    /\ UNCHANGED <<commVars, ringVars, sig, port, sendq, prev, r_ev, enable, piVars, missed>>

\* The head of the send queue fits into A2R.
QueuedFits == sendq # <<>> /\ RoomFor(a2r_tail, a2r_head, Head(sendq))

\* handle_room_in_a2r: one packet of the send queue, while it fits.
TaskSendQueued ==
    /\ pc = "room"
    /\ QueuedFits
    /\ sendq' = Tail(sendq)
    /\ AppendA2R(Head(sendq))
    /\ UNCHANGED <<commVars, r2a_head, r2a_tail, a2r_head, r2aBytes, pc, sig, port, prev, r_ev, enable, piVars>>
    /\ MarkWraps

TaskEvents_NoHead ==
    /\ pc = "room"
    /\ ~QueuedFits
    /\ r_ev' = (IF a2r_tail # prev.a2r_tail THEN {"A2R_TAIL"} ELSE {})
    /\ a_events' = {}
    /\ pc' = "check"
    /\ UNCHANGED <<a_enable, irq, ringVars, sig, port, sendq, prev, enable, piVars, missed>>

TaskEvents_NoTail ==
    /\ pc = "room"
    /\ ~QueuedFits
    /\ r_ev' = (IF r2a_head # prev.r2a_head THEN {"R2A_HEAD"} ELSE {})
    /\ a_events' = {}
    /\ pc' = "check"
    /\ UNCHANGED <<a_enable, irq, ringVars, sig, port, sendq, prev, enable, piVars, missed>>

\* The rest of handle_room_in_a2r, r_events, and the discarded read of a_events.
TaskEvents ==
    /\ pc = "room"
    /\ ~QueuedFits
    /\ r_ev' = (IF a2r_tail # prev.a2r_tail THEN {"A2R_TAIL"} ELSE {})
               \cup (IF r2a_head # prev.r2a_head THEN {"R2A_HEAD"} ELSE {})
    /\ a_events' = {}
    /\ pc' = "check"
    /\ UNCHANGED <<a_enable, irq, ringVars, sig, port, sendq, prev, enable, piVars, missed>>

TaskSettle_TailOnly(events) ==
    /\ enable' = {"R2A_TAIL"} /\ pc' = "enable"
    /\ prev' = NoPrev
    /\ UNCHANGED r_ev

\* Nothing left to do: choose the events to wait for.  Otherwise go round again.
TaskSettle(events) ==
    /\ enable' = events /\ pc' = "enable"
    /\ prev' = NoPrev
    /\ UNCHANGED r_ev

TaskCheck_NoRecheck ==
    /\ pc = "check"
    /\ TaskSettle(IF sendq = <<>> THEN {"R2A_TAIL"} ELSE {"R2A_TAIL", "A2R_HEAD"})
    /\ UNCHANGED <<commVars, ringVars, sig, port, sendq, piVars, missed>>

TaskCheck ==
    /\ pc = "check"
    /\ \/ /\ r2a_head = r2a_tail
          /\ sendq = <<>>
          /\ TaskSettle({"R2A_TAIL"})
       \/ /\ r2a_head = r2a_tail
          /\ sendq # <<>> /\ ~QueuedFits
          /\ TaskSettle({"R2A_TAIL", "A2R_HEAD"})
       \/ /\ r2a_head # r2a_tail \/ QueuedFits
          /\ pc' = "recv"
          /\ r_ev' = {}
          /\ UNCHANGED <<enable, prev>>
    /\ UNCHANGED <<commVars, ringVars, sig, port, sendq, piVars, missed>>

TaskEnable ==
    /\ pc = "enable"
    /\ a_enable' = enable
    /\ pc' = "notify"
    /\ UNCHANGED <<a_events, irq, ringVars, sig, port, sendq, prev, r_ev, enable, piVars, missed>>

TaskNotify ==
    /\ pc = "notify"
    /\ Notify(r_ev)
    /\ missed' = IF r_ev = {} THEN missed ELSE missed \ WRAPS
    /\ pc' = "wait"
    /\ r_ev' = {} /\ enable' = {}
    /\ UNCHANGED <<a_events, a_enable, ringVars, sig, port, sendq, prev, piVars>>

\* A reset of the Amiga: the driver and its requests are gone, the
\* communication area is not (handle_reset_amiga leaves A314 alone).
AmigaReset ==
    /\ CanReset
    /\ pc # "off"
    /\ pc' = "off"
    /\ sig' = {} /\ port' = 0 /\ sendq' = <<>> /\ r_ev' = {} /\ enable' = {}
    /\ prev' = NoPrev
    /\ missed' = {}
    /\ UNCHANGED <<commVars, ringVars, piVars>>

-----------------------------------------------------------------------------
\* The Pi thread (main_loop).

\* A byte arrives from the irq socket: handle_a314_irq up to read_channel_status.
\* STARTED closes every logical channel, and with them the send queue.
PiIrq ==
    /\ ppc = "idle"
    /\ irq # <<>>
    /\ irq' = Tail(irq)
    /\ started' = (started \/ Head(irq))
    /\ pq' = IF Head(irq) THEN <<>> ELSE pq
    /\ open' = (open /\ ~Head(irq))
    /\ ppc' = IF started' THEN "status" ELSE "idle"
    /\ UNCHANGED <<a_events, a_enable, ringVars, amiVars, cs, updated, missed>>

\* read_channel_status.  Of the four bytes only these two are the Amiga's.
PiReadTail ==
    /\ ppc = "status"
    /\ cs' = [cs EXCEPT !.a2r_tail = a2r_tail]
    /\ ppc' = "status2"
    /\ UNCHANGED <<commVars, ringVars, amiVars, started, open, updated, pq, missed>>

PiReadHead ==
    /\ ppc = "status2"
    /\ cs' = [cs EXCEPT !.r2a_head = r2a_head,
                        !.r2a_tail = r2a_tail, !.a2r_head = a2r_head]
    /\ updated' = {}
    /\ ppc' = "recv"
    /\ UNCHANGED <<commVars, ringVars, amiVars, started, open, pq, missed>>

\* create_and_enqueue_packet: behind the other packets of its channel, or of a
\* channel that joins the queue q.
Enqueued(q, n) ==
    {e \in {Append(q, <<n>>)} \cup {[q EXCEPT ![i] = Append(@, n)] : i \in DOMAIN q} :
        Len(e) <= MaxPending /\ \A i \in DOMAIN e : Len(e[i]) <= MaxPending}

\* clear_packet_queue, for a channel that is reset: it leaves the queue.
Cleared == {RemoveAt(pq, i) : i \in DOMAIN pq}

\* receive_from_a2r: every packet up to the tail.  CONNECT may queue a response,
\* RESET clears the channel's packets; no other packet touches the send queue.
\* Bound: a batch clears at most one channel and queues at most one response.
PiReceive ==
    /\ ppc = "recv"
    /\ \/ /\ cs.a2r_head = cs.a2r_tail
          /\ UNCHANGED <<cs, a2rBytes, updated, open, pq>>
       \/ /\ cs.a2r_head # cs.a2r_tail
          /\ cs' = [cs EXCEPT !.a2r_head = cs.a2r_tail]
          /\ a2rBytes' = a2rBytes - Used(cs.a2r_tail, cs.a2r_head)
          /\ updated' = updated \cup {"A2R_HEAD"}
          /\ open' \in BOOLEAN
          /\ \E q \in {pq} \cup Cleared :
                pq' = q \/ \E n \in Sizes : pq' \in Enqueued(q, n)
    /\ ppc' = "flush"
    /\ UNCHANGED <<commVars, a2r_tail, r2a_head, r2a_tail, a2r_head, r2aBytes, amiVars, started, missed>>

\* A message from a client of a channel, or its end (handle_client_connection_event):
\* data and eos queue a packet; reset and end-of-file replace the packets of the
\* channel by a RESET.  flush_send_queue follows, with the channel status of the
\* last irq.  Bound: one message for each time the socket becomes ready.
PiClient ==
    /\ ppc = "idle" /\ open
    /\ \/ \E n \in Sizes : pq' \in Enqueued(pq, n)
       \/ \E q \in Cleared : pq' \in Enqueued(q, Header)
    /\ open' \in BOOLEAN
    /\ ppc' = "flush"
    /\ UNCHANGED <<commVars, ringVars, amiVars, started, cs, updated, missed>>

\* The packet at the front of send_queue, and whether it fits into what R2A has
\* left, as far as the Pi knows.
FrontSize == Head(Head(pq))
FrontFits == pq # <<>> /\ FrontSize <= N - 1 - Used(cs.r2a_tail, cs.r2a_head)

\* One turn of flush_send_queue: a channel with more packets goes to the back.
PiFlush ==
    /\ ppc = "flush"
    /\ FrontFits
    /\ cs' = [cs EXCEPT !.r2a_tail = Advance(cs.r2a_tail, FrontSize)]
    /\ r2aBytes' = r2aBytes + FrontSize
    /\ updated' = updated \cup {"R2A_TAIL"}
    /\ pq' = IF Len(Head(pq)) > 1 THEN Append(Tail(pq), Tail(Head(pq))) ELSE Tail(pq)
    /\ UNCHANGED <<commVars, a2r_tail, r2a_head, r2a_tail, a2r_head, a2rBytes, amiVars, ppc, started, open, missed>>

PiFlushed ==
    /\ ppc = "flush"
    /\ ~FrontFits
    /\ ppc' = IF updated = {} THEN "idle" ELSE "publish"
    /\ UNCHANGED <<commVars, ringVars, amiVars, started, open, cs, updated, pq, missed>>

\* write_channel_status: two stores, then the events under the mutex.
PiWriteTail ==
    /\ ppc = "publish"
    /\ r2a_tail' = cs.r2a_tail
    /\ ppc' = "publish2"
    /\ UNCHANGED <<commVars, a2r_tail, r2a_head, a2r_head, r2aBytes, a2rBytes, amiVars, started, open, cs, updated, pq, missed>>

PiWriteHead ==
    /\ ppc = "publish2"
    /\ a2r_head' = cs.a2r_head
    /\ ppc' = "raise"
    /\ UNCHANGED <<commVars, a2r_tail, r2a_head, r2a_tail, r2aBytes, a2rBytes, amiVars, started, open, cs, updated, pq, missed>>

PiRaise ==
    /\ ppc = "raise"
    /\ a_events' = a_events \cup updated
    /\ updated' = {}
    /\ ppc' = "idle"
    /\ UNCHANGED <<a_enable, irq, ringVars, amiVars, started, open, cs, pq, missed>>

-----------------------------------------------------------------------------
Start == StartMute \/ StartNotify \/ StartEnable

Task == \/ TaskWake \/ TaskMute \/ TaskGetMsg \/ TaskNoMsg \/ TaskReceive
        \/ TaskReceived \/ TaskSendQueued \/ TaskEvents \/ TaskCheck \/ TaskEnable \/ TaskNotify

Pi == \/ PiIrq \/ PiReadTail \/ PiReadHead \/ PiReceive
      \/ PiClient \/ PiFlush \/ PiFlushed \/ PiWriteTail \/ PiWriteHead \/ PiRaise

Next == Start \/ Task \/ IntServer \/ PutMsg \/ Pi \/ AmigaReset

\* The task runs whenever it can, the Pi thread is scheduled, and PORTS
\* interrupts keep coming (the CIA timers raise them).  No fairness for
\* applications, clients, opening the device or resets.
PiSteps == Pi /\ ~PiClient
Fairness == WF_vars(Task) /\ WF_vars(PiSteps) /\ SF_vars(PiIrq) /\ WF_vars(IntServer)

Spec == Init /\ [][Next]_vars
FairSpec == Spec /\ Fairness

-----------------------------------------------------------------------------
\* Every variable has its type.
TypeOK ==
    /\ a_events \subseteq A_EVENTS /\ a_enable \subseteq A_EVENTS
    /\ irq \in Seq(BOOLEAN) /\ Len(irq) <= IrqCap
    /\ a2r_tail \in Pointer /\ r2a_head \in Pointer
    /\ r2a_tail \in Pointer /\ a2r_head \in Pointer
    /\ r2aBytes \in Int /\ a2rBytes \in Int
    /\ pc \in {"off", "started", "installed", "wait", "mute", "msgs", "recv",
               "room", "check", "enable", "notify"}
    /\ sig \subseteq SIGNALS
    /\ port \in Nat /\ sendq \in Seq(Sizes)
    /\ prev \in [a2r_tail : Pointer, r2a_head : Pointer]
    /\ r_ev \subseteq R_EVENTS /\ enable \subseteq A_EVENTS
    /\ ppc \in {"idle", "status", "status2", "recv", "flush",
                "publish", "publish2", "raise"}
    /\ started \in BOOLEAN /\ open \in BOOLEAN /\ updated \subseteq A_EVENTS
    /\ cs \in [a2r_tail : Pointer, r2a_head : Pointer,
               r2a_tail : Pointer, a2r_head : Pointer]
    /\ pq \in Seq(Seq(Sizes) \ {<<>>})
    /\ missed \subseteq A_EVENTS \cup WRAPS \cup {"STALE"}

\* The pointer difference is the number of unread bytes in both rings: the Pi
\* never fills R2A up to or over the Amiga's head, though it works with a head
\* read at the last irq, and the Amiga never overruns the Pi in A2R.
RingAccounting ==
    /\ r2aBytes = Used(cs.r2a_tail, r2a_head)
    /\ a2rBytes = Used(a2r_tail, cs.a2r_head)

Asleep == pc = "wait" /\ sig = {}

\* The task never waits deaf: with no signal pending the events it waits for
\* are enabled, A2R_HEAD among them when packets wait for room.
NeverSleepsDeaf ==
    Asleep => /\ "R2A_TAIL" \in a_enable
              /\ sendq # <<>> => "A2R_HEAD" \in a_enable

\* Nobody has anything left to do until an application or a client acts.
Quiet == /\ Asleep /\ a_events \cap a_enable = {}
         /\ ppc = "idle" /\ irq = <<>> /\ started

\* When everything is quiet every packet has been delivered, unless a wake-up
\* was lost in one of the ways recorded in `missed`.
QuietMeansDelivered ==
    Quiet /\ missed = {} =>
        /\ r2aBytes = 0 /\ a2rBytes = 0 /\ sendq = <<>> /\ pq = <<>>

\* A published packet is received, or its wake-up is lost in a known way.
R2AIsReceived == (r2a_head # r2a_tail) ~> (pc \in {"recv", "off"} \/ missed # {})

\* A packet the Amiga appended is received by the Pi, or its wake-up is lost in
\* a known way: a ring that holds one packet at a time empties again.
A2RIsReceived == (a2rBytes # 0) ~> (a2rBytes = 0 \/ missed # {})
=============================================================================
