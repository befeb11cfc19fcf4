---------------------------- MODULE A314Channels ----------------------------
(***************************************************************************)
(* The logical channels of A314: sockets in the Amiga driver (a314driver.c,*)
(* sockets.c), channels in the Pi's a314d thread (a314.cc), and the client *)
(* process that serves them.                                               *)
(*                                                                         *)
(* The two rings are queues of packets here.  When a packet is noticed is  *)
(* the business of A314Link; here any delay is possible, and a step that   *)
(* needs room may find none though the other side has just made some,      *)
(* because it looks at a pointer that was published earlier.  A request    *)
(* is sent by the application and handled by the driver in one step.       *)
(***************************************************************************)
EXTENDS Integers, SequencesExt

CONSTANTS
    MaxConns,   \* bound: connections of a session; next_stream_id never wraps
    Sockets,    \* socket numbers of the applications
    A2RCap, R2ACap,     \* packets a ring holds
    MaxData,    \* bound: data packets in each direction of the first connection
    LaterData,  \* bound: ... and of every other
    OnDemand,   \* whether the service is started when it is needed
    MaxSessions \* bound: how often the device is opened; one more for each reset

ASSUME ChannelAssumption ==
    /\ MaxConns \in Nat \ {0} /\ MaxData \in Nat /\ LaterData \in 0 .. MaxData
    /\ A2RCap \in Nat \ {0} /\ R2ACap \in Nat \ {0}
    /\ OnDemand \in BOOLEAN /\ MaxSessions \in Nat \ {0}

VARIABLES
    up,         \* the device is open: task_main runs
    session,    \* bound: how often it has been opened
    sock,       \* the socket that holds each stream id, or Free
    sendq,      \* stream ids of the sockets in the send queue
    next,       \* next_stream_id
    started,    \* how many R_EVENT_STARTED the Pi has not yet handled
    a2r, r2a,   \* packets in the rings
    chan,       \* the logical channel of each stream id, or NoChannel
    send_queue, \* ids of the channels with packets to send
    client,     \* the client process: "gone", "idle" or "serving"
    streams,    \* what passed between a314d and the client, by client stream id
    wrote,      \* history: what the application has written, EOS at the end
    seen        \* history: what it has read

driverVars == <<up, session, sock, sendq, next>>
ringVars == <<a2r, r2a>>
piVars == <<chan, send_queue, client, streams>>
vars == <<driverVars, started, ringVars, piVars, wrote, seen>>

Ids == 1 .. MaxConns

NoDuplicates(q) == Cardinality(ToSet(q)) = Len(q)

Free == [state |-> "free", socket |-> 0, pend |-> {}, flags |-> {}, rq |-> <<>>]
NoChannel == [stream |-> 0, eosAmi |-> FALSE, eosClient |-> FALSE, pq |-> <<>>]

\* The data packets of each direction of a connection are numbered from 1; in
\* what was written or read an EOS shows as 0.
EOS == 0

Packet(type, id, x) == [type |-> type, id |-> id, x |-> x]
CONNECT_OK == 0
CONNECT_UNKNOWN_SERVICE == 3

Init ==
    /\ up = FALSE /\ session = 0 /\ sock = [i \in Ids |-> Free] /\ sendq = <<>> /\ next = 1
    /\ started = 0 /\ a2r = <<>> /\ r2a = <<>>
    /\ chan = [i \in Ids |-> NoChannel] /\ send_queue = <<>>
    /\ client = "gone" /\ streams = <<>>
    /\ wrote = [i \in Ids |-> <<>>] /\ seen = [i \in Ids |-> <<>>]

-----------------------------------------------------------------------------
\* The Amiga driver.

Open(i) == sock[i].state = "open"

\* task_main handles requests and packets.  Once a socket is in the send queue
\* twice the list is cut or tied into a loop, and the driver is lost.
Running == up /\ NoDuplicates(sendq)

RoomInA2R_Always == TRUE
RoomInA2R == Len(a2r) < A2RCap

SendNow_Overtakes(q, p) ==
    /\ RoomInA2R
    /\ a2r' = Append(a2r, p)
    /\ sendq' = q

\* A packet may be appended to A2R at once / a socket waits for its turn.
SendNow(q, p) ==
    /\ q = <<>> /\ RoomInA2R
    /\ a2r' = Append(a2r, p)
    /\ sendq' = q

Queue(q, i) == sendq' = Append(q, i) /\ UNCHANGED a2r

CloseSocket_StaysQueued(i, should_send_reset) ==
    /\ UNCHANGED <<sendq, a2r>>
    /\ sock' = [sock EXCEPT ![i] = Free]

CloseSocket_ResetIfRoom(i, should_send_reset) ==
    LET q == RemoveFirst(sendq, i)
    IN /\ sock' = [sock EXCEPT ![i] = Free]
       /\ \/ should_send_reset /\ SendNow(q, Packet("RESET", i, 0))
          \/ sendq' = q /\ UNCHANGED a2r

\* close_socket: pending requests are answered, received data is dropped; the
\* socket is deleted unless a RESET has to wait for its turn.
CloseSocket(i, should_send_reset) ==
    LET q == RemoveFirst(sendq, i)
    IN \/ /\ ~should_send_reset
          /\ sendq' = q /\ UNCHANGED a2r
          /\ sock' = [sock EXCEPT ![i] = Free]
       \/ /\ should_send_reset
          /\ SendNow(q, Packet("RESET", i, 0))
          /\ sock' = [sock EXCEPT ![i] = Free]
       \/ /\ should_send_reset
          /\ Queue(q, i)
          /\ sock' = [sock EXCEPT ![i] = [Free EXCEPT !.state = "closed", !.socket = sock[i].socket]]

AppConnect_SameId(n) ==
    /\ Running
    /\ \A i \in Ids : sock[i].socket # n
    /\ UNCHANGED next
    /\ sock' = [sock EXCEPT ![next] = [Free EXCEPT !.state = "open", !.socket = n, !.pend = {"CONNECT"}]]
    /\ SendNow(sendq, Packet("CONNECT", next, 0)) \/ Queue(sendq, next)
    /\ UNCHANGED <<up, session, started, r2a, piVars, wrote, seen>>

\* handle_app_connect.  A socket number in use is refused without a change.
AppConnect(n) ==
    /\ Running /\ next \in Ids
    /\ \A i \in Ids : sock[i].socket # n
    /\ next' = next + 1
    /\ sock' = [sock EXCEPT ![next] = [Free EXCEPT !.state = "open", !.socket = n, !.pend = {"CONNECT"}]]
    /\ SendNow(sendq, Packet("CONNECT", next, 0)) \/ Queue(sendq, next)
    /\ UNCHANGED <<up, session, started, r2a, piVars, wrote, seen>>

\* The application reads an EOS; the socket is done if it sent one as well.
GiveEos(i, flags) ==
    /\ seen' = [seen EXCEPT ![i] = Append(@, EOS)]
    /\ IF "SENT_EOS_TO_RPI" \in flags
       THEN CloseSocket(i, FALSE)
       ELSE /\ sock' = [sock EXCEPT ![i].flags = flags \cup {"SENT_EOS_TO_APP"},
                                    ![i].pend = @ \ {"READ"}]
            /\ UNCHANGED <<sendq, a2r>>

GiveData_StaysQueued(i, x, s) ==
    /\ seen' = [seen EXCEPT ![i] = Append(@, x)]
    /\ sock' = [sock EXCEPT ![i].pend = @ \ {"READ"}]
    /\ UNCHANGED <<sendq, a2r>>

GiveData(i, x, s) ==
    /\ seen' = [seen EXCEPT ![i] = Append(@, x)]
    /\ sock' = [sock EXCEPT ![i] = s]
    /\ UNCHANGED <<sendq, a2r>>

\* handle_app_read on an open socket; on any other it answers READ_RESET.
\* Data longer than the buffer closes the socket.
AppRead(i) ==
    /\ Running /\ Open(i)
    /\ LET s == sock[i]
       IN \/ /\ s.pend \cap {"CONNECT", "READ"} # {}
             /\ CloseSocket(i, TRUE)
             /\ UNCHANGED seen
          \/ /\ s.pend \cap {"CONNECT", "READ"} = {} /\ s.rq # <<>>
             /\ \/ GiveData(i, Head(s.rq), [s EXCEPT !.rq = Tail(@)])
                \/ CloseSocket(i, TRUE) /\ UNCHANGED seen
          \/ /\ s.pend \cap {"CONNECT", "READ"} = {} /\ s.rq = <<>>
             /\ "RCVD_EOS_FROM_RPI" \in s.flags
             /\ "SENT_EOS_TO_APP" \notin s.flags     \* EOS again, no change
             /\ GiveEos(i, s.flags)
          \/ /\ s.pend \cap {"CONNECT", "READ"} = {} /\ s.rq = <<>>
             /\ "RCVD_EOS_FROM_RPI" \notin s.flags
             /\ sock' = [sock EXCEPT ![i].pend = @ \cup {"READ"}]
             /\ UNCHANGED <<sendq, a2r, seen>>
    /\ UNCHANGED <<up, session, next, started, r2a, piVars, wrote>>

OutOfPlace_AfterEos(s) == s.pend \cap {"CONNECT", "WRITE", "EOS"} # {}

\* A write or an EOS is out of place: something is pending, or EOS was requested.
OutOfPlace(s) ==
    s.pend \cap {"CONNECT", "WRITE", "EOS"} # {} \/ "RCVD_EOS_FROM_APP" \in s.flags

DataOf(i) == IF i = 1 THEN MaxData ELSE LaterData

\* handle_app_write.
AppWrite(i) ==
    /\ Running /\ Open(i)
    /\ \/ /\ CloseSocket(i, TRUE)    \* out of place, or more than a packet holds
          /\ UNCHANGED wrote
       \/ /\ ~OutOfPlace(sock[i]) /\ Len(wrote[i]) < DataOf(i)
          /\ \/ /\ SendNow(sendq, Packet("DATA", i, Len(wrote[i]) + 1))
                /\ wrote' = [wrote EXCEPT ![i] = Append(@, Len(@) + 1)]
                /\ UNCHANGED sock
             \/ /\ Queue(sendq, i)
                /\ sock' = [sock EXCEPT ![i].pend = @ \cup {"WRITE"}]
                /\ UNCHANGED wrote
    /\ UNCHANGED <<up, session, next, started, r2a, piVars, seen>>

\* The EOS is in the ring; the socket is done if the application read one as well.
EosSent(i, s) ==
    /\ wrote' = [wrote EXCEPT ![i] = Append(@, EOS)]
    /\ sock' = [sock EXCEPT ![i] =
        IF "SENT_EOS_TO_APP" \in s.flags
        THEN Free
        ELSE [s EXCEPT !.flags = @ \cup {"RCVD_EOS_FROM_APP", "SENT_EOS_TO_RPI"},
                       !.pend = @ \ {"EOS"}]]

\* handle_app_eos.
AppEos(i) ==
    /\ Running /\ Open(i)
    /\ \/ OutOfPlace(sock[i]) /\ CloseSocket(i, TRUE) /\ UNCHANGED wrote
       \/ /\ ~OutOfPlace(sock[i])
          /\ \/ SendNow(sendq, Packet("EOS", i, 0)) /\ EosSent(i, sock[i])
             \/ /\ Queue(sendq, i)
                /\ UNCHANGED wrote
                /\ sock' = [sock EXCEPT ![i].pend = @ \cup {"EOS"},
                                        ![i].flags = @ \cup {"RCVD_EOS_FROM_APP"}]
    /\ UNCHANGED <<up, session, next, started, r2a, piVars, seen>>

\* handle_app_reset.
AppReset(i) ==
    /\ Running /\ Open(i)
    /\ CloseSocket(i, TRUE)
    /\ UNCHANGED <<up, session, next, started, r2a, piVars, wrote, seen>>

HasNothingToSend(s) ==
    s.state # "closed" /\ s.pend \cap {"CONNECT", "WRITE", "EOS"} = {}

\* handle_room_in_a2r: the first socket of the send queue, if there is room.
DriverSend ==
    /\ Running /\ sendq # <<>> /\ RoomInA2R
    /\ sendq' = Tail(sendq)
    /\ LET i == Head(sendq)
           s == sock[i]
           send(type, x) == a2r' = Append(a2r, Packet(type, i, x))
       IN \/ /\ "CONNECT" \in s.pend
             /\ send("CONNECT", 0)
             /\ UNCHANGED <<sock, wrote>>
          \/ /\ "WRITE" \in s.pend
             /\ send("DATA", Len(wrote[i]) + 1)
             /\ wrote' = [wrote EXCEPT ![i] = Append(@, Len(@) + 1)]
             /\ sock' = [sock EXCEPT ![i].pend = @ \ {"WRITE"}]
          \/ /\ "EOS" \in s.pend
             /\ send("EOS", 0)
             /\ EosSent(i, s)
          \/ /\ s.state = "closed"
             /\ send("RESET", 0)
             /\ sock' = [sock EXCEPT ![i] = Free]
             /\ UNCHANGED wrote
          \/ /\ HasNothingToSend(s)
             /\ UNCHANGED <<sock, a2r, wrote>>
    /\ UNCHANGED <<up, session, next, started, r2a, piVars, seen>>

\* handle_r2a_packet, for a packet the socket can use.
DriverHandle(p) ==
    LET i == p.id
        s == sock[i]
    IN \/ /\ p.type = "RESET"
          /\ CloseSocket(i, FALSE)
          /\ UNCHANGED seen
       \/ /\ p.type = "RESPONSE" /\ Open(i) /\ "CONNECT" \in s.pend
          /\ IF p.x = CONNECT_OK
             THEN /\ sock' = [sock EXCEPT ![i].pend = @ \ {"CONNECT"}]
                  /\ UNCHANGED <<sendq, a2r>>
             ELSE CloseSocket(i, FALSE)
          /\ UNCHANGED seen
       \/ /\ p.type = "DATA" /\ Open(i) /\ "READ" \in s.pend
          /\ \/ GiveData(i, p.x, [s EXCEPT !.pend = @ \ {"READ"}])
             \/ CloseSocket(i, TRUE) /\ UNCHANGED seen
       \/ /\ p.type = "DATA" /\ Open(i) /\ "READ" \notin s.pend
          /\ sock' = [sock EXCEPT ![i].rq = Append(@, p.x)]
          /\ UNCHANGED <<sendq, a2r, seen>>
       \/ /\ p.type = "EOS" /\ Open(i) /\ "READ" \in s.pend
          /\ GiveEos(i, s.flags \cup {"RCVD_EOS_FROM_RPI"})
       \/ /\ p.type = "EOS" /\ Open(i) /\ "READ" \notin s.pend
          /\ sock' = [sock EXCEPT ![i].flags = @ \cup {"RCVD_EOS_FROM_RPI"}]
          /\ UNCHANGED <<sendq, a2r, seen>>

\* Packets for nobody, for a socket that only waits to send its RESET, and
\* responses nobody waits for are dropped.
Ignored(p) ==
    \/ sock[p.id].state = "free"
    \/ sock[p.id].state = "closed" /\ p.type # "RESET"
    \/ p.type = "RESPONSE" /\ "CONNECT" \notin sock[p.id].pend

\* handle_packets_received_r2a, one packet.
DriverReceive ==
    /\ Running /\ r2a # <<>>
    /\ r2a' = Tail(r2a)
    /\ \/ Ignored(Head(r2a)) /\ UNCHANGED <<sock, sendq, a2r, seen>>
       \/ ~Ignored(Head(r2a)) /\ DriverHandle(Head(r2a))
    /\ UNCHANGED <<up, session, next, started, piVars, wrote>>

\* task_start.
DeviceStart ==
    /\ ~up /\ session < MaxSessions
    /\ up' = TRUE /\ session' = session + 1 /\ started' = started + 1
    /\ UNCHANGED <<sock, sendq, next, ringVars, piVars, wrote, seen>>

\* A reset of the Amiga wipes the driver; the communication area and the Pi's
\* channels stay as they are.
AmigaReset ==
    /\ up /\ session < MaxSessions
    /\ up' = FALSE
    /\ sock' = [i \in Ids |-> Free] /\ sendq' = <<>> /\ next' = 1
    /\ wrote' = [i \in Ids |-> <<>>] /\ seen' = [i \in Ids |-> <<>>]
    /\ UNCHANGED <<session, started, ringVars, piVars>>

-----------------------------------------------------------------------------
\* The Pi.

Exists(i) == chan[i].stream # 0 \/ chan[i].pq # <<>>

\* remove_channel_if_not_associated_and_empty_pq: the flags of a channel that is
\* neither associated nor has packets to send are forgotten with it.
Tidy(c) == IF c.stream = 0 /\ c.pq = <<>> THEN NoChannel ELSE c

\* create_and_send_msg, of MSG_DATA or MSG_EOS.
Tell(stream, x) == streams' = [streams EXCEPT ![stream].got = Append(@, x)]

Enqueue_Always(i, c, type, x) ==
    /\ chan' = [chan EXCEPT ![i] = [c EXCEPT !.pq = Append(@, Packet(type, i, x))]]
    /\ send_queue' = Append(send_queue, i)

\* create_and_enqueue_packet on channel i, which is c so far.
Enqueue(i, c, type, x) ==
    /\ chan' = [chan EXCEPT ![i] = [c EXCEPT !.pq = Append(@, Packet(type, i, x))]]
    /\ send_queue' = IF c.pq = <<>> THEN Append(send_queue, i) ELSE send_queue

\* handle_pkt_connect: the channel is associated with the client that serves, or
\* that is started now, or the service is unknown.  An id that has a channel
\* ends the process.
PiConnect(i) ==
    /\ ~Exists(i)
    /\ \/ /\ client = (IF OnDemand THEN "gone" ELSE "serving") \/ client = "serving"
          /\ client' = "serving"
          /\ streams' = Append(streams, [id |-> i, state |-> "new", sent |-> <<>>,
                                         got |-> <<>>, reset |-> FALSE])
          /\ chan' = [chan EXCEPT ![i].stream = Len(streams) + 1]
          /\ UNCHANGED send_queue
       \/ /\ client \in {"gone", "idle"} /\ ~OnDemand
          /\ Enqueue(i, NoChannel, "RESPONSE", CONNECT_UNKNOWN_SERVICE)
          /\ UNCHANGED <<client, streams>>

\* handle_pkt_data and handle_pkt_eos, while the Amiga's side is open.
PiData(i, x) ==
    /\ chan[i].stream # 0 /\ ~chan[i].eosAmi
    /\ Tell(chan[i].stream, x)
    /\ UNCHANGED <<chan, send_queue, client>>

PiEos_StaysAssociated(i) ==
    /\ chan[i].stream # 0 /\ ~chan[i].eosAmi
    /\ Tell(chan[i].stream, EOS)
    /\ chan' = [chan EXCEPT ![i].eosAmi = TRUE]
    /\ UNCHANGED <<send_queue, client>>

PiEos(i) ==
    /\ chan[i].stream # 0 /\ ~chan[i].eosAmi
    /\ Tell(chan[i].stream, EOS)
    /\ LET c == chan[i]
       IN chan' = [chan EXCEPT ![i] = Tidy([c EXCEPT !.eosAmi = TRUE,
                                                     !.stream = IF c.eosClient THEN 0 ELSE c.stream])]
    /\ UNCHANGED <<send_queue, client>>

\* handle_pkt_reset.
PiReset(i) ==
    /\ Exists(i)
    /\ streams' = [t \in DOMAIN streams |->
                      [streams[t] EXCEPT !.reset = @ \/ t = chan[i].stream]]
    /\ chan' = [chan EXCEPT ![i] = NoChannel]
    /\ send_queue' = RemoveFirst(send_queue, i)
    /\ UNCHANGED client

\* A STARTED has been handled, of whatever session.
a314_device_started == started < session

PiReceive_StopsAtUnknown ==
    /\ a2r # <<>> /\ a314_device_started
    /\ a2r' = Tail(a2r)
    /\ LET p == Head(a2r)
       IN \/ p.type = "CONNECT" /\ PiConnect(p.id)
          \/ p.type = "DATA" /\ PiData(p.id, p.x)
          \/ p.type = "EOS" /\ PiEos(p.id)
          \/ p.type = "RESET" /\ PiReset(p.id)
    /\ UNCHANGED <<driverVars, started, r2a, wrote, seen>>

\* handle_received_pkt, one packet of receive_from_a2r.  Each event has a byte of
\* its own in the pipe, so that packets of a new session may be received before
\* its STARTED is handled.
PiReceive ==
    /\ a2r # <<>> /\ a314_device_started
    /\ a2r' = Tail(a2r)
    /\ LET p == Head(a2r)
           c == chan[p.id]
       IN \/ p.type = "CONNECT" /\ PiConnect(p.id)
          \/ p.type = "DATA" /\ PiData(p.id, p.x)
          \/ p.type = "EOS" /\ PiEos(p.id)
          \/ p.type = "RESET" /\ PiReset(p.id)
          \/ /\ p.type \in {"DATA", "EOS"} /\ (c.stream = 0 \/ c.eosAmi)
             /\ UNCHANGED piVars
          \/ /\ p.type = "RESET" /\ ~Exists(p.id)
             /\ UNCHANGED piVars
    /\ UNCHANGED <<driverVars, started, r2a, wrote, seen>>

PiStarted_KeepsQueue ==
    /\ started > 0
    /\ started' = started - 1
    /\ streams' = [t \in DOMAIN streams |->
                      [streams[t] EXCEPT !.reset = @ \/ \E i \in Ids : chan[i].stream = t]]
    /\ chan' = [i \in Ids |-> NoChannel]
    /\ UNCHANGED <<driverVars, ringVars, client, send_queue, wrote, seen>>

\* handle_a314_irq on STARTED: close_all_logical_channels.
PiStarted ==
    /\ started > 0
    /\ started' = started - 1
    /\ streams' = [t \in DOMAIN streams |->
                      [streams[t] EXCEPT !.reset = @ \/ \E i \in Ids : chan[i].stream = t]]
    /\ chan' = [i \in Ids |-> NoChannel]
    /\ send_queue' = <<>>
    /\ UNCHANGED <<driverVars, ringVars, client, wrote, seen>>

RoomInR2A == Len(r2a) < R2ACap

\* The queue after channel i had its turn, with packets `left`: it goes to the back.
AfterTurn_StaysInFront(i, left) == IF left = <<>> THEN Tail(send_queue) ELSE send_queue

AfterTurn(i, left) ==
    IF left = <<>> THEN Tail(send_queue) ELSE Append(Tail(send_queue), i)

\* One turn of flush_send_queue.
PiFlush ==
    /\ send_queue # <<>> /\ RoomInR2A
    /\ LET i == Head(send_queue)
           left == Tail(chan[i].pq)
       IN /\ r2a' = Append(r2a, Head(chan[i].pq))
          /\ chan' = [chan EXCEPT ![i] = Tidy([@ EXCEPT !.pq = left])]
          /\ send_queue' = AfterTurn(i, left)
    /\ UNCHANGED <<driverVars, started, a2r, client, streams, wrote, seen>>

\* Messages from the client on an associated stream; on any other they are
\* ignored.  The client answers a CONNECT once, then sends data, and nothing
\* after its EOS but a RESET.

\* handle_msg_connect_response.
ClientResponse(i) ==
    LET t == chan[i].stream
    IN /\ t # 0 /\ streams[t].state = "new"
       /\ \/ /\ Enqueue(i, chan[i], "RESPONSE", CONNECT_OK)
             /\ streams' = [streams EXCEPT ![t].state = "ok"]
          \/ /\ Enqueue(i, [chan[i] EXCEPT !.stream = 0], "RESPONSE", CONNECT_UNKNOWN_SERVICE)
             /\ streams' = [streams EXCEPT ![t].state = "done"]
       /\ UNCHANGED <<driverVars, started, ringVars, client, wrote, seen>>

\* handle_msg_data.
ClientData(i) ==
    LET t == chan[i].stream
    IN /\ t # 0 /\ streams[t].state = "ok" /\ Len(streams[t].sent) < DataOf(i)
       /\ Enqueue(i, chan[i], "DATA", Len(streams[t].sent) + 1)
       /\ streams' = [streams EXCEPT ![t].sent = Append(@, Len(@) + 1)]
       /\ UNCHANGED <<driverVars, started, ringVars, client, wrote, seen>>

\* handle_msg_eos.
ClientEos(i) ==
    LET c == chan[i]
        t == c.stream
    IN /\ t # 0 /\ streams[t].state = "ok"
       /\ Enqueue(i, [c EXCEPT !.eosClient = TRUE,
                               !.stream = IF c.eosAmi THEN 0 ELSE t], "EOS", 0)
       /\ streams' = [streams EXCEPT ![t].state = "eos", ![t].sent = Append(@, EOS)]
       /\ UNCHANGED <<driverVars, started, ringVars, client, wrote, seen>>

GivenUp_NoReset(i) == [chan[i] EXCEPT !.stream = 0]

\* A channel that its client gives up: a RESET replaces what it had to send.
GivenUp(i) == [chan[i] EXCEPT !.stream = 0, !.pq = <<Packet("RESET", i, 0)>>]

\* handle_msg_reset.
ClientReset(i) ==
    LET t == chan[i].stream
    IN /\ t # 0
       /\ chan' = [chan EXCEPT ![i] = GivenUp(i)]
       /\ send_queue' = Append(RemoveFirst(send_queue, i), i)
       /\ streams' = [streams EXCEPT ![t].state = "done"]
       /\ UNCHANGED <<driverVars, started, ringVars, client, wrote, seen>>

\* The sequences of all members of S with growing keys.
InOrder(S, key) ==
    {f \in [1 .. Cardinality(S) -> S] :
        \A a, b \in 1 .. Cardinality(S) : a < b => key[f[a]] < key[f[b]]}

\* The positions of q that hold none of S, in their order.
KeptPositions(q, S) == InOrder({k \in DOMAIN q : q[k] \notin S}, [k \in DOMAIN q |-> k])

\* The queue of what is kept, with the others behind it.
Requeued(q, kept, order) == [k \in DOMAIN kept |-> q[kept[k]]] \o order

\* close_and_remove_connection: the client has closed its socket or died.  Its
\* channels go to the end of the send queue in the order they were associated in,
\* which is the order of their streams; the others stay.
ClientGone ==
    /\ client # "gone"
    /\ client' = "gone"
    /\ LET mine == {i \in Ids : chan[i].stream # 0}
       IN /\ chan' = [i \in Ids |-> IF i \in mine THEN GivenUp(i) ELSE chan[i]]
          /\ \E kept \in KeptPositions(send_queue, mine),
                order \in InOrder(mine, [i \in Ids |-> chan[i].stream]) :
                send_queue' = Requeued(send_queue, kept, order)
    /\ UNCHANGED <<driverVars, started, ringVars, streams, wrote, seen>>

\* handle_server_socket_ready, handle_msg_register_req, handle_msg_deregister_req.
ClientConnect ==
    /\ ~OnDemand /\ client = "gone" /\ client' = "idle"
    /\ UNCHANGED <<driverVars, started, ringVars, chan, send_queue, streams, wrote, seen>>

ClientRegister ==
    /\ ~OnDemand
    /\ \/ client = "idle" /\ client' = "serving"
       \/ client = "serving" /\ client' = "idle"
    /\ UNCHANGED <<driverVars, started, ringVars, chan, send_queue, streams, wrote, seen>>

-----------------------------------------------------------------------------
App == \/ \E n \in Sockets : AppConnect(n)
       \/ \E i \in Ids : AppRead(i) \/ AppWrite(i) \/ AppEos(i) \/ AppReset(i)

Client == \/ \E i \in Ids : \/ ClientResponse(i) \/ ClientData(i)
                            \/ ClientEos(i) \/ ClientReset(i)
          \/ ClientGone \/ ClientConnect \/ ClientRegister

Next == \/ App \/ DriverSend \/ DriverReceive \/ DeviceStart \/ AmigaReset
        \/ PiReceive \/ PiStarted \/ PiFlush \/ Client

Spec == Init /\ [][Next]_vars

-----------------------------------------------------------------------------
Packets(types, ids, xs) == [type : types, id : ids, x : xs]

A2RPackets ==
    Packets({"CONNECT", "EOS", "RESET"}, Ids, {0}) \cup Packets({"DATA"}, Ids, 1 .. MaxData)

R2APackets(ids) ==
    Packets({"EOS", "RESET"}, ids, {0}) \cup Packets({"DATA"}, ids, 1 .. MaxData)
        \cup Packets({"RESPONSE"}, ids, {CONNECT_OK, CONNECT_UNKNOWN_SERVICE})

FLAGS == {"RCVD_EOS_FROM_APP", "RCVD_EOS_FROM_RPI", "SENT_EOS_TO_APP", "SENT_EOS_TO_RPI"}

Socket == [state : {"free", "open", "closed"}, socket : Sockets \cup {0},
           pend : SUBSET {"CONNECT", "READ", "WRITE", "EOS"}, flags : SUBSET FLAGS,
           rq : Seq(1 .. MaxData)]

Channel(i) == [stream : 0 .. Len(streams), eosAmi : BOOLEAN, eosClient : BOOLEAN,
               pq : Seq(R2APackets({i}))]

Stream == [id : Ids, state : {"new", "ok", "eos", "done"},
           sent : Seq(0 .. MaxData), got : Seq(0 .. MaxData), reset : BOOLEAN]

\* Every variable has its type: no packet carries what its type does not allow,
\* no ring holds more than it can, no channel names a stream that never was.
TypeOK ==
    /\ up \in BOOLEAN /\ session \in 0 .. MaxSessions /\ started \in 0 .. session
    /\ sock \in [Ids -> Socket] /\ sendq \in Seq(Ids) /\ next \in 1 .. MaxConns + 1
    /\ a2r \in Seq(A2RPackets) /\ Len(a2r) <= A2RCap
    /\ r2a \in Seq(R2APackets(Ids)) /\ Len(r2a) <= R2ACap
    /\ DOMAIN chan = Ids /\ \A i \in Ids : chan[i] \in Channel(i)
    /\ send_queue \in Seq(Ids) /\ streams \in Seq(Stream)
    /\ client \in {"gone", "idle", "serving"}
    /\ wrote \in [Ids -> Seq(0 .. MaxData)] /\ seen \in [Ids -> Seq(0 .. MaxData)]

\* The send queue of the driver: no socket is in it twice (the list would lose
\* its tail), every socket in it has something to send ("SERIOUS ERROR: Was in
\* send queue but has nothing to send"), and whoever waits to send is in it.
SendQueueSound ==
    /\ NoDuplicates(sendq)
    /\ \A i \in ToSet(sendq) : ~HasNothingToSend(sock[i])
    /\ \A i \in Ids :
          (sock[i].state = "closed" \/ sock[i].pend \cap {"WRITE", "EOS"} # {}) => i \in ToSet(sendq)

\* The send queue of the Pi holds exactly the channels with packets, once each.
PiQueueSound ==
    /\ NoDuplicates(send_queue)
    /\ \A i \in Ids : i \in ToSet(send_queue) <=> chan[i].pq # <<>>

\* Packets on their way to the socket of an id.
ToDriver(i) == {p \in ToSet(r2a) : p.id = i} \cup ToSet(chan[i].pq)

\* A CONNECT_RESPONSE finds its CONNECT pending ("SERIOUS ERROR: received a
\* CONNECT RESPONSE even though no connect was pending").
ResponseExpected ==
    (r2a # <<>> /\ Head(r2a).type = "RESPONSE" /\ Open(Head(r2a).id))
        => "CONNECT" \in sock[Head(r2a).id].pend

\* A CONNECT never meets a channel that is still allocated (a314d would exit).
ConnectFindsNoChannel ==
    (a2r # <<>> /\ a314_device_started /\ Head(a2r).type = "CONNECT") => ~Exists(Head(a2r).id)

\* No channel is left behind: when the driver has deleted the socket of an
\* associated channel, the packet that will end the association is in A2R ...
PiLearnsOfClose ==
    \A i \in Ids :
        (chan[i].stream # 0 /\ sock[i].state = "free") =>
            \E p \in ToSet(a2r) : /\ p.id = i
                                  /\ p.type = "RESET" \/ (p.type = "EOS" /\ chan[i].eosClient)

\* ... and when the Pi has given up the channel of an open socket, the packet
\* that tells the driver is on its way, unless the driver has had the client's
\* EOS and only its application has not asked for it yet.
DriverLearnsOfClose ==
    \A i \in Ids :
        (/\ Open(i) /\ chan[i].stream = 0
         /\ i \notin ToSet(sendq) \/ "CONNECT" \notin sock[i].pend
         /\ \A p \in ToSet(a2r) : ~(p.id = i /\ p.type = "CONNECT"))
        => \/ \E p \in ToDriver(i) :
                 p.type \in {"EOS", "RESET"} \/ p = Packet("RESPONSE", i, CONNECT_UNKNOWN_SERVICE)
           \/ {"RCVD_EOS_FROM_RPI", "SENT_EOS_TO_RPI"} \subseteq sock[i].flags

\* Both directions of every connection are streams: what the client hears is
\* what the application wrote ...
Heard == [i \in Ids |-> IF \E t \in DOMAIN streams : streams[t].id = i
                       THEN streams[CHOOSE t \in DOMAIN streams : streams[t].id = i].got
                       ELSE <<>>]
ToClient == INSTANCE A314Stream WITH in <- wrote, out <- Heard
StreamToClient == ToClient!Spec

\* ... and what the application reads is what the client sent.
Sent == [i \in Ids |-> IF \E t \in DOMAIN streams : streams[t].id = i
                      THEN streams[CHOOSE t \in DOMAIN streams : streams[t].id = i].sent
                      ELSE <<>>]
ToApp == INSTANCE A314Stream WITH in <- Sent, out <- seen
StreamToApp == ToApp!Spec

\* Who is before i in a queue.
Ahead(q, i) == {q[k] : k \in {k \in DOMAIN q : \E l \in DOMAIN q : k < l /\ q[l] = i}}

\* Nobody gets before i in queue q, and a packet that is put into ring r takes
\* its sender from before i to behind it.
KeepsItsPlace(i, q, r) ==
    /\ Ahead(q', i) \subseteq Ahead(q, i)
    /\ Len(r') > Len(r) => Last(r').id \in Ahead(q, i) \ Ahead(q', i)

\* A packet of a channel waits for one packet of each other channel at most,
\* however many they have and whatever becomes of them (flush_send_queue and
\* whatever else changes the Pi's send queue); a channel that is given up goes to
\* the end with its RESET.
ChannelsTakeTurns ==
    [][\A i \in Ids :
          (chan[i].pq # <<>> /\ IsPrefix(chan[i].pq, chan'[i].pq))
              => KeepsItsPlace(i, send_queue, r2a)]_vars

\* The same of the sockets that wait to send, unless they are closed: an
\* application that writes and writes does not keep the others' requests waiting
\* (no request is sent at once while a socket waits).
SocketsTakeTurns ==
    [][\A i \in ToSet(sendq) \cap ToSet(sendq') :
          sock'[i].state = sock[i].state => KeepsItsPlace(i, sendq, a2r)]_vars

-----------------------------------------------------------------------------
\* Packets are noticed and room is found eventually: what A314Link shows of
\* the events.
Fairness == /\ WF_vars(DriverSend) /\ WF_vars(DriverReceive)
            /\ WF_vars(PiReceive) /\ WF_vars(PiStarted) /\ WF_vars(PiFlush)

FairSpec == Spec /\ Fairness

\* Every socket that waits to send gets its turn: a write or an EOS the
\* application waits for is answered, and a socket number is free again after
\* its RESET.
SocketsGetTheirTurn == \A i \in Ids : (i \in ToSet(sendq)) ~> (i \notin ToSet(sendq))

\* A channel whose socket the driver has deleted goes away.
ChannelsEnd == \A i \in Ids : (chan[i].stream # 0 /\ sock[i].state = "free") ~> ~Exists(i)
=============================================================================
