-------------------------- MODULE A314Session_proofs --------------------------
(***************************************************************************)
(* What A314Channels keeps in the first session of the driver, for any     *)
(* number of connections and sockets, any ring sizes and any amount of     *)
(* data: where the CONNECT of a connection can be, and what each side      *)
(* knows of the end of the other.  A reset of the Amiga ends it, as it     *)
(* leaves packets of the old session in the rings (ConnectFindsNoChannel   *)
(* fails then, which TLC shows).                                           *)
(***************************************************************************)
EXTENDS A314Channels_proofs

-----------------------------------------------------------------------------
\* The first session.  Until the Amiga is reset, what the rings hold of a
\* connection, its socket and its channel fit together.
FirstSession == session = 0 \/ (session = 1 /\ up)

\* What a packet says, and what the packets of a connection in a queue say.
Kind(p) == IF p.type = "RESPONSE" /\ p.x # CONNECT_OK THEN "UNKNOWN" ELSE p.type

Kinds(q, i) == {Kind(p) : p \in {m \in ToSet(q) : m.id = i}}

A2RKinds(i) == Kinds(a2r, i)
R2AKinds(i) == Kinds(r2a, i) \cup Kinds(chan[i].pq, i)

\* Whether a socket waits for its turn, and where the client is with a connection.
Turn(i) == IF i \in ToSet(sendq) THEN "waits" ELSE "none"
StreamState(i) == IF chan[i].stream = 0 THEN "none" ELSE streams[chan[i].stream].state

\* In what follows s is a socket, w its turn, A and R what its packets in A2R and
\* those on their way to it say, c its channel and st where the client is.

\* A socket: one that is deleted or only waits to send its RESET keeps nothing; the
\* flags of the EOS that the application sent, and of the one it read, come in order.
SockInv(s) ==
    /\ s.state = "free" => s = Free
    /\ s.state = "closed" => s.pend = {} /\ s.flags = {}
    /\ "CONNECT" \in s.pend => "RCVD_EOS_FROM_APP" \notin s.flags /\ "SENT_EOS_TO_RPI" \notin s.flags
    /\ "EOS" \in s.pend => "RCVD_EOS_FROM_APP" \in s.flags /\ "SENT_EOS_TO_RPI" \notin s.flags
    /\ "SENT_EOS_TO_RPI" \in s.flags => "RCVD_EOS_FROM_APP" \in s.flags
    /\ "SENT_EOS_TO_APP" \in s.flags => "RCVD_EOS_FROM_RPI" \in s.flags

\* SendQueueSound, for one socket.
WaitInv(s, w) ==
    /\ w = "waits" => ~HasNothingToSend(s)
    /\ s.state = "closed" \/ "WRITE" \in s.pend \/ "EOS" \in s.pend => w = "waits"

\* Its CONNECT has left the queue, and waits for an answer.
Asking(s, w) == s.state = "open" => "CONNECT" \in s.pend /\ w = "none"

\* Setting up: the CONNECT is in one place at a time, the send queue, A2R, the
\* client or, answered, R2A; and before it is answered nothing else happens.
ConnectInv(s, w, A, R, c, st) ==
    /\ "CONNECT" \in s.pend /\ w = "waits" => A = {} /\ R = {} /\ c = NoChannel /\ s.flags = {}
    /\ "CONNECT" \in A => /\ R = {} /\ c = NoChannel /\ Asking(s, w) /\ s.flags = {}
                          /\ s.state = "free" => "RESET" \in A
    /\ c.stream = 0 => st = "none"
    /\ st = "new" => R = {} /\ ~c.eosClient /\ Asking(s, w)
    /\ st = "ok" => ~c.eosClient
    /\ "RESPONSE" \in R \/ "UNKNOWN" \in R => Asking(s, w)

\* The application will know, or knows, that the client has ended its side.
EosForApp(s, R) == "EOS" \in R \/ "RCVD_EOS_FROM_RPI" \in s.flags
EosToRpi(s) == "SENT_EOS_TO_RPI" \in s.flags

\* Closing: which side has sent its EOS or RESET, and what is still on its way.
CloseInv(s, w, A, R, c) ==
    /\ "RESET" \in R \/ "UNKNOWN" \in R => c.stream = 0
    /\ c.eosAmi /\ c.eosClient => c.stream = 0
    /\ EosForApp(s, R) => c.stream = 0 \/ c.eosClient
    /\ "RESET" \in A => s.state = "free"
    /\ "EOS" \in A /\ c.stream # 0 => ~c.eosAmi
    /\ s.state = "open" /\ ("EOS" \in A \/ c.eosAmi) => EosToRpi(s)
    /\ s.state = "open" /\ EosToRpi(s) /\ c.stream # 0 => "EOS" \in A \/ c.eosAmi
    /\ s.state = "open" /\ c.stream # 0 /\ c.eosClient => EosForApp(s, R)
    /\ s.state = "open" /\ c.stream = 0 /\ EosForApp(s, R) /\ "RESET" \notin R => EosToRpi(s)
    /\ s.state = "free" /\ c.stream # 0 => "RESET" \in A \/ ("EOS" \in A /\ c.eosClient)
    /\ /\ s.state = "open" /\ c.stream = 0
       /\ ~("CONNECT" \in s.pend /\ w = "waits") /\ "CONNECT" \notin A
       => \/ "EOS" \in R \/ "RESET" \in R \/ "UNKNOWN" \in R
          \/ "RCVD_EOS_FROM_RPI" \in s.flags /\ EosToRpi(s)

Fits(s, w, A, R, c, st) ==
    SockInv(s) /\ WaitInv(s, w) /\ ConnectInv(s, w, A, R, c, st) /\ CloseInv(s, w, A, R, c)

\* An id that has not been given out has nothing, and a stream belongs to one channel.
Unused(i) == i >= next => sock[i] = Free /\ chan[i] = NoChannel /\ A2RKinds(i) = {} /\ R2AKinds(i) = {}
OwnStream(i) == chan[i].stream # 0 => streams[chan[i].stream].id = i

\* No packet that says one of L comes after one that says one of K.
Apart(q, i, K, L) ==
    \A j, k \in DOMAIN q :
        j < k /\ q[j].id = i /\ q[k].id = i /\ Kind(q[j]) \in K => Kind(q[k]) \notin L

AllKinds == {"CONNECT", "DATA", "EOS", "RESET", "RESPONSE", "UNKNOWN"}
Answers == {"RESPONSE", "UNKNOWN"}

\* The packets of a connection: its CONNECT is the first, and it is answered once,
\* as each side sends one EOS.
A2ROrder(i) == Apart(a2r, i, AllKinds, {"CONNECT"}) /\ Apart(a2r, i, {"EOS"}, {"EOS"})
R2AOrder(i) ==
    /\ Apart(r2a, i, Answers, Answers) /\ Apart(chan[i].pq, i, Answers, Answers)
    /\ Kinds(chan[i].pq, i) \cap Answers # {} => Kinds(r2a, i) \cap Answers = {}

Conn(i) ==
    /\ Fits(sock[i], Turn(i), A2RKinds(i), R2AKinds(i), chan[i], StreamState(i))
    /\ Unused(i) /\ OwnStream(i) /\ A2ROrder(i) /\ R2AOrder(i)

\* Before the device is opened, and until the Pi knows that it was, nothing is there.
StartInv ==
    /\ session = 0 => ~up /\ a2r = <<>>
    /\ started = session => \A i \in Ids : chan[i] = NoChannel

FirstInv == FirstSession => StartInv /\ NoDuplicates(sendq) /\ \A i \in Ids : Conn(i)

-----------------------------------------------------------------------------
\* What happens to a connection, whoever does it, in terms of s, w, A, R, c and st.

\* handle_app_connect: the socket is new, and its CONNECT is sent or waits.
LEMMA FitsNew ==
    ASSUME NEW w, NEW A, NEW c, NEW st, NEW n,
           Fits(Free, w, A, {}, c, st), c = NoChannel, A = {}
    PROVE  LET s == [Free EXCEPT !.state = "open", !.socket = n, !.pend = {"CONNECT"}]
           IN Fits(s, "none", {"CONNECT"}, {}, c, st) /\ Fits(s, "waits", {}, {}, c, st)
  BY DEF Fits, SockInv, WaitInv, HasNothingToSend, ConnectInv, Asking, CloseInv, EosForApp,
         EosToRpi, Free, NoChannel

\* close_socket on an open socket, with a RESET that is sent or waits.
LEMMA FitsClosed ==
    ASSUME NEW s, NEW w, NEW A, NEW R, NEW c, NEW st, NEW n,
           Fits(s, w, A, R, c, st), s.state = "open"
    PROVE  /\ Fits(Free, "none", A \cup {"RESET"}, R, c, st)
           /\ Fits([Free EXCEPT !.state = "closed", !.socket = n], "waits", A, R, c, st)
  BY DEF Fits, SockInv, WaitInv, HasNothingToSend, ConnectInv, Asking, CloseInv, EosForApp,
         EosToRpi, Free, NoChannel

\* close_socket without a RESET: the other side has ended the connection, or both
\* have sent their EOS.
LEMMA FitsFreed ==
    ASSUME NEW s, NEW w, NEW A, NEW R, NEW c, NEW st, Fits(s, w, A, R, c, st),
           "CONNECT" \notin A, c.stream = 0 \/ ("EOS" \in A /\ c.eosClient)
    PROVE  Fits(Free, "none", A, R, c, st)
  BY DEF Fits, SockInv, WaitInv, HasNothingToSend, ConnectInv, Asking, CloseInv, EosForApp,
         EosToRpi, Free, NoChannel

\* The application sends data, or wants to.
LEMMA FitsData ==
    ASSUME NEW s, NEW w, NEW A, NEW R, NEW c, NEW st, NEW t, Fits(s, w, A, R, c, st),
           s.state = "open", "CONNECT" \notin s.pend, "EOS" \notin s.pend,
           t.state = "open", t.flags = s.flags
    PROVE  /\ t.pend = s.pend \cup {"WRITE"} => Fits(t, "waits", A, R, c, st)
           /\ t.pend = s.pend \ {"WRITE"} => Fits(t, "none", A \cup {"DATA"}, R, c, st)
  BY DEF Fits, SockInv, WaitInv, HasNothingToSend, ConnectInv, Asking, CloseInv, EosForApp,
         EosToRpi, Free

\* The application's EOS is sent, now or when it is its turn, ...
LEMMA FitsEosSent ==
    ASSUME NEW s, NEW w, NEW A, NEW R, NEW c, NEW st, NEW t, Fits(s, w, A, R, c, st),
           s.state = "open", "CONNECT" \notin s.pend, "WRITE" \notin s.pend,
           "SENT_EOS_TO_RPI" \notin s.flags,
           IF "SENT_EOS_TO_APP" \in s.flags
           THEN t = Free
           ELSE /\ t.state = "open" /\ t.pend = s.pend \ {"EOS"}
                /\ t.flags = s.flags \cup {"RCVD_EOS_FROM_APP", "SENT_EOS_TO_RPI"}
    PROVE  Fits(t, "none", A \cup {"EOS"}, R, c, st) /\ "EOS" \notin A
<1>1. CASE "SENT_EOS_TO_APP" \in s.flags
  BY <1>1 DEF Fits, SockInv, WaitInv, HasNothingToSend, ConnectInv, Asking, CloseInv, EosForApp,
         EosToRpi, Free
<1>2. CASE "SENT_EOS_TO_APP" \notin s.flags
  BY <1>2 DEF Fits, SockInv, WaitInv, HasNothingToSend, ConnectInv, Asking, CloseInv, EosForApp,
         EosToRpi, Free
<1> QED  BY <1>1, <1>2

\* ... or waits for it.
LEMMA FitsEosWaits ==
    ASSUME NEW s, NEW w, NEW A, NEW R, NEW c, NEW st, NEW t, Fits(s, w, A, R, c, st),
           s.state = "open", "CONNECT" \notin s.pend, "RCVD_EOS_FROM_APP" \notin s.flags,
           t.state = "open", t.pend = s.pend \cup {"EOS"},
           t.flags = s.flags \cup {"RCVD_EOS_FROM_APP"}
    PROVE  Fits(t, "waits", A, R, c, st)
  BY DEF Fits, SockInv, WaitInv, HasNothingToSend, ConnectInv, Asking, CloseInv, EosForApp,
         EosToRpi, Free

\* The CONNECT, and the RESET, that waited are sent.
LEMMA FitsSent ==
    ASSUME NEW s, NEW A, NEW R, NEW c, NEW st, Fits(s, "waits", A, R, c, st)
    PROVE  /\ "CONNECT" \in s.pend /\ "WRITE" \notin s.pend /\ "EOS" \notin s.pend =>
                  A = {} /\ Fits(s, "none", A \cup {"CONNECT"}, R, c, st)
           /\ s.state = "closed" => Fits(Free, "none", A \cup {"RESET"}, R, c, st)
  BY DEF Fits, SockInv, WaitInv, HasNothingToSend, ConnectInv, Asking, CloseInv, EosForApp,
         EosToRpi, Free, NoChannel

\* The application asks for something to read, or gets it.
LEMMA FitsRead ==
    ASSUME NEW s, NEW w, NEW A, NEW R, NEW c, NEW st, NEW t, Fits(s, w, A, R, c, st),
           s.state = "open", t.state = "open",
           t.pend = s.pend \/ t.pend = s.pend \cup {"READ"} \/ t.pend = s.pend \ {"READ"},
           \/ t.flags = s.flags
           \/ "RCVD_EOS_FROM_RPI" \in s.flags /\ t.flags = s.flags \cup {"SENT_EOS_TO_APP"}
    PROVE  Fits(t, w, A, R, c, st)
  BY DEF Fits, SockInv, WaitInv, HasNothingToSend, ConnectInv, Asking, CloseInv, EosForApp,
         EosToRpi, Free

\* The driver takes a packet from R2A: data, ...
LEMMA FitsDataRead ==
    ASSUME NEW s, NEW w, NEW A, NEW R, NEW Q, NEW c, NEW st, Fits(s, w, A, R, c, st),
           R = Q \cup {"DATA"}
    PROVE  Fits(s, w, A, Q, c, st)
  BY DEF Fits, SockInv, WaitInv, HasNothingToSend, ConnectInv, Asking, CloseInv, EosForApp,
         EosToRpi, Free

\* ... or anything else, for a socket that is closed or gone,
LEMMA FitsIgnored ==
    ASSUME NEW s, NEW w, NEW A, NEW R, NEW Q, NEW c, NEW st, NEW k, Fits(s, w, A, R, c, st),
           R = Q \cup {k}, s.state # "open"
    PROVE  Fits(s, w, A, Q, c, st)
  BY DEF Fits, SockInv, WaitInv, HasNothingToSend, ConnectInv, Asking, CloseInv, EosForApp,
         EosToRpi, Free

\* the answer to its CONNECT,
LEMMA FitsAnswered ==
    ASSUME NEW s, NEW w, NEW A, NEW R, NEW Q, NEW c, NEW st, NEW t, Fits(s, w, A, R, c, st),
           R = Q \cup {"RESPONSE"}, "RESPONSE" \notin Q, "UNKNOWN" \notin Q, s.state = "open"
    PROVE  /\ "CONNECT" \in s.pend
           /\ t.state = "open" /\ t.flags = s.flags /\ t.pend = s.pend \ {"CONNECT"} =>
                  Fits(t, w, A, Q, c, st)
  BY DEF Fits, SockInv, WaitInv, HasNothingToSend, ConnectInv, Asking, CloseInv, EosForApp,
         EosToRpi, Free

\* the end of the connection,
LEMMA FitsEnded ==
    ASSUME NEW s, NEW w, NEW A, NEW R, NEW Q, NEW c, NEW st, NEW k, Fits(s, w, A, R, c, st),
           k \in {"RESET", "UNKNOWN"}, R = Q \cup {k}
    PROVE  Fits(Free, "none", A, Q, c, st)
  BY DEF Fits, SockInv, WaitInv, HasNothingToSend, ConnectInv, Asking, CloseInv, EosForApp,
         EosToRpi, Free

\* and the client's EOS.
LEMMA FitsEosRead ==
    ASSUME NEW s, NEW w, NEW A, NEW R, NEW Q, NEW c, NEW st, NEW t, Fits(s, w, A, R, c, st),
           R = Q \cup {"EOS"}, s.state = "open", t.state = "open",
           t.pend = s.pend \/ t.pend = s.pend \ {"READ"},
           \/ t.flags = s.flags \cup {"RCVD_EOS_FROM_RPI"}
           \/ t.flags = s.flags \cup {"RCVD_EOS_FROM_RPI"} \cup {"SENT_EOS_TO_APP"}
    PROVE  Fits(t, w, A, Q, c, st)
  BY DEF Fits, SockInv, WaitInv, HasNothingToSend, ConnectInv, Asking, CloseInv, EosForApp,
         EosToRpi, Free

\* When the application has read the client's EOS and sent its own, the socket may go.
LEMMA FitsBothEos ==
    ASSUME NEW s, NEW w, NEW A, NEW R, NEW c, NEW st, Fits(s, w, A, R, c, st),
           s.state = "open", EosForApp(s, R), EosToRpi(s)
    PROVE  Fits(Free, "none", A, R, c, st)
  BY DEF Fits, SockInv, WaitInv, HasNothingToSend, ConnectInv, Asking, CloseInv, EosForApp,
         EosToRpi, Free

\* handle_pkt_connect: before the CONNECT is taken from A2R there is nothing else, ...
LEMMA FitsConnectFirst ==
    ASSUME NEW s, NEW w, NEW A, NEW R, NEW c, NEW st, Fits(s, w, A, R, c, st), "CONNECT" \in A
    PROVE  c = NoChannel /\ R = {}
  BY DEF Fits, ConnectInv

\* ... and it is handed to the client or refused.
LEMMA FitsConnect ==
    ASSUME NEW s, NEW w, NEW A, NEW B, NEW R, NEW c, NEW st, NEW d, Fits(s, w, A, R, c, st),
           A = B \cup {"CONNECT"}, "CONNECT" \notin B
    PROVE  /\ d.stream # 0 /\ ~d.eosAmi /\ ~d.eosClient => Fits(s, w, B, {}, d, "new")
           /\ d.stream = 0 /\ ~d.eosAmi /\ ~d.eosClient => Fits(s, w, B, {"UNKNOWN"}, d, "none")
  BY DEF Fits, SockInv, WaitInv, HasNothingToSend, ConnectInv, Asking, CloseInv, EosForApp,
         EosToRpi, Free, NoChannel

\* handle_pkt_data.
LEMMA FitsDataTaken ==
    ASSUME NEW s, NEW w, NEW A, NEW B, NEW R, NEW c, NEW st, Fits(s, w, A, R, c, st),
           A = B \cup {"DATA"}
    PROVE  Fits(s, w, B, R, c, st)
  BY DEF Fits, SockInv, WaitInv, HasNothingToSend, ConnectInv, Asking, CloseInv, EosForApp,
         EosToRpi, Free

\* handle_pkt_eos: the channel is still associated, ...
LEMMA FitsEosTaken ==
    ASSUME NEW s, NEW w, NEW A, NEW B, NEW R, NEW c, NEW st, NEW d, NEW dt,
           Fits(s, w, A, R, c, st),
           A = B \cup {"EOS"}, "EOS" \notin B, "CONNECT" \notin B, c.stream # 0,
           IF c.eosClient
           THEN d.stream = 0 /\ dt = "none"
           ELSE d.stream = c.stream /\ dt = st /\ d.eosAmi /\ ~d.eosClient
    PROVE  Fits(s, w, B, R, d, dt)
<1>1. CASE c.eosClient
  BY <1>1 DEF Fits, SockInv, WaitInv, HasNothingToSend, ConnectInv, Asking, CloseInv, EosForApp,
         EosToRpi, Free, NoChannel
<1>2. CASE ~c.eosClient
  BY <1>2 DEF Fits, SockInv, WaitInv, HasNothingToSend, ConnectInv, Asking, CloseInv, EosForApp,
         EosToRpi, Free, NoChannel
<1> QED  BY <1>1, <1>2

\* ... or is not any more.
LEMMA FitsEosDropped ==
    ASSUME NEW s, NEW w, NEW A, NEW B, NEW R, NEW c, NEW st, Fits(s, w, A, R, c, st),
           A = B \cup {"EOS"}, "CONNECT" \notin B, c.stream = 0 \/ c.eosAmi
    PROVE  Fits(s, w, B, R, c, st)
  BY DEF Fits, SockInv, WaitInv, HasNothingToSend, ConnectInv, Asking, CloseInv, EosForApp,
         EosToRpi, Free, NoChannel

\* handle_pkt_reset: the channel goes with all it had to send.
LEMMA FitsResetTaken ==
    ASSUME NEW s, NEW w, NEW A, NEW B, NEW R, NEW Q, NEW c, NEW st, Fits(s, w, A, R, c, st),
           A = B \cup {"RESET"}, "CONNECT" \notin B, Q \subseteq R
    PROVE  Fits(s, w, B, Q, NoChannel, "none")
  BY DEF Fits, SockInv, WaitInv, HasNothingToSend, ConnectInv, Asking, CloseInv, EosForApp,
         EosToRpi, Free, NoChannel

\* ... or there is no channel any more.
LEMMA FitsResetDropped ==
    ASSUME NEW s, NEW w, NEW A, NEW B, NEW R, NEW c, NEW st, Fits(s, w, A, R, c, st),
           A = B \cup {"RESET"}, "CONNECT" \notin B, c.stream = 0
    PROVE  Fits(s, w, B, R, c, st)
  BY DEF Fits, SockInv, WaitInv, HasNothingToSend, ConnectInv, Asking, CloseInv, EosForApp,
         EosToRpi, Free, NoChannel

\* flush_send_queue: the packets that are on their way stay the same, and a channel
\* that has sent all and is not associated forgets its flags.
LEMMA FitsFlushed ==
    ASSUME NEW s, NEW w, NEW A, NEW R, NEW c, NEW st, NEW d, Fits(s, w, A, R, c, st),
           R # {}, d.stream = c.stream,
           c.stream # 0 => d.eosAmi = c.eosAmi /\ d.eosClient = c.eosClient,
           c.stream = 0 => d = NoChannel \/ (d.eosAmi = c.eosAmi /\ d.eosClient = c.eosClient)
    PROVE  Fits(s, w, A, R, d, st)
<1>1. CASE c.stream # 0
  BY <1>1 DEF Fits, SockInv, WaitInv, HasNothingToSend, ConnectInv, Asking, CloseInv, EosForApp,
         EosToRpi, Free, NoChannel
<1>2. CASE c.stream = 0
  BY <1>2 DEF Fits, SockInv, WaitInv, HasNothingToSend, ConnectInv, Asking, CloseInv, EosForApp,
         EosToRpi, Free, NoChannel
<1> QED  BY <1>1, <1>2

\* handle_msg_connect_response.
LEMMA FitsResponse ==
    ASSUME NEW s, NEW w, NEW A, NEW R, NEW c, NEW d, Fits(s, w, A, R, c, "new"),
           c.stream # 0, d.eosAmi = c.eosAmi, d.eosClient = c.eosClient
    PROVE  /\ R = {}
           /\ d.stream = c.stream => Fits(s, w, A, R \cup {"RESPONSE"}, d, "ok")
           /\ d.stream = 0 => Fits(s, w, A, R \cup {"UNKNOWN"}, d, "none")
  BY DEF Fits, SockInv, WaitInv, HasNothingToSend, ConnectInv, Asking, CloseInv, EosForApp,
         EosToRpi, Free, NoChannel

\* Until then nothing has been said to the application.
LEMMA FitsNewSilent ==
    ASSUME NEW s, NEW w, NEW A, NEW R, NEW c, Fits(s, w, A, R, c, "new")
    PROVE  R = {}
  BY DEF Fits, ConnectInv

\* handle_msg_data.
LEMMA FitsClientData ==
    ASSUME NEW s, NEW w, NEW A, NEW R, NEW c, NEW d, Fits(s, w, A, R, c, "ok"),
           c.stream # 0, d.stream = c.stream, d.eosAmi = c.eosAmi, d.eosClient = c.eosClient
    PROVE  Fits(s, w, A, R \cup {"DATA"}, d, "ok")
  BY DEF Fits, SockInv, WaitInv, HasNothingToSend, ConnectInv, Asking, CloseInv, EosForApp,
         EosToRpi, Free, NoChannel

\* handle_msg_eos.
LEMMA FitsClientEos ==
    ASSUME NEW s, NEW w, NEW A, NEW R, NEW c, NEW d, NEW dt, Fits(s, w, A, R, c, "ok"),
           c.stream # 0, d.eosAmi = c.eosAmi, d.eosClient,
           IF c.eosAmi THEN d.stream = 0 /\ dt = "none" ELSE d.stream = c.stream /\ dt = "eos"
    PROVE  Fits(s, w, A, R \cup {"EOS"}, d, dt)
<1>1. CASE c.eosAmi
  BY <1>1 DEF Fits, SockInv, WaitInv, HasNothingToSend, ConnectInv, Asking, CloseInv, EosForApp,
         EosToRpi, Free, NoChannel
<1>2. CASE ~c.eosAmi
  BY <1>2 DEF Fits, SockInv, WaitInv, HasNothingToSend, ConnectInv, Asking, CloseInv, EosForApp,
         EosToRpi, Free, NoChannel
<1> QED  BY <1>1, <1>2

\* handle_msg_reset, and the client has gone: a RESET takes the place of what the
\* channel had to send.
LEMMA FitsGivenUp ==
    ASSUME NEW s, NEW w, NEW A, NEW R, NEW Q, NEW c, NEW st, NEW d, Fits(s, w, A, R, c, st),
           c.stream # 0, d.stream = 0, d.eosAmi = c.eosAmi,
           "RESET" \in Q, Q \subseteq R \cup {"RESET"}
    PROVE  Fits(s, w, A, Q, d, "none")
  BY DEF Fits, SockInv, WaitInv, HasNothingToSend, ConnectInv, Asking, CloseInv, EosForApp,
         EosToRpi, Free, NoChannel

-----------------------------------------------------------------------------
\* What the packets in a queue say.

\* A packet is appended, ...
LEMMA KindsAppend ==
    ASSUME NEW S, NEW q \in Seq(S), NEW e \in S, NEW i
    PROVE  Kinds(Append(q, e), i) = IF e.id = i THEN Kinds(q, i) \cup {Kind(e)} ELSE Kinds(q, i)
<1>1. ToSet(Append(q, e)) = ToSet(q) \cup {e}  BY AppendMembers
<1> QED  BY <1>1 DEF Kinds

\* ... and the first one is taken.
LEMMA KindsTail ==
    ASSUME NEW S, NEW q \in Seq(S), q # <<>>, NEW i
    PROVE  Kinds(q, i) = IF Head(q).id = i THEN Kinds(Tail(q), i) \cup {Kind(Head(q))}
                                           ELSE Kinds(Tail(q), i)
<1>1. ToSet(q) = {Head(q)} \cup ToSet(Tail(q))  BY TailMembers
<1> QED  BY <1>1 DEF Kinds

\* An empty queue says nothing.
LEMMA KindsEmpty == \A i : Kinds(<<>>, i) = {}
<1>1. ToSet(<<>>) = {}  BY DEF ToSet
<1> QED  BY <1>1 DEF Kinds

\* What is in a queue at some place is said.
LEMMA KindsAt ==
    ASSUME NEW q, NEW i, NEW j \in DOMAIN q, q[j].id = i
    PROVE  Kind(q[j]) \in Kinds(q, i)
<1>1. q[j] \in ToSet(q)  BY DEF ToSet
<1> QED  BY <1>1 DEF Kinds

\* Packets that are apart stay apart when one is appended that may come last, ...
LEMMA ApartAppend ==
    ASSUME NEW S, NEW q \in Seq(S), NEW e \in S, NEW i, NEW K, NEW L, Apart(q, i, K, L),
           e.id = i /\ Kind(e) \in L => Kinds(q, i) \cap K = {}
    PROVE  Apart(Append(q, e), i, K, L)
<1> DEFINE r == Append(q, e)
<1>1. /\ Len(q) \in Nat /\ DOMAIN q = 1 .. Len(q) /\ DOMAIN r = 1 .. Len(q) + 1
      /\ \A j \in 1 .. Len(q) : r[j] = q[j]
      /\ r[Len(q) + 1] = e
  OBVIOUS
<1> HIDE DEF r
<1>2. SUFFICES ASSUME NEW j \in DOMAIN r, NEW k \in DOMAIN r, j < k, r[j].id = i, r[k].id = i,
                      Kind(r[j]) \in K
               PROVE  Kind(r[k]) \notin L
  BY DEF Apart, r
<1>3. j \in 1 .. Len(q) /\ r[j] = q[j]  BY <1>1, <1>2
<1>4. CASE k \in 1 .. Len(q)  BY <1>1, <1>2, <1>3, <1>4 DEF Apart
<1>5. CASE k = Len(q) + 1
  <2>1. r[k] = e  BY <1>1, <1>5
  <2>2. Kind(q[j]) \in Kinds(q, i)  BY <1>1, <1>2, <1>3, KindsAt
  <2> QED  BY <1>2, <1>3, <2>1, <2>2
<1> QED  BY <1>1, <1>2, <1>4, <1>5

\* ... and when the first one is taken: none of those it is apart from is left.
LEMMA ApartTail ==
    ASSUME NEW S, NEW q \in Seq(S), q # <<>>, NEW i, NEW K, NEW L, Apart(q, i, K, L)
    PROVE  /\ Apart(Tail(q), i, K, L)
           /\ Head(q).id = i /\ Kind(Head(q)) \in K => Kinds(Tail(q), i) \cap L = {}
<1> DEFINE r == Tail(q)
<1>1. /\ Len(q) \in Nat /\ Len(q) >= 1 /\ DOMAIN q = 1 .. Len(q) /\ DOMAIN r = 1 .. Len(q) - 1
      /\ \A j \in 1 .. Len(q) - 1 : r[j] = q[j + 1]
      /\ Head(q) = q[1]
  OBVIOUS
<1> HIDE DEF r
<1>2. Apart(r, i, K, L)
  <2>1. SUFFICES ASSUME NEW j \in DOMAIN r, NEW k \in DOMAIN r, j < k, r[j].id = i, r[k].id = i,
                        Kind(r[j]) \in K
                 PROVE  Kind(r[k]) \notin L
    BY DEF Apart
  <2> DEFINE a == j + 1
             b == k + 1
  <2>2. a \in DOMAIN q /\ b \in DOMAIN q /\ a < b /\ r[j] = q[a] /\ r[k] = q[b]
    BY <1>1, <2>1
  <2> HIDE DEF a, b
  <2> QED  BY <2>1, <2>2 DEF Apart
<1>3. ASSUME Head(q).id = i, Kind(Head(q)) \in K, NEW x \in Kinds(r, i), x \in L
      PROVE  FALSE
  <2>1. PICK k \in DOMAIN r : r[k].id = i /\ Kind(r[k]) = x  BY <1>3 DEF Kinds, ToSet
  <2> DEFINE b == k + 1
  <2>2. 1 \in DOMAIN q /\ b \in DOMAIN q /\ 1 < b /\ r[k] = q[b] /\ Head(q) = q[1]
    BY <1>1, <2>1
  <2> HIDE DEF b
  <2> QED  BY <1>3, <2>1, <2>2 DEF Apart
<1> QED  BY <1>2, <1>3 DEF r

-----------------------------------------------------------------------------
\* The queues.

\* Whose turn it is: i's becomes w, the others keep theirs.
Turns(i, w) ==
    /\ NoDuplicates(sendq') /\ Turn(i)' = w
    /\ \A j \in Ids \ {i} : Turn(j)' = Turn(j)

\* The driver's send queue stays, loses i, or gets it at its end.
LEMMA TurnSteps ==
    ASSUME TypeOK, NoDuplicates(sendq), NEW i \in Ids
    PROVE  /\ sendq' = sendq => Turns(i, Turn(i))
           /\ sendq' = RemoveFirst(sendq, i) => Turns(i, "none")
           /\ sendq' = Append(RemoveFirst(sendq, i), i) => Turns(i, "waits")
           /\ Turn(i) = "none" /\ sendq' = Append(sendq, i) => Turns(i, "waits")
           /\ sendq # <<>> /\ i = Head(sendq) =>
                  Turn(i) = "waits" /\ (sendq' = Tail(sendq) => Turns(i, "none"))
<1>1. sendq \in Seq(Ids)  BY DEF TypeOK
<1>2. ASSUME NEW Q, NoDuplicates(sendq'), ToSet(sendq') = Q, Q \ {i} = ToSet(sendq) \ {i}
      PROVE  /\ i \in Q => Turns(i, "waits")
             /\ i \notin Q => Turns(i, "none")
  BY <1>2 DEF Turns, Turn
<1> DEFINE q == RemoveFirst(sendq, i)
<1>3. q \in Seq(Ids) /\ NoDuplicates(q) /\ ToSet(q) = ToSet(sendq) \ {i}  BY <1>1, QueueRemove
<1> HIDE DEF q
<1>4. sendq' = sendq => Turns(i, Turn(i))  BY DEF Turns, Turn
<1>5. sendq' = q => Turns(i, "none")  BY <1>2, <1>3
<1>6. sendq' = Append(q, i) => Turns(i, "waits")
  <2>1. /\ NoDuplicates(Append(q, i)) /\ ToSet(Append(q, i)) = ToSet(q) \cup {i}
    BY <1>3, QueueAppend
  <2> QED  BY <1>2, <1>3, <2>1
<1>7. Turn(i) = "none" /\ sendq' = Append(sendq, i) => Turns(i, "waits")
  <2>1. SUFFICES ASSUME Turn(i) = "none", sendq' = Append(sendq, i) PROVE Turns(i, "waits")
    OBVIOUS
  <2>2. i \notin ToSet(sendq)  BY <2>1 DEF Turn
  <2>3. NoDuplicates(Append(sendq, i)) /\ ToSet(Append(sendq, i)) = ToSet(sendq) \cup {i}
    BY <1>1, <2>2, QueueAppend
  <2> QED  BY <1>2, <2>1, <2>3
<1>8. ASSUME sendq # <<>>, i = Head(sendq)
      PROVE  Turn(i) = "waits" /\ (sendq' = Tail(sendq) => Turns(i, "none"))
  <2>1. /\ i \in ToSet(sendq) /\ NoDuplicates(Tail(sendq))
        /\ ToSet(Tail(sendq)) = ToSet(sendq) \ {i}
    BY <1>1, <1>8, QueueTail
  <2>2. Turn(i) = "waits"  BY <2>1 DEF Turn
  <2> QED  BY <1>2, <2>1, <2>2
<1> QED  BY <1>4, <1>5, <1>6, <1>7, <1>8 DEF q

\* What A2R says of i becomes B, and of the others what it said.
Says(i, B) ==
    /\ A2RKinds(i)' = B
    /\ \A j \in Ids \ {i} : A2RKinds(j)' = A2RKinds(j)
    /\ \A j \in Ids : A2ROrder(j)'

\* Nothing is sent, or a packet.
LEMMA SaysNothing ==
    ASSUME \A j \in Ids : A2ROrder(j), NEW i \in Ids, a2r' = a2r
    PROVE  Says(i, A2RKinds(i))
  BY DEF Says, A2ROrder, A2RKinds

\* A packet joins A2R: the kinds that the ring has of its channel grow by its
\* kind, what it has of other channels stays, and all orders stay if a CONNECT
\* is the first of its channel and an EOS the only one.
LEMMA SaysMore ==
    ASSUME TypeOK, \A j \in Ids : A2ROrder(j), NEW i \in Ids,
           NEW t \in {"CONNECT", "DATA", "EOS", "RESET"}, NEW x, Packet(t, i, x) \in A2RPackets,
           a2r' = Append(a2r, Packet(t, i, x)),
           t = "CONNECT" => A2RKinds(i) = {}, t = "EOS" => "EOS" \notin A2RKinds(i)
    PROVE  Says(i, A2RKinds(i) \cup {t})
<1> DEFINE p == Packet(t, i, x)
<1>1. p.id = i /\ Kind(p) = t  BY DEF Packet, Kind
<1>2. a2r \in Seq(A2RPackets) /\ p \in A2RPackets /\ a2r' = Append(a2r, p)  BY DEF TypeOK
<1> HIDE DEF p
<1>3. \A j : Kinds(a2r', j) = IF p.id = j THEN Kinds(a2r, j) \cup {Kind(p)} ELSE Kinds(a2r, j)
  BY <1>2, KindsAppend
<1>4. ASSUME NEW j \in Ids PROVE A2ROrder(j)'
  <2>1. Apart(a2r, j, AllKinds, {"CONNECT"}) /\ Apart(a2r, j, {"EOS"}, {"EOS"})
    BY DEF A2ROrder
  <2>2. p.id = j /\ Kind(p) \in {"CONNECT"} => Kinds(a2r, j) \cap AllKinds = {}
    BY <1>1 DEF A2RKinds
  <2>3. p.id = j /\ Kind(p) \in {"EOS"} => Kinds(a2r, j) \cap {"EOS"} = {}
    BY <1>1 DEF A2RKinds
  <2> QED  BY <1>2, <2>1, <2>2, <2>3, ApartAppend DEF A2ROrder
<1> QED  BY <1>1, <1>3, <1>4 DEF Says, A2RKinds

\* A packet is taken from A2R.
LEMMA SaysLess ==
    ASSUME TypeOK, \A j \in Ids : A2ROrder(j), a2r # <<>>, a2r' = Tail(a2r),
           NEW i \in Ids, NEW k, Head(a2r).id = i, Head(a2r).type = k
    PROVE  /\ Says(i, A2RKinds(i)') /\ A2RKinds(i) = A2RKinds(i)' \cup {k}
           /\ "CONNECT" \notin A2RKinds(i)' /\ (k = "EOS" => "EOS" \notin A2RKinds(i)')
<1> DEFINE p == Head(a2r)
<1>1. a2r \in Seq(A2RPackets) /\ p \in A2RPackets  BY HeadTailProperties DEF TypeOK
<1>2. Kind(p) = k /\ k \in AllKinds  BY <1>1, PacketOfChannel DEF Kind, AllKinds
<1> HIDE DEF p
<1>3. p.id = i /\ \A j : Kinds(a2r, j) = IF p.id = j THEN Kinds(a2r', j) \cup {Kind(p)}
                                                   ELSE Kinds(a2r', j)
  BY <1>1, KindsTail DEF p
<1>4. \A j \in Ids : /\ Apart(a2r, j, AllKinds, {"CONNECT"}) /\ Apart(a2r, j, {"EOS"}, {"EOS"})
  BY DEF A2ROrder
<1>5. ASSUME NEW j \in Ids, NEW K, NEW L, Apart(a2r, j, K, L)
      PROVE  /\ Apart(a2r', j, K, L)
             /\ p.id = j /\ Kind(p) \in K => Kinds(a2r', j) \cap L = {}
  BY <1>1, <1>5, ApartTail DEF p
<1>6. \A j \in Ids : A2ROrder(j)'  BY <1>4, <1>5 DEF A2ROrder
<1>7. Kinds(a2r', i) \cap {"CONNECT"} = {}  BY <1>2, <1>3, <1>4, <1>5
<1>8. k = "EOS" => Kinds(a2r', i) \cap {"EOS"} = {}  BY <1>2, <1>3, <1>4, <1>5
<1> QED  BY <1>2, <1>3, <1>6, <1>7, <1>8 DEF Says, A2RKinds

\* What is on its way to the socket of i becomes Q, of the others it is what it was.
Tells(i, Q) ==
    /\ R2AKinds(i)' = Q
    /\ \A j \in Ids \ {i} : R2AKinds(j)' = R2AKinds(j)
    /\ \A j \in Ids : R2AOrder(j)'

\* Nothing happens to it, ...
LEMMA TellsSame ==
    ASSUME \A j \in Ids : R2AOrder(j), NEW i \in Ids, r2a' = r2a,
           \A j \in Ids : chan'[j].pq = chan[j].pq
    PROVE  Tells(i, R2AKinds(i))
  BY DEF Tells, R2AOrder, R2AKinds

\* the driver takes a packet,
LEMMA TellsLess ==
    ASSUME TypeOK, \A j \in Ids : R2AOrder(j), r2a # <<>>, r2a' = Tail(r2a), chan' = chan,
           NEW i \in Ids, Head(r2a).id = i
    PROVE  /\ Tells(i, R2AKinds(i)') /\ R2AKinds(i) = R2AKinds(i)' \cup {Kind(Head(r2a))}
           /\ Kind(Head(r2a)) \in Answers => R2AKinds(i)' \cap Answers = {}
<1> DEFINE p == Head(r2a)
<1>1. r2a \in Seq(R2APackets(Ids)) /\ p \in R2APackets(Ids)  BY HeadTailProperties DEF TypeOK
<1> HIDE DEF p
<1>2. p.id = i /\ \A j : Kinds(r2a, j) = IF p.id = j THEN Kinds(r2a', j) \cup {Kind(p)}
                                                   ELSE Kinds(r2a', j)
  BY <1>1, KindsTail DEF p
<1>3. ASSUME NEW j \in Ids, NEW K, NEW L, Apart(r2a, j, K, L)
      PROVE  /\ Apart(r2a', j, K, L)
             /\ p.id = j /\ Kind(p) \in K => Kinds(r2a', j) \cap L = {}
  BY <1>1, <1>3, ApartTail DEF p
<1>4. ASSUME NEW j \in Ids PROVE R2AOrder(j)'
  BY <1>2, <1>3 DEF R2AOrder
<1>5. ASSUME Kind(p) \in Answers PROVE R2AKinds(i)' \cap Answers = {}
  <2>1. Kinds(r2a', i) \cap Answers = {}  BY <1>2, <1>3, <1>5 DEF R2AOrder
  <2>2. Kinds(chan[i].pq, i) \cap Answers = {}  BY <1>2, <1>5 DEF R2AOrder
  <2> QED  BY <2>1, <2>2 DEF R2AKinds
<1> QED  BY <1>2, <1>4, <1>5 DEF Tells, R2AKinds, p

\* a channel gets a packet to send,
LEMMA TellsMore ==
    ASSUME TypeOK, \A j \in Ids : R2AOrder(j), r2a' = r2a, NEW i \in Ids,
           \A j \in Ids \ {i} : chan'[j] = chan[j],
           NEW p \in R2APackets({i}), chan'[i].pq = Append(chan[i].pq, p),
           Kind(p) \in Answers => R2AKinds(i) = {}
    PROVE  Tells(i, R2AKinds(i) \cup {Kind(p)})
<1>1. chan[i].pq \in Seq(R2APackets({i})) /\ p.id = i
  BY PiState, ChannelTypes, PacketOfChannel
<1>2. Kinds(chan'[i].pq, i) = Kinds(chan[i].pq, i) \cup {Kind(p)}
  BY <1>1, KindsAppend
<1>3. Kind(p) \in Answers => Kinds(chan[i].pq, i) = {} /\ Kinds(r2a, i) = {}
  BY DEF R2AKinds
<1>4. Apart(chan[i].pq, i, Answers, Answers)  BY DEF R2AOrder
<1>5. Apart(chan'[i].pq, i, Answers, Answers)  BY <1>1, <1>3, <1>4, ApartAppend
<1>6. R2AOrder(i)'  BY <1>2, <1>3, <1>5 DEF R2AOrder
<1>7. \A j \in Ids \ {i} : R2AOrder(j)'  BY DEF R2AOrder
<1> QED  BY <1>2, <1>6, <1>7 DEF Tells, R2AKinds

\* what goes into R2A is said there,
LEMMA KindsAppended ==
    ASSUME r2a \in Seq(R2APackets(Ids)), NEW p \in R2APackets(Ids), r2a' = Append(r2a, p), NEW j
    PROVE  Kinds(r2a', j) = IF p.id = j THEN Kinds(r2a, j) \cup {Kind(p)} ELSE Kinds(r2a, j)
  BY KindsAppend

\* or sends the first it has,
LEMMA TellsFlushed ==
    ASSUME TypeOK, \A j \in Ids : R2AOrder(j), NEW i \in Ids,
           \A j \in Ids \ {i} : chan'[j] = chan[j],
           chan[i].pq # <<>>, chan'[i].pq = Tail(chan[i].pq), r2a' = Append(r2a, Head(chan[i].pq))
    PROVE  Tells(i, R2AKinds(i)) /\ R2AKinds(i) # {}
<1> DEFINE q == chan[i].pq
           p == Head(q)
<1>1. q \in Seq(R2APackets({i})) /\ q # <<>>  BY PiState, ChannelTypes
<1> HIDE DEF q
<1>2. p \in R2APackets({i}) /\ p.id = i /\ p \in R2APackets(Ids)
  BY <1>1, HeadTailProperties, PacketOfChannel
<1>3. Kinds(q, i) = Kinds(Tail(q), i) \cup {Kind(p)}  BY <1>1, <1>2, KindsTail
<1>4. Apart(q, i, Answers, Answers)  BY DEF R2AOrder, q
<1>5. /\ Apart(Tail(q), i, Answers, Answers)
      /\ Kind(p) \in Answers => Kinds(Tail(q), i) \cap Answers = {}
  BY <1>1, <1>2, <1>4, ApartTail
<1>6. r2a \in Seq(R2APackets(Ids)) /\ r2a' = Append(r2a, p)  BY DEF TypeOK, q
<1>7. chan'[i].pq = Tail(q)  BY DEF q
<1> HIDE DEF p
<1>8. \A j : Kinds(r2a', j) = IF p.id = j THEN Kinds(r2a, j) \cup {Kind(p)} ELSE Kinds(r2a, j)
  BY <1>2, <1>6, KindsAppended
<1>9. ASSUME NEW j \in Ids PROVE Apart(r2a', j, Answers, Answers)
  <2>1. Apart(r2a, j, Answers, Answers)  BY DEF R2AOrder
  <2>2. p.id = j /\ Kind(p) \in Answers => Kinds(r2a, j) \cap Answers = {}
    BY <1>2, <1>3 DEF R2AOrder, q
  <2> QED  BY <1>2, <1>6, <2>1, <2>2, ApartAppend
<1>10. R2AOrder(i)'
  <2>1. Kinds(q, i) \cap Answers # {} => Kinds(r2a, i) \cap Answers = {}  BY DEF R2AOrder, q
  <2>2. Kinds(Tail(q), i) \cap Answers # {} => Kinds(r2a', i) \cap Answers = {}
    BY <1>2, <1>3, <1>5, <1>8, <2>1
  <2> QED  BY <1>5, <1>7, <1>9, <2>2 DEF R2AOrder
<1>11. \A j \in Ids \ {i} : R2AOrder(j)'  BY <1>2, <1>8, <1>9 DEF R2AOrder
<1>12. R2AKinds(i)' = R2AKinds(i)  BY <1>2, <1>3, <1>7, <1>8 DEF R2AKinds, q
<1>13. R2AKinds(i) # {}  BY <1>3 DEF R2AKinds, q
<1> QED  BY <1>2, <1>8, <1>10, <1>11, <1>12, <1>13 DEF Tells, R2AKinds

\* or forgets what it had to send, or replaces it by a RESET.
LEMMA TellsReset ==
    ASSUME \A j \in Ids : R2AOrder(j), NEW i \in Ids, r2a' = r2a
    PROVE  /\ chan'[i].pq = <<>> => R2AKinds(i)' \subseteq R2AKinds(i) /\ R2AOrder(i)'
           /\ chan'[i].pq = <<Packet("RESET", i, 0)>> =>
                  /\ R2AKinds(i)' \subseteq R2AKinds(i) \cup {"RESET"}
                  /\ "RESET" \in R2AKinds(i)' /\ R2AOrder(i)'
<1>1. Apart(r2a, i, Answers, Answers)  BY DEF R2AOrder
<1>2. ASSUME chan'[i].pq = <<>>
      PROVE  R2AKinds(i)' \subseteq R2AKinds(i) /\ R2AOrder(i)'
  <2>1. Kinds(chan'[i].pq, i) = {} /\ Apart(chan'[i].pq, i, Answers, Answers)
    BY <1>2, KindsEmpty DEF Apart
  <2> QED  BY <1>1, <2>1 DEF R2AOrder, R2AKinds
<1>3. ASSUME chan'[i].pq = <<Packet("RESET", i, 0)>>
      PROVE  /\ R2AKinds(i)' \subseteq R2AKinds(i) \cup {"RESET"}
             /\ "RESET" \in R2AKinds(i)' /\ R2AOrder(i)'
  <2> DEFINE p == Packet("RESET", i, 0)
  <2>1. p.id = i /\ Kind(p) = "RESET"  BY DEF Packet, Kind
  <2> HIDE DEF p
  <2>2. ToSet(<<p>>) = {p} /\ DOMAIN <<p>> = {1}  BY DEF ToSet
  <2>3. Kinds(<<p>>, i) = {"RESET"}  BY <2>1, <2>2 DEF Kinds
  <2>4. Apart(<<p>>, i, Answers, Answers)  BY <2>2 DEF Apart
  <2>5. chan'[i].pq = <<p>>  BY <1>3 DEF p
  <2> QED  BY <1>1, <2>3, <2>4, <2>5 DEF R2AOrder, R2AKinds, Answers
<1> QED  BY <1>2, <1>3

-----------------------------------------------------------------------------
\* The driver's steps.

\* What they start from.
DriverReady == TypeOK /\ OneRequest /\ NoDuplicates(sendq) /\ \A j \in Ids : A2ROrder(j)

Fitting(i, R, c, st) == Fits(sock[i], Turn(i), A2RKinds(i), R, c, st)

\* What they do: the socket of i still fits, and the others are left alone.
DriverDid(i, R, c, st) ==
    /\ Fits(sock'[i], Turn(i)', A2RKinds(i)', R, c, st)
    /\ NoDuplicates(sendq') /\ \A j \in Ids : A2ROrder(j)'
    /\ \A j \in Ids \ {i} : /\ sock'[j] = sock[j] /\ Turn(j)' = Turn(j)
                            /\ A2RKinds(j)' = A2RKinds(j)

\* A socket changes, the queue and the ring with it.
LEMMA DriverDoes ==
    ASSUME DriverReady, NEW i \in Ids, NEW R, NEW c, NEW st, NEW s, NEW w, NEW B,
           sock' = [sock EXCEPT ![i] = s], Turns(i, w), Says(i, B), Fits(s, w, B, R, c, st)
    PROVE  DriverDid(i, R, c, st)
<1>1. sock'[i] = s /\ \A j \in Ids \ {i} : sock'[j] = sock[j]  BY DEF DriverReady, TypeOK
<1>2. Turn(i)' = w /\ A2RKinds(i)' = B  BY DEF Turns, Says
<1>3. Fits(sock'[i], Turn(i)', A2RKinds(i)', R, c, st)  BY <1>1, <1>2, Zenon
<1> QED  BY <1>1, <1>3 DEF DriverDid, Turns, Says

\* It sends nothing, and the queue stays.
LEMMA DriverKeeps ==
    ASSUME DriverReady, NEW i \in Ids, NEW R, NEW c, NEW st, NEW s,
           sock' = [sock EXCEPT ![i] = s], UNCHANGED <<sendq, a2r>>,
           Fits(s, Turn(i), A2RKinds(i), R, c, st)
    PROVE  DriverDid(i, R, c, st)
<1>1. Turns(i, Turn(i))  BY TurnSteps DEF DriverReady
<1>2. Says(i, A2RKinds(i))  BY SaysNothing DEF DriverReady
<1> QED  BY <1>1, <1>2, DriverDoes

\* close_socket with a RESET.
LEMMA DriverCloses ==
    ASSUME DriverReady, NEW i \in Ids, NEW R, NEW c, NEW st, Fitting(i, R, c, st), Open(i),
           CloseSocket(i, TRUE)
    PROVE  DriverDid(i, R, c, st)
<1> DEFINE q == RemoveFirst(sendq, i)
           s == [Free EXCEPT !.state = "closed", !.socket = sock[i].socket]
<1>1. /\ Fits(Free, "none", A2RKinds(i) \cup {"RESET"}, R, c, st)
      /\ Fits(s, "waits", A2RKinds(i), R, c, st)
  BY FitsClosed DEF Fitting, Open
<1> HIDE DEF s
<1>2. \/ SendNow(q, Packet("RESET", i, 0)) /\ sock' = [sock EXCEPT ![i] = Free]
      \/ Queue(q, i) /\ sock' = [sock EXCEPT ![i] = s]
  BY Zenon DEF CloseSocket, s
<1>3. CASE SendNow(q, Packet("RESET", i, 0)) /\ sock' = [sock EXCEPT ![i] = Free]
  <2>1. Turns(i, "none")  BY <1>3, TurnSteps DEF SendNow, DriverReady
  <2>2. Says(i, A2RKinds(i) \cup {"RESET"})
    BY <1>3, SaysMore, PacketTypes DEF SendNow, DriverReady
  <2> QED  BY <1>1, <1>3, <2>1, <2>2, DriverDoes
<1>4. CASE Queue(q, i) /\ sock' = [sock EXCEPT ![i] = s]
  <2>1. Turns(i, "waits")  BY <1>4, TurnSteps DEF Queue, DriverReady
  <2>2. Says(i, A2RKinds(i))  BY <1>4, SaysNothing DEF Queue, DriverReady
  <2> QED  BY <1>1, <1>4, <2>1, <2>2, DriverDoes
<1> QED  BY <1>2, <1>3, <1>4

\* close_socket without one.
LEMMA DriverFrees ==
    ASSUME DriverReady, NEW i \in Ids, NEW R, NEW c, NEW st,
           Fits(Free, "none", A2RKinds(i), R, c, st), CloseSocket(i, FALSE)
    PROVE  DriverDid(i, R, c, st)
<1>1. /\ sendq' = RemoveFirst(sendq, i) /\ a2r' = a2r /\ sock' = [sock EXCEPT ![i] = Free]
  BY DEF CloseSocket
<1>2. Turns(i, "none")  BY <1>1, TurnSteps DEF DriverReady
<1>3. Says(i, A2RKinds(i))  BY <1>1, SaysNothing DEF DriverReady
<1> QED  BY <1>1, <1>2, <1>3, DriverDoes

\* The application reads an EOS; u is the socket that has it.
LEMMA DriverGivesEos ==
    ASSUME DriverReady, NEW i \in Ids, NEW R, NEW c, NEW st, NEW u,
           u.state = "open", u.pend = sock[i].pend, "RCVD_EOS_FROM_RPI" \in u.flags, Open(i),
           Fits(u, Turn(i), A2RKinds(i), R, c, st), GiveEos(i, u.flags)
    PROVE  DriverDid(i, R, c, st)
<1>1. CASE "SENT_EOS_TO_RPI" \in u.flags
  <2>1. Fits(Free, "none", A2RKinds(i), R, c, st)
    BY <1>1, FitsBothEos DEF EosForApp, EosToRpi
  <2> QED  BY <1>1, <2>1, DriverFrees DEF GiveEos
<1>2. CASE "SENT_EOS_TO_RPI" \notin u.flags
  <2> DEFINE f == u.flags \cup {"SENT_EOS_TO_APP"}
             s == sock[i]
             t == [s EXCEPT !.flags = f, !.pend = s.pend \ {"READ"}]
  <2>1. sock[i] \in Socket  BY DEF DriverReady, TypeOK
  <2>2. sock' = [sock EXCEPT ![i] = t] /\ sendq' = sendq /\ a2r' = a2r
    BY <1>2, <2>1 DEF GiveEos, DriverReady, TypeOK, Socket
  <2> HIDE DEF f
  <2>3. t.state = "open" /\ t.pend = u.pend \ {"READ"} /\ t.flags = f
    BY <2>1 DEF Socket, Open
  <2> HIDE DEF t, s
  <2>4. Fits(t, Turn(i), A2RKinds(i), R, c, st)  BY <2>3, FitsRead DEF f
  <2> QED  BY <2>2, <2>4, DriverKeeps
<1> QED  BY <1>1, <1>2

\* handle_app_read.
LEMMA DriverReads ==
    ASSUME DriverReady, NEW i \in Ids, NEW R, NEW c, NEW st, Fitting(i, R, c, st), AppRead(i)
    PROVE  DriverDid(i, R, c, st)
<1> DEFINE s == sock[i]
<1>1. s \in Socket /\ s.state = "open" /\ Open(i) /\ sock \in [Ids -> Socket]
  BY DEF DriverReady, TypeOK, AppRead, Open
<1>2. CASE CloseSocket(i, TRUE)  BY <1>1, <1>2, DriverCloses
<1>3. CASE GiveData(i, Head(s.rq), [s EXCEPT !.rq = Tail(@)])
  <2> DEFINE t == [s EXCEPT !.rq = Tail(@)]
  <2>1. t.state = "open" /\ t.pend = s.pend /\ t.flags = s.flags  BY <1>1 DEF Socket
  <2>2. sock' = [sock EXCEPT ![i] = t] /\ UNCHANGED <<sendq, a2r>>  BY <1>3 DEF GiveData
  <2> HIDE DEF t
  <2>3. Fits(t, Turn(i), A2RKinds(i), R, c, st)  BY <1>1, <2>1, FitsRead DEF Fitting
  <2> QED  BY <2>2, <2>3, DriverKeeps
<1>4. CASE "RCVD_EOS_FROM_RPI" \in s.flags /\ GiveEos(i, s.flags)
  BY <1>1, <1>4, DriverGivesEos DEF Fitting
<1>5. CASE sock' = [sock EXCEPT ![i].pend = @ \cup {"READ"}] /\ UNCHANGED <<sendq, a2r>>
  <2> DEFINE t == [s EXCEPT !.pend = @ \cup {"READ"}]
  <2>1. t.state = "open" /\ t.pend = s.pend \cup {"READ"} /\ t.flags = s.flags
    BY <1>1 DEF Socket
  <2>2. sock' = [sock EXCEPT ![i] = t]  BY <1>1, <1>5, Zenon
  <2> HIDE DEF t
  <2>3. Fits(t, Turn(i), A2RKinds(i), R, c, st)  BY <1>1, <2>1, FitsRead DEF Fitting
  <2> QED  BY <1>5, <2>2, <2>3, DriverKeeps
<1> QED  BY <1>2, <1>3, <1>4, <1>5 DEF AppRead

\* A socket with nothing pending is not in the queue, and asks for nothing.
LEMMA Idle ==
    ASSUME NEW i \in Ids, NEW R, NEW c, NEW st, Fitting(i, R, c, st), Open(i),
           Requests(sock[i]) = {}
    PROVE  /\ Turn(i) = "none"
           /\ "CONNECT" \notin sock[i].pend /\ "WRITE" \notin sock[i].pend
           /\ "EOS" \notin sock[i].pend
<1>1. HasNothingToSend(sock[i])  BY DEF HasNothingToSend, Requests, Open
<1>2. Turn(i) # "waits"  BY <1>1 DEF Fitting, Fits, WaitInv
<1> QED  BY <1>2 DEF Turn, Requests

\* handle_app_write.
LEMMA DriverWrites ==
    ASSUME DriverReady, NEW i \in Ids, NEW R, NEW c, NEW st, Fitting(i, R, c, st), AppWrite(i)
    PROVE  DriverDid(i, R, c, st)
<1> DEFINE s == sock[i]
<1>1. s \in Socket /\ s.state = "open" /\ Open(i) /\ sock \in [Ids -> Socket]
  BY DEF DriverReady, TypeOK, AppWrite, Open
<1>2. CASE CloseSocket(i, TRUE)  BY <1>1, <1>2, DriverCloses
<1>3. CASE ~OutOfPlace(s) /\ Len(wrote[i]) < DataOf(i)
  <2>1. Requests(s) = {}  BY <1>3 DEF OutOfPlace, Requests
  <2>2. Turn(i) = "none" /\ "CONNECT" \notin s.pend /\ "WRITE" \notin s.pend /\ "EOS" \notin s.pend
    BY <1>1, <2>1, Idle
  <2>3. CASE SendNow(sendq, Packet("DATA", i, Len(wrote[i]) + 1)) /\ UNCHANGED sock
    <3>1. Len(wrote[i]) + 1 \in 1 .. MaxData  BY <1>3, HistoryTypes DEF DriverReady
    <3>2. Says(i, A2RKinds(i) \cup {"DATA"})
      BY <2>3, <3>1, SaysMore, PacketTypes DEF SendNow, DriverReady
    <3>3. Turns(i, "none")  BY <2>2, <2>3, TurnSteps DEF SendNow, DriverReady
    <3>4. sock' = [sock EXCEPT ![i] = s]  BY <1>1, <2>3
    <3>5. s.pend = s.pend \ {"WRITE"}  BY <2>2
    <3> HIDE DEF s
    <3>6. Fits(s, "none", A2RKinds(i) \cup {"DATA"}, R, c, st)
      BY <1>1, <2>2, <3>5, FitsData DEF Fitting, s
    <3> QED  BY <3>2, <3>3, <3>4, <3>6, DriverDoes
  <2>4. CASE Queue(sendq, i) /\ sock' = [sock EXCEPT ![i].pend = @ \cup {"WRITE"}]
    <3> DEFINE t == [s EXCEPT !.pend = @ \cup {"WRITE"}]
    <3>1. sock' = [sock EXCEPT ![i] = t]  BY <1>1, <2>4, Zenon
    <3>2. t.state = "open" /\ t.pend = s.pend \cup {"WRITE"} /\ t.flags = s.flags
      BY <1>1 DEF Socket
    <3> HIDE DEF t
    <3>3. Fits(t, "waits", A2RKinds(i), R, c, st)  BY <1>1, <2>2, <3>2, FitsData DEF Fitting
    <3>4. Turns(i, "waits")  BY <2>2, <2>4, TurnSteps DEF Queue, DriverReady
    <3>5. Says(i, A2RKinds(i))  BY <2>4, SaysNothing DEF Queue, DriverReady
    <3> QED  BY <3>1, <3>3, <3>4, <3>5, DriverDoes
  <2> QED  BY <1>2, <1>3, <2>3, <2>4 DEF AppWrite
<1> QED  BY <1>2, <1>3 DEF AppWrite

\* The application's EOS goes into the ring.
LEMMA DriverSendsEos ==
    ASSUME DriverReady, NEW i \in Ids, NEW R, NEW c, NEW st, Fitting(i, R, c, st), Open(i),
           "CONNECT" \notin sock[i].pend, "WRITE" \notin sock[i].pend,
           "SENT_EOS_TO_RPI" \notin sock[i].flags,
           EosSent(i, sock[i]), a2r' = Append(a2r, Packet("EOS", i, 0)), Turns(i, "none")
    PROVE  DriverDid(i, R, c, st)
<1> DEFINE s == sock[i]
           u == [s EXCEPT !.flags = @ \cup {"RCVD_EOS_FROM_APP", "SENT_EOS_TO_RPI"},
                          !.pend = @ \ {"EOS"}]
           t == IF "SENT_EOS_TO_APP" \in s.flags THEN Free ELSE u
<1>1. s \in Socket  BY DEF DriverReady, TypeOK
<1>2. sock' = [sock EXCEPT ![i] = t]  BY Zenon DEF EosSent
<1>3. /\ u.state = s.state /\ u.pend = s.pend \ {"EOS"}
      /\ u.flags = s.flags \cup {"RCVD_EOS_FROM_APP", "SENT_EOS_TO_RPI"}
  BY <1>1 DEF Socket
<1> HIDE DEF u
<1>4. s.state = "open"  BY DEF Open
<1>5. Fits(t, "none", A2RKinds(i) \cup {"EOS"}, R, c, st) /\ "EOS" \notin A2RKinds(i)
  BY <1>3, <1>4, FitsEosSent DEF Fitting
<1> HIDE DEF t
<1>6. Says(i, A2RKinds(i) \cup {"EOS"})  BY <1>5, SaysMore, PacketTypes DEF DriverReady
<1> QED  BY <1>2, <1>5, <1>6, DriverDoes

\* handle_app_eos.
LEMMA DriverEnds ==
    ASSUME DriverReady, NEW i \in Ids, NEW R, NEW c, NEW st, Fitting(i, R, c, st), AppEos(i)
    PROVE  DriverDid(i, R, c, st)
<1> DEFINE s == sock[i]
<1>1. s \in Socket /\ s.state = "open" /\ Open(i) /\ sock \in [Ids -> Socket]
  BY DEF DriverReady, TypeOK, AppEos, Open
<1>2. CASE CloseSocket(i, TRUE)  BY <1>1, <1>2, DriverCloses
<1>3. CASE ~OutOfPlace(s)
  <2>1. Requests(s) = {} /\ "RCVD_EOS_FROM_APP" \notin s.flags
    BY <1>3 DEF OutOfPlace, Requests
  <2>2. Turn(i) = "none" /\ "CONNECT" \notin s.pend /\ "WRITE" \notin s.pend /\ "EOS" \notin s.pend
    BY <1>1, <2>1, Idle
  <2>3. CASE SendNow(sendq, Packet("EOS", i, 0)) /\ EosSent(i, s)
    <3>1. Turns(i, "none")  BY <2>2, <2>3, TurnSteps DEF SendNow, DriverReady
    <3>2. "SENT_EOS_TO_RPI" \notin s.flags  BY <2>1 DEF Fitting, Fits, SockInv
    <3> QED  BY <1>1, <2>2, <2>3, <3>1, <3>2, DriverSendsEos DEF SendNow
  <2>4. CASE /\ Queue(sendq, i)
             /\ sock' = [sock EXCEPT ![i].pend = @ \cup {"EOS"},
                                     ![i].flags = @ \cup {"RCVD_EOS_FROM_APP"}]
    <3> DEFINE t == [s EXCEPT !.pend = @ \cup {"EOS"}, !.flags = @ \cup {"RCVD_EOS_FROM_APP"}]
    <3>1. sock' = [sock EXCEPT ![i] = t]  BY <1>1, <2>4
    <3>2. /\ t.state = "open" /\ t.pend = s.pend \cup {"EOS"}
          /\ t.flags = s.flags \cup {"RCVD_EOS_FROM_APP"}
      BY <1>1 DEF Socket
    <3> HIDE DEF t
    <3>3. Fits(t, "waits", A2RKinds(i), R, c, st)
      BY <1>1, <2>1, <2>2, <3>2, FitsEosWaits DEF Fitting
    <3>4. Turns(i, "waits")  BY <2>2, <2>4, TurnSteps DEF Queue, DriverReady
    <3>5. Says(i, A2RKinds(i))  BY <2>4, SaysNothing DEF Queue, DriverReady
    <3> QED  BY <3>1, <3>3, <3>4, <3>5, DriverDoes
  <2> QED  BY <1>3, <2>3, <2>4 DEF AppEos
<1> QED  BY <1>2, <1>3 DEF AppEos

\* handle_app_connect; the id has not been used.
LEMMA DriverConnects ==
    ASSUME DriverReady, NEW n \in Sockets, AppConnect(n), NEW c, NEW st, c = NoChannel,
           Fitting(next, {}, c, st), sock[next] = Free, A2RKinds(next) = {}
    PROVE  DriverDid(next, {}, c, st)
<1> DEFINE s == [Free EXCEPT !.state = "open", !.socket = n, !.pend = {"CONNECT"}]
<1>1. PICK i \in Ids : i = next  BY DEF AppConnect
<1>2. /\ Fits(s, "none", {"CONNECT"}, {}, c, st) /\ Fits(s, "waits", {}, {}, c, st)
  BY FitsNew DEF Fitting
<1> HIDE DEF s
<1>3. sock' = [sock EXCEPT ![i] = s]  BY <1>1 DEF AppConnect, s
<1>4. Turn(i) = "none"
  <2>1. sock[i] = Free /\ Turn(i) # "waits"
    BY <1>1 DEF Fitting, Fits, WaitInv, HasNothingToSend, Free
  <2> QED  BY <2>1 DEF Turn
<1>5. CASE SendNow(sendq, Packet("CONNECT", i, 0))
  <2>1. Turns(i, "none")  BY <1>4, <1>5, TurnSteps DEF SendNow, DriverReady
  <2>2. Says(i, A2RKinds(i) \cup {"CONNECT"})
    BY <1>1, <1>5, SaysMore, PacketTypes DEF SendNow, DriverReady
  <2>3. A2RKinds(i) \cup {"CONNECT"} = {"CONNECT"}  BY <1>1
  <2>4. DriverDid(i, {}, c, st)  BY <1>2, <1>3, <2>1, <2>2, <2>3, DriverDoes
  <2> QED  BY <1>1, <2>4
<1>6. CASE Queue(sendq, i)
  <2>1. Turns(i, "waits")  BY <1>4, <1>6, TurnSteps DEF Queue, DriverReady
  <2>2. Says(i, {})  BY <1>1, <1>6, SaysNothing DEF Queue, DriverReady
  <2>3. DriverDid(i, {}, c, st)  BY <1>2, <1>3, <2>1, <2>2, DriverDoes
  <2> QED  BY <1>1, <2>3
<1> QED  BY <1>1, <1>5, <1>6 DEF AppConnect

\* handle_room_in_a2r.
LEMMA DriverSends ==
    ASSUME DriverReady, DriverSend, NEW i \in Ids, i = Head(sendq), NEW R, NEW c, NEW st,
           Fitting(i, R, c, st)
    PROVE  DriverDid(i, R, c, st)
<1> DEFINE s == sock[i]
<1>1. s \in Socket /\ sock \in [Ids -> Socket]  BY DEF DriverReady, TypeOK
<1>2. Turn(i) = "waits" /\ Turns(i, "none")  BY TurnSteps DEF DriverSend, DriverReady
<1>3. Fits(s, "waits", A2RKinds(i), R, c, st)  BY <1>2 DEF Fitting
<1>4. /\ \A a, b \in Requests(s) : a = b
      /\ "WRITE" \in s.pend => Len(wrote[i]) < DataOf(i)
  BY DEF DriverReady, OneRequest
<1>5. \A e, f \in {"CONNECT", "WRITE", "EOS"} : e \in s.pend /\ f \in s.pend => e = f
  BY <1>4 DEF Requests
<1>6. s.pend # {} => s.state = "open"
  <2>1. s.state \in {"free", "open", "closed"}  BY <1>1 DEF Socket
  <2> QED  BY <1>3, <2>1 DEF Fits, SockInv, Free
<1>7. CASE "CONNECT" \in s.pend /\ a2r' = Append(a2r, Packet("CONNECT", i, 0)) /\ UNCHANGED sock
  <2>1. A2RKinds(i) = {} /\ Fits(s, "none", A2RKinds(i) \cup {"CONNECT"}, R, c, st)
    BY <1>3, <1>5, <1>7, FitsSent
  <2>2. Says(i, A2RKinds(i) \cup {"CONNECT"})
    BY <1>7, <2>1, SaysMore, PacketTypes DEF DriverReady
  <2>3. sock' = [sock EXCEPT ![i] = s]  BY <1>1, <1>7
  <2> QED  BY <1>2, <2>1, <2>2, <2>3, DriverDoes
<1>8. CASE /\ "WRITE" \in s.pend /\ a2r' = Append(a2r, Packet("DATA", i, Len(wrote[i]) + 1))
           /\ sock' = [sock EXCEPT ![i].pend = @ \ {"WRITE"}]
  <2>1. Len(wrote[i]) + 1 \in 1 .. MaxData  BY <1>4, <1>8, HistoryTypes DEF DriverReady
  <2>2. Says(i, A2RKinds(i) \cup {"DATA"})
    BY <1>8, <2>1, SaysMore, PacketTypes DEF DriverReady
  <2> DEFINE t == [s EXCEPT !.pend = @ \ {"WRITE"}]
  <2>3. sock' = [sock EXCEPT ![i] = t]  BY <1>1, <1>8, Zenon
  <2>4. s.state = "open"  BY <1>6, <1>8
  <2>5. t.state = "open" /\ t.pend = s.pend \ {"WRITE"} /\ t.flags = s.flags
    BY <1>1, <2>4 DEF Socket
  <2> HIDE DEF t
  <2>6. "CONNECT" \notin s.pend /\ "EOS" \notin s.pend  BY <1>5, <1>8
  <2>7. Fits(t, "none", A2RKinds(i) \cup {"DATA"}, R, c, st)
    BY <1>3, <2>4, <2>5, <2>6, FitsData
  <2> QED  BY <1>2, <2>2, <2>3, <2>7, DriverDoes
<1>9. CASE "EOS" \in s.pend /\ a2r' = Append(a2r, Packet("EOS", i, 0)) /\ EosSent(i, s)
  <2>1. "CONNECT" \notin s.pend /\ "WRITE" \notin s.pend  BY <1>5, <1>9
  <2>2. "SENT_EOS_TO_RPI" \notin s.flags  BY <1>3, <1>9 DEF Fits, SockInv
  <2>3. Open(i)  BY <1>6, <1>9 DEF Open
  <2> QED  BY <1>2, <1>9, <2>1, <2>2, <2>3, DriverSendsEos
<1>10. CASE /\ s.state = "closed" /\ a2r' = Append(a2r, Packet("RESET", i, 0))
            /\ sock' = [sock EXCEPT ![i] = Free]
  <2>1. Fits(Free, "none", A2RKinds(i) \cup {"RESET"}, R, c, st)  BY <1>3, <1>10, FitsSent
  <2>2. Says(i, A2RKinds(i) \cup {"RESET"})
    BY <1>10, SaysMore, PacketTypes DEF DriverReady
  <2> QED  BY <1>2, <1>10, <2>1, <2>2, DriverDoes
<1>11. ~HasNothingToSend(s)  BY <1>3 DEF Fits, WaitInv
<1> QED  BY <1>7, <1>8, <1>9, <1>10, <1>11 DEF DriverSend

\* handle_packets_received_r2a, for one packet, which the socket is told no more of.
LEMMA DriverReceives ==
    ASSUME DriverReady, DriverReceive, NEW i \in Ids, i = Head(r2a).id, NEW R, NEW Q,
           NEW c, NEW st, Fitting(i, R, c, st), R = Q \cup {Kind(Head(r2a))},
           Kind(Head(r2a)) \in Answers => Q \cap Answers = {}
    PROVE  DriverDid(i, Q, c, st)
<1> DEFINE p == Head(r2a)
           s == sock[i]
           k == Kind(p)
<1>1. s \in Socket /\ sock \in [Ids -> Socket]  BY DEF DriverReady, TypeOK
<1>2. p \in R2APackets(Ids) /\ p.id = i
  <2>1. r2a \in Seq(R2APackets(Ids)) /\ r2a # <<>>  BY DEF DriverReady, TypeOK, DriverReceive
  <2> QED  BY <2>1, HeadTailProperties
<1>3. /\ p.type = "RESPONSE" => k = IF p.x = CONNECT_OK THEN "RESPONSE" ELSE "UNKNOWN"
      /\ p.type # "RESPONSE" => k = p.type
  BY DEF Kind
<1>4. \/ Ignored(p) /\ UNCHANGED <<sock, sendq, a2r>>
      \/ DriverHandle(p)
  BY Zenon DEF DriverReceive
<1> HIDE DEF p, k
<1>5. Fits(s, Turn(i), A2RKinds(i), R, c, st) /\ R = Q \cup {k}  BY DEF Fitting, k, p
<1>6. k \in Answers => "RESPONSE" \notin Q /\ "UNKNOWN" \notin Q  BY DEF Answers, k, p
<1>7. ASSUME NEW t, sock' = [sock EXCEPT ![i] = t], UNCHANGED <<sendq, a2r>>,
             Fits(t, Turn(i), A2RKinds(i), Q, c, st)
      PROVE  DriverDid(i, Q, c, st)
  BY <1>7, DriverKeeps
<1>8. CASE Ignored(p) /\ UNCHANGED <<sock, sendq, a2r>>
  <2>1. CASE s.state # "open"
    <3>1. Fits(s, Turn(i), A2RKinds(i), Q, c, st)  BY <1>5, <2>1, FitsIgnored
    <3>2. sock' = [sock EXCEPT ![i] = s]  BY <1>1, <1>8
    <3> QED  BY <1>7, <1>8, <3>1, <3>2
  <2>2. CASE s.state = "open"
    <3>1. k \in Answers /\ "CONNECT" \notin s.pend
      BY <1>2, <1>3, <1>8, <2>2 DEF Ignored, Answers
    <3> QED  BY <1>5, <2>2, <3>1 DEF Fits, ConnectInv, Asking, Answers
  <2> QED  BY <2>1, <2>2
<1>9. CASE DriverHandle(p)
  <2>1. CASE p.type = "RESET" /\ CloseSocket(i, FALSE)
    <3>1. Fits(Free, "none", A2RKinds(i), Q, c, st)  BY <1>3, <1>5, <2>1, FitsEnded
    <3> QED  BY <2>1, <3>1, DriverFrees
  <2>2. CASE p.type = "RESPONSE" /\ p.x # CONNECT_OK /\ CloseSocket(i, FALSE)
    <3>1. Fits(Free, "none", A2RKinds(i), Q, c, st)  BY <1>3, <1>5, <2>2, FitsEnded
    <3> QED  BY <2>2, <3>1, DriverFrees
  <2>3. CASE /\ p.type = "RESPONSE" /\ p.x = CONNECT_OK /\ Open(i)
             /\ sock' = [sock EXCEPT ![i].pend = @ \ {"CONNECT"}] /\ UNCHANGED <<sendq, a2r>>
    <3> DEFINE t == [s EXCEPT !.pend = @ \ {"CONNECT"}]
    <3>1. sock' = [sock EXCEPT ![i] = t]  BY <1>1, <2>3, Zenon
    <3>2. t.state = "open" /\ t.flags = s.flags /\ t.pend = s.pend \ {"CONNECT"}
      BY <1>1, <2>3 DEF Socket, Open
    <3>3. s.state = "open" /\ k = "RESPONSE"  BY <1>3, <2>3 DEF Open
    <3> HIDE DEF t, s
    <3>4. Fits(t, Turn(i), A2RKinds(i), Q, c, st)
      BY <1>5, <1>6, <3>2, <3>3, FitsAnswered DEF Answers
    <3> QED  BY <1>7, <2>3, <3>1, <3>4
  <2>4. ASSUME p.type = "DATA" PROVE Fitting(i, Q, c, st)
    BY <1>3, <1>5, <2>4, FitsDataRead DEF Fitting
  <2>5. CASE p.type = "DATA" /\ Open(i) /\ GiveData(i, p.x, [s EXCEPT !.pend = @ \ {"READ"}])
    <3> DEFINE t == [s EXCEPT !.pend = @ \ {"READ"}]
    <3>1. sock' = [sock EXCEPT ![i] = t] /\ UNCHANGED <<sendq, a2r>>  BY <2>5 DEF GiveData
    <3>2. t.state = "open" /\ t.flags = s.flags /\ t.pend = s.pend \ {"READ"}
      BY <1>1, <2>5 DEF Socket, Open
    <3>3. s.state = "open"  BY <2>5 DEF Open
    <3> HIDE DEF t
    <3>4. Fits(t, Turn(i), A2RKinds(i), Q, c, st)
      BY <2>4, <2>5, <3>2, <3>3, FitsRead DEF Fitting
    <3> QED  BY <1>7, <3>1, <3>4
  <2>6. CASE p.type = "DATA" /\ Open(i) /\ CloseSocket(i, TRUE)  BY <2>4, <2>6, DriverCloses
  <2>7. CASE /\ p.type = "DATA" /\ Open(i)
             /\ sock' = [sock EXCEPT ![i].rq = Append(@, p.x)] /\ UNCHANGED <<sendq, a2r>>
    <3> DEFINE q == Append(s.rq, p.x)
               t == [s EXCEPT !.rq = q]
    <3>1. sock' = [sock EXCEPT ![i] = t]  BY <1>1, <2>7, Zenon
    <3> HIDE DEF q
    <3>2. t.state = "open" /\ t.flags = s.flags /\ t.pend = s.pend
      BY <1>1, <2>7 DEF Socket, Open
    <3>3. s.state = "open"  BY <2>7 DEF Open
    <3> HIDE DEF t
    <3>4. Fits(t, Turn(i), A2RKinds(i), Q, c, st)
      BY <2>4, <2>7, <3>2, <3>3, FitsRead DEF Fitting
    <3> QED  BY <1>7, <2>7, <3>1, <3>4
  <2> DEFINE u == [s EXCEPT !.flags = @ \cup {"RCVD_EOS_FROM_RPI"}]
  <2>8. u.state = s.state /\ u.flags = s.flags \cup {"RCVD_EOS_FROM_RPI"} /\ u.pend = s.pend
    BY <1>1 DEF Socket
  <2>9. ASSUME p.type = "EOS", Open(i) PROVE Fits(u, Turn(i), A2RKinds(i), Q, c, st)
    <3>1. s.state = "open" /\ k = "EOS"  BY <1>3, <2>9 DEF Open
    <3> HIDE DEF u
    <3> QED  BY <1>5, <2>8, <3>1, FitsEosRead
  <2>10. CASE /\ p.type = "EOS" /\ Open(i)
              /\ sock' = [sock EXCEPT ![i].flags = @ \cup {"RCVD_EOS_FROM_RPI"}]
              /\ UNCHANGED <<sendq, a2r>>
    <3>1. sock' = [sock EXCEPT ![i] = u]  BY <1>1, <2>10, Zenon
    <3> HIDE DEF u
    <3> QED  BY <1>7, <2>9, <2>10, <3>1
  <2>11. CASE p.type = "EOS" /\ Open(i) /\ GiveEos(i, s.flags \cup {"RCVD_EOS_FROM_RPI"})
    <3>1. GiveEos(i, u.flags) /\ u.state = "open" /\ "RCVD_EOS_FROM_RPI" \in u.flags
      BY <2>8, <2>11 DEF Open
    <3> HIDE DEF u
    <3> QED  BY <2>8, <2>9, <2>11, <3>1, DriverGivesEos
  <2>12. p.id = i  BY <1>2
  <2> HIDE DEF u
  <2>13. \/ p.type = "RESET" /\ CloseSocket(i, FALSE)
         \/ p.type = "RESPONSE" /\ p.x # CONNECT_OK /\ CloseSocket(i, FALSE)
         \/ /\ p.type = "RESPONSE" /\ p.x = CONNECT_OK /\ Open(i)
            /\ sock' = [sock EXCEPT ![i].pend = @ \ {"CONNECT"}] /\ UNCHANGED <<sendq, a2r>>
         \/ p.type = "DATA" /\ Open(i) /\ GiveData(i, p.x, [s EXCEPT !.pend = @ \ {"READ"}])
         \/ p.type = "DATA" /\ Open(i) /\ CloseSocket(i, TRUE)
         \/ /\ p.type = "DATA" /\ Open(i)
            /\ sock' = [sock EXCEPT ![i].rq = Append(@, p.x)] /\ UNCHANGED <<sendq, a2r>>
         \/ /\ p.type = "EOS" /\ Open(i)
            /\ sock' = [sock EXCEPT ![i].flags = @ \cup {"RCVD_EOS_FROM_RPI"}]
            /\ UNCHANGED <<sendq, a2r>>
         \/ p.type = "EOS" /\ Open(i) /\ GiveEos(i, s.flags \cup {"RCVD_EOS_FROM_RPI"})
    BY <1>9, <2>12, Zenon DEF DriverHandle
  <2> QED  BY <2>1, <2>2, <2>3, <2>5, <2>6, <2>7, <2>10, <2>11, <2>13
<1> QED  BY <1>4, <1>8, <1>9

-----------------------------------------------------------------------------
\* The Pi's steps.

\* What they start from, ...
PiReady == TypeOK /\ PiQueueSound /\ \A j \in Ids : OwnStream(j) /\ R2AOrder(j)

PiFits(i, A) == Fits(sock[i], Turn(i), A, R2AKinds(i), chan[i], StreamState(i))

\* ... and do: the channel of i still fits, and the others are left alone.
PiDid(i, B) ==
    /\ Fits(sock[i], Turn(i), B, R2AKinds(i)', chan'[i], StreamState(i)')
    /\ \A j \in Ids : OwnStream(j)' /\ R2AOrder(j)'
    /\ \A j \in Ids \ {i} : /\ chan'[j] = chan[j] /\ StreamState(j)' = StreamState(j)
                            /\ R2AKinds(j)' = R2AKinds(j)

\* No stream changes its owner; the stream of i may change its state.
StreamsOf(i) ==
    \A t \in 1 .. Len(streams) :
        /\ streams'[t].id = streams[t].id
        /\ t = chan[i].stream \/ streams'[t].state = streams[t].state

\* A stream becomes s, or a new one is made: i's; or none changes but for its marks.
LEMMA StreamChanges ==
    ASSUME TypeOK, NEW i \in Ids
    PROVE  /\ streams' = streams => StreamsOf(i)
           /\ \A t \in 1 .. Len(streams), s \in Stream :
                  /\ t = chan[i].stream /\ s.id = streams[t].id
                  /\ streams' = [streams EXCEPT ![t] = s]
                  => StreamsOf(i) /\ streams'[t] = s
           /\ \A s \in Stream : streams' = Append(streams, s) =>
                  StreamsOf(i) /\ streams'[Len(streams) + 1] = s
<1>1. streams \in Seq(Stream) /\ Len(streams) \in Nat /\ DOMAIN streams = 1 .. Len(streams)
  BY PiState
<1>2. streams' = streams => StreamsOf(i)  BY DEF StreamsOf
<1>3. ASSUME NEW t \in 1 .. Len(streams), NEW s \in Stream, t = chan[i].stream,
             s.id = streams[t].id, streams' = [streams EXCEPT ![t] = s]
      PROVE  StreamsOf(i) /\ streams'[t] = s
  <2>1. streams'[t] = s /\ \A u \in 1 .. Len(streams) : u # t => streams'[u] = streams[u]
    BY <1>1, <1>3
  <2> QED  BY <1>3, <2>1 DEF StreamsOf
<1>4. ASSUME NEW s \in Stream, streams' = Append(streams, s)
      PROVE  StreamsOf(i) /\ streams'[Len(streams) + 1] = s
  <2>1. /\ streams'[Len(streams) + 1] = s
        /\ \A u \in 1 .. Len(streams) : streams'[u] = streams[u]
    BY <1>1, <1>4
  <2> QED  BY <2>1 DEF StreamsOf
<1> QED  BY <1>2, <1>3, <1>4

\* The others keep their channels and streams.
LEMMA OthersStreams ==
    ASSUME PiReady, NEW i \in Ids, StreamsOf(i), \A j \in Ids \ {i} : chan'[j] = chan[j]
    PROVE  /\ \A j \in Ids \ {i} : StreamState(j)' = StreamState(j) /\ OwnStream(j)'
           /\ chan'[i].stream \in {0, chan[i].stream} => OwnStream(i)'
<1>1. ASSUME NEW j \in Ids
      PROVE  chan[j].stream # 0 =>
                 chan[j].stream \in 1 .. Len(streams) /\ streams[chan[j].stream].id = j
  BY PiState DEF PiReady, OwnStream
<1>2. ASSUME NEW j \in Ids \ {i} PROVE StreamState(j)' = StreamState(j) /\ OwnStream(j)'
  <2>1. CASE chan[j].stream = 0  BY <1>2, <2>1 DEF StreamState, OwnStream
  <2>2. CASE chan[j].stream # 0
    <3> DEFINE t == chan[j].stream
    <3>1. t \in 1 .. Len(streams) /\ streams[t].id = j  BY <1>1, <2>2
    <3>2. t # chan[i].stream  BY <1>1, <1>2, <2>2, <3>1
    <3>3. streams'[t].id = j /\ streams'[t].state = streams[t].state
      BY <3>1, <3>2 DEF StreamsOf
    <3> QED  BY <1>2, <3>3 DEF StreamState, OwnStream
  <2> QED  BY <2>1, <2>2
<1>3. chan'[i].stream \in {0, chan[i].stream} => OwnStream(i)'
  BY <1>1 DEF StreamsOf, OwnStream
<1> QED  BY <1>2, <1>3

\* Together: the channel of i changes to d, and its stream and packets with it.
LEMMA PiDoes ==
    ASSUME PiReady, NEW i \in Ids, NEW B, NEW Q, NEW d, NEW dt,
           chan' = [chan EXCEPT ![i] = d], Tells(i, Q), StreamsOf(i), OwnStream(i)',
           StreamState(i)' = dt, Fits(sock[i], Turn(i), B, Q, d, dt)
    PROVE  PiDid(i, B)
<1>1. chan'[i] = d /\ \A j \in Ids \ {i} : chan'[j] = chan[j]  BY DEF PiReady, TypeOK
<1>2. \A j \in Ids \ {i} : StreamState(j)' = StreamState(j) /\ OwnStream(j)'
  BY <1>1, OthersStreams
<1>3. R2AKinds(i)' = Q  BY DEF Tells
<1>4. Fits(sock[i], Turn(i), B, R2AKinds(i)', chan'[i], StreamState(i)')
  BY <1>1, <1>3, Zenon
<1> QED  BY <1>1, <1>2, <1>4 DEF PiDid, Tells

\* What the packets that the Pi sends say.
LEMMA PacketKinds ==
    ASSUME NEW i
    PROVE  /\ \A x : Kind(Packet("DATA", i, x)) = "DATA" /\ Kind(Packet("EOS", i, x)) = "EOS"
           /\ Kind(Packet("RESPONSE", i, CONNECT_OK)) = "RESPONSE"
           /\ Kind(Packet("RESPONSE", i, CONNECT_UNKNOWN_SERVICE)) = "UNKNOWN"
  BY DEF Kind, Packet, CONNECT_OK, CONNECT_UNKNOWN_SERVICE

\* handle_pkt_connect.
LEMMA PiConnects ==
    ASSUME PiReady, NEW i \in Ids, PiConnect(i), r2a' = r2a, NEW A, NEW B,
           PiFits(i, A), A = B \cup {"CONNECT"}, "CONNECT" \notin B
    PROVE  PiDid(i, B)
<1>1. streams \in Seq(Stream) /\ Len(streams) \in Nat /\ DOMAIN chan = Ids
  <2>1. TypeOK  BY DEF PiReady
  <2> QED  BY <2>1, PiState
<1>2. chan[i] = NoChannel /\ R2AKinds(i) = {}  BY FitsConnectFirst DEF PiFits
<1>3. \A j \in Ids : R2AOrder(j)  BY DEF PiReady
<1>4. CASE /\ streams' = Append(streams, [id |-> i, state |-> "new", sent |-> <<>>,
                                          got |-> <<>>, reset |-> FALSE])
           /\ chan' = [chan EXCEPT ![i].stream = Len(streams) + 1]
  <2> DEFINE s == [id |-> i, state |-> "new", sent |-> <<>>, got |-> <<>>, reset |-> FALSE]
             d == [chan[i] EXCEPT !.stream = Len(streams) + 1]
  <2>1. s \in Stream /\ s.id = i /\ s.state = "new"
    <3>1. <<>> \in Seq(0 .. MaxData)  OBVIOUS
    <3> QED  BY <3>1 DEF Stream
  <2>2. /\ d.stream = Len(streams) + 1 /\ ~d.eosAmi /\ ~d.eosClient /\ d.pq = chan[i].pq
        /\ d.stream # 0
    BY <1>1, <1>2 DEF NoChannel
  <2>3. chan' = [chan EXCEPT ![i] = d] /\ streams' = Append(streams, s)
    BY <1>1, <1>4, Zenon
  <2> HIDE DEF s, d
  <2>4. StreamsOf(i) /\ streams'[Len(streams) + 1] = s
    BY <2>1, <2>3, StreamChanges DEF PiReady
  <2>5. chan'[i] = d /\ \A j \in Ids \ {i} : chan'[j] = chan[j]  BY <1>1, <2>3
  <2>6. OwnStream(i)' /\ StreamState(i)' = "new"
    BY <2>1, <2>2, <2>4, <2>5 DEF OwnStream, StreamState
  <2>7. Tells(i, {})
    <3>1. \A j \in Ids : chan'[j].pq = chan[j].pq  BY <2>2, <2>5
    <3> QED  BY <1>2, <1>3, <3>1, TellsSame
  <2>8. Fits(sock[i], Turn(i), B, {}, d, "new")  BY <2>2, FitsConnect DEF PiFits
  <2> QED  BY <2>3, <2>4, <2>6, <2>7, <2>8, PiDoes
<1>5. CASE /\ Enqueue(i, NoChannel, "RESPONSE", CONNECT_UNKNOWN_SERVICE)
           /\ UNCHANGED <<client, streams>>
  <2> DEFINE p == Packet("RESPONSE", i, CONNECT_UNKNOWN_SERVICE)
             q == Append(NoChannel.pq, p)
             d == [NoChannel EXCEPT !.pq = q]
  <2>1. p \in R2APackets({i}) /\ Kind(p) = "UNKNOWN"
    BY PacketTypes, PacketKinds
  <2>2. chan' = [chan EXCEPT ![i] = d]  BY <1>5, Zenon DEF Enqueue
  <2> HIDE DEF p
  <2>3. d.stream = 0 /\ ~d.eosAmi /\ ~d.eosClient /\ d.pq = Append(chan[i].pq, p)
    BY <1>2 DEF NoChannel
  <2> HIDE DEF d, q
  <2>4. chan'[i] = d /\ \A j \in Ids \ {i} : chan'[j] = chan[j]  BY <1>1, <2>2
  <2>5. Tells(i, {"UNKNOWN"})
    <3>1. Tells(i, R2AKinds(i) \cup {Kind(p)})
      BY <1>2, <1>3, <2>1, <2>3, <2>4, TellsMore DEF PiReady
    <3>2. R2AKinds(i) \cup {Kind(p)} = {"UNKNOWN"}  BY <1>2, <2>1
    <3> QED  BY <3>1, <3>2, Zenon
  <2>6. StreamsOf(i)  BY <1>5, StreamChanges DEF PiReady
  <2>7. OwnStream(i)' /\ StreamState(i)' = "none"  BY <2>3, <2>4 DEF OwnStream, StreamState
  <2>8. Fits(sock[i], Turn(i), B, {"UNKNOWN"}, d, "none")  BY <2>3, FitsConnect DEF PiFits
  <2> QED  BY <2>2, <2>5, <2>6, <2>7, <2>8, PiDoes
<1> QED  BY <1>4, <1>5 DEF PiConnect

\* A message to the client changes neither owner nor state of a stream.
LEMMA TellStreams ==
    ASSUME TypeOK, NEW i \in Ids, chan[i].stream # 0, NEW x, Tell(chan[i].stream, x)
    PROVE  /\ StreamsOf(i) /\ streams'[chan[i].stream].state = streams[chan[i].stream].state
<1> DEFINE t == chan[i].stream
           q == Append(streams[t].got, x)
           s == [streams[t] EXCEPT !.got = q]
<1>1. t \in 1 .. Len(streams) /\ streams[t] \in Stream /\ DOMAIN streams = 1 .. Len(streams)
  BY PiState
<1>2. streams' = [streams EXCEPT ![t] = s]  BY Zenon DEF Tell
<1> HIDE DEF q
<1>3. s.id = streams[t].id /\ s.state = streams[t].state  BY <1>1 DEF Stream
<1> HIDE DEF s, t
<1>4. streams'[t] = s /\ \A u \in 1 .. Len(streams) : u # t => streams'[u] = streams[u]
  BY <1>1, <1>2
<1> QED  BY <1>1, <1>3, <1>4 DEF StreamsOf, t

\* Nothing of the Pi changes but what the client has heard.
LEMMA PiKeeps ==
    ASSUME PiReady, NEW i \in Ids, NEW B, chan' = chan, r2a' = r2a, StreamsOf(i),
           StreamState(i)' = StreamState(i), PiFits(i, B)
    PROVE  PiDid(i, B)
<1>1. Tells(i, R2AKinds(i))  BY TellsSame DEF PiReady
<1>2. OwnStream(i)' /\ \A j \in Ids \ {i} : StreamState(j)' = StreamState(j) /\ OwnStream(j)'
  BY OthersStreams
<1>3. R2AKinds(i)' = R2AKinds(i)  BY <1>1 DEF Tells
<1>4. Fits(sock[i], Turn(i), B, R2AKinds(i)', chan'[i], StreamState(i)')
  BY <1>3, Zenon DEF PiFits
<1> QED  BY <1>1, <1>2, <1>4 DEF PiDid, Tells

\* handle_pkt_eos.
LEMMA PiEnds ==
    ASSUME PiReady, NEW i \in Ids, PiEos(i), r2a' = r2a, NEW A, NEW B,
           PiFits(i, A), A = B \cup {"EOS"}, "EOS" \notin B, "CONNECT" \notin B
    PROVE  PiDid(i, B)
<1> DEFINE c == chan[i]
           n == IF c.eosClient THEN 0 ELSE c.stream
           d == [c EXCEPT !.eosAmi = TRUE, !.stream = n]
           e == Tidy(d)
           st == StreamState(i)
           dt == IF c.eosClient THEN "none" ELSE st
<1>1. c \in Channel(i) /\ DOMAIN chan = Ids /\ c.stream # 0 /\ TypeOK
  <2>1. TypeOK  BY DEF PiReady
  <2> QED  BY <2>1, PiState DEF PiEos
<1>2. StreamsOf(i) /\ streams'[c.stream].state = streams[c.stream].state
  BY <1>1, TellStreams DEF PiEos
<1>3. chan' = [chan EXCEPT ![i] = e]  BY Zenon DEF PiEos
<1> HIDE DEF n
<1>4. d.stream = n /\ d.eosAmi /\ d.pq = c.pq /\ d.eosClient = c.eosClient
  BY <1>1 DEF Channel
<1> HIDE DEF d
<1>5. e.stream = n /\ e.pq = c.pq /\ (n # 0 => e.eosAmi /\ e.eosClient = c.eosClient)
  BY <1>4 DEF Tidy, NoChannel
<1>6. n = IF c.eosClient THEN 0 ELSE c.stream  BY DEF n
<1> HIDE DEF e
<1>7. chan'[i] = e /\ \A j \in Ids \ {i} : chan'[j] = chan[j]  BY <1>1, <1>3
<1>8. OwnStream(i)'
  <2>1. chan'[i].stream \in {0, chan[i].stream}  BY <1>5, <1>6, <1>7
  <2> QED  BY <1>2, <1>7, <2>1, OthersStreams
<1>9. StreamState(i)' = dt  BY <1>1, <1>2, <1>5, <1>6, <1>7 DEF StreamState
<1>10. Tells(i, R2AKinds(i))
  <2>1. \A j \in Ids : chan'[j].pq = chan[j].pq  BY <1>5, <1>7
  <2> QED  BY <2>1, TellsSame DEF PiReady
<1>11. Fits(sock[i], Turn(i), B, R2AKinds(i), e, dt)
  <2>1. Fits(sock[i], Turn(i), A, R2AKinds(i), c, st)  BY DEF PiFits
  <2>2. CASE c.eosClient
    <3>1. e.stream = 0 /\ dt = "none"  BY <1>5, <1>6, <2>2
    <3> HIDE DEF c, st, dt
    <3> QED  BY <1>1, <2>1, <2>2, <3>1, FitsEosTaken
  <2>3. CASE ~c.eosClient
    <3>1. e.stream = c.stream /\ dt = st /\ e.eosAmi /\ ~e.eosClient  BY <1>1, <1>5, <1>6, <2>3
    <3> HIDE DEF c, st, dt
    <3> QED  BY <1>1, <2>1, <2>3, <3>1, FitsEosTaken
  <2> QED  BY <2>2, <2>3
<1> HIDE DEF dt
<1> QED  BY <1>2, <1>3, <1>8, <1>9, <1>10, <1>11, PiDoes

\* Streams that are only marked as reset.
LEMMA ResetStreams ==
    ASSUME TypeOK, NEW i \in Ids, NEW b,
           streams' = [t \in DOMAIN streams |-> [streams[t] EXCEPT !.reset = @ \/ b[t]]]
    PROVE  \A t \in 1 .. Len(streams) : /\ streams'[t].id = streams[t].id
                                        /\ streams'[t].state = streams[t].state
<1>1. DOMAIN streams = 1 .. Len(streams) /\ \A t \in 1 .. Len(streams) : streams[t] \in Stream
  BY DEF TypeOK
<1>2. ASSUME NEW t \in 1 .. Len(streams)
      PROVE  /\ streams'[t].id = streams[t].id /\ streams'[t].state = streams[t].state
  <2> DEFINE r == streams[t].reset \/ b[t]
  <2>1. streams'[t] = [streams[t] EXCEPT !.reset = r]  BY <1>1, <1>2, Zenon
  <2> HIDE DEF r
  <2> QED  BY <1>1, <2>1 DEF Stream
<1> QED  BY <1>2

\* handle_pkt_reset.
LEMMA PiResets ==
    ASSUME PiReady, NEW i \in Ids, PiReset(i), r2a' = r2a, NEW A, NEW B,
           PiFits(i, A), A = B \cup {"RESET"}, "CONNECT" \notin B
    PROVE  PiDid(i, B)
<1> DEFINE b == [t \in DOMAIN streams |-> t = chan[i].stream]
<1>1. streams' = [t \in DOMAIN streams |-> [streams[t] EXCEPT !.reset = @ \/ b[t]]]
  BY Zenon DEF PiReset
<1> HIDE DEF b
<1>2. StreamsOf(i)  BY <1>1, ResetStreams DEF StreamsOf, PiReady
<1>3. chan' = [chan EXCEPT ![i] = NoChannel] /\ DOMAIN chan = Ids
  BY DEF PiReset, PiReady, TypeOK
<1>4. chan'[i] = NoChannel /\ \A j \in Ids \ {i} : chan'[j] = chan[j]  BY <1>3
<1>5. OwnStream(i)' /\ StreamState(i)' = "none" /\ chan'[i].pq = <<>>
  BY <1>4 DEF OwnStream, StreamState, NoChannel
<1>6. R2AKinds(i)' \subseteq R2AKinds(i) /\ R2AOrder(i)'
  BY <1>5, TellsReset DEF PiReady
<1>7. Tells(i, R2AKinds(i)')
  BY <1>4, <1>6 DEF Tells, R2AKinds, R2AOrder, PiReady
<1>8. Fits(sock[i], Turn(i), B, R2AKinds(i)', NoChannel, "none")
  BY <1>6, FitsResetTaken DEF PiFits
<1> QED  BY <1>2, <1>3, <1>5, <1>7, <1>8, PiDoes

\* handle_received_pkt: what A says is what is left of it, B, and the packet.
LEMMA PiReceives ==
    ASSUME PiReady, PiReceive, NEW i \in Ids, i = Head(a2r).id, NEW A, NEW B,
           PiFits(i, A), A = B \cup {Head(a2r).type}, "CONNECT" \notin B,
           Head(a2r).type = "EOS" => "EOS" \notin B
    PROVE  PiDid(i, B)
<1> DEFINE p == Head(a2r)
<1>1. r2a' = r2a /\ TypeOK /\ p.id = i  BY DEF PiReceive, PiReady
<1>2. A = B \cup {p.type} /\ (p.type = "EOS" => "EOS" \notin B)  OBVIOUS
<1>3. \/ p.type = "CONNECT" /\ PiConnect(i)
      \/ p.type = "DATA" /\ PiData(i, p.x)
      \/ p.type = "EOS" /\ PiEos(i)
      \/ p.type = "RESET" /\ PiReset(i)
      \/ /\ p.type \in {"DATA", "EOS"} /\ (chan[i].stream = 0 \/ chan[i].eosAmi)
         /\ UNCHANGED piVars
      \/ p.type = "RESET" /\ ~Exists(i) /\ UNCHANGED piVars
  BY <1>1, Zenon DEF PiReceive
<1> HIDE DEF p
<1>4. CASE p.type = "CONNECT" /\ PiConnect(i)  BY <1>1, <1>2, <1>4, PiConnects
<1>5. CASE p.type = "DATA" /\ PiData(i, p.x)
  <2>1. /\ StreamsOf(i) /\ streams'[chan[i].stream].state = streams[chan[i].stream].state
    BY <1>1, <1>5, TellStreams DEF PiData
  <2>2. chan' = chan  BY <1>5 DEF PiData
  <2>3. StreamState(i)' = StreamState(i)  BY <2>1, <2>2 DEF StreamState
  <2>4. PiFits(i, B)  BY <1>2, <1>5, FitsDataTaken DEF PiFits
  <2> QED  BY <1>1, <2>1, <2>2, <2>3, <2>4, PiKeeps
<1>6. CASE p.type = "EOS" /\ PiEos(i)  BY <1>1, <1>2, <1>6, PiEnds
<1>7. CASE p.type = "RESET" /\ PiReset(i)  BY <1>1, <1>2, <1>7, PiResets
<1>8. ASSUME UNCHANGED piVars, PiFits(i, B) PROVE PiDid(i, B)
  <2>1. chan' = chan /\ streams' = streams  BY <1>8 DEF piVars
  <2>2. StreamsOf(i) /\ StreamState(i)' = StreamState(i)
    BY <1>1, <2>1, StreamChanges DEF StreamState
  <2> QED  BY <1>1, <1>8, <2>1, <2>2, PiKeeps
<1>9. CASE /\ p.type \in {"DATA", "EOS"} /\ (chan[i].stream = 0 \/ chan[i].eosAmi)
           /\ UNCHANGED piVars
  <2>1. CASE p.type = "DATA"
    <3>1. PiFits(i, B)  BY <1>2, <2>1, FitsDataTaken DEF PiFits
    <3> QED  BY <1>8, <1>9, <3>1
  <2>2. CASE p.type = "EOS"
    <3>1. PiFits(i, B)  BY <1>2, <1>9, <2>2, FitsEosDropped DEF PiFits
    <3> QED  BY <1>8, <1>9, <3>1
  <2> QED  BY <1>9, <2>1, <2>2
<1>10. CASE p.type = "RESET" /\ ~Exists(i) /\ UNCHANGED piVars
  <2>1. PiFits(i, B)
    <3>1. chan[i].stream = 0  BY <1>10 DEF Exists
    <3>2. A = B \cup {"RESET"}  BY <1>2, <1>10
    <3> QED  BY <3>1, <3>2, FitsResetDropped DEF PiFits
  <2> QED  BY <1>8, <1>10, <2>1
<1> QED  BY <1>3, <1>4, <1>5, <1>6, <1>7, <1>9, <1>10

\* One turn of flush_send_queue.
LEMMA PiFlushes ==
    ASSUME PiReady, PiFlush, NEW i \in Ids, i = Head(send_queue), NEW A, PiFits(i, A)
    PROVE  PiDid(i, A)
<1> DEFINE c == chan[i]
           q == Tail(c.pq)
           d == [c EXCEPT !.pq = q]
           e == Tidy(d)
<1>1. c \in Channel(i) /\ DOMAIN chan = Ids /\ TypeOK
  <2>1. TypeOK  BY DEF PiReady
  <2> QED  BY <2>1, PiState
<1>2. c.pq # <<>>
  <2>1. send_queue # <<>> /\ send_queue \in Seq(Ids)  BY <1>1 DEF PiFlush, TypeOK
  <2>2. i \in ToSet(send_queue)  BY <2>1, QueueTail
  <2> QED  BY <2>2 DEF PiReady, PiQueueSound
<1>3. chan' = [chan EXCEPT ![i] = e] /\ streams' = streams /\ r2a' = Append(r2a, Head(c.pq))
  BY Zenon DEF PiFlush
<1> HIDE DEF q
<1>4. d.stream = c.stream /\ d.eosAmi = c.eosAmi /\ d.eosClient = c.eosClient /\ d.pq = q
  BY <1>1 DEF Channel
<1> HIDE DEF d
<1>5. /\ e.stream = c.stream /\ e.pq = q
      /\ (e = NoChannel /\ c.stream = 0) \/ (e.eosAmi = c.eosAmi /\ e.eosClient = c.eosClient)
  BY <1>4 DEF Tidy, NoChannel
<1> HIDE DEF e
<1>6. chan'[i] = e /\ \A j \in Ids \ {i} : chan'[j] = chan[j]  BY <1>1, <1>3
<1>7. StreamsOf(i)  BY <1>1, <1>3, StreamChanges
<1>8. OwnStream(i)' /\ StreamState(i)' = StreamState(i)
  <2>1. OwnStream(i)  BY DEF PiReady
  <2> QED  BY <1>3, <1>5, <1>6, <2>1 DEF OwnStream, StreamState
<1>9. Tells(i, R2AKinds(i)) /\ R2AKinds(i) # {}
  <2>1. chan'[i].pq = Tail(chan[i].pq)  BY <1>5, <1>6 DEF q
  <2>2. \A j \in Ids : R2AOrder(j)  BY DEF PiReady
  <2> QED  BY <1>1, <1>2, <1>3, <1>6, <2>1, <2>2, TellsFlushed
<1>10. Fits(sock[i], Turn(i), A, R2AKinds(i), e, StreamState(i))
  <2>1. Fits(sock[i], Turn(i), A, R2AKinds(i), c, StreamState(i))  BY DEF PiFits
  <2> HIDE DEF c
  <2> QED  BY <1>5, <1>9, <2>1, FitsFlushed
<1> QED  BY <1>3, <1>7, <1>8, <1>9, <1>10, PiDoes

-----------------------------------------------------------------------------
\* The client's messages.

\* A stream on its way from state to state stays i's.
LEMMA StreamMoves ==
    ASSUME TypeOK, NEW i \in Ids, chan[i].stream # 0,
           NEW st \in {"new", "ok", "eos", "done"}, NEW x \in 0 .. MaxData,
           LET t == chan[i].stream
           IN \/ streams' = [streams EXCEPT ![t].state = st]
              \/ streams' = [streams EXCEPT ![t].state = st, ![t].sent = Append(@, x)]
              \/ streams' = [streams EXCEPT ![t].sent = Append(@, x)] /\ st = streams[t].state
    PROVE  StreamsOf(i) /\ streams'[chan[i].stream].state = st
<1> DEFINE t == chan[i].stream
           q == Append(streams[t].sent, x)
<1>1. t \in 1 .. Len(streams) /\ streams[t] \in Stream /\ DOMAIN streams = 1 .. Len(streams)
  BY PiState
<1>2. q \in Seq(0 .. MaxData)  BY <1>1 DEF Stream
<1>3. [streams[t] EXCEPT !.state = st].sent = streams[t].sent  BY <1>1 DEF Stream
<1>4. \/ streams' = [streams EXCEPT ![t] = [streams[t] EXCEPT !.state = st]]
      \/ streams' = [streams EXCEPT ![t] = [streams[t] EXCEPT !.state = st, !.sent = q]]
      \/ streams' = [streams EXCEPT ![t] = [streams[t] EXCEPT !.sent = q]] /\ st = streams[t].state
  BY <1>1, <1>3
<1> HIDE DEF q
<1> DEFINE a == [streams[t] EXCEPT !.state = st]
           b == [streams[t] EXCEPT !.state = st, !.sent = q]
           c == [streams[t] EXCEPT !.sent = q]
<1>5. /\ a \in Stream /\ a.id = streams[t].id /\ a.state = st
      /\ b \in Stream /\ b.id = streams[t].id /\ b.state = st
      /\ c \in Stream /\ c.id = streams[t].id /\ c.state = streams[t].state
  <2> HIDE DEF t
  <2> QED  BY <1>1, <1>2 DEF Stream
<1>6. \/ streams' = [streams EXCEPT ![t] = a]
      \/ streams' = [streams EXCEPT ![t] = b]
      \/ streams' = [streams EXCEPT ![t] = c] /\ st = streams[t].state
  BY <1>4, Zenon
<1> HIDE DEF a, b, c
<1>7. \E s \in Stream : /\ streams' = [streams EXCEPT ![t] = s]
                        /\ s.id = streams[t].id /\ s.state = st
  BY <1>5, <1>6, Zenon
<1>8. PICK s \in Stream : /\ streams' = [streams EXCEPT ![t] = s]
                         /\ s.id = streams[t].id /\ s.state = st
  BY <1>7, Zenon
<1>9. StreamsOf(i) /\ streams'[t] = s  BY <1>1, <1>8, StreamChanges, Zenon
<1> QED  BY <1>8, <1>9, Zenon

\* A channel that is d but for what it has to send fits.
FitsAs(i, d, Q, st) ==
    \A e : /\ e.stream = d.stream /\ e.eosAmi = d.eosAmi /\ e.eosClient = d.eosClient
           => Fits(sock[i], Turn(i), A2RKinds(i), Q, e, st)

\* A message of the client becomes a packet: the channel, which is d but for it, stays
\* associated or goes, and the stream is in state st.
LEMMA ClientSends ==
    ASSUME PiReady, NEW i \in Ids, chan[i].stream # 0, r2a' = r2a, StreamsOf(i),
           NEW type, NEW x, Packet(type, i, x) \in R2APackets({i}),
           NEW d, d \in Channel(i), d.pq = chan[i].pq, d.stream \in {0, chan[i].stream},
           Enqueue(i, d, type, x),
           NEW k, Kind(Packet(type, i, x)) = k, k \in Answers => R2AKinds(i) = {},
           NEW st, st = IF d.stream = 0 THEN "none" ELSE streams'[chan[i].stream].state,
           FitsAs(i, d, R2AKinds(i) \cup {k}, st)
    PROVE  PiDid(i, A2RKinds(i))
<1> DEFINE p == Packet(type, i, x)
           q == Append(d.pq, p)
           e == [d EXCEPT !.pq = q]
<1>1. TypeOK /\ DOMAIN chan = Ids
  <2>1. TypeOK  BY DEF PiReady
  <2> QED  BY <2>1, PiState
<1>2. p \in R2APackets({i}) /\ k = Kind(p)  OBVIOUS
<1>3. chan' = [chan EXCEPT ![i] = e]  BY Zenon DEF Enqueue
<1>4. /\ e.stream = d.stream /\ e.eosAmi = d.eosAmi /\ e.eosClient = d.eosClient
      /\ e.pq = Append(chan[i].pq, p)
  <2> HIDE DEF p
  <2> QED  BY DEF Channel
<1> HIDE DEF p, q, e
<1>5. chan'[i] = e /\ \A j \in Ids \ {i} : chan'[j] = chan[j]  BY <1>1, <1>3
<1>6. Tells(i, R2AKinds(i) \cup {Kind(p)})
  <2>1. \A j \in Ids : R2AOrder(j)  BY DEF PiReady
  <2> QED  BY <1>1, <1>2, <1>4, <1>5, <2>1, TellsMore
<1>7. OwnStream(i)'  BY <1>4, <1>5, OthersStreams
<1>8. StreamState(i)' = st  BY <1>4, <1>5 DEF StreamState
<1>9. Fits(sock[i], Turn(i), A2RKinds(i), R2AKinds(i) \cup {Kind(p)}, e, st)
  BY <1>2, <1>4, Zenon DEF FitsAs
<1> QED  BY <1>3, <1>6, <1>7, <1>8, <1>9, PiDoes

\* handle_msg_connect_response.
LEMMA PiResponds ==
    ASSUME PiReady, NEW i \in Ids, ClientResponse(i), PiFits(i, A2RKinds(i))
    PROVE  PiDid(i, A2RKinds(i))
<1> DEFINE c == chan[i]
           t == c.stream
           d == [c EXCEPT !.stream = 0]
           A == A2RKinds(i)
           R == R2AKinds(i)
<1>1. c \in Channel(i) /\ t # 0 /\ r2a' = r2a /\ TypeOK /\ 0 \in 0 .. MaxData
  <2>1. TypeOK  BY DEF PiReady
  <2> QED  BY <2>1, PiState, ChannelAssumption DEF ClientResponse, ringVars
<1>2. Fits(sock[i], Turn(i), A, R, c, "new")
  BY <1>1 DEF PiFits, StreamState, ClientResponse
<1>3. d \in Channel(i) /\ d.stream = 0 /\ d.pq = c.pq /\ d.eosAmi = c.eosAmi /\ d.eosClient = c.eosClient
  <2>1. 0 \in 0 .. Len(streams)  BY <1>1, PiState
  <2> HIDE DEF c
  <2> QED  BY <1>1, <2>1 DEF Channel
<1> HIDE DEF d
<1>4. R = {}  BY <1>1, <1>2, <1>3, FitsNewSilent
<1>5. \/ Enqueue(i, c, "RESPONSE", CONNECT_OK) /\ streams' = [streams EXCEPT ![t].state = "ok"]
      \/ /\ Enqueue(i, d, "RESPONSE", CONNECT_UNKNOWN_SERVICE)
         /\ streams' = [streams EXCEPT ![t].state = "done"]
  BY Zenon DEF ClientResponse, d
<1>6. /\ Packet("RESPONSE", i, CONNECT_OK) \in R2APackets({i})
      /\ Packet("RESPONSE", i, CONNECT_UNKNOWN_SERVICE) \in R2APackets({i})
      /\ Kind(Packet("RESPONSE", i, CONNECT_OK)) = "RESPONSE"
      /\ Kind(Packet("RESPONSE", i, CONNECT_UNKNOWN_SERVICE)) = "UNKNOWN"
  BY PacketTypes, PacketKinds
<1>7. CASE Enqueue(i, c, "RESPONSE", CONNECT_OK) /\ streams' = [streams EXCEPT ![t].state = "ok"]
  <2>1. StreamsOf(i) /\ streams'[t].state = "ok"  BY <1>1, <1>7, StreamMoves
  <2>2. FitsAs(i, c, R \cup {"RESPONSE"}, "ok")
    BY <1>1, <1>2, FitsResponse DEF FitsAs
  <2>3. "ok" = IF c.stream = 0 THEN "none" ELSE streams'[chan[i].stream].state  BY <1>1, <2>1
  <2> HIDE DEF A, R
  <2> QED  BY <1>1, <1>4, <1>6, <1>7, <2>1, <2>2, <2>3, ClientSends DEF A, R
<1>8. CASE /\ Enqueue(i, d, "RESPONSE", CONNECT_UNKNOWN_SERVICE)
           /\ streams' = [streams EXCEPT ![t].state = "done"]
  <2>1. StreamsOf(i)  BY <1>1, <1>8, StreamMoves
  <2>2. FitsAs(i, d, R \cup {"UNKNOWN"}, "none")
    BY <1>1, <1>2, <1>3, FitsResponse DEF FitsAs
  <2>3. "none" = IF d.stream = 0 THEN "none" ELSE streams'[chan[i].stream].state  BY <1>3
  <2> QED  BY <1>1, <1>3, <1>4, <1>6, <1>8, <2>1, <2>2, <2>3, ClientSends
<1> QED  BY <1>5, <1>7, <1>8

\* handle_msg_data.
LEMMA PiTakesData ==
    ASSUME PiReady, NEW i \in Ids, ClientData(i), PiFits(i, A2RKinds(i))
    PROVE  PiDid(i, A2RKinds(i))
<1> DEFINE c == chan[i]
           t == c.stream
           x == Len(streams[t].sent) + 1
<1>1. c \in Channel(i) /\ t # 0 /\ t \in 1 .. Len(streams) /\ r2a' = r2a /\ TypeOK
  <2>1. TypeOK  BY DEF PiReady
  <2> QED  BY <2>1, PiState DEF ClientData, ringVars
<1>2. Fits(sock[i], Turn(i), A2RKinds(i), R2AKinds(i), c, "ok") /\ streams[t].state = "ok"
  BY <1>1 DEF PiFits, StreamState, ClientData
<1>3. Enqueue(i, c, "DATA", x) /\ streams' = [streams EXCEPT ![t].sent = Append(@, x)]
  BY Zenon DEF ClientData
<1>4. x \in 1 .. MaxData /\ x \in 0 .. MaxData  BY <1>1, SentTypes DEF ClientData
<1>5. Packet("DATA", i, x) \in R2APackets({i}) /\ Kind(Packet("DATA", i, x)) = "DATA"
  BY <1>4, PacketTypes, PacketKinds
<1> HIDE DEF x
<1>6. StreamsOf(i) /\ streams'[t].state = "ok"  BY <1>1, <1>2, <1>3, <1>4, StreamMoves
<1>7. FitsAs(i, c, R2AKinds(i) \cup {"DATA"}, "ok")
  BY <1>1, <1>2, FitsClientData DEF FitsAs
<1>8. "DATA" \notin Answers  BY DEF Answers
<1>9. "ok" = IF c.stream = 0 THEN "none" ELSE streams'[chan[i].stream].state  BY <1>1, <1>6
<1> QED  BY <1>1, <1>3, <1>5, <1>6, <1>7, <1>8, <1>9, ClientSends

\* handle_msg_eos.
LEMMA PiTakesEos ==
    ASSUME PiReady, NEW i \in Ids, ClientEos(i), PiFits(i, A2RKinds(i))
    PROVE  PiDid(i, A2RKinds(i))
<1> DEFINE c == chan[i]
           t == c.stream
           n == IF c.eosAmi THEN 0 ELSE t
           d == [c EXCEPT !.eosClient = TRUE, !.stream = n]
           st == IF c.eosAmi THEN "none" ELSE "eos"
<1>1. c \in Channel(i) /\ t # 0 /\ t \in 1 .. Len(streams) /\ r2a' = r2a /\ TypeOK
  <2>1. TypeOK  BY DEF PiReady
  <2> QED  BY <2>1, PiState DEF ClientEos, ringVars
<1>2. Fits(sock[i], Turn(i), A2RKinds(i), R2AKinds(i), c, "ok")
  BY <1>1 DEF PiFits, StreamState, ClientEos
<1>3. /\ Enqueue(i, d, "EOS", 0)
      /\ streams' = [streams EXCEPT ![t].state = "eos", ![t].sent = Append(@, EOS)]
  BY Zenon DEF ClientEos
<1>4. EOS \in 0 .. MaxData  BY ChannelAssumption DEF EOS
<1>5. Packet("EOS", i, 0) \in R2APackets({i}) /\ Kind(Packet("EOS", i, 0)) = "EOS"
  BY PacketTypes, PacketKinds
<1>6. /\ d \in Channel(i) /\ d.stream = n /\ d.pq = c.pq /\ d.eosAmi = c.eosAmi /\ d.eosClient
      /\ n \in {0, t}
  <2>1. n \in 0 .. Len(streams) /\ n \in {0, t}  BY <1>1, PiState
  <2> HIDE DEF n, c
  <2> QED  BY <1>1, <2>1 DEF Channel
<1> HIDE DEF d
<1>7. StreamsOf(i) /\ streams'[t].state = "eos"  BY <1>1, <1>3, <1>4, StreamMoves
<1>8. FitsAs(i, d, R2AKinds(i) \cup {"EOS"}, st)
  <2>1. SUFFICES ASSUME NEW e, e.stream = n, e.eosAmi = c.eosAmi, e.eosClient
                 PROVE  Fits(sock[i], Turn(i), A2RKinds(i), R2AKinds(i) \cup {"EOS"}, e, st)
    BY <1>6 DEF FitsAs
  <2>2. IF c.eosAmi THEN e.stream = 0 /\ st = "none" ELSE e.stream = c.stream /\ st = "eos"
    BY <2>1
  <2> HIDE DEF st, c
  <2> QED  BY <1>1, <1>2, <2>1, <2>2, FitsClientEos
<1>9. "EOS" \notin Answers  BY DEF Answers
<1>10. st = IF d.stream = 0 THEN "none" ELSE streams'[chan[i].stream].state
  BY <1>1, <1>6, <1>7
<1> HIDE DEF st
<1> QED  BY <1>1, <1>3, <1>5, <1>6, <1>7, <1>8, <1>9, <1>10, ClientSends

\* A channel that its client gives up, by handle_msg_reset or because it is gone.
LEMMA GivenUpFits ==
    ASSUME PiReady, NEW i \in Ids, chan[i].stream # 0, chan'[i] = GivenUp(i), r2a' = r2a,
           PiFits(i, A2RKinds(i))
    PROVE  /\ Fits(sock[i], Turn(i), A2RKinds(i), R2AKinds(i)', chan'[i], StreamState(i)')
           /\ OwnStream(i)' /\ R2AOrder(i)'
<1> DEFINE c == chan[i]
           q == <<Packet("RESET", i, 0)>>
           d == [c EXCEPT !.stream = 0, !.pq = q]
<1>1. c \in Channel(i)
  <2>1. TypeOK  BY DEF PiReady
  <2> QED  BY <2>1, PiState
<1>2. chan'[i] = d  BY Zenon DEF GivenUp
<1> HIDE DEF q
<1>3. d.stream = 0 /\ d.eosAmi = c.eosAmi /\ d.pq = q
  <2> HIDE DEF c
  <2> QED  BY <1>1 DEF Channel
<1> HIDE DEF d
<1>4. OwnStream(i)' /\ StreamState(i)' = "none" /\ chan'[i].pq = <<Packet("RESET", i, 0)>>
  BY <1>2, <1>3 DEF OwnStream, StreamState, q
<1>5. /\ R2AKinds(i)' \subseteq R2AKinds(i) \cup {"RESET"}
      /\ "RESET" \in R2AKinds(i)' /\ R2AOrder(i)'
  BY <1>4, TellsReset DEF PiReady
<1>6. Fits(sock[i], Turn(i), A2RKinds(i), R2AKinds(i)', d, "none")
  <2>1. Fits(sock[i], Turn(i), A2RKinds(i), R2AKinds(i), c, StreamState(i))  BY DEF PiFits
  <2> HIDE DEF c
  <2>2. c.stream # 0  BY DEF c
  <2> QED  BY <1>3, <1>5, <2>1, <2>2, FitsGivenUp
<1>7. Fits(sock[i], Turn(i), A2RKinds(i), R2AKinds(i)', chan'[i], StreamState(i)')
  BY <1>2, <1>4, <1>6, Zenon
<1> QED  BY <1>4, <1>5, <1>7

\* handle_msg_reset.
LEMMA PiGivesUp ==
    ASSUME PiReady, NEW i \in Ids, ClientReset(i), PiFits(i, A2RKinds(i))
    PROVE  PiDid(i, A2RKinds(i))
<1>1. chan[i].stream # 0 /\ r2a' = r2a /\ TypeOK /\ 0 \in 0 .. MaxData /\ DOMAIN chan = Ids
  <2>1. TypeOK  BY DEF PiReady
  <2> QED  BY <2>1, PiState, ChannelAssumption DEF ClientReset, ringVars
<1>2. chan'[i] = GivenUp(i) /\ \A j \in Ids \ {i} : chan'[j] = chan[j]
  BY <1>1 DEF ClientReset
<1>3. streams' = [streams EXCEPT ![chan[i].stream].state = "done"]  BY DEF ClientReset
<1>4. StreamsOf(i)  BY <1>1, <1>3, StreamMoves
<1>5. \A j \in Ids \ {i} : StreamState(j)' = StreamState(j) /\ OwnStream(j)'
  BY <1>2, <1>4, OthersStreams
<1>6. \A j \in Ids \ {i} : R2AKinds(j)' = R2AKinds(j) /\ R2AOrder(j)'
  BY <1>1, <1>2 DEF R2AKinds, R2AOrder, PiReady
<1>7. /\ Fits(sock[i], Turn(i), A2RKinds(i), R2AKinds(i)', chan'[i], StreamState(i)')
      /\ OwnStream(i)' /\ R2AOrder(i)'
  BY <1>1, <1>2, GivenUpFits
<1> QED  BY <1>2, <1>5, <1>6, <1>7 DEF PiDid

-----------------------------------------------------------------------------
\* Together.

\* What holds of the connections while the session lasts.
AllFit == NoDuplicates(sendq) /\ \A i \in Ids : Conn(i)

\* What a step starts from.
LEMMA Ready ==
    ASSUME TypeInv, AllFit
    PROVE  /\ DriverReady /\ PiReady /\ next \in Nat
           /\ \A j \in Ids : /\ Fitting(j, R2AKinds(j), chan[j], StreamState(j))
                             /\ PiFits(j, A2RKinds(j))
<1>1. next \in Nat  BY ChannelAssumption DEF TypeInv, TypeOK
<1> QED
  BY <1>1 DEF TypeInv, AllFit, Conn, DriverReady, PiReady, Fitting, PiFits

\* An id that has anything has been given out.
LEMMA GivenOut ==
    ASSUME TypeInv, AllFit, NEW i \in Ids,
           \/ sock[i].state # "free" \/ chan[i].stream # 0 \/ chan[i].pq # <<>>
           \/ A2RKinds(i) # {} \/ R2AKinds(i) # {} \/ Turn(i) = "waits"
    PROVE  i < next
<1>1. next \in Nat /\ i \in Nat  BY ChannelAssumption DEF TypeInv, TypeOK, Ids
<1>2. Unused(i) /\ WaitInv(sock[i], Turn(i))  BY DEF AllFit, Conn, Fits
<1>3. ~HasNothingToSend(Free) => FALSE  BY DEF HasNothingToSend, Free
<1>4. ~(i >= next)  BY <1>2, <1>3 DEF Unused, Free, NoChannel, WaitInv
<1> QED  BY <1>1, <1>4

\* A step of the driver.
LEMMA DriverStep ==
    ASSUME TypeInv, AllFit, NEW i \in Ids, UNCHANGED <<chan, streams>>, Tells(i, R2AKinds(i)'),
           DriverDid(i, R2AKinds(i)', chan[i], StreamState(i)),
           next' \in {next, next + 1}, i < next'
    PROVE  AllFit'
<1>1. next \in Nat /\ next' \in Nat /\ next <= next'  BY Ready
<1>2. \A j \in Ids : StreamState(j)' = StreamState(j) /\ OwnStream(j)' /\ chan'[j] = chan[j]
  BY DEF StreamState, OwnStream, AllFit, Conn
<1>3. ASSUME NEW j \in Ids \ {i} PROVE Conn(j)'
  <2>1. Conn(j)  BY <1>3 DEF AllFit
  <2>2. /\ sock'[j] = sock[j] /\ Turn(j)' = Turn(j) /\ A2RKinds(j)' = A2RKinds(j) /\ A2ROrder(j)'
        /\ R2AKinds(j)' = R2AKinds(j) /\ R2AOrder(j)'
    BY <1>3 DEF DriverDid, Tells
  <2>3. Fits(sock'[j], Turn(j)', A2RKinds(j)', R2AKinds(j)', chan'[j], StreamState(j)')
    BY <1>2, <2>1, <2>2, Zenon DEF Conn
  <2>4. Unused(j)'
    <3>1. j >= next' => j >= next  BY <1>1, <1>3 DEF Ids
    <3> QED  BY <1>2, <2>1, <2>2, <3>1 DEF Conn, Unused
  <2> QED  BY <1>2, <1>3, <2>2, <2>3, <2>4 DEF Conn
<1>4. Conn(i)'
  <2>1. Fits(sock'[i], Turn(i)', A2RKinds(i)', R2AKinds(i)', chan'[i], StreamState(i)')
    BY <1>2, Zenon DEF DriverDid
  <2>2. Unused(i)'
    <3>1. ~(i >= next')  BY <1>1 DEF Ids
    <3> QED  BY <3>1 DEF Unused
  <2> QED  BY <1>2, <2>1, <2>2 DEF Conn, DriverDid, Tells
<1> QED  BY <1>3, <1>4 DEF AllFit, DriverDid

\* A step of the Pi.
LEMMA PiStep ==
    ASSUME TypeInv, AllFit, NEW i \in Ids, UNCHANGED <<sock, sendq, next>>,
           NEW B, Says(i, B), PiDid(i, B), i < next
    PROVE  AllFit'
<1>1. next \in Nat  BY Ready
<1>2. \A j \in Ids : Turn(j)' = Turn(j) /\ sock'[j] = sock[j]  BY DEF Turn
<1>3. ASSUME NEW j \in Ids \ {i} PROVE Conn(j)'
  <2>1. Conn(j)  BY <1>3 DEF AllFit
  <2>2. /\ chan'[j] = chan[j] /\ StreamState(j)' = StreamState(j) /\ R2AKinds(j)' = R2AKinds(j)
        /\ OwnStream(j)' /\ R2AOrder(j)' /\ A2RKinds(j)' = A2RKinds(j) /\ A2ROrder(j)'
    BY <1>3 DEF PiDid, Says
  <2>3. Fits(sock'[j], Turn(j)', A2RKinds(j)', R2AKinds(j)', chan'[j], StreamState(j)')
    BY <1>2, <2>1, <2>2, Zenon DEF Conn
  <2>4. Unused(j)'  BY <1>2, <2>1, <2>2 DEF Conn, Unused
  <2> QED  BY <1>3, <2>2, <2>3, <2>4 DEF Conn
<1>4. Conn(i)'
  <2>1. Fits(sock'[i], Turn(i)', A2RKinds(i)', R2AKinds(i)', chan'[i], StreamState(i)')
    BY <1>2, Zenon DEF PiDid, Says
  <2>2. Unused(i)'
    <3>1. ~(i >= next')  BY <1>1 DEF Ids
    <3> QED  BY <3>1 DEF Unused
  <2> QED  BY <2>1, <2>2 DEF Conn, PiDid, Says
<1>5. NoDuplicates(sendq')  BY DEF AllFit
<1> QED  BY <1>3, <1>4, <1>5 DEF AllFit

\* Requests of the application.
LEMMA AppSteps ==
    ASSUME TypeInv, AllFit, NEW i \in Ids, AppRead(i) \/ AppWrite(i) \/ AppEos(i) \/ AppReset(i)
    PROVE  AllFit'
<1>1. DriverReady /\ Fitting(i, R2AKinds(i), chan[i], StreamState(i)) /\ next \in Nat
  BY Ready
<1>2. DriverDid(i, R2AKinds(i), chan[i], StreamState(i))
  <2>1. CASE AppRead(i)  BY <1>1, <2>1, DriverReads
  <2>2. CASE AppWrite(i)  BY <1>1, <2>2, DriverWrites
  <2>3. CASE AppEos(i)  BY <1>1, <2>3, DriverEnds
  <2>4. CASE AppReset(i)  BY <1>1, <2>4, DriverCloses DEF AppReset
  <2> QED  BY <2>1, <2>2, <2>3, <2>4
<1>3. /\ next' = next /\ chan' = chan /\ streams' = streams /\ r2a' = r2a /\ Open(i)
  BY DEF AppRead, AppWrite, AppEos, AppReset, piVars
<1>4. i < next  BY <1>3, GivenOut DEF Open
<1>5. Tells(i, R2AKinds(i)) /\ R2AKinds(i)' = R2AKinds(i)
  BY <1>3, TellsSame DEF AllFit, Conn, Tells
<1>6. Tells(i, R2AKinds(i)') /\ DriverDid(i, R2AKinds(i)', chan[i], StreamState(i))
  BY <1>2, <1>5, Zenon
<1> QED  BY <1>3, <1>4, <1>6, DriverStep

\* A connection is asked for.
LEMMA ConnectStep ==
    ASSUME TypeInv, AllFit, NEW n \in Sockets, AppConnect(n)
    PROVE  AllFit'
<1>1. PICK i \in Ids : i = next  BY DEF AppConnect
<1>2. DriverReady /\ Fitting(i, R2AKinds(i), chan[i], StreamState(i)) /\ next \in Nat
  BY Ready
<1>3. sock[i] = Free /\ chan[i] = NoChannel /\ A2RKinds(i) = {} /\ R2AKinds(i) = {}
  BY <1>1, <1>2 DEF AllFit, Conn, Unused
<1>4. Fitting(i, {}, chan[i], StreamState(i))  BY <1>2, <1>3, Zenon
<1>5. DriverDid(i, {}, chan[i], StreamState(i))
  BY <1>1, <1>2, <1>3, <1>4, DriverConnects
<1>6. /\ next' = next + 1 /\ chan' = chan /\ streams' = streams /\ r2a' = r2a
  BY DEF AppConnect, piVars
<1>7. Tells(i, R2AKinds(i)) /\ R2AKinds(i)' = R2AKinds(i)
  BY <1>6, TellsSame DEF AllFit, Conn, Tells
<1>8. Tells(i, R2AKinds(i)') /\ DriverDid(i, R2AKinds(i)', chan[i], StreamState(i))
  BY <1>3, <1>5, <1>7, Zenon
<1>9. i < next'  BY <1>1, <1>2, <1>6
<1> QED  BY <1>6, <1>8, <1>9, DriverStep

\* The driver sends for the first socket of its queue.
LEMMA SendStep ==
    ASSUME TypeInv, AllFit, DriverSend
    PROVE  AllFit'
<1>1. sendq # <<>> /\ sendq \in Seq(Ids)  BY DEF DriverSend, TypeInv, TypeOK
<1>2. PICK i \in Ids : i = Head(sendq)  BY <1>1
<1>3. DriverReady /\ Fitting(i, R2AKinds(i), chan[i], StreamState(i)) /\ next \in Nat
  BY Ready
<1>4. DriverDid(i, R2AKinds(i), chan[i], StreamState(i))  BY <1>2, <1>3, DriverSends
<1>5. /\ next' = next /\ chan' = chan /\ streams' = streams /\ r2a' = r2a
  BY DEF DriverSend, piVars
<1>6. i < next
  <2>1. Turn(i) = "waits"  BY <1>1, <1>2, TurnSteps DEF AllFit, TypeInv
  <2> QED  BY <2>1, GivenOut
<1>7. Tells(i, R2AKinds(i)) /\ R2AKinds(i)' = R2AKinds(i)
  BY <1>5, TellsSame DEF AllFit, Conn, Tells
<1>8. Tells(i, R2AKinds(i)') /\ DriverDid(i, R2AKinds(i)', chan[i], StreamState(i))
  BY <1>4, <1>7, Zenon
<1> QED  BY <1>5, <1>6, <1>8, DriverStep

\* It takes a packet.
LEMMA ReceiveStep ==
    ASSUME TypeInv, AllFit, DriverReceive
    PROVE  AllFit'
<1>1. r2a # <<>> /\ r2a \in Seq(R2APackets(Ids)) /\ r2a' = Tail(r2a)
  BY DEF DriverReceive, TypeInv, TypeOK
<1>2. Head(r2a) \in R2APackets(Ids)  BY <1>1, HeadTailProperties
<1>3. PICK i \in Ids : i = Head(r2a).id  BY <1>2, PacketOfChannel
<1>4. DriverReady /\ Fitting(i, R2AKinds(i), chan[i], StreamState(i)) /\ next \in Nat
  BY Ready
<1>5. /\ next' = next /\ chan' = chan /\ streams' = streams
  BY DEF DriverReceive, piVars
<1> DEFINE Q == R2AKinds(i)'
           k == Kind(Head(r2a))
<1>6. Tells(i, Q) /\ R2AKinds(i) = Q \cup {k} /\ (k \in Answers => Q \cap Answers = {})
  <2>1. TypeOK /\ \A j \in Ids : R2AOrder(j)  BY DEF AllFit, Conn, TypeInv
  <2> QED  BY <1>1, <1>3, <1>5, <2>1, TellsLess
<1>7. i < next  BY <1>6, GivenOut
<1>8. DriverDid(i, Q, chan[i], StreamState(i))
  <2> HIDE DEF Q
  <2> QED  BY <1>3, <1>4, <1>6, DriverReceives DEF k
<1> QED  BY <1>5, <1>6, <1>7, <1>8, DriverStep

\* The Pi takes one.
LEMMA PiReceiveStep ==
    ASSUME TypeInv, AllFit, PiReceive
    PROVE  AllFit'
<1>1. a2r # <<>> /\ a2r \in Seq(A2RPackets) /\ a2r' = Tail(a2r)
  BY DEF PiReceive, TypeInv, TypeOK
<1>2. Head(a2r) \in A2RPackets  BY <1>1, HeadTailProperties
<1>3. PICK i \in Ids : i = Head(a2r).id  BY <1>2, PacketOfChannel
<1>4. PiReady /\ PiFits(i, A2RKinds(i))  BY Ready
<1>5. UNCHANGED <<sock, sendq, next>>  BY DEF PiReceive, driverVars
<1> DEFINE B == A2RKinds(i)'
           k == Head(a2r).type
<1>6. /\ Says(i, B) /\ A2RKinds(i) = B \cup {k}
      /\ "CONNECT" \notin B /\ (k = "EOS" => "EOS" \notin B)
  <2>1. TypeOK /\ \A j \in Ids : A2ROrder(j)  BY DEF AllFit, Conn, TypeInv
  <2> QED  BY <1>1, <1>3, <2>1, SaysLess
<1>7. i < next  BY <1>6, GivenOut
<1>8. PiDid(i, B)
  <2> HIDE DEF B
  <2> QED  BY <1>3, <1>4, <1>6, PiReceives DEF k
<1> QED  BY <1>5, <1>6, <1>7, <1>8, PiStep

\* The Pi sends one, or takes a message of the client.
LEMMA PiSendStep ==
    ASSUME TypeInv, AllFit,
           \/ PiFlush
           \/ \E i \in Ids : \/ ClientResponse(i) \/ ClientData(i)
                             \/ ClientEos(i) \/ ClientReset(i)
    PROVE  AllFit'
<1>1. UNCHANGED <<sock, sendq, next, a2r>>
  BY DEF PiFlush, ClientResponse, ClientData, ClientEos, ClientReset, driverVars, ringVars
<1>2. ASSUME NEW i \in Ids, PiDid(i, A2RKinds(i)), i < next PROVE AllFit'
  <2>1. Says(i, A2RKinds(i))  BY <1>1, SaysNothing DEF AllFit, Conn
  <2> QED  BY <1>1, <1>2, <2>1, PiStep
<1>3. CASE PiFlush
  <2>1. send_queue # <<>> /\ send_queue \in Seq(Ids)  BY <1>3 DEF PiFlush, TypeInv, TypeOK
  <2>2. PICK i \in Ids : i = Head(send_queue)  BY <2>1
  <2>3. PiReady /\ PiFits(i, A2RKinds(i))  BY Ready
  <2>4. chan[i].pq # <<>>
    <3>1. i \in ToSet(send_queue)  BY <2>1, <2>2, QueueTail
    <3> QED  BY <3>1 DEF TypeInv, PiQueueSound
  <2>5. PiDid(i, A2RKinds(i))  BY <1>3, <2>2, <2>3, PiFlushes
  <2> QED  BY <1>2, <2>4, <2>5, GivenOut
<1>4. ASSUME NEW i \in Ids, ClientResponse(i) \/ ClientData(i) \/ ClientEos(i) \/ ClientReset(i)
      PROVE  AllFit'
  <2>1. PiReady /\ PiFits(i, A2RKinds(i))  BY Ready
  <2>2. chan[i].stream # 0
    BY <1>4 DEF ClientResponse, ClientData, ClientEos, ClientReset
  <2>3. PiDid(i, A2RKinds(i))
    BY <1>4, <2>1, PiResponds, PiTakesData, PiTakesEos, PiGivesUp
  <2> QED  BY <1>2, <2>2, <2>3, GivenOut
<1> QED  BY <1>3, <1>4

\* The client has gone.
LEMMA GoneStep ==
    ASSUME TypeInv, AllFit, ClientGone
    PROVE  AllFit'
<1>1. /\ UNCHANGED <<sock, sendq, next, a2r, r2a, streams>>
      /\ \A j \in Ids : chan'[j] = IF chan[j].stream # 0 THEN GivenUp(j) ELSE chan[j]
  BY DEF ClientGone, driverVars, ringVars
<1>2. /\ NoDuplicates(sendq') /\ \A j \in Ids : /\ Turn(j)' = Turn(j) /\ sock'[j] = sock[j]
                                               /\ A2RKinds(j)' = A2RKinds(j)
  BY <1>1 DEF AllFit, Turn, A2RKinds
<1>3. ASSUME NEW j \in Ids PROVE Conn(j)'
  <2>1. Conn(j) /\ PiReady /\ PiFits(j, A2RKinds(j))  BY Ready DEF AllFit
  <2>2. A2ROrder(j)'  BY <1>1, <2>1 DEF Conn, A2ROrder
  <2>3. CASE chan[j].stream # 0
    <3>1. /\ Fits(sock[j], Turn(j), A2RKinds(j), R2AKinds(j)', chan'[j], StreamState(j)')
          /\ OwnStream(j)' /\ R2AOrder(j)'
      BY <1>1, <2>1, <2>3, GivenUpFits
    <3>2. Fits(sock'[j], Turn(j)', A2RKinds(j)', R2AKinds(j)', chan'[j], StreamState(j)')
      BY <1>2, <3>1, Zenon
    <3>3. Unused(j)'
      <4>1. next \in Nat /\ j < next /\ j \in Nat  BY <2>3, Ready, GivenOut DEF Ids
      <4> QED  BY <1>1, <4>1 DEF Unused
    <3> QED  BY <2>2, <3>1, <3>2, <3>3 DEF Conn
  <2>4. CASE chan[j].stream = 0
    <3>1. /\ chan'[j] = chan[j] /\ StreamState(j)' = StreamState(j)
          /\ R2AKinds(j)' = R2AKinds(j) /\ R2AOrder(j)' /\ OwnStream(j)'
      BY <1>1, <2>1, <2>4 DEF StreamState, R2AKinds, R2AOrder, OwnStream, Conn
    <3>2. Fits(sock'[j], Turn(j)', A2RKinds(j)', R2AKinds(j)', chan'[j], StreamState(j)')
      BY <1>2, <2>1, <3>1, Zenon DEF Conn
    <3>3. Unused(j)'  BY <1>1, <1>2, <2>1, <3>1 DEF Conn, Unused
    <3> QED  BY <2>2, <3>1, <3>2, <3>3 DEF Conn
  <2> QED  BY <2>3, <2>4
<1> QED  BY <1>2, <1>3 DEF AllFit

\* What leaves the sockets, the channels, the queue and the rings alone.
LEMMA QuietStep ==
    ASSUME AllFit, UNCHANGED <<sock, sendq, next, a2r, r2a>>,
           \A j \in Ids : /\ chan'[j] = chan[j] /\ StreamState(j)' = StreamState(j)
                          /\ OwnStream(j)'
    PROVE  AllFit'
<1>1. NoDuplicates(sendq')  BY DEF AllFit
<1>2. ASSUME NEW j \in Ids PROVE Conn(j)'
  <2>1. Conn(j)  BY DEF AllFit
  <2>2. /\ Turn(j)' = Turn(j) /\ sock'[j] = sock[j] /\ A2RKinds(j)' = A2RKinds(j) /\ A2ROrder(j)'
        /\ R2AKinds(j)' = R2AKinds(j) /\ R2AOrder(j)'
    BY <2>1 DEF Turn, A2RKinds, A2ROrder, R2AKinds, R2AOrder, Conn
  <2>3. Fits(sock'[j], Turn(j)', A2RKinds(j)', R2AKinds(j)', chan'[j], StreamState(j)')
    BY <2>1, <2>2, Zenon DEF Conn
  <2>4. Unused(j)'  BY <2>1, <2>2 DEF Conn, Unused
  <2> QED  BY <2>2, <2>3, <2>4 DEF Conn
<1> QED  BY <1>1, <1>2 DEF AllFit

\* Before the Pi has handled R_EVENT_STARTED there is nothing it could do.
LEMMA NothingYet ==
    ASSUME TypeInv, started = session, StartInv
    PROVE  /\ \A i \in Ids : chan[i] = NoChannel /\ chan[i].stream = 0
           /\ send_queue = <<>>
<1>1. \A i \in Ids : chan[i] = NoChannel /\ chan[i].stream = 0 /\ chan[i].pq = <<>>
  BY DEF StartInv, NoChannel
<1>2. send_queue \in Seq(Ids) /\ \A i \in Ids : i \notin ToSet(send_queue)
  BY <1>1 DEF TypeInv, TypeOK, PiQueueSound
<1>3. send_queue = <<>>
  <2>1. SUFFICES ASSUME send_queue # <<>> PROVE FALSE  OBVIOUS
  <2>2. Head(send_queue) \in Ids /\ Head(send_queue) \in ToSet(send_queue)
    BY <1>2, <2>1, QueueTail
  <2> QED  BY <1>2, <2>2
<1> QED  BY <1>1, <1>3

\* The first session is the first: it does not come back.
LEMMA StaysFirst ==
    ASSUME TypeInv, [Next]_vars, FirstSession'
    PROVE  FirstSession
<1>1. session \in Nat  BY ChannelAssumption DEF TypeInv, TypeOK
<1>2. CASE DeviceStart  BY <1>1, <1>2 DEF DeviceStart, FirstSession
<1>3. CASE AmigaReset  BY <1>3 DEF AmigaReset, FirstSession
<1>4. CASE up' = up /\ session' = session  BY <1>4 DEF FirstSession
<1> QED
  BY <1>2, <1>3, <1>4
  DEF Next, App, AppConnect, AppRead, AppWrite, AppEos, AppReset, DriverSend, DriverReceive,
      PiReceive, PiStarted, PiFlush, Client, ClientResponse, ClientData, ClientEos, ClientReset,
      ClientGone, ClientConnect, ClientRegister, driverVars, vars

\* What is true before the device is opened, and until the Pi knows.
LEMMA StartStays ==
    ASSUME TypeInv, FirstSession, StartInv, [Next]_vars
    PROVE  StartInv'
<1>1. session \in Nat /\ (session = 0 => ~up /\ a2r = <<>>)
  BY ChannelAssumption DEF TypeInv, TypeOK, StartInv
<1>2. CASE UNCHANGED <<up, session, a2r, started, chan>>  BY <1>2 DEF StartInv
<1>3. CASE Running /\ UNCHANGED <<session, started, chan>>
  BY <1>1, <1>3 DEF Running, StartInv
<1>4. CASE DeviceStart
  <2>1. session = 0 /\ session' # 0 /\ chan' = chan /\ started = session
    BY <1>1, <1>4 DEF DeviceStart, FirstSession, piVars, TypeInv, TypeOK
  <2> QED  BY <2>1 DEF StartInv
<1>5. CASE AmigaReset
  <2>1. session # 0 /\ session' = session /\ started' = started /\ chan' = chan
    BY <1>1, <1>5 DEF AmigaReset, piVars
  <2> QED  BY <2>1 DEF StartInv
<1>6. CASE PiReceive
  <2>1. session # 0 /\ session' = session /\ started' = started /\ started # session
    BY <1>1, <1>6 DEF PiReceive, a314_device_started, driverVars, TypeInv, TypeOK
  <2> QED  BY <2>1 DEF StartInv
<1>7. CASE PiStarted
  <2>1. UNCHANGED <<up, session, a2r>> /\ \A i \in Ids : chan'[i] = NoChannel
    BY <1>7 DEF PiStarted, driverVars, ringVars
  <2> QED  BY <1>1, <2>1 DEF StartInv
<1>8. ASSUME UNCHANGED <<up, session, a2r, started>>,
             started = session => \A i \in Ids : chan'[i] = chan[i]
      PROVE  StartInv'
  BY <1>1, <1>8 DEF StartInv
<1>9. CASE PiFlush
  <2>1. started # session  BY <1>9, NothingYet DEF PiFlush
  <2> QED  BY <1>8, <1>9, <2>1 DEF PiFlush, driverVars
<1>10. CASE \E i \in Ids : ClientResponse(i) \/ ClientData(i) \/ ClientEos(i) \/ ClientReset(i)
  <2>1. UNCHANGED <<up, session, a2r, started>> /\ \E i \in Ids : chan[i].stream # 0
    BY <1>10 DEF ClientResponse, ClientData, ClientEos, ClientReset, driverVars, ringVars
  <2>2. started # session  BY <2>1, NothingYet
  <2> QED  BY <1>8, <2>1, <2>2
<1>11. CASE ClientGone
  <2>1. /\ UNCHANGED <<up, session, a2r, started>>
        /\ \A i \in Ids : chan'[i] = IF chan[i].stream # 0 THEN GivenUp(i) ELSE chan[i]
    BY <1>11 DEF ClientGone, driverVars, ringVars
  <2>2. started = session => \A i \in Ids : chan[i].stream = 0  BY NothingYet
  <2> QED  BY <1>8, <2>1, <2>2
<1>12. CASE ClientConnect \/ ClientRegister \/ UNCHANGED vars
  BY <1>2, <1>12 DEF ClientConnect, ClientRegister, vars, driverVars, ringVars, piVars
<1>13. CASE App \/ DriverSend \/ DriverReceive
  BY <1>3, <1>13
  DEF App, AppConnect, AppRead, AppWrite, AppEos, AppReset, DriverSend, DriverReceive, piVars
<1> QED
  BY <1>4, <1>5, <1>6, <1>7, <1>9, <1>10, <1>11, <1>12, <1>13 DEF Next, Client

\* While the session lasts, the connections fit.
LEMMA FitStays ==
    ASSUME TypeInv, FirstSession, StartInv, AllFit, [Next]_vars, FirstSession'
    PROVE  AllFit'
<1>1. CASE App
  BY <1>1, ConnectStep, AppSteps DEF App
<1>2. CASE UNCHANGED <<sock, sendq, next, a2r, r2a, chan, streams>>
  <2>1. \A j \in Ids : /\ chan'[j] = chan[j] /\ StreamState(j)' = StreamState(j)
                       /\ OwnStream(j)'
    BY <1>2 DEF StreamState, OwnStream, AllFit, Conn
  <2> QED  BY <1>2, <2>1, QuietStep
<1>3. CASE DeviceStart \/ ClientConnect \/ ClientRegister \/ UNCHANGED vars
  BY <1>2, <1>3 DEF DeviceStart, ClientConnect, ClientRegister, vars, driverVars, ringVars, piVars
<1>4. CASE AmigaReset
  <2>1. up /\ up' = FALSE /\ session' = session  BY <1>4 DEF AmigaReset
  <2> QED  BY <2>1 DEF FirstSession, StartInv
<1>5. CASE PiStarted
  <2>0. started = session
    BY <1>5, ChannelAssumption DEF PiStarted, FirstSession, TypeInv, TypeOK
  <2>1. \A j \in Ids : chan[j] = NoChannel /\ chan[j].stream = 0
    BY <2>0, NothingYet
  <2>2. UNCHANGED <<sock, sendq, next, a2r, r2a>> /\ \A j \in Ids : chan'[j] = NoChannel
    BY <1>5 DEF PiStarted, driverVars, ringVars
  <2>3. \A j \in Ids : /\ chan'[j] = chan[j] /\ StreamState(j)' = StreamState(j)
                       /\ OwnStream(j)'
    BY <2>1, <2>2 DEF StreamState, OwnStream
  <2> QED  BY <2>2, <2>3, QuietStep
<1> QED
  BY <1>1, <1>3, <1>4, <1>5, SendStep, ReceiveStep, PiReceiveStep, PiSendStep, GoneStep
  DEF Next, Client

\* At first there is nothing.
LEMMA FirstInit == ASSUME Init PROVE FirstInv
<1>1. /\ sendq = <<>> /\ a2r = <<>> /\ r2a = <<>> /\ up = FALSE
      /\ \A i \in Ids : sock[i] = Free /\ chan[i] = NoChannel
  BY DEF Init
<1>2. NoDuplicates(sendq) /\ \A i \in Ids : Turn(i) = "none"
  BY <1>1, QueueEmpty DEF Turn
<1>3. \A i \in Ids : A2RKinds(i) = {} /\ R2AKinds(i) = {} /\ StreamState(i) = "none"
  BY <1>1, KindsEmpty DEF A2RKinds, R2AKinds, StreamState, NoChannel
<1>4. Fits(Free, "none", {}, {}, NoChannel, "none")
  BY DEF Fits, SockInv, WaitInv, HasNothingToSend, ConnectInv, Asking, CloseInv, EosForApp,
         EosToRpi, Free, NoChannel
<1>5. ASSUME NEW i \in Ids PROVE Conn(i)
  <2>1. Fits(sock[i], Turn(i), A2RKinds(i), R2AKinds(i), chan[i], StreamState(i))
    BY <1>1, <1>2, <1>3, <1>4, Zenon
  <2>2. Unused(i) /\ OwnStream(i)  BY <1>1, <1>3 DEF Unused, OwnStream, NoChannel
  <2>3. chan[i].pq = <<>>  BY <1>1 DEF NoChannel
  <2>4. \A K, L : Apart(<<>>, i, K, L)  BY DEF Apart
  <2>5. A2ROrder(i)  BY <1>1, <2>4 DEF A2ROrder
  <2>6. Kinds(<<>>, i) \cap Answers = {}  BY KindsEmpty
  <2>7. R2AOrder(i)  BY <1>1, <2>3, <2>4, <2>6 DEF R2AOrder
  <2> QED  BY <2>1, <2>2, <2>5, <2>7 DEF Conn
<1>6. StartInv  BY <1>1 DEF StartInv
<1> QED  BY <1>2, <1>5, <1>6 DEF FirstInv

\* The first session keeps its invariant.
LEMMA FirstInvariant == Spec => [](TypeInv /\ FirstInv)
<1>1. Init => FirstInv  BY FirstInit
<1>2. TypeInv /\ FirstInv /\ [Next]_vars => FirstInv'
  <2>1. SUFFICES ASSUME TypeInv, FirstInv, [Next]_vars, FirstSession'
                 PROVE  StartInv' /\ AllFit'
    BY DEF FirstInv, AllFit
  <2>2. FirstSession  BY <2>1, StaysFirst
  <2>3. StartInv /\ AllFit  BY <2>1, <2>2 DEF FirstInv, AllFit
  <2> QED  BY <2>1, <2>2, <2>3, StartStays, FitStays
<1> QED  BY <1>1, <1>2, TypeInvariant, PTL DEF Spec

-----------------------------------------------------------------------------
\* What the first session shows.

\* What is said in A2R, and on the way to a socket, is said by a packet there.
LEMMA SaidBy ==
    ASSUME TypeInv, NEW i \in Ids, NEW k
    PROVE  /\ k \in A2RKinds(i) => \E p \in ToSet(a2r) : p.id = i /\ p.type = k
           /\ k \in R2AKinds(i) => \E p \in ToDriver(i) : Kind(p) = k /\ p \in R2APackets(Ids)
                                                          /\ p.id = i
           /\ \A p \in ToSet(a2r) : p.id = i => p.type \in A2RKinds(i)
<1>1. a2r \in Seq(A2RPackets) /\ r2a \in Seq(R2APackets(Ids))  BY DEF TypeInv, TypeOK
<1>2. chan[i].pq \in Seq(R2APackets({i}))  BY PiState, ChannelTypes DEF TypeInv
<1>3. \A p \in ToSet(a2r) : p \in A2RPackets /\ Kind(p) = p.type
  <2>1. \A p \in ToSet(a2r) : p \in A2RPackets  BY <1>1 DEF ToSet
  <2>2. \A p \in A2RPackets : p.type # "RESPONSE"  BY PacketOfChannel
  <2> QED  BY <2>1, <2>2 DEF Kind
<1>4. \A p \in ToSet(r2a) : p \in R2APackets(Ids)  BY <1>1 DEF ToSet
<1>5. \A p \in ToSet(chan[i].pq) : p \in R2APackets(Ids) /\ p.id = i
  <2>1. \A p \in ToSet(chan[i].pq) : p \in R2APackets({i})  BY <1>2 DEF ToSet
  <2> QED  BY <2>1, PacketOfChannel
<1>6. k \in A2RKinds(i) => \E p \in ToSet(a2r) : p.id = i /\ p.type = k
  BY <1>3 DEF A2RKinds, Kinds
<1>7. k \in R2AKinds(i) => \E p \in ToDriver(i) : /\ Kind(p) = k /\ p \in R2APackets(Ids)
                                                  /\ p.id = i
  BY <1>4, <1>5 DEF R2AKinds, Kinds, ToDriver
<1>8. \A p \in ToSet(a2r) : p.id = i => p.type \in A2RKinds(i)
  BY <1>3 DEF A2RKinds, Kinds
<1> QED  BY <1>6, <1>7, <1>8

\* The driver's list of sockets that wait to send (send_queue_head, add_to_send_queue,
\* remove_from_send_queue) holds none twice, none without a reason, and all with one.
THEOREM DriverQueueSound == Spec => [](FirstSession => SendQueueSound)
<1>1. ASSUME TypeInv, FirstInv, FirstSession PROVE SendQueueSound
  <2>1. NoDuplicates(sendq) /\ \A i \in Ids : WaitInv(sock[i], Turn(i))
    BY <1>1 DEF FirstInv, Conn, Fits
  <2>2. \A i \in ToSet(sendq) : i \in Ids  BY <1>1 DEF TypeInv, TypeOK, ToSet
  <2>3. ASSUME NEW i \in ToSet(sendq) PROVE ~HasNothingToSend(sock[i])
    BY <2>1, <2>2, <2>3 DEF WaitInv, Turn
  <2>4. ASSUME NEW i \in Ids,
               sock[i].state = "closed" \/ sock[i].pend \cap {"WRITE", "EOS"} # {}
        PROVE  i \in ToSet(sendq)
    <3>1. Turn(i) = "waits"  BY <2>1, <2>4 DEF WaitInv
    <3> QED  BY <3>1 DEF Turn
  <2> QED  BY <2>1, <2>3, <2>4 DEF SendQueueSound
<1> QED  BY <1>1, FirstInvariant, PTL

\* Whoever gets a CONNECT_RESPONSE has asked for it: handle_r2a_packet never meets
\* the case it calls a serious error.
THEOREM ResponsesAreExpected == Spec => [](FirstSession => ResponseExpected)
<1>1. ASSUME TypeInv, FirstInv, FirstSession PROVE ResponseExpected
  <2>1. SUFFICES ASSUME r2a # <<>>, Head(r2a).type = "RESPONSE", Open(Head(r2a).id)
                 PROVE  "CONNECT" \in sock[Head(r2a).id].pend
    BY DEF ResponseExpected
  <2>2. r2a \in Seq(R2APackets(Ids))  BY <1>1 DEF TypeInv, TypeOK
  <2>3. Head(r2a) \in R2APackets(Ids)  BY <2>1, <2>2, HeadTailProperties
  <2>4. PICK i \in Ids : i = Head(r2a).id  BY <2>3, PacketOfChannel
  <2>5. Kind(Head(r2a)) \in {"RESPONSE", "UNKNOWN"}  BY <2>1 DEF Kind
  <2>6. Kind(Head(r2a)) \in Kinds(r2a, i)  BY <2>1, <2>2, <2>4, KindsTail
  <2>7. "RESPONSE" \in R2AKinds(i) \/ "UNKNOWN" \in R2AKinds(i)
    BY <2>5, <2>6 DEF R2AKinds
  <2>8. Asking(sock[i], Turn(i))  BY <1>1, <2>7 DEF FirstInv, Conn, Fits, ConnectInv
  <2> QED  BY <2>1, <2>4, <2>8 DEF Asking, Open
<1> QED  BY <1>1, FirstInvariant, PTL

\* handle_pkt_connect never finds the stream id of a CONNECT taken: a314d does not
\* exit.
THEOREM ConnectsFindNoChannel == Spec => [](FirstSession => ConnectFindsNoChannel)
<1>1. ASSUME TypeInv, FirstInv, FirstSession PROVE ConnectFindsNoChannel
  <2>1. SUFFICES ASSUME a2r # <<>>, Head(a2r).type = "CONNECT" PROVE ~Exists(Head(a2r).id)
    BY DEF ConnectFindsNoChannel
  <2>2. a2r \in Seq(A2RPackets)  BY <1>1 DEF TypeInv, TypeOK
  <2>3. Head(a2r) \in A2RPackets /\ Head(a2r) \in ToSet(a2r)
    BY <2>1, <2>2, HeadTailProperties, TailMembers
  <2>4. PICK i \in Ids : i = Head(a2r).id  BY <2>3, PacketOfChannel
  <2>5. "CONNECT" \in A2RKinds(i)  BY <1>1, <2>1, <2>3, <2>4, SaidBy
  <2>6. chan[i] = NoChannel  BY <1>1, <2>5 DEF FirstInv, Conn, Fits, ConnectInv
  <2> QED  BY <2>4, <2>6 DEF Exists, NoChannel
<1> QED  BY <1>1, FirstInvariant, PTL

\* No channel of the Pi outlives its socket: the RESET, or the EOS that ends it, is
\* on its way whenever close_socket has deleted the socket.
THEOREM PiIsTold == Spec => [](FirstSession => PiLearnsOfClose)
<1>1. ASSUME TypeInv, FirstInv, FirstSession PROVE PiLearnsOfClose
  <2>1. SUFFICES ASSUME NEW i \in Ids, chan[i].stream # 0, sock[i].state = "free"
                 PROVE  \E p \in ToSet(a2r) : /\ p.id = i
                                              /\ \/ p.type = "RESET"
                                                 \/ p.type = "EOS" /\ chan[i].eosClient
    BY DEF PiLearnsOfClose
  <2>2. "RESET" \in A2RKinds(i) \/ ("EOS" \in A2RKinds(i) /\ chan[i].eosClient)
    BY <1>1, <2>1 DEF FirstInv, Conn, Fits, CloseInv
  <2> QED  BY <1>1, <2>2, SaidBy
<1> QED  BY <1>1, FirstInvariant, PTL

\* No socket outlives its channel unawares: what ends it is on its way, or it has
\* had the EOS of the client after its own was sent.
THEOREM DriverIsTold == Spec => [](FirstSession => DriverLearnsOfClose)
<1>1. ASSUME TypeInv, FirstInv, FirstSession PROVE DriverLearnsOfClose
  <2>1. SUFFICES ASSUME NEW i \in Ids, Open(i), chan[i].stream = 0,
                        i \notin ToSet(sendq) \/ "CONNECT" \notin sock[i].pend,
                        \A p \in ToSet(a2r) : ~(p.id = i /\ p.type = "CONNECT"),
                        ~({"RCVD_EOS_FROM_RPI", "SENT_EOS_TO_RPI"} \subseteq sock[i].flags)
                 PROVE  \E p \in ToDriver(i) :
                            \/ p.type \in {"EOS", "RESET"}
                            \/ p = Packet("RESPONSE", i, CONNECT_UNKNOWN_SERVICE)
    BY DEF DriverLearnsOfClose
  <2>2. "CONNECT" \notin A2RKinds(i)  BY <1>1, <2>1, SaidBy
  <2>3. ~("CONNECT" \in sock[i].pend /\ Turn(i) = "waits")  BY <2>1 DEF Turn
  <2>4. \E k \in {"EOS", "RESET", "UNKNOWN"} : k \in R2AKinds(i)
    BY <1>1, <2>1, <2>2, <2>3 DEF FirstInv, Conn, Fits, CloseInv, EosToRpi, Open
  <2>5. PICK p \in ToDriver(i) :
            Kind(p) \in {"EOS", "RESET", "UNKNOWN"} /\ p \in R2APackets(Ids) /\ p.id = i
    BY <1>1, <2>4, SaidBy
  <2>6. CASE Kind(p) = p.type
    <3>1. p.type # "UNKNOWN"  BY <2>5 DEF R2APackets, Packets
    <3> QED  BY <2>5, <2>6, <3>1
  <2>7. CASE p.type = "RESPONSE" /\ p.x # CONNECT_OK
    <3>1. p = Packet("RESPONSE", i, CONNECT_UNKNOWN_SERVICE)
      BY <2>5, <2>7 DEF R2APackets, Packets, Packet, CONNECT_OK, CONNECT_UNKNOWN_SERVICE
    <3> QED  BY <3>1
  <2> QED  BY <2>6, <2>7 DEF Kind
<1> QED  BY <1>1, FirstInvariant, PTL

-----------------------------------------------------------------------------
\* Turns of the sockets.

\* Somebody else leaves the queue, and joins it at its end.
LEMMA OthersTurns ==
    ASSUME TypeInv, NEW j \in Ids, NEW q \in {sendq, RemoveFirst(sendq, j)}, NEW p,
           SendNow(q, p) \/ Queue(q, j) \/ (sendq' = q /\ a2r' = a2r),
           NEW i \in Ids, i \in ToSet(sendq'), i # j \/ sendq' = q
    PROVE  KeepsItsPlace(i, sendq, a2r)
<1>1. sendq \in Seq(Ids) /\ Len(a2r) \in Nat  BY DEF TypeInv, TypeOK
<1>2. q \in Seq(Ids) /\ Ahead(q, i) \subseteq Ahead(sendq, i)
  BY <1>1, QueueRemove, AheadRemove
<1>3. ~SendNow(q, p)
  <2>1. SendNow(q, p) => sendq' = <<>>  BY DEF SendNow
  <2>2. ToSet(<<>>) = {}  BY QueueEmpty
  <2> QED  BY <2>1, <2>2
<1>4. a2r' = a2r /\ Ahead(sendq', i) \subseteq Ahead(sendq, i)
  <2>1. CASE sendq' = q  BY <1>2, <1>3, <2>1 DEF Queue
  <2>2. CASE sendq' # q
    <3>1. sendq' = Append(q, j) /\ a2r' = a2r /\ i # j  BY <1>3, <2>2 DEF Queue
    <3> QED  BY <1>2, <3>1, AheadAppend
  <2> QED  BY <2>1, <2>2
<1> QED  BY <1>1, <1>4 DEF KeepsItsPlace

\* The queue and the ring stay.
LEMMA NobodysTurn ==
    ASSUME TypeInv, UNCHANGED <<sendq, a2r>>, NEW i
    PROVE  KeepsItsPlace(i, sendq, a2r)
<1>1. Len(a2r) \in Nat  BY DEF TypeInv, TypeOK
<1> QED  BY <1>1 DEF KeepsItsPlace

\* close_socket: the socket goes to the end only if it was open.
LEMMA CloseTurns ==
    ASSUME TypeInv, NEW j \in Ids, NEW r \in BOOLEAN, CloseSocket(j, r), Open(j) \/ ~r,
           NEW i \in Ids, i \in ToSet(sendq'), sock'[i].state = sock[i].state
    PROVE  KeepsItsPlace(i, sendq, a2r)
<1> DEFINE q == RemoveFirst(sendq, j)
           p == Packet("RESET", j, 0)
           s == [Free EXCEPT !.state = "closed", !.socket = sock[j].socket]
<1>1. sock \in [Ids -> Socket]  BY DEF TypeInv, TypeOK
<1>2. s.state = "closed"  BY DEF Free
<1> HIDE DEF s, p
<1>3. \/ (sendq' = q /\ a2r' = a2r) \/ SendNow(q, p)
      \/ r /\ Queue(q, j) /\ sock' = [sock EXCEPT ![j] = s]
  BY Zenon DEF CloseSocket, s, p
<1>4. CASE sendq' = q /\ a2r' = a2r  BY <1>4, OthersTurns
<1>5. CASE SendNow(q, p)  BY <1>5, OthersTurns DEF SendNow
<1>6. CASE r /\ Queue(q, j) /\ sock' = [sock EXCEPT ![j] = s]
  <2>1. sock'[j].state = "closed" /\ sock[j].state = "open"  BY <1>1, <1>2, <1>6 DEF Open
  <2>2. i # j  BY <2>1
  <2> QED  BY <1>6, <2>2, OthersTurns
<1> QED  BY <1>3, <1>4, <1>5, <1>6

\* The application reads an EOS.
LEMMA EosTurns ==
    ASSUME TypeInv, NEW j \in Ids, NEW f, GiveEos(j, f),
           NEW i \in Ids, i \in ToSet(sendq'), sock'[i].state = sock[i].state
    PROVE  KeepsItsPlace(i, sendq, a2r)
<1>1. CASE CloseSocket(j, FALSE)  BY <1>1, CloseTurns
<1>2. CASE UNCHANGED <<sendq, a2r>>  BY <1>2, NobodysTurn
<1> QED  BY <1>1, <1>2 DEF GiveEos

\* A request of the application: what it asks for is sent at once, or waits behind all
\* others.
LEMMA AppTurns ==
    ASSUME TypeInv, AllFit, NEW j \in Ids,
           AppRead(j) \/ AppWrite(j) \/ AppEos(j) \/ AppReset(j),
           NEW i \in Ids, i \in ToSet(sendq), i \in ToSet(sendq'), sock'[i].state = sock[i].state
    PROVE  KeepsItsPlace(i, sendq, a2r)
<1>1. Open(j)  BY DEF AppRead, AppWrite, AppEos, AppReset
<1>2. CASE CloseSocket(j, TRUE)  BY <1>1, <1>2, CloseTurns
<1>3. CASE UNCHANGED <<sendq, a2r>>  BY <1>3, NobodysTurn
<1>4. ASSUME NEW p, SendNow(sendq, p) \/ Queue(sendq, j), ~OutOfPlace(sock[j])
      PROVE  KeepsItsPlace(i, sendq, a2r)
  <2>1. Requests(sock[j]) = {}  BY <1>4 DEF OutOfPlace, Requests
  <2>2. Turn(j) = "none"
    <3>1. Fitting(j, R2AKinds(j), chan[j], StreamState(j))  BY Ready
    <3> QED  BY <1>1, <2>1, <3>1, Idle
  <2>3. i # j  BY <2>2 DEF Turn
  <2> QED  BY <1>4, <2>3, OthersTurns
<1>5. CASE AppRead(j)
  <2>1. \/ CloseSocket(j, TRUE) \/ UNCHANGED <<sendq, a2r>> \/ GiveEos(j, sock[j].flags)
    BY <1>5, Zenon DEF AppRead, GiveData
  <2> QED  BY <1>2, <1>3, <2>1, EosTurns
<1>6. CASE AppWrite(j)
  <2>1. \/ CloseSocket(j, TRUE)
        \/ /\ ~OutOfPlace(sock[j])
           /\ SendNow(sendq, Packet("DATA", j, Len(wrote[j]) + 1)) \/ Queue(sendq, j)
    BY <1>6, Zenon DEF AppWrite
  <2> QED  BY <1>2, <1>4, <2>1
<1>7. CASE AppEos(j)
  <2>1. \/ CloseSocket(j, TRUE)
        \/ /\ ~OutOfPlace(sock[j])
           /\ SendNow(sendq, Packet("EOS", j, 0)) \/ Queue(sendq, j)
    BY <1>7, Zenon DEF AppEos
  <2> QED  BY <1>2, <1>4, <2>1
<1>8. CASE AppReset(j)  BY <1>2, <1>8 DEF AppReset
<1> QED  BY <1>5, <1>6, <1>7, <1>8

\* handle_app_connect: the id of a new socket was not in use.
LEMMA ConnectTurns ==
    ASSUME TypeInv, AllFit, NEW n \in Sockets, AppConnect(n),
           NEW i \in Ids, i \in ToSet(sendq), i \in ToSet(sendq')
    PROVE  KeepsItsPlace(i, sendq, a2r)
<1>1. next \in Ids /\ next \in Nat  BY Ready DEF AppConnect
<1>2. i # next
  <2>1. Unused(i) /\ WaitInv(sock[i], Turn(i))  BY DEF AllFit, Conn, Fits
  <2>2. Turn(i) = "waits"  BY DEF Turn
  <2>3. HasNothingToSend(Free)  BY DEF HasNothingToSend, Free
  <2> QED  BY <1>1, <2>1, <2>2, <2>3 DEF Unused, WaitInv
<1>3. SendNow(sendq, Packet("CONNECT", next, 0)) \/ Queue(sendq, next)  BY DEF AppConnect
<1> QED  BY <1>1, <1>2, <1>3, OthersTurns

\* handle_room_in_a2r: the first socket sends, and those behind it move up.
LEMMA SendTurns ==
    ASSUME TypeInv, AllFit, DriverSend, NEW i \in Ids, i \in ToSet(sendq')
    PROVE  KeepsItsPlace(i, sendq, a2r)
<1>1. sendq \in Seq(Ids) /\ sendq # <<>> /\ sendq' = Tail(sendq) /\ NoDuplicates(sendq)
  BY DEF DriverSend, TypeInv, TypeOK, AllFit
<1>2. PICK h \in Ids :
         h = Head(sendq) /\ ToSet(Tail(sendq)) = ToSet(sendq) \ {h} /\ h \in ToSet(sendq)
  BY <1>1, QueueTail
<1>3. /\ Ahead(sendq', i) \subseteq Ahead(sendq, i) \ {h}
      /\ h \in Ahead(sendq, i)
  BY <1>1, <1>2, AheadTail
<1>4. a2r \in Seq(A2RPackets) /\ Len(a2r) \in Nat  BY DEF TypeInv, TypeOK
<1>5. a2r' = a2r \/ \E p : p.id = h /\ a2r' = Append(a2r, p)
  <2>1. \A type, x : Packet(type, h, x).id = h  BY DEF Packet
  <2>2. a2r' = a2r \/ \E type, x : a2r' = Append(a2r, Packet(type, h, x))
    BY <1>2, Zenon DEF DriverSend
  <2> QED  BY <2>1, <2>2
<1>6. Len(a2r') > Len(a2r) => Last(a2r').id = h
  <2>1. ASSUME NEW p, p.id = h, a2r' = Append(a2r, p) PROVE Last(a2r') = p
    BY <1>4, <2>1 DEF Last
  <2> QED  BY <1>4, <1>5, <2>1
<1> QED  BY <1>3, <1>6 DEF KeepsItsPlace

\* handle_packets_received_r2a.
LEMMA ReceiveTurns ==
    ASSUME TypeInv, DriverReceive,
           NEW i \in Ids, i \in ToSet(sendq'), sock'[i].state = sock[i].state
    PROVE  KeepsItsPlace(i, sendq, a2r)
<1> DEFINE p == Head(r2a)
<1>1. CASE UNCHANGED <<sendq, a2r>>  BY <1>1, NobodysTurn
<1>2. CASE DriverHandle(p)
  <2>1. PICK j \in Ids : j = p.id
    <3>1. r2a \in Seq(R2APackets(Ids)) /\ r2a # <<>>  BY DEF DriverReceive, TypeInv, TypeOK
    <3>2. p \in R2APackets(Ids)  BY <3>1, HeadTailProperties
    <3> QED  BY <3>2, PacketOfChannel
  <2>2. \/ CloseSocket(j, FALSE) \/ (Open(j) /\ CloseSocket(j, TRUE))
        \/ GiveEos(j, sock[j].flags \cup {"RCVD_EOS_FROM_RPI"})
        \/ UNCHANGED <<sendq, a2r>>
    BY <1>2, <2>1, Zenon DEF DriverHandle, GiveData
  <2> QED  BY <1>1, <2>2, CloseTurns, EosTurns
<1> QED  BY <1>1, <1>2, Zenon DEF DriverReceive

\* A socket that waits to send waits for one packet of each other socket at most, in
\* the first session: send_queue_head is served in order, nothing is sent past it,
\* and only a socket that is closed gives its place up.
THEOREM SocketsAreFair == Spec /\ []FirstSession => SocketsTakeTurns
<1>1. ASSUME TypeInv, FirstInv, FirstSession, [Next]_vars,
             NEW i \in ToSet(sendq) \cap ToSet(sendq'), sock'[i].state = sock[i].state
      PROVE  KeepsItsPlace(i, sendq, a2r)
  <2>1. AllFit /\ i \in Ids /\ i \in ToSet(sendq) /\ i \in ToSet(sendq')
    BY <1>1 DEF FirstInv, AllFit, TypeInv, TypeOK, ToSet
  <2>2. CASE App
    BY <1>1, <2>1, <2>2, AppTurns, ConnectTurns DEF App
  <2>3. CASE DriverSend  BY <1>1, <2>1, <2>3, SendTurns
  <2>4. CASE DriverReceive  BY <1>1, <2>1, <2>4, ReceiveTurns
  <2>5. CASE AmigaReset
    <3>1. sendq' = <<>>  BY <2>5 DEF AmigaReset
    <3> QED  BY <2>1, <3>1, QueueEmpty
  <2>6. CASE PiReceive
    <3>1. a2r \in Seq(A2RPackets) /\ a2r # <<>> /\ a2r' = Tail(a2r) /\ sendq' = sendq
      BY <1>1, <2>6 DEF PiReceive, driverVars, TypeInv, TypeOK
    <3>2. Len(a2r') = Len(a2r) - 1 /\ Len(a2r) \in Nat  BY <3>1
    <3> QED  BY <3>1, <3>2 DEF KeepsItsPlace
  <2>7. CASE DeviceStart \/ PiStarted \/ PiFlush \/ Client \/ UNCHANGED vars
    <3>1. UNCHANGED <<sendq, a2r>>
      BY <2>7 DEF DeviceStart, PiStarted, PiFlush, Client, ClientResponse, ClientData, ClientEos,
                  ClientReset, ClientGone, ClientConnect, ClientRegister, vars, ringVars, driverVars
    <3> QED  BY <1>1, <3>1, NobodysTurn
  <2> QED  BY <1>1, <2>2, <2>3, <2>4, <2>5, <2>6, <2>7 DEF Next
<1> DEFINE Turned == \A i \in ToSet(sendq) \cap ToSet(sendq') :
                         sock'[i].state = sock[i].state => KeepsItsPlace(i, sendq, a2r)
<1>2. TypeInv /\ FirstInv /\ FirstSession /\ [Next]_vars => [Turned]_vars  BY <1>1
<1>3. Spec /\ []FirstSession => [][Turned]_vars
  <2> HIDE DEF Turned
  <2> QED  BY <1>2, FirstInvariant, PTL DEF Spec
<1> QED  BY <1>3 DEF SocketsTakeTurns
=============================================================================
