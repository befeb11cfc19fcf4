-------------------------- MODULE A314Streams_proofs --------------------------
(***************************************************************************)
(* That A314Channels implements A314Stream in both directions, for any     *)
(* number of connections and sockets, any ring sizes and any amount of     *)
(* data, until the Amiga is reset.                                         *)
(***************************************************************************)
EXTENDS A314Session_proofs

-----------------------------------------------------------------------------
\* The packets of a stream on their way.

\* A packet that holds a piece of connection i's stream, ...
Carries(p, i) == p.id = i /\ p.type \in {"DATA", "EOS"}

\* ... the piece, and its place in all that was sent, src.
Piece(p) == IF p.type = "DATA" THEN p.x ELSE EOS
Place(p, src) == IF p.type = "DATA" THEN p.x ELSE Len(src)

\* Data packets are numbered in the order they are sent in.
IsNext(p, src) == p.type = "DATA" => p.x = Len(src) + 1

Places(q, i, src) == {Place(q[k], src) : k \in {k \in DOMAIN q : Carries(q[k], i)}}

\* The packets in q hold pieces that were sent, in the order they were sent in, ...
From(q, i, src) ==
    /\ \A k \in DOMAIN q : Carries(q[k], i) =>
          Place(q[k], src) \in 1 .. Len(src) /\ src[Place(q[k], src)] = Piece(q[k])
    /\ \A j, k \in DOMAIN q : j < k /\ Carries(q[j], i) /\ Carries(q[k], i) =>
          Place(q[j], src) < Place(q[k], src)

\* ... from the one after the first n, none left out, ...
Gapless(q, i, src, n) ==
    \A x \in Places(q, i, src) : n < x /\ (x = n + 1 \/ x - 1 \in Places(q, i, src))

\* ... up to the last.
Full(q, i, src, n) == Len(src) = n \/ Len(src) \in Places(q, i, src)

\* All that is on its way to the socket of i.
Way(i) == r2a \o chan[i].pq

Unended(src) == \A k \in 1 .. Len(src) : src[k] # EOS

\* The application writes nothing after its EOS, ...
WriteWaits(s) == "WRITE" \in s.pend => "RCVD_EOS_FROM_APP" \notin s.flags

WriterInv(s, src) ==
    /\ WriteWaits(s)
    /\ s.state = "open" /\ "SENT_EOS_TO_RPI" \notin s.flags => Unended(src)

\* ... and as long as the Pi listens, what it has not heard is in A2R.
HearerInv(i, q, src, c, heard) ==
    /\ From(q, i, src)
    /\ c.stream # 0 /\ ~c.eosAmi =>
          Gapless(q, i, src, Len(heard)) /\ Full(q, i, src, Len(heard))

\* The client sends nothing before it has answered and nothing after its EOS, ...
SenderInv(st, src) ==
    /\ st = "new" => src = <<>>
    /\ st = "ok" => Unended(src)

\* ... and what the application has not read waits at the socket or is on the way,
\* some of which is lost only with the channel; after the EOS there is nothing.
ReaderInv(i, q, src, c, s, read) ==
    LET n == Len(read) + Len(s.rq)
    IN /\ From(q, i, src)
       /\ s.state = "open" =>
             /\ n <= Len(src) /\ \A k \in 1 .. Len(s.rq) : s.rq[k] = src[Len(read) + k]
             /\ "RCVD_EOS_FROM_RPI" \notin s.flags =>
                   Gapless(q, i, src, n) /\ (c.stream # 0 => Full(q, i, src, n))
             /\ "RCVD_EOS_FROM_RPI" \in s.flags =>
                   /\ Places(q, i, src) = {}
                   /\ "SENT_EOS_TO_APP" \notin s.flags => Len(src) = n + 1 /\ src[n + 1] = EOS
       /\ "READ" \in s.pend => s.rq = <<>> /\ "RCVD_EOS_FROM_RPI" \notin s.flags

\* One direction of a connection, and the other.
ToPi(i, s, q, src, c, heard) == WriterInv(s, src) /\ HearerInv(i, q, src, c, heard)

ToAmiga(i, st, q, src, c, s, read) == SenderInv(st, src) /\ ReaderInv(i, q, src, c, s, read)

\* A connection that the Pi has not been asked for has no stream yet.
Unborn(i) ==
    i >= next \/ ("CONNECT" \in sock[i].pend /\ Turn(i) = "waits") \/ "CONNECT" \in A2RKinds(i)

NoStream(i) == \A t \in DOMAIN streams : streams[t].id # i

NewInv(i) == Unborn(i) => wrote[i] = <<>> /\ seen[i] = <<>> /\ NoStream(i)

Piping(i) ==
    /\ NewInv(i)
    /\ ToPi(i, sock[i], a2r, wrote[i], chan[i], Heard[i])
    /\ ToAmiga(i, StreamState(i), Way(i), Sent[i], chan[i], sock[i], seen[i])

OneStream == \A t, u \in DOMAIN streams : streams[t].id = streams[u].id => t = u

-----------------------------------------------------------------------------
\* What happens to the packets of a stream.

LEMMA PlacesAt ==
    ASSUME NEW q, NEW i, NEW src, NEW x
    PROVE  x \in Places(q, i, src) <=>
               \E k \in DOMAIN q : Carries(q[k], i) /\ Place(q[k], src) = x
  BY DEF Places

\* r is q and then p; r is q without its first.
Longer(r, q, p) ==
    /\ Len(q) \in Nat /\ DOMAIN q = 1 .. Len(q)
    /\ Len(r) = Len(q) + 1 /\ DOMAIN r = 1 .. Len(q) + 1
    /\ r[Len(q) + 1] = p /\ \A k \in 1 .. Len(q) : r[k] = q[k]

Shorter(r, q) ==
    /\ Len(q) \in Nat \ {0} /\ DOMAIN q = 1 .. Len(q) /\ DOMAIN r = 1 .. Len(q) - 1
    /\ \A k \in 1 .. Len(q) - 1 : r[k] = q[k + 1]

LEMMA LongerAppend == ASSUME NEW S, NEW q \in Seq(S), NEW p \in S PROVE Longer(Append(q, p), q, p)
  BY DEF Longer

LEMMA ShorterTail ==
    ASSUME NEW S, NEW q \in Seq(S), q # <<>> PROVE Shorter(Tail(q), q) /\ q[1] = Head(q)
  BY DEF Shorter

\* A packet is appended that is none of them.
LEMMA OtherAppended ==
    ASSUME NEW q, NEW r, NEW p, Longer(r, q, p), NEW i, NEW src, ~Carries(p, i)
    PROVE  /\ Places(r, i, src) = Places(q, i, src)
           /\ From(q, i, src) => From(r, i, src)
<1>1. /\ Len(q) \in Nat /\ DOMAIN q = 1 .. Len(q) /\ DOMAIN r = 1 .. Len(q) + 1
      /\ r[Len(q) + 1] = p /\ \A k \in 1 .. Len(q) : r[k] = q[k]
  BY DEF Longer
<1>2. \A k \in DOMAIN r : Carries(r[k], i) => k \in DOMAIN q /\ r[k] = q[k]  BY <1>1
<1>3. \A k \in DOMAIN q : k \in DOMAIN r /\ r[k] = q[k]  BY <1>1
<1>4. \A x : x \in Places(r, i, src) <=> x \in Places(q, i, src)
  BY <1>2, <1>3, PlacesAt
<1>5. Places(r, i, src) = Places(q, i, src)  BY <1>4
<1>6. From(q, i, src) => From(r, i, src)  BY <1>1, <1>2 DEF From
<1> QED  BY <1>5, <1>6

\* The next piece of a stream that has not ended is sent.
LEMMA PieceAppended ==
    ASSUME NEW q, NEW r, NEW p, Longer(r, q, p), NEW i,
           NEW src, NEW new, Longer(new, src, Piece(p)),
           Carries(p, i), IsNext(p, src),
           Unended(src), From(q, i, src)
    PROVE  /\ From(r, i, new)
           /\ \A x : x \in Places(r, i, new) <=> x \in Places(q, i, src) \/ x = Len(src) + 1
<1> DEFINE n == Len(src)
<1>1. /\ Len(q) \in Nat /\ DOMAIN q = 1 .. Len(q) /\ DOMAIN r = 1 .. Len(q) + 1
      /\ r[Len(q) + 1] = p /\ \A k \in 1 .. Len(q) : r[k] = q[k]
  BY DEF Longer
<1>2. /\ n \in Nat /\ Len(new) = n + 1 /\ new[n + 1] = Piece(p)
      /\ \A k \in 1 .. n : new[k] = src[k]
  BY DEF Longer
<1> HIDE DEF n
<1>3. \A k \in DOMAIN q : Carries(q[k], i) =>
          /\ q[k].type = "DATA"
          /\ q[k].x \in 1 .. n /\ new[q[k].x] = q[k].x
  <2>1. SUFFICES ASSUME NEW k \in DOMAIN q, Carries(q[k], i)
                 PROVE  q[k].type = "DATA" /\ q[k].x \in 1 .. n /\ new[q[k].x] = q[k].x
    OBVIOUS
  <2>2. Place(q[k], src) \in 1 .. n /\ src[Place(q[k], src)] = Piece(q[k])
    BY <2>1 DEF From, n
  <2>3. q[k].type = "DATA"  BY <2>1, <2>2 DEF Unended, Carries, Place, Piece, n
  <2> QED  BY <1>2, <2>2, <2>3 DEF Place, Piece
<1>4. \A k \in DOMAIN q : Carries(q[k], i) =>
          /\ Place(q[k], new) = Place(q[k], src) /\ Place(q[k], new) \in 1 .. n
          /\ new[Place(q[k], new)] = Piece(q[k])
  BY <1>3 DEF Place, Piece
<1>5. Place(p, new) = n + 1  BY <1>2 DEF Place, IsNext, n
<1>6. From(r, i, new)
  <2>1. ASSUME NEW k \in DOMAIN r, Carries(r[k], i)
        PROVE  Place(r[k], new) \in 1 .. Len(new) /\ new[Place(r[k], new)] = Piece(r[k])
    BY <1>1, <1>2, <1>4, <1>5, <2>1
  <2>2. ASSUME NEW j \in DOMAIN r, NEW k \in DOMAIN r, j < k, Carries(r[j], i), Carries(r[k], i)
        PROVE  Place(r[j], new) < Place(r[k], new)
    <3>1. j \in DOMAIN q /\ r[j] = q[j]  BY <1>1, <2>2
    <3>2. CASE k \in DOMAIN q
      <4>1. r[k] = q[k]  BY <1>1, <3>2
      <4>2. Place(q[j], src) < Place(q[k], src)  BY <2>2, <3>1, <3>2, <4>1 DEF From
      <4> QED  BY <1>4, <2>2, <3>1, <3>2, <4>1, <4>2
    <3>3. CASE k = Len(q) + 1  BY <1>1, <1>2, <1>4, <1>5, <2>2, <3>1, <3>3
    <3> QED  BY <1>1, <3>2, <3>3
  <2> QED  BY <2>1, <2>2 DEF From
<1>7. ASSUME NEW x PROVE x \in Places(r, i, new) <=> x \in Places(q, i, src) \/ x = n + 1
  <2>1. ASSUME x \in Places(r, i, new) PROVE x \in Places(q, i, src) \/ x = n + 1
    <3>1. PICK k \in DOMAIN r : Carries(r[k], i) /\ Place(r[k], new) = x  BY <2>1, PlacesAt
    <3> QED  BY <1>1, <1>4, <1>5, <3>1, PlacesAt
  <2>2. ASSUME x \in Places(q, i, src) PROVE x \in Places(r, i, new)
    <3>1. PICK k \in DOMAIN q : Carries(q[k], i) /\ Place(q[k], src) = x  BY <2>2, PlacesAt
    <3>2. k \in DOMAIN r /\ r[k] = q[k]  BY <1>1
    <3> QED  BY <1>4, <3>1, <3>2, PlacesAt
  <2>3. n + 1 \in Places(r, i, new)
    <3>1. Len(q) + 1 \in DOMAIN r  BY <1>1
    <3> QED  BY <1>1, <1>5, <3>1, PlacesAt
  <2> QED  BY <2>1, <2>2, <2>3
<1> QED  BY <1>6, <1>7 DEF n

\* The places of packets are places of the stream.
LEMMA PlacesInside ==
    ASSUME NEW q, NEW i, NEW src, From(q, i, src)
    PROVE  \A x \in Places(q, i, src) : x \in 1 .. Len(src)
  BY PlacesAt DEF From

\* ... then none is left out behind the reader, if none was.
LEMMA GaplessAppended ==
    ASSUME NEW q, NEW r, NEW p, Longer(r, q, p), NEW i, NEW n \in Nat,
           NEW src, NEW new, Longer(new, src, Piece(p)),
           Carries(p, i), IsNext(p, src),
           Unended(src), From(q, i, src),
           Gapless(q, i, src, n), Full(q, i, src, n)
    PROVE  Gapless(r, i, new, n) /\ Full(r, i, new, n)
<1>0. \A x : x \in Places(r, i, new) <=> x \in Places(q, i, src) \/ x = Len(src) + 1
  BY PieceAppended
<1> DEFINE P == Places(q, i, src)
           N == Places(r, i, new)
           m == Len(src)
<1>1. \A x : x \in N <=> x \in P \/ x = m + 1  BY <1>0
<1>2. m \in Nat /\ Len(new) = m + 1  BY DEF Longer
<1>3. \A x \in P : x \in 1 .. m  BY PlacesInside
<1>4. \A x \in P : n < x /\ (x = n + 1 \/ x - 1 \in P)  BY DEF Gapless
<1>5. m = n \/ m \in P  BY DEF Full
<1>6. Gapless(r, i, new, n) <=> \A x \in N : n < x /\ (x = n + 1 \/ x - 1 \in N)
  BY DEF Gapless
<1>7. Full(r, i, new, n) <=> Len(new) = n \/ Len(new) \in N  BY DEF Full
<1> HIDE DEF P, N, m
<1>8. n <= m
  <2>1. CASE m \in P
    <3>1. n < m  BY <1>4, <2>1
    <3> QED  BY <1>2, <3>1
  <2> QED  BY <1>2, <1>5, <2>1
<1>9. ASSUME NEW x \in N PROVE n < x /\ (x = n + 1 \/ x - 1 \in N)
  <2>1. CASE x \in P  BY <1>1, <1>4, <2>1
  <2>2. CASE x = m + 1
    <3>1. n < x  BY <1>2, <1>8, <2>2
    <3>2. x - 1 = m  BY <1>2, <2>2
    <3> QED  BY <1>1, <1>5, <2>2, <3>1, <3>2
  <2> QED  BY <1>1, <2>1, <2>2
<1> QED  BY <1>1, <1>2, <1>6, <1>7, <1>9

\* The first packet is taken: one of another stream, ...
LEMMA OtherTaken ==
    ASSUME NEW q, NEW r, Shorter(r, q), NEW i, NEW src, ~Carries(q[1], i)
    PROVE  /\ Places(r, i, src) = Places(q, i, src)
           /\ From(q, i, src) => From(r, i, src)
<1>1. /\ Len(q) \in Nat \ {0} /\ DOMAIN q = 1 .. Len(q) /\ DOMAIN r = 1 .. Len(q) - 1
      /\ 1 \in DOMAIN q /\ \A k \in 1 .. Len(q) - 1 : r[k] = q[k + 1]
  BY DEF Shorter
<1>2. \A k \in DOMAIN r : k + 1 \in DOMAIN q /\ r[k] = q[k + 1]  BY <1>1
<1>3. \A k \in DOMAIN q : Carries(q[k], i) => k - 1 \in DOMAIN r /\ r[k - 1] = q[k]
  BY <1>1
<1>4. \A x : x \in Places(r, i, src) <=> x \in Places(q, i, src)
  BY <1>2, <1>3, PlacesAt
<1>5. Places(r, i, src) = Places(q, i, src)  BY <1>4
<1>6. From(q, i, src) => From(r, i, src)
  <2>1. \A j, k \in DOMAIN r : j < k => j + 1 < k + 1  BY <1>1
  <2> QED  BY <1>2, <2>1 DEF From
<1> QED  BY <1>5, <1>6

\* ... or a piece of this one, which has the first of their places.
LEMMA PieceTaken ==
    ASSUME NEW q, NEW r, Shorter(r, q), NEW i, NEW src, Carries(q[1], i), From(q, i, src)
    PROVE  /\ From(r, i, src)
           /\ Places(q, i, src) = Places(r, i, src) \cup {Place(q[1], src)}
           /\ \A x \in Places(r, i, src) : Place(q[1], src) < x
<1> DEFINE p == q[1]
<1>1. /\ Len(q) \in Nat \ {0} /\ DOMAIN q = 1 .. Len(q) /\ DOMAIN r = 1 .. Len(q) - 1
      /\ q[1] = p /\ \A k \in 1 .. Len(q) - 1 : r[k] = q[k + 1]
  BY DEF Shorter
<1> HIDE DEF p
<1>2. \A k \in DOMAIN r : k + 1 \in DOMAIN q /\ r[k] = q[k + 1] /\ 1 < k + 1  BY <1>1
<1>3. \A k \in DOMAIN q : k = 1 \/ (k - 1 \in DOMAIN r /\ r[k - 1] = q[k])
  BY <1>1
<1>4. From(r, i, src)
  <2>1. \A j, k \in DOMAIN r : j < k => j + 1 < k + 1  BY <1>1
  <2> QED  BY <1>2, <2>1 DEF From
<1>5. ASSUME NEW x
      PROVE  x \in Places(q, i, src) <=> x \in Places(r, i, src) \/ x = Place(p, src)
  <2>1. 1 \in DOMAIN q /\ Carries(q[1], i) /\ q[1] = p  BY <1>1 DEF p
  <2>2. ASSUME x \in Places(q, i, src) PROVE x \in Places(r, i, src) \/ x = Place(p, src)
    <3>1. PICK k \in DOMAIN q : Carries(q[k], i) /\ Place(q[k], src) = x  BY <2>2, PlacesAt
    <3>2. CASE k = 1  BY <2>1, <3>1, <3>2
    <3>3. CASE k - 1 \in DOMAIN r /\ r[k - 1] = q[k]  BY <3>1, <3>3, PlacesAt
    <3> QED  BY <1>3, <3>2, <3>3
  <2>3. ASSUME x \in Places(r, i, src) PROVE x \in Places(q, i, src)
    <3>1. PICK k \in DOMAIN r : Carries(r[k], i) /\ Place(r[k], src) = x  BY <2>3, PlacesAt
    <3> QED  BY <1>2, <3>1, PlacesAt
  <2>4. Place(p, src) \in Places(q, i, src)  BY <2>1, PlacesAt
  <2> QED  BY <2>2, <2>3, <2>4
<1>6. ASSUME NEW x \in Places(r, i, src) PROVE Place(p, src) < x
  <2>1. PICK k \in DOMAIN r : Carries(r[k], i) /\ Place(r[k], src) = x  BY PlacesAt
  <2>2. 1 \in DOMAIN q /\ k + 1 \in DOMAIN q /\ 1 < k + 1 /\ Carries(q[1], i)
        /\ Carries(q[k + 1], i) /\ r[k] = q[k + 1]
    BY <1>1, <1>2, <2>1 DEF p
  <2>3. Place(q[1], src) < Place(q[k + 1], src)  BY <2>2 DEF From
  <2> QED  BY <1>1, <2>1, <2>2, <2>3
<1>7. Places(q, i, src) = Places(r, i, src) \cup {Place(p, src)}  BY <1>5
<1> QED  BY <1>4, <1>6, <1>7 DEF p

\* It is the next one for the reader, and none is left out behind it.
LEMMA GaplessTaken ==
    ASSUME NEW q, NEW r, Shorter(r, q), NEW i, NEW src, Len(src) \in Nat, NEW n \in Nat,
           Carries(q[1], i), From(q, i, src), Gapless(q, i, src, n)
    PROVE  /\ Place(q[1], src) = n + 1 /\ n + 1 <= Len(src) /\ src[n + 1] = Piece(q[1])
           /\ Gapless(r, i, src, n + 1)
           /\ Full(q, i, src, n) => Full(r, i, src, n + 1)
<1> DEFINE P == Places(q, i, src)
           R == Places(r, i, src)
           f == Place(q[1], src)
           m == Len(src)
<1>1. P = R \cup {f} /\ \A x \in R : f < x  BY PieceTaken
<1>2. m \in Nat  OBVIOUS
<1>3. \A x \in P : x \in 1 .. m  BY PlacesInside
<1>4. \A x \in P : n < x /\ (x = n + 1 \/ x - 1 \in P)  BY DEF Gapless
<1>5. f \in P  BY <1>1
<1>6. src[f] = Piece(q[1])
  <2>1. 1 \in DOMAIN q  BY DEF Shorter
  <2> QED  BY <2>1 DEF From
<1>7. Gapless(r, i, src, n + 1) <=>
          \A x \in R : n + 1 < x /\ (x = n + 1 + 1 \/ x - 1 \in R)
  BY DEF Gapless
<1>8. Full(r, i, src, n + 1) <=> m = n + 1 \/ m \in R  BY DEF Full
<1>9. Full(q, i, src, n) <=> m = n \/ m \in P  BY DEF Full
<1> HIDE DEF P, R, f, m
<1>10. f \in Nat /\ \A x \in R : x \in Nat  BY <1>1, <1>2, <1>3, <1>5
<1>11. f = n + 1
  <2>1. f = n + 1 \/ f - 1 \in P  BY <1>4, <1>5
  <2>2. f - 1 \notin R /\ f - 1 # f  BY <1>1, <1>10
  <2> QED  BY <1>1, <2>1, <2>2
<1>12. \A x \in R : n + 1 < x /\ (x = n + 1 + 1 \/ x - 1 \in R)
  <2>1. SUFFICES ASSUME NEW x \in R PROVE n + 1 < x /\ (x = n + 1 + 1 \/ x - 1 \in R)  OBVIOUS
  <2>2. f < x /\ x \in P /\ (x = n + 1 \/ x - 1 \in P)  BY <1>1, <1>4
  <2>3. x - 1 \in R \/ x - 1 = f  BY <1>1, <1>11, <2>2
  <2> QED  BY <1>10, <1>11, <2>2, <2>3
<1>13. m = n \/ m \in P => m = n + 1 \/ m \in R  BY <1>1, <1>3, <1>5, <1>10, <1>11
<1>14. n + 1 <= m  BY <1>2, <1>3, <1>5, <1>11
<1> QED  BY <1>6, <1>7, <1>8, <1>9, <1>11, <1>12, <1>13, <1>14 DEF f, m

\* r holds the pieces of i that q holds, in their order, ...
SameFor(i, r, q) ==
    \A src : Places(r, i, src) = Places(q, i, src) /\ (From(q, i, src) => From(r, i, src))

\* ... or the first of them and no others.
Cut(i, r, q) ==
    /\ \A k \in DOMAIN r : Carries(r[k], i) => k \in DOMAIN q /\ r[k] = q[k]
    /\ \A j \in DOMAIN q : \A k \in DOMAIN r :
           Carries(q[j], i) /\ Carries(r[k], i) /\ j < k => j \in DOMAIN r /\ r[j] = q[j]

LEMMA SameAfter ==
    ASSUME NEW q, NEW i
    PROVE  /\ SameFor(i, q, q)
           /\ \A r, p : Longer(r, q, p) /\ ~Carries(p, i) => SameFor(i, r, q)
           /\ \A r : Shorter(r, q) /\ ~Carries(q[1], i) => SameFor(i, r, q)
<1>1. SameFor(i, q, q)  BY DEF SameFor
<1>2. ASSUME NEW r, NEW p, Longer(r, q, p), ~Carries(p, i) PROVE SameFor(i, r, q)
  BY <1>2, OtherAppended DEF SameFor
<1>3. ASSUME NEW r, Shorter(r, q), ~Carries(q[1], i) PROVE SameFor(i, r, q)
  BY <1>3, OtherTaken DEF SameFor
<1> QED  BY <1>1, <1>2, <1>3

\* What is left of them is still in order, and none is left out.
LEMMA CutKeeps ==
    ASSUME NEW q, NEW r, NEW i, NEW src, Cut(i, r, q), From(q, i, src), Len(src) \in Nat,
           DOMAIN q \subseteq Nat
    PROVE  /\ From(r, i, src)
           /\ \A n \in Nat : Gapless(q, i, src, n) => Gapless(r, i, src, n)
<1>1. \A k \in DOMAIN r : Carries(r[k], i) => k \in DOMAIN q /\ r[k] = q[k]  BY DEF Cut
<1>2. From(r, i, src)  BY <1>1 DEF From
<1>3. ASSUME NEW n \in Nat, Gapless(q, i, src, n), NEW x \in Places(r, i, src)
      PROVE  n < x /\ (x = n + 1 \/ x - 1 \in Places(r, i, src))
  <2>1. PICK k \in DOMAIN r : Carries(r[k], i) /\ Place(r[k], src) = x  BY <1>3, PlacesAt
  <2>2. k \in DOMAIN q /\ r[k] = q[k]  BY <1>1, <2>1
  <2>3. x \in Places(q, i, src)  BY <2>1, <2>2, PlacesAt
  <2>4. n < x /\ (x = n + 1 \/ x - 1 \in Places(q, i, src))  BY <1>3, <2>3 DEF Gapless
  <2>5. ASSUME x - 1 \in Places(q, i, src) PROVE x - 1 \in Places(r, i, src)
    <3>1. PICK j \in DOMAIN q : Carries(q[j], i) /\ Place(q[j], src) = x - 1
      BY <2>5, PlacesAt
    <3>2. x \in Nat /\ j \in Nat /\ k \in Nat
      <4>1. x \in 1 .. Len(src)  BY <2>3, PlacesInside
      <4> QED  BY <2>2, <4>1
    <3>3. ~(k < j)
      <4>1. k < j => Place(q[k], src) < Place(q[j], src)  BY <2>1, <2>2, <3>1 DEF From
      <4> QED  BY <2>1, <2>2, <3>1, <3>2, <4>1
    <3>4. k # j  BY <2>1, <2>2, <3>1, <3>2
    <3>5. j < k  BY <3>2, <3>3, <3>4
    <3>6. j \in DOMAIN r /\ r[j] = q[j]  BY <2>1, <3>1, <3>5 DEF Cut
    <3> QED  BY <3>1, <3>6, PlacesAt
  <2> QED  BY <2>4, <2>5
<1>4. \A n \in Nat : Gapless(q, i, src, n) => Gapless(r, i, src, n)  BY <1>3 DEF Gapless
<1> QED  BY <1>2, <1>4

-----------------------------------------------------------------------------
\* From the application to the client, for one connection.
\* The Pi listens to the application, which a socket t asks for no more than s.
Listens(c) == c.stream # 0 /\ ~c.eosAmi

WritesLess(t, s) ==
    /\ WriteWaits(s) => WriteWaits(t)
    /\ t.state = "open" /\ "SENT_EOS_TO_RPI" \notin t.flags =>
          s.state = "open" /\ "SENT_EOS_TO_RPI" \notin s.flags

\* Nothing of it moves.
LEMMA PiKept ==
    ASSUME NEW i, NEW s, NEW t, NEW q, NEW r, NEW src, NEW c, NEW d, NEW heard,
           ToPi(i, s, q, src, c, heard), SameFor(i, r, q), WritesLess(t, s),
           Listens(d) => Listens(c)
    PROVE  ToPi(i, t, r, src, d, heard)
<1>1. WriterInv(t, src)  BY DEF ToPi, WriterInv, WritesLess
<1>2. /\ From(r, i, src) /\ Places(r, i, src) = Places(q, i, src)
      /\ Listens(d) => Gapless(q, i, src, Len(heard)) /\ Full(q, i, src, Len(heard))
  BY DEF ToPi, HearerInv, SameFor, Listens
<1>3. HearerInv(i, r, src, d, heard)  BY <1>2 DEF HearerInv, Gapless, Full, Listens
<1> QED  BY <1>1, <1>3 DEF ToPi

\* It begins.
LEMMA PiBegins ==
    ASSUME NEW i, NEW t, NEW q, NEW r, NEW src, NEW d, NEW heard,
           From(q, i, src), SameFor(i, r, q), src = <<>>, heard = <<>>,
           WriteWaits(t)
    PROVE  ToPi(i, t, r, src, d, heard)
<1>1. Len(src) = 0 /\ Len(heard) = 0  OBVIOUS
<1>2. From(r, i, src)  BY DEF SameFor
<1>3. Places(r, i, src) = {}
  <2>1. \A x \in Places(r, i, src) : x \in 1 .. Len(src)  BY <1>2, PlacesInside
  <2> QED  BY <1>1, <2>1
<1>4. WriterInv(t, src)  BY <1>1 DEF WriterInv, Unended
<1>5. HearerInv(i, r, src, d, heard)  BY <1>1, <1>2, <1>3 DEF HearerInv, Gapless, Full
<1> QED  BY <1>4, <1>5 DEF ToPi

\* The application's next piece goes into the ring.
LEMMA PiSent ==
    ASSUME NEW i, NEW s, NEW t, NEW q, NEW r, NEW p, NEW src, NEW new, NEW c, NEW heard,
           ToPi(i, s, q, src, c, heard), Len(heard) \in Nat,
           s.state = "open", "SENT_EOS_TO_RPI" \notin s.flags,
           Longer(r, q, p), Carries(p, i), IsNext(p, src), Longer(new, src, Piece(p)),
           WriteWaits(t),
           t.state = "open" /\ "SENT_EOS_TO_RPI" \notin t.flags => Piece(p) # EOS
    PROVE  ToPi(i, t, r, new, c, heard) /\ Unended(src)
<1>1. Unended(src) /\ From(q, i, src)  BY DEF ToPi, WriterInv, HearerInv
<1>2. From(r, i, new)  BY <1>1, PieceAppended
<1>3. Unended(new) <=> Piece(p) # EOS  BY <1>1 DEF Unended, Longer
<1>4. WriterInv(t, new)  BY <1>3 DEF WriterInv
<1>5. Listens(c) => Gapless(r, i, new, Len(heard)) /\ Full(r, i, new, Len(heard))
  BY <1>1, GaplessAppended DEF ToPi, HearerInv, Listens
<1>6. HearerInv(i, r, new, c, heard)  BY <1>2, <1>5 DEF HearerInv, Listens
<1> QED  BY <1>1, <1>4, <1>6 DEF ToPi

\* The Pi takes a piece: it is the next for the client, ...
LEMMA PiHeard ==
    ASSUME NEW i, NEW s, NEW q, NEW r, NEW src, NEW c, NEW d, NEW heard, NEW new,
           ToPi(i, s, q, src, c, heard), Len(heard) \in Nat, Len(src) \in Nat,
           Listens(c), Shorter(r, q), Carries(q[1], i), Longer(new, heard, Piece(q[1]))
    PROVE  ToPi(i, s, r, src, d, new)
<1>1. From(q, i, src) /\ Gapless(q, i, src, Len(heard)) /\ Full(q, i, src, Len(heard))
  BY DEF ToPi, HearerInv, Listens
<1>2. Len(new) = Len(heard) + 1  BY DEF Longer
<1>3. From(r, i, src)  BY <1>1, PieceTaken
<1>4. Gapless(r, i, src, Len(new)) /\ Full(r, i, src, Len(new))
  BY <1>1, <1>2, GaplessTaken
<1>5. HearerInv(i, r, src, d, new)  BY <1>3, <1>4 DEF HearerInv
<1> QED  BY <1>5 DEF ToPi

LEMMA PiHearsNext ==
    ASSUME NEW i, NEW s, NEW q, NEW r, NEW src, NEW c, NEW heard,
           ToPi(i, s, q, src, c, heard), Len(heard) \in Nat, Len(src) \in Nat,
           Listens(c), Shorter(r, q), Carries(q[1], i)
    PROVE  Len(heard) < Len(src) /\ Piece(q[1]) = src[Len(heard) + 1]
<1>1. From(q, i, src) /\ Gapless(q, i, src, Len(heard)) /\ Full(q, i, src, Len(heard))
  BY DEF ToPi, HearerInv, Listens
<1>2. Len(heard) + 1 <= Len(src) /\ Piece(q[1]) = src[Len(heard) + 1]
  BY <1>1, GaplessTaken
<1> QED  BY <1>2

\* ... or it is dropped, as the Pi does not listen any more.
LEMMA PiDrops ==
    ASSUME NEW i, NEW s, NEW q, NEW r, NEW src, NEW c, NEW d, NEW heard,
           ToPi(i, s, q, src, c, heard), ~Listens(d), Shorter(r, q), Carries(q[1], i)
    PROVE  ToPi(i, s, r, src, d, heard)
<1>1. From(r, i, src)  BY PieceTaken DEF ToPi, HearerInv
<1> QED  BY <1>1 DEF ToPi, HearerInv, Listens

-----------------------------------------------------------------------------
\* From the client to the application, for one connection.
\* What the socket has for the application, beyond what it has read.
Reached(s, read) == Len(read) + Len(s.rq)

Socketed(s, src, read) ==
    /\ Reached(s, read) <= Len(src)
    /\ \A k \in 1 .. Len(s.rq) : s.rq[k] = src[Len(read) + k]

\* The EOS has not reached the socket, or it has.
Reading(i, q, src, c, s, read) ==
    "RCVD_EOS_FROM_RPI" \notin s.flags =>
        /\ Gapless(q, i, src, Reached(s, read))
        /\ c.stream # 0 => Full(q, i, src, Reached(s, read))

AllRead(i, q, src, s, read) ==
    "RCVD_EOS_FROM_RPI" \in s.flags =>
        /\ Places(q, i, src) = {}
        /\ "SENT_EOS_TO_APP" \notin s.flags =>
              Len(src) = Reached(s, read) + 1 /\ src[Reached(s, read) + 1] = EOS

\* A READ is pending as long as there is nothing for it.
ReadWaits(s) == "READ" \in s.pend => s.rq = <<>> /\ "RCVD_EOS_FROM_RPI" \notin s.flags

LEMMA ReaderParts ==
    ASSUME NEW i, NEW q, NEW src, NEW c, NEW s, NEW read
    PROVE  ReaderInv(i, q, src, c, s, read) <=>
               /\ From(q, i, src) /\ ReadWaits(s)
               /\ s.state = "open" => /\ Socketed(s, src, read)
                                      /\ Reading(i, q, src, c, s, read)
                                      /\ AllRead(i, q, src, s, read)
  BY DEF ReaderInv, ReadWaits, Socketed, Reading, AllRead, Reached

\* A socket t holds what s holds, and waits for no more.
ReadsLess(t, s) ==
    /\ t.state = "open" =>
          /\ s.state = "open" /\ t.rq = s.rq
          /\ "RCVD_EOS_FROM_RPI" \in t.flags <=> "RCVD_EOS_FROM_RPI" \in s.flags
          /\ "SENT_EOS_TO_APP" \in s.flags => "SENT_EOS_TO_APP" \in t.flags
    /\ ReadWaits(s) => ReadWaits(t)

\* The client is no further from its end: in state sm after st.
EndsMore(sm, st) == (sm = "new" => st = "new") /\ (sm = "ok" => st \in {"new", "ok"})

LEMMA SenderKept ==
    ASSUME NEW st, NEW sm, NEW src, SenderInv(st, src), EndsMore(sm, st)
    PROVE  SenderInv(sm, src)
<1>1. src = <<>> => Len(src) = 0  OBVIOUS
<1> QED  BY <1>1 DEF SenderInv, EndsMore, Unended

\* Nothing of it moves.
LEMMA AmigaKept ==
    ASSUME NEW i, NEW st, NEW sm, NEW q, NEW r, NEW src, NEW c, NEW d, NEW s, NEW t, NEW read,
           ToAmiga(i, st, q, src, c, s, read), EndsMore(sm, st), SameFor(i, r, q),
           ReadsLess(t, s), d.stream # 0 => c.stream # 0
    PROVE  ToAmiga(i, sm, r, src, d, t, read)
<1>1. SenderInv(sm, src)  BY SenderKept DEF ToAmiga
<1>2. From(r, i, src) /\ Places(r, i, src) = Places(q, i, src)
  BY ReaderParts DEF ToAmiga, SameFor
<1>3. ReadWaits(t)  BY ReaderParts DEF ToAmiga, ReadsLess
<1>4. ASSUME t.state = "open"
      PROVE  Socketed(t, src, read) /\ Reading(i, r, src, d, t, read) /\ AllRead(i, r, src, t, read)
  <2>1. /\ s.state = "open" /\ t.rq = s.rq
        /\ "RCVD_EOS_FROM_RPI" \in t.flags <=> "RCVD_EOS_FROM_RPI" \in s.flags
        /\ "SENT_EOS_TO_APP" \in s.flags => "SENT_EOS_TO_APP" \in t.flags
    BY <1>4 DEF ReadsLess
  <2>2. Socketed(s, src, read) /\ Reading(i, q, src, c, s, read) /\ AllRead(i, q, src, s, read)
    BY <2>1, ReaderParts DEF ToAmiga
  <2>3. Reached(t, read) = Reached(s, read)  BY <2>1 DEF Reached
  <2>4. Socketed(t, src, read)  BY <2>1, <2>2, <2>3 DEF Socketed
  <2>5. Reading(i, r, src, d, t, read)  BY <1>2, <2>1, <2>2, <2>3 DEF Reading, Gapless, Full
  <2>6. AllRead(i, r, src, t, read)  BY <1>2, <2>1, <2>2, <2>3 DEF AllRead
  <2> QED  BY <2>4, <2>5, <2>6
<1> QED  BY <1>1, <1>2, <1>3, <1>4, ReaderParts DEF ToAmiga

\* It begins.
LEMMA AmigaBegins ==
    ASSUME NEW i, NEW sm, NEW q, NEW r, NEW src, NEW d, NEW t, NEW read,
           From(q, i, src), SameFor(i, r, q), src = <<>>, read = <<>>,
           ReadWaits(t), t.state = "open" => t.rq = <<>> /\ "RCVD_EOS_FROM_RPI" \notin t.flags
    PROVE  ToAmiga(i, sm, r, src, d, t, read)
<1>1. Len(src) = 0 /\ Len(read) = 0 /\ (t.state = "open" => Len(t.rq) = 0)  OBVIOUS
<1>2. SenderInv(sm, src)  BY <1>1 DEF SenderInv, Unended
<1>3. From(r, i, src)  BY DEF SameFor
<1>4. Places(r, i, src) = {}
  <2>1. \A x \in Places(r, i, src) : x \in 1 .. Len(src)  BY <1>3, PlacesInside
  <2> QED  BY <1>1, <2>1
<1>5. ASSUME t.state = "open"
      PROVE  Socketed(t, src, read) /\ Reading(i, r, src, d, t, read) /\ AllRead(i, r, src, t, read)
  <2>1. Reached(t, read) = 0  BY <1>1, <1>5 DEF Reached
  <2>2. Socketed(t, src, read)  BY <1>1, <1>5, <2>1 DEF Socketed
  <2>3. Reading(i, r, src, d, t, read)  BY <1>1, <1>4, <2>1 DEF Reading, Gapless, Full
  <2>4. AllRead(i, r, src, t, read)  BY <1>5 DEF AllRead
  <2> QED  BY <2>2, <2>3, <2>4
<1> QED  BY <1>2, <1>3, <1>5, ReaderParts DEF ToAmiga

\* The channel is given up: of what was on the way some is lost, with all after it.
LEMMA AmigaCut ==
    ASSUME NEW i, NEW st, NEW sm, NEW q, NEW r, NEW src, NEW c, NEW d, NEW s, NEW read,
           ToAmiga(i, st, q, src, c, s, read), EndsMore(sm, st), Cut(i, r, q),
           Len(src) \in Nat, DOMAIN q \subseteq Nat, Reached(s, read) \in Nat, d.stream = 0
    PROVE  ToAmiga(i, sm, r, src, d, s, read)
<1>1. SenderInv(sm, src)  BY SenderKept DEF ToAmiga
<1>2. From(q, i, src) /\ ReadWaits(s)  BY ReaderParts DEF ToAmiga
<1>3. From(r, i, src) /\ \A n \in Nat : Gapless(q, i, src, n) => Gapless(r, i, src, n)
  BY <1>2, CutKeeps
<1>4. \A x \in Places(r, i, src) : x \in Places(q, i, src)
  <2>1. \A k \in DOMAIN r : Carries(r[k], i) => k \in DOMAIN q /\ r[k] = q[k]  BY DEF Cut
  <2> QED  BY <2>1, PlacesAt
<1>5. ASSUME s.state = "open"
      PROVE  Socketed(s, src, read) /\ Reading(i, r, src, d, s, read) /\ AllRead(i, r, src, s, read)
  <2>1. Socketed(s, src, read) /\ Reading(i, q, src, c, s, read) /\ AllRead(i, q, src, s, read)
    BY <1>5, ReaderParts DEF ToAmiga
  <2>2. Reading(i, r, src, d, s, read)  BY <1>3, <2>1 DEF Reading
  <2>3. AllRead(i, r, src, s, read)  BY <1>4, <2>1 DEF AllRead
  <2> QED  BY <2>1, <2>2, <2>3
<1> QED  BY <1>1, <1>2, <1>3, <1>5, ReaderParts DEF ToAmiga

\* The client sends its next piece.
LEMMA AmigaSent ==
    ASSUME NEW i, NEW sm, NEW q, NEW r, NEW p, NEW src, NEW new, NEW c, NEW d, NEW s, NEW read,
           ToAmiga(i, "ok", q, src, c, s, read), Reached(s, read) \in Nat, c.stream # 0,
           s.state = "open" => "RCVD_EOS_FROM_RPI" \notin s.flags,
           Longer(r, q, p), Carries(p, i), IsNext(p, src), Longer(new, src, Piece(p)),
           sm # "new", sm = "ok" => Piece(p) # EOS
    PROVE  ToAmiga(i, sm, r, new, d, s, read) /\ Unended(src)
<1>1. Unended(src) /\ From(q, i, src) /\ ReadWaits(s)
  BY ReaderParts DEF ToAmiga, SenderInv
<1>2. From(r, i, new)  BY <1>1, PieceAppended
<1>3. SenderInv(sm, new)  BY <1>1 DEF SenderInv, Unended, Longer
<1>4. ASSUME s.state = "open"
      PROVE  Socketed(s, new, read) /\ Reading(i, r, new, d, s, read) /\ AllRead(i, r, new, s, read)
  <2> DEFINE n == Reached(s, read)
  <2>1. Socketed(s, src, read) /\ Reading(i, q, src, c, s, read)
    BY <1>4, ReaderParts DEF ToAmiga
  <2>2. Gapless(q, i, src, n) /\ Full(q, i, src, n)  BY <1>4, <2>1 DEF Reading
  <2>3. n \in Nat  OBVIOUS
  <2>4. Gapless(r, i, new, n) /\ Full(r, i, new, n)
    <3> HIDE DEF n
    <3> QED  BY <1>1, <2>2, <2>3, GaplessAppended
  <2>5. Socketed(s, new, read)
    <3>1. /\ Len(src) \in Nat /\ Len(new) = Len(src) + 1
          /\ \A k \in 1 .. Len(src) : new[k] = src[k]
      BY DEF Longer
    <3>2. n <= Len(src) /\ \A k \in 1 .. Len(s.rq) : s.rq[k] = src[Len(read) + k]
      BY <2>1 DEF Socketed
    <3>3. ASSUME NEW k \in 1 .. Len(s.rq) PROVE s.rq[k] = new[Len(read) + k]
      <4>1. s.rq[k] = src[Len(read) + k]  BY <3>2
      <4>2. Len(read) + k \in 1 .. Len(src)  BY <2>3, <3>1, <3>2 DEF Reached
      <4> QED  BY <3>1, <4>1, <4>2
    <3> QED  BY <2>3, <3>1, <3>2, <3>3 DEF Socketed
  <2>6. Reading(i, r, new, d, s, read)  BY <2>4 DEF Reading
  <2>7. AllRead(i, r, new, s, read)  BY <1>4 DEF AllRead
  <2> QED  BY <2>5, <2>6, <2>7
<1> QED  BY <1>1, <1>2, <1>3, <1>4, ReaderParts DEF ToAmiga

\* What the next packet of the stream is when it comes to the socket, which has n
\* of them, and what is left on the way.
Comes(i, q, r, src, c, s, n) ==
    /\ "RCVD_EOS_FROM_RPI" \notin s.flags
    /\ From(r, i, src)
    /\ n < Len(src) /\ src[n + 1] = Piece(q[1]) /\ Place(q[1], src) = n + 1
    /\ Gapless(r, i, src, n + 1) /\ (c.stream # 0 => Full(r, i, src, n + 1))

LEMMA NextPiece ==
    ASSUME NEW i, NEW st, NEW q, NEW r, NEW src, NEW c, NEW s, NEW read,
           ToAmiga(i, st, q, src, c, s, read), s.state = "open",
           Len(src) \in Nat, Reached(s, read) \in Nat, Shorter(r, q), Carries(q[1], i)
    PROVE  Comes(i, q, r, src, c, s, Reached(s, read))
<1> DEFINE n == Reached(s, read)
<1>1. From(q, i, src) /\ Reading(i, q, src, c, s, read) /\ AllRead(i, q, src, s, read)
  BY ReaderParts DEF ToAmiga
<1>2. From(r, i, src)  BY <1>1, PieceTaken
<1>3. "RCVD_EOS_FROM_RPI" \notin s.flags
  <2>1. Place(q[1], src) \in Places(q, i, src)  BY <1>1, PieceTaken
  <2> QED  BY <1>1, <2>1 DEF AllRead
<1>4. Gapless(q, i, src, n) /\ (c.stream # 0 => Full(q, i, src, n))
  BY <1>1, <1>3 DEF Reading
<1>5. n \in Nat  OBVIOUS
<1> HIDE DEF n
<1>6. /\ Place(q[1], src) = n + 1 /\ n + 1 <= Len(src) /\ src[n + 1] = Piece(q[1])
      /\ Gapless(r, i, src, n + 1) /\ (c.stream # 0 => Full(r, i, src, n + 1))
  BY <1>1, <1>4, <1>5, GaplessTaken
<1>7. n < Len(src)  BY <1>5, <1>6
<1> QED  BY <1>2, <1>3, <1>6, <1>7 DEF n, Comes

\* Data waits at the socket, ...
LEMMA AmigaQueued ==
    ASSUME NEW i, NEW st, NEW q, NEW r, NEW src, NEW c, NEW s, NEW t, NEW read,
           ToAmiga(i, st, q, src, c, s, read), s.state = "open",
           Len(src) \in Nat, Len(read) \in Nat, Shorter(r, q), Carries(q[1], i),
           Longer(t.rq, s.rq, Piece(q[1])), t.flags = s.flags, "READ" \notin t.pend
    PROVE  ToAmiga(i, st, r, src, c, t, read)
<1>1. /\ Len(s.rq) \in Nat /\ Len(t.rq) = Len(s.rq) + 1
      /\ t.rq[Len(s.rq) + 1] = Piece(q[1]) /\ \A k \in 1 .. Len(s.rq) : t.rq[k] = s.rq[k]
  BY DEF Longer
<1>2. Reached(s, read) \in Nat /\ Reached(t, read) = Reached(s, read) + 1
      /\ Reached(s, read) = Len(read) + Len(s.rq)
  BY <1>1 DEF Reached
<1>3. /\ "RCVD_EOS_FROM_RPI" \notin t.flags
      /\ From(r, i, src)
      /\ Reached(s, read) < Len(src) /\ src[Reached(s, read) + 1] = Piece(q[1])
      /\ Gapless(r, i, src, Reached(t, read))
      /\ c.stream # 0 => Full(r, i, src, Reached(t, read))
  <2>1. /\ "RCVD_EOS_FROM_RPI" \notin s.flags
        /\ From(r, i, src)
        /\ Reached(s, read) < Len(src) /\ src[Reached(s, read) + 1] = Piece(q[1])
        /\ Gapless(r, i, src, Reached(s, read) + 1)
        /\ c.stream # 0 => Full(r, i, src, Reached(s, read) + 1)
    <3>1. Reached(s, read) \in Nat  BY <1>2
    <3>2. Comes(i, q, r, src, c, s, Reached(s, read))  BY <3>1, NextPiece
    <3> QED  BY <3>2, Zenon DEF Comes
  <2> QED  BY <1>2, <2>1, Zenon
<1>4. \A k \in 1 .. Len(s.rq) : s.rq[k] = src[Len(read) + k]
  BY ReaderParts DEF ToAmiga, Socketed
<1>5. Socketed(t, src, read)
  <2>1. Reached(t, read) <= Len(src)  BY <1>2, <1>3
  <2>2. ASSUME NEW k \in 1 .. Len(t.rq) PROVE t.rq[k] = src[Len(read) + k]
    <3>1. CASE k = Len(s.rq) + 1
      <4>1. Len(read) + k = Reached(s, read) + 1  BY <1>1, <1>2, <3>1
      <4> QED  BY <1>1, <1>3, <3>1, <4>1
    <3>2. CASE k \in 1 .. Len(s.rq)  BY <1>1, <1>4, <3>2
    <3> QED  BY <1>1, <3>1, <3>2
  <2> QED  BY <2>1, <2>2 DEF Socketed
<1>6. Reading(i, r, src, c, t, read) /\ AllRead(i, r, src, t, read) /\ ReadWaits(t)
  BY <1>3 DEF Reading, AllRead, ReadWaits
<1> QED  BY <1>3, <1>5, <1>6, ReaderParts DEF ToAmiga

\* ... or is read at once.
LEMMA AmigaGiven ==
    ASSUME NEW i, NEW st, NEW q, NEW r, NEW src, NEW c, NEW s, NEW t, NEW read, NEW new,
           ToAmiga(i, st, q, src, c, s, read), s.state = "open", "READ" \in s.pend,
           Len(src) \in Nat, Len(read) \in Nat, Shorter(r, q), Carries(q[1], i),
           Longer(new, read, Piece(q[1])),
           t.rq = s.rq, t.flags = s.flags, "READ" \notin t.pend
    PROVE  ToAmiga(i, st, r, src, c, t, new)
<1>1. s.rq = <<>>  BY ReaderParts DEF ToAmiga, ReadWaits
<1>2. Len(s.rq) = 0 /\ Len(t.rq) = 0 /\ Len(new) = Len(read) + 1  BY <1>1 DEF Longer
<1>3. Reached(s, read) = Len(read) /\ Reached(t, new) = Len(read) + 1
  BY <1>2 DEF Reached
<1>4. /\ "RCVD_EOS_FROM_RPI" \notin t.flags
      /\ From(r, i, src)
      /\ Len(read) < Len(src) /\ src[Len(read) + 1] = Piece(q[1])
      /\ Gapless(r, i, src, Reached(t, new)) /\ (c.stream # 0 => Full(r, i, src, Reached(t, new)))
  <2>1. /\ "RCVD_EOS_FROM_RPI" \notin s.flags
        /\ From(r, i, src)
        /\ Reached(s, read) < Len(src) /\ src[Reached(s, read) + 1] = Piece(q[1])
        /\ Gapless(r, i, src, Reached(s, read) + 1)
        /\ c.stream # 0 => Full(r, i, src, Reached(s, read) + 1)
    <3>1. Reached(s, read) \in Nat  BY <1>3
    <3>2. Comes(i, q, r, src, c, s, Reached(s, read))  BY <3>1, NextPiece
    <3> QED  BY <3>2, Zenon DEF Comes
  <2> QED  BY <1>3, <2>1, Zenon
<1>5. Socketed(t, src, new)  BY <1>2, <1>3, <1>4 DEF Socketed
<1>6. Reading(i, r, src, c, t, new) /\ AllRead(i, r, src, t, new) /\ ReadWaits(t)
  BY <1>4 DEF Reading, AllRead, ReadWaits
<1> QED  BY <1>4, <1>5, <1>6, ReaderParts DEF ToAmiga

\* The application reads what waits at the socket.
LEMMA AmigaRead ==
    ASSUME NEW i, NEW st, NEW q, NEW src, NEW c, NEW s, NEW t, NEW read, NEW new,
           ToAmiga(i, st, q, src, c, s, read), s.state = "open",
           Len(src) \in Nat, Len(read) \in Nat, Shorter(t.rq, s.rq), Len(t.rq) \in Nat,
           Longer(new, read, s.rq[1]), t.flags = s.flags, "READ" \notin t.pend
    PROVE  /\ ToAmiga(i, st, q, src, c, t, new)
           /\ Len(read) < Len(src) /\ src[Len(read) + 1] = s.rq[1]
<1>1. /\ Len(s.rq) \in Nat \ {0} /\ Len(t.rq) = Len(s.rq) - 1 /\ Len(new) = Len(read) + 1
      /\ \A k \in 1 .. Len(s.rq) - 1 : t.rq[k] = s.rq[k + 1]
  <2>1. /\ Len(s.rq) \in Nat \ {0} /\ DOMAIN t.rq = 1 .. Len(s.rq) - 1
        /\ \A k \in 1 .. Len(s.rq) - 1 : t.rq[k] = s.rq[k + 1]
    BY DEF Shorter
  <2>2. Len(new) = Len(read) + 1  BY DEF Longer
  <2> QED  BY <2>1, <2>2
<1>2. Reached(t, new) = Reached(s, read)
  <2>1. Reached(t, new) = (Len(read) + 1) + (Len(s.rq) - 1)  BY <1>1 DEF Reached
  <2>2. \A a, b \in Nat : (a + 1) + (b - 1) = a + b  OBVIOUS
  <2>3. Len(read) \in Nat /\ Len(s.rq) \in Nat  BY <1>1
  <2> QED  BY <2>1, <2>2, <2>3, Zenon DEF Reached
<1>3. Socketed(s, src, read) /\ Reading(i, q, src, c, s, read) /\ AllRead(i, q, src, s, read)
      /\ From(q, i, src)
  BY ReaderParts DEF ToAmiga
<1>4. Len(read) + Len(s.rq) <= Len(src) /\ \A k \in 1 .. Len(s.rq) : s.rq[k] = src[Len(read) + k]
  BY <1>3 DEF Socketed, Reached
<1>5. Len(read) < Len(src) /\ src[Len(read) + 1] = s.rq[1]  BY <1>1, <1>4
<1>6. Socketed(t, src, new)
  <2>1. ASSUME NEW k \in 1 .. Len(t.rq) PROVE t.rq[k] = src[Len(new) + k]
    <3>1. k + 1 \in 1 .. Len(s.rq) /\ Len(read) + (k + 1) = Len(new) + k
      <4>1. k \in 1 .. Len(s.rq) - 1 /\ Len(s.rq) \in Nat /\ Len(new) = Len(read) + 1  BY <1>1
      <4> QED  BY <4>1
    <3>2. t.rq[k] = s.rq[k + 1]  BY <1>1
    <3> QED  BY <1>4, <3>1, <3>2
  <2> QED  BY <1>2, <1>3, <2>1 DEF Socketed
<1>7. Reading(i, q, src, c, t, new) /\ AllRead(i, q, src, t, new) /\ ReadWaits(t)
  BY <1>2, <1>3 DEF Reading, AllRead, ReadWaits
<1> QED  BY <1>3, <1>5, <1>6, <1>7, ReaderParts DEF ToAmiga

\* The EOS comes to the socket, ...
LEMMA AmigaEnds ==
    ASSUME NEW i, NEW st, NEW q, NEW r, NEW src, NEW c, NEW s, NEW t, NEW read,
           ToAmiga(i, st, q, src, c, s, read), s.state = "open",
           Len(src) \in Nat, Reached(s, read) \in Nat,
           Shorter(r, q), Carries(q[1], i), q[1].type = "EOS",
           t.rq = s.rq, t.flags = s.flags \cup {"RCVD_EOS_FROM_RPI"}, "READ" \notin t.pend
    PROVE  ToAmiga(i, st, r, src, c, t, read)
<1>1. Piece(q[1]) = EOS /\ Place(q[1], src) = Len(src)  BY DEF Piece, Place
<1>2. Reached(t, read) = Reached(s, read)  BY DEF Reached
<1>3. Comes(i, q, r, src, c, s, Reached(s, read))  BY NextPiece
<1>4. /\ From(r, i, src)
      /\ Len(src) = Reached(t, read) + 1 /\ src[Reached(t, read) + 1] = EOS
  BY <1>1, <1>2, <1>3, Zenon DEF Comes
<1>5. Places(r, i, src) = {}
  <2>1. \A x \in Places(r, i, src) : x \in 1 .. Len(src)  BY <1>4, PlacesInside
  <2>2. \A x \in Places(r, i, src) : Len(src) < x
    BY <1>1, <1>3 DEF Comes, Gapless
  <2> QED  BY <2>1, <2>2
<1>6. Socketed(t, src, read)
  <2>1. Socketed(s, src, read)  BY ReaderParts DEF ToAmiga
  <2> QED  BY <1>2, <2>1 DEF Socketed
<1>7. Reading(i, r, src, c, t, read) /\ AllRead(i, r, src, t, read) /\ ReadWaits(t)
  BY <1>4, <1>5 DEF Reading, AllRead, ReadWaits
<1> QED  BY <1>4, <1>6, <1>7, ReaderParts DEF ToAmiga

\* ... and is read there.
LEMMA AmigaEosRead ==
    ASSUME NEW i, NEW st, NEW q, NEW src, NEW c, NEW d, NEW s, NEW t, NEW read, NEW new,
           ToAmiga(i, st, q, src, c, s, read), s.state = "open",
           Len(src) \in Nat, Len(read) \in Nat, s.rq = <<>>, Longer(new, read, EOS),
           "RCVD_EOS_FROM_RPI" \in s.flags, "SENT_EOS_TO_APP" \notin s.flags,
           "READ" \notin t.pend,
           t.state = "open" => /\ t.rq = <<>> /\ "RCVD_EOS_FROM_RPI" \in t.flags
                               /\ "SENT_EOS_TO_APP" \in t.flags
    PROVE  /\ ToAmiga(i, st, q, src, d, t, new)
           /\ Len(read) < Len(src) /\ src[Len(read) + 1] = EOS
<1>1. Len(s.rq) = 0 /\ Len(new) = Len(read) + 1  BY DEF Longer
<1>2. Reached(s, read) = Len(read)  BY <1>1 DEF Reached
<1>3. AllRead(i, q, src, s, read) /\ From(q, i, src)  BY ReaderParts DEF ToAmiga
<1>4. Places(q, i, src) = {} /\ Len(src) = Len(read) + 1 /\ src[Len(read) + 1] = EOS
  BY <1>2, <1>3 DEF AllRead
<1>5. ASSUME t.state = "open"
      PROVE  Socketed(t, src, new) /\ Reading(i, q, src, d, t, new) /\ AllRead(i, q, src, t, new)
  <2>1. Len(t.rq) = 0  BY <1>5
  <2>2. Reached(t, new) = Len(src)  BY <1>1, <1>4, <2>1 DEF Reached
  <2> QED  BY <1>4, <1>5, <2>1, <2>2 DEF Socketed, Reading, AllRead
<1>6. ReadWaits(t)  BY DEF ReadWaits
<1>7. Len(read) < Len(src)  BY <1>4
<1> QED  BY <1>3, <1>4, <1>5, <1>6, <1>7, ReaderParts DEF ToAmiga

\* The socket is not open any more: what comes is lost.
LEMMA AmigaLost ==
    ASSUME NEW i, NEW st, NEW sm, NEW q, NEW r, NEW src, NEW c, NEW d, NEW s, NEW t, NEW read, NEW new,
           ToAmiga(i, st, q, src, c, s, read), EndsMore(sm, st),
           SameFor(i, r, q) \/ Shorter(r, q), t.state # "open", "READ" \notin t.pend
    PROVE  ToAmiga(i, sm, r, src, d, t, new)
<1>1. SenderInv(sm, src)  BY SenderKept DEF ToAmiga
<1>2. From(q, i, src)  BY ReaderParts DEF ToAmiga
<1>3. From(r, i, src)
  <2>1. CASE SameFor(i, r, q)  BY <1>2, <2>1 DEF SameFor
  <2>2. CASE Shorter(r, q) /\ Carries(q[1], i)  BY <1>2, <2>2, PieceTaken
  <2>3. CASE Shorter(r, q) /\ ~Carries(q[1], i)  BY <1>2, <2>3, OtherTaken
  <2> QED  BY <2>1, <2>2, <2>3
<1>4. ReadWaits(t)  BY DEF ReadWaits
<1> QED  BY <1>1, <1>3, <1>4, ReaderParts DEF ToAmiga

-----------------------------------------------------------------------------
\* The way to a socket: what R2A holds, q, and then what its channel holds, w.
LEMMA WayAt ==
    ASSUME NEW S, NEW q \in Seq(S), NEW w \in Seq(S)
    PROVE  /\ Len(q) \in Nat /\ Len(w) \in Nat /\ DOMAIN (q \o w) = 1 .. Len(q) + Len(w)
           /\ q \o w \in Seq(S) /\ Len(q \o w) = Len(q) + Len(w)
           /\ \A k \in 1 .. Len(q) : (q \o w)[k] = q[k]
           /\ \A k \in Len(q) + 1 .. Len(q) + Len(w) : (q \o w)[k] = w[k - Len(q)]
<1>1. /\ q \o w \in Seq(S) /\ Len(q \o w) = Len(q) + Len(w) /\ Len(q) \in Nat /\ Len(w) \in Nat
      /\ \A k \in 1 .. Len(q) + Len(w) :
            (q \o w)[k] = IF k <= Len(q) THEN q[k] ELSE w[k - Len(q)]
  BY ConcatProperties
<1>2. DOMAIN (q \o w) = 1 .. Len(q) + Len(w)  BY <1>1
<1> QED  BY <1>1, <1>2

\* A packet joins the channel's, or is taken from the ring.
LEMMA WayMoves ==
    ASSUME NEW S, NEW q \in Seq(S), NEW w \in Seq(S)
    PROVE  /\ \A p \in S : Longer(q \o Append(w, p), q \o w, p)
           /\ q # <<>> => Shorter(Tail(q) \o w, q \o w) /\ (q \o w)[1] = Head(q)
<1>1. ASSUME NEW p \in S PROVE Longer(q \o Append(w, p), q \o w, p)
  <2>1. q \o Append(w, p) = Append(q \o w, p)  BY ConcatProperties
  <2>2. q \o w \in Seq(S)  BY WayAt
  <2> QED  BY <2>1, <2>2, LongerAppend
<1>2. ASSUME q # <<>> PROVE Shorter(Tail(q) \o w, q \o w) /\ (q \o w)[1] = Head(q)
  <2>1. q \o w \in Seq(S) /\ Len(q) \in Nat \ {0} /\ (q \o w)[1] = q[1] /\ q \o w # <<>>
    <3>1. Len(q) \in Nat \ {0}  BY <1>2
    <3> QED  BY <3>1, WayAt
  <2>2. Tail(q \o w) = Tail(q) \o w /\ Head(q) = q[1]  BY <1>2
  <2> QED  BY <2>1, <2>2, ShorterTail
<1> QED  BY <1>1, <1>2

\* A packet of the channel goes to the ring, ...
LEMMA WayFlushed ==
    ASSUME NEW S, NEW q \in Seq(S), NEW w \in Seq(S), w # <<>>
    PROVE  Append(q, Head(w)) \o Tail(w) = q \o w
  OBVIOUS

\* ... where it comes before those of other channels.
LEMMA WayPassed ==
    ASSUME NEW S, NEW q \in Seq(S), NEW w \in Seq(S), NEW p \in S, NEW i, ~Carries(p, i)
    PROVE  SameFor(i, Append(q, p) \o w, q \o w)
<1> DEFINE n == Len(q)
           m == Len(w)
           old == q \o w
           new == Append(q, p) \o w
<1>1. /\ n \in Nat /\ m \in Nat /\ DOMAIN old = 1 .. n + m
      /\ \A k \in 1 .. n : old[k] = q[k]
      /\ \A k \in n + 1 .. n + m : old[k] = w[k - n]
  BY WayAt
<1>2. /\ Append(q, p) \in Seq(S) /\ Len(Append(q, p)) = n + 1
      /\ Append(q, p)[n + 1] = p /\ \A k \in 1 .. n : Append(q, p)[k] = q[k]
  BY AppendProperties
<1>3. /\ DOMAIN new = 1 .. (n + 1) + m
      /\ \A k \in 1 .. n + 1 : new[k] = Append(q, p)[k]
      /\ \A k \in (n + 1) + 1 .. (n + 1) + m : new[k] = w[k - (n + 1)]
  BY <1>2, WayAt
<1> HIDE DEF n, m, old, new
<1>4. ASSUME NEW k \in 1 .. n + m
      PROVE  \/ k \in 1 .. n /\ k \in DOMAIN new /\ new[k] = old[k]
             \/ k \in n + 1 .. n + m /\ k + 1 \in DOMAIN new /\ new[k + 1] = old[k]
  <2>1. CASE k \in 1 .. n  BY <1>1, <1>2, <1>3, <2>1
  <2>2. CASE k \in n + 1 .. n + m
    <3>1. /\ k + 1 \in (n + 1) + 1 .. (n + 1) + m /\ (k + 1) - (n + 1) = k - n
          /\ k + 1 \in 1 .. (n + 1) + m
      BY <1>1, <2>2
    <3> QED  BY <1>1, <1>3, <2>2, <3>1
  <2> QED  BY <1>1, <2>1, <2>2
<1>5. ASSUME NEW k \in DOMAIN new, Carries(new[k], i)
      PROVE  \/ k \in 1 .. n /\ k \in DOMAIN old /\ old[k] = new[k]
             \/ k \in n + 2 .. n + 1 + m /\ k - 1 \in DOMAIN old /\ old[k - 1] = new[k]
  <2>1. CASE k \in 1 .. n  BY <1>1, <1>2, <1>3, <2>1
  <2>2. CASE k = n + 1
    <3>1. new[k] = p  BY <1>1, <1>2, <1>3, <2>2
    <3> QED  BY <1>5, <3>1
  <2>3. CASE k \in n + 2 .. n + 1 + m
    <3>1. /\ k \in (n + 1) + 1 .. (n + 1) + m /\ k - (n + 1) = (k - 1) - n
          /\ k - 1 \in n + 1 .. n + m /\ k - 1 \in 1 .. n + m
      BY <1>1, <2>3
    <3> QED  BY <1>1, <1>3, <2>3, <3>1
  <2> QED  BY <1>1, <1>3, <1>5, <2>1, <2>2, <2>3
<1>6. ASSUME NEW src PROVE \A x : x \in Places(new, i, src) <=> x \in Places(old, i, src)
  <2>1. ASSUME NEW x, x \in Places(new, i, src) PROVE x \in Places(old, i, src)
    <3>1. PICK k \in DOMAIN new : Carries(new[k], i) /\ Place(new[k], src) = x  BY <2>1, PlacesAt
    <3>2. PICK j \in DOMAIN old : old[j] = new[k]  BY <1>5, <3>1
    <3> QED  BY <3>1, <3>2, PlacesAt
  <2>2. ASSUME NEW x, x \in Places(old, i, src) PROVE x \in Places(new, i, src)
    <3>1. PICK k \in DOMAIN old : Carries(old[k], i) /\ Place(old[k], src) = x  BY <2>2, PlacesAt
    <3>2. PICK j \in DOMAIN new : new[j] = old[k]  BY <1>1, <1>4
    <3> QED  BY <3>1, <3>2, PlacesAt
  <2> QED  BY <2>1, <2>2
<1>7. ASSUME NEW src, From(old, i, src) PROVE From(new, i, src)
  <2>1. ASSUME NEW k \in DOMAIN new, Carries(new[k], i)
        PROVE  Place(new[k], src) \in 1 .. Len(src) /\ src[Place(new[k], src)] = Piece(new[k])
    <3>1. PICK j \in DOMAIN old : old[j] = new[k]  BY <1>5, <2>1
    <3> QED  BY <1>7, <2>1, <3>1 DEF From
  <2>2. ASSUME NEW j \in DOMAIN new, NEW k \in DOMAIN new, j < k,
               Carries(new[j], i), Carries(new[k], i)
        PROVE  Place(new[j], src) < Place(new[k], src)
    <3>1. PICK a \in DOMAIN old :
                 /\ (j \in 1 .. n /\ a = j) \/ (j \in n + 2 .. n + 1 + m /\ a = j - 1)
                 /\ old[a] = new[j]
      <4>1. CASE j \in 1 .. n /\ j \in DOMAIN old /\ old[j] = new[j]  BY <4>1
      <4>2. CASE j \in n + 2 .. n + 1 + m /\ j - 1 \in DOMAIN old /\ old[j - 1] = new[j]
        BY <4>2
      <4> QED  BY <1>5, <2>2, <4>1, <4>2
    <3>2. PICK b \in DOMAIN old :
                 /\ (k \in 1 .. n /\ b = k) \/ (k \in n + 2 .. n + 1 + m /\ b = k - 1)
                 /\ old[b] = new[k]
      <4>1. CASE k \in 1 .. n /\ k \in DOMAIN old /\ old[k] = new[k]  BY <4>1
      <4>2. CASE k \in n + 2 .. n + 1 + m /\ k - 1 \in DOMAIN old /\ old[k - 1] = new[k]
        BY <4>2
      <4> QED  BY <1>5, <2>2, <4>1, <4>2
    <3>3. a < b  BY <1>1, <2>2, <3>1, <3>2
    <3> QED  BY <1>7, <2>2, <3>1, <3>2, <3>3 DEF From
  <2> QED  BY <2>1, <2>2 DEF From
<1>8. ASSUME NEW src
      PROVE  Places(new, i, src) = Places(old, i, src) /\ (From(old, i, src) => From(new, i, src))
  <2>1. \A x : x \in Places(new, i, src) <=> x \in Places(old, i, src)  BY <1>6
  <2> QED  BY <1>7, <2>1
<1> QED  BY <1>8 DEF SameFor, new, old

\* The channel loses its packets, and may get one that is no piece of the stream.
LEMMA WayCut ==
    ASSUME NEW S, NEW q \in Seq(S), NEW w \in Seq(S), NEW i
    PROVE  /\ Cut(i, q \o <<>>, q \o w)
           /\ \A p \in S : ~Carries(p, i) => Cut(i, q \o <<p>>, q \o w)
<1>0. Len(q) \in Nat /\ Len(w) \in Nat /\ DOMAIN q = 1 .. Len(q)  OBVIOUS
<1>1. DOMAIN (q \o w) = 1 .. Len(q) + Len(w) /\ \A k \in 1 .. Len(q) : (q \o w)[k] = q[k]
  BY WayAt
<1>2. ASSUME NEW r, \A k \in DOMAIN r : Carries(r[k], i) => k \in 1 .. Len(q),
             1 .. Len(q) \subseteq DOMAIN r, \A k \in 1 .. Len(q) : r[k] = q[k]
      PROVE  Cut(i, r, q \o w)
  <2>1. ASSUME NEW k \in DOMAIN r, Carries(r[k], i)
        PROVE  k \in DOMAIN (q \o w) /\ r[k] = (q \o w)[k]
    <3>1. k \in 1 .. Len(q)  BY <1>2, <2>1
    <3>2. k \in 1 .. Len(q) + Len(w)  BY <1>0, <3>1
    <3> QED  BY <1>1, <1>2, <3>1, <3>2
  <2>2. ASSUME NEW j \in DOMAIN (q \o w), NEW k \in DOMAIN r, Carries(r[k], i), j < k
        PROVE  j \in DOMAIN r /\ r[j] = (q \o w)[j]
    <3>1. k \in 1 .. Len(q)  BY <1>2, <2>2
    <3>2. j \in 1 .. Len(q)  BY <1>0, <1>1, <2>2, <3>1
    <3> QED  BY <1>1, <1>2, <3>2
  <2> QED  BY <2>1, <2>2 DEF Cut
<1>3. Cut(i, q \o <<>>, q \o w)
  <2>1. q \o <<>> = q  BY ConcatEmptySeq
  <2> QED  BY <1>0, <1>2, <2>1
<1>4. ASSUME NEW p \in S, ~Carries(p, i) PROVE Cut(i, q \o <<p>>, q \o w)
  <2> DEFINE r == Append(q, p)
  <2>1. DOMAIN r = 1 .. Len(q) + 1 /\ r[Len(q) + 1] = p /\ \A k \in 1 .. Len(q) : r[k] = q[k]
    OBVIOUS
  <2>2. q \o <<p>> = r  OBVIOUS
  <2> HIDE DEF r
  <2>3. \A k \in DOMAIN r : Carries(r[k], i) => k \in 1 .. Len(q)  BY <1>0, <1>4, <2>1
  <2>4. 1 .. Len(q) \subseteq DOMAIN r  BY <1>0, <2>1
  <2> QED  BY <1>2, <2>1, <2>2, <2>3, <2>4
<1> QED  BY <1>3, <1>4

-----------------------------------------------------------------------------
\* What the client has heard and sent, by the streams ss.
Single(ss) == \A t, u \in DOMAIN ss : ss[t].id = ss[u].id => t = u

Got(ss, i) == IF \E t \in DOMAIN ss : ss[t].id = i
              THEN ss[CHOOSE t \in DOMAIN ss : ss[t].id = i].got
              ELSE <<>>

SentBy(ss, i) == IF \E t \in DOMAIN ss : ss[t].id = i
                 THEN ss[CHOOSE t \in DOMAIN ss : ss[t].id = i].sent
                 ELSE <<>>

LEMMA HistoryOf ==
    ASSUME NEW ss, Single(ss), NEW i
    PROVE  /\ \A t \in DOMAIN ss : ss[t].id = i => Got(ss, i) = ss[t].got /\ SentBy(ss, i) = ss[t].sent
           /\ (\A t \in DOMAIN ss : ss[t].id # i) => Got(ss, i) = <<>> /\ SentBy(ss, i) = <<>>
<1>1. ASSUME NEW t \in DOMAIN ss, ss[t].id = i
      PROVE  Got(ss, i) = ss[t].got /\ SentBy(ss, i) = ss[t].sent
  <2>1. t = CHOOSE u \in DOMAIN ss : ss[u].id = i  BY <1>1 DEF Single
  <2> QED  BY <1>1, <2>1 DEF Got, SentBy
<1>2. ASSUME \A t \in DOMAIN ss : ss[t].id # i PROVE Got(ss, i) = <<>> /\ SentBy(ss, i) = <<>>
  BY <1>2 DEF Got, SentBy
<1> QED  BY <1>1, <1>2

\* The streams change, but not their ids.
LEMMA SameStreams ==
    ASSUME NEW ss, NEW tt, Single(ss), DOMAIN tt = DOMAIN ss, \A t \in DOMAIN ss : tt[t].id = ss[t].id
    PROVE  /\ Single(tt)
           /\ \A i : (\A t \in DOMAIN ss : ss[t].id = i => tt[t].got = ss[t].got) =>
                        Got(tt, i) = Got(ss, i)
           /\ \A i : (\A t \in DOMAIN ss : ss[t].id = i => tt[t].sent = ss[t].sent) =>
                        SentBy(tt, i) = SentBy(ss, i)
<1>1. Single(tt)  BY DEF Single
<1>2. ASSUME NEW i
      PROVE  /\ (\A t \in DOMAIN ss : ss[t].id = i => tt[t].got = ss[t].got) =>
                    Got(tt, i) = Got(ss, i)
             /\ (\A t \in DOMAIN ss : ss[t].id = i => tt[t].sent = ss[t].sent) =>
                    SentBy(tt, i) = SentBy(ss, i)
  <2>1. CASE \A t \in DOMAIN ss : ss[t].id # i
    <3>1. \A t \in DOMAIN tt : tt[t].id # i  BY <2>1
    <3> QED  BY <1>1, <2>1, <3>1, HistoryOf
  <2>2. ASSUME NEW t \in DOMAIN ss, ss[t].id = i
        PROVE  /\ tt[t].got = ss[t].got => Got(tt, i) = Got(ss, i)
               /\ tt[t].sent = ss[t].sent => SentBy(tt, i) = SentBy(ss, i)
    <3>1. t \in DOMAIN tt /\ tt[t].id = i  BY <2>2
    <3>2. Got(ss, i) = ss[t].got /\ SentBy(ss, i) = ss[t].sent  BY <2>2, HistoryOf
    <3>3. Got(tt, i) = tt[t].got /\ SentBy(tt, i) = tt[t].sent  BY <1>1, <3>1, HistoryOf
    <3> QED  BY <3>2, <3>3
  <2> QED  BY <2>1, <2>2
<1> QED  BY <1>1, <1>2

\* A stream e is new, with an id that none had.
LEMMA NewStream ==
    ASSUME NEW ss, NEW tt, NEW e, Longer(tt, ss, e), Single(ss), \A t \in DOMAIN ss : ss[t].id # e.id
    PROVE  /\ Single(tt)
           /\ Got(tt, e.id) = e.got /\ SentBy(tt, e.id) = e.sent
           /\ \A i : i # e.id => Got(tt, i) = Got(ss, i) /\ SentBy(tt, i) = SentBy(ss, i)
<1> DEFINE n == Len(ss) + 1
<1>1. /\ DOMAIN ss = 1 .. Len(ss) /\ DOMAIN tt = 1 .. n /\ tt[n] = e /\ n \in DOMAIN tt
      /\ \A t \in DOMAIN ss : t \in DOMAIN tt /\ tt[t] = ss[t]
      /\ \A t \in DOMAIN tt : t \in DOMAIN ss \/ t = n
  BY DEF Longer
<1> HIDE DEF n
<1>2. Single(tt)
  <2>1. SUFFICES ASSUME NEW t \in DOMAIN tt, NEW u \in DOMAIN tt, tt[t].id = tt[u].id PROVE t = u
    BY DEF Single
  <2>2. CASE t = n /\ u = n  BY <2>2
  <2>3. CASE t = n /\ u \in DOMAIN ss  BY <1>1, <2>1, <2>3
  <2>4. CASE t \in DOMAIN ss /\ u = n  BY <1>1, <2>1, <2>4
  <2>5. CASE t \in DOMAIN ss /\ u \in DOMAIN ss  BY <1>1, <2>1, <2>5 DEF Single
  <2> QED  BY <1>1, <2>2, <2>3, <2>4, <2>5
<1>3. Got(tt, e.id) = e.got /\ SentBy(tt, e.id) = e.sent  BY <1>1, <1>2, HistoryOf
<1>4. ASSUME NEW i, i # e.id PROVE Got(tt, i) = Got(ss, i) /\ SentBy(tt, i) = SentBy(ss, i)
  <2>1. CASE \A t \in DOMAIN ss : ss[t].id # i
    <3>1. \A t \in DOMAIN tt : tt[t].id # i  BY <1>1, <1>4, <2>1
    <3> QED  BY <1>2, <2>1, <3>1, HistoryOf
  <2>2. ASSUME NEW t \in DOMAIN ss, ss[t].id = i
        PROVE  Got(tt, i) = Got(ss, i) /\ SentBy(tt, i) = SentBy(ss, i)
    <3>1. t \in DOMAIN tt /\ tt[t] = ss[t]  BY <1>1
    <3>2. Got(ss, i) = ss[t].got /\ SentBy(ss, i) = ss[t].sent  BY <2>2, HistoryOf
    <3>3. Got(tt, i) = tt[t].got /\ SentBy(tt, i) = tt[t].sent  BY <1>2, <2>2, <3>1, HistoryOf
    <3> QED  BY <3>1, <3>2, <3>3
  <2> QED  BY <2>1, <2>2
<1> QED  BY <1>2, <1>3, <1>4

LEMMA Histories ==
    /\ OneStream <=> Single(streams)
    /\ Heard = [i \in Ids |-> Got(streams, i)] /\ Heard' = [i \in Ids |-> Got(streams', i)]
    /\ Sent = [i \in Ids |-> SentBy(streams, i)] /\ Sent' = [i \in Ids |-> SentBy(streams', i)]
    /\ \A i \in Ids : /\ Heard[i] = Got(streams, i) /\ Heard'[i] = Got(streams', i)
                      /\ Sent[i] = SentBy(streams, i) /\ Sent'[i] = SentBy(streams', i)
  BY DEF OneStream, Single, Heard, Got, Sent, SentBy

\* Nothing that matters happens to the streams, ...
LEMMA HistoryKept ==
    ASSUME OneStream, DOMAIN streams' = DOMAIN streams,
           \A t \in DOMAIN streams : /\ streams'[t].id = streams[t].id
                                     /\ streams'[t].got = streams[t].got
                                     /\ streams'[t].sent = streams[t].sent
    PROVE  /\ OneStream' /\ Heard' = Heard /\ Sent' = Sent
           /\ \A j : NoStream(j) => NoStream(j)'
<1>1. Single(streams)  BY Histories
<1>2. Single(streams') /\ \A i : /\ Got(streams', i) = Got(streams, i)
                                 /\ SentBy(streams', i) = SentBy(streams, i)
  BY <1>1, SameStreams
<1>3. OneStream'  BY <1>2 DEF OneStream, Single
<1>4. Heard' = Heard /\ Sent' = Sent  BY <1>2, Histories
<1>5. \A j : NoStream(j) => NoStream(j)'  BY DEF NoStream
<1> QED  BY <1>3, <1>4, <1>5

\* ... one gets a new piece, of those heard, g, or of those sent, s, ...
LEMMA HistoryMoves ==
    ASSUME OneStream, NEW i \in Ids, NEW u \in DOMAIN streams, streams[u].id = i,
           DOMAIN streams' = DOMAIN streams, NEW g, NEW s,
           \A t \in DOMAIN streams : /\ streams'[t].id = streams[t].id
                                     /\ t # u => streams'[t].got = streams[t].got
                                     /\ t # u => streams'[t].sent = streams[t].sent,
           streams'[u].got = g, streams'[u].sent = s
    PROVE  /\ OneStream'
           /\ Heard' = [Heard EXCEPT ![i] = g] /\ Sent' = [Sent EXCEPT ![i] = s]
           /\ Heard[i] = streams[u].got /\ Sent[i] = streams[u].sent
           /\ Heard'[i] = g /\ Sent'[i] = s
           /\ \A j \in Ids \ {i} : Heard'[j] = Heard[j] /\ Sent'[j] = Sent[j]
           /\ \A j : NoStream(j) => NoStream(j)'
<1>1. Single(streams)  BY Histories
<1>2. /\ Single(streams')
      /\ \A j : j # i => Got(streams', j) = Got(streams, j) /\ SentBy(streams', j) = SentBy(streams, j)
  BY <1>1, SameStreams
<1>3. Got(streams, i) = streams[u].got /\ SentBy(streams, i) = streams[u].sent
  BY <1>1, HistoryOf
<1>4. Got(streams', i) = g /\ SentBy(streams', i) = s
  <2>1. u \in DOMAIN streams' /\ streams'[u].id = i  OBVIOUS
  <2> QED  BY <1>2, <2>1, HistoryOf
<1>5. OneStream'  BY <1>2 DEF OneStream, Single
<1>6. Heard' = [Heard EXCEPT ![i] = g] /\ Sent' = [Sent EXCEPT ![i] = s]
  BY <1>2, <1>4, Histories
<1>7. /\ Heard[i] = streams[u].got /\ Sent[i] = streams[u].sent /\ Heard'[i] = g /\ Sent'[i] = s
      /\ \A j \in Ids \ {i} : Heard'[j] = Heard[j] /\ Sent'[j] = Sent[j]
  BY <1>2, <1>3, <1>4, Histories
<1>8. \A j : NoStream(j) => NoStream(j)'  BY DEF NoStream
<1> QED  BY <1>5, <1>6, <1>7, <1>8

\* ... or a connection gets its stream.
LEMMA HistoryBegins ==
    ASSUME TypeOK, OneStream, NEW i \in Ids, NoStream(i), NEW e \in Stream, e.id = i,
           e.got = <<>>, e.sent = <<>>, streams' = Append(streams, e)
    PROVE  /\ OneStream' /\ Heard' = Heard /\ Sent' = Sent
           /\ Heard[i] = <<>> /\ Sent[i] = <<>>
           /\ \A j : j # i => (NoStream(j) => NoStream(j)')
<1>1. Single(streams) /\ \A t \in DOMAIN streams : streams[t].id # i  BY Histories DEF NoStream
<1>2. Longer(streams', streams, e)
  <2>1. streams \in Seq(Stream)  BY DEF TypeOK
  <2> QED  BY <2>1, LongerAppend
<1>3. /\ Single(streams') /\ Got(streams', i) = <<>> /\ SentBy(streams', i) = <<>>
      /\ \A j : j # i => Got(streams', j) = Got(streams, j) /\ SentBy(streams', j) = SentBy(streams, j)
  BY <1>1, <1>2, NewStream
<1>4. Got(streams, i) = <<>> /\ SentBy(streams, i) = <<>>  BY <1>1, HistoryOf
<1>5. OneStream'  BY <1>3 DEF OneStream, Single
<1>6. \A j : Got(streams', j) = Got(streams, j) /\ SentBy(streams', j) = SentBy(streams, j)
  BY <1>3, <1>4
<1>7. Heard' = Heard /\ Sent' = Sent /\ Heard[i] = <<>> /\ Sent[i] = <<>>
  BY <1>4, <1>6, Histories
<1>8. ASSUME NEW j, j # i, NoStream(j) PROVE NoStream(j)'
  <2>1. \A t \in DOMAIN streams' : streams'[t] = e \/ (t \in DOMAIN streams /\ streams'[t] = streams[t])
    BY <1>2 DEF Longer
  <2> QED  BY <1>8, <2>1 DEF NoStream
<1> QED  BY <1>5, <1>7, <1>8

\* handle_pkt_data and handle_pkt_eos tell the client, ...
LEMMA HistoryTold ==
    ASSUME TypeOK, OneStream, NEW i \in Ids, OwnStream(i), chan[i].stream # 0, NEW x,
           Tell(chan[i].stream, x)
    PROVE  /\ OneStream' /\ Sent' = Sent
           /\ Heard' = [Heard EXCEPT ![i] = Append(@, x)] /\ Heard'[i] = Append(Heard[i], x)
           /\ \A j \in Ids \ {i} : Heard'[j] = Heard[j]
           /\ \A j : NoStream(j) => NoStream(j)'
<1> DEFINE u == chan[i].stream
           g == Append(streams[u].got, x)
           s == streams[u].sent
<1>1. u \in DOMAIN streams /\ streams[u] \in Stream /\ streams[u].id = i
  BY PiState DEF OwnStream
<1>2. streams' = [streams EXCEPT ![u].got = Append(@, x)]  BY DEF Tell
<1>3. /\ DOMAIN streams' = DOMAIN streams
      /\ \A t \in DOMAIN streams : streams'[t] = IF t = u THEN [streams[t] EXCEPT !.got = g] ELSE streams[t]
  BY <1>1, <1>2
<1>4. /\ \A t \in DOMAIN streams : t # u => streams'[t] = streams[t]
      /\ streams'[u].id = i /\ streams'[u].got = g /\ streams'[u].sent = s
  BY <1>1, <1>3 DEF Stream
<1>5. \A t \in DOMAIN streams : /\ streams'[t].id = streams[t].id
                                /\ t # u => streams'[t].got = streams[t].got
                                /\ t # u => streams'[t].sent = streams[t].sent
  BY <1>1, <1>4
<1> HIDE DEF u, g, s
<1>6. /\ OneStream'
      /\ Heard' = [Heard EXCEPT ![i] = g] /\ Sent' = [Sent EXCEPT ![i] = s]
      /\ Heard[i] = streams[u].got /\ Sent[i] = streams[u].sent
      /\ Heard'[i] = g /\ Sent'[i] = s
      /\ \A j \in Ids \ {i} : Heard'[j] = Heard[j] /\ Sent'[j] = Sent[j]
      /\ \A j : NoStream(j) => NoStream(j)'
  BY <1>1, <1>3, <1>4, <1>5, HistoryMoves
<1>7. Sent' = Sent
  <2>1. Sent[i] = s  BY <1>6 DEF s
  <2>2. \A j \in Ids : Sent'[j] = Sent[j]  BY <1>6, <2>1
  <2>3. \A j \in Ids : SentBy(streams', j) = SentBy(streams, j)  BY <2>2, Histories
  <2> QED  BY <2>3, Histories
<1>8. g = Append(Heard[i], x)  BY <1>6 DEF g
<1>9. Heard' = [Heard EXCEPT ![i] = Append(@, x)]  BY <1>6, <1>8, Zenon
<1> QED  BY <1>6, <1>7, <1>8, <1>9

\* ... and handle_msg_data and handle_msg_eos take a piece from it.
LEMMA HistorySent ==
    ASSUME TypeOK, OneStream, NEW i \in Ids, OwnStream(i), chan[i].stream # 0, NEW x, NEW st,
           LET t == chan[i].stream
           IN \/ streams' = [streams EXCEPT ![t].state = st, ![t].sent = Append(@, x)]
              \/ streams' = [streams EXCEPT ![t].sent = Append(@, x)]
    PROVE  /\ OneStream' /\ Heard' = Heard
           /\ Sent' = [Sent EXCEPT ![i] = Append(@, x)] /\ Sent'[i] = Append(Sent[i], x)
           /\ Sent[i] = streams[chan[i].stream].sent
           /\ \A j \in Ids \ {i} : Sent'[j] = Sent[j]
           /\ \A j : NoStream(j) => NoStream(j)'
<1> DEFINE u == chan[i].stream
           g == streams[u].got
           s == Append(streams[u].sent, x)
<1>1. u \in DOMAIN streams /\ streams[u] \in Stream /\ streams[u].id = i
  BY PiState DEF OwnStream
<1>2. /\ DOMAIN streams' = DOMAIN streams
      /\ \A t \in DOMAIN streams : t # u => streams'[t] = streams[t]
      /\ \/ streams'[u] = [streams[u] EXCEPT !.state = st, !.sent = s]
         \/ streams'[u] = [streams[u] EXCEPT !.sent = s]
  BY <1>1
<1>4. /\ \A t \in DOMAIN streams : t # u => streams'[t] = streams[t]
      /\ streams'[u].id = i /\ streams'[u].got = g /\ streams'[u].sent = s
  BY <1>1, <1>2 DEF Stream
<1>5. \A t \in DOMAIN streams : /\ streams'[t].id = streams[t].id
                                /\ t # u => streams'[t].got = streams[t].got
                                /\ t # u => streams'[t].sent = streams[t].sent
  BY <1>1, <1>4
<1> HIDE DEF u, g, s
<1>6. /\ OneStream'
      /\ Heard' = [Heard EXCEPT ![i] = g] /\ Sent' = [Sent EXCEPT ![i] = s]
      /\ Heard[i] = streams[u].got /\ Sent[i] = streams[u].sent
      /\ Heard'[i] = g /\ Sent'[i] = s
      /\ \A j \in Ids \ {i} : Heard'[j] = Heard[j] /\ Sent'[j] = Sent[j]
      /\ \A j : NoStream(j) => NoStream(j)'
  BY <1>1, <1>2, <1>4, <1>5, HistoryMoves
<1>7. Heard' = Heard
  <2>1. Heard[i] = g  BY <1>6 DEF g
  <2>2. \A j \in Ids : Heard'[j] = Heard[j]  BY <1>6, <2>1
  <2>3. \A j \in Ids : Got(streams', j) = Got(streams, j)  BY <2>2, Histories
  <2> QED  BY <2>3, Histories
<1>8. s = Append(Sent[i], x)  BY <1>6 DEF s
<1>9. Sent' = [Sent EXCEPT ![i] = Append(@, x)]  BY <1>6, <1>8, Zenon
<1> QED  BY <1>6, <1>7, <1>8, <1>9 DEF u

\* Their types.
LEMMA HistoryTyped ==
    ASSUME TypeOK, NEW i \in Ids
    PROVE  /\ Heard[i] \in Seq(0 .. MaxData) /\ Sent[i] \in Seq(0 .. MaxData)
           /\ wrote[i] \in Seq(0 .. MaxData) /\ seen[i] \in Seq(0 .. MaxData)
           /\ Len(Heard[i]) \in Nat /\ Len(Sent[i]) \in Nat
           /\ Len(wrote[i]) \in Nat /\ Len(seen[i]) \in Nat
           /\ Heard \in [Ids -> Seq(0 .. MaxData)] /\ Sent \in [Ids -> Seq(0 .. MaxData)]
<1>1. ASSUME NEW j \in Ids PROVE Heard[j] \in Seq(0 .. MaxData) /\ Sent[j] \in Seq(0 .. MaxData)
  <2>1. Heard[j] = Got(streams, j) /\ Sent[j] = SentBy(streams, j)  BY Histories
  <2>2. \A t \in DOMAIN streams : /\ streams[t].got \in Seq(0 .. MaxData)
                                  /\ streams[t].sent \in Seq(0 .. MaxData)
    <3>1. \A t \in DOMAIN streams : streams[t] \in Stream  BY DEF TypeOK
    <3>2. \A e \in Stream : e.got \in Seq(0 .. MaxData) /\ e.sent \in Seq(0 .. MaxData)
      BY DEF Stream
    <3> QED  BY <3>1, <3>2
  <2>3. <<>> \in Seq(0 .. MaxData)  OBVIOUS
  <2>4. CASE \E t \in DOMAIN streams : streams[t].id = j
    <3>1. PICK t \in DOMAIN streams : t = CHOOSE u \in DOMAIN streams : streams[u].id = j
      BY <2>4
    <3>2. Got(streams, j) = streams[t].got /\ SentBy(streams, j) = streams[t].sent
      BY <2>4, <3>1 DEF Got, SentBy
    <3> QED  BY <2>1, <2>2, <3>2
  <2>5. CASE ~\E t \in DOMAIN streams : streams[t].id = j
    <3>1. Got(streams, j) = <<>> /\ SentBy(streams, j) = <<>>  BY <2>5 DEF Got, SentBy
    <3> QED  BY <2>1, <2>3, <3>1
  <2> QED  BY <2>4, <2>5
<1>2. wrote[i] \in Seq(0 .. MaxData) /\ seen[i] \in Seq(0 .. MaxData)  BY DEF TypeOK
<1>3. Heard \in [Ids -> Seq(0 .. MaxData)] /\ Sent \in [Ids -> Seq(0 .. MaxData)]
  BY <1>1, Histories
<1> QED  BY <1>1, <1>2, <1>3

-----------------------------------------------------------------------------
\* What a step starts from.
Flows == OneStream /\ \A i \in Ids : Piping(i)

FlowInv == FirstSession => Flows

Good == TypeInv /\ AllFit /\ Flows

LEMMA SequenceOf ==
    ASSUME NEW S, NEW T, S \subseteq T, NEW q \in Seq(S)
    PROVE  q \in Seq(T) /\ DOMAIN q \subseteq Nat
  OBVIOUS

LEMMA Known ==
    ASSUME Good, NEW i \in Ids
    PROVE  /\ NewInv(i)
           /\ ToPi(i, sock[i], a2r, wrote[i], chan[i], Heard[i])
           /\ ToAmiga(i, StreamState(i), Way(i), Sent[i], chan[i], sock[i], seen[i])
           /\ SockInv(sock[i]) /\ sock[i] \in Socket /\ sock \in [Ids -> Socket]
           /\ Reached(sock[i], seen[i]) \in Nat
           /\ a2r \in Seq(A2RPackets) /\ r2a \in Seq(R2APackets(Ids))
           /\ chan[i] \in Channel(i) /\ chan[i].pq \in Seq(R2APackets(Ids))
           /\ Way(i) \in Seq(R2APackets(Ids)) /\ DOMAIN Way(i) \subseteq Nat
<1>1. TypeOK /\ Piping(i) /\ Conn(i)  BY DEF Good, TypeInv, AllFit, Flows
<1>2. /\ sock[i] \in Socket /\ sock \in [Ids -> Socket]
      /\ a2r \in Seq(A2RPackets) /\ r2a \in Seq(R2APackets(Ids)) /\ chan[i] \in Channel(i)
  BY <1>1 DEF TypeOK
<1>3. SockInv(sock[i])  BY <1>1 DEF Conn, Fits
<1>4. Reached(sock[i], seen[i]) \in Nat
  <2>1. sock[i].rq \in Seq(1 .. MaxData)  BY <1>2, SocketTypes
  <2>2. Len(sock[i].rq) \in Nat /\ Len(seen[i]) \in Nat  BY <1>1, <2>1, HistoryTyped
  <2>3. \A a, b \in Nat : a + b \in Nat  OBVIOUS
  <2> QED  BY <2>2, <2>3, Zenon DEF Reached
<1>5. chan[i].pq \in Seq(R2APackets(Ids))
  <2>1. chan[i].pq \in Seq(R2APackets({i}))  BY <1>2 DEF Channel
  <2>2. R2APackets({i}) \subseteq R2APackets(Ids)  BY PacketOfChannel
  <2> QED  BY <2>1, <2>2, SequenceOf
<1>6. Way(i) \in Seq(R2APackets(Ids)) /\ DOMAIN Way(i) \subseteq Nat
  <2>1. Way(i) \in Seq(R2APackets(Ids))  BY <1>2, <1>5, WayAt DEF Way
  <2> QED  BY <2>1, SequenceOf
<1> QED  BY <1>1, <1>2, <1>3, <1>4, <1>5, <1>6 DEF Piping

\* Who has an answer, something on the way or a channel has been asked for.
LEMMA Born ==
    ASSUME Good, NEW i \in Ids,
           \/ Open(i) /\ "CONNECT" \notin sock[i].pend
           \/ R2AKinds(i) # {} \/ chan[i].stream # 0
    PROVE  ~Unborn(i) /\ i < next
<1>1. Conn(i) /\ next \in Nat /\ i \in Nat /\ TypeInv /\ AllFit  BY Ready DEF Good, AllFit, Ids
<1>2. i < next  BY <1>1, GivenOut DEF Open
<1>3. /\ "CONNECT" \in sock[i].pend /\ Turn(i) = "waits" =>
             A2RKinds(i) = {} /\ R2AKinds(i) = {} /\ chan[i] = NoChannel
      /\ "CONNECT" \in A2RKinds(i) =>
             R2AKinds(i) = {} /\ chan[i] = NoChannel /\ Asking(sock[i], Turn(i))
  BY <1>1 DEF Conn, Fits, ConnectInv
<1>4. NoChannel.stream = 0  BY DEF NoChannel
<1> QED  BY <1>1, <1>2, <1>3, <1>4 DEF Unborn, Asking, Open

\* Nothing happens to connection j.
Still(j) ==
    /\ SameFor(j, a2r', a2r) /\ SameFor(j, Way(j)', Way(j))
    /\ sock'[j] = sock[j] /\ wrote'[j] = wrote[j] /\ seen'[j] = seen[j]
    /\ Heard'[j] = Heard[j] /\ Sent'[j] = Sent[j]
    /\ Listens(chan'[j]) => Listens(chan[j])
    /\ chan'[j].stream # 0 => chan[j].stream # 0
    /\ EndsMore(StreamState(j)', StreamState(j))
    /\ Unborn(j)' => Unborn(j)
    /\ NoStream(j) => NoStream(j)'

\* What is made of a connection after a step.
LEMMA PipingAfter ==
    ASSUME NEW i \in Ids, NewInv(i)',
           ToPi(i, sock'[i], a2r', wrote'[i], chan'[i], Heard'[i]),
           ToAmiga(i, StreamState(i)', Way(i)', Sent'[i], chan'[i], sock'[i], seen'[i])
    PROVE  Piping(i)'
  BY DEF Piping

LEMMA StillPipes ==
    ASSUME Good, NEW j \in Ids, Still(j)
    PROVE  Piping(j)'
<1>1. NewInv(j)'
  <2>1. NewInv(j)  BY Known
  <2> QED  BY <2>1 DEF NewInv, Still
<1>2. ToPi(j, sock[j], a2r', wrote[j], chan'[j], Heard[j])
  <2>1. WritesLess(sock[j], sock[j])  BY DEF WritesLess
  <2> QED  BY <2>1, Known, PiKept DEF Still
<1>3. ToAmiga(j, StreamState(j)', Way(j)', Sent[j], chan'[j], sock[j], seen[j])
  <2>1. ReadsLess(sock[j], sock[j])  BY DEF ReadsLess
  <2> QED  BY <2>1, Known, AmigaKept DEF Still
<1> QED  BY <1>1, <1>2, <1>3, PipingAfter DEF Still

-----------------------------------------------------------------------------
\* What a step is for A314Stream.
OutStep == (wrote' = wrote /\ Heard' = Heard) \/ ToClient!Next
InStep == (Sent' = Sent /\ seen' = seen) \/ ToApp!Next

\* The application writes the next piece.
LEMMA OutPut ==
    ASSUME NEW i \in Ids, Len(wrote[i]) \in Nat, Unended(wrote[i]), DOMAIN wrote[i] = 1 .. Len(wrote[i]),
           NEW x \in {EOS, Len(wrote[i]) + 1}, wrote' = [wrote EXCEPT ![i] = Append(@, x)],
           Heard' = Heard
    PROVE  OutStep
<1>1. ~ToClient!Ended(i)  BY DEF ToClient!Ended, Unended, EOS
<1>2. ToClient!Put(i)  BY <1>1 DEF ToClient!Put, EOS
<1> QED  BY <1>2 DEF OutStep, ToClient!Next

\* The client hears the next one.
LEMMA OutTake ==
    ASSUME NEW i \in Ids, Len(Heard[i]) < Len(wrote[i]), NEW x, x = wrote[i][Len(Heard[i]) + 1],
           Heard' = [Heard EXCEPT ![i] = Append(@, x)], wrote' = wrote
    PROVE  OutStep
<1>1. ToClient!Take(i)  BY DEF ToClient!Take
<1> QED  BY <1>1 DEF OutStep, ToClient!Next

\* The client sends the next piece.
LEMMA InPut ==
    ASSUME NEW i \in Ids, Len(Sent[i]) \in Nat, Unended(Sent[i]), DOMAIN Sent[i] = 1 .. Len(Sent[i]),
           NEW x \in {EOS, Len(Sent[i]) + 1}, Sent' = [Sent EXCEPT ![i] = Append(@, x)],
           seen' = seen
    PROVE  InStep
<1>1. ~ToApp!Ended(i)  BY DEF ToApp!Ended, Unended, EOS
<1>2. ToApp!Put(i)  BY <1>1 DEF ToApp!Put, EOS
<1> QED  BY <1>2 DEF InStep, ToApp!Next

\* The application reads the next one.
LEMMA InTake ==
    ASSUME NEW i \in Ids, Len(seen[i]) < Len(Sent[i]), NEW x, x = Sent[i][Len(seen[i]) + 1],
           seen' = [seen EXCEPT ![i] = Append(@, x)], Sent' = Sent
    PROVE  InStep
<1>1. ToApp!Take(i)  BY DEF ToApp!Take
<1> QED  BY <1>1 DEF InStep, ToApp!Next

-----------------------------------------------------------------------------
\* The steps of the driver.

\* What A2R has of a connection when a packet p is sent, or none.
LEMMA RingSteps ==
    ASSUME Good, NEW p \in A2RPackets
    PROVE  /\ a2r' = a2r => \A j : SameFor(j, a2r', a2r)
           /\ a2r' = Append(a2r, p) => /\ Longer(a2r', a2r, p)
                                       /\ \A j : ~Carries(p, j) => SameFor(j, a2r', a2r)
           /\ a2r # <<>> /\ a2r' = Tail(a2r) =>
                  /\ Shorter(a2r', a2r) /\ a2r[1] = Head(a2r)
                  /\ \A j : ~Carries(Head(a2r), j) => SameFor(j, a2r', a2r)
<1>1. a2r \in Seq(A2RPackets)  BY DEF Good, TypeInv, TypeOK
<1>2. ASSUME a2r' = Append(a2r, p) PROVE Longer(a2r', a2r, p)  BY <1>1, <1>2, LongerAppend
<1>3. ASSUME a2r # <<>>, a2r' = Tail(a2r) PROVE Shorter(a2r', a2r) /\ a2r[1] = Head(a2r)
  BY <1>1, <1>3, ShorterTail
<1>4. a2r' = a2r => \A j : SameFor(j, a2r', a2r)  BY SameAfter
<1> QED  BY <1>2, <1>3, <1>4, SameAfter

\* What is on the way to a socket when the driver takes a packet, or none.
LEMMA WaySteps ==
    ASSUME Good, chan' = chan
    PROVE  /\ r2a' = r2a => \A j : Way(j)' = Way(j) /\ SameFor(j, Way(j)', Way(j))
           /\ r2a # <<>> /\ r2a' = Tail(r2a) =>
                  \A j \in Ids : /\ Shorter(Way(j)', Way(j)) /\ Way(j)[1] = Head(r2a)
                                 /\ ~Carries(Head(r2a), j) => SameFor(j, Way(j)', Way(j))
<1>1. ASSUME r2a' = r2a PROVE \A j : Way(j)' = Way(j) /\ SameFor(j, Way(j)', Way(j))
  BY <1>1, SameAfter DEF Way
<1>2. ASSUME r2a # <<>>, r2a' = Tail(r2a), NEW j \in Ids
      PROVE  Shorter(Way(j)', Way(j)) /\ Way(j)[1] = Head(r2a)
  <2>1. r2a \in Seq(R2APackets(Ids)) /\ chan[j].pq \in Seq(R2APackets(Ids))  BY Known
  <2> QED  BY <1>2, <2>1, WayMoves DEF Way
<1>3. ASSUME r2a # <<>>, r2a' = Tail(r2a), NEW j \in Ids, ~Carries(Head(r2a), j)
      PROVE  SameFor(j, Way(j)', Way(j))
  BY <1>2, <1>3, SameAfter
<1> QED  BY <1>1, <1>2, <1>3

\* All connections but i stay as they are, and the streams.
LEMMA DriverElsewhere ==
    ASSUME Good, NEW i \in Ids, UNCHANGED <<chan, streams>>, NEW R, NEW c, NEW st,
           DriverDid(i, R, c, st), next' \in {next, next + 1}, i < next',
           \A j \in Ids \ {i} : wrote'[j] = wrote[j] /\ seen'[j] = seen[j],
           NEW p \in A2RPackets, p.id = i, a2r' \in {a2r, Append(a2r, p)},
           r2a' = r2a \/ (r2a # <<>> /\ r2a' = Tail(r2a) /\ Head(r2a).id = i)
    PROVE  /\ \A j \in Ids \ {i} : Piping(j)'
           /\ OneStream' /\ Heard' = Heard /\ Sent' = Sent
           /\ \A j \in Ids : StreamState(j)' = StreamState(j) /\ (NoStream(j) => NoStream(j)')
<1>1. next \in Nat /\ next' \in Nat /\ next <= next'  BY Ready DEF Good
<1>2. \A j \in Ids : StreamState(j)' = StreamState(j) /\ (NoStream(j) => NoStream(j)')
  BY DEF StreamState, NoStream
<1>3. OneStream' /\ Heard' = Heard /\ Sent' = Sent  BY DEF Good, Flows, OneStream, Heard, Sent
<1>4. ASSUME NEW j \in Ids \ {i} PROVE Still(j)
  <2>1. SameFor(j, a2r', a2r)
    <3>1. ~Carries(p, j)  BY <1>4 DEF Carries
    <3> QED  BY <3>1, RingSteps
  <2>2. SameFor(j, Way(j)', Way(j))
    <3>1. r2a' # r2a => ~Carries(Head(r2a), j)  BY <1>4 DEF Carries
    <3> QED  BY <1>4, <3>1, WaySteps
  <2>3. sock'[j] = sock[j] /\ Turn(j)' = Turn(j) /\ A2RKinds(j)' = A2RKinds(j)
    BY <1>4 DEF DriverDid
  <2>4. Unborn(j)' => Unborn(j)
    <3>1. j >= next' => j >= next  BY <1>1, <1>4 DEF Ids
    <3> QED  BY <2>3, <3>1 DEF Unborn
  <2>5. EndsMore(StreamState(j)', StreamState(j))  BY <1>2, <1>4 DEF EndsMore
  <2> QED  BY <1>2, <1>3, <1>4, <2>1, <2>2, <2>3, <2>4, <2>5 DEF Still
<1>5. \A j \in Ids \ {i} : Piping(j)'  BY <1>4, StillPipes
<1> QED  BY <1>2, <1>3, <1>5

\* No CONNECT comes from a packet that is none.
LEMMA ConnectStays ==
    ASSUME Good, NEW i \in Ids, NEW p \in A2RPackets, p.type # "CONNECT",
           a2r' \in {a2r, Append(a2r, p)}, "CONNECT" \in A2RKinds(i)'
    PROVE  "CONNECT" \in A2RKinds(i)
<1>1. a2r \in Seq(A2RPackets) /\ p.type \in {"CONNECT", "EOS", "RESET", "DATA"}
  BY PacketOfChannel DEF Good, TypeInv, TypeOK
<1>2. Kind(p) # "CONNECT"  BY <1>1 DEF Kind
<1>3. CASE a2r' = a2r  BY <1>3 DEF A2RKinds
<1>4. CASE a2r' = Append(a2r, p)
  <2>1. Kinds(a2r', i) = IF p.id = i THEN Kinds(a2r, i) \cup {Kind(p)} ELSE Kinds(a2r, i)
    BY <1>1, <1>4, KindsAppend
  <2> QED  BY <1>2, <2>1 DEF A2RKinds
<1> QED  BY <1>3, <1>4

\* What a step of the driver leaves as it was.
DriverLeaves(i) ==
    /\ chan' = chan /\ StreamState(i)' = StreamState(i) /\ Heard' = Heard /\ Sent' = Sent
    /\ NoStream(i) => NoStream(i)'
    /\ next' = next /\ i < next

\* close_socket.
LEMMA Closing ==
    ASSUME Good, NEW i \in Ids, NEW b \in BOOLEAN, CloseSocket(i, b), DriverLeaves(i),
           SameFor(i, Way(i)', Way(i)) \/ Shorter(Way(i)', Way(i)),
           wrote'[i] = wrote[i], seen'[i] = seen[i] \/ ~Unborn(i)
    PROVE  Piping(i)'
<1> DEFINE p == Packet("RESET", i, 0)
           t == sock'[i]
<1>1. p \in A2RPackets /\ p.type # "CONNECT" /\ ~Carries(p, i)
  BY PacketTypes DEF Packet, Carries
<1>2. t.state # "open" /\ t.pend = {}
  <2> DEFINE u == [Free EXCEPT !.state = "closed", !.socket = sock[i].socket]
  <2>1. sock \in [Ids -> Socket]  BY Known
  <2>2. u.state # "open" /\ u.pend = {} /\ Free.state # "open" /\ Free.pend = {}  BY DEF Free
  <2>3. sock' = [sock EXCEPT ![i] = Free] \/ sock' = [sock EXCEPT ![i] = u]
    BY Zenon DEF CloseSocket
  <2> HIDE DEF u
  <2> QED  BY <2>1, <2>2, <2>3
<1>3. a2r' \in {a2r, Append(a2r, p)}  BY DEF CloseSocket, SendNow, Queue
<1> HIDE DEF p, t
<1>4. NewInv(i)'
  <2>1. Unborn(i)' => Unborn(i)
    <3>1. "CONNECT" \in A2RKinds(i)' => "CONNECT" \in A2RKinds(i)
      BY <1>1, <1>3, ConnectStays
    <3>2. ~(i >= next) /\ next' = next
      BY Ready DEF DriverLeaves, Good, Ids
    <3> QED  BY <1>2, <3>1, <3>2 DEF Unborn, t
  <2>2. NewInv(i)  BY Known
  <2> QED  BY <2>1, <2>2 DEF NewInv, DriverLeaves
<1>5. ToPi(i, t, a2r', wrote[i], chan[i], Heard[i])
  <2>1. SameFor(i, a2r', a2r)  BY <1>1, <1>3, RingSteps
  <2>2. WritesLess(t, sock[i])  BY <1>2 DEF WritesLess, WriteWaits
  <2>3. ToPi(i, sock[i], a2r, wrote[i], chan[i], Heard[i])  BY Known
  <2> QED  BY <2>1, <2>2, <2>3, PiKept
<1>6. ToAmiga(i, StreamState(i), Way(i)', Sent[i], chan[i], t, seen'[i])
  <2>1. EndsMore(StreamState(i), StreamState(i))  BY DEF EndsMore
  <2> QED  BY <1>2, <2>1, Known, AmigaLost
<1> QED  BY <1>4, <1>5, <1>6, PipingAfter DEF t, DriverLeaves

\* The application reads an EOS, which has come to the socket: u is that socket.
LEMMA GivingEos ==
    ASSUME Good, NEW i \in Ids, DriverLeaves(i), NEW u,
           ToAmiga(i, StreamState(i), Way(i)', Sent[i], chan[i], u, seen[i]),
           u.state = "open", u.rq = <<>>, sock[i].state = "open", sock[i].rq = <<>>,
           "RCVD_EOS_FROM_RPI" \in u.flags, "SENT_EOS_TO_APP" \notin u.flags,
           "RCVD_EOS_FROM_APP" \in u.flags <=> "RCVD_EOS_FROM_APP" \in sock[i].flags,
           "SENT_EOS_TO_RPI" \in u.flags <=> "SENT_EOS_TO_RPI" \in sock[i].flags,
           GiveEos(i, u.flags), wrote' = wrote, ~Unborn(i),
           SameFor(i, Way(i)', Way(i)) \/ Shorter(Way(i)', Way(i))
    PROVE  Piping(i)' /\ OutStep /\ InStep
<1> DEFINE new == Append(seen[i], EOS)
           t == sock'[i]
<1>1. /\ Len(Sent[i]) \in Nat /\ Len(seen[i]) \in Nat /\ seen[i] \in Seq(0 .. MaxData)
      /\ EOS \in 0 .. MaxData /\ seen \in [Ids -> Seq(0 .. MaxData)]
      /\ sock \in [Ids -> Socket]
  BY HistoryTyped, HistoryTypes, Known DEF Good, TypeInv, TypeOK
<1>2. Longer(new, seen[i], EOS)  BY <1>1, LongerAppend
<1>3. seen' = [seen EXCEPT ![i] = Append(@, EOS)] /\ seen'[i] = new  BY <1>1 DEF GiveEos
<1>4. CASE "SENT_EOS_TO_RPI" \in u.flags
  <2>1. CloseSocket(i, FALSE)  BY <1>4 DEF GiveEos
  <2>2. Piping(i)'  BY <2>1, Closing
  <2>3. Len(seen[i]) < Len(Sent[i]) /\ Sent[i][Len(seen[i]) + 1] = EOS
    <3> DEFINE f == [Free EXCEPT !.state = "closed"]
    <3>1. f.state # "open" /\ "READ" \notin f.pend  BY DEF Free
    <3> HIDE DEF f, new
    <3>2. /\ ToAmiga(i, StreamState(i), Way(i)', Sent[i], chan[i], f, new)
          /\ Len(seen[i]) < Len(Sent[i]) /\ Sent[i][Len(seen[i]) + 1] = EOS
      BY <1>1, <1>2, <3>1, AmigaEosRead
    <3> QED  BY <3>2
  <2>4. InStep  BY <1>3, <2>3, InTake DEF DriverLeaves
  <2> QED  BY <2>2, <2>4 DEF OutStep, DriverLeaves
<1>5. CASE "SENT_EOS_TO_RPI" \notin u.flags
  <2>1. /\ sock' = [sock EXCEPT ![i].flags = u.flags \cup {"SENT_EOS_TO_APP"},
                                ![i].pend = @ \ {"READ"}]
        /\ sendq' = sendq /\ a2r' = a2r
    BY <1>5 DEF GiveEos
  <2>2. /\ t.state = "open" /\ t.rq = <<>> /\ t.flags = u.flags \cup {"SENT_EOS_TO_APP"}
        /\ t.pend = sock[i].pend \ {"READ"}
    <3>1. sock[i] \in Socket  BY <1>1
    <3> QED  BY <1>1, <2>1, <3>1 DEF Socket
  <2> HIDE DEF t, new
  <2>3. /\ ToAmiga(i, StreamState(i), Way(i)', Sent[i], chan[i], t, new)
        /\ Len(seen[i]) < Len(Sent[i]) /\ Sent[i][Len(seen[i]) + 1] = EOS
    <3>1. ASSUME NEW v, "READ" \notin v.pend, v.rq = <<>>, "RCVD_EOS_FROM_RPI" \in v.flags,
                 "SENT_EOS_TO_APP" \in v.flags
          PROVE  /\ ToAmiga(i, StreamState(i), Way(i)', Sent[i], chan[i], v, new)
                 /\ Len(seen[i]) < Len(Sent[i]) /\ Sent[i][Len(seen[i]) + 1] = EOS
      BY <1>1, <1>2, <3>1, AmigaEosRead
    <3>2. "READ" \notin t.pend /\ "RCVD_EOS_FROM_RPI" \in t.flags /\ "SENT_EOS_TO_APP" \in t.flags
      BY <2>2
    <3> QED  BY <2>2, <3>1, <3>2
  <2>4. ToPi(i, t, a2r', wrote[i], chan[i], Heard[i])
    <3>1. WritesLess(t, sock[i])  BY <2>2 DEF WritesLess, WriteWaits
    <3>2. SameFor(i, a2r', a2r)  BY <2>1, SameAfter
    <3>3. ToPi(i, sock[i], a2r, wrote[i], chan[i], Heard[i])  BY Known
    <3> QED  BY <3>1, <3>2, <3>3, PiKept
  <2>5. ~Unborn(i)'
    <3>1. A2RKinds(i)' = A2RKinds(i) /\ Turn(i)' = Turn(i)  BY <2>1 DEF A2RKinds, Turn
    <3> QED  BY <2>2, <3>1 DEF Unborn, t, DriverLeaves
  <2>6. NewInv(i)'  BY <2>5 DEF NewInv
  <2>7. Piping(i)'  BY <1>3, <2>3, <2>4, <2>6, PipingAfter DEF t, DriverLeaves
  <2>8. InStep  BY <1>3, <2>3, InTake DEF DriverLeaves
  <2> QED  BY <2>7, <2>8 DEF OutStep, DriverLeaves
<1> QED  BY <1>4, <1>5

\* What a request of the application sends, if anything, is a packet of its socket.
Sends(i) == \E p \in A2RPackets : p.id = i /\ a2r' \in {a2r, Append(a2r, p)}

LEMMA ClosingSends ==
    ASSUME NEW i \in Ids, NEW b \in BOOLEAN, CloseSocket(i, b)
    PROVE  Sends(i)
<1>1. Packet("RESET", i, 0) \in A2RPackets /\ Packet("RESET", i, 0).id = i
  BY PacketTypes DEF Packet
<1>2. a2r' \in {a2r, Append(a2r, Packet("RESET", i, 0))}  BY DEF CloseSocket, SendNow, Queue
<1> QED  BY <1>1, <1>2 DEF Sends

LEMMA RequestSends ==
    ASSUME Good, NEW i \in Ids, AppRead(i) \/ AppWrite(i) \/ AppEos(i) \/ AppReset(i)
    PROVE  Sends(i)
<1>1. Packet("EOS", i, 0) \in A2RPackets /\ Packet("EOS", i, 0).id = i
  BY PacketTypes DEF Packet
<1>2. ASSUME \E b \in BOOLEAN : CloseSocket(i, b) PROVE Sends(i)
  BY <1>2, ClosingSends
<1>3. ASSUME a2r' = a2r PROVE Sends(i)  BY <1>1, <1>3 DEF Sends
<1>4. CASE AppRead(i) \/ AppReset(i)
  <2>1. a2r' = a2r \/ \E b \in BOOLEAN : CloseSocket(i, b)
    BY <1>4 DEF AppRead, AppReset, GiveData, GiveEos
  <2> QED  BY <1>2, <1>3, <2>1
<1>5. CASE AppWrite(i)
  <2> DEFINE x == Len(wrote[i]) + 1
             p == Packet("DATA", i, x)
  <2>1. \/ \E b \in BOOLEAN : CloseSocket(i, b)
        \/ Len(wrote[i]) < DataOf(i) /\ a2r' \in {a2r, Append(a2r, p)}
    BY <1>5 DEF AppWrite, SendNow, Queue
  <2>2. CASE Len(wrote[i]) < DataOf(i) /\ a2r' \in {a2r, Append(a2r, p)}
    <3>1. x \in 1 .. MaxData  BY <2>2, HistoryTypes DEF Good, TypeInv
    <3>2. p \in A2RPackets /\ p.id = i
      <4> HIDE DEF x
      <4> QED  BY <3>1, PacketTypes DEF Packet
    <3> QED  BY <2>2, <3>2 DEF Sends
  <2> QED  BY <1>2, <2>1, <2>2
<1>6. CASE AppEos(i)
  <2>1. \/ \E b \in BOOLEAN : CloseSocket(i, b)
        \/ a2r' \in {a2r, Append(a2r, Packet("EOS", i, 0))}
    BY <1>6 DEF AppEos, SendNow, Queue
  <2> QED  BY <1>1, <1>2, <2>1 DEF Sends
<1> QED  BY <1>4, <1>5, <1>6

\* What it does besides.
LEMMA RequestLeaves ==
    ASSUME Good, NEW i \in Ids, AppRead(i) \/ AppWrite(i) \/ AppEos(i) \/ AppReset(i)
    PROVE  /\ \A j \in Ids \ {i} : Piping(j)'
           /\ OneStream' /\ DriverLeaves(i) /\ sock[i].state = "open"
           /\ Way(i)' = Way(i) /\ SameFor(i, Way(i)', Way(i))
<1>1. DriverReady /\ Fitting(i, R2AKinds(i), chan[i], StreamState(i)) /\ next \in Nat
  BY Ready DEF Good
<1>2. DriverDid(i, R2AKinds(i), chan[i], StreamState(i))
  <2>1. CASE AppRead(i)  BY <1>1, <2>1, DriverReads
  <2>2. CASE AppWrite(i)  BY <1>1, <2>2, DriverWrites
  <2>3. CASE AppEos(i)  BY <1>1, <2>3, DriverEnds
  <2>4. CASE AppReset(i)  BY <1>1, <2>4, DriverCloses DEF AppReset
  <2> QED  BY <2>1, <2>2, <2>3, <2>4
<1>3. /\ next' = next /\ chan' = chan /\ streams' = streams /\ r2a' = r2a /\ Open(i)
  BY DEF AppRead, AppWrite, AppEos, AppReset, piVars
<1>4. i < next  BY <1>3, GivenOut DEF Open, Good
<1>5. \A j \in Ids \ {i} : wrote'[j] = wrote[j] /\ seen'[j] = seen[j]
  <2>1. wrote \in [Ids -> Seq(0 .. MaxData)] /\ seen \in [Ids -> Seq(0 .. MaxData)]
    BY DEF Good, TypeInv, TypeOK
  <2>2. /\ wrote' = wrote \/ \E x : wrote' = [wrote EXCEPT ![i] = Append(@, x)]
        /\ seen' = seen \/ \E x : seen' = [seen EXCEPT ![i] = Append(@, x)]
    BY DEF AppRead, AppWrite, AppEos, AppReset, GiveData, GiveEos, EosSent
  <2> QED  BY <2>1, <2>2
<1>6. PICK p \in A2RPackets : p.id = i /\ a2r' \in {a2r, Append(a2r, p)}
  BY RequestSends DEF Sends
<1>7. /\ \A j \in Ids \ {i} : Piping(j)'
      /\ OneStream' /\ Heard' = Heard /\ Sent' = Sent
      /\ StreamState(i)' = StreamState(i) /\ (NoStream(i) => NoStream(i)')
  <2>1. UNCHANGED <<chan, streams>> /\ next' \in {next, next + 1} /\ i < next' /\ r2a' = r2a
    BY <1>3, <1>4
  <2> QED  BY <1>2, <1>5, <1>6, <2>1, DriverElsewhere
<1>8. Way(i)' = Way(i) /\ SameFor(i, Way(i)', Way(i))  BY <1>3, WaySteps
<1> QED  BY <1>3, <1>4, <1>7, <1>8 DEF DriverLeaves, Open

\* A socket that goes on as it is, but for a READ that waits.
LEMMA Unmoved ==
    ASSUME Good, NEW i \in Ids, DriverLeaves(i), SameFor(i, Way(i)', Way(i)),
           WritesLess(sock'[i], sock[i]), ReadsLess(sock'[i], sock[i]),
           a2r' = a2r, wrote'[i] = wrote[i], seen'[i] = seen[i], Unborn(i)' => Unborn(i)
    PROVE  Piping(i)'
<1>1. NewInv(i)'
  <2>1. NewInv(i)  BY Known
  <2> QED  BY <2>1 DEF NewInv, DriverLeaves
<1> DEFINE t == sock'[i]
<1>2. WritesLess(t, sock[i]) /\ ReadsLess(t, sock[i])  OBVIOUS
<1> HIDE DEF t
<1>3. ToPi(i, t, a2r', wrote[i], chan[i], Heard[i])
  <2>1. ToPi(i, sock[i], a2r, wrote[i], chan[i], Heard[i])  BY Known
  <2>2. SameFor(i, a2r', a2r)  BY SameAfter
  <2> QED  BY <1>2, <2>1, <2>2, PiKept
<1>4. ToAmiga(i, StreamState(i), Way(i)', Sent[i], chan[i], t, seen[i])
  <2>1. ToAmiga(i, StreamState(i), Way(i), Sent[i], chan[i], sock[i], seen[i])  BY Known
  <2>2. EndsMore(StreamState(i), StreamState(i))  BY DEF EndsMore
  <2> QED  BY <1>2, <2>1, <2>2, AmigaKept
<1> QED  BY <1>1, <1>3, <1>4, PipingAfter DEF t, DriverLeaves

\* handle_app_reset.
LEMMA AppResetPipes ==
    ASSUME Good, NEW i \in Ids, AppReset(i)
    PROVE  Flows' /\ OutStep /\ InStep
<1>1. /\ \A j \in Ids \ {i} : Piping(j)'
      /\ OneStream' /\ DriverLeaves(i) /\ SameFor(i, Way(i)', Way(i))
  BY RequestLeaves
<1>2. CloseSocket(i, TRUE) /\ wrote' = wrote /\ seen' = seen  BY DEF AppReset
<1>3. Piping(i)'  BY <1>1, <1>2, Closing
<1> QED  BY <1>1, <1>2, <1>3 DEF Flows, OutStep, InStep, DriverLeaves

\* handle_app_read.
LEMMA AppReadPipes ==
    ASSUME Good, NEW i \in Ids, AppRead(i)
    PROVE  Flows' /\ OutStep /\ InStep
<1> DEFINE s == sock[i]
<1>1. /\ \A j \in Ids \ {i} : Piping(j)'
      /\ OneStream' /\ DriverLeaves(i) /\ s.state = "open"
      /\ Way(i)' = Way(i) /\ SameFor(i, Way(i)', Way(i))
  BY RequestLeaves
<1>2. wrote' = wrote  BY DEF AppRead
<1>3. SUFFICES Piping(i)' /\ InStep
  BY <1>1, <1>2 DEF Flows, OutStep, DriverLeaves
<1>4. s \in Socket /\ sock \in [Ids -> Socket]
      /\ ToAmiga(i, StreamState(i), Way(i), Sent[i], chan[i], s, seen[i])
      /\ ToPi(i, s, a2r, wrote[i], chan[i], Heard[i])
  BY Known
<1>5. /\ Len(Sent[i]) \in Nat /\ Len(seen[i]) \in Nat /\ seen[i] \in Seq(0 .. MaxData)
      /\ seen \in [Ids -> Seq(0 .. MaxData)]
  BY HistoryTyped DEF Good, TypeInv, TypeOK
<1>6. CASE CloseSocket(i, TRUE) /\ UNCHANGED seen
  <2>1. Piping(i)'  BY <1>1, <1>2, <1>6, Closing
  <2> QED  BY <1>1, <1>6, <2>1 DEF InStep, DriverLeaves
<1>7. ASSUME s.pend \cap {"CONNECT", "READ"} = {} PROVE ~Unborn(i)
  BY <1>1, <1>7, Born DEF Open
<1>8. CASE /\ s.pend \cap {"CONNECT", "READ"} = {} /\ s.rq # <<>>
           /\ GiveData(i, Head(s.rq), [s EXCEPT !.rq = Tail(@)])
  <2> DEFINE x == Head(s.rq)
             t == [s EXCEPT !.rq = Tail(@)]
             new == Append(seen[i], x)
  <2>1. s.rq \in Seq(1 .. MaxData)  BY <1>4, SocketTypes
  <2>2. Shorter(t.rq, s.rq) /\ s.rq[1] = x /\ x \in 1 .. MaxData
    <3>1. t.rq = Tail(s.rq)  BY <1>4 DEF Socket
    <3>2. Shorter(Tail(s.rq), s.rq) /\ s.rq[1] = x  BY <1>8, <2>1, ShorterTail
    <3>3. x \in 1 .. MaxData
      <4>1. s.rq # <<>>  BY <1>8
      <4> QED  BY <2>1, <4>1, HeadTailProperties
    <3> QED  BY <3>1, <3>2, <3>3
  <2>3. /\ t.state = "open" /\ t.flags = s.flags /\ t.pend = s.pend /\ Len(t.rq) \in Nat
    BY <1>1, <1>4, <1>8, <2>1 DEF Socket
  <2>4. /\ seen' = [seen EXCEPT ![i] = Append(@, x)] /\ sock' = [sock EXCEPT ![i] = t]
        /\ sendq' = sendq /\ a2r' = a2r
    BY <1>8 DEF GiveData
  <2> HIDE DEF x, t, s
  <2>5. x \in 0 .. MaxData  BY <2>2, ChannelAssumption
  <2>6. Longer(new, seen[i], s.rq[1])  BY <1>5, <2>2, <2>5, LongerAppend
  <2>7. sock'[i] = t /\ seen'[i] = new  BY <1>4, <1>5, <2>4
  <2> HIDE DEF new
  <2>8. /\ ToAmiga(i, StreamState(i), Way(i), Sent[i], chan[i], t, new)
        /\ Len(seen[i]) < Len(Sent[i]) /\ Sent[i][Len(seen[i]) + 1] = s.rq[1]
    <3>1. "READ" \notin t.pend /\ t.flags = s.flags /\ Len(t.rq) \in Nat  BY <1>8, <2>3
    <3>2. /\ s.state = "open" /\ Shorter(t.rq, s.rq)
          /\ ToAmiga(i, StreamState(i), Way(i), Sent[i], chan[i], s, seen[i])
      BY <1>1, <1>4, <2>2
    <3>3. Len(Sent[i]) \in Nat /\ Len(seen[i]) \in Nat  BY <1>5
    <3> QED  BY <2>6, <3>1, <3>2, <3>3, AmigaRead
  <2>9. ToPi(i, t, a2r', wrote[i], chan[i], Heard[i])
    <3>1. WritesLess(t, s) /\ SameFor(i, a2r', a2r)
      BY <1>1, <2>3, <2>4, SameAfter DEF WritesLess, WriteWaits
    <3> QED  BY <1>4, <3>1, PiKept
  <2>10. NewInv(i)'
    <3>1. A2RKinds(i)' = A2RKinds(i) /\ Turn(i)' = Turn(i)  BY <2>4 DEF A2RKinds, Turn
    <3>2. ~Unborn(i)'
      BY <1>1, <1>7, <1>8, <2>3, <2>7, <3>1 DEF Unborn, DriverLeaves, s
    <3> QED  BY <3>2 DEF NewInv
  <2>11. Piping(i)'  BY <1>1, <1>2, <2>7, <2>8, <2>9, <2>10, PipingAfter DEF DriverLeaves
  <2>12. InStep  BY <1>1, <2>2, <2>4, <2>8, InTake DEF DriverLeaves
  <2> QED  BY <2>11, <2>12
<1>9. CASE /\ s.pend \cap {"CONNECT", "READ"} = {} /\ s.rq = <<>>
           /\ "RCVD_EOS_FROM_RPI" \in s.flags /\ "SENT_EOS_TO_APP" \notin s.flags
           /\ GiveEos(i, s.flags)
  <2>1. ToAmiga(i, StreamState(i), Way(i)', Sent[i], chan[i], s, seen[i])  BY <1>1, <1>4
  <2>2. ~Unborn(i)  BY <1>7, <1>9
  <2> QED  BY <1>1, <1>2, <1>9, <2>1, <2>2, GivingEos
<1>10. CASE /\ s.rq = <<>> /\ "RCVD_EOS_FROM_RPI" \notin s.flags
            /\ sock' = [sock EXCEPT ![i].pend = @ \cup {"READ"}]
            /\ UNCHANGED <<sendq, a2r, seen>>
  <2>1. /\ sock'[i].state = "open" /\ sock'[i].flags = s.flags /\ sock'[i].rq = s.rq
        /\ sock'[i].pend = s.pend \cup {"READ"}
    BY <1>1, <1>4, <1>10 DEF Socket
  <2>2. WritesLess(sock'[i], sock[i])  BY <1>1, <2>1 DEF WritesLess, WriteWaits
  <2>3. ReadsLess(sock'[i], sock[i])  BY <1>1, <1>10, <2>1 DEF ReadsLess, ReadWaits
  <2>4. Unborn(i)' => Unborn(i)
    <3>1. A2RKinds(i)' = A2RKinds(i) /\ Turn(i)' = Turn(i) /\ next' = next
      BY <1>1, <1>10 DEF A2RKinds, Turn, DriverLeaves
    <3> QED  BY <2>1, <3>1 DEF Unborn
  <2>5. Piping(i)'  BY <1>1, <1>2, <1>10, <2>2, <2>3, <2>4, Unmoved
  <2> QED  BY <1>1, <1>10, <2>5 DEF InStep, DriverLeaves
<1> QED  BY <1>6, <1>8, <1>9, <1>10 DEF AppRead

\* The application's next piece goes into the ring: p, which shows as x.
LEMMA PieceSent ==
    ASSUME Good, NEW i \in Ids, DriverLeaves(i), SameFor(i, Way(i)', Way(i)),
           sock[i].state = "open", "CONNECT" \notin sock[i].pend,
           "SENT_EOS_TO_RPI" \notin sock[i].flags,
           NEW p \in A2RPackets, Carries(p, i), IsNext(p, wrote[i]), p.type # "CONNECT",
           NEW x, x = Piece(p), x \in {EOS, Len(wrote[i]) + 1}, x \in 0 .. MaxData,
           a2r' = Append(a2r, p), wrote' = [wrote EXCEPT ![i] = Append(@, x)], seen' = seen,
           "WRITE" \notin sock'[i].pend, "CONNECT" \notin sock'[i].pend,
           sock'[i].state = "open" /\ "SENT_EOS_TO_RPI" \notin sock'[i].flags => x # EOS,
           \/ ReadsLess(sock'[i], sock[i])
           \/ sock'[i].state # "open" /\ "READ" \notin sock'[i].pend
    PROVE  Piping(i)' /\ OutStep
<1> DEFINE t == sock'[i]
           new == Append(wrote[i], x)
<1>1. /\ Len(Heard[i]) \in Nat /\ Len(wrote[i]) \in Nat /\ wrote[i] \in Seq(0 .. MaxData)
      /\ wrote \in [Ids -> Seq(0 .. MaxData)] /\ DOMAIN wrote[i] = 1 .. Len(wrote[i])
  BY HistoryTyped DEF Good, TypeInv, TypeOK
<1>2. Longer(new, wrote[i], Piece(p))  BY <1>1, LongerAppend
<1>3. wrote'[i] = new  BY <1>1
<1>4. Longer(a2r', a2r, p)  BY RingSteps
<1>5. ~Unborn(i)'
  <2>1. ~Unborn(i)  BY Born DEF Open
  <2>2. "CONNECT" \in A2RKinds(i)' => "CONNECT" \in A2RKinds(i)  BY ConnectStays
  <2>3. ~(i >= next)  BY <2>1 DEF Unborn
  <2> QED  BY <2>1, <2>2, <2>3 DEF Unborn, DriverLeaves
<1>6. /\ ToAmiga(i, StreamState(i), Way(i), Sent[i], chan[i], sock[i], seen[i])
      /\ ToPi(i, sock[i], a2r, wrote[i], chan[i], Heard[i])
  BY Known
<1>7. WriteWaits(t) /\ (t.state = "open" /\ "SENT_EOS_TO_RPI" \notin t.flags => Piece(p) # EOS)
  BY DEF WriteWaits
<1>8. ReadsLess(t, sock[i]) \/ (t.state # "open" /\ "READ" \notin t.pend)  OBVIOUS
<1> HIDE DEF t, new
<1>9. ToPi(i, t, a2r', new, chan[i], Heard[i]) /\ Unended(wrote[i])
  BY <1>1, <1>2, <1>4, <1>6, <1>7, PiSent
<1>10. ToAmiga(i, StreamState(i), Way(i)', Sent[i], chan[i], t, seen[i])
  <2>1. EndsMore(StreamState(i), StreamState(i))  BY DEF EndsMore
  <2>2. CASE ReadsLess(t, sock[i])  BY <1>6, <2>1, <2>2, AmigaKept
  <2>3. CASE t.state # "open" /\ "READ" \notin t.pend  BY <1>6, <2>1, <2>3, AmigaLost
  <2> QED  BY <1>8, <2>2, <2>3
<1>11. NewInv(i)'  BY <1>5 DEF NewInv
<1>12. Piping(i)'  BY <1>3, <1>9, <1>10, <1>11, PipingAfter DEF t, DriverLeaves
<1>13. OutStep  BY <1>1, <1>9, OutPut DEF DriverLeaves
<1> QED  BY <1>12, <1>13

\* Data, and the EOS.
LEMMA DataSent ==
    ASSUME Good, NEW i \in Ids, DriverLeaves(i), SameFor(i, Way(i)', Way(i)),
           sock[i].state = "open", "CONNECT" \notin sock[i].pend,
           "RCVD_EOS_FROM_APP" \notin sock[i].flags, Len(wrote[i]) < DataOf(i),
           a2r' = Append(a2r, Packet("DATA", i, Len(wrote[i]) + 1)),
           wrote' = [wrote EXCEPT ![i] = Append(@, Len(@) + 1)], seen' = seen,
           NEW t, sock' = [sock EXCEPT ![i] = t], t.state = "open", t.flags = sock[i].flags,
           t.rq = sock[i].rq, t.pend = sock[i].pend \ {"WRITE"}
    PROVE  Piping(i)' /\ OutStep
<1> DEFINE x == Len(wrote[i]) + 1
           p == Packet("DATA", i, x)
<1>1. x \in 1 .. MaxData /\ Len(wrote[i]) \in Nat
  BY HistoryTypes, HistoryTyped DEF Good, TypeInv
<1>2. /\ p \in A2RPackets /\ Carries(p, i) /\ IsNext(p, wrote[i]) /\ p.type # "CONNECT"
      /\ Piece(p) = x /\ a2r' = Append(a2r, p)
  <2>1. p \in A2RPackets
    <3> HIDE DEF x
    <3> QED  BY <1>1, PacketTypes
  <2> QED  BY <2>1 DEF Packet, Carries, IsNext, Piece
<1>3. wrote' = [wrote EXCEPT ![i] = Append(@, x)]  OBVIOUS
<1>4. x # EOS /\ x \in 0 .. MaxData /\ x \in {EOS, Len(wrote[i]) + 1}
  BY <1>1, ChannelAssumption DEF EOS
<1>5. sock'[i] = t /\ SockInv(sock[i])  BY Known
<1>6. "SENT_EOS_TO_RPI" \notin sock[i].flags  BY <1>5 DEF SockInv
<1> HIDE DEF x, p
<1>7. "WRITE" \notin sock'[i].pend /\ "CONNECT" \notin sock'[i].pend  BY <1>5
<1>8. ReadsLess(sock'[i], sock[i])  BY <1>5 DEF ReadsLess, ReadWaits
<1> QED  BY <1>2, <1>3, <1>4, <1>6, <1>7, <1>8, PieceSent

LEMMA EndSent ==
    ASSUME Good, NEW i \in Ids, DriverLeaves(i), SameFor(i, Way(i)', Way(i)),
           sock[i].state = "open", "CONNECT" \notin sock[i].pend, "WRITE" \notin sock[i].pend,
           "SENT_EOS_TO_RPI" \notin sock[i].flags,
           a2r' = Append(a2r, Packet("EOS", i, 0)), EosSent(i, sock[i]), seen' = seen
    PROVE  Piping(i)' /\ OutStep
<1> DEFINE s == sock[i]
           u == [s EXCEPT !.flags = @ \cup {"RCVD_EOS_FROM_APP", "SENT_EOS_TO_RPI"},
                          !.pend = @ \ {"EOS"}]
           t == IF "SENT_EOS_TO_APP" \in s.flags THEN Free ELSE u
           p == Packet("EOS", i, 0)
<1>1. s \in Socket /\ sock \in [Ids -> Socket]  BY Known
<1>2. sock' = [sock EXCEPT ![i] = t]  BY Zenon DEF EosSent
<1>3. /\ u.state = "open" /\ u.pend = s.pend \ {"EOS"} /\ u.rq = s.rq
      /\ u.flags = s.flags \cup {"RCVD_EOS_FROM_APP", "SENT_EOS_TO_RPI"}
  BY <1>1 DEF Socket
<1>4. /\ p \in A2RPackets /\ Carries(p, i) /\ IsNext(p, wrote[i]) /\ p.type # "CONNECT"
      /\ Piece(p) = EOS /\ EOS \in 0 .. MaxData
  BY PacketTypes, HistoryTypes DEF Packet, Carries, IsNext, Piece, Good, TypeInv
<1>5. wrote' = [wrote EXCEPT ![i] = Append(@, EOS)]  BY DEF EosSent
<1> HIDE DEF u, p
<1>6. /\ "WRITE" \notin t.pend /\ "CONNECT" \notin t.pend
      /\ t.state = "open" => "SENT_EOS_TO_RPI" \in t.flags
      /\ ReadsLess(t, s) \/ (t.state # "open" /\ "READ" \notin t.pend)
  <2>1. CASE "SENT_EOS_TO_APP" \in s.flags  BY <2>1 DEF Free
  <2>2. CASE "SENT_EOS_TO_APP" \notin s.flags
    <3>1. ReadsLess(u, s)  BY <1>3 DEF ReadsLess, ReadWaits
    <3>2. t = u  BY <2>2
    <3> QED  BY <1>3, <3>1, <3>2
  <2> QED  BY <2>1, <2>2
<1> HIDE DEF t
<1>7. sock'[i] = t  BY <1>1, <1>2
<1> QED  BY <1>4, <1>5, <1>6, <1>7, PieceSent DEF p

\* A request that waits for its turn.
LEMMA RequestWaits ==
    ASSUME Good, NEW i \in Ids, DriverLeaves(i), SameFor(i, Way(i)', Way(i)),
           sock[i].state = "open", ~OutOfPlace(sock[i]), a2r' = a2r,
           wrote' = wrote, seen' = seen, NEW e \in {"WRITE", "EOS"},
           NEW t, sock' = [sock EXCEPT ![i] = t], t.state = "open", t.rq = sock[i].rq,
           t.pend = sock[i].pend \cup {e},
           t.flags = sock[i].flags \/ (e = "EOS" /\ t.flags = sock[i].flags \cup {"RCVD_EOS_FROM_APP"})
    PROVE  Piping(i)'
<1>1. sock'[i] = t  BY Known
<1>2. /\ "CONNECT" \notin sock[i].pend /\ "WRITE" \notin sock[i].pend
      /\ "RCVD_EOS_FROM_APP" \notin sock[i].flags
  BY DEF OutOfPlace
<1>3. WritesLess(sock'[i], sock[i])  BY <1>1, <1>2 DEF WritesLess, WriteWaits
<1>4. ReadsLess(sock'[i], sock[i])  BY <1>1 DEF ReadsLess, ReadWaits
<1>5. Unborn(i)' => Unborn(i)
  <2>1. "CONNECT" \notin sock'[i].pend  BY <1>1, <1>2
  <2>2. A2RKinds(i)' = A2RKinds(i) /\ next' = next  BY DEF A2RKinds, DriverLeaves
  <2> QED  BY <2>1, <2>2 DEF Unborn
<1> QED  BY <1>3, <1>4, <1>5, Unmoved

\* handle_app_write.
LEMMA AppWritePipes ==
    ASSUME Good, NEW i \in Ids, AppWrite(i)
    PROVE  Flows' /\ OutStep /\ InStep
<1> DEFINE s == sock[i]
<1>1. /\ \A j \in Ids \ {i} : Piping(j)'
      /\ OneStream' /\ DriverLeaves(i) /\ s.state = "open" /\ SameFor(i, Way(i)', Way(i))
  BY RequestLeaves
<1>2. seen' = seen  BY DEF AppWrite
<1>3. SUFFICES Piping(i)' /\ OutStep
  BY <1>1, <1>2 DEF Flows, InStep, DriverLeaves
<1>4. s \in Socket /\ sock \in [Ids -> Socket]  BY Known
<1>5. CASE CloseSocket(i, TRUE) /\ UNCHANGED wrote
  <2>1. Piping(i)'  BY <1>1, <1>2, <1>5, Closing
  <2> QED  BY <1>1, <1>5, <2>1 DEF OutStep, DriverLeaves
<1>6. CASE /\ ~OutOfPlace(s) /\ Len(wrote[i]) < DataOf(i)
           /\ SendNow(sendq, Packet("DATA", i, Len(wrote[i]) + 1))
           /\ wrote' = [wrote EXCEPT ![i] = Append(@, Len(@) + 1)]
           /\ UNCHANGED sock
  <2>1. /\ "CONNECT" \notin s.pend /\ "RCVD_EOS_FROM_APP" \notin s.flags
        /\ s.pend = s.pend \ {"WRITE"}
    BY <1>6 DEF OutOfPlace
  <2>2. sock' = [sock EXCEPT ![i] = s]  BY <1>4, <1>6
  <2>3. a2r' = Append(a2r, Packet("DATA", i, Len(wrote[i]) + 1))  BY <1>6 DEF SendNow
  <2> HIDE DEF s
  <2> QED  BY <1>1, <1>2, <1>6, <2>1, <2>2, <2>3, DataSent DEF s
<1>7. CASE /\ ~OutOfPlace(s) /\ Queue(sendq, i)
           /\ sock' = [sock EXCEPT ![i].pend = @ \cup {"WRITE"}]
           /\ UNCHANGED wrote
  <2> DEFINE t == [s EXCEPT !.pend = @ \cup {"WRITE"}]
  <2>1. sock' = [sock EXCEPT ![i] = t]  BY <1>4, <1>7, Zenon
  <2>2. t.state = "open" /\ t.pend = s.pend \cup {"WRITE"} /\ t.flags = s.flags /\ t.rq = s.rq
    BY <1>1, <1>4 DEF Socket
  <2>3. a2r' = a2r /\ wrote' = wrote  BY <1>7 DEF Queue
  <2> HIDE DEF t
  <2>4. Piping(i)'  BY <1>1, <1>2, <1>7, <2>1, <2>2, <2>3, RequestWaits
  <2> QED  BY <1>1, <2>3, <2>4 DEF OutStep, DriverLeaves
<1> QED  BY <1>5, <1>6, <1>7 DEF AppWrite

\* handle_app_eos.
LEMMA AppEosPipes ==
    ASSUME Good, NEW i \in Ids, AppEos(i)
    PROVE  Flows' /\ OutStep /\ InStep
<1> DEFINE s == sock[i]
<1>1. /\ \A j \in Ids \ {i} : Piping(j)'
      /\ OneStream' /\ DriverLeaves(i) /\ s.state = "open" /\ SameFor(i, Way(i)', Way(i))
  BY RequestLeaves
<1>2. seen' = seen  BY DEF AppEos
<1>3. SUFFICES Piping(i)' /\ OutStep
  BY <1>1, <1>2 DEF Flows, InStep, DriverLeaves
<1>4. s \in Socket /\ sock \in [Ids -> Socket] /\ SockInv(s)  BY Known
<1>5. CASE CloseSocket(i, TRUE) /\ UNCHANGED wrote
  <2>1. Piping(i)'  BY <1>1, <1>2, <1>5, Closing
  <2> QED  BY <1>1, <1>5, <2>1 DEF OutStep, DriverLeaves
<1>6. CASE /\ ~OutOfPlace(s) /\ SendNow(sendq, Packet("EOS", i, 0)) /\ EosSent(i, s)
  <2>1. /\ "CONNECT" \notin s.pend /\ "WRITE" \notin s.pend /\ "SENT_EOS_TO_RPI" \notin s.flags
    BY <1>4, <1>6 DEF OutOfPlace, SockInv
  <2>2. a2r' = Append(a2r, Packet("EOS", i, 0))  BY <1>6 DEF SendNow
  <2> QED  BY <1>1, <1>2, <1>6, <2>1, <2>2, EndSent
<1>7. CASE /\ ~OutOfPlace(s) /\ Queue(sendq, i) /\ UNCHANGED wrote
           /\ sock' = [sock EXCEPT ![i].pend = @ \cup {"EOS"},
                                   ![i].flags = @ \cup {"RCVD_EOS_FROM_APP"}]
  <2> DEFINE t == [s EXCEPT !.pend = @ \cup {"EOS"}, !.flags = @ \cup {"RCVD_EOS_FROM_APP"}]
  <2>1. sock' = [sock EXCEPT ![i] = t]  BY <1>4, <1>7
  <2>2. /\ t.state = "open" /\ t.pend = s.pend \cup {"EOS"} /\ t.rq = s.rq
        /\ t.flags = s.flags \cup {"RCVD_EOS_FROM_APP"}
    BY <1>1, <1>4 DEF Socket
  <2>3. a2r' = a2r /\ wrote' = wrote  BY <1>7 DEF Queue
  <2> HIDE DEF t
  <2>4. Piping(i)'  BY <1>1, <1>2, <1>7, <2>1, <2>2, <2>3, RequestWaits
  <2> QED  BY <1>1, <2>3, <2>4 DEF OutStep, DriverLeaves
<1> QED  BY <1>5, <1>6, <1>7 DEF AppEos

\* What a connection that has no stream yet has heard and sent.
LEMMA NothingPassed ==
    ASSUME Good, NEW i \in Ids, NoStream(i)
    PROVE  Heard[i] = <<>> /\ Sent[i] = <<>>
<1>1. Single(streams) /\ \A t \in DOMAIN streams : streams[t].id # i
  BY Histories DEF Good, Flows, NoStream
<1>2. Got(streams, i) = <<>> /\ SentBy(streams, i) = <<>>  BY <1>1, HistoryOf
<1> QED  BY <1>2, Histories

\* handle_app_connect.
LEMMA AppConnectPipes ==
    ASSUME Good, NEW n \in Sockets, AppConnect(n)
    PROVE  Flows' /\ OutStep /\ InStep
<1>1. PICK i \in Ids : i = next  BY DEF AppConnect
<1>2. DriverReady /\ Fitting(i, R2AKinds(i), chan[i], StreamState(i)) /\ next \in Nat
  BY Ready DEF Good
<1>3. sock[i] = Free /\ chan[i] = NoChannel /\ A2RKinds(i) = {} /\ R2AKinds(i) = {}
  BY <1>1, <1>2 DEF Good, AllFit, Conn, Unused
<1>4. DriverDid(i, {}, chan[i], StreamState(i))
  <2>1. Fitting(i, {}, chan[i], StreamState(i))  BY <1>2, <1>3, Zenon
  <2> QED  BY <1>1, <1>2, <1>3, <2>1, DriverConnects
<1>5. /\ next' = next + 1 /\ chan' = chan /\ streams' = streams /\ r2a' = r2a
      /\ wrote' = wrote /\ seen' = seen
  BY DEF AppConnect, piVars
<1> DEFINE p == Packet("CONNECT", i, 0)
           t == [Free EXCEPT !.state = "open", !.socket = n, !.pend = {"CONNECT"}]
<1>6. /\ p \in A2RPackets /\ p.id = i /\ ~Carries(p, i)
      /\ a2r' \in {a2r, Append(a2r, p)} /\ sock' = [sock EXCEPT ![i] = t]
  BY <1>1, PacketTypes DEF Packet, Carries, AppConnect, SendNow, Queue
<1>7. t.pend = {"CONNECT"} /\ t.rq = <<>> /\ t.flags = {}  BY DEF Free
<1> HIDE DEF p, t
<1>8. /\ \A j \in Ids \ {i} : Piping(j)'
      /\ OneStream' /\ Heard' = Heard /\ Sent' = Sent
      /\ StreamState(i)' = StreamState(i) /\ (NoStream(i) => NoStream(i)')
  <2>1. i < next' /\ next' \in {next, next + 1} /\ r2a' = r2a  BY <1>1, <1>2, <1>5
  <2>2. a2r' \in {a2r, Append(a2r, p)} /\ p \in A2RPackets /\ p.id = i  BY <1>6
  <2>3. \A j \in Ids \ {i} : wrote'[j] = wrote[j] /\ seen'[j] = seen[j]  BY <1>5
  <2>4. UNCHANGED <<chan, streams>>  BY <1>5
  <2> QED  BY <1>4, <2>1, <2>2, <2>3, <2>4, DriverElsewhere
<1>9. /\ wrote[i] = <<>> /\ seen[i] = <<>> /\ NoStream(i)
      /\ ToPi(i, sock[i], a2r, wrote[i], chan[i], Heard[i])
      /\ ToAmiga(i, StreamState(i), Way(i), Sent[i], chan[i], sock[i], seen[i])
      /\ sock \in [Ids -> Socket]
  <2>1. NewInv(i)  BY Known
  <2>2. Unborn(i)  BY <1>1, <1>2 DEF Unborn
  <2> QED  BY <2>1, <2>2, Known DEF NewInv
<1>10. Heard[i] = <<>> /\ Sent[i] = <<>>  BY <1>9, NothingPassed
<1>11. NewInv(i)'  BY <1>5, <1>8, <1>9 DEF NewInv
<1>12. ToPi(i, t, a2r', wrote[i], chan[i], Heard[i])
  <2>1. SameFor(i, a2r', a2r)  BY <1>6, RingSteps
  <2>2. From(a2r, i, wrote[i])  BY <1>9 DEF ToPi, HearerInv
  <2>3. WriteWaits(t)  BY <1>7 DEF WriteWaits
  <2> QED  BY <1>9, <1>10, <2>1, <2>2, <2>3, PiBegins
<1>13. ToAmiga(i, StreamState(i), Way(i)', Sent[i], chan[i], t, seen[i])
  <2>1. SameFor(i, Way(i)', Way(i))  BY <1>5, WaySteps
  <2>2. From(Way(i), i, Sent[i])  BY <1>9, ReaderParts DEF ToAmiga
  <2>3. "RCVD_EOS_FROM_RPI" \notin t.flags /\ t.rq = <<>> /\ ReadWaits(t)  BY <1>7 DEF ReadWaits
  <2> QED  BY <1>9, <1>10, <2>1, <2>2, <2>3, AmigaBegins
<1>14. sock'[i] = t  BY <1>6, <1>9
<1>15. Piping(i)'  BY <1>5, <1>8, <1>11, <1>12, <1>13, <1>14, PipingAfter
<1> QED  BY <1>5, <1>8, <1>15 DEF Flows, OutStep, InStep

\* handle_room_in_a2r.
LEMMA DriverSendPipes ==
    ASSUME Good, DriverSend
    PROVE  Flows' /\ OutStep /\ InStep
<1>1. sendq # <<>> /\ sendq \in Seq(Ids)  BY DEF DriverSend, Good, TypeInv, TypeOK
<1>2. PICK i \in Ids : i = Head(sendq)  BY <1>1
<1> DEFINE s == sock[i]
           send(type, x) == a2r' = Append(a2r, Packet(type, i, x))
<1>3. DriverReady /\ Fitting(i, R2AKinds(i), chan[i], StreamState(i)) /\ next \in Nat
  BY Ready DEF Good
<1>4. DriverDid(i, R2AKinds(i), chan[i], StreamState(i))  BY <1>2, <1>3, DriverSends
<1>5. /\ next' = next /\ chan' = chan /\ streams' = streams /\ r2a' = r2a /\ seen' = seen
  BY DEF DriverSend, piVars
<1>6. Turn(i) = "waits" /\ i < next
  <2>1. Turn(i) = "waits"  BY <1>1, <1>2, TurnSteps DEF Good, AllFit, TypeInv
  <2> QED  BY <2>1, GivenOut DEF Good
<1>7. s \in Socket /\ sock \in [Ids -> Socket] /\ SockInv(s) /\ ToPi(i, s, a2r, wrote[i], chan[i], Heard[i])
  BY Known
<1>8. /\ \A a, b \in Requests(s) : a = b
      /\ "WRITE" \in s.pend => Len(wrote[i]) < DataOf(i)
  BY DEF Good, TypeInv, OneRequest
<1>9. \A e, f \in {"CONNECT", "WRITE", "EOS"} : e \in s.pend /\ f \in s.pend => e = f
  BY <1>8 DEF Requests
<1>10. s.pend # {} => s.state = "open"
  <2>1. s.state \in {"free", "open", "closed"}  BY <1>7 DEF Socket
  <2> QED  BY <1>7, <2>1 DEF SockInv, Free
<1>11. \/ "CONNECT" \in s.pend /\ send("CONNECT", 0) /\ UNCHANGED <<sock, wrote>>
       \/ /\ "WRITE" \in s.pend /\ send("DATA", Len(wrote[i]) + 1)
          /\ wrote' = [wrote EXCEPT ![i] = Append(@, Len(@) + 1)]
          /\ sock' = [sock EXCEPT ![i].pend = @ \ {"WRITE"}]
       \/ "EOS" \in s.pend /\ send("EOS", 0) /\ EosSent(i, s)
       \/ /\ s.state = "closed" /\ send("RESET", 0)
          /\ sock' = [sock EXCEPT ![i] = Free] /\ UNCHANGED wrote
  <2>1. ~HasNothingToSend(s)  BY <1>3, <1>6 DEF Fitting, Fits, WaitInv
  <2> QED  BY <1>2, <2>1 DEF DriverSend
<1>12. PICK p \in A2RPackets : p.id = i /\ a2r' = Append(a2r, p)
  <2>1. "WRITE" \in s.pend => Len(wrote[i]) + 1 \in 1 .. MaxData
    BY <1>8, HistoryTypes DEF Good, TypeInv
  <2>2. ASSUME NEW x \in 1 .. MaxData PROVE Packet("DATA", i, x) \in A2RPackets
    BY PacketTypes
  <2>3. \A type, x : Packet(type, i, x).id = i  BY DEF Packet
  <2>4. /\ Packet("CONNECT", i, 0) \in A2RPackets /\ Packet("EOS", i, 0) \in A2RPackets
        /\ Packet("RESET", i, 0) \in A2RPackets
    BY PacketTypes
  <2> QED  BY <1>11, <2>1, <2>2, <2>3, <2>4
<1>13. /\ \A j \in Ids \ {i} : Piping(j)'
       /\ OneStream' /\ Heard' = Heard /\ Sent' = Sent
       /\ StreamState(i)' = StreamState(i) /\ (NoStream(i) => NoStream(i)')
  <2>1. i < next' /\ next' \in {next, next + 1} /\ r2a' = r2a  BY <1>5, <1>6
  <2>2. \A j \in Ids \ {i} : wrote'[j] = wrote[j] /\ seen'[j] = seen[j]
    <3>1. wrote \in [Ids -> Seq(0 .. MaxData)]  BY DEF Good, TypeInv, TypeOK
    <3>2. wrote' = wrote \/ \E x : wrote' = [wrote EXCEPT ![i] = Append(@, x)]
      BY <1>11 DEF EosSent
    <3> QED  BY <1>5, <3>1, <3>2
  <2>3. UNCHANGED <<chan, streams>>  BY <1>5
  <2>4. a2r' \in {a2r, Append(a2r, p)}  BY <1>12
  <2> QED  BY <1>4, <1>12, <2>1, <2>2, <2>3, <2>4, DriverElsewhere
<1>14. DriverLeaves(i) /\ SameFor(i, Way(i)', Way(i))
  BY <1>5, <1>6, <1>13, WaySteps DEF DriverLeaves
<1>15. SUFFICES Piping(i)' /\ OutStep
  BY <1>5, <1>13 DEF Flows, InStep
<1>16. CASE "CONNECT" \in s.pend /\ send("CONNECT", 0) /\ UNCHANGED <<sock, wrote>>
  <2>1. SameFor(i, a2r', a2r)
    <3>1. Packet("CONNECT", i, 0) \in A2RPackets /\ ~Carries(Packet("CONNECT", i, 0), i)
      BY PacketTypes DEF Packet, Carries
    <3> QED  BY <1>16, <3>1, RingSteps
  <2>2. Unborn(i)  BY <1>6, <1>16 DEF Unborn
  <2>3. Still(i)
    <3>1. EndsMore(StreamState(i)', StreamState(i))  BY <1>13 DEF EndsMore
    <3> QED  BY <1>5, <1>13, <1>14, <1>16, <2>1, <2>2, <3>1 DEF Still
  <2>4. Piping(i)'  BY <2>3, StillPipes
  <2> QED  BY <1>13, <1>16, <2>4 DEF OutStep
<1>17. CASE /\ "WRITE" \in s.pend /\ send("DATA", Len(wrote[i]) + 1)
            /\ wrote' = [wrote EXCEPT ![i] = Append(@, Len(@) + 1)]
            /\ sock' = [sock EXCEPT ![i].pend = @ \ {"WRITE"}]
  <2> DEFINE t == [s EXCEPT !.pend = @ \ {"WRITE"}]
  <2>1. sock' = [sock EXCEPT ![i] = t]  BY <1>7, <1>17, Zenon
  <2>2. s.state = "open"  BY <1>10, <1>17
  <2>3. t.state = "open" /\ t.flags = s.flags /\ t.rq = s.rq /\ t.pend = s.pend \ {"WRITE"}
    BY <1>7, <2>2 DEF Socket
  <2>4. "CONNECT" \notin s.pend /\ Len(wrote[i]) < DataOf(i)  BY <1>8, <1>9, <1>17
  <2>5. "RCVD_EOS_FROM_APP" \notin s.flags  BY <1>7, <1>17 DEF ToPi, WriterInv, WriteWaits
  <2> HIDE DEF t, s
  <2>6. /\ wrote' = [wrote EXCEPT ![i] = Append(@, Len(@) + 1)]
        /\ a2r' = Append(a2r, Packet("DATA", i, Len(wrote[i]) + 1))
    BY <1>17
  <2> QED  BY <1>5, <1>14, <2>1, <2>2, <2>3, <2>4, <2>5, <2>6, DataSent DEF s
<1>18. CASE "EOS" \in s.pend /\ send("EOS", 0) /\ EosSent(i, s)
  <2>1. /\ "CONNECT" \notin s.pend /\ "WRITE" \notin s.pend /\ s.state = "open"
        /\ "SENT_EOS_TO_RPI" \notin s.flags
    BY <1>7, <1>9, <1>10, <1>18 DEF SockInv
  <2> QED  BY <1>5, <1>14, <1>18, <2>1, EndSent
<1>19. CASE /\ s.state = "closed" /\ send("RESET", 0)
            /\ sock' = [sock EXCEPT ![i] = Free] /\ UNCHANGED wrote
  <2>1. SameFor(i, a2r', a2r) /\ ("CONNECT" \in A2RKinds(i)' => "CONNECT" \in A2RKinds(i))
    <3>1. /\ Packet("RESET", i, 0) \in A2RPackets /\ ~Carries(Packet("RESET", i, 0), i)
          /\ Packet("RESET", i, 0).type # "CONNECT"
      BY PacketTypes DEF Packet, Carries
    <3>2. a2r' \in {a2r, Append(a2r, Packet("RESET", i, 0))}  BY <1>19
    <3> QED  BY <1>19, <3>1, <3>2, RingSteps, ConnectStays
  <2>2. sock'[i] = Free /\ Free.pend = {} /\ Free.state # "open"  BY <1>7, <1>19 DEF Free
  <2>3. NewInv(i)'
    <3>1. ~(i >= next')  BY <1>3, <1>5, <1>6 DEF Ids
    <3>2. Unborn(i)' => Unborn(i)  BY <2>1, <2>2, <3>1 DEF Unborn
    <3>3. NewInv(i)  BY Known
    <3> QED  BY <1>5, <1>13, <1>19, <3>2, <3>3 DEF NewInv
  <2>4. ToPi(i, Free, a2r', wrote[i], chan[i], Heard[i])
    <3>1. WritesLess(Free, s)  BY <2>2 DEF WritesLess, WriteWaits
    <3> QED  BY <1>7, <2>1, <3>1, PiKept
  <2>5. ToAmiga(i, StreamState(i), Way(i)', Sent[i], chan[i], Free, seen[i])
    <3>1. EndsMore(StreamState(i), StreamState(i))  BY DEF EndsMore
    <3> QED  BY <1>14, <2>2, <3>1, Known, AmigaLost
  <2>6. Piping(i)'  BY <1>5, <1>13, <1>19, <2>2, <2>3, <2>4, <2>5, PipingAfter
  <2> QED  BY <1>13, <1>19, <2>6 DEF OutStep
<1> QED  BY <1>11, <1>16, <1>17, <1>18, <1>19

\* What the driver leaves when it takes a packet from R2A.
LEMMA ReceiveLeaves ==
    ASSUME Good, DriverReceive, NEW i \in Ids, i = Head(r2a).id
    PROVE  /\ \A j \in Ids \ {i} : Piping(j)'
           /\ OneStream' /\ DriverLeaves(i) /\ ~Unborn(i)
           /\ Shorter(Way(i)', Way(i)) /\ Way(i)[1] = Head(r2a)
           /\ ~Carries(Head(r2a), i) => SameFor(i, Way(i)', Way(i))
           /\ Head(r2a) \in R2APackets(Ids) /\ wrote' = wrote
<1>1. /\ r2a # <<>> /\ r2a' = Tail(r2a) /\ next' = next /\ chan' = chan /\ streams' = streams
      /\ wrote' = wrote
  BY DEF DriverReceive, piVars
<1>2. Head(r2a) \in R2APackets(Ids)
  <2>1. r2a \in Seq(R2APackets(Ids))  BY DEF Good, TypeInv, TypeOK
  <2> QED  BY <1>1, <2>1, HeadTailProperties
<1>3. DriverReady /\ Fitting(i, R2AKinds(i), chan[i], StreamState(i)) /\ next \in Nat
  BY Ready DEF Good
<1> DEFINE Q == R2AKinds(i)'
           k == Kind(Head(r2a))
<1>4. Tells(i, Q) /\ R2AKinds(i) = Q \cup {k} /\ (k \in Answers => Q \cap Answers = {})
  <2>1. TypeOK /\ \A j \in Ids : R2AOrder(j)  BY DEF Good, AllFit, Conn, TypeInv
  <2> QED  BY <1>1, <2>1, TellsLess
<1>5. ~Unborn(i) /\ i < next  BY <1>4, Born
<1>6. DriverDid(i, Q, chan[i], StreamState(i))
  <2> HIDE DEF Q
  <2> QED  BY <1>3, <1>4, DriverReceives DEF k
<1>7. Sends(i)
  <2>1. a2r' = a2r \/ \E b \in BOOLEAN : CloseSocket(i, b)
    BY DEF DriverReceive, DriverHandle, GiveData, GiveEos
  <2>2. Packet("RESET", i, 0) \in A2RPackets /\ Packet("RESET", i, 0).id = i
    BY PacketTypes DEF Packet
  <2>3. CASE a2r' = a2r  BY <2>2, <2>3 DEF Sends
  <2>4. CASE \E b \in BOOLEAN : CloseSocket(i, b)  BY <2>4, ClosingSends
  <2> QED  BY <2>1, <2>3, <2>4
<1>8. PICK p \in A2RPackets : p.id = i /\ a2r' \in {a2r, Append(a2r, p)}  BY <1>7 DEF Sends
<1>9. \A j \in Ids \ {i} : wrote'[j] = wrote[j] /\ seen'[j] = seen[j]
  <2>1. seen \in [Ids -> Seq(0 .. MaxData)]  BY DEF Good, TypeInv, TypeOK
  <2>2. seen' = seen \/ \E x : seen' = [seen EXCEPT ![i] = Append(@, x)]
    BY DEF DriverReceive, DriverHandle, GiveData, GiveEos
  <2> QED  BY <1>1, <2>1, <2>2
<1>10. /\ \A j \in Ids \ {i} : Piping(j)'
       /\ OneStream' /\ Heard' = Heard /\ Sent' = Sent
       /\ StreamState(i)' = StreamState(i) /\ (NoStream(i) => NoStream(i)')
  <2>1. UNCHANGED <<chan, streams>> /\ next' \in {next, next + 1} /\ i < next'
    BY <1>1, <1>5
  <2>2. r2a # <<>> /\ r2a' = Tail(r2a) /\ Head(r2a).id = i  BY <1>1
  <2> QED  BY <1>6, <1>8, <1>9, <2>1, <2>2, DriverElsewhere
<1>11. /\ Shorter(Way(i)', Way(i)) /\ Way(i)[1] = Head(r2a)
       /\ ~Carries(Head(r2a), i) => SameFor(i, Way(i)', Way(i))
  BY <1>1, WaySteps
<1> QED  BY <1>1, <1>2, <1>5, <1>10, <1>11 DEF DriverLeaves

\* The driver drops a packet, or the CONNECT is answered.
LEMMA IgnoredPipes ==
    ASSUME Good, NEW i \in Ids, DriverLeaves(i), NEW p, p.id = i, Ignored(p), Shorter(Way(i)', Way(i)),
           ~Carries(p, i) => SameFor(i, Way(i)', Way(i)),
           UNCHANGED <<sock, sendq, a2r, wrote, seen>>
    PROVE  Piping(i)'
<1>1. Unborn(i)' => Unborn(i)
  <2>1. A2RKinds(i)' = A2RKinds(i) /\ Turn(i)' = Turn(i)  BY DEF A2RKinds, Turn
  <2> QED  BY <2>1 DEF Unborn, DriverLeaves
<1>2. CASE sock[i].state = "open"
  <2>1. SameFor(i, Way(i)', Way(i))  BY <1>2 DEF Ignored, Carries
  <2>2. WritesLess(sock'[i], sock[i]) /\ ReadsLess(sock'[i], sock[i])
    BY DEF WritesLess, ReadsLess
  <2> QED  BY <1>1, <2>1, <2>2, Unmoved
<1>3. CASE sock[i].state # "open"
  <2>1. sock[i].state # "open" /\ "READ" \notin sock[i].pend
    <3>1. SockInv(sock[i]) /\ sock[i].state \in {"free", "open", "closed"}
      BY Known, SocketTypes
    <3> QED  BY <1>3, <3>1 DEF SockInv, Free
  <2>2. NewInv(i)'
    <3>1. NewInv(i)  BY Known
    <3> QED  BY <1>1, <3>1 DEF NewInv, DriverLeaves
  <2>3. ToPi(i, sock[i], a2r, wrote[i], chan[i], Heard[i])  BY Known
  <2>4. ToAmiga(i, StreamState(i), Way(i)', Sent[i], chan[i], sock[i], seen[i])
    <3>1. EndsMore(StreamState(i), StreamState(i))  BY DEF EndsMore
    <3> QED  BY <2>1, <3>1, Known, AmigaLost
  <2> QED  BY <2>2, <2>3, <2>4, PipingAfter DEF DriverLeaves
<1> QED  BY <1>2, <1>3

\* What the driver does with a packet p of the stream that comes to an open socket.
LEMMA SocketTakes ==
    ASSUME Good, NEW i \in Ids, DriverLeaves(i), ~Unborn(i),
           sock[i].state = "open", NEW t, sock' = [sock EXCEPT ![i] = t],
           t.state = "open", t.flags = sock[i].flags \/ t.flags = sock[i].flags \cup {"RCVD_EOS_FROM_RPI"},
           t.pend = sock[i].pend \/ t.pend = sock[i].pend \ {"READ"},
           UNCHANGED <<sendq, a2r, wrote>>,
           ToAmiga(i, StreamState(i), Way(i)', Sent[i], chan[i], t, seen'[i])
    PROVE  Piping(i)'
<1>1. sock'[i] = t /\ ToPi(i, sock[i], a2r, wrote[i], chan[i], Heard[i])  BY Known
<1>2. ToPi(i, t, a2r', wrote[i], chan[i], Heard[i])
  <2>1. SameFor(i, a2r', a2r)  BY SameAfter
  <2>2. WritesLess(t, sock[i])  BY DEF WritesLess, WriteWaits
  <2> QED  BY <1>1, <2>1, <2>2, PiKept
<1>3. ~Unborn(i)'
  <2>1. A2RKinds(i)' = A2RKinds(i) /\ Turn(i)' = Turn(i)  BY DEF A2RKinds, Turn
  <2> QED  BY <1>1, <2>1 DEF Unborn, DriverLeaves
<1> QED  BY <1>1, <1>2, <1>3, PipingAfter DEF NewInv, DriverLeaves

LEMMA DataComes ==
    ASSUME Good, NEW i \in Ids, DriverLeaves(i), ~Unborn(i), NEW p \in R2APackets(Ids),
           p.id = i, p.type = "DATA", Shorter(Way(i)', Way(i)), Way(i)[1] = p,
           sock[i].state = "open", wrote' = wrote,
           LET s == sock[i]
           IN \/ "READ" \in s.pend /\ GiveData(i, p.x, [s EXCEPT !.pend = @ \ {"READ"}])
              \/ /\ "READ" \notin s.pend
                 /\ sock' = [sock EXCEPT ![i].rq = Append(@, p.x)]
                 /\ UNCHANGED <<sendq, a2r, seen>>
    PROVE  Piping(i)' /\ InStep
<1> DEFINE s == sock[i]
           x == p.x
<1>1. s \in Socket /\ sock \in [Ids -> Socket] /\ s.rq \in Seq(1 .. MaxData)
      /\ ToAmiga(i, StreamState(i), Way(i), Sent[i], chan[i], s, seen[i])
  BY Known, SocketTypes
<1>2. /\ Len(Sent[i]) \in Nat /\ Len(seen[i]) \in Nat /\ seen[i] \in Seq(0 .. MaxData)
      /\ seen \in [Ids -> Seq(0 .. MaxData)]
  BY HistoryTyped DEF Good, TypeInv, TypeOK
<1>3. Carries(Way(i)[1], i) /\ Piece(Way(i)[1]) = x /\ x \in 1 .. MaxData /\ x \in 0 .. MaxData
  BY PacketOfChannel, ChannelAssumption DEF Carries, Piece
<1>4. CASE "READ" \in s.pend /\ GiveData(i, p.x, [s EXCEPT !.pend = @ \ {"READ"}])
  <2> DEFINE t == [s EXCEPT !.pend = @ \ {"READ"}]
             new == Append(seen[i], x)
  <2>1. t.state = "open" /\ t.flags = s.flags /\ t.rq = s.rq /\ t.pend = s.pend \ {"READ"}
    BY <1>1 DEF Socket
  <2>2. /\ sock' = [sock EXCEPT ![i] = t] /\ UNCHANGED <<sendq, a2r>>
        /\ seen' = [seen EXCEPT ![i] = Append(@, x)]
    BY <1>4 DEF GiveData
  <2>3. seen'[i] = new /\ Longer(new, seen[i], x)  BY <1>2, <1>3, <2>2, LongerAppend
  <2> HIDE DEF t, new, x, s
  <2>4. /\ ToAmiga(i, StreamState(i), Way(i)', Sent[i], chan[i], t, new)
        /\ Len(seen[i]) < Len(Sent[i]) /\ Sent[i][Len(seen[i]) + 1] = Piece(Way(i)[1])
    <3>1. "READ" \in s.pend /\ s.state = "open"  BY <1>4 DEF s
    <3>2. Longer(new, seen[i], Piece(Way(i)[1])) /\ "READ" \notin t.pend /\ t.rq = s.rq
          /\ t.flags = s.flags
      BY <1>3, <2>1, <2>3
    <3>3. Len(Sent[i]) \in Nat /\ Len(seen[i]) \in Nat /\ Carries(Way(i)[1], i)  BY <1>2, <1>3
    <3>4. ToAmiga(i, StreamState(i), Way(i), Sent[i], chan[i], s, seen[i])  BY <1>1
    <3>5. Shorter(Way(i)', Way(i))  OBVIOUS
    <3>6. PICK r : r = Way(i)'  OBVIOUS
    <3>7. Shorter(r, Way(i))  BY <3>5, <3>6
    <3>8. ASSUME NEW st, NEW q, NEW c, NEW read, NEW src,
                 ToAmiga(i, st, q, src, c, s, read), Len(src) \in Nat, Len(read) \in Nat,
                 Shorter(r, q), Carries(q[1], i), Longer(new, read, Piece(q[1]))
          PROVE  ToAmiga(i, st, r, src, c, t, new)
      BY <3>1, <3>2, <3>8, AmigaGiven
    <3>9. Len(seen[i]) < Len(Sent[i]) /\ Sent[i][Len(seen[i]) + 1] = Piece(Way(i)[1])
      <4>1. s.rq = <<>>  BY <3>1, <3>4, ReaderParts DEF ToAmiga, ReadWaits
      <4>2. Reached(s, seen[i]) = Len(seen[i])
        <5>1. Len(s.rq) = 0  BY <4>1
        <5> QED  BY <3>3, <5>1 DEF Reached
      <4>3. Reached(s, seen[i]) \in Nat  BY <3>3, <4>2
      <4>4. Comes(i, Way(i), r, Sent[i], chan[i], s, Reached(s, seen[i]))
        BY <3>1, <3>3, <3>4, <3>7, <4>3, NextPiece
      <4> QED  BY <4>2, <4>4, Zenon DEF Comes
    <3> QED  BY <3>2, <3>3, <3>4, <3>6, <3>7, <3>8, <3>9
  <2>5. Piping(i)'
    <3>1. ToAmiga(i, StreamState(i), Way(i)', Sent[i], chan[i], t, seen'[i])  BY <2>3, <2>4
    <3>2. UNCHANGED <<sendq, a2r, wrote>>  BY <2>2
    <3> QED  BY <2>1, <2>2, <3>1, <3>2, SocketTakes DEF s
  <2>6. InStep  BY <1>3, <2>2, <2>4, InTake DEF DriverLeaves
  <2> QED  BY <2>5, <2>6
<1>5. CASE /\ "READ" \notin s.pend /\ sock' = [sock EXCEPT ![i].rq = Append(@, p.x)]
           /\ UNCHANGED <<sendq, a2r, seen>>
  <2> DEFINE q == Append(s.rq, x)
             t == [s EXCEPT !.rq = q]
  <2>1. t.state = "open" /\ t.flags = s.flags /\ t.rq = q /\ t.pend = s.pend
    BY <1>1 DEF Socket
  <2>2. sock' = [sock EXCEPT ![i] = t]  BY <1>1, <1>5, Zenon
  <2>3. Longer(q, s.rq, x)  BY <1>1, <1>3, LongerAppend
  <2> HIDE DEF q, t, s, x
  <2>4. ToAmiga(i, StreamState(i), Way(i)', Sent[i], chan[i], t, seen[i])
    <3>1. Longer(t.rq, s.rq, Piece(Way(i)[1])) /\ t.flags = s.flags /\ "READ" \notin t.pend
      BY <1>3, <1>5, <2>1, <2>3
    <3>2. Len(Sent[i]) \in Nat /\ Len(seen[i]) \in Nat /\ Carries(Way(i)[1], i)  BY <1>2, <1>3
    <3>3. s.state = "open" /\ ToAmiga(i, StreamState(i), Way(i), Sent[i], chan[i], s, seen[i])
      BY <1>1 DEF s
    <3> QED  BY <3>1, <3>2, <3>3, AmigaQueued
  <2>5. seen' = seen /\ UNCHANGED <<sendq, a2r, wrote>>  BY <1>5
  <2>6. Piping(i)'  BY <2>1, <2>2, <2>4, <2>5, SocketTakes DEF s
  <2> QED  BY <2>5, <2>6 DEF InStep, DriverLeaves
<1> QED  BY <1>4, <1>5

LEMMA EosComes ==
    ASSUME Good, NEW i \in Ids, DriverLeaves(i), ~Unborn(i), NEW p \in R2APackets(Ids),
           p.id = i, p.type = "EOS", Shorter(Way(i)', Way(i)), Way(i)[1] = p,
           sock[i].state = "open", wrote' = wrote,
           LET s == sock[i]
           IN \/ "READ" \in s.pend /\ GiveEos(i, s.flags \cup {"RCVD_EOS_FROM_RPI"})
              \/ /\ "READ" \notin s.pend
                 /\ sock' = [sock EXCEPT ![i].flags = @ \cup {"RCVD_EOS_FROM_RPI"}]
                 /\ UNCHANGED <<sendq, a2r, seen>>
    PROVE  Piping(i)' /\ InStep
<1> DEFINE s == sock[i]
           f == s.flags \cup {"RCVD_EOS_FROM_RPI"}
           u == [s EXCEPT !.flags = f, !.pend = @ \ {"READ"}]
<1>1. /\ s \in Socket /\ sock \in [Ids -> Socket] /\ SockInv(s) /\ Reached(s, seen[i]) \in Nat
      /\ ToAmiga(i, StreamState(i), Way(i), Sent[i], chan[i], s, seen[i])
  BY Known
<1>2. Len(Sent[i]) \in Nat  BY HistoryTyped DEF Good, TypeInv
<1>3. Carries(Way(i)[1], i) /\ Way(i)[1].type = "EOS"  BY DEF Carries
<1>4. u.state = "open" /\ u.rq = s.rq /\ u.flags = f /\ u.pend = s.pend \ {"READ"}
  BY <1>1 DEF Socket
<1> HIDE DEF u
<1>5. ToAmiga(i, StreamState(i), Way(i)', Sent[i], chan[i], u, seen[i])
  <2> HIDE DEF s
  <2>1. s.state = "open" /\ "READ" \notin u.pend  BY <1>4 DEF s
  <2>2. ToAmiga(i, StreamState(i), Way(i), Sent[i], chan[i], s, seen[i])
        /\ Reached(s, seen[i]) \in Nat
    BY <1>1
  <2> QED  BY <1>2, <1>3, <1>4, <2>1, <2>2, AmigaEnds
<1>6. CASE "READ" \in s.pend /\ GiveEos(i, f)
  <2>1. s.rq = <<>> /\ "RCVD_EOS_FROM_RPI" \notin s.flags
    BY <1>1, <1>6, ReaderParts DEF ToAmiga, ReadWaits
  <2>2. "SENT_EOS_TO_APP" \notin s.flags  BY <1>1, <2>1 DEF SockInv
  <2>3. GiveEos(i, u.flags) /\ u.rq = <<>> /\ "RCVD_EOS_FROM_RPI" \in u.flags
        /\ "SENT_EOS_TO_APP" \notin u.flags
    BY <1>4, <1>6, <2>1, <2>2
  <2>4. /\ "RCVD_EOS_FROM_APP" \in u.flags <=> "RCVD_EOS_FROM_APP" \in s.flags
        /\ "SENT_EOS_TO_RPI" \in u.flags <=> "SENT_EOS_TO_RPI" \in s.flags
    BY <1>4
  <2> QED  BY <1>4, <1>5, <2>1, <2>3, <2>4, GivingEos
<1>7. CASE /\ "READ" \notin s.pend
           /\ sock' = [sock EXCEPT ![i].flags = @ \cup {"RCVD_EOS_FROM_RPI"}]
           /\ UNCHANGED <<sendq, a2r, seen>>
  <2>1. u = [s EXCEPT !.flags = f]
    <3>1. s.pend \ {"READ"} = s.pend  BY <1>7
    <3> QED  BY <1>1, <3>1 DEF u, Socket
  <2>2. sock' = [sock EXCEPT ![i] = u]  BY <1>1, <1>7, <2>1, Zenon
  <2>3. seen' = seen /\ UNCHANGED <<sendq, a2r, wrote>>  BY <1>7
  <2>4. Piping(i)'  BY <1>4, <1>5, <2>2, <2>3, SocketTakes
  <2> QED  BY <2>3, <2>4 DEF InStep, DriverLeaves
<1> QED  BY <1>6, <1>7

\* handle_packets_received_r2a.
LEMMA DriverReceivePipes ==
    ASSUME Good, DriverReceive
    PROVE  Flows' /\ OutStep /\ InStep
<1> DEFINE p == Head(r2a)
<1>1. PICK i \in Ids : i = p.id
  <2>1. r2a # <<>> /\ r2a \in Seq(R2APackets(Ids))  BY DEF DriverReceive, Good, TypeInv, TypeOK
  <2>2. Head(r2a) \in R2APackets(Ids)  BY <2>1, HeadTailProperties
  <2> QED  BY <2>2, PacketOfChannel
<1>2. /\ \A j \in Ids \ {i} : Piping(j)'
      /\ OneStream' /\ DriverLeaves(i) /\ ~Unborn(i)
      /\ Shorter(Way(i)', Way(i)) /\ Way(i)[1] = p
      /\ ~Carries(p, i) => SameFor(i, Way(i)', Way(i))
      /\ p \in R2APackets(Ids) /\ wrote' = wrote
  BY <1>1, ReceiveLeaves
<1>3. \/ Ignored(p) /\ UNCHANGED <<sock, sendq, a2r, seen>>
      \/ ~Ignored(p) /\ DriverHandle(p)
  BY DEF DriverReceive
<1> HIDE DEF p
<1>4. OutStep  BY <1>2 DEF OutStep, DriverLeaves
<1>5. seen' = seen => InStep  BY <1>2 DEF InStep, DriverLeaves
<1>6. ASSUME CloseSocket(i, TRUE) \/ CloseSocket(i, FALSE), seen' = seen
      PROVE  Piping(i)' /\ InStep
  <2>1. CASE CloseSocket(i, TRUE)
    <3>1. wrote'[i] = wrote[i] /\ Shorter(Way(i)', Way(i)) /\ ~Unborn(i) /\ DriverLeaves(i)  BY <1>2
    <3>2. Piping(i)'  BY <2>1, <3>1, Closing
    <3> QED  BY <1>5, <1>6, <3>2
  <2>2. CASE CloseSocket(i, FALSE)
    <3>1. wrote'[i] = wrote[i] /\ Shorter(Way(i)', Way(i)) /\ ~Unborn(i) /\ DriverLeaves(i)  BY <1>2
    <3>2. Piping(i)'  BY <2>2, <3>1, Closing
    <3> QED  BY <1>5, <1>6, <3>2
  <2> QED  BY <1>6, <2>1, <2>2, Zenon
<1>7. CASE Ignored(p) /\ UNCHANGED <<sock, sendq, a2r, seen>>
  <2>1. Piping(i)'  BY <1>1, <1>2, <1>7, IgnoredPipes
  <2> QED  BY <1>2, <1>4, <1>5, <1>7, <2>1 DEF Flows
<1>8. CASE DriverHandle(p)
  <2> SUFFICES Piping(i)' /\ InStep  BY <1>2, <1>4 DEF Flows
  <2>1. CASE p.type = "RESET" /\ CloseSocket(i, FALSE) /\ UNCHANGED seen
    BY <1>6, <2>1
  <2>2. CASE /\ p.type = "RESPONSE" /\ Open(i) /\ "CONNECT" \in sock[i].pend
             /\ sock' = [sock EXCEPT ![i].pend = @ \ {"CONNECT"}]
             /\ UNCHANGED <<sendq, a2r, seen>>
    <3> DEFINE s == sock[i]
               t == [s EXCEPT !.pend = @ \ {"CONNECT"}]
    <3>1. s \in Socket /\ sock \in [Ids -> Socket]  BY Known
    <3>2. t.state = s.state /\ t.flags = s.flags /\ t.rq = s.rq /\ t.pend = s.pend \ {"CONNECT"}
      BY <3>1 DEF Socket
    <3>3. sock' = [sock EXCEPT ![i] = t]  BY <2>2, <3>1, Zenon
    <3> HIDE DEF t, s
    <3>4. sock'[i] = t  BY <3>1, <3>3
    <3>5. WritesLess(t, s) /\ ReadsLess(t, s)
      BY <3>2 DEF WritesLess, WriteWaits, ReadsLess, ReadWaits
    <3>6. Unborn(i)' => Unborn(i)
      <4>1. "CONNECT" \notin sock'[i].pend  BY <3>2, <3>4
      <4>2. A2RKinds(i)' = A2RKinds(i)  BY <2>2 DEF A2RKinds
      <4> QED  BY <1>2, <4>1, <4>2 DEF Unborn, DriverLeaves
    <3>7. SameFor(i, Way(i)', Way(i))  BY <1>2, <2>2 DEF Carries
    <3>8. Piping(i)'
      <4>1. WritesLess(sock'[i], sock[i]) /\ ReadsLess(sock'[i], sock[i])
        BY <3>4, <3>5, Zenon DEF s
      <4>2. a2r' = a2r /\ wrote'[i] = wrote[i] /\ seen'[i] = seen[i] /\ DriverLeaves(i)
        BY <1>2, <2>2
      <4> QED  BY <3>6, <3>7, <4>1, <4>2, Unmoved
    <3> QED  BY <1>5, <2>2, <3>8
  <2>3. CASE p.type = "RESPONSE" /\ CloseSocket(i, FALSE) /\ UNCHANGED seen
    BY <1>6, <2>3
  <2>4. CASE /\ p.type = "DATA" /\ Open(i)
             /\ \/ "READ" \in sock[i].pend /\ GiveData(i, p.x, [sock[i] EXCEPT !.pend = @ \ {"READ"}])
                \/ /\ "READ" \notin sock[i].pend
                   /\ sock' = [sock EXCEPT ![i].rq = Append(@, p.x)]
                   /\ UNCHANGED <<sendq, a2r, seen>>
    <3>1. /\ p.id = i /\ p \in R2APackets(Ids) /\ sock[i].state = "open"
          /\ Shorter(Way(i)', Way(i)) /\ Way(i)[1] = p /\ wrote' = wrote
      BY <1>1, <1>2, <2>4 DEF Open
    <3> QED  BY <1>2, <2>4, <3>1, DataComes, Zenon
  <2>5. CASE CloseSocket(i, TRUE) /\ UNCHANGED seen  BY <1>6, <2>5
  <2>6. CASE /\ p.type = "EOS" /\ Open(i)
             /\ \/ "READ" \in sock[i].pend /\ GiveEos(i, sock[i].flags \cup {"RCVD_EOS_FROM_RPI"})
                \/ /\ "READ" \notin sock[i].pend
                   /\ sock' = [sock EXCEPT ![i].flags = @ \cup {"RCVD_EOS_FROM_RPI"}]
                   /\ UNCHANGED <<sendq, a2r, seen>>
    <3>1. /\ p.id = i /\ p \in R2APackets(Ids) /\ sock[i].state = "open"
          /\ Shorter(Way(i)', Way(i)) /\ Way(i)[1] = p /\ wrote' = wrote
      BY <1>1, <1>2, <2>6 DEF Open
    <3> QED  BY <1>2, <2>6, <3>1, EosComes, Zenon
  <2>7. p.id = i  BY <1>1
  <2> QED  BY <1>8, <2>1, <2>2, <2>3, <2>4, <2>5, <2>6, <2>7 DEF DriverHandle
<1> QED  BY <1>3, <1>7, <1>8

-----------------------------------------------------------------------------
\* The steps of the Pi.

\* All connections but i stay as they are.
LEMMA PiElsewhere ==
    ASSUME Good, NEW i \in Ids, UNCHANGED <<sock, sendq, next, wrote, seen>>,
           NEW B, PiDid(i, B), Says(i, B),
           \A j \in Ids \ {i} : /\ Heard'[j] = Heard[j] /\ Sent'[j] = Sent[j]
                                /\ NoStream(j) => NoStream(j)',
           a2r' = a2r \/ (a2r # <<>> /\ a2r' = Tail(a2r) /\ Head(a2r).id = i),
           NEW p \in R2APackets(Ids), p.id = i, r2a' \in {r2a, Append(r2a, p)}
    PROVE  \A j \in Ids \ {i} : Piping(j)'
<1>1. ASSUME NEW j \in Ids \ {i} PROVE Still(j)
  <2>1. SameFor(j, a2r', a2r)
    <3>1. Packet("RESET", i, 0) \in A2RPackets  BY PacketTypes
    <3>2. a2r' # a2r => ~Carries(Head(a2r), j)  BY <1>1 DEF Carries
    <3> QED  BY <3>1, <3>2, RingSteps
  <2>2. chan'[j] = chan[j] /\ StreamState(j)' = StreamState(j) /\ A2RKinds(j)' = A2RKinds(j)
    BY <1>1 DEF PiDid, Says
  <2>3. SameFor(j, Way(j)', Way(j))
    <3>1. r2a \in Seq(R2APackets(Ids)) /\ chan[j].pq \in Seq(R2APackets(Ids))  BY <1>1, Known
    <3>2. ~Carries(p, j)  BY <1>1 DEF Carries
    <3>3. CASE r2a' = r2a
      <4>1. Way(j)' = Way(j)  BY <2>2, <3>3 DEF Way
      <4> QED  BY <4>1, SameAfter
    <3>4. CASE r2a' = Append(r2a, p)
      <4>1. Way(j)' = Append(r2a, p) \o chan[j].pq  BY <2>2, <3>4 DEF Way
      <4>2. SameFor(j, Append(r2a, p) \o chan[j].pq, r2a \o chan[j].pq)
        BY <3>1, <3>2, WayPassed
      <4> QED  BY <4>1, <4>2 DEF Way
    <3> QED  BY <3>3, <3>4
  <2>4. Unborn(j)' => Unborn(j)  BY <2>2 DEF Unborn, Turn
  <2>5. EndsMore(StreamState(j)', StreamState(j))  BY <2>2 DEF EndsMore
  <2>6. /\ Heard'[j] = Heard[j] /\ Sent'[j] = Sent[j] /\ (NoStream(j) => NoStream(j)')
        /\ sock'[j] = sock[j] /\ wrote'[j] = wrote[j] /\ seen'[j] = seen[j]
    BY <1>1
  <2> QED  BY <2>1, <2>2, <2>3, <2>4, <2>5, <2>6 DEF Still
<1> QED  BY <1>1, StillPipes

\* What a step of the Pi makes of its connection.
LEMMA PiAfter ==
    ASSUME Good, NEW i \in Ids, UNCHANGED <<sock, sendq, next, wrote, seen>>,
           A2RKinds(i)' \subseteq A2RKinds(i), NoStream(i) => NoStream(i)',
           ToPi(i, sock[i], a2r', wrote[i], chan'[i], Heard'[i]),
           ToAmiga(i, StreamState(i)', Way(i)', Sent'[i], chan'[i], sock[i], seen[i])
    PROVE  Piping(i)'
<1>1. Unborn(i)' => Unborn(i)  BY DEF Unborn, Turn
<1>2. NewInv(i)'
  <2>1. NewInv(i)  BY Known
  <2> QED  BY <1>1, <2>1 DEF NewInv
<1> QED  BY <1>2, PipingAfter

\* A connection that is handed on, with nothing of its streams.
LEMMA StillAfter ==
    ASSUME Good, NEW i \in Ids, UNCHANGED <<sock, sendq, next, wrote, seen>>,
           A2RKinds(i)' \subseteq A2RKinds(i), NoStream(i) => NoStream(i)',
           SameFor(i, a2r', a2r), SameFor(i, Way(i)', Way(i)),
           Heard'[i] = Heard[i], Sent'[i] = Sent[i],
           Listens(chan'[i]) => Listens(chan[i]), chan'[i].stream # 0 => chan[i].stream # 0,
           EndsMore(StreamState(i)', StreamState(i))
    PROVE  Piping(i)'
<1>1. Unborn(i)' => Unborn(i)  BY DEF Unborn, Turn
<1> QED  BY <1>1, StillPipes DEF Still

\* handle_received_pkt for a packet of connection i, what it does in any case ...
PiTook(i) ==
    /\ UNCHANGED <<sock, sendq, next, wrote, seen, r2a>>
    /\ a2r # <<>> /\ a2r' = Tail(a2r) /\ Head(a2r).id = i /\ Head(a2r) \in A2RPackets
    /\ Shorter(a2r', a2r) /\ a2r[1] = Head(a2r)
    /\ ~Carries(Head(a2r), i) => SameFor(i, a2r', a2r)
    /\ \E B : Says(i, B) /\ PiDid(i, B)
    /\ A2RKinds(i)' \subseteq A2RKinds(i) /\ "CONNECT" \notin A2RKinds(i)'
    /\ i < next /\ Head(a2r).type \in A2RKinds(i)

LEMMA PiTakes ==
    ASSUME Good, PiReceive, NEW i \in Ids, i = Head(a2r).id
    PROVE  PiTook(i)
<1>1. a2r # <<>> /\ a2r \in Seq(A2RPackets) /\ a2r' = Tail(a2r)
  BY DEF PiReceive, Good, TypeInv, TypeOK
<1>2. Head(a2r) \in A2RPackets  BY <1>1, HeadTailProperties
<1>3. TypeInv /\ AllFit /\ PiReady /\ PiFits(i, A2RKinds(i))  BY Ready DEF Good
<1>4. UNCHANGED <<sock, sendq, next, wrote, seen, r2a>>  BY DEF PiReceive, driverVars
<1> DEFINE B == A2RKinds(i)'
           k == Head(a2r).type
<1>5. /\ Says(i, B) /\ A2RKinds(i) = B \cup {k}
      /\ "CONNECT" \notin B /\ (k = "EOS" => "EOS" \notin B)
  <2>1. TypeOK /\ \A j \in Ids : A2ROrder(j)  BY <1>3 DEF AllFit, Conn, TypeInv
  <2> QED  BY <1>1, <2>1, SaysLess
<1>6. i < next  BY <1>3, <1>5, GivenOut
<1>7. PiDid(i, B)
  <2> HIDE DEF B
  <2> QED  BY <1>3, <1>5, PiReceives DEF k
<1>8. /\ Shorter(a2r', a2r) /\ a2r[1] = Head(a2r)
      /\ ~Carries(Head(a2r), i) => SameFor(i, a2r', a2r)
  BY <1>1, <1>2, RingSteps
<1>9. \E C : Says(i, C) /\ PiDid(i, C)
  <2> HIDE DEF B
  <2> QED  BY <1>5, <1>7
<1> QED  BY <1>1, <1>2, <1>4, <1>5, <1>6, <1>8, <1>9 DEF PiTook

\* ... the other connections stay, whatever it tells the client of this one.
LEMMA PiTookElsewhere ==
    ASSUME Good, NEW i \in Ids, PiTook(i),
           \A j \in Ids \ {i} : /\ Heard'[j] = Heard[j] /\ Sent'[j] = Sent[j]
                                /\ NoStream(j) => NoStream(j)'
    PROVE  \A j \in Ids \ {i} : Piping(j)'
<1>1. UNCHANGED <<sock, sendq, next, wrote, seen>>  BY DEF PiTook
<1>2. PICK B : Says(i, B) /\ PiDid(i, B)  BY DEF PiTook
<1>3. a2r # <<>> /\ a2r' = Tail(a2r) /\ Head(a2r).id = i  BY DEF PiTook
<1>4. PICK p \in R2APackets(Ids) : p.id = i
  <2>1. Packet("RESET", i, 0) \in R2APackets({i})  BY PacketTypes
  <2> QED  BY <2>1, PacketOfChannel
<1>5. r2a' \in {r2a, Append(r2a, p)}  BY DEF PiTook
<1> QED  BY <1>1, <1>2, <1>3, <1>4, <1>5, PiElsewhere

\* What a connection becomes when nothing is said of its stream.
LEMMA PiTookQuietly ==
    ASSUME Good, NEW i \in Ids, PiTook(i), ~Carries(Head(a2r), i),
           UNCHANGED <<chan, streams>>
    PROVE  Flows' /\ OutStep /\ InStep
<1>1. OneStream' /\ Heard' = Heard /\ Sent' = Sent /\ \A j : NoStream(j) => NoStream(j)'
  BY DEF Good, Flows, OneStream, Heard, Sent, NoStream
<1>2. \A j \in Ids \ {i} : Piping(j)'  BY <1>1, PiTookElsewhere
<1>3. Piping(i)'
  <2>1. UNCHANGED <<sock, sendq, next, wrote, seen>>  BY DEF PiTook
  <2>2. A2RKinds(i)' \subseteq A2RKinds(i) /\ SameFor(i, a2r', a2r)  BY DEF PiTook
  <2>3. Way(i)' = Way(i) /\ SameFor(i, Way(i)', Way(i))
    <3>1. Way(i)' = Way(i)  BY DEF Way, PiTook
    <3> QED  BY <3>1, SameAfter
  <2>4. EndsMore(StreamState(i)', StreamState(i))  BY DEF StreamState, EndsMore
  <2>5. /\ Heard'[i] = Heard[i] /\ Sent'[i] = Sent[i] /\ (NoStream(i) => NoStream(i)')
        /\ Listens(chan'[i]) => Listens(chan[i]) /\ (chan'[i].stream # 0 => chan[i].stream # 0)
    BY <1>1
  <2> QED  BY <2>1, <2>2, <2>3, <2>4, <2>5, StillAfter
<1> QED  BY <1>1, <1>2, <1>3 DEF Flows, OutStep, InStep, PiTook

\* handle_pkt_data and handle_pkt_eos: the client hears the next piece.
LEMMA PieceHeard ==
    ASSUME Good, NEW i \in Ids, PiTook(i), Carries(Head(a2r), i),
           chan[i].stream # 0, ~chan[i].eosAmi, Tell(chan[i].stream, Piece(Head(a2r))),
           chan'[i].pq = chan[i].pq, chan'[i].stream \in {0, chan[i].stream}
    PROVE  Flows' /\ OutStep /\ InStep
<1> DEFINE x == Piece(Head(a2r))
           c == chan[i]
           d == chan'[i]
<1>1. TypeOK /\ OneStream /\ OwnStream(i)  BY DEF Good, TypeInv, Flows, AllFit, Conn
<1>2. /\ OneStream' /\ Sent' = Sent
      /\ Heard' = [Heard EXCEPT ![i] = Append(@, x)] /\ Heard'[i] = Append(Heard[i], x)
      /\ \A j \in Ids \ {i} : Heard'[j] = Heard[j]
      /\ \A j : NoStream(j) => NoStream(j)'
  BY <1>1, HistoryTold
<1>3. /\ UNCHANGED <<sock, sendq, next, wrote, seen, r2a>> /\ Shorter(a2r', a2r)
      /\ a2r[1] = Head(a2r) /\ A2RKinds(i)' \subseteq A2RKinds(i) /\ Head(a2r) \in A2RPackets
  BY DEF PiTook
<1>4. x \in 0 .. MaxData
  BY <1>3, PacketOfChannel, ChannelAssumption DEF Carries, Piece, EOS
<1>5. Longer(Heard'[i], Heard[i], x) /\ Len(Heard[i]) \in Nat /\ Len(wrote[i]) \in Nat
  <2>1. Heard[i] \in Seq(0 .. MaxData) /\ Len(Heard[i]) \in Nat /\ Len(wrote[i]) \in Nat
    BY <1>1, HistoryTyped
  <2> QED  BY <1>2, <1>4, <2>1, LongerAppend
<1>6. a2r[1] = Head(a2r) /\ Carries(a2r[1], i) /\ x = Piece(a2r[1])  BY <1>3
<1> HIDE DEF x, c, d
<1>7. /\ ToPi(i, sock[i], a2r', wrote[i], d, Heard'[i])
      /\ Len(Heard[i]) < Len(wrote[i]) /\ x = wrote[i][Len(Heard[i]) + 1]
  <2>1. ToPi(i, sock[i], a2r, wrote[i], c, Heard[i])  BY Known DEF c
  <2>2. Listens(c)  BY DEF Listens, c
  <2>3. Shorter(a2r', a2r)  BY <1>3
  <2>4. ASSUME NEW new, Longer(new, Heard[i], Piece(a2r[1]))
        PROVE  ToPi(i, sock[i], a2r', wrote[i], d, new)
    BY <1>5, <1>6, <2>1, <2>2, <2>3, <2>4, PiHeard
  <2>5. Longer(Heard'[i], Heard[i], Piece(a2r[1]))  BY <1>5, <1>6
  <2>6. Len(Heard[i]) < Len(wrote[i]) /\ Piece(a2r[1]) = wrote[i][Len(Heard[i]) + 1]
    BY <1>5, <1>6, <2>1, <2>2, <2>3, PiHearsNext
  <2> QED  BY <1>6, <2>4, <2>5, <2>6
<1>8. ToAmiga(i, StreamState(i)', Way(i)', Sent[i], d, sock[i], seen[i])
  <2>1. Way(i)' = Way(i)  BY <1>3 DEF Way
  <2>2. SameFor(i, Way(i)', Way(i))  BY <2>1, SameAfter
  <2>3. EndsMore(StreamState(i)', StreamState(i))
    <3>1. streams'[chan[i].stream].state = streams[chan[i].stream].state
      BY <1>1, TellStreams DEF x
    <3> QED  BY <3>1 DEF EndsMore, StreamState
  <2>4. ReadsLess(sock[i], sock[i])  BY DEF ReadsLess
  <2>5. ToAmiga(i, StreamState(i), Way(i), Sent[i], c, sock[i], seen[i])  BY Known DEF c
  <2>6. c.stream # 0  BY DEF c
  <2> QED  BY <2>2, <2>3, <2>4, <2>5, <2>6, AmigaKept
<1>9. Piping(i)'
  <2>1. UNCHANGED <<sock, sendq, next, wrote, seen>> /\ Sent'[i] = Sent[i]  BY <1>2, <1>3
  <2>2. ToAmiga(i, StreamState(i)', Way(i)', Sent'[i], chan'[i], sock[i], seen[i])
    BY <1>8, <2>1, Zenon DEF d
  <2>3. ToPi(i, sock[i], a2r', wrote[i], chan'[i], Heard'[i])  BY <1>7, Zenon DEF d
  <2> QED  BY <1>2, <1>3, <2>1, <2>2, <2>3, PiAfter
<1>10. \A j \in Ids \ {i} : Piping(j)'  BY <1>2, PiTookElsewhere
<1>11. OutStep  BY <1>2, <1>3, <1>7, OutTake
<1>12. InStep  BY <1>2, <1>3 DEF InStep
<1> QED  BY <1>2, <1>9, <1>10, <1>11, <1>12 DEF Flows

\* A piece that comes to a channel that does not listen is dropped.
LEMMA PieceDropped ==
    ASSUME Good, NEW i \in Ids, PiTook(i), Carries(Head(a2r), i), ~Listens(chan[i]),
           UNCHANGED <<chan, streams>>
    PROVE  Flows' /\ OutStep /\ InStep
<1>1. OneStream' /\ Heard' = Heard /\ Sent' = Sent /\ \A j : NoStream(j) => NoStream(j)'
  BY DEF Good, Flows, OneStream, Heard, Sent, NoStream
<1>2. \A j \in Ids \ {i} : Piping(j)'  BY <1>1, PiTookElsewhere
<1>3. /\ UNCHANGED <<sock, sendq, next, wrote, seen, r2a>> /\ Shorter(a2r', a2r)
      /\ a2r[1] = Head(a2r) /\ A2RKinds(i)' \subseteq A2RKinds(i)
  BY DEF PiTook
<1>4. ToPi(i, sock[i], a2r', wrote[i], chan[i], Heard[i])
  <2>1. ToPi(i, sock[i], a2r, wrote[i], chan[i], Heard[i])  BY Known
  <2>2. Shorter(a2r', a2r) /\ Carries(a2r[1], i)  BY <1>3
  <2> QED  BY <2>1, <2>2, PiDrops
<1>5. ToAmiga(i, StreamState(i)', Way(i)', Sent[i], chan[i], sock[i], seen[i])
  <2>1. Way(i)' = Way(i) /\ StreamState(i)' = StreamState(i)  BY <1>3 DEF Way, StreamState
  <2> QED  BY <2>1, Known
<1>6. Piping(i)'
  <2>1. UNCHANGED <<sock, sendq, next, wrote, seen>>  BY <1>3
  <2>2. Heard'[i] = Heard[i] /\ Sent'[i] = Sent[i] /\ chan'[i] = chan[i]  BY <1>1
  <2> QED  BY <1>1, <1>3, <1>4, <1>5, <2>1, <2>2, PiAfter
<1> QED  BY <1>1, <1>2, <1>3, <1>6 DEF Flows, OutStep, InStep

\* What is left to show when nothing was said to the client or by it.
LEMMA PiTookDone ==
    ASSUME Good, NEW i \in Ids, PiTook(i), OneStream', Heard' = Heard, Sent' = Sent,
           \A j \in Ids \ {i} : NoStream(j) => NoStream(j)', Piping(i)'
    PROVE  Flows' /\ OutStep /\ InStep
<1>1. \A j \in Ids \ {i} : /\ Heard'[j] = Heard[j] /\ Sent'[j] = Sent[j]
                           /\ NoStream(j) => NoStream(j)'
  OBVIOUS
<1>2. \A j \in Ids \ {i} : Piping(j)'  BY <1>1, PiTookElsewhere
<1>3. \A j \in Ids : Piping(j)'  BY <1>2
<1> QED  BY <1>3 DEF Flows, OutStep, InStep, PiTook

\* The channels that are given up are told so.
LEMMA OnlyMarked ==
    ASSUME TypeOK, OneStream, NEW b,
           streams' = [t \in DOMAIN streams |-> [streams[t] EXCEPT !.reset = @ \/ b[t]]]
    PROVE  /\ OneStream' /\ Heard' = Heard /\ Sent' = Sent
           /\ \A j : NoStream(j) => NoStream(j)'
<1>1. DOMAIN streams' = DOMAIN streams /\ \A t \in DOMAIN streams : streams[t] \in Stream
  BY DEF TypeOK
<1>2. ASSUME NEW t \in DOMAIN streams
      PROVE  /\ streams'[t].id = streams[t].id
             /\ streams'[t].got = streams[t].got /\ streams'[t].sent = streams[t].sent
  <2> DEFINE r == streams[t].reset \/ b[t]
  <2>1. streams'[t] = [streams[t] EXCEPT !.reset = r]  BY <1>1, <1>2, Zenon
  <2> HIDE DEF r
  <2> QED  BY <1>1, <2>1 DEF Stream
<1> QED  BY <1>1, <1>2, HistoryKept

\* handle_pkt_reset.
LEMMA ResetTaken ==
    ASSUME Good, NEW i \in Ids, PiTook(i), Head(a2r).type = "RESET", PiReset(i)
    PROVE  Flows' /\ OutStep /\ InStep
<1>1. TypeOK /\ OneStream /\ DOMAIN chan = Ids  BY DEF Good, TypeInv, Flows, TypeOK
<1> DEFINE b == [t \in DOMAIN streams |-> t = chan[i].stream]
<1>2. streams' = [t \in DOMAIN streams |-> [streams[t] EXCEPT !.reset = @ \/ b[t]]]
  BY Zenon DEF PiReset
<1> HIDE DEF b
<1>3. OneStream' /\ Heard' = Heard /\ Sent' = Sent /\ \A j : NoStream(j) => NoStream(j)'
  BY <1>1, <1>2, OnlyMarked
<1>4. chan'[i] = NoChannel  BY <1>1 DEF PiReset
<1>5. chan'[i].stream = 0 /\ chan'[i].pq = <<>> /\ ~Listens(chan'[i])
  BY <1>4 DEF NoChannel, Listens
<1>6. ToPi(i, sock[i], a2r', wrote[i], chan'[i], Heard[i])
  <2>1. ~Carries(Head(a2r), i)  BY DEF Carries
  <2>2. SameFor(i, a2r', a2r)  BY <2>1 DEF PiTook
  <2>3. WritesLess(sock[i], sock[i])  BY DEF WritesLess
  <2>4. ToPi(i, sock[i], a2r, wrote[i], chan[i], Heard[i])  BY Known
  <2>5. Listens(chan'[i]) => Listens(chan[i])  BY <1>5
  <2> HIDE DEF b
  <2> QED  BY <2>2, <2>3, <2>4, <2>5, PiKept
<1>7. ToAmiga(i, StreamState(i)', Way(i)', Sent[i], chan'[i], sock[i], seen[i])
  <2>1. r2a \in Seq(R2APackets(Ids)) /\ chan[i].pq \in Seq(R2APackets(Ids))  BY Known
  <2>2. Way(i)' = r2a \o <<>>  BY <1>5 DEF Way, PiTook
  <2>3. Cut(i, Way(i)', Way(i))  BY <2>1, <2>2, WayCut DEF Way
  <2>4. StreamState(i)' = "none"  BY <1>5 DEF StreamState
  <2>5. EndsMore(StreamState(i)', StreamState(i))  BY <2>4 DEF EndsMore
  <2>6. ToAmiga(i, StreamState(i), Way(i), Sent[i], chan[i], sock[i], seen[i])  BY Known
  <2>7. Len(Sent[i]) \in Nat  BY <1>1, HistoryTyped
  <2>8. DOMAIN Way(i) \subseteq Nat /\ Reached(sock[i], seen[i]) \in Nat  BY Known
  <2> QED  BY <1>5, <2>3, <2>5, <2>6, <2>7, <2>8, AmigaCut
<1>8. Piping(i)'
  <2>1. UNCHANGED <<sock, sendq, next, wrote, seen>> /\ A2RKinds(i)' \subseteq A2RKinds(i)
    BY DEF PiTook
  <2>2. Heard'[i] = Heard[i] /\ Sent'[i] = Sent[i]  BY <1>3
  <2> QED  BY <1>3, <1>6, <1>7, <2>1, <2>2, PiAfter
<1> QED  BY <1>3, <1>8, PiTookDone

\* A connection whose packet comes to the Pi has been asked for.
LEMMA PiTookBorn ==
    ASSUME Good, NEW i \in Ids, PiTook(i)
    PROVE  ~Unborn(i)'
<1>1. /\ UNCHANGED <<sock, sendq, next>> /\ i < next /\ A2RKinds(i) # {}
      /\ "CONNECT" \notin A2RKinds(i)'
  BY DEF PiTook
<1>2. "CONNECT" \in sock[i].pend /\ Turn(i) = "waits" => A2RKinds(i) = {}
  BY DEF Good, AllFit, Conn, Fits, ConnectInv
<1>3. next \in Nat /\ i \in Nat  BY Ready DEF Good, Ids
<1>4. ~(i >= next)  BY <1>1, <1>3
<1>5. ~(i >= next') /\ sock'[i] = sock[i] /\ Turn(i)' = Turn(i)  BY <1>1, <1>4 DEF Turn
<1> QED  BY <1>1, <1>2, <1>5 DEF Unborn

\* handle_pkt_connect: nothing has passed yet.
LEMMA ConnectTaken ==
    ASSUME Good, NEW i \in Ids, PiTook(i), Head(a2r).type = "CONNECT", PiConnect(i)
    PROVE  Flows' /\ OutStep /\ InStep
<1>1. TypeOK /\ OneStream /\ DOMAIN chan = Ids  BY DEF Good, TypeInv, Flows, TypeOK
<1>2. "CONNECT" \in A2RKinds(i) /\ UNCHANGED <<sock, sendq, next, wrote, seen, r2a>>
  BY DEF PiTook
<1>3. /\ wrote[i] = <<>> /\ seen[i] = <<>> /\ NoStream(i)
      /\ ToPi(i, sock[i], a2r, wrote[i], chan[i], Heard[i])
      /\ ToAmiga(i, StreamState(i), Way(i), Sent[i], chan[i], sock[i], seen[i])
  <2>1. NewInv(i)  BY Known
  <2>2. Unborn(i)  BY <1>2 DEF Unborn
  <2> QED  BY <2>1, <2>2, Known DEF NewInv
<1>4. Heard[i] = <<>> /\ Sent[i] = <<>>  BY <1>3, NothingPassed
<1>5. chan[i] = NoChannel /\ sock[i].flags = {}
  BY <1>2 DEF Good, AllFit, Conn, Fits, ConnectInv
<1> DEFINE e == [id |-> i, state |-> "new", sent |-> <<>>, got |-> <<>>, reset |-> FALSE]
           m == Packet("RESPONSE", i, CONNECT_UNKNOWN_SERVICE)
<1>6. /\ e \in Stream /\ e.id = i /\ e.got = <<>> /\ e.sent = <<>>
      /\ m \in R2APackets(Ids) /\ ~Carries(m, i)
  <2>1. m \in R2APackets({i})  BY PacketTypes
  <2>2. m \in R2APackets(Ids)  BY <2>1, PacketOfChannel
  <2> QED  BY <2>2 DEF Stream, Packet, Carries
<1>7. \/ /\ streams' = Append(streams, e)
         /\ chan' = [chan EXCEPT ![i].stream = Len(streams) + 1]
      \/ streams' = streams /\ Enqueue(i, NoChannel, "RESPONSE", CONNECT_UNKNOWN_SERVICE)
  BY DEF PiConnect
<1>8. /\ OneStream' /\ Heard' = Heard /\ Sent' = Sent
      /\ \A j \in Ids \ {i} : NoStream(j) => NoStream(j)'
  <2>1. CASE streams' = Append(streams, e)
    <3> HIDE DEF e
    <3> QED  BY <1>1, <1>3, <1>6, <2>1, HistoryBegins
  <2>2. CASE streams' = streams  BY <1>1, <2>2 DEF OneStream, Heard, Sent, NoStream
  <2> QED  BY <1>7, <2>1, <2>2
<1>9. ToPi(i, sock[i], a2r', wrote[i], chan'[i], Heard[i])
  <2>1. ~Carries(Head(a2r), i)  BY DEF Carries
  <2>2. SameFor(i, a2r', a2r)  BY <2>1 DEF PiTook
  <2>3. From(a2r, i, wrote[i]) /\ WriteWaits(sock[i])
    BY <1>3 DEF ToPi, HearerInv, WriterInv
  <2> QED  BY <1>3, <1>4, <2>2, <2>3, PiBegins
<1>10. SameFor(i, Way(i)', Way(i))
  <2>1. r2a \in Seq(R2APackets(Ids)) /\ <<>> \in Seq(R2APackets(Ids))  BY Known
  <2>2. Way(i) = r2a \o <<>>  BY <1>5 DEF Way, NoChannel
  <2>3. CASE chan'[i].pq = <<>>
    <3>1. Way(i)' = r2a \o <<>>  BY <1>2, <2>3 DEF Way
    <3> QED  BY <2>2, <3>1, SameAfter
  <2>4. CASE chan'[i].pq = Append(<<>>, m)
    <3> HIDE DEF m
    <3>1. Way(i)' = r2a \o Append(<<>>, m)  BY <1>2, <2>4 DEF Way
    <3>2. Longer(r2a \o Append(<<>>, m), r2a \o <<>>, m)  BY <1>6, <2>1, WayMoves
    <3> QED  BY <1>6, <2>2, <3>1, <3>2, SameAfter
  <2>5. chan'[i].pq \in {<<>>, Append(<<>>, m)}
    BY <1>1, <1>5, <1>7 DEF NoChannel, Enqueue
  <2> QED  BY <2>3, <2>4, <2>5
<1>11. ToAmiga(i, StreamState(i)', Way(i)', Sent[i], chan'[i], sock[i], seen[i])
  <2>1. From(Way(i), i, Sent[i]) /\ ReadWaits(sock[i])  BY <1>3, ReaderParts DEF ToAmiga
  <2>2. ASSUME sock[i].state = "open" PROVE sock[i].rq = <<>>
    <3>1. Socketed(sock[i], Sent[i], seen[i])  BY <1>3, <2>2, ReaderParts DEF ToAmiga
    <3>2. Len(seen[i]) = 0 /\ Len(Sent[i]) = 0  BY <1>3, <1>4
    <3>3. sock[i].rq \in Seq(1 .. MaxData)  BY Known, SocketTypes
    <3>4. Len(sock[i].rq) \in Nat /\ 0 + Len(sock[i].rq) <= 0
      BY <3>1, <3>2, <3>3 DEF Socketed, Reached
    <3> QED  BY <3>3, <3>4
  <2>3. "RCVD_EOS_FROM_RPI" \notin sock[i].flags  BY <1>5
  <2> QED  BY <1>3, <1>4, <1>10, <2>1, <2>2, <2>3, AmigaBegins
<1>12. Piping(i)'
  <2>1. NewInv(i)'  BY PiTookBorn DEF NewInv
  <2>2. /\ sock'[i] = sock[i] /\ wrote'[i] = wrote[i] /\ seen'[i] = seen[i]
        /\ Heard'[i] = Heard[i] /\ Sent'[i] = Sent[i]
    BY <1>2, <1>8
  <2>3. ToPi(i, sock'[i], a2r', wrote'[i], chan'[i], Heard'[i])  BY <1>9, <2>2, Zenon
  <2>4. ToAmiga(i, StreamState(i)', Way(i)', Sent'[i], chan'[i], sock'[i], seen'[i])
    BY <1>11, <2>2, Zenon
  <2> QED  BY <2>1, <2>3, <2>4, PipingAfter
<1> QED  BY <1>8, <1>12, PiTookDone

\* handle_received_pkt.
LEMMA PiReceivePipes ==
    ASSUME Good, PiReceive
    PROVE  Flows' /\ OutStep /\ InStep
<1> DEFINE p == Head(a2r)
<1>1. p \in A2RPackets
  <2>1. a2r # <<>> /\ a2r \in Seq(A2RPackets)  BY DEF PiReceive, Good, TypeInv, TypeOK
  <2> QED  BY <2>1, HeadTailProperties
<1>2. PICK i \in Ids : i = p.id  BY <1>1, PacketOfChannel
<1>3. PiTook(i)  BY <1>2, PiTakes
<1>4. \/ p.type = "CONNECT" /\ PiConnect(i)
      \/ p.type = "DATA" /\ PiData(i, p.x)
      \/ p.type = "EOS" /\ PiEos(i)
      \/ p.type = "RESET" /\ PiReset(i)
      \/ /\ p.type \in {"DATA", "EOS"} /\ (chan[i].stream = 0 \/ chan[i].eosAmi)
         /\ UNCHANGED piVars
      \/ p.type = "RESET" /\ ~Exists(i) /\ UNCHANGED piVars
  BY <1>2, Zenon DEF PiReceive
<1>5. chan[i] \in Channel(i) /\ DOMAIN chan = Ids
  BY Known DEF Good, TypeInv, TypeOK
<1>6. p.id = i /\ p = Head(a2r)  BY <1>2
<1> HIDE DEF p
<1>7. CASE p.type = "CONNECT" /\ PiConnect(i)  BY <1>3, <1>6, <1>7, ConnectTaken
<1>8. CASE p.type = "DATA" /\ PiData(i, p.x)
  <2>1. Carries(p, i) /\ Piece(p) = p.x  BY <1>6, <1>8 DEF Carries, Piece
  <2>2. /\ chan[i].stream # 0 /\ ~chan[i].eosAmi /\ Tell(chan[i].stream, Piece(p))
        /\ chan' = chan
    BY <1>8, <2>1 DEF PiData
  <2>3. chan'[i].pq = chan[i].pq /\ chan'[i].stream \in {0, chan[i].stream}  BY <2>2
  <2> QED  BY <1>3, <1>6, <2>1, <2>2, <2>3, PieceHeard
<1>9. CASE p.type = "EOS" /\ PiEos(i)
  <2>1. Carries(p, i) /\ Piece(p) = EOS  BY <1>6, <1>9 DEF Carries, Piece
  <2>2. chan[i].stream # 0 /\ ~chan[i].eosAmi /\ Tell(chan[i].stream, Piece(p))
    BY <1>9, <2>1 DEF PiEos
  <2> DEFINE c == chan[i]
             n == IF c.eosClient THEN 0 ELSE c.stream
             d == [c EXCEPT !.eosAmi = TRUE, !.stream = n]
  <2>3. chan' = [chan EXCEPT ![i] = Tidy(d)]  BY <1>9, Zenon DEF PiEos
  <2>4. n \in {0, c.stream}  OBVIOUS
  <2> HIDE DEF n
  <2>5. d.stream = n /\ d.pq = c.pq  BY <1>5 DEF Channel
  <2> HIDE DEF d
  <2>6. Tidy(d).stream = n /\ Tidy(d).pq = c.pq  BY <2>5 DEF Tidy, NoChannel
  <2>7. chan'[i].pq = chan[i].pq /\ chan'[i].stream \in {0, chan[i].stream}
    BY <1>5, <2>3, <2>4, <2>6
  <2> QED  BY <1>3, <1>6, <2>1, <2>2, <2>7, PieceHeard
<1>10. CASE p.type = "RESET" /\ PiReset(i)  BY <1>3, <1>6, <1>10, ResetTaken
<1>11. CASE /\ p.type \in {"DATA", "EOS"} /\ (chan[i].stream = 0 \/ chan[i].eosAmi)
            /\ UNCHANGED piVars
  <2>1. Carries(p, i) /\ ~Listens(chan[i]) /\ UNCHANGED <<chan, streams>>
    BY <1>6, <1>11 DEF Carries, Listens, piVars
  <2> QED  BY <1>3, <1>6, <2>1, PieceDropped
<1>12. CASE p.type = "RESET" /\ ~Exists(i) /\ UNCHANGED piVars
  <2>1. ~Carries(p, i) /\ UNCHANGED <<chan, streams>>  BY <1>12 DEF Carries, piVars
  <2> QED  BY <1>3, <1>6, <2>1, PiTookQuietly
<1> QED  BY <1>4, <1>7, <1>8, <1>9, <1>10, <1>11, <1>12

\* A step of the Pi that takes nothing from A2R, for connection i.
PiSaid(i) ==
    /\ UNCHANGED <<sock, sendq, next, wrote, seen, a2r>>
    /\ PiDid(i, A2RKinds(i))
    /\ \E p \in R2APackets(Ids) : p.id = i /\ r2a' \in {r2a, Append(r2a, p)}

\* The other connections stay, whatever the client has sent on this one.
LEMMA PiSaidElsewhere ==
    ASSUME Good, NEW i \in Ids, PiSaid(i), Heard' = Heard,
           \A j \in Ids \ {i} : Sent'[j] = Sent[j], \A j : NoStream(j) => NoStream(j)'
    PROVE  \A j \in Ids \ {i} : Piping(j)'
<1>1. UNCHANGED <<sock, sendq, next, wrote, seen>> /\ a2r' = a2r  BY DEF PiSaid
<1>2. Says(i, A2RKinds(i)) /\ PiDid(i, A2RKinds(i))
  BY <1>1, SaysNothing DEF PiSaid, Good, AllFit, Conn
<1>3. PICK p \in R2APackets(Ids) : p.id = i /\ r2a' \in {r2a, Append(r2a, p)}  BY DEF PiSaid
<1>4. \A j \in Ids \ {i} : /\ Heard'[j] = Heard[j] /\ Sent'[j] = Sent[j]
                           /\ NoStream(j) => NoStream(j)'
  OBVIOUS
<1> QED  BY <1>1, <1>2, <1>3, <1>4, PiElsewhere

\* Nothing is lost, and nothing is new.
LEMMA PiSaidQuietly ==
    ASSUME Good, NEW i \in Ids, PiSaid(i), OneStream', Heard' = Heard, Sent' = Sent,
           \A j : NoStream(j) => NoStream(j)', SameFor(i, Way(i)', Way(i)),
           Listens(chan'[i]) => Listens(chan[i]), chan'[i].stream # 0 => chan[i].stream # 0,
           EndsMore(StreamState(i)', StreamState(i))
    PROVE  Flows' /\ OutStep /\ InStep
<1>1. UNCHANGED <<sock, sendq, next, wrote, seen, a2r>>  BY DEF PiSaid
<1>2. \A j \in Ids \ {i} : Piping(j)'  BY PiSaidElsewhere
<1>3. Piping(i)'
  <2>1. A2RKinds(i)' \subseteq A2RKinds(i)  BY <1>1 DEF A2RKinds
  <2>2. SameFor(i, a2r', a2r)  BY <1>1, SameAfter
  <2>3. Heard'[i] = Heard[i] /\ Sent'[i] = Sent[i] /\ (NoStream(i) => NoStream(i)')
    OBVIOUS
  <2> QED  BY <1>1, <2>1, <2>2, <2>3, StillAfter
<1> QED  BY <1>1, <1>2, <1>3 DEF Flows, OutStep, InStep

\* One turn of flush_send_queue.
LEMMA FlushPipes ==
    ASSUME Good, PiFlush
    PROVE  Flows' /\ OutStep /\ InStep
<1>1. send_queue # <<>> /\ send_queue \in Seq(Ids)  BY DEF PiFlush, Good, TypeInv, TypeOK
<1>2. PICK i \in Ids : i = Head(send_queue)  BY <1>1
<1> DEFINE c == chan[i]
           m == Head(c.pq)
           w == Tail(c.pq)
           d == [c EXCEPT !.pq = w]
<1>3. c \in Channel(i) /\ DOMAIN chan = Ids /\ c.pq \in Seq(R2APackets(Ids)) /\ r2a \in Seq(R2APackets(Ids))
  BY Known DEF Good, TypeInv, TypeOK
<1>4. c.pq # <<>>
  <2>1. i \in ToSet(send_queue)  BY <1>1, <1>2, QueueTail
  <2> QED  BY <2>1 DEF Good, TypeInv, PiQueueSound
<1>5. m \in R2APackets(Ids) /\ m.id = i
  <2>1. c.pq \in Seq(R2APackets({i}))  BY <1>3 DEF Channel
  <2>2. m \in R2APackets({i})  BY <1>4, <2>1, HeadTailProperties
  <2> QED  BY <2>2, PacketOfChannel
<1>6. /\ chan' = [chan EXCEPT ![i] = Tidy(d)] /\ r2a' = Append(r2a, m) /\ streams' = streams
      /\ UNCHANGED <<sock, sendq, next, wrote, seen, a2r>>
  BY <1>2, Zenon DEF PiFlush, driverVars
<1>7. PiSaid(i)
  <2>1. PiDid(i, A2RKinds(i))
    <3>1. PiReady /\ PiFits(i, A2RKinds(i))  BY Ready DEF Good
    <3> QED  BY <1>2, <3>1, PiFlushes
  <2> QED  BY <1>5, <1>6, <2>1 DEF PiSaid
<1>8. /\ OneStream' /\ Heard' = Heard /\ Sent' = Sent /\ \A j : NoStream(j) => NoStream(j)'
  BY <1>6 DEF Good, Flows, OneStream, Heard, Sent, NoStream
<1>9. SameFor(i, Way(i)', Way(i))
  <2> HIDE DEF w
  <2>1. d.pq = w  BY <1>3 DEF Channel
  <2> HIDE DEF d
  <2>2. chan'[i].pq = w
    <3>1. Tidy(d).pq = w  BY <2>1 DEF Tidy, NoChannel
    <3> QED  BY <1>3, <1>6, <3>1
  <2>3. Append(r2a, m) \o w = r2a \o c.pq  BY <1>3, <1>4, WayFlushed DEF w
  <2>4. Way(i)' = Way(i)  BY <1>6, <2>2, <2>3, Zenon DEF Way
  <2> QED  BY <2>4, SameAfter
<1>10. /\ chan'[i].stream = chan[i].stream
       /\ Listens(chan'[i]) => Listens(chan[i])
  <2> HIDE DEF w
  <2>1. d.stream = c.stream /\ d.eosAmi = c.eosAmi  BY <1>3 DEF Channel
  <2> HIDE DEF d
  <2>2. /\ Tidy(d).stream = c.stream
        /\ Listens(Tidy(d)) => Listens(c)
    BY <2>1 DEF Tidy, NoChannel, Listens
  <2> QED  BY <1>3, <1>6, <2>2
<1>11. EndsMore(StreamState(i)', StreamState(i))
  BY <1>6, <1>10 DEF EndsMore, StreamState
<1> QED  BY <1>7, <1>8, <1>9, <1>10, <1>11, PiSaidQuietly

\* A packet joins those of channel i, which is d but for it.
LEMMA Enqueued ==
    ASSUME Good, NEW i \in Ids, r2a' = r2a, NEW type, NEW x, NEW p, p = Packet(type, i, x),
           p \in R2APackets({i}), NEW d \in Channel(i), d.pq = chan[i].pq,
           Enqueue(i, d, type, x)
    PROVE  /\ chan'[i].stream = d.stream /\ chan'[i].eosAmi = d.eosAmi
           /\ Longer(Way(i)', Way(i), p) /\ p.id = i /\ p \in R2APackets(Ids)
<1>1. DOMAIN chan = Ids /\ chan[i].pq \in Seq(R2APackets(Ids)) /\ r2a \in Seq(R2APackets(Ids))
  BY Known DEF Good, TypeInv, TypeOK
<1> DEFINE q == Append(chan[i].pq, p)
           e == [d EXCEPT !.pq = q]
<1>2. chan' = [chan EXCEPT ![i] = e]  BY Zenon DEF Enqueue
<1> HIDE DEF q
<1>3. e.stream = d.stream /\ e.eosAmi = d.eosAmi /\ e.pq = q  BY DEF Channel
<1> HIDE DEF e
<1>4. chan'[i] = e  BY <1>1, <1>2
<1>5. p.id = i /\ p \in R2APackets(Ids)  BY PacketOfChannel
<1>6. Way(i)' = r2a \o q  BY <1>3, <1>4 DEF Way
<1>7. Longer(r2a \o q, r2a \o chan[i].pq, p)  BY <1>1, <1>5, WayMoves DEF q
<1> QED  BY <1>3, <1>4, <1>5, <1>6, <1>7 DEF Way

\* What a message of the client is, for connection i.
LEMMA ClientSays ==
    ASSUME Good, NEW i \in Ids, ClientResponse(i) \/ ClientData(i) \/ ClientEos(i) \/ ClientReset(i)
    PROVE  /\ PiSaid(i) /\ r2a' = r2a /\ chan[i].stream # 0 /\ OwnStream(i)
           /\ chan[i].stream \in DOMAIN streams /\ streams[chan[i].stream] \in Stream
           /\ chan[i] \in Channel(i) /\ DOMAIN chan = Ids
           /\ StreamState(i) = streams[chan[i].stream].state
<1>1. UNCHANGED <<sock, sendq, next, wrote, seen, a2r, r2a>> /\ chan[i].stream # 0
  BY DEF ClientResponse, ClientData, ClientEos, ClientReset, driverVars, ringVars
<1>2. PiReady /\ PiFits(i, A2RKinds(i)) /\ OwnStream(i) /\ TypeOK
  BY Ready DEF Good, PiReady
<1>3. PiDid(i, A2RKinds(i))
  BY <1>2, PiResponds, PiTakesData, PiTakesEos, PiGivesUp
<1>4. PICK p \in R2APackets(Ids) : p.id = i
  <2>1. Packet("RESET", i, 0) \in R2APackets({i})  BY PacketTypes
  <2> QED  BY <2>1, PacketOfChannel
<1>5. /\ chan[i].stream \in DOMAIN streams /\ streams[chan[i].stream] \in Stream
      /\ chan[i] \in Channel(i) /\ DOMAIN chan = Ids
  BY <1>1, <1>2, PiState
<1> QED  BY <1>1, <1>2, <1>3, <1>4, <1>5 DEF PiSaid, StreamState

\* handle_msg_connect_response.
LEMMA ResponsePipes ==
    ASSUME Good, NEW i \in Ids, ClientResponse(i)
    PROVE  Flows' /\ OutStep /\ InStep
<1> DEFINE c == chan[i]
           t == c.stream
           d == [c EXCEPT !.stream = 0]
<1>1. /\ PiSaid(i) /\ r2a' = r2a /\ t # 0 /\ t \in DOMAIN streams /\ streams[t] \in Stream
      /\ c \in Channel(i) /\ StreamState(i) = streams[t].state
  BY ClientSays
<1>2. /\ streams[t].state = "new"
      /\ \/ Enqueue(i, c, "RESPONSE", CONNECT_OK) /\ streams' = [streams EXCEPT ![t].state = "ok"]
         \/ /\ Enqueue(i, d, "RESPONSE", CONNECT_UNKNOWN_SERVICE)
            /\ streams' = [streams EXCEPT ![t].state = "done"]
  BY Zenon DEF ClientResponse
<1>3. d \in Channel(i) /\ d.stream = 0 /\ d.pq = c.pq /\ d.eosAmi = c.eosAmi
  <2>1. 0 \in 0 .. Len(streams)
    BY PiState DEF Good, TypeInv
  <2> HIDE DEF c
  <2> QED  BY <1>1, <2>1 DEF Channel
<1> HIDE DEF d
<1>4. /\ OneStream' /\ Heard' = Heard /\ Sent' = Sent /\ \A j : NoStream(j) => NoStream(j)'
      /\ \A j \in Ids : chan'[j].stream = t => StreamState(j)' \in {"ok", "done"}
  <2>1. PICK st \in {"ok", "done"} : streams' = [streams EXCEPT ![t].state = st]  BY <1>2
  <2>2. /\ DOMAIN streams' = DOMAIN streams
        /\ streams'[t] = [streams[t] EXCEPT !.state = st]
        /\ \A u \in DOMAIN streams : u # t => streams'[u] = streams[u]
    BY <1>1, <2>1
  <2>3. /\ streams'[t].id = streams[t].id /\ streams'[t].state = st
        /\ streams'[t].got = streams[t].got /\ streams'[t].sent = streams[t].sent
    BY <1>1, <2>2 DEF Stream
  <2>4. \A u \in DOMAIN streams : /\ streams'[u].id = streams[u].id
                                  /\ streams'[u].got = streams[u].got
                                  /\ streams'[u].sent = streams[u].sent
    BY <2>2, <2>3
  <2>5. OneStream  BY DEF Good, Flows
  <2>6. \A j \in Ids : chan'[j].stream = t => StreamState(j)' = st
    BY <1>1, <2>3 DEF StreamState
  <2> HIDE DEF t
  <2> QED  BY <2>2, <2>4, <2>5, <2>6, HistoryKept
<1>5. PICK x \in {CONNECT_OK, CONNECT_UNKNOWN_SERVICE}, e \in {c, d} : Enqueue(i, e, "RESPONSE", x)
  BY <1>2
<1>6. e \in Channel(i) /\ e.pq = c.pq /\ e.eosAmi = c.eosAmi /\ e.stream \in {0, t}
  BY <1>1, <1>3
<1>7. Packet("RESPONSE", i, x) \in R2APackets({i}) /\ ~Carries(Packet("RESPONSE", i, x), i)
  BY PacketTypes DEF Packet, Carries
<1>8. /\ chan'[i].stream = e.stream /\ chan'[i].eosAmi = e.eosAmi
      /\ Longer(Way(i)', Way(i), Packet("RESPONSE", i, x))
  <2> HIDE DEF c
  <2>1. e.pq = chan[i].pq  BY <1>6 DEF c
  <2> QED  BY <1>1, <1>5, <1>6, <1>7, <2>1, Enqueued
<1>9. SameFor(i, Way(i)', Way(i))  BY <1>7, <1>8, SameAfter
<1>10. /\ Listens(chan'[i]) => Listens(chan[i])
       /\ chan'[i].stream # 0 => chan[i].stream # 0
  BY <1>6, <1>8 DEF Listens
<1>11. EndsMore(StreamState(i)', StreamState(i))
  <2>1. CASE chan'[i].stream = 0  BY <2>1 DEF StreamState, EndsMore
  <2>2. CASE chan'[i].stream = t  BY <1>1, <1>2, <1>4, <2>2 DEF EndsMore
  <2> QED  BY <1>6, <1>8, <2>1, <2>2
<1> QED  BY <1>1, <1>4, <1>9, <1>10, <1>11, PiSaidQuietly

\* handle_msg_data and handle_msg_eos: the next piece is on its way.
LEMMA PieceTold ==
    ASSUME Good, NEW i \in Ids, PiSaid(i), r2a' = r2a, chan[i].stream # 0, StreamState(i) = "ok",
           NEW type, NEW x, NEW p, p = Packet(type, i, x), p \in R2APackets({i}),
           Carries(p, i), IsNext(p, Sent[i]), Piece(p) \in {EOS, Len(Sent[i]) + 1},
           Piece(p) \in 0 .. MaxData,
           NEW d \in Channel(i), d.pq = chan[i].pq, Enqueue(i, d, type, x),
           d.stream \in {0, chan[i].stream}, d.eosAmi = chan[i].eosAmi,
           OneStream', Heard' = Heard, Sent' = [Sent EXCEPT ![i] = Append(@, Piece(p))],
           Sent'[i] = Append(Sent[i], Piece(p)), \A j \in Ids \ {i} : Sent'[j] = Sent[j],
           \A j : NoStream(j) => NoStream(j)',
           StreamState(i)' # "new", StreamState(i)' = "ok" => Piece(p) # EOS
    PROVE  Flows' /\ OutStep /\ InStep
<1>1. UNCHANGED <<sock, sendq, next, wrote, seen, a2r>>  BY DEF PiSaid
<1>2. \A j \in Ids \ {i} : Piping(j)'  BY PiSaidElsewhere
<1>3. /\ chan'[i].stream = d.stream /\ chan'[i].eosAmi = d.eosAmi
      /\ Longer(Way(i)', Way(i), p)
  BY Enqueued
<1>4. /\ Sent[i] \in Seq(0 .. MaxData) /\ Len(Sent[i]) \in Nat
      /\ DOMAIN Sent[i] = 1 .. Len(Sent[i])
  <2>1. Sent[i] \in Seq(0 .. MaxData) /\ Len(Sent[i]) \in Nat  BY HistoryTyped DEF Good, TypeInv
  <2> QED  BY <2>1
<1>5. ToPi(i, sock[i], a2r', wrote[i], chan'[i], Heard[i])
  <2>1. ToPi(i, sock[i], a2r, wrote[i], chan[i], Heard[i])  BY Known
  <2>2. SameFor(i, a2r', a2r)  BY <1>1, SameAfter
  <2>3. WritesLess(sock[i], sock[i])  BY DEF WritesLess
  <2>4. Listens(chan'[i]) => Listens(chan[i])  BY <1>3 DEF Listens
  <2> QED  BY <2>1, <2>2, <2>3, <2>4, PiKept
<1>6. "RCVD_EOS_FROM_RPI" \notin sock[i].flags
  BY DEF Good, AllFit, Conn, Fits, ConnectInv, CloseInv, EosForApp
<1>7. /\ ToAmiga(i, "ok", Way(i), Sent[i], chan[i], sock[i], seen[i])
      /\ Reached(sock[i], seen[i]) \in Nat
  <2>1. /\ ToAmiga(i, StreamState(i), Way(i), Sent[i], chan[i], sock[i], seen[i])
        /\ Reached(sock[i], seen[i]) \in Nat
    BY Known
  <2> QED  BY <2>1, Zenon
<1>8. Longer(Sent'[i], Sent[i], Piece(p))  BY <1>4, LongerAppend
<1> DEFINE sm == StreamState(i)'
<1>9. ASSUME NEW new, Longer(new, Sent[i], Piece(p))
      PROVE  ToAmiga(i, sm, Way(i)', new, chan'[i], sock[i], seen[i]) /\ Unended(Sent[i])
  <2>1. sm # "new" /\ (sm = "ok" => Piece(p) # EOS)  OBVIOUS
  <2> HIDE DEF sm
  <2> QED  BY <1>3, <1>6, <1>7, <1>9, <2>1, AmigaSent
<1>10. ToAmiga(i, sm, Way(i)', Sent'[i], chan'[i], sock[i], seen[i]) /\ Unended(Sent[i])
  BY <1>8, <1>9, Zenon
<1>11. Piping(i)'
  <2>1. A2RKinds(i)' \subseteq A2RKinds(i)  BY <1>1 DEF A2RKinds
  <2>2. ToPi(i, sock[i], a2r', wrote[i], chan'[i], Heard'[i])  BY <1>5, Zenon
  <2> QED  BY <1>1, <1>10, <2>1, <2>2, PiAfter
<1>12. InStep  BY <1>1, <1>4, <1>10, InPut
<1> QED  BY <1>1, <1>2, <1>11, <1>12 DEF Flows, OutStep

\* handle_msg_data.
LEMMA ClientDataPipes ==
    ASSUME Good, NEW i \in Ids, ClientData(i)
    PROVE  Flows' /\ OutStep /\ InStep
<1> DEFINE c == chan[i]
           t == c.stream
           x == Len(streams[t].sent) + 1
           p == Packet("DATA", i, x)
<1>1. /\ PiSaid(i) /\ r2a' = r2a /\ t # 0 /\ t \in DOMAIN streams /\ streams[t] \in Stream
      /\ c \in Channel(i) /\ StreamState(i) = streams[t].state /\ OwnStream(i) /\ DOMAIN chan = Ids
  BY ClientSays
<1>2. TypeOK /\ OneStream /\ DOMAIN streams = 1 .. Len(streams)
  BY DEF Good, TypeInv, Flows, TypeOK
<1>3. /\ streams[t].state = "ok" /\ Len(streams[t].sent) < DataOf(i)
      /\ Enqueue(i, c, "DATA", x) /\ streams' = [streams EXCEPT ![t].sent = Append(@, x)]
  BY Zenon DEF ClientData
<1>4. x \in 1 .. MaxData /\ x \in 0 .. MaxData  BY <1>1, <1>2, <1>3, SentTypes
<1>5. /\ p \in R2APackets({i}) /\ Carries(p, i) /\ Piece(p) = x /\ p.x = x
  <2> HIDE DEF x
  <2>1. p \in R2APackets({i})  BY <1>4, PacketTypes
  <2> QED  BY <2>1 DEF Packet, Carries, Piece
<1>6. streams'[t].state = "ok" /\ StreamState(i)' = "ok"
  <2>1. streams'[t].state = "ok"
    <3>1. streams'[t] = [streams[t] EXCEPT !.sent = Append(@, x)]  BY <1>1, <1>3
    <3> QED  BY <1>1, <1>3, <3>1 DEF Stream
  <2>2. chan'[i].stream = t
    <3>1. Enqueue(i, c, "DATA", x) /\ p \in R2APackets({i}) /\ c.pq = chan[i].pq  BY <1>3, <1>5
    <3>2. chan'[i].stream = c.stream
      <4> HIDE DEF c, x
      <4> QED  BY <1>1, <3>1, Enqueued
    <3> QED  BY <3>2
  <2> QED  BY <1>1, <2>1, <2>2 DEF StreamState
<1>7. /\ OneStream' /\ Heard' = Heard
      /\ Sent' = [Sent EXCEPT ![i] = Append(@, x)] /\ Sent'[i] = Append(Sent[i], x)
      /\ Sent[i] = streams[t].sent
      /\ \A j \in Ids \ {i} : Sent'[j] = Sent[j]
      /\ \A j : NoStream(j) => NoStream(j)'
  <2>1. streams' = [streams EXCEPT ![chan[i].stream].sent = Append(@, x)]  BY <1>3
  <2> HIDE DEF x
  <2> QED  BY <1>1, <1>2, <2>1, HistorySent
<1>8. IsNext(p, Sent[i]) /\ x = Len(Sent[i]) + 1  BY <1>5, <1>7 DEF IsNext
<1>9. Piece(p) \in {EOS, Len(Sent[i]) + 1} /\ Piece(p) \in 0 .. MaxData /\ Piece(p) # EOS
  BY <1>4, <1>5, <1>8 DEF EOS
<1>10. c.pq = chan[i].pq /\ c.stream \in {0, chan[i].stream} /\ c.eosAmi = chan[i].eosAmi
       /\ chan[i].stream # 0 /\ StreamState(i) = "ok"
  BY <1>1, <1>3
<1>11. /\ Sent' = [Sent EXCEPT ![i] = Append(@, Piece(p))] /\ Sent'[i] = Append(Sent[i], Piece(p))
       /\ p = Packet("DATA", i, x) /\ Enqueue(i, c, "DATA", x) /\ c \in Channel(i)
  BY <1>1, <1>3, <1>5, <1>7
<1> HIDE DEF p, c, x
<1> QED  BY <1>1, <1>5, <1>6, <1>7, <1>8, <1>9, <1>10, <1>11, PieceTold

\* handle_msg_eos.
LEMMA ClientEosPipes ==
    ASSUME Good, NEW i \in Ids, ClientEos(i)
    PROVE  Flows' /\ OutStep /\ InStep
<1> DEFINE c == chan[i]
           t == c.stream
           n == IF c.eosAmi THEN 0 ELSE t
           d == [c EXCEPT !.eosClient = TRUE, !.stream = n]
           p == Packet("EOS", i, 0)
<1>1. /\ PiSaid(i) /\ r2a' = r2a /\ t # 0 /\ t \in DOMAIN streams /\ streams[t] \in Stream
      /\ c \in Channel(i) /\ StreamState(i) = streams[t].state /\ OwnStream(i) /\ DOMAIN chan = Ids
  BY ClientSays
<1>2. TypeOK /\ OneStream /\ DOMAIN streams = 1 .. Len(streams)
  BY DEF Good, TypeInv, Flows, TypeOK
<1>3. /\ streams[t].state = "ok" /\ Enqueue(i, d, "EOS", 0)
      /\ streams' = [streams EXCEPT ![t].state = "eos", ![t].sent = Append(@, EOS)]
  BY Zenon DEF ClientEos
<1>4. n \in 0 .. Len(streams) /\ n \in {0, t}  BY <1>1, <1>2
<1> HIDE DEF n
<1>5. /\ d \in Channel(i) /\ d.stream = n /\ d.pq = chan[i].pq /\ d.eosAmi = chan[i].eosAmi
  BY <1>1, <1>4 DEF Channel
<1> HIDE DEF d
<1>6. /\ p \in R2APackets({i}) /\ Carries(p, i) /\ Piece(p) = EOS /\ IsNext(p, Sent[i])
      /\ Piece(p) \in {EOS, Len(Sent[i]) + 1} /\ Piece(p) \in 0 .. MaxData
  <2>1. p \in R2APackets({i})  BY PacketTypes
  <2>2. p.type = "EOS" /\ p.id = i  BY DEF Packet
  <2>3. Carries(p, i) /\ Piece(p) = EOS /\ IsNext(p, Sent[i])
    BY <2>2 DEF Carries, Piece, IsNext
  <2>4. EOS \in 0 .. MaxData  BY ChannelAssumption DEF EOS
  <2> QED  BY <2>1, <2>3, <2>4
<1>7. StreamState(i)' \in {"none", "eos"}
  <2>1. streams'[t].state = "eos"
    <3>1. streams'[t] = [streams[t] EXCEPT !.state = "eos", !.sent = Append(@, EOS)]  BY <1>1, <1>3
    <3> QED  BY <1>1, <3>1 DEF Stream
  <2>2. chan'[i].stream = n
    <3>1. chan'[i].stream = d.stream  BY <1>1, <1>3, <1>5, <1>6, Enqueued
    <3> QED  BY <1>5, <3>1
  <2> QED  BY <1>4, <2>1, <2>2 DEF StreamState
<1>8. /\ OneStream' /\ Heard' = Heard
      /\ Sent' = [Sent EXCEPT ![i] = Append(@, EOS)] /\ Sent'[i] = Append(Sent[i], EOS)
      /\ \A j \in Ids \ {i} : Sent'[j] = Sent[j]
      /\ \A j : NoStream(j) => NoStream(j)'
  <2>1. streams' = [streams EXCEPT ![chan[i].stream].state = "eos",
                                   ![chan[i].stream].sent = Append(@, EOS)]
    BY <1>3
  <2> QED  BY <1>1, <1>2, <2>1, HistorySent
<1>9. /\ Sent' = [Sent EXCEPT ![i] = Append(@, Piece(p))] /\ Sent'[i] = Append(Sent[i], Piece(p))
      /\ p = Packet("EOS", i, 0)
  BY <1>6, <1>8
<1>10. d.stream \in {0, chan[i].stream} /\ chan[i].stream # 0 /\ StreamState(i) = "ok"
  BY <1>1, <1>3, <1>4, <1>5
<1> HIDE DEF p, c
<1>11. StreamState(i)' # "new" /\ (StreamState(i)' = "ok" => Piece(p) # EOS)  BY <1>7
<1> QED  BY <1>1, <1>3, <1>5, <1>6, <1>8, <1>9, <1>10, <1>11, PieceTold

\* A channel that its client gives up: what it had to send is lost, and a RESET is sent.
LEMMA GivenUpPipes ==
    ASSUME Good, NEW i \in Ids, UNCHANGED <<sock, sendq, next, wrote, seen, a2r, r2a>>,
           chan'[i] = GivenUp(i), Heard'[i] = Heard[i], Sent'[i] = Sent[i],
           NoStream(i) => NoStream(i)'
    PROVE  Piping(i)'
<1>1. chan[i] \in Channel(i) /\ Len(Sent[i]) \in Nat
  BY Known, HistoryTyped DEF Good, TypeInv
<1> DEFINE m == Packet("RESET", i, 0)
           q == <<m>>
<1>2. m \in R2APackets(Ids) /\ ~Carries(m, i)
  <2>1. m \in R2APackets({i})  BY PacketTypes
  <2>2. m \in R2APackets(Ids)  BY <2>1, PacketOfChannel
  <2> QED  BY <2>2 DEF Packet, Carries
<1>3. chan'[i] = [chan[i] EXCEPT !.stream = 0, !.pq = q]  BY Zenon DEF GivenUp
<1>4. chan'[i].stream = 0 /\ chan'[i].pq = q
  <2> HIDE DEF q
  <2> QED  BY <1>1, <1>3 DEF Channel
<1>5. Cut(i, Way(i)', Way(i))
  <2>1. r2a \in Seq(R2APackets(Ids)) /\ chan[i].pq \in Seq(R2APackets(Ids))  BY Known
  <2>2. Way(i)' = r2a \o <<m>>  BY <1>4 DEF Way
  <2> HIDE DEF m
  <2> QED  BY <1>2, <2>1, <2>2, WayCut DEF Way
<1>6. ToPi(i, sock[i], a2r', wrote[i], chan'[i], Heard'[i])
  <2>1. ToPi(i, sock[i], a2r, wrote[i], chan[i], Heard[i])  BY Known
  <2>2. SameFor(i, a2r', a2r)  BY SameAfter
  <2>3. WritesLess(sock[i], sock[i])  BY DEF WritesLess
  <2>4. Listens(chan'[i]) => Listens(chan[i])  BY <1>4 DEF Listens
  <2> QED  BY <2>1, <2>2, <2>3, <2>4, PiKept
<1>7. ToAmiga(i, StreamState(i)', Way(i)', Sent'[i], chan'[i], sock[i], seen[i])
  <2>1. ToAmiga(i, StreamState(i), Way(i), Sent[i], chan[i], sock[i], seen[i])  BY Known
  <2>2. StreamState(i)' = "none"  BY <1>4 DEF StreamState
  <2>3. EndsMore(StreamState(i)', StreamState(i))  BY <2>2 DEF EndsMore
  <2>4. DOMAIN Way(i) \subseteq Nat /\ Reached(sock[i], seen[i]) \in Nat  BY Known
  <2> QED  BY <1>1, <1>4, <1>5, <2>1, <2>3, <2>4, AmigaCut
<1>8. A2RKinds(i)' \subseteq A2RKinds(i)  BY DEF A2RKinds
<1> QED  BY <1>6, <1>7, <1>8, PiAfter

\* handle_msg_reset.
LEMMA ClientResetPipes ==
    ASSUME Good, NEW i \in Ids, ClientReset(i)
    PROVE  Flows' /\ OutStep /\ InStep
<1> DEFINE t == chan[i].stream
<1>1. /\ PiSaid(i) /\ r2a' = r2a /\ t \in DOMAIN streams /\ streams[t] \in Stream
      /\ DOMAIN chan = Ids
  BY ClientSays
<1>2. chan' = [chan EXCEPT ![i] = GivenUp(i)] /\ streams' = [streams EXCEPT ![t].state = "done"]
  BY DEF ClientReset
<1>3. /\ OneStream' /\ Heard' = Heard /\ Sent' = Sent /\ \A j : NoStream(j) => NoStream(j)'
  <2>1. /\ DOMAIN streams' = DOMAIN streams
        /\ streams'[t] = [streams[t] EXCEPT !.state = "done"]
        /\ \A u \in DOMAIN streams : u # t => streams'[u] = streams[u]
    BY <1>1, <1>2
  <2>2. \A u \in DOMAIN streams : /\ streams'[u].id = streams[u].id
                                  /\ streams'[u].got = streams[u].got
                                  /\ streams'[u].sent = streams[u].sent
    BY <1>1, <2>1 DEF Stream
  <2> QED  BY <2>1, <2>2, HistoryKept DEF Good, Flows
<1>4. chan'[i] = GivenUp(i)  BY <1>1, <1>2
<1>5. UNCHANGED <<sock, sendq, next, wrote, seen, a2r, r2a>>  BY <1>1 DEF PiSaid
<1>6. Heard'[i] = Heard[i] /\ Sent'[i] = Sent[i] /\ (NoStream(i) => NoStream(i)')  BY <1>3
<1>7. Piping(i)'  BY <1>4, <1>5, <1>6, GivenUpPipes
<1>8. \A j \in Ids \ {i} : Piping(j)'
  <2>1. \A j \in Ids \ {i} : Sent'[j] = Sent[j]  BY <1>3
  <2> QED  BY <1>1, <1>3, <2>1, PiSaidElsewhere
<1> QED  BY <1>3, <1>5, <1>7, <1>8 DEF Flows, OutStep, InStep

\* A step that nothing of the connections takes part in.
LEMMA QuietPipes ==
    ASSUME Good, UNCHANGED <<sock, sendq, next, wrote, seen, a2r, r2a>>,
           OneStream', Heard' = Heard, Sent' = Sent, \A j : NoStream(j) => NoStream(j)',
           NEW j \in Ids, chan'[j] = chan[j], StreamState(j)' = StreamState(j)
    PROVE  Piping(j)'
<1>1. A2RKinds(j)' \subseteq A2RKinds(j)  BY DEF A2RKinds
<1>2. Way(j)' = Way(j)  BY DEF Way
<1>3. SameFor(j, a2r', a2r) /\ SameFor(j, Way(j)', Way(j))  BY <1>2, SameAfter
<1>4. EndsMore(StreamState(j)', StreamState(j))  BY DEF EndsMore
<1>5. Heard'[j] = Heard[j] /\ Sent'[j] = Sent[j] /\ (NoStream(j) => NoStream(j)')
  OBVIOUS
<1>6. /\ Listens(chan'[j]) => Listens(chan[j])
      /\ chan'[j].stream # 0 => chan[j].stream # 0
  OBVIOUS
<1> QED  BY <1>1, <1>3, <1>4, <1>5, <1>6, StillAfter

\* close_and_remove_connection.
LEMMA GonePipes ==
    ASSUME Good, ClientGone
    PROVE  Flows' /\ OutStep /\ InStep
<1>1. /\ UNCHANGED <<sock, sendq, next, wrote, seen, a2r, r2a, streams>>
      /\ \A j \in Ids : chan'[j] = IF chan[j].stream # 0 THEN GivenUp(j) ELSE chan[j]
  BY DEF ClientGone, driverVars, ringVars
<1>2. /\ OneStream' /\ Heard' = Heard /\ Sent' = Sent /\ \A j : NoStream(j) => NoStream(j)'
  BY <1>1 DEF Good, Flows, OneStream, Heard, Sent, NoStream
<1>3. ASSUME NEW j \in Ids PROVE Piping(j)'
  <2>1. CASE chan[j].stream # 0
    <3>1. Heard'[j] = Heard[j] /\ Sent'[j] = Sent[j] /\ (NoStream(j) => NoStream(j)')  BY <1>2
    <3> QED  BY <1>1, <2>1, <3>1, GivenUpPipes
  <2>2. CASE chan[j].stream = 0
    <3>1. chan'[j] = chan[j]  BY <1>1, <2>2
    <3>2. StreamState(j)' = StreamState(j)  BY <1>1, <3>1 DEF StreamState
    <3> QED  BY <1>1, <1>2, <3>1, <3>2, QuietPipes
  <2> QED  BY <2>1, <2>2
<1> QED  BY <1>1, <1>2, <1>3 DEF Flows, OutStep, InStep

\* handle_a314_irq on STARTED, in the first session: no channel is there to close.
LEMMA StartedPipes ==
    ASSUME Good, FirstSession, StartInv, PiStarted
    PROVE  Flows' /\ OutStep /\ InStep
<1>0. started = session
  BY ChannelAssumption DEF PiStarted, FirstSession, TypeInv, TypeOK, Good
<1>1. \A j \in Ids : chan[j] = NoChannel  BY <1>0, NothingYet DEF Good
<1>2. /\ UNCHANGED <<sock, sendq, next, wrote, seen, a2r, r2a>>
      /\ \A j \in Ids : chan'[j] = NoChannel
  BY DEF PiStarted, driverVars, ringVars
<1> DEFINE b == [t \in DOMAIN streams |-> \E i \in Ids : chan[i].stream = t]
<1>3. streams' = [t \in DOMAIN streams |-> [streams[t] EXCEPT !.reset = @ \/ b[t]]]
  BY Zenon DEF PiStarted
<1> HIDE DEF b
<1>4. OneStream' /\ Heard' = Heard /\ Sent' = Sent /\ \A j : NoStream(j) => NoStream(j)'
  BY <1>3, OnlyMarked DEF Good, TypeInv, Flows
<1>5. ASSUME NEW j \in Ids PROVE Piping(j)'
  <2>1. chan'[j] = chan[j] /\ chan[j].stream = 0  BY <1>1, <1>2 DEF NoChannel
  <2>2. StreamState(j)' = StreamState(j)  BY <2>1 DEF StreamState
  <2> HIDE DEF b
  <2> QED  BY <1>2, <1>4, <2>1, <2>2, QuietPipes
<1> QED  BY <1>2, <1>4, <1>5 DEF Flows, OutStep, InStep

-----------------------------------------------------------------------------
\* Together.

LEMMA StreamsFlow ==
    ASSUME TypeInv, AllFit, Flows, StartInv, FirstSession, [Next]_vars, FirstSession'
    PROVE  Flows' /\ OutStep /\ InStep
<1>1. Good  BY DEF Good
<1>2. CASE App
  BY <1>1, <1>2, AppConnectPipes, AppReadPipes, AppWritePipes, AppEosPipes, AppResetPipes DEF App
<1>3. CASE DriverSend \/ DriverReceive  BY <1>1, <1>3, DriverSendPipes, DriverReceivePipes
<1>4. CASE PiReceive \/ PiStarted \/ PiFlush
  BY <1>1, <1>4, PiReceivePipes, StartedPipes, FlushPipes
<1>5. CASE UNCHANGED <<sock, sendq, next, wrote, seen, a2r, r2a, chan, streams>>
  <2>1. OneStream' /\ Heard' = Heard /\ Sent' = Sent /\ \A j : NoStream(j) => NoStream(j)'
    BY <1>5 DEF Flows, OneStream, Heard, Sent, NoStream
  <2>2. ASSUME NEW j \in Ids PROVE Piping(j)'
    <3>1. chan'[j] = chan[j] /\ StreamState(j)' = StreamState(j)  BY <1>5 DEF StreamState
    <3> QED  BY <1>1, <1>5, <2>1, <3>1, QuietPipes
  <2> QED  BY <1>5, <2>1, <2>2 DEF Flows, OutStep, InStep
<1>6. CASE DeviceStart \/ ClientConnect \/ ClientRegister \/ UNCHANGED vars
  BY <1>5, <1>6 DEF DeviceStart, ClientConnect, ClientRegister, vars, driverVars, ringVars, piVars
<1>7. CASE AmigaReset
  <2>1. up /\ up' = FALSE /\ session' = session  BY <1>7 DEF AmigaReset
  <2> QED  BY <2>1 DEF FirstSession, StartInv
<1>8. CASE Client
  BY <1>1, <1>6, <1>8, ResponsePipes, ClientDataPipes, ClientEosPipes, ClientResetPipes, GonePipes
  DEF Client
<1> QED  BY <1>2, <1>3, <1>4, <1>6, <1>7, <1>8 DEF Next

\* At first nothing was sent.
LEMMA FlowInit == ASSUME Init PROVE Flows
<1>1. /\ a2r = <<>> /\ r2a = <<>> /\ streams = <<>> /\ DOMAIN streams = {}
      /\ \A i \in Ids : /\ sock[i] = Free /\ chan[i] = NoChannel
                        /\ wrote[i] = <<>> /\ seen[i] = <<>>
  BY DEF Init
<1>2. OneStream /\ \A i : NoStream(i)  BY <1>1 DEF OneStream, NoStream
<1>3. Single(streams)  BY <1>2, Histories
<1>4. ASSUME NEW i \in Ids PROVE Piping(i)
  <2>1. Got(streams, i) = <<>> /\ SentBy(streams, i) = <<>>
    BY <1>2, <1>3, HistoryOf DEF NoStream
  <2>2. Heard[i] = <<>> /\ Sent[i] = <<>>  BY <2>1, Histories
  <2>3. NewInv(i)  BY <1>1, <1>2 DEF NewInv
  <2>4. \A src : From(<<>>, i, src)  BY DEF From
  <2>5. SameFor(i, <<>>, <<>>)  BY SameAfter
  <2>6. /\ sock[i].pend = {} /\ sock[i].flags = {} /\ sock[i].state = "free" /\ sock[i].rq = <<>>
        /\ chan[i].pq = <<>>
    BY <1>1 DEF Free, NoChannel
  <2>7. WriteWaits(sock[i]) /\ ReadWaits(sock[i])  BY <2>6 DEF WriteWaits, ReadWaits
  <2>8. Way(i) = <<>>
    <3>1. <<>> \o <<>> = <<>>  OBVIOUS
    <3> QED  BY <1>1, <2>6, <3>1, Zenon DEF Way
  <2>9. ToPi(i, sock[i], a2r, wrote[i], chan[i], Heard[i])
    BY <1>1, <2>2, <2>4, <2>5, <2>7, PiBegins
  <2>10. ToAmiga(i, StreamState(i), Way(i), Sent[i], chan[i], sock[i], seen[i])
    BY <1>1, <2>2, <2>4, <2>5, <2>6, <2>7, <2>8, AmigaBegins
  <2> QED  BY <2>3, <2>9, <2>10 DEF Piping
<1> QED  BY <1>2, <1>4 DEF Flows

\* Both directions begin as streams do.
LEMMA StreamsBegin == ASSUME Init PROVE ToClient!Init /\ ToApp!Init
<1>1. /\ DOMAIN streams = {}
      /\ wrote = [i \in Ids |-> <<>>] /\ seen = [i \in Ids |-> <<>>]
  BY DEF Init
<1>2. Heard = [i \in Ids |-> <<>>] /\ Sent = [i \in Ids |-> <<>>]  BY <1>1 DEF Heard, Sent
<1> QED  BY <1>1, <1>2 DEF ToClient!Init, ToApp!Init

\* A step of the first session.
LEMMA FlowStep ==
    ASSUME TypeInv, FirstInv, FlowInv, [Next]_vars, FirstSession'
    PROVE  Flows' /\ [ToClient!Next]_(ToClient!vars) /\ [ToApp!Next]_(ToApp!vars)
<1>1. FirstSession  BY StaysFirst
<1>2. StartInv /\ AllFit /\ Flows  BY <1>1 DEF FirstInv, AllFit, FlowInv
<1>3. Flows' /\ OutStep /\ InStep  BY <1>1, <1>2, StreamsFlow
<1>4. [ToClient!Next]_(ToClient!vars)  BY <1>3 DEF OutStep, ToClient!vars
<1>5. [ToApp!Next]_(ToApp!vars)  BY <1>3 DEF InStep, ToApp!vars
<1> QED  BY <1>3, <1>4, <1>5

LEMMA FlowInvariant == Spec => [](TypeInv /\ FirstInv /\ FlowInv)
<1>1. Init => FlowInv  BY FlowInit DEF FlowInv
<1>2. TypeInv /\ FirstInv /\ FlowInv /\ [Next]_vars => FlowInv'  BY FlowStep DEF FlowInv
<1> QED  BY <1>1, <1>2, FirstInvariant, PTL DEF Spec

\* Where the Amiga is never reset there is but the first session.
LEMMA OneSession == ASSUME MaxSessions = 1 PROVE Spec => []FirstSession
<1> DEFINE Once == FirstSession /\ session \in {0, 1}
<1>1. Init => Once  BY DEF Init, FirstSession
<1>2. Once /\ [Next]_vars => Once'
  <2> SUFFICES ASSUME Once, [Next]_vars PROVE Once'  OBVIOUS
  <2>1. CASE DeviceStart  BY <2>1 DEF DeviceStart, FirstSession
  <2>2. CASE AmigaReset  BY <2>2 DEF AmigaReset, FirstSession
  <2>3. CASE up' = up /\ session' = session  BY <2>3 DEF FirstSession
  <2> QED
    BY <2>1, <2>2, <2>3
    DEF Next, App, AppConnect, AppRead, AppWrite, AppEos, AppReset, DriverSend, DriverReceive,
        PiReceive, PiStarted, PiFlush, Client, ClientResponse, ClientData, ClientEos, ClientReset,
        ClientGone, ClientConnect, ClientRegister, driverVars, vars
<1>3. Once => FirstSession  OBVIOUS
<1> HIDE DEF Once
<1> QED  BY <1>1, <1>2, <1>3, PTL DEF Spec

\* What the application writes the client hears: each packet once, in its order, and
\* then the EOS, by way of the wait for room in A2R (handle_app_write, handle_app_eos,
\* handle_room_in_a2r), the ring and handle_pkt_data and handle_pkt_eos, for any
\* connections, sizes and amount of data, as long as the Amiga is not reset.
THEOREM ClientStream == Spec /\ []FirstSession => StreamToClient
<1>1. Init => ToClient!Init  BY StreamsBegin
<1>2. TypeInv /\ FirstInv /\ FlowInv /\ [Next]_vars /\ FirstSession'
          => [ToClient!Next]_(ToClient!vars)
  BY FlowStep
<1> QED  BY <1>1, <1>2, FlowInvariant, PTL DEF Spec, StreamToClient, ToClient!Spec

\* What the client sends the application reads: each packet once, in its order, and
\* then the EOS, by way of the channel's packet queue and flush_send_queue, the ring,
\* handle_pkt_data, handle_pkt_eos and the socket's receive queue, under the same terms.
THEOREM AppStream == Spec /\ []FirstSession => StreamToApp
<1>1. Init => ToApp!Init  BY StreamsBegin
<1>2. TypeInv /\ FirstInv /\ FlowInv /\ [Next]_vars /\ FirstSession'
          => [ToApp!Next]_(ToApp!vars)
  BY FlowStep
<1> QED  BY <1>1, <1>2, FlowInvariant, PTL DEF Spec, StreamToApp, ToApp!Spec
=============================================================================
