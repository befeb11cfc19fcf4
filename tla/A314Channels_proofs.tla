------------------------- MODULE A314Channels_proofs -------------------------
(***************************************************************************)
(* What A314Channels keeps in every session of the driver, for any number  *)
(* of connections and sockets, any ring sizes and any amount of data: the  *)
(* types and the Pi's send queue.  What relates the two sides holds until  *)
(* the Amiga is reset; that is the subject of A314Session_proofs.          *)
(***************************************************************************)
EXTENDS A314Channels, SequenceTheorems, FiniteSetTheorems, WellFoundedInduction, TLAPS

-----------------------------------------------------------------------------
\* Queues, kept as sequences.

\* Every set of numbers has a least one: with it, what holds for 0 and for n + 1
\* whenever it holds for n, holds for all.
LEMMA LeastNumber ==
    ASSUME NEW S \in SUBSET Nat, S # {}
    PROVE  \E m \in S : \A k \in S : m <= k
<1> DEFINE T == {0 .. k : k \in S}
<1>1. T \subseteq FiniteSubsetsOf(Nat)
  <2>1. SUFFICES ASSUME NEW k \in S PROVE 0 .. k \in FiniteSubsetsOf(Nat)  OBVIOUS
  <2>2. IsFiniteSet(0 .. k)  BY FS_Interval
  <2> QED  BY <2>2 DEF FiniteSubsetsOf
<1>2. PICK x \in T : \A y \in T : ~(<<y, x>> \in StrictSubsetOrdering(Nat))
  <2>1. IsWellFoundedOn(StrictSubsetOrdering(Nat), FiniteSubsetsOf(Nat))
    BY FS_StrictSubsetOrderingWellFounded
  <2>2. T # {}  OBVIOUS
  <2> HIDE DEF T
  <2> QED  BY <1>1, <2>1, <2>2, WFMin
<1>3. PICK m \in S : x = 0 .. m  OBVIOUS
<1>4. ASSUME NEW k \in S, k < m PROVE FALSE
  <2>1. 0 .. k \in T  OBVIOUS
  <2>2. 0 .. k \subseteq 0 .. m /\ m \in 0 .. m /\ m \notin 0 .. k  BY <1>4
  <2>3. 0 .. k # 0 .. m  BY <2>2
  <2>4. 0 .. k \in SUBSET Nat /\ 0 .. m \in SUBSET Nat  OBVIOUS
  <2>5. <<0 .. k, 0 .. m>> \in StrictSubsetOrdering(Nat)
    BY <2>2, <2>3, <2>4 DEF StrictSubsetOrdering
  <2> QED  BY <1>2, <1>3, <2>1, <2>5
<1> QED  BY <1>4

\* A function whose values are all in T is a function to T.
LEMMA FunctionTo ==
    ASSUME NEW D, NEW S, NEW T, NEW f \in [D -> S], \A k \in D : f[k] \in T
    PROVE  f \in [D -> T]
  OBVIOUS

\* A queue without duplicates is as long as it has members.
LEMMA DistinctByCardinality ==
    ASSUME NEW S, NEW q \in Seq(S)
    PROVE  Cardinality(ToSet(q)) = Len(q) <=> IsInjective(q)
<1>1. q \in [1 .. Len(q) -> ToSet(q)]
  <2>1. q \in [1 .. Len(q) -> S] /\ DOMAIN q = 1 .. Len(q)  BY LenProperties
  <2>2. \A k \in 1 .. Len(q) : q[k] \in ToSet(q)  BY <2>1 DEF ToSet
  <2> QED  BY <2>1, <2>2, FunctionTo
<1>2. q \in Surjection(1 .. Len(q), ToSet(q))  BY <1>1 DEF Surjection, ToSet
<1>3. IsFiniteSet(1 .. Len(q)) /\ Cardinality(1 .. Len(q)) = Len(q)
  <2>1. Len(q) \in Nat  OBVIOUS
  <2> QED  BY <2>1, FS_Interval
<1>4. Cardinality(ToSet(q)) = Len(q) <=> q \in Injection(1 .. Len(q), ToSet(q))
  BY <1>2, <1>3, FS_Surjection
<1>5. q \in Injection(1 .. Len(q), ToSet(q)) <=> IsInjective(q)
  BY <1>1 DEF Injection, IsInjective
<1> QED  BY <1>4, <1>5

\* What a queue holds after something was put at its end ...
LEMMA AppendMembers ==
    ASSUME NEW S, NEW q \in Seq(S), NEW e \in S
    PROVE  /\ Append(q, e) \in Seq(S) /\ ToSet(Append(q, e)) = ToSet(q) \cup {e}
           /\ IsInjective(q) /\ e \notin ToSet(q) => IsInjective(Append(q, e))
<1>1. DOMAIN q = 1 .. Len(q) /\ DOMAIN Append(q, e) = 1 .. Len(q) + 1 /\ Len(q) \in Nat
  OBVIOUS
<1>2. \A k \in 1 .. Len(q) : Append(q, e)[k] = q[k]  OBVIOUS
<1>3. Append(q, e)[Len(q) + 1] = e  OBVIOUS
<1>4. ToSet(Append(q, e)) = ToSet(q) \cup {e}
  <2>1. ASSUME NEW x \in ToSet(Append(q, e)) PROVE x \in ToSet(q) \cup {e}
    <3>1. PICK k \in 1 .. Len(q) + 1 : x = Append(q, e)[k]  BY <1>1 DEF ToSet
    <3>2. k = Len(q) + 1 \/ k \in 1 .. Len(q)  BY <1>1
    <3> QED  BY <1>1, <1>2, <1>3, <3>1, <3>2 DEF ToSet
  <2>2. ASSUME NEW x \in ToSet(q) PROVE x \in ToSet(Append(q, e))
    <3>1. PICK k \in 1 .. Len(q) : x = q[k]  BY <1>1 DEF ToSet
    <3>2. k \in 1 .. Len(q) + 1  BY <1>1
    <3> QED  BY <1>1, <1>2, <3>1, <3>2 DEF ToSet
  <2>3. e \in ToSet(Append(q, e))  BY <1>1, <1>3 DEF ToSet
  <2> QED  BY <2>1, <2>2, <2>3
<1>5. ASSUME IsInjective(q), e \notin ToSet(q) PROVE IsInjective(Append(q, e))
  <2>1. SUFFICES ASSUME NEW a \in 1 .. Len(q) + 1, NEW b \in 1 .. Len(q) + 1,
                        Append(q, e)[a] = Append(q, e)[b]
                 PROVE  a = b
    BY <1>1 DEF IsInjective
  <2>2. (a = Len(q) + 1 \/ a \in 1 .. Len(q)) /\ (b = Len(q) + 1 \/ b \in 1 .. Len(q))  BY <1>1
  <2>3. \A k \in 1 .. Len(q) : q[k] # e  BY <1>1, <1>5 DEF ToSet
  <2> QED  BY <1>1, <1>2, <1>3, <1>5, <2>1, <2>2, <2>3 DEF IsInjective
<1> QED  BY <1>4, <1>5

\* ... and after its first member was taken out.
LEMMA TailMembers ==
    ASSUME NEW S, NEW q \in Seq(S), q # <<>>
    PROVE  /\ Head(q) \in S /\ Tail(q) \in Seq(S)
           /\ ToSet(q) = {Head(q)} \cup ToSet(Tail(q))
           /\ IsInjective(q) => IsInjective(Tail(q)) /\ Head(q) \notin ToSet(Tail(q))
<1>1. /\ Len(q) \in Nat \ {0} /\ DOMAIN q = 1 .. Len(q)
      /\ Tail(q) \in Seq(S) /\ DOMAIN Tail(q) = 1 .. Len(q) - 1
      /\ Head(q) = q[1] /\ q[1] \in S
  OBVIOUS
<1>2. \A k \in 1 .. Len(q) - 1 : Tail(q)[k] = q[k + 1]  OBVIOUS
<1>3. ToSet(q) = {Head(q)} \cup ToSet(Tail(q))
  <2>1. ASSUME NEW x \in ToSet(q) PROVE x \in {Head(q)} \cup ToSet(Tail(q))
    <3>1. PICK k \in 1 .. Len(q) : x = q[k]  BY <1>1 DEF ToSet
    <3>2. CASE k = 1  BY <1>1, <3>1, <3>2
    <3>3. CASE k # 1
      <4>1. k - 1 \in 1 .. Len(q) - 1 /\ (k - 1) + 1 = k  BY <1>1, <3>3
      <4>2. x = Tail(q)[k - 1]  BY <1>2, <3>1, <4>1
      <4> QED  BY <1>1, <4>1, <4>2 DEF ToSet
    <3> QED  BY <3>2, <3>3
  <2>2. ASSUME NEW x \in ToSet(Tail(q)) PROVE x \in ToSet(q)
    <3>1. PICK k \in 1 .. Len(q) - 1 : x = Tail(q)[k]  BY <1>1 DEF ToSet
    <3>2. k + 1 \in 1 .. Len(q)  BY <1>1
    <3> QED  BY <1>1, <1>2, <3>1, <3>2 DEF ToSet
  <2>3. Head(q) \in ToSet(q)  BY <1>1 DEF ToSet
  <2> QED  BY <2>1, <2>2, <2>3
<1>4. ASSUME IsInjective(q) PROVE IsInjective(Tail(q)) /\ Head(q) \notin ToSet(Tail(q))
  <2>1. \A k \in 1 .. Len(q) - 1 : k + 1 \in 1 .. Len(q) /\ k + 1 # 1  BY <1>1
  <2>2. ASSUME NEW a \in 1 .. Len(q) - 1, NEW b \in 1 .. Len(q) - 1, Tail(q)[a] = Tail(q)[b]
        PROVE  a = b
    <3>1. q[a + 1] = q[b + 1]  BY <1>2, <2>2
    <3>2. a + 1 = b + 1  BY <1>1, <1>4, <2>1, <3>1 DEF IsInjective
    <3> QED  BY <3>2
  <2>3. ASSUME NEW k \in 1 .. Len(q) - 1 PROVE Tail(q)[k] # Head(q)
    <3>1. q[k + 1] # q[1]  BY <1>1, <1>4, <2>1 DEF IsInjective
    <3> QED  BY <1>1, <1>2, <3>1
  <2> QED  BY <1>1, <2>2, <2>3 DEF IsInjective, ToSet
<1> QED  BY <1>1, <1>3, <1>4

\* Taking out the member at p moves those behind it up.
LEMMA RemoveAtElements ==
    ASSUME NEW S, NEW q \in Seq(S), NEW p \in 1 .. Len(q)
    PROVE  /\ RemoveAt(q, p) \in Seq(S) /\ Len(RemoveAt(q, p)) = Len(q) - 1
           /\ \A k \in 1 .. Len(q) - 1 : RemoveAt(q, p)[k] = IF k < p THEN q[k] ELSE q[k + 1]
<1> DEFINE n == Len(q)
<1>1. n \in Nat /\ p \in 1 .. n  OBVIOUS
<1>2. \A k \in 1 .. n : q[k] \in S  OBVIOUS
<1> DEFINE A == SubSeq(q, 1, p - 1)  B == SubSeq(q, p + 1, n)
<1>3. RemoveAt(q, p) = A \o B  BY DEF RemoveAt
<1> HIDE DEF n
<1>4. A \in Seq(S) /\ Len(A) = p - 1 /\ \A k \in 1 .. p - 1 : A[k] = q[k]
  <2>1. \A k \in 1 .. p - 1 : q[k] \in S  BY <1>1, <1>2
  <2> QED  BY <1>1, <2>1, SubSeqProperties
<1>5. B \in Seq(S) /\ Len(B) = n - p /\ \A k \in 1 .. n - p : B[k] = q[p + k]
  <2>1. \A k \in p + 1 .. n : q[k] \in S  BY <1>1, <1>2
  <2>2. p + 1 \in Int /\ n \in Int /\ n - (p + 1) + 1 = n - p  BY <1>1
  <2>3. p + 1 <= n \/ (~(p + 1 <= n) /\ n - p = 0)  BY <1>1
  <2>4. B \in Seq(S) /\ Len(B) = IF p + 1 <= n THEN n - (p + 1) + 1 ELSE 0
    BY <2>1, <2>2, SubSeqProperties
  <2>5. \A k \in 1 .. n - (p + 1) + 1 : B[k] = q[(p + 1) + k - 1]
    BY <2>1, <2>2, SubSeqProperties
  <2>6. \A k \in Int : (p + 1) + k - 1 = p + k  BY <1>1
  <2> QED  BY <2>2, <2>3, <2>4, <2>5, <2>6
<1> HIDE DEF A, B
<1>6. A \o B \in Seq(S) /\ Len(A \o B) = (p - 1) + (n - p)
  <2>1. A \o B \in Seq(S) /\ Len(A \o B) = Len(A) + Len(B)
    BY <1>4, <1>5, ConcatProperties
  <2> QED  BY <1>4, <1>5, <2>1, Zenon
<1>7. (p - 1) + (n - p) = n - 1  BY <1>1
<1>8. ASSUME NEW k \in 1 .. n - 1
      PROVE  (A \o B)[k] = IF k < p THEN q[k] ELSE q[k + 1]
  <2>1. (A \o B)[k] = IF k <= p - 1 THEN A[k] ELSE B[k - (p - 1)]
    BY <1>4, <1>5, <1>7, ConcatProperties
  <2>2. CASE k < p
    <3>1. k \in 1 .. p - 1 /\ k <= p - 1  BY <1>1, <2>2
    <3> QED  BY <1>4, <2>1, <2>2, <3>1
  <2>3. CASE ~(k < p)
    <3>1. k - (p - 1) \in 1 .. n - p /\ p + (k - (p - 1)) = k + 1 /\ ~(k <= p - 1)
      BY <1>1, <2>3
    <3> QED  BY <1>5, <2>1, <2>3, <3>1
  <2> QED  BY <2>2, <2>3
<1> QED  BY <1>3, <1>6, <1>7, <1>8 DEF n

\* remove_from_send_queue takes out a member where it is found.
LEMMA FirstOf ==
    ASSUME NEW S, NEW q \in Seq(S), NEW e, \E k \in 1 .. Len(q) : q[k] = e
    PROVE  \E p \in 1 .. Len(q) : q[p] = e /\ RemoveFirst(q, e) = RemoveAt(q, p)
<1> DEFINE I == {k \in 1 .. Len(q) : q[k] = e}
           p == Min(I)
<1>1. \E m \in I : \A k \in I : m <= k
  <2>1. I \in SUBSET Nat /\ I # {}  OBVIOUS
  <2> QED  BY <2>1, LeastNumber
<1>2. p \in I
  <2> HIDE DEF I
  <2> QED  BY <1>1 DEF Min
<1>3. RemoveFirst(q, e) = RemoveAt(q, p)
  <2>1. I # {}  OBVIOUS
  <2>2. SelectInSeq(q, LAMBDA v : v = e) = p  BY <2>1, Zenon DEF SelectInSeq
  <2> QED  BY <2>2, Zenon DEF RemoveFirst
<1> HIDE DEF p
<1> QED  BY <1>2, <1>3

\* ... and after one of its members was taken out, wherever it was.
LEMMA RemoveMembers ==
    ASSUME NEW S, NEW q \in Seq(S), NEW e
    PROVE  /\ RemoveFirst(q, e) \in Seq(S) /\ ToSet(RemoveFirst(q, e)) \subseteq ToSet(q)
           /\ ToSet(q) \subseteq ToSet(RemoveFirst(q, e)) \cup {e}
           /\ IsInjective(q) => /\ IsInjective(RemoveFirst(q, e))
                                /\ e \notin ToSet(RemoveFirst(q, e))
<1> DEFINE r == RemoveFirst(q, e)
<1>1. Len(q) \in Nat /\ DOMAIN q = 1 .. Len(q)  OBVIOUS
<1>2. CASE ~\E k \in 1 .. Len(q) : q[k] = e
  <2>1. r = q  BY <1>2 DEF RemoveFirst
  <2>2. e \notin ToSet(q)  BY <1>1, <1>2 DEF ToSet
  <2> QED  BY <2>1, <2>2
<1>3. CASE \E k \in 1 .. Len(q) : q[k] = e
  <2>3. PICK p \in 1 .. Len(q) : q[p] = e /\ r = RemoveAt(q, p)  BY <1>3, FirstOf
  <2>4. p \in 1 .. Len(q) /\ q[p] = e  BY <2>3
  <2> HIDE DEF r
  <2>6. /\ r \in Seq(S) /\ Len(r) = Len(q) - 1
        /\ \A k \in 1 .. Len(q) - 1 : r[k] = IF k < p THEN q[k] ELSE q[k + 1]
    BY <2>3, <2>4, RemoveAtElements
  <2>7. DOMAIN r = 1 .. Len(q) - 1  BY <2>6
  <2>8. ToSet(r) \subseteq ToSet(q)
    <3>1. SUFFICES ASSUME NEW k \in 1 .. Len(q) - 1 PROVE r[k] \in ToSet(q)
      BY <2>7 DEF ToSet
    <3>2. k \in 1 .. Len(q) /\ k + 1 \in 1 .. Len(q)  BY <1>1
    <3> QED  BY <1>1, <2>6, <3>2 DEF ToSet
  <2>9. ToSet(q) \subseteq ToSet(r) \cup {e}
    <3>1. SUFFICES ASSUME NEW k \in 1 .. Len(q), k # p PROVE q[k] \in ToSet(r)
      BY <1>1, <2>4 DEF ToSet
    <3>2. CASE k < p
      <4>1. k \in 1 .. Len(q) - 1 /\ r[k] = q[k]  BY <1>1, <2>4, <2>6, <3>2
      <4> QED  BY <2>7, <4>1 DEF ToSet
    <3>3. CASE k > p
      <4>1. k - 1 \in 1 .. Len(q) - 1 /\ r[k - 1] = q[k]  BY <1>1, <2>4, <2>6, <3>3
      <4> QED  BY <2>7, <4>1 DEF ToSet
    <3> QED  BY <1>1, <2>4, <3>1, <3>2, <3>3
  <2>10. ASSUME IsInjective(q) PROVE IsInjective(r) /\ e \notin ToSet(r)
    <3> DEFINE at(k) == IF k < p THEN k ELSE k + 1
    <3>1. \A k \in 1 .. Len(q) - 1 : r[k] = q[at(k)] /\ at(k) \in 1 .. Len(q) /\ at(k) # p
      BY <1>1, <2>4, <2>6
    <3>2. \A a, b \in 1 .. Len(q) - 1 : at(a) = at(b) => a = b  BY <1>1, <2>4
    <3> HIDE DEF at
    <3>3. \A a, b \in 1 .. Len(q) - 1 : r[a] = r[b] => a = b
      BY <1>1, <2>10, <3>1, <3>2 DEF IsInjective
    <3>4. \A k \in 1 .. Len(q) - 1 : r[k] # e  BY <1>1, <2>4, <2>10, <3>1 DEF IsInjective
    <3> QED  BY <2>7, <3>3, <3>4 DEF IsInjective, ToSet
  <2> QED  BY <2>6, <2>8, <2>9, <2>10 DEF r
<1> QED  BY <1>2, <1>3

-----------------------------------------------------------------------------
\* Queues of ids.

\* A queue without duplicates, a member taken out.
LEMMA QueueRemove ==
    ASSUME NEW q \in Seq(Ids), NEW e
    PROVE  /\ RemoveFirst(q, e) \in Seq(Ids) /\ ToSet(RemoveFirst(q, e)) \subseteq ToSet(q)
           /\ NoDuplicates(q) => /\ NoDuplicates(RemoveFirst(q, e))
                                 /\ ToSet(RemoveFirst(q, e)) = ToSet(q) \ {e}
<1>1. /\ RemoveFirst(q, e) \in Seq(Ids) /\ ToSet(RemoveFirst(q, e)) \subseteq ToSet(q)
      /\ ToSet(q) \subseteq ToSet(RemoveFirst(q, e)) \cup {e}
      /\ IsInjective(q) => /\ IsInjective(RemoveFirst(q, e))
                           /\ e \notin ToSet(RemoveFirst(q, e))
  BY RemoveMembers
<1>2. IsInjective(q) <=> NoDuplicates(q)  BY DistinctByCardinality DEF NoDuplicates
<1>3. IsInjective(RemoveFirst(q, e)) <=> NoDuplicates(RemoveFirst(q, e))
  BY <1>1, DistinctByCardinality DEF NoDuplicates
<1> QED  BY <1>1, <1>2, <1>3

\* ... a new member put at the end,
LEMMA QueueAppend ==
    ASSUME NEW q \in Seq(Ids), NEW e \in Ids
    PROVE  /\ Append(q, e) \in Seq(Ids) /\ ToSet(Append(q, e)) = ToSet(q) \cup {e}
           /\ NoDuplicates(q) /\ e \notin ToSet(q) => NoDuplicates(Append(q, e))
<1>1. /\ Append(q, e) \in Seq(Ids) /\ ToSet(Append(q, e)) = ToSet(q) \cup {e}
      /\ IsInjective(q) /\ e \notin ToSet(q) => IsInjective(Append(q, e))
  BY AppendMembers
<1>2. IsInjective(q) <=> NoDuplicates(q)  BY DistinctByCardinality DEF NoDuplicates
<1>3. IsInjective(Append(q, e)) <=> NoDuplicates(Append(q, e))
  BY <1>1, DistinctByCardinality DEF NoDuplicates
<1> QED  BY <1>1, <1>2, <1>3

\* ... and its first member taken out.
LEMMA QueueTail ==
    ASSUME NEW q \in Seq(Ids), q # <<>>
    PROVE  /\ Head(q) \in Ids /\ Head(q) \in ToSet(q)
           /\ Tail(q) \in Seq(Ids) /\ ToSet(q) = {Head(q)} \cup ToSet(Tail(q))
           /\ NoDuplicates(q) => /\ NoDuplicates(Tail(q))
                                 /\ ToSet(Tail(q)) = ToSet(q) \ {Head(q)}
<1>1. /\ Head(q) \in Ids /\ Tail(q) \in Seq(Ids)
      /\ ToSet(q) = {Head(q)} \cup ToSet(Tail(q))
      /\ IsInjective(q) => IsInjective(Tail(q)) /\ Head(q) \notin ToSet(Tail(q))
  BY TailMembers
<1>2. IsInjective(q) <=> NoDuplicates(q)  BY DistinctByCardinality DEF NoDuplicates
<1>3. IsInjective(Tail(q)) <=> NoDuplicates(Tail(q))
  BY <1>1, DistinctByCardinality DEF NoDuplicates
<1> QED  BY <1>1, <1>2, <1>3

\* A queue that is empty, and one of a single member.
LEMMA QueueEmpty ==
    /\ <<>> \in Seq(Ids) /\ ToSet(<<>>) = {} /\ NoDuplicates(<<>>)
    /\ \A q \in Seq(Ids) : ToSet(q) = {} => q = <<>>
<1>1. <<>> \in Seq(Ids) /\ ToSet(<<>>) = {}  BY DEF ToSet
<1>2. NoDuplicates(<<>>)
  <2>1. IsInjective(<<>>)  BY DEF IsInjective
  <2> QED  BY <1>1, <2>1, DistinctByCardinality DEF NoDuplicates
<1>3. ASSUME NEW q \in Seq(Ids), ToSet(q) = {} PROVE q = <<>>
  <2>1. q # <<>> => q[1] \in ToSet(q)  BY DEF ToSet
  <2> QED  BY <1>3, <2>1
<1> QED  BY <1>1, <1>2, <1>3

\* The members of a finite set in the order of their keys: each of them once.
LEMMA InOrderMembers ==
    ASSUME NEW S, IsFiniteSet(S), NEW key, \A x \in S : key[x] \in Int,
           NEW f \in InOrder(S, key)
    PROVE  f \in Seq(S) /\ Len(f) = Cardinality(S) /\ IsInjective(f) /\ ToSet(f) = S
<1> DEFINE n == Cardinality(S)
<1>1. n \in Nat  BY FS_CardinalityType
<1>2. f \in [1 .. n -> S] /\ \A a, b \in 1 .. n : a < b => key[f[a]] < key[f[b]]
  BY DEF InOrder
<1> HIDE DEF n
<1>3. \A a, b \in 1 .. n : f[a] = f[b] => a = b
  <2>1. SUFFICES ASSUME NEW a \in 1 .. n, NEW b \in 1 .. n, f[a] = f[b], a # b PROVE FALSE
    OBVIOUS
  <2>2. f[a] \in S /\ key[f[a]] \in Int  BY <1>2
  <2>3. a < b \/ b < a  BY <1>1, <2>1
  <2>4. key[f[a]] < key[f[a]]  BY <1>2, <2>1, <2>3
  <2> QED  BY <2>2, <2>4
<1>4. f \in Injection(1 .. n, S)  BY <1>2, <1>3 DEF Injection, IsInjective
<1>5. Cardinality(1 .. n) = n  BY <1>1, FS_Interval
<1>6. f \in Surjection(1 .. n, S)  BY <1>4, <1>5, FS_Injection DEF n
<1>7. f \in Seq(S) /\ Len(f) = n /\ DOMAIN f = 1 .. n
  <2>1. f \in Seq(S)  BY <1>1, <1>2, SeqDef
  <2>2. DOMAIN f = 1 .. n /\ DOMAIN f = 1 .. Len(f) /\ Len(f) \in Nat  BY <1>2, <2>1, LenProperties
  <2> QED  BY <1>1, <2>1, <2>2
<1> QED  BY <1>2, <1>3, <1>6, <1>7 DEF IsInjective, Surjection, ToSet, n

\* What close_and_remove_connection makes of the send queue: its channels are in
\* it once each, behind all others.
LEMMA RequeuedMembers ==
    ASSUME NEW q \in Seq(Ids), NoDuplicates(q), NEW mine \in SUBSET Ids,
           NEW key, \A i \in Ids : key[i] \in Int,
           NEW kept \in KeptPositions(q, mine), NEW order \in InOrder(mine, key),
           NEW r, r = Requeued(q, kept, order)
    PROVE  r \in Seq(Ids) /\ NoDuplicates(r) /\ ToSet(r) = ToSet(q) \cup mine
<1> DEFINE D == {k \in DOMAIN q : q[k] \notin mine}
           s == [k \in DOMAIN kept |-> q[kept[k]]]
<1>0. r = s \o order  BY DEF Requeued
<1>1. DOMAIN q = 1 .. Len(q) /\ Len(q) \in Nat /\ \A k \in DOMAIN q : q[k] \in Ids  OBVIOUS
<1>2. IsFiniteSet(D) /\ IsFiniteSet(mine)
  <2>1. IsFiniteSet(1 .. Len(q)) /\ IsFiniteSet(Ids)
    BY <1>1, ChannelAssumption, FS_Interval DEF Ids
  <2> QED  BY <1>1, <2>1, FS_Subset
<1>3. kept \in Seq(D) /\ IsInjective(kept) /\ ToSet(kept) = D
  <2>1. kept \in InOrder(D, [k \in DOMAIN q |-> k])  BY DEF KeptPositions
  <2>2. \A k \in D : [j \in DOMAIN q |-> j][k] \in Int  BY <1>1
  <2> HIDE DEF D
  <2> QED  BY <1>2, <2>1, <2>2, InOrderMembers
<1>4. order \in Seq(mine) /\ IsInjective(order) /\ ToSet(order) = mine
  BY <1>2, InOrderMembers
<1>5. IsInjective(q)  BY DistinctByCardinality DEF NoDuplicates
<1>6. /\ DOMAIN kept = 1 .. Len(kept) /\ Len(kept) \in Nat
      /\ \A k \in 1 .. Len(kept) : kept[k] \in D
  BY <1>3
<1>7. \A k \in 1 .. Len(kept) : s[k] = q[kept[k]] /\ s[k] \in Ids \ mine  BY <1>1, <1>6
<1>8. s \in Seq(Ids) /\ Len(s) = Len(kept)
  <2>1. s \in [1 .. Len(kept) -> Ids]  BY <1>6, <1>7
  <2> HIDE DEF s
  <2>2. s \in Seq(Ids)  BY <1>6, <2>1, SeqDef
  <2>3. DOMAIN s = 1 .. Len(kept) /\ DOMAIN s = 1 .. Len(s) /\ Len(s) \in Nat
    BY <2>1, <2>2, LenProperties
  <2> QED  BY <1>6, <2>2, <2>3
<1>9. \A a, b \in 1 .. Len(kept) : s[a] = s[b] => a = b
  BY <1>3, <1>5, <1>6, <1>7 DEF IsInjective
<1>10. /\ \A k \in 1 .. Len(kept) : s[k] \in ToSet(q)
       /\ \A x \in ToSet(q) \ mine : \E k \in 1 .. Len(kept) : s[k] = x
  <2>1. \A k \in 1 .. Len(kept) : s[k] \in ToSet(q)  BY <1>6, <1>7 DEF ToSet
  <2>2. ASSUME NEW x \in ToSet(q) \ mine PROVE \E k \in 1 .. Len(kept) : s[k] = x
    <3>1. PICK j \in DOMAIN q : q[j] = x  BY DEF ToSet
    <3>2. j \in ToSet(kept)  BY <1>3, <3>1
    <3>3. PICK k \in 1 .. Len(kept) : kept[k] = j  BY <1>6, <3>2 DEF ToSet
    <3> QED  BY <1>7, <3>1, <3>3
  <2> QED  BY <2>1, <2>2
<1> HIDE DEF s
<1>11. /\ order \in Seq(Ids) /\ Len(order) \in Nat /\ DOMAIN order = 1 .. Len(order)
       /\ \A k \in 1 .. Len(order) : order[k] \in mine
  BY <1>4
<1>12. /\ r \in Seq(Ids) /\ Len(r) = Len(s) + Len(order)
       /\ \A k \in 1 .. Len(s) + Len(order) :
              r[k] = IF k <= Len(s) THEN s[k] ELSE order[k - Len(s)]
  <2>1. /\ s \o order \in Seq(Ids) /\ Len(s \o order) = Len(s) + Len(order)
        /\ \A k \in 1 .. Len(s) + Len(order) :
               (s \o order)[k] = IF k <= Len(s) THEN s[k] ELSE order[k - Len(s)]
    BY <1>8, <1>11, ConcatProperties
  <2> QED  BY <1>0, <2>1, Zenon
<1>13. DOMAIN r = 1 .. Len(s) + Len(order) /\ Len(s) \in Nat  BY <1>6, <1>8, <1>12
<1>14. \A k \in DOMAIN r : \/ k \in 1 .. Len(s) /\ r[k] = s[k] /\ r[k] \notin mine
                           \/ /\ k - Len(s) \in 1 .. Len(order) /\ r[k] = order[k - Len(s)]
                              /\ r[k] \in mine
  BY <1>7, <1>8, <1>11, <1>12, <1>13
<1>15. IsInjective(r)
  <2>1. SUFFICES ASSUME NEW a \in DOMAIN r, NEW b \in DOMAIN r, r[a] = r[b] PROVE a = b
    BY DEF IsInjective
  <2>2. CASE r[a] \notin mine
    <3>1. a \in 1 .. Len(s) /\ b \in 1 .. Len(s) /\ s[a] = s[b]  BY <1>14, <2>1, <2>2
    <3> QED  BY <1>8, <1>9, <3>1
  <2>3. CASE r[a] \in mine
    <3>1. /\ a - Len(s) \in 1 .. Len(order) /\ b - Len(s) \in 1 .. Len(order)
          /\ order[a - Len(s)] = order[b - Len(s)]
      BY <1>14, <2>1, <2>3
    <3>2. a - Len(s) = b - Len(s)  BY <1>4, <1>11, <3>1 DEF IsInjective
    <3> QED  BY <1>13, <3>2
  <2> QED  BY <2>2, <2>3
<1>16. ToSet(r) = ToSet(q) \cup mine
  <2>1. ASSUME NEW k \in DOMAIN r PROVE r[k] \in ToSet(q) \cup mine
    BY <1>8, <1>10, <1>14
  <2>2. ASSUME NEW x \in ToSet(q) \ mine PROVE \E k \in DOMAIN r : r[k] = x
    <3>1. PICK k \in 1 .. Len(s) : s[k] = x  BY <1>8, <1>10
    <3>2. k \in 1 .. Len(s) + Len(order) /\ k <= Len(s)  BY <1>11, <1>13
    <3> QED  BY <1>12, <1>13, <3>1, <3>2
  <2>3. ASSUME NEW x \in mine PROVE \E k \in DOMAIN r : r[k] = x
    <3>1. PICK k \in 1 .. Len(order) : order[k] = x  BY <1>4, <1>11 DEF ToSet
    <3> DEFINE j == k + Len(s)
    <3>2. j \in 1 .. Len(s) + Len(order) /\ ~(j <= Len(s)) /\ j - Len(s) = k
      BY <1>11, <1>13
    <3> HIDE DEF j
    <3> QED  BY <1>12, <1>13, <3>1, <3>2
  <2> QED  BY <2>1, <2>2, <2>3 DEF ToSet
<1>17. NoDuplicates(r)  BY <1>12, <1>15, DistinctByCardinality DEF NoDuplicates
<1> QED  BY <1>12, <1>16, <1>17

-----------------------------------------------------------------------------
\* Types.  A socket waits to send at most one thing, and what it still writes is
\* within the bound: with it and PiQueueSound the types are inductive.
Requests(s) == s.pend \cap {"CONNECT", "WRITE", "EOS"}

OneRequest ==
    \A i \in Ids : /\ \A a, b \in Requests(sock[i]) : a = b
                   /\ "WRITE" \in sock[i].pend => Len(wrote[i]) < DataOf(i)

\* The packets that are sent have their types.
LEMMA PacketTypes ==
    ASSUME NEW i \in Ids
    PROVE  /\ \A t \in {"CONNECT", "EOS", "RESET"} : Packet(t, i, 0) \in A2RPackets
           /\ \A x \in 1 .. MaxData : Packet("DATA", i, x) \in A2RPackets
           /\ \A t \in {"EOS", "RESET"} : Packet(t, i, 0) \in R2APackets({i})
           /\ \A x \in 1 .. MaxData : Packet("DATA", i, x) \in R2APackets({i})
           /\ \A x \in {CONNECT_OK, CONNECT_UNKNOWN_SERVICE} :
                  Packet("RESPONSE", i, x) \in R2APackets({i})
  BY DEF Packet, Packets, A2RPackets, R2APackets

\* A packet of the Pi is one of its channel's.
LEMMA PacketOfChannel ==
    /\ \A i \in Ids : R2APackets({i}) \subseteq R2APackets(Ids)
    /\ \A i \in Ids : \A p \in R2APackets({i}) : p.id = i
    /\ \A p \in R2APackets(Ids) : p.id \in Ids /\ p \in R2APackets({p.id})
    /\ \A p \in R2APackets(Ids) : p.type = "DATA" => p.x \in 1 .. MaxData
    /\ \A p \in A2RPackets : p.id \in Ids
    /\ \A p \in A2RPackets : p.type = "DATA" => p.x \in 1 .. MaxData
    /\ \A p \in A2RPackets : p.type \in {"CONNECT", "EOS", "RESET", "DATA"}
    /\ \A p \in A2RPackets : p.type # "DATA" => p = Packet(p.type, p.id, 0)
  BY DEF Packets, A2RPackets, R2APackets, Packet

\* What the driver makes of a socket is one.
LEMMA SocketTypes ==
    ASSUME NEW s \in Socket
    PROVE  /\ s.pend \subseteq {"CONNECT", "READ", "WRITE", "EOS"} /\ s.flags \subseteq FLAGS
           /\ s.rq \in Seq(1 .. MaxData) /\ s.socket \in Sockets \cup {0}
           /\ s.state \in {"free", "open", "closed"}
           /\ \A e \in {"CONNECT", "READ", "WRITE", "EOS"} :
                  [s EXCEPT !.pend = @ \cup {e}] \in Socket
           /\ \A e : [s EXCEPT !.pend = @ \ {e}] \in Socket
           /\ \A f \in SUBSET FLAGS : [s EXCEPT !.flags = f] \in Socket
           /\ \A q \in Seq(1 .. MaxData) : [s EXCEPT !.rq = q] \in Socket
           /\ \A n \in Sockets \cup {0} : \A e \in {{}, {"CONNECT"}} : \A t \in {"open", "closed"} :
                  [Free EXCEPT !.state = t, !.socket = n, !.pend = e] \in Socket
           /\ Free \in Socket
<1>1. <<>> \in Seq(1 .. MaxData)  OBVIOUS
<1> QED  BY <1>1 DEF Socket, Free

\* A socket that is closed with a packet to send.
LEMMA ClosedSocket ==
    ASSUME NEW n \in Sockets \cup {0}
    PROVE  [Free EXCEPT !.state = "closed", !.socket = n] \in Socket
<1>1. <<>> \in Seq(1 .. MaxData)  OBVIOUS
<1> QED  BY <1>1 DEF Socket, Free

\* What is sent at once, and what waits for its turn.
LEMMA SendTypes ==
    ASSUME TypeOK, NEW q \in Seq(Ids), NEW i \in Ids, NEW p \in A2RPackets,
           SendNow(q, p) \/ Queue(q, i)
    PROVE  sendq' \in Seq(Ids) /\ a2r' \in Seq(A2RPackets) /\ Len(a2r') <= A2RCap
<1>1. a2r \in Seq(A2RPackets) /\ Len(a2r) <= A2RCap /\ Len(a2r) \in Nat /\ A2RCap \in Nat
  BY ChannelAssumption DEF TypeOK
<1>2. CASE SendNow(q, p)  BY <1>1, <1>2 DEF SendNow, RoomInA2R
<1>3. CASE Queue(q, i)  BY <1>1, <1>3 DEF Queue
<1> QED  BY <1>2, <1>3

\* close_socket.
LEMMA CloseTypes ==
    ASSUME TypeOK, NEW i \in Ids, NEW r \in BOOLEAN, CloseSocket(i, r)
    PROVE  /\ sendq' \in Seq(Ids) /\ a2r' \in Seq(A2RPackets) /\ Len(a2r') <= A2RCap
           /\ sock' \in [Ids -> Socket]
           /\ sock'[i].pend = {} /\ \A j \in Ids \ {i} : sock'[j] = sock[j]
<1>1. RemoveFirst(sendq, i) \in Seq(Ids)  BY QueueRemove DEF TypeOK
<1>2. Packet("RESET", i, 0) \in A2RPackets  BY PacketTypes
<1>3. a2r \in Seq(A2RPackets) /\ Len(a2r) <= A2RCap /\ sock \in [Ids -> Socket]  BY DEF TypeOK
<1>4. sendq' \in Seq(Ids) /\ a2r' \in Seq(A2RPackets) /\ Len(a2r') <= A2RCap
  <2>1. CASE ~r  BY <1>1, <1>3, <2>1 DEF CloseSocket
  <2>2. CASE r
    <3>1. SendNow(RemoveFirst(sendq, i), Packet("RESET", i, 0)) \/ Queue(RemoveFirst(sendq, i), i)
      BY <2>2 DEF CloseSocket
    <3> QED  BY <1>1, <1>2, <3>1, SendTypes
  <2> QED  BY <2>1, <2>2
<1>5. PICK s \in Socket : sock' = [sock EXCEPT ![i] = s] /\ s.pend = {}
  <2>1. Free \in Socket /\ Free.pend = {}
    <3>1. <<>> \in Seq(1 .. MaxData)  OBVIOUS
    <3> QED  BY <3>1 DEF Socket, Free
  <2>2. sock[i].socket \in Sockets \cup {0}  BY <1>3 DEF Socket
  <2> DEFINE s == [Free EXCEPT !.state = "closed", !.socket = sock[i].socket]
  <2>3. s \in Socket /\ s.pend = {}  BY <2>2, ClosedSocket DEF Free
  <2> HIDE DEF s
  <2>4. sock' = [sock EXCEPT ![i] = Free] \/ sock' = [sock EXCEPT ![i] = s]
    BY DEF CloseSocket, s
  <2> QED  BY <2>1, <2>3, <2>4
<1> QED  BY <1>3, <1>4, <1>5

\* The driver's variables have their types.
DriverTypes ==
    /\ sock \in [Ids -> Socket] /\ sendq \in Seq(Ids)
    /\ a2r \in Seq(A2RPackets) /\ Len(a2r) <= A2RCap
    /\ wrote \in [Ids -> Seq(0 .. MaxData)] /\ seen \in [Ids -> Seq(0 .. MaxData)]
    /\ OneRequest

\* A step of one socket that asks for nothing new keeps OneRequest.
LEMMA SameRequests ==
    ASSUME OneRequest, NEW i \in Ids,
           \A j \in Ids \ {i} : sock'[j] = sock[j] /\ wrote'[j] = wrote[j],
           Requests(sock'[i]) \subseteq Requests(sock[i]),
           wrote'[i] = wrote[i] \/ "WRITE" \notin sock'[i].pend
    PROVE  OneRequest'
<1>1. \A a, b \in Requests(sock'[i]) : a = b  BY DEF OneRequest
<1>2. "WRITE" \in sock'[i].pend => "WRITE" \in sock[i].pend  BY DEF Requests
<1>3. "WRITE" \in sock'[i].pend => Len(wrote'[i]) < DataOf(i)  BY <1>2 DEF OneRequest
<1>4. \A j \in Ids \ {i} : /\ \A a, b \in Requests(sock'[j]) : a = b
                           /\ "WRITE" \in sock'[j].pend => Len(wrote'[j]) < DataOf(j)
  BY DEF OneRequest
<1> QED  BY <1>1, <1>3, <1>4 DEF OneRequest

\* ... and so does a socket that asks for one thing where it asked for nothing.
LEMMA NewRequest ==
    ASSUME OneRequest, NEW i \in Ids, NEW e,
           \A j \in Ids \ {i} : sock'[j] = sock[j], wrote' = wrote,
           Requests(sock'[i]) = {e}, e = "WRITE" => Len(wrote[i]) < DataOf(i)
    PROVE  OneRequest'
<1>1. \A a, b \in Requests(sock'[i]) : a = b  OBVIOUS
<1>2. "WRITE" \in sock'[i].pend => e = "WRITE"  BY DEF Requests
<1>3. \A j \in Ids \ {i} : /\ \A a, b \in Requests(sock'[j]) : a = b
                           /\ "WRITE" \in sock'[j].pend => Len(wrote'[j]) < DataOf(j)
  BY DEF OneRequest
<1> QED  BY <1>1, <1>2, <1>3 DEF OneRequest

\* What the application writes and reads is numbered within the bound.
LEMMA HistoryTypes ==
    ASSUME TypeOK, NEW i \in Ids
    PROVE  /\ EOS \in 0 .. MaxData /\ DataOf(i) <= MaxData /\ DataOf(i) \in Nat
           /\ \A x \in 0 .. MaxData :
                  /\ [wrote EXCEPT ![i] = Append(@, x)] \in [Ids -> Seq(0 .. MaxData)]
                  /\ [seen EXCEPT ![i] = Append(@, x)] \in [Ids -> Seq(0 .. MaxData)]
           /\ Len(wrote[i]) < DataOf(i) => Len(wrote[i]) + 1 \in 1 .. MaxData
<1>1. EOS \in 0 .. MaxData /\ DataOf(i) <= MaxData /\ DataOf(i) \in Nat
  BY ChannelAssumption DEF EOS, DataOf
<1>2. wrote[i] \in Seq(0 .. MaxData) /\ seen[i] \in Seq(0 .. MaxData)  BY DEF TypeOK
<1>3. Len(wrote[i]) < DataOf(i) => Len(wrote[i]) + 1 \in 1 .. MaxData
  BY <1>1, <1>2, ChannelAssumption
<1> QED  BY <1>1, <1>2, <1>3 DEF TypeOK

\* A socket is closed: its types, and it asks for nothing.
LEMMA CloseStep ==
    ASSUME TypeOK, OneRequest, NEW i \in Ids, NEW r \in BOOLEAN, CloseSocket(i, r),
           wrote' = wrote, seen' \in [Ids -> Seq(0 .. MaxData)]
    PROVE  DriverTypes'
<1>1. /\ sendq' \in Seq(Ids) /\ a2r' \in Seq(A2RPackets) /\ Len(a2r') <= A2RCap
      /\ sock' \in [Ids -> Socket]
      /\ sock'[i].pend = {} /\ \A j \in Ids \ {i} : sock'[j] = sock[j]
  BY CloseTypes
<1>2. Requests(sock'[i]) \subseteq Requests(sock[i])  BY <1>1 DEF Requests
<1>3. OneRequest'  BY <1>1, <1>2, SameRequests
<1> QED  BY <1>1, <1>3 DEF DriverTypes, TypeOK

\* handle_app_connect.
LEMMA TypeConnect ==
    ASSUME TypeOK, OneRequest, NEW n \in Sockets, AppConnect(n)
    PROVE  DriverTypes' /\ next' \in 1 .. MaxConns + 1
<1> DEFINE s == [Free EXCEPT !.state = "open", !.socket = n, !.pend = {"CONNECT"}]
<1>1. next \in Ids /\ next' = next + 1 /\ next' \in 1 .. MaxConns + 1
  BY ChannelAssumption DEF AppConnect, Ids
<1>2. s \in Socket /\ Requests(s) = {"CONNECT"}
  <2>1. <<>> \in Seq(1 .. MaxData)  OBVIOUS
  <2> QED  BY <2>1 DEF Socket, Free, Requests
<1>3. SendNow(sendq, Packet("CONNECT", next, 0)) \/ Queue(sendq, next)  BY DEF AppConnect
<1>4. sendq' \in Seq(Ids) /\ a2r' \in Seq(A2RPackets) /\ Len(a2r') <= A2RCap
  BY <1>1, <1>3, PacketTypes, SendTypes DEF TypeOK
<1> HIDE DEF s
<1>5. sock' = [sock EXCEPT ![next] = s] /\ wrote' = wrote /\ seen' = seen
  BY DEF AppConnect, s
<1>6. sock' \in [Ids -> Socket] /\ sock'[next] = s /\ \A j \in Ids \ {next} : sock'[j] = sock[j]
  BY <1>1, <1>2, <1>5 DEF TypeOK
<1>7. OneRequest'  BY <1>1, <1>2, <1>5, <1>6, NewRequest
<1> QED  BY <1>1, <1>4, <1>5, <1>6, <1>7 DEF DriverTypes, TypeOK

\* One socket changes, and asks for nothing new; nothing is sent.
LEMMA SocketStep ==
    ASSUME TypeOK, OneRequest, NEW i \in Ids, NEW s \in Socket,
           sock' = [sock EXCEPT ![i] = s], Requests(s) \subseteq Requests(sock[i]),
           sendq' = sendq, a2r' = a2r, wrote' = wrote, seen' \in [Ids -> Seq(0 .. MaxData)]
    PROVE  DriverTypes'
<1>1. sock' \in [Ids -> Socket] /\ sock'[i] = s /\ \A j \in Ids \ {i} : sock'[j] = sock[j]
  BY DEF TypeOK
<1>2. OneRequest'  BY <1>1, SameRequests
<1> QED  BY <1>1, <1>2 DEF DriverTypes, TypeOK

\* The application reads an EOS.
LEMMA TypeGiveEos ==
    ASSUME TypeOK, OneRequest, NEW i \in Ids, NEW f \in SUBSET FLAGS, GiveEos(i, f),
           wrote' = wrote
    PROVE  DriverTypes'
<1>1. seen' \in [Ids -> Seq(0 .. MaxData)]  BY HistoryTypes DEF GiveEos
<1>2. CASE "SENT_EOS_TO_RPI" \in f  BY <1>1, <1>2, CloseStep DEF GiveEos
<1>3. CASE "SENT_EOS_TO_RPI" \notin f
  <2> DEFINE g == f \cup {"SENT_EOS_TO_APP"}
             s == [sock[i] EXCEPT !.flags = g, !.pend = @ \ {"READ"}]
  <2>1. sock[i] \in Socket /\ g \in SUBSET FLAGS  BY DEF TypeOK, FLAGS
  <2>2. s \in Socket /\ Requests(s) \subseteq Requests(sock[i])
    BY <2>1 DEF Socket, Requests
  <2>3. sock' = [sock EXCEPT ![i] = s] /\ sendq' = sendq /\ a2r' = a2r
    BY <1>3, <2>1 DEF GiveEos, TypeOK
  <2> HIDE DEF s
  <2> QED  BY <1>1, <2>2, <2>3, SocketStep
<1> QED  BY <1>2, <1>3

\* handle_app_read.
LEMMA TypeRead ==
    ASSUME TypeOK, OneRequest, NEW i \in Ids, AppRead(i)
    PROVE  DriverTypes'
<1> DEFINE s == sock[i]
<1>1. s \in Socket /\ s.flags \in SUBSET FLAGS /\ s.rq \in Seq(1 .. MaxData)
  <2>1. s \in Socket  BY DEF TypeOK
  <2> QED  BY <2>1, SocketTypes
<1>2. wrote' = wrote  BY DEF AppRead
<1>3. seen \in [Ids -> Seq(0 .. MaxData)] /\ sock \in [Ids -> Socket]  BY DEF TypeOK
<1>4. CASE CloseSocket(i, TRUE) /\ UNCHANGED seen  BY <1>2, <1>3, <1>4, CloseStep
<1>5. CASE s.rq # <<>> /\ GiveData(i, Head(s.rq), [s EXCEPT !.rq = Tail(@)])
  <2>1. Head(s.rq) \in 1 .. MaxData /\ Tail(s.rq) \in Seq(1 .. MaxData)
    <3>1. s.rq # <<>>  BY <1>5
    <3> HIDE DEF s
    <3> QED  BY <1>1, <3>1, HeadTailProperties
  <2>2. [s EXCEPT !.rq = Tail(@)] = [s EXCEPT !.rq = Tail(s.rq)]  OBVIOUS
  <2>3. [s EXCEPT !.rq = Tail(@)] \in Socket /\ [s EXCEPT !.rq = Tail(@)].pend = s.pend
    BY <1>1, <2>1, <2>2, SocketTypes DEF Socket
  <2>4. Head(s.rq) \in 0 .. MaxData  BY <2>1
  <2>5. seen' \in [Ids -> Seq(0 .. MaxData)]  BY <1>5, <2>4, HistoryTypes DEF GiveData
  <2>6. Requests([s EXCEPT !.rq = Tail(@)]) = Requests(s)  BY <2>3 DEF Requests
  <2> QED  BY <1>2, <1>5, <2>3, <2>5, <2>6, SocketStep DEF GiveData
<1>6. CASE GiveEos(i, s.flags)  BY <1>1, <1>2, <1>6, TypeGiveEos
<1>7. CASE sock' = [sock EXCEPT ![i].pend = @ \cup {"READ"}] /\ UNCHANGED <<sendq, a2r, seen>>
  <2>1. sock' = [sock EXCEPT ![i] = [s EXCEPT !.pend = @ \cup {"READ"}]]
    BY <1>3, <1>7, Zenon
  <2>2. [s EXCEPT !.pend = @ \cup {"READ"}] \in Socket  BY <1>1, SocketTypes
  <2>3. Requests([s EXCEPT !.pend = @ \cup {"READ"}]) \subseteq Requests(s)
    BY <1>1 DEF Requests, Socket
  <2> QED  BY <1>2, <1>3, <1>7, <2>1, <2>2, <2>3, SocketStep
<1> QED  BY <1>4, <1>5, <1>6, <1>7 DEF AppRead

\* A socket asks for something and waits for its turn.
LEMMA WaitStep ==
    ASSUME TypeOK, OneRequest, NEW i \in Ids, NEW s \in Socket, NEW e,
           sock' = [sock EXCEPT ![i] = s], Requests(s) = {e},
           e = "WRITE" => Len(wrote[i]) < DataOf(i),
           Queue(sendq, i), wrote' = wrote, seen' = seen
    PROVE  DriverTypes'
<1>1. sock' \in [Ids -> Socket] /\ sock'[i] = s /\ \A j \in Ids \ {i} : sock'[j] = sock[j]
  BY DEF TypeOK
<1>2. OneRequest'  BY <1>1, NewRequest
<1>3. sendq' \in Seq(Ids) /\ a2r' \in Seq(A2RPackets) /\ Len(a2r') <= A2RCap
  <2>1. Packet("RESET", i, 0) \in A2RPackets  BY PacketTypes
  <2> QED  BY <2>1, SendTypes DEF TypeOK
<1> QED  BY <1>1, <1>2, <1>3 DEF DriverTypes, TypeOK

\* A socket sends what it asked for, or asks for and sends it at once.
LEMMA SentStep ==
    ASSUME TypeOK, OneRequest, NEW i \in Ids, NEW s \in Socket, NEW x \in 0 .. MaxData,
           sock' = [sock EXCEPT ![i] = s], Requests(s) = {},
           wrote' = [wrote EXCEPT ![i] = Append(@, x)], seen' = seen
    PROVE  /\ sock' \in [Ids -> Socket] /\ OneRequest'
           /\ wrote' \in [Ids -> Seq(0 .. MaxData)] /\ seen' \in [Ids -> Seq(0 .. MaxData)]
<1>1. sock' \in [Ids -> Socket] /\ sock'[i] = s /\ \A j \in Ids \ {i} : sock'[j] = sock[j]
  BY DEF TypeOK
<1>2. wrote' \in [Ids -> Seq(0 .. MaxData)] /\ seen' \in [Ids -> Seq(0 .. MaxData)]
  BY HistoryTypes DEF TypeOK
<1>3. \A j \in Ids \ {i} : wrote'[j] = wrote[j]  BY DEF TypeOK
<1>4. "WRITE" \notin s.pend  BY DEF Requests
<1>5. Requests(sock'[i]) \subseteq Requests(sock[i])  BY <1>1
<1>6. OneRequest'  BY <1>1, <1>3, <1>4, <1>5, SameRequests
<1> QED  BY <1>1, <1>2, <1>6

\* handle_app_write.
LEMMA TypeWrite ==
    ASSUME TypeOK, OneRequest, NEW i \in Ids, AppWrite(i)
    PROVE  DriverTypes'
<1> DEFINE s == sock[i]
<1>1. s \in Socket /\ sock \in [Ids -> Socket] /\ seen' = seen
  BY DEF AppWrite, TypeOK
<1>2. CASE CloseSocket(i, TRUE) /\ UNCHANGED wrote
  BY <1>1, <1>2, CloseStep DEF TypeOK
<1>3. CASE ~OutOfPlace(s) /\ Len(wrote[i]) < DataOf(i)
  <2>1. Requests(s) = {}  BY <1>3 DEF OutOfPlace, Requests
  <2>2. Len(wrote[i]) + 1 \in 1 .. MaxData /\ Len(wrote[i]) + 1 \in 0 .. MaxData
    BY <1>3, HistoryTypes
  <2>3. CASE /\ SendNow(sendq, Packet("DATA", i, Len(wrote[i]) + 1))
             /\ wrote' = [wrote EXCEPT ![i] = Append(@, Len(@) + 1)]
             /\ UNCHANGED sock
    <3>1. sendq' \in Seq(Ids) /\ a2r' \in Seq(A2RPackets) /\ Len(a2r') <= A2RCap
      BY <2>2, <2>3, PacketTypes, SendTypes DEF TypeOK
    <3>2. sock' = [sock EXCEPT ![i] = s]  BY <1>1, <2>3
    <3>3. wrote' = [wrote EXCEPT ![i] = Append(@, Len(wrote[i]) + 1)]  BY <2>3, Zenon
    <3> HIDE DEF s
    <3>4. /\ sock' \in [Ids -> Socket] /\ OneRequest'
          /\ wrote' \in [Ids -> Seq(0 .. MaxData)] /\ seen' \in [Ids -> Seq(0 .. MaxData)]
      BY <1>1, <2>1, <2>2, <3>2, <3>3, SentStep
    <3> QED  BY <3>1, <3>4 DEF DriverTypes
  <2>4. CASE /\ Queue(sendq, i) /\ UNCHANGED wrote
             /\ sock' = [sock EXCEPT ![i].pend = @ \cup {"WRITE"}]
    <3> DEFINE w == [s EXCEPT !.pend = @ \cup {"WRITE"}]
    <3>1. sock' = [sock EXCEPT ![i] = w]  BY <1>1, <2>4, Zenon
    <3>2. w \in Socket  BY <1>1, SocketTypes
    <3>3. Requests(w) = {"WRITE"}  BY <1>1, <2>1 DEF Requests, Socket
    <3> HIDE DEF w
    <3> QED  BY <1>1, <1>3, <2>4, <3>1, <3>2, <3>3, WaitStep
  <2> QED  BY <1>2, <1>3, <2>3, <2>4 DEF AppWrite
<1> QED  BY <1>2, <1>3 DEF AppWrite

\* The EOS of the application is in the ring.
LEMMA TypeEosSent ==
    ASSUME TypeOK, OneRequest, NEW i \in Ids, EosSent(i, sock[i]), seen' = seen,
           Requests(sock[i]) \subseteq {"EOS"}
    PROVE  /\ sock' \in [Ids -> Socket] /\ OneRequest'
           /\ wrote' \in [Ids -> Seq(0 .. MaxData)] /\ seen' \in [Ids -> Seq(0 .. MaxData)]
<1> DEFINE s == sock[i]
           t == [s EXCEPT !.flags = @ \cup {"RCVD_EOS_FROM_APP", "SENT_EOS_TO_RPI"},
                          !.pend = @ \ {"EOS"}]
<1>1. s \in Socket /\ Free \in Socket /\ Requests(Free) = {}
  <2>1. s \in Socket  BY DEF TypeOK
  <2> QED  BY <2>1, SocketTypes DEF Requests, Free
<1>2. t \in Socket /\ Requests(t) = {}  BY <1>1 DEF Socket, Requests, FLAGS
<1> HIDE DEF t
<1>3. PICK u \in Socket : sock' = [sock EXCEPT ![i] = u] /\ Requests(u) = {}
  <2>1. sock' = [sock EXCEPT ![i] = Free] \/ sock' = [sock EXCEPT ![i] = t]
    BY Zenon DEF EosSent, t
  <2> QED  BY <1>1, <1>2, <2>1
<1>4. EOS \in 0 .. MaxData  BY HistoryTypes
<1> QED  BY <1>3, <1>4, SentStep DEF EosSent

\* handle_app_eos.
LEMMA TypeEos ==
    ASSUME TypeOK, OneRequest, NEW i \in Ids, AppEos(i)
    PROVE  DriverTypes'
<1> DEFINE s == sock[i]
<1>1. s \in Socket /\ sock \in [Ids -> Socket] /\ seen' = seen
  BY DEF AppEos, TypeOK
<1>2. CASE CloseSocket(i, TRUE) /\ UNCHANGED wrote
  BY <1>1, <1>2, CloseStep DEF TypeOK
<1>3. CASE ~OutOfPlace(s)
  <2>1. Requests(s) = {}  BY <1>3 DEF OutOfPlace, Requests
  <2>2. CASE SendNow(sendq, Packet("EOS", i, 0)) /\ EosSent(i, s)
    <3>1. sendq' \in Seq(Ids) /\ a2r' \in Seq(A2RPackets) /\ Len(a2r') <= A2RCap
      BY <2>2, PacketTypes, SendTypes DEF TypeOK
    <3>2. /\ sock' \in [Ids -> Socket] /\ OneRequest'
          /\ wrote' \in [Ids -> Seq(0 .. MaxData)] /\ seen' \in [Ids -> Seq(0 .. MaxData)]
      BY <1>1, <2>1, <2>2, TypeEosSent
    <3> QED  BY <3>1, <3>2 DEF DriverTypes
  <2>3. CASE /\ Queue(sendq, i) /\ UNCHANGED wrote
             /\ sock' = [sock EXCEPT ![i].pend = @ \cup {"EOS"},
                                     ![i].flags = @ \cup {"RCVD_EOS_FROM_APP"}]
    <3> DEFINE w == [s EXCEPT !.pend = @ \cup {"EOS"}, !.flags = @ \cup {"RCVD_EOS_FROM_APP"}]
    <3>1. sock' = [sock EXCEPT ![i] = w]  BY <1>1, <2>3
    <3>2. w \in Socket /\ Requests(w) = {"EOS"}
      BY <1>1, <2>1 DEF Requests, Socket, FLAGS
    <3> HIDE DEF w
    <3>3. "EOS" # "WRITE"  OBVIOUS
    <3> QED  BY <1>1, <2>3, <3>1, <3>2, <3>3, WaitStep
  <2> QED  BY <1>3, <2>2, <2>3 DEF AppEos
<1> QED  BY <1>2, <1>3 DEF AppEos

\* handle_app_reset.
LEMMA TypeReset ==
    ASSUME TypeOK, OneRequest, NEW i \in Ids, AppReset(i)
    PROVE  DriverTypes'
<1>1. CloseSocket(i, TRUE) /\ wrote' = wrote /\ seen' = seen  BY DEF AppReset
<1> QED  BY <1>1, CloseStep DEF TypeOK

\* handle_room_in_a2r.
LEMMA TypeSend ==
    ASSUME TypeOK, OneRequest, DriverSend
    PROVE  DriverTypes'
<1> DEFINE i == Head(sendq)
           s == sock[i]
<1>1. /\ sendq \in Seq(Ids) /\ sock \in [Ids -> Socket] /\ seen' = seen
      /\ seen \in [Ids -> Seq(0 .. MaxData)] /\ wrote \in [Ids -> Seq(0 .. MaxData)]
  BY DEF DriverSend, TypeOK
<1>2. i \in Ids /\ sendq' \in Seq(Ids)
  <2>1. sendq # <<>> /\ sendq' = Tail(sendq)  BY DEF DriverSend
  <2> QED  BY <1>1, <2>1, QueueTail
<1>3. s \in Socket  BY <1>1, <1>2
<1>4. ASSUME NEW p \in A2RPackets, a2r' = Append(a2r, p)
      PROVE  a2r' \in Seq(A2RPackets) /\ Len(a2r') <= A2RCap
  BY <1>4, ChannelAssumption DEF TypeOK, DriverSend, RoomInA2R
<1> DEFINE sent(type, x) == a2r' = Append(a2r, Packet(type, i, x))
<1>5. CASE sent("CONNECT", 0) /\ UNCHANGED <<sock, wrote>>
  <2>1. a2r' \in Seq(A2RPackets) /\ Len(a2r') <= A2RCap  BY <1>2, <1>4, <1>5, PacketTypes
  <2>2. OneRequest'  BY <1>5 DEF OneRequest
  <2> QED  BY <1>1, <1>2, <1>5, <2>1, <2>2 DEF DriverTypes
<1>6. CASE /\ "WRITE" \in s.pend /\ sent("DATA", Len(wrote[i]) + 1)
           /\ wrote' = [wrote EXCEPT ![i] = Append(@, Len(@) + 1)]
           /\ sock' = [sock EXCEPT ![i].pend = @ \ {"WRITE"}]
  <2>1. Len(wrote[i]) < DataOf(i) /\ Requests(s) = {"WRITE"}
    BY <1>2, <1>6 DEF OneRequest, Requests
  <2>2. Len(wrote[i]) + 1 \in 1 .. MaxData /\ Len(wrote[i]) + 1 \in 0 .. MaxData
    BY <1>2, <2>1, HistoryTypes
  <2>3. a2r' \in Seq(A2RPackets) /\ Len(a2r') <= A2RCap
    BY <1>2, <1>4, <1>6, <2>2, PacketTypes
  <2> DEFINE u == [s EXCEPT !.pend = @ \ {"WRITE"}]
  <2>4. u \in Socket /\ Requests(u) = {}
    <3>1. u \in Socket  BY <1>3, SocketTypes
    <3> QED  BY <1>3, <2>1, <3>1 DEF Requests, Socket
  <2>5. sock' = [sock EXCEPT ![i] = u]  BY <1>1, <1>6, Zenon
  <2>6. wrote' = [wrote EXCEPT ![i] = Append(@, Len(wrote[i]) + 1)]  BY <1>6, Zenon
  <2> HIDE DEF u
  <2>7. /\ sock' \in [Ids -> Socket] /\ OneRequest'
        /\ wrote' \in [Ids -> Seq(0 .. MaxData)] /\ seen' \in [Ids -> Seq(0 .. MaxData)]
    <3> HIDE DEF i, s
    <3> QED  BY <1>1, <1>2, <2>2, <2>4, <2>5, <2>6, SentStep
  <2> QED  BY <1>2, <2>3, <2>7 DEF DriverTypes
<1>7. CASE "EOS" \in s.pend /\ sent("EOS", 0) /\ EosSent(i, s)
  <2>1. Requests(s) \subseteq {"EOS"}  BY <1>2, <1>7 DEF OneRequest, Requests
  <2>2. a2r' \in Seq(A2RPackets) /\ Len(a2r') <= A2RCap  BY <1>2, <1>4, <1>7, PacketTypes
  <2>3. /\ sock' \in [Ids -> Socket] /\ OneRequest'
        /\ wrote' \in [Ids -> Seq(0 .. MaxData)] /\ seen' \in [Ids -> Seq(0 .. MaxData)]
    <3> HIDE DEF i
    <3> QED  BY <1>1, <1>2, <1>7, <2>1, TypeEosSent
  <2> QED  BY <1>2, <2>2, <2>3 DEF DriverTypes
<1>8. CASE sent("RESET", 0) /\ sock' = [sock EXCEPT ![i] = Free] /\ UNCHANGED wrote
  <2>1. a2r' \in Seq(A2RPackets) /\ Len(a2r') <= A2RCap  BY <1>2, <1>4, <1>8, PacketTypes
  <2>2. Free \in Socket /\ Requests(Free) = {}  BY <1>3, SocketTypes DEF Requests, Free
  <2>3. sock' \in [Ids -> Socket] /\ sock'[i] = Free /\ \A j \in Ids \ {i} : sock'[j] = sock[j]
    BY <1>1, <1>2, <1>8, <2>2
  <2> HIDE DEF i
  <2>4. OneRequest'  BY <1>2, <1>8, <2>2, <2>3, SameRequests
  <2> QED  BY <1>1, <1>2, <1>8, <2>1, <2>3, <2>4 DEF DriverTypes
<1>9. CASE UNCHANGED <<sock, a2r, wrote>>
  <2>1. OneRequest'  BY <1>9 DEF OneRequest
  <2> QED  BY <1>1, <1>2, <1>9, <2>1 DEF DriverTypes, TypeOK
<1> QED  BY <1>5, <1>6, <1>7, <1>8, <1>9 DEF DriverSend

\* handle_packets_received_r2a.
LEMMA TypeReceive ==
    ASSUME TypeOK, OneRequest, DriverReceive
    PROVE  DriverTypes' /\ r2a' \in Seq(R2APackets(Ids)) /\ Len(r2a') <= R2ACap
<1> DEFINE p == Head(r2a)
           i == p.id
           s == sock[i]
<1>1. r2a # <<>> /\ r2a' = Tail(r2a) /\ wrote' = wrote  BY DEF DriverReceive
<1>2. r2a \in Seq(R2APackets(Ids)) /\ Len(r2a) <= R2ACap /\ R2ACap \in Nat
  BY ChannelAssumption DEF TypeOK
<1>3. p \in R2APackets(Ids) /\ r2a' \in Seq(R2APackets(Ids)) /\ Len(r2a') <= R2ACap
  <2>1. /\ p \in R2APackets(Ids) /\ r2a' \in Seq(R2APackets(Ids))
        /\ Len(r2a') = Len(r2a) - 1 /\ Len(r2a) \in Nat
    BY <1>1, <1>2, HeadTailProperties, LenProperties
  <2> QED  BY <1>2, <2>1
<1>4. i \in Ids /\ (p.type = "DATA" => p.x \in 1 .. MaxData)  BY <1>3, PacketOfChannel
<1>5. s \in Socket /\ s.flags \in SUBSET FLAGS /\ s.rq \in Seq(1 .. MaxData)
  <2>1. s \in Socket  BY <1>4 DEF TypeOK
  <2> QED  BY <2>1, SocketTypes
<1>6. seen \in [Ids -> Seq(0 .. MaxData)] /\ sock \in [Ids -> Socket]  BY DEF TypeOK
<1>7. CASE UNCHANGED <<sock, sendq, a2r, seen>>
  <2>1. OneRequest'  BY <1>1, <1>7 DEF OneRequest
  <2> QED  BY <1>1, <1>3, <1>7, <2>1 DEF DriverTypes, TypeOK
<1>8. CASE (CloseSocket(i, FALSE) \/ CloseSocket(i, TRUE)) /\ UNCHANGED seen
  <2> HIDE DEF i
  <2> QED  BY <1>1, <1>3, <1>4, <1>6, <1>8, CloseStep
<1>9. ASSUME NEW u \in Socket, sock' = [sock EXCEPT ![i] = u], Requests(u) \subseteq Requests(s),
             UNCHANGED <<sendq, a2r>>, seen' \in [Ids -> Seq(0 .. MaxData)]
      PROVE  DriverTypes'
  <2> HIDE DEF i
  <2> QED  BY <1>1, <1>4, <1>9, SocketStep
<1>10. CASE /\ sock' = [sock EXCEPT ![i].pend = @ \ {"CONNECT"}]
            /\ UNCHANGED <<sendq, a2r, seen>>
  <2> DEFINE u == [s EXCEPT !.pend = @ \ {"CONNECT"}]
  <2>1. u \in Socket /\ Requests(u) \subseteq Requests(s)
    <3>1. u \in Socket  BY <1>5, SocketTypes
    <3> QED  BY <1>5, <3>1 DEF Requests, Socket
  <2>2. sock' = [sock EXCEPT ![i] = u]  BY <1>6, <1>10, Zenon
  <2> HIDE DEF u
  <2> QED  BY <1>3, <1>6, <1>9, <1>10, <2>1, <2>2
<1>11. CASE p.type = "DATA" /\ GiveData(i, p.x, [s EXCEPT !.pend = @ \ {"READ"}])
  <2> DEFINE u == [s EXCEPT !.pend = @ \ {"READ"}]
  <2>1. u \in Socket /\ Requests(u) \subseteq Requests(s)
    <3>1. u \in Socket  BY <1>5, SocketTypes
    <3> QED  BY <1>5, <3>1 DEF Requests, Socket
  <2>2. sock' = [sock EXCEPT ![i] = u] /\ UNCHANGED <<sendq, a2r>>  BY <1>11 DEF GiveData
  <2>3. p.x \in 0 .. MaxData  BY <1>4, <1>11
  <2>4. seen' \in [Ids -> Seq(0 .. MaxData)]  BY <1>4, <1>11, <2>3, HistoryTypes DEF GiveData
  <2> HIDE DEF u
  <2> QED  BY <1>3, <1>9, <2>1, <2>2, <2>4
<1>12. CASE /\ p.type = "DATA" /\ sock' = [sock EXCEPT ![i].rq = Append(@, p.x)]
            /\ UNCHANGED <<sendq, a2r, seen>>
  <2> DEFINE u == [s EXCEPT !.rq = Append(@, p.x)]
  <2>1. u \in Socket /\ Requests(u) \subseteq Requests(s)
    <3>1. Append(s.rq, p.x) \in Seq(1 .. MaxData)  BY <1>4, <1>5, <1>12
    <3>2. u = [s EXCEPT !.rq = Append(s.rq, p.x)]  OBVIOUS
    <3> HIDE DEF s, p
    <3>3. u \in Socket  BY <1>5, <3>1 DEF Socket
    <3>4. u.pend = s.pend  BY <1>5 DEF Socket
    <3> QED  BY <3>3, <3>4 DEF Requests
  <2>2. sock' = [sock EXCEPT ![i] = u]  BY <1>6, <1>12, Zenon
  <2> HIDE DEF u
  <2> QED  BY <1>3, <1>6, <1>9, <1>12, <2>1, <2>2
<1>13. CASE GiveEos(i, s.flags \cup {"RCVD_EOS_FROM_RPI"})
  <2>1. s.flags \cup {"RCVD_EOS_FROM_RPI"} \in SUBSET FLAGS  BY <1>5 DEF FLAGS
  <2> HIDE DEF i, s
  <2> QED  BY <1>1, <1>3, <1>4, <1>13, <2>1, TypeGiveEos
<1>14. CASE /\ sock' = [sock EXCEPT ![i].flags = @ \cup {"RCVD_EOS_FROM_RPI"}]
            /\ UNCHANGED <<sendq, a2r, seen>>
  <2> DEFINE u == [s EXCEPT !.flags = @ \cup {"RCVD_EOS_FROM_RPI"}]
  <2>1. u \in Socket /\ Requests(u) \subseteq Requests(s)
    BY <1>5 DEF Requests, Socket, FLAGS
  <2>2. sock' = [sock EXCEPT ![i] = u]  BY <1>6, <1>14, Zenon
  <2> HIDE DEF u
  <2> QED  BY <1>3, <1>6, <1>9, <1>14, <2>1, <2>2
<1>15. \/ UNCHANGED <<sock, sendq, a2r, seen>>
       \/ DriverHandle(p)
  BY DEF DriverReceive
<1> HIDE DEF p
<1>16. CASE DriverHandle(p)
  BY <1>8, <1>10, <1>11, <1>12, <1>13, <1>14, <1>16, Zenon DEF DriverHandle
<1> QED  BY <1>7, <1>15, <1>16

\* A reset of the Amiga.
LEMMA TypeAmigaReset ==
    ASSUME TypeOK, AmigaReset
    PROVE  DriverTypes'
<1>1. Free \in Socket /\ Requests(Free) = {} /\ Free.pend = {}
  <2>1. <<>> \in Seq(1 .. MaxData)  OBVIOUS
  <2> QED  BY <2>1 DEF Socket, Free, Requests
<1>2. sock' \in [Ids -> Socket] /\ \A i \in Ids : sock'[i] = Free
  BY <1>1 DEF AmigaReset
<1>3. OneRequest'  BY <1>1, <1>2 DEF OneRequest
<1>4. /\ sendq' \in Seq(Ids) /\ wrote' \in [Ids -> Seq(0 .. MaxData)]
      /\ seen' \in [Ids -> Seq(0 .. MaxData)] /\ a2r' = a2r
  BY DEF AmigaReset, ringVars
<1> QED  BY <1>2, <1>3, <1>4 DEF DriverTypes, TypeOK

-----------------------------------------------------------------------------
\* The Pi's variables have their types, and its send queue is sound.
PiTypes ==
    /\ r2a \in Seq(R2APackets(Ids)) /\ Len(r2a) <= R2ACap
    /\ DOMAIN chan = Ids /\ \A i \in Ids : chan[i] \in Channel(i)
    /\ send_queue \in Seq(Ids) /\ streams \in Seq(Stream)
    /\ client \in {"gone", "idle", "serving"}
    /\ PiQueueSound

\* The channels, when one of them changes and no stream goes away.
LEMMA ChannelStep ==
    ASSUME TypeOK, NEW i \in Ids, NEW c, c \in Channel(i)',
           chan' = [chan EXCEPT ![i] = c],
           streams' \in Seq(Stream), Len(streams) <= Len(streams')
    PROVE  /\ DOMAIN chan' = Ids /\ \A j \in Ids : (chan[j] \in Channel(j))'
           /\ chan'[i] = c /\ \A j \in Ids \ {i} : chan'[j] = chan[j]
<1>1. DOMAIN chan = Ids /\ \A j \in Ids : chan[j] \in Channel(j)  BY DEF TypeOK
<1>2. DOMAIN chan' = Ids /\ chan'[i] = c /\ \A j \in Ids \ {i} : chan'[j] = chan[j]
  BY <1>1
<1>3. Len(streams) \in Nat /\ Len(streams') \in Nat  BY DEF TypeOK
<1>4. 0 .. Len(streams) \subseteq 0 .. Len(streams')  BY <1>3
<1>5. \A j \in Ids : Channel(j) \subseteq Channel(j)'  BY <1>4 DEF Channel
<1>6. \A j \in Ids : chan'[j] \in Channel(j)'  BY <1>1, <1>2, <1>5
<1> QED  BY <1>2, <1>6

\* What the channels are made of.
LEMMA ChannelTypes ==
    ASSUME NEW i \in Ids, streams \in Seq(Stream), NEW c \in Channel(i)
    PROVE  /\ c.stream \in 0 .. Len(streams) /\ c.eosAmi \in BOOLEAN /\ c.eosClient \in BOOLEAN
           /\ c.pq \in Seq(R2APackets({i}))
           /\ \A q \in Seq(R2APackets({i})) : [c EXCEPT !.pq = q] \in Channel(i)
           /\ \A t \in 0 .. Len(streams) : [c EXCEPT !.stream = t] \in Channel(i)
           /\ NoChannel \in Channel(i)
           /\ Tidy(c) \in Channel(i) /\ Tidy(c).pq = c.pq
<1>1. <<>> \in Seq(R2APackets({i})) /\ 0 \in 0 .. Len(streams)  OBVIOUS
<1>2. NoChannel \in Channel(i)  BY <1>1 DEF NoChannel, Channel
<1>3. Tidy(c) \in Channel(i) /\ Tidy(c).pq = c.pq  BY <1>2 DEF Tidy, NoChannel
<1> QED  BY <1>2, <1>3 DEF Channel

\* The streams when one of them changes.
LEMMA StreamStep ==
    ASSUME TypeOK, NEW t \in 1 .. Len(streams), NEW s \in Stream,
           streams' = [streams EXCEPT ![t] = s]
    PROVE  streams' \in Seq(Stream) /\ Len(streams') = Len(streams)
           /\ DOMAIN streams' = DOMAIN streams
  BY ExceptSeq DEF TypeOK

\* A packet is put into the queue of a channel.
LEMMA EnqueueStep ==
    ASSUME TypeOK, PiQueueSound, NEW i \in Ids, NEW c, c \in Channel(i)', c.pq = chan[i].pq,
           NEW type, NEW x, Packet(type, i, x) \in R2APackets({i}), Enqueue(i, c, type, x),
           streams' \in Seq(Stream), Len(streams) <= Len(streams'),
           client' \in {"gone", "idle", "serving"}, r2a' = r2a
    PROVE  PiTypes'
<1> DEFINE p == Packet(type, i, x)
           d == [c EXCEPT !.pq = Append(@, p)]
<1>1. c.pq \in Seq(R2APackets({i})) /\ send_queue \in Seq(Ids) /\ NoDuplicates(send_queue)
  BY DEF Channel, TypeOK, PiQueueSound
<1>2. d.pq = Append(c.pq, p) /\ Append(c.pq, p) \in Seq(R2APackets({i})) /\ Append(c.pq, p) # <<>>
  <2> HIDE DEF p
  <2>1. d.pq = Append(c.pq, p)  BY DEF Channel
  <2>2. p \in R2APackets({i})  BY DEF p
  <2> QED  BY <1>1, <2>1, <2>2
<1>3. d \in Channel(i)'
  <2> HIDE DEF p
  <2> QED  BY <1>2 DEF Channel
<1>4. chan' = [chan EXCEPT ![i] = d]  BY DEF Enqueue
<1> HIDE DEF d, p
<1>5. /\ DOMAIN chan' = Ids /\ \A j \in Ids : (chan[j] \in Channel(j))'
      /\ chan'[i] = d /\ \A j \in Ids \ {i} : chan'[j] = chan[j]
  BY <1>3, <1>4, ChannelStep
<1>6. i \in ToSet(send_queue) <=> c.pq # <<>>  BY DEF PiQueueSound
<1>7. /\ send_queue' \in Seq(Ids) /\ NoDuplicates(send_queue')
      /\ ToSet(send_queue') = ToSet(send_queue) \cup {i}
  <2>1. CASE c.pq = <<>>  BY <1>1, <1>6, <2>1, QueueAppend DEF Enqueue
  <2>2. CASE c.pq # <<>>  BY <1>1, <1>6, <2>2 DEF Enqueue
  <2> QED  BY <2>1, <2>2
<1>8. PiQueueSound'  BY <1>2, <1>5, <1>7 DEF PiQueueSound
<1> QED  BY <1>5, <1>7, <1>8 DEF PiTypes, TypeOK

\* A channel changes, its queue does not.
LEMMA SameQueueStep ==
    ASSUME TypeOK, PiQueueSound, NEW i \in Ids, NEW c, c \in Channel(i)', c.pq = chan[i].pq,
           chan' = [chan EXCEPT ![i] = c], send_queue' = send_queue,
           streams' \in Seq(Stream), Len(streams) <= Len(streams'),
           client' \in {"gone", "idle", "serving"}, r2a' = r2a
    PROVE  PiTypes'
<1>1. /\ DOMAIN chan' = Ids /\ \A j \in Ids : (chan[j] \in Channel(j))'
      /\ chan'[i] = c /\ \A j \in Ids \ {i} : chan'[j] = chan[j]
  BY ChannelStep
<1>2. PiQueueSound'  BY <1>1 DEF PiQueueSound
<1> QED  BY <1>1, <1>2 DEF PiTypes, TypeOK

\* handle_pkt_connect.
LEMMA TypePiConnect ==
    ASSUME TypeOK, PiQueueSound, NEW i \in Ids, PiConnect(i), r2a' = r2a
    PROVE  PiTypes'
<1>1. /\ streams \in Seq(Stream) /\ chan[i] \in Channel(i) /\ DOMAIN chan = Ids
      /\ client \in {"gone", "idle", "serving"}
  BY DEF TypeOK
<1>2. chan[i].pq = <<>>  BY DEF PiConnect, Exists
<1>3. CASE /\ client' = "serving"
           /\ streams' = Append(streams, [id |-> i, state |-> "new", sent |-> <<>>,
                                          got |-> <<>>, reset |-> FALSE])
           /\ chan' = [chan EXCEPT ![i].stream = Len(streams) + 1]
           /\ UNCHANGED send_queue
  <2> DEFINE s == [id |-> i, state |-> "new", sent |-> <<>>, got |-> <<>>, reset |-> FALSE]
             c == [chan[i] EXCEPT !.stream = Len(streams) + 1]
  <2>1. s \in Stream
    <3>1. <<>> \in Seq(0 .. MaxData)  OBVIOUS
    <3> QED  BY <3>1 DEF Stream
  <2> HIDE DEF s
  <2>2. streams' = Append(streams, s)  BY <1>3 DEF s
  <2>3. /\ streams' \in Seq(Stream) /\ Len(streams') = Len(streams) + 1 /\ Len(streams) \in Nat
    BY <1>1, <2>1, <2>2
  <2>4. Len(streams) + 1 \in 0 .. Len(streams') /\ Len(streams) <= Len(streams')  BY <2>3
  <2>5. 0 .. Len(streams) \subseteq 0 .. Len(streams')  BY <2>3
  <2>6. c \in Channel(i)' /\ c.pq = chan[i].pq  BY <1>1, <2>4, <2>5 DEF Channel
  <2>7. chan' = [chan EXCEPT ![i] = c]  BY <1>3, Zenon
  <2> HIDE DEF c
  <2> QED  BY <1>3, <2>3, <2>4, <2>6, <2>7, SameQueueStep
<1>4. CASE /\ Enqueue(i, NoChannel, "RESPONSE", CONNECT_UNKNOWN_SERVICE)
           /\ UNCHANGED <<client, streams>>
  <2>1. NoChannel \in Channel(i) /\ NoChannel.pq = <<>>  BY <1>1, ChannelTypes DEF NoChannel
  <2>2. NoChannel \in Channel(i)'  BY <1>4, <2>1 DEF Channel
  <2>3. Packet("RESPONSE", i, CONNECT_UNKNOWN_SERVICE) \in R2APackets({i})  BY PacketTypes
  <2>4. Len(streams) <= Len(streams')  BY <1>1, <1>4
  <2> QED  BY <1>1, <1>2, <1>4, <2>1, <2>2, <2>3, <2>4, EnqueueStep
<1> QED  BY <1>3, <1>4 DEF PiConnect

\* A message to the client.
LEMMA TellTypes ==
    ASSUME TypeOK, NEW t \in 1 .. Len(streams), NEW x \in 0 .. MaxData, Tell(t, x)
    PROVE  streams' \in Seq(Stream) /\ Len(streams') = Len(streams)
<1> DEFINE s == [streams[t] EXCEPT !.got = Append(@, x)]
<1>1. streams[t] \in Stream /\ streams \in Seq(Stream)  BY DEF TypeOK
<1>2. Append(streams[t].got, x) \in Seq(0 .. MaxData)  BY <1>1 DEF Stream
<1>3. s \in Stream  BY <1>1, <1>2 DEF Stream
<1>4. streams' = [streams EXCEPT ![t] = s]  BY Zenon DEF Tell
<1> HIDE DEF s
<1> QED  BY <1>3, <1>4, StreamStep

\* A channel loses its packets; no stream goes away.
LEMMA ForgetStep ==
    ASSUME TypeOK, PiQueueSound, NEW i \in Ids,
           chan' = [chan EXCEPT ![i] = NoChannel], send_queue' = RemoveFirst(send_queue, i),
           streams' \in Seq(Stream), Len(streams) <= Len(streams'),
           client' \in {"gone", "idle", "serving"}, r2a' = r2a
    PROVE  PiTypes'
<1>1. NoChannel \in Channel(i)' /\ NoChannel.pq = <<>>
  <2>1. <<>> \in Seq(R2APackets({i})) /\ 0 \in 0 .. Len(streams')  OBVIOUS
  <2> QED  BY <2>1 DEF NoChannel, Channel
<1>2. /\ DOMAIN chan' = Ids /\ \A j \in Ids : (chan[j] \in Channel(j))'
      /\ chan'[i] = NoChannel /\ \A j \in Ids \ {i} : chan'[j] = chan[j]
  BY <1>1, ChannelStep
<1>3. /\ send_queue' \in Seq(Ids) /\ NoDuplicates(send_queue')
      /\ ToSet(send_queue') = ToSet(send_queue) \ {i}
  BY QueueRemove DEF TypeOK, PiQueueSound
<1>4. PiQueueSound'  BY <1>1, <1>2, <1>3 DEF PiQueueSound
<1> QED  BY <1>2, <1>3, <1>4 DEF PiTypes, TypeOK

\* The streams keep their types when some of them are reset.
LEMMA ResetTypes ==
    ASSUME TypeOK, NEW b \in [DOMAIN streams -> BOOLEAN],
           streams' = [t \in DOMAIN streams |-> [streams[t] EXCEPT !.reset = @ \/ b[t]]]
    PROVE  streams' \in Seq(Stream) /\ Len(streams') = Len(streams)
<1>1. streams \in Seq(Stream) /\ Len(streams) \in Nat /\ DOMAIN streams = 1 .. Len(streams)
  BY DEF TypeOK
<1>2. ASSUME NEW t \in 1 .. Len(streams)
      PROVE  streams'[t] \in Stream
  <2>1. streams[t] \in Stream  BY <1>1
  <2>2. streams'[t] = [streams[t] EXCEPT !.reset = @ \/ b[t]]  BY <1>1
  <2>3. b[t] \in BOOLEAN /\ streams[t].reset \in BOOLEAN  BY <1>1, <2>1 DEF Stream
  <2> DEFINE r == streams[t].reset \/ b[t]
  <2>4. streams'[t] = [streams[t] EXCEPT !.reset = r]  BY <2>2, Zenon
  <2>5. r = TRUE \/ r = FALSE  BY Zenon
  <2> HIDE DEF r
  <2>6. [streams[t] EXCEPT !.reset = TRUE] \in Stream
        /\ [streams[t] EXCEPT !.reset = FALSE] \in Stream
    BY <2>1 DEF Stream
  <2> QED  BY <2>4, <2>5, <2>6, Zenon
<1>3. DOMAIN streams' = 1 .. Len(streams)  BY <1>1, Zenon
<1>4. streams' = [t \in 1 .. Len(streams) |-> streams'[t]]  BY <1>1, Zenon
<1>5. streams' \in [1 .. Len(streams) -> Stream]
  <2> DEFINE u == streams'
  <2>1. u = [t \in 1 .. Len(streams) |-> u[t]] /\ \A t \in 1 .. Len(streams) : u[t] \in Stream
    BY <1>2, <1>4, Zenon
  <2> HIDE DEF u
  <2>2. u \in [1 .. Len(streams) -> Stream]  BY <2>1
  <2> QED  BY <2>2 DEF u
<1>6. streams' \in Seq(Stream)  BY <1>1, <1>5, SeqDef
<1> QED  BY <1>1, <1>3, <1>6, LenProperties

\* What a step of the Pi starts from.
LEMMA PiState ==
    ASSUME TypeOK, NEW i \in Ids
    PROVE  /\ streams \in Seq(Stream) /\ Len(streams) \in Nat /\ DOMAIN streams = 1 .. Len(streams)
           /\ chan[i] \in Channel(i) /\ DOMAIN chan = Ids
           /\ chan[i].stream \in 0 .. Len(streams)
           /\ chan[i].stream # 0 =>
                  chan[i].stream \in 1 .. Len(streams) /\ streams[chan[i].stream] \in Stream
           /\ client \in {"gone", "idle", "serving"}
<1>1. /\ streams \in Seq(Stream) /\ chan[i] \in Channel(i) /\ DOMAIN chan = Ids
      /\ client \in {"gone", "idle", "serving"}
  BY DEF TypeOK
<1>2. Len(streams) \in Nat /\ DOMAIN streams = 1 .. Len(streams)  BY <1>1
<1>3. chan[i].stream \in 0 .. Len(streams)  BY <1>1, ChannelTypes
<1>4. chan[i].stream # 0 => chan[i].stream \in 1 .. Len(streams)  BY <1>2, <1>3
<1>5. \A t \in 1 .. Len(streams) : streams[t] \in Stream  BY <1>1
<1> QED  BY <1>1, <1>2, <1>3, <1>4, <1>5

\* A step that leaves the channels as they are.
LEMMA SameChannels ==
    ASSUME TypeOK, PiQueueSound, UNCHANGED <<chan, send_queue>>,
           streams' \in Seq(Stream), Len(streams) <= Len(streams'),
           r2a' \in Seq(R2APackets(Ids)), Len(r2a') <= R2ACap,
           client' \in {"gone", "idle", "serving"}
    PROVE  PiTypes'
<1>1. PiQueueSound'  BY DEF PiQueueSound
<1>2. Len(streams) \in Nat /\ Len(streams') \in Nat  BY DEF TypeOK
<1>3. 0 .. Len(streams) \subseteq 0 .. Len(streams')  BY <1>2
<1>4. \A j \in Ids : Channel(j) \subseteq Channel(j)'  BY <1>3 DEF Channel
<1> QED  BY <1>1, <1>4 DEF PiTypes, TypeOK

\* handle_pkt_data.
LEMMA TypePiData ==
    ASSUME TypeOK, PiQueueSound, NEW i \in Ids, NEW x \in 0 .. MaxData, PiData(i, x), r2a' = r2a
    PROVE  PiTypes'
<1>1. chan[i].stream \in 1 .. Len(streams) /\ Tell(chan[i].stream, x)  BY PiState DEF PiData
<1>2. streams' \in Seq(Stream) /\ Len(streams') = Len(streams)  BY <1>1, TellTypes
<1>3. Len(streams) <= Len(streams')  BY <1>2, PiState
<1>4. UNCHANGED <<chan, send_queue, client>>  BY DEF PiData
<1> QED  BY <1>2, <1>3, <1>4, SameChannels DEF TypeOK

\* handle_pkt_eos.
LEMMA TypePiEos ==
    ASSUME TypeOK, PiQueueSound, NEW i \in Ids, PiEos(i), r2a' = r2a
    PROVE  PiTypes'
<1>1. chan[i].stream \in 1 .. Len(streams) /\ Tell(chan[i].stream, EOS)  BY PiState DEF PiEos
<1>2. EOS \in 0 .. MaxData  BY ChannelAssumption DEF EOS
<1>3. streams' \in Seq(Stream) /\ Len(streams') = Len(streams)  BY <1>1, <1>2, TellTypes
<1>4. chan[i] \in Channel(i) /\ streams \in Seq(Stream) /\ Len(streams) \in Nat
  BY PiState
<1> DEFINE d == [chan[i] EXCEPT !.eosAmi = TRUE,
                                !.stream = IF chan[i].eosClient THEN 0 ELSE chan[i].stream]
           e == Tidy(d)
<1>5. d \in Channel(i) /\ d.pq = chan[i].pq
  <2> DEFINE c == chan[i]
             n == IF c.eosClient THEN 0 ELSE c.stream
  <2>1. n \in 0 .. Len(streams)  BY PiState
  <2>2. d = [c EXCEPT !.eosAmi = TRUE, !.stream = n]  BY <1>4 DEF Channel
  <2> HIDE DEF n, d, c
  <2>3. c \in Channel(i)  BY <1>4 DEF c
  <2>4. d \in Channel(i) /\ d.pq = c.pq  BY <2>1, <2>2, <2>3 DEF Channel
  <2> QED  BY <2>4 DEF c
<1>6. chan' = [chan EXCEPT ![i] = e] /\ send_queue' = send_queue /\ client' = client
  BY Zenon DEF PiEos
<1> HIDE DEF d
<1>7. e \in Channel(i) /\ e.pq = chan[i].pq  BY <1>4, <1>5, ChannelTypes
<1> HIDE DEF e
<1>8. e \in Channel(i)'  BY <1>3, <1>7 DEF Channel
<1>9. Len(streams) <= Len(streams')  BY <1>3, <1>4
<1>10. client' \in {"gone", "idle", "serving"}  BY <1>6, PiState
<1> QED  BY <1>3, <1>6, <1>7, <1>8, <1>9, <1>10, SameQueueStep

\* handle_pkt_reset.
LEMMA TypePiReset ==
    ASSUME TypeOK, PiQueueSound, NEW i \in Ids, PiReset(i), r2a' = r2a
    PROVE  PiTypes'
<1> DEFINE b == [t \in DOMAIN streams |-> t = chan[i].stream]
<1>1. b \in [DOMAIN streams -> BOOLEAN]  OBVIOUS
<1>2. streams' = [t \in DOMAIN streams |-> [streams[t] EXCEPT !.reset = @ \/ b[t]]]
  BY Zenon DEF PiReset
<1> HIDE DEF b
<1>3. streams' \in Seq(Stream) /\ Len(streams') = Len(streams)  BY <1>1, <1>2, ResetTypes
<1>4. Len(streams) <= Len(streams')  BY <1>3, PiState
<1>5. client' \in {"gone", "idle", "serving"}  BY PiState DEF PiReset
<1> QED  BY <1>3, <1>4, <1>5, ForgetStep DEF PiReset

\* handle_received_pkt.
LEMMA TypePiReceive ==
    ASSUME TypeOK, PiQueueSound, PiReceive
    PROVE  PiTypes' /\ a2r' \in Seq(A2RPackets) /\ Len(a2r') <= A2RCap
<1> DEFINE p == Head(a2r)
           i == p.id
<1>1. a2r # <<>> /\ a2r' = Tail(a2r) /\ r2a' = r2a  BY DEF PiReceive
<1>2. a2r \in Seq(A2RPackets) /\ Len(a2r) <= A2RCap /\ A2RCap \in Nat
  BY ChannelAssumption DEF TypeOK
<1>3. p \in A2RPackets /\ a2r' \in Seq(A2RPackets) /\ Len(a2r') <= A2RCap
  <2>1. /\ p \in A2RPackets /\ a2r' \in Seq(A2RPackets)
        /\ Len(a2r') = Len(a2r) - 1 /\ Len(a2r) \in Nat
    BY <1>1, <1>2, HeadTailProperties, LenProperties
  <2> QED  BY <1>2, <2>1
<1>4. i \in Ids /\ (p.type = "DATA" => p.x \in 0 .. MaxData)
  <2>1. i \in Ids /\ (p.type = "DATA" => p.x \in 1 .. MaxData)  BY <1>3, PacketOfChannel
  <2> QED  BY <2>1
<1>5. \/ PiConnect(i) \/ (p.type = "DATA" /\ PiData(i, p.x)) \/ PiEos(i) \/ PiReset(i)
      \/ UNCHANGED piVars
  BY Zenon DEF PiReceive
<1>6. CASE UNCHANGED piVars
  <2>1. UNCHANGED <<chan, send_queue, client, streams>>  BY <1>6 DEF piVars
  <2>2. streams \in Seq(Stream) /\ Len(streams) <= Len(streams)  BY DEF TypeOK
  <2>3. PiTypes'  BY <1>1, <2>1, <2>2, SameChannels DEF TypeOK
  <2> QED  BY <1>3, <2>3
<1> HIDE DEF i
<1>7. CASE PiConnect(i)  BY <1>1, <1>3, <1>4, <1>7, TypePiConnect
<1>8. CASE p.type = "DATA" /\ PiData(i, p.x)  BY <1>1, <1>3, <1>4, <1>8, TypePiData
<1>9. CASE PiEos(i)  BY <1>1, <1>3, <1>4, <1>9, TypePiEos
<1>10. CASE PiReset(i)  BY <1>1, <1>3, <1>4, <1>10, TypePiReset
<1> QED  BY <1>5, <1>6, <1>7, <1>8, <1>9, <1>10

\* handle_a314_irq on STARTED.
LEMMA TypePiStarted ==
    ASSUME TypeOK, PiStarted
    PROVE  PiTypes'
<1> DEFINE b == [t \in DOMAIN streams |-> \E i \in Ids : chan[i].stream = t]
<1>1. b \in [DOMAIN streams -> BOOLEAN]  OBVIOUS
<1>2. streams' = [t \in DOMAIN streams |-> [streams[t] EXCEPT !.reset = @ \/ b[t]]]
  BY Zenon DEF PiStarted
<1> HIDE DEF b
<1>3. streams' \in Seq(Stream) /\ Len(streams') = Len(streams)  BY <1>1, <1>2, ResetTypes
<1>4. DOMAIN chan' = Ids /\ \A i \in Ids : chan'[i] = NoChannel  BY DEF PiStarted
<1>5. \A i \in Ids : (chan[i] \in Channel(i))'
  <2>1. \A i \in Ids : <<>> \in Seq(R2APackets({i}))  OBVIOUS
  <2>2. 0 \in 0 .. Len(streams')  BY <1>3
  <2>3. \A i \in Ids : NoChannel \in Channel(i)'  BY <2>1, <2>2 DEF NoChannel, Channel
  <2> QED  BY <1>4, <2>3
<1>6. send_queue' = <<>> /\ client' = client /\ r2a' = r2a  BY DEF PiStarted, ringVars
<1>7. PiQueueSound'  BY <1>4, <1>6, QueueEmpty DEF PiQueueSound, NoChannel
<1> QED  BY <1>3, <1>4, <1>5, <1>6, <1>7, QueueEmpty DEF PiTypes, TypeOK

\* One turn of flush_send_queue.
LEMMA TypePiFlush ==
    ASSUME TypeOK, PiQueueSound, PiFlush
    PROVE  PiTypes'
<1>1. send_queue # <<>> /\ send_queue \in Seq(Ids) /\ NoDuplicates(send_queue)
  BY DEF PiFlush, TypeOK, PiQueueSound
<1>2. PICK i \in Ids :
         /\ i = Head(send_queue) /\ i \in ToSet(send_queue) /\ Tail(send_queue) \in Seq(Ids)
         /\ NoDuplicates(Tail(send_queue)) /\ ToSet(Tail(send_queue)) = ToSet(send_queue) \ {i}
  BY <1>1, QueueTail
<1> DEFINE c == chan[i]
           left == Tail(c.pq)
           d == [c EXCEPT !.pq = left]
<1>3. c \in Channel(i) /\ streams \in Seq(Stream) /\ DOMAIN chan = Ids  BY <1>2, PiState
<1>4. c.pq # <<>> /\ c.pq \in Seq(R2APackets({i}))
  BY <1>2, <1>3, ChannelTypes DEF PiQueueSound
<1>5. Head(c.pq) \in R2APackets({i}) /\ left \in Seq(R2APackets({i}))
  BY <1>4, HeadTailProperties
<1>6. r2a' = Append(r2a, Head(c.pq)) /\ Len(r2a) < R2ACap  BY <1>2 DEF PiFlush, RoomInR2A
<1>7. r2a' \in Seq(R2APackets(Ids)) /\ Len(r2a') <= R2ACap
  <2>1. Head(c.pq) \in R2APackets(Ids)  BY <1>2, <1>5, PacketOfChannel
  <2> HIDE DEF c
  <2> QED  BY <1>6, <2>1, ChannelAssumption DEF TypeOK
<1>8. chan' = [chan EXCEPT ![i] = Tidy(d)]  BY <1>2, Zenon DEF PiFlush
<1>9. d \in Channel(i) /\ d.pq = left
  <2> HIDE DEF left, c
  <2> QED  BY <1>3, <1>5 DEF Channel
<1>10. send_queue' = AfterTurn(i, left) /\ UNCHANGED <<client, streams>>  BY <1>2, Zenon DEF PiFlush
<1> DEFINE e == Tidy(d)
<1>11. e \in Channel(i) /\ e.pq = left
  <2> HIDE DEF c, left, d
  <2> QED  BY <1>2, <1>3, <1>9, ChannelTypes
<1> HIDE DEF e, left
<1>12. e \in Channel(i)' /\ Len(streams) <= Len(streams') /\ streams' \in Seq(Stream)
  <2>1. streams' = streams /\ Len(streams) \in Nat  BY <1>3, <1>10
  <2>2. Channel(i)' = Channel(i)  BY <2>1 DEF Channel
  <2> QED  BY <1>3, <1>11, <2>1, <2>2
<1>13. /\ DOMAIN chan' = Ids /\ \A j \in Ids : (chan[j] \in Channel(j))'
       /\ chan'[i] = e /\ \A j \in Ids \ {i} : chan'[j] = chan[j]
  <2>1. chan' = [chan EXCEPT ![i] = e]  BY <1>8 DEF e
  <2> QED  BY <1>2, <1>12, <2>1, ChannelStep
<1>14. /\ send_queue' \in Seq(Ids) /\ NoDuplicates(send_queue')
       /\ \A j \in Ids \ {i} : j \in ToSet(send_queue') <=> j \in ToSet(send_queue)
       /\ i \in ToSet(send_queue') <=> left # <<>>
  <2>1. CASE left = <<>>  BY <1>2, <1>10, <2>1 DEF AfterTurn
  <2>2. CASE left # <<>>
    <3>1. send_queue' = Append(Tail(send_queue), i)  BY <1>10, <2>2 DEF AfterTurn
    <3>2. /\ send_queue' \in Seq(Ids) /\ NoDuplicates(send_queue')
          /\ ToSet(send_queue') = ToSet(Tail(send_queue)) \cup {i}
      BY <1>2, <3>1, QueueAppend
    <3> QED  BY <1>2, <2>2, <3>2
  <2> QED  BY <2>1, <2>2
<1>15. PiQueueSound'  BY <1>11, <1>13, <1>14 DEF PiQueueSound
<1> QED  BY <1>7, <1>10, <1>12, <1>13, <1>14, <1>15 DEF PiTypes, TypeOK

\* A stream on its way from state to state.
LEMMA StreamStates ==
    ASSUME TypeOK, NEW t \in 1 .. Len(streams), NEW st \in {"new", "ok", "eos", "done"}
    PROVE  /\ streams' = [streams EXCEPT ![t].state = st] =>
                  streams' \in Seq(Stream) /\ Len(streams') = Len(streams)
           /\ \A x \in 0 .. MaxData :
                streams' = [streams EXCEPT ![t].state = st, ![t].sent = Append(@, x)] =>
                    streams' \in Seq(Stream) /\ Len(streams') = Len(streams)
           /\ \A x \in 0 .. MaxData :
                streams' = [streams EXCEPT ![t].sent = Append(@, x)] =>
                    streams' \in Seq(Stream) /\ Len(streams') = Len(streams)
<1>1. streams \in Seq(Stream) /\ streams[t] \in Stream /\ DOMAIN streams = 1 .. Len(streams)
  BY DEF TypeOK
<1>2. ASSUME streams' = [streams EXCEPT ![t].state = st]
      PROVE  streams' \in Seq(Stream) /\ Len(streams') = Len(streams)
  <2> DEFINE s == [streams[t] EXCEPT !.state = st]
  <2>1. s \in Stream  BY <1>1 DEF Stream
  <2>2. streams' = [streams EXCEPT ![t] = s]  BY <1>2, Zenon
  <2> HIDE DEF s
  <2> QED  BY <2>1, <2>2, StreamStep
<1>3. ASSUME NEW x \in 0 .. MaxData,
             streams' = [streams EXCEPT ![t].sent = Append(@, x)]
      PROVE  streams' \in Seq(Stream) /\ Len(streams') = Len(streams)
  <2> DEFINE q == Append(streams[t].sent, x)
             s == [streams[t] EXCEPT !.sent = q]
  <2>1. q \in Seq(0 .. MaxData)  BY <1>1 DEF Stream
  <2>2. streams' = [streams EXCEPT ![t] = s]  BY <1>3, Zenon
  <2> HIDE DEF q
  <2>3. s \in Stream  BY <1>1, <2>1 DEF Stream
  <2> HIDE DEF s
  <2> QED  BY <2>2, <2>3, StreamStep
<1>4. ASSUME NEW x \in 0 .. MaxData,
             streams' = [streams EXCEPT ![t].state = st, ![t].sent = Append(@, x)]
      PROVE  streams' \in Seq(Stream) /\ Len(streams') = Len(streams)
  <2> DEFINE q == Append(streams[t].sent, x)
             s == [streams[t] EXCEPT !.state = st, !.sent = q]
  <2>1. q \in Seq(0 .. MaxData)  BY <1>1 DEF Stream
  <2>2. streams' = [streams EXCEPT ![t] = s]
    <3>1. [streams[t] EXCEPT !.state = st].sent = streams[t].sent  BY <1>1 DEF Stream
    <3> QED  BY <1>1, <1>4, <3>1
  <2> HIDE DEF q
  <2>3. s \in Stream  BY <1>1, <2>1 DEF Stream
  <2> HIDE DEF s
  <2> QED  BY <2>2, <2>3, StreamStep
<1> QED  BY <1>2, <1>3, <1>4

\* What holds of a channel whose streams changed, if there are not fewer.
LEMMA MoreStreams ==
    ASSUME NEW i \in Ids, NEW c \in Channel(i), streams \in Seq(Stream),
           streams' \in Seq(Stream), Len(streams') = Len(streams)
    PROVE  c \in Channel(i)' /\ Len(streams) <= Len(streams')
<1>1. Len(streams) \in Nat  OBVIOUS
<1>2. Channel(i)' = Channel(i)  BY DEF Channel
<1> QED  BY <1>1, <1>2

\* handle_msg_connect_response.
LEMMA TypeClientResponse ==
    ASSUME TypeOK, PiQueueSound, NEW i \in Ids, ClientResponse(i)
    PROVE  PiTypes'
<1> DEFINE c == chan[i]
           t == c.stream
           d == [c EXCEPT !.stream = 0]
<1>1. t \in 1 .. Len(streams) /\ c \in Channel(i) /\ streams \in Seq(Stream)
  BY PiState DEF ClientResponse
<1>2. r2a' = r2a /\ client' = client  BY DEF ClientResponse, ringVars
<1>3. client' \in {"gone", "idle", "serving"}  BY <1>2, PiState
<1>4. d \in Channel(i) /\ d.pq = c.pq
  <2> HIDE DEF c
  <2>1. 0 \in 0 .. Len(streams)  BY <1>1
  <2> QED  BY <1>1, <2>1 DEF Channel
<1> HIDE DEF d
<1>5. /\ Packet("RESPONSE", i, CONNECT_OK) \in R2APackets({i})
      /\ Packet("RESPONSE", i, CONNECT_UNKNOWN_SERVICE) \in R2APackets({i})
  BY PacketTypes
<1>6. \/ Enqueue(i, c, "RESPONSE", CONNECT_OK) /\ streams' = [streams EXCEPT ![t].state = "ok"]
      \/ /\ Enqueue(i, d, "RESPONSE", CONNECT_UNKNOWN_SERVICE)
         /\ streams' = [streams EXCEPT ![t].state = "done"]
  BY Zenon DEF ClientResponse, d
<1> HIDE DEF c, t
<1>7. streams' \in Seq(Stream) /\ Len(streams') = Len(streams)  BY <1>1, <1>6, StreamStates
<1>8. c \in Channel(i)' /\ d \in Channel(i)' /\ Len(streams) <= Len(streams')
  BY <1>1, <1>4, <1>7, MoreStreams
<1>9. c.pq = chan[i].pq /\ d.pq = chan[i].pq  BY <1>4 DEF c
<1> QED  BY <1>2, <1>3, <1>5, <1>6, <1>7, <1>8, <1>9, EnqueueStep

\* What the client sends is numbered within the bound.
LEMMA SentTypes ==
    ASSUME TypeOK, NEW i \in Ids, NEW t \in 1 .. Len(streams)
    PROVE  Len(streams[t].sent) < DataOf(i) =>
               Len(streams[t].sent) + 1 \in 1 .. MaxData /\ Len(streams[t].sent) + 1 \in 0 .. MaxData
<1>1. DataOf(i) <= MaxData /\ DataOf(i) \in Nat /\ MaxData \in Nat
  BY HistoryTypes, ChannelAssumption
<1>2. Len(streams[t].sent) \in Nat
  <2>1. streams[t] \in Stream  BY DEF TypeOK
  <2> QED  BY <2>1 DEF Stream
<1> QED  BY <1>1, <1>2

\* handle_msg_data.
LEMMA TypeClientData ==
    ASSUME TypeOK, PiQueueSound, NEW i \in Ids, ClientData(i)
    PROVE  PiTypes'
<1> DEFINE c == chan[i]
           t == c.stream
           x == Len(streams[t].sent) + 1
<1>1. t \in 1 .. Len(streams) /\ c \in Channel(i) /\ streams \in Seq(Stream)
  BY PiState DEF ClientData
<1>2. r2a' = r2a /\ client' = client  BY DEF ClientData, ringVars
<1>3. client' \in {"gone", "idle", "serving"}  BY <1>2, PiState
<1>4. Enqueue(i, c, "DATA", x) /\ streams' = [streams EXCEPT ![t].sent = Append(@, x)]
  BY Zenon DEF ClientData
<1>5. x \in 1 .. MaxData /\ x \in 0 .. MaxData  BY <1>1, SentTypes DEF ClientData
<1>6. Packet("DATA", i, x) \in R2APackets({i})  BY <1>5, PacketTypes
<1> HIDE DEF c, t, x
<1>7. streams' \in Seq(Stream) /\ Len(streams') = Len(streams)
  <2>1. "ok" \in {"new", "ok", "eos", "done"}  OBVIOUS
  <2> QED  BY <1>1, <1>4, <1>5, <2>1, StreamStates
<1>8. c \in Channel(i)' /\ Len(streams) <= Len(streams') /\ c.pq = chan[i].pq
  BY <1>1, <1>7, MoreStreams DEF c
<1> QED  BY <1>2, <1>3, <1>4, <1>6, <1>7, <1>8, EnqueueStep

\* handle_msg_eos.
LEMMA TypeClientEos ==
    ASSUME TypeOK, PiQueueSound, NEW i \in Ids, ClientEos(i)
    PROVE  PiTypes'
<1> DEFINE c == chan[i]
           t == c.stream
           d == [c EXCEPT !.eosClient = TRUE, !.stream = IF c.eosAmi THEN 0 ELSE t]
<1>1. t \in 1 .. Len(streams) /\ c \in Channel(i) /\ streams \in Seq(Stream)
  BY PiState DEF ClientEos
<1>2. r2a' = r2a /\ client' = client  BY DEF ClientEos, ringVars
<1>3. client' \in {"gone", "idle", "serving"}  BY <1>2, PiState
<1>4. /\ Enqueue(i, d, "EOS", 0)
      /\ streams' = [streams EXCEPT ![t].state = "eos", ![t].sent = Append(@, EOS)]
  BY Zenon DEF ClientEos
<1>5. EOS \in 0 .. MaxData  BY ChannelAssumption DEF EOS
<1>6. Packet("EOS", i, 0) \in R2APackets({i})  BY PacketTypes
<1>7. d \in Channel(i) /\ d.pq = c.pq
  <2> DEFINE n == IF c.eosAmi THEN 0 ELSE t
  <2>1. n \in 0 .. Len(streams)  BY PiState
  <2>2. d = [c EXCEPT !.eosClient = TRUE, !.stream = n]  OBVIOUS
  <2> HIDE DEF n, d, c
  <2> QED  BY <1>1, <2>1, <2>2 DEF Channel
<1> HIDE DEF c, d, t
<1>8. streams' \in Seq(Stream) /\ Len(streams') = Len(streams)  BY <1>1, <1>4, <1>5, StreamStates
<1>9. d \in Channel(i)' /\ Len(streams) <= Len(streams') /\ d.pq = chan[i].pq
  BY <1>1, <1>7, <1>8, MoreStreams DEF c
<1> QED  BY <1>2, <1>3, <1>4, <1>6, <1>8, <1>9, EnqueueStep

\* A channel is given up.
LEMMA GivenUpTypes ==
    ASSUME TypeOK, NEW i \in Ids
    PROVE  GivenUp(i) \in Channel(i) /\ GivenUp(i).pq # <<>> /\ GivenUp(i).stream = 0
<1>1. chan[i] \in Channel(i) /\ 0 \in 0 .. Len(streams)  BY PiState
<1> DEFINE p == Packet("RESET", i, 0)
           q == <<p>>
<1>2. q \in Seq(R2APackets({i})) /\ q # <<>>
  <2>1. p \in R2APackets({i})  BY PacketTypes
  <2> HIDE DEF p
  <2> QED  BY <2>1
<1> HIDE DEF q
<1>3. GivenUp(i) = [chan[i] EXCEPT !.stream = 0, !.pq = q]  BY DEF GivenUp, q
<1> QED  BY <1>1, <1>2, <1>3 DEF Channel

\* handle_msg_reset.
LEMMA TypeClientReset ==
    ASSUME TypeOK, PiQueueSound, NEW i \in Ids, ClientReset(i)
    PROVE  PiTypes'
<1>1. /\ chan[i].stream \in 1 .. Len(streams) /\ streams \in Seq(Stream)
      /\ client \in {"gone", "idle", "serving"}
  BY PiState DEF ClientReset
<1>2. r2a' = r2a /\ client' = client  BY DEF ClientReset, ringVars
<1>3. streams' \in Seq(Stream) /\ Len(streams') = Len(streams)
  BY <1>1, StreamStates DEF ClientReset
<1> DEFINE c == GivenUp(i)
<1>4. c \in Channel(i) /\ c.pq # <<>> /\ chan' = [chan EXCEPT ![i] = c]
  BY GivenUpTypes DEF ClientReset
<1> HIDE DEF c
<1>5. c \in Channel(i)' /\ Len(streams) <= Len(streams')  BY <1>1, <1>3, <1>4, MoreStreams
<1>6. /\ DOMAIN chan' = Ids /\ \A j \in Ids : (chan[j] \in Channel(j))'
      /\ chan'[i] = c /\ \A j \in Ids \ {i} : chan'[j] = chan[j]
  BY <1>3, <1>4, <1>5, ChannelStep
<1>7. /\ RemoveFirst(send_queue, i) \in Seq(Ids) /\ NoDuplicates(RemoveFirst(send_queue, i))
      /\ ToSet(RemoveFirst(send_queue, i)) = ToSet(send_queue) \ {i}
  BY QueueRemove DEF TypeOK, PiQueueSound
<1>8. send_queue' = Append(RemoveFirst(send_queue, i), i)  BY DEF ClientReset
<1>9. /\ send_queue' \in Seq(Ids) /\ NoDuplicates(send_queue')
      /\ ToSet(send_queue') = (ToSet(send_queue) \ {i}) \cup {i}
  BY <1>7, <1>8, QueueAppend
<1>10. PiQueueSound'  BY <1>4, <1>6, <1>9 DEF PiQueueSound
<1> QED  BY <1>1, <1>2, <1>3, <1>6, <1>9, <1>10 DEF PiTypes, TypeOK

\* close_and_remove_connection.
LEMMA TypeClientGone ==
    ASSUME TypeOK, PiQueueSound, ClientGone
    PROVE  PiTypes'
<1> DEFINE mine == {i \in Ids : chan[i].stream # 0}
           key == [i \in Ids |-> chan[i].stream]
<1>1. send_queue \in Seq(Ids) /\ NoDuplicates(send_queue)  BY DEF TypeOK, PiQueueSound
<1>2. \A i \in Ids : key[i] \in Int
  <2>1. \A i \in Ids : chan[i].stream \in 0 .. Len(streams)  BY PiState
  <2> QED  BY <2>1
<1>3. PICK kept \in KeptPositions(send_queue, mine), order \in InOrder(mine, key) :
          send_queue' = Requeued(send_queue, kept, order)
  BY Zenon DEF ClientGone
<1>4. chan' = [i \in Ids |-> IF i \in mine THEN GivenUp(i) ELSE chan[i]]  BY DEF ClientGone
<1>5. client' = "gone" /\ r2a' = r2a /\ streams' = streams  BY DEF ClientGone, ringVars
<1>6. mine \in SUBSET Ids /\ mine \subseteq Ids  OBVIOUS
<1> HIDE DEF key
<1>7. /\ send_queue' \in Seq(Ids) /\ NoDuplicates(send_queue')
      /\ ToSet(send_queue') = ToSet(send_queue) \cup mine
  <2> HIDE DEF mine
  <2> QED  BY <1>1, <1>2, <1>3, <1>6, RequeuedMembers
<1>8. \A i \in Ids : Channel(i)' = Channel(i)  BY <1>5 DEF Channel
<1>9. /\ DOMAIN chan' = Ids /\ \A i \in Ids : (chan[i] \in Channel(i))'
      /\ \A i \in Ids : IF i \in mine THEN chan'[i].pq # <<>> ELSE chan'[i] = chan[i]
  <2>1. \A i \in Ids : GivenUp(i) \in Channel(i) /\ GivenUp(i).pq # <<>>  BY GivenUpTypes
  <2>2. \A i \in Ids : chan[i] \in Channel(i)  BY DEF TypeOK
  <2> HIDE DEF mine
  <2>3. \A i \in Ids : chan'[i] = IF i \in mine THEN GivenUp(i) ELSE chan[i]  BY <1>4
  <2>4. DOMAIN chan' = Ids  BY <1>4
  <2> QED  BY <1>8, <2>1, <2>2, <2>3, <2>4
<1> HIDE DEF mine
<1>10. PiQueueSound'  BY <1>6, <1>7, <1>9 DEF PiQueueSound
<1> QED  BY <1>5, <1>7, <1>9, <1>10 DEF PiTypes, TypeOK

-----------------------------------------------------------------------------
\* What holds of every state, resets of the Amiga or not.
TypeInv == TypeOK /\ OneRequest /\ PiQueueSound

\* It holds at first, ...
LEMMA TypeInit == ASSUME Init PROVE TypeInv
<1>1. <<>> \in Seq(1 .. MaxData) /\ Free \in Socket /\ Requests(Free) = {} /\ Free.pend = {}
  <2>1. <<>> \in Seq(1 .. MaxData)  OBVIOUS
  <2> QED  BY <2>1 DEF Socket, Free, Requests
<1>2. /\ \A i \in Ids : <<>> \in Seq(R2APackets({i}))
      /\ <<>> \in Seq(Stream) /\ <<>> \in Seq(0 .. MaxData)
      /\ <<>> \in Seq(R2APackets(Ids)) /\ <<>> \in Seq(A2RPackets) /\ Len(<<>>) = 0
  OBVIOUS
<1>3. \A i \in Ids : chan[i] = NoChannel /\ NoChannel \in Channel(i) /\ NoChannel.pq = <<>>
  <2>1. 0 \in 0 .. Len(streams)  BY <1>2 DEF Init
  <2>2. \A i \in Ids : NoChannel \in Channel(i)  BY <1>2, <2>1 DEF NoChannel, Channel
  <2> QED  BY <2>2 DEF Init, NoChannel
<1>4. sock \in [Ids -> Socket] /\ \A i \in Ids : sock[i] = Free  BY <1>1 DEF Init
<1>5. OneRequest  BY <1>1, <1>4 DEF OneRequest
<1>6. PiQueueSound  BY <1>3, QueueEmpty DEF PiQueueSound, Init
<1>7. /\ up \in BOOLEAN /\ session \in 0 .. MaxSessions /\ started \in 0 .. session
      /\ next \in 1 .. MaxConns + 1
  <2>1. MaxSessions \in Nat /\ MaxConns \in Nat  BY ChannelAssumption
  <2>2. 0 \in 0 .. MaxSessions /\ 0 \in 0 .. 0 /\ 1 \in 1 .. MaxConns + 1  BY <2>1
  <2> QED  BY <2>2, Zenon DEF Init
<1>8. Len(a2r) <= A2RCap /\ Len(r2a) <= R2ACap  BY <1>2, ChannelAssumption DEF Init
<1>9. /\ a2r \in Seq(A2RPackets) /\ r2a \in Seq(R2APackets(Ids))
      /\ streams \in Seq(Stream) /\ sendq \in Seq(Ids) /\ send_queue \in Seq(Ids)
      /\ DOMAIN chan = Ids /\ client \in {"gone", "idle", "serving"}
      /\ wrote \in [Ids -> Seq(0 .. MaxData)] /\ seen \in [Ids -> Seq(0 .. MaxData)]
  BY <1>2, QueueEmpty DEF Init
<1>10. TypeOK  BY <1>3, <1>4, <1>7, <1>8, <1>9 DEF TypeOK
<1> QED  BY <1>5, <1>6, <1>10 DEF TypeInv

\* ... and what the driver's and the Pi's variables are gives it back after a step.
LEMMA TypeTogether ==
    ASSUME DriverTypes', PiTypes', up' \in BOOLEAN, started' \in 0 .. session',
           session' \in 0 .. MaxSessions, next' \in 1 .. MaxConns + 1
    PROVE  TypeInv'
  BY DEF DriverTypes, PiTypes, TypeInv, TypeOK

\* A step of the driver that leaves the Pi and the ring to it alone.
LEMMA DriverOnly ==
    ASSUME TypeInv, DriverTypes', UNCHANGED <<up, session, started, r2a, piVars>>,
           next' \in 1 .. MaxConns + 1
    PROVE  TypeInv'
<1>1. UNCHANGED <<chan, send_queue, client, streams>>  BY DEF piVars
<1>2. PiTypes'
  <2>1. Len(streams) <= Len(streams)  BY DEF TypeInv, TypeOK
  <2> QED  BY <1>1, <2>1, SameChannels DEF TypeInv, TypeOK
<1>3. /\ up' \in BOOLEAN /\ session' \in 0 .. MaxSessions /\ started' \in 0 .. session'
  BY DEF TypeInv, TypeOK
<1> QED  BY <1>2, <1>3, TypeTogether

\* A step of the Pi that leaves the driver and the ring to it alone.
LEMMA PiOnly ==
    ASSUME TypeInv, PiTypes', UNCHANGED <<driverVars, a2r, wrote, seen>>, started' \in 0 .. session
    PROVE  TypeInv'
<1>1. UNCHANGED <<up, session, sock, sendq, next>>  BY DEF driverVars
<1>2. OneRequest'  BY <1>1 DEF TypeInv, OneRequest
<1>3. DriverTypes'  BY <1>1, <1>2 DEF DriverTypes, TypeInv, TypeOK
<1>4. /\ up' \in BOOLEAN /\ session' \in 0 .. MaxSessions /\ next' \in 1 .. MaxConns + 1
      /\ started' \in 0 .. session'
  BY <1>1 DEF TypeInv, TypeOK
<1> QED  BY <1>3, <1>4, TypeTogether

\* Every step keeps it.
LEMMA TypeStep == ASSUME TypeInv, [Next]_vars PROVE TypeInv'
<1>1. TypeOK /\ OneRequest /\ PiQueueSound  BY DEF TypeInv
<1>2. next \in 1 .. MaxConns + 1 /\ started \in 0 .. session  BY <1>1 DEF TypeOK
<1>3. ASSUME NEW n \in Sockets, AppConnect(n) PROVE TypeInv'
  BY <1>1, <1>3, TypeConnect, DriverOnly DEF AppConnect
<1>4. ASSUME NEW i \in Ids, AppRead(i) PROVE TypeInv'
  BY <1>1, <1>2, <1>4, TypeRead, DriverOnly DEF AppRead
<1>5. ASSUME NEW i \in Ids, AppWrite(i) PROVE TypeInv'
  BY <1>1, <1>2, <1>5, TypeWrite, DriverOnly DEF AppWrite
<1>6. ASSUME NEW i \in Ids, AppEos(i) PROVE TypeInv'
  BY <1>1, <1>2, <1>6, TypeEos, DriverOnly DEF AppEos
<1>7. ASSUME NEW i \in Ids, AppReset(i) PROVE TypeInv'
  BY <1>1, <1>2, <1>7, TypeReset, DriverOnly DEF AppReset
<1>8. CASE DriverSend  BY <1>1, <1>2, <1>8, TypeSend, DriverOnly DEF DriverSend
<1>9. CASE DriverReceive
  <2>1. DriverTypes' /\ r2a' \in Seq(R2APackets(Ids)) /\ Len(r2a') <= R2ACap
    BY <1>1, <1>9, TypeReceive
  <2>2. UNCHANGED <<up, session, next, started, chan, send_queue, client, streams>>
    BY <1>9 DEF DriverReceive, piVars
  <2>3. PiTypes'
    <3>1. Len(streams) <= Len(streams)  BY <1>1 DEF TypeOK
    <3> QED  BY <1>1, <2>1, <2>2, <3>1, SameChannels DEF TypeOK
  <2> QED  BY <1>1, <2>1, <2>2, <2>3, TypeTogether DEF TypeOK
<1>10. CASE DeviceStart
  <2>1. /\ up' = TRUE /\ session' \in 0 .. MaxSessions /\ started' \in 0 .. session'
        /\ UNCHANGED <<sock, sendq, next, a2r, r2a, chan, send_queue, client, streams, wrote, seen>>
    BY <1>1, <1>10, ChannelAssumption DEF DeviceStart, ringVars, piVars, TypeOK
  <2>2. PiTypes'
    <3>1. Len(streams) <= Len(streams)  BY <1>1 DEF TypeOK
    <3> QED  BY <1>1, <2>1, <3>1, SameChannels DEF TypeOK
  <2>3. OneRequest'  BY <1>1, <2>1 DEF OneRequest
  <2>4. DriverTypes'  BY <1>1, <2>1, <2>3 DEF DriverTypes, TypeOK
  <2> QED  BY <1>2, <2>1, <2>2, <2>4, TypeTogether
<1>11. CASE AmigaReset
  <2>1. /\ up' = FALSE /\ next' = 1
        /\ UNCHANGED <<session, started, r2a, chan, send_queue, client, streams>>
    BY <1>11 DEF AmigaReset, ringVars, piVars
  <2>2. PiTypes'
    <3>1. Len(streams) <= Len(streams)  BY <1>1 DEF TypeOK
    <3> QED  BY <1>1, <2>1, <3>1, SameChannels DEF TypeOK
  <2>3. next' \in 1 .. MaxConns + 1  BY <2>1, ChannelAssumption
  <2>4. DriverTypes'  BY <1>1, <1>11, TypeAmigaReset
  <2> QED  BY <1>1, <2>1, <2>2, <2>3, <2>4, TypeTogether DEF TypeOK
<1>12. CASE PiReceive
  <2>1. PiTypes' /\ a2r' \in Seq(A2RPackets) /\ Len(a2r') <= A2RCap
    BY <1>1, <1>12, TypePiReceive
  <2>2. UNCHANGED <<up, session, sock, sendq, next, started, wrote, seen>>
    BY <1>12 DEF PiReceive, driverVars
  <2>3. OneRequest'  BY <1>1, <2>2 DEF OneRequest
  <2>4. DriverTypes'  BY <1>1, <2>1, <2>2, <2>3 DEF DriverTypes, TypeOK
  <2> QED  BY <1>1, <2>1, <2>2, <2>4, TypeTogether DEF TypeOK
<1>13. CASE PiStarted
  <2>1. started' \in 0 .. session
    <3>1. session \in Nat /\ started \in 0 .. session  BY <1>1, ChannelAssumption DEF TypeOK
    <3>2. started > 0 /\ started' = started - 1  BY <1>13 DEF PiStarted
    <3> QED  BY <3>1, <3>2
  <2> QED  BY <1>1, <1>13, <2>1, TypePiStarted, PiOnly DEF PiStarted, ringVars
<1>14. CASE PiFlush  BY <1>1, <1>2, <1>14, TypePiFlush, PiOnly DEF PiFlush
<1>15. ASSUME NEW i \in Ids,
              ClientResponse(i) \/ ClientData(i) \/ ClientEos(i) \/ ClientReset(i)
       PROVE  TypeInv'
  <2>1. PiTypes'
    BY <1>1, <1>15, TypeClientResponse, TypeClientData, TypeClientEos, TypeClientReset
  <2>2. UNCHANGED <<driverVars, a2r, wrote, seen, started>>
    BY <1>15 DEF ClientResponse, ClientData, ClientEos, ClientReset, ringVars
  <2> QED  BY <1>2, <2>1, <2>2, PiOnly
<1>16. CASE ClientGone
  BY <1>1, <1>2, <1>16, TypeClientGone, PiOnly DEF ClientGone, ringVars
<1>17. CASE ClientConnect \/ ClientRegister
  <2>1. /\ UNCHANGED <<driverVars, started, a2r, r2a, chan, send_queue, streams, wrote, seen>>
        /\ client' \in {"gone", "idle", "serving"}
    BY <1>17 DEF ClientConnect, ClientRegister, ringVars
  <2>2. PiTypes'
    <3>1. Len(streams) <= Len(streams)  BY <1>1 DEF TypeOK
    <3> QED  BY <1>1, <2>1, <3>1, SameChannels DEF TypeOK
  <2> QED  BY <1>2, <2>1, <2>2, PiOnly
<1>18. CASE UNCHANGED vars
  <2>1. /\ UNCHANGED <<driverVars, started, a2r, r2a, chan, send_queue, client, streams, wrote, seen>>
    BY <1>18 DEF vars, ringVars, piVars
  <2>2. PiTypes'
    <3>1. Len(streams) <= Len(streams)  BY <1>1 DEF TypeOK
    <3> QED  BY <1>1, <2>1, <3>1, SameChannels DEF TypeOK
  <2> QED  BY <1>2, <2>1, <2>2, PiOnly
<1> QED
  BY <1>3, <1>4, <1>5, <1>6, <1>7, <1>8, <1>9, <1>10, <1>11, <1>12, <1>13, <1>14, <1>15, <1>16,
     <1>17, <1>18 DEF Next, App, Client

\* It is an invariant.
LEMMA TypeInvariant == Spec => []TypeInv
<1>1. Init => TypeInv  BY TypeInit
<1>2. TypeInv /\ [Next]_vars => TypeInv'  BY TypeStep
<1> QED  BY <1>1, <1>2, PTL DEF Spec

\* Every variable of the driver and of the Pi has its type, whatever the
\* application, the client and resets of the Amiga do: no ring holds more than
\* it can, no packet carries what its type does not allow.
THEOREM ChannelTypesHold == Spec => []TypeOK
<1>1. TypeInv => TypeOK  BY DEF TypeInv
<1> QED  BY <1>1, TypeInvariant, PTL

\* The Pi's send queue holds exactly the channels with packets, once each:
\* create_and_enqueue_packet, clear_packet_queue and flush_send_queue agree, also
\* when a client dies or the Amiga is reset.
THEOREM PiQueueStaysSound == Spec => []PiQueueSound
<1>1. TypeInv => PiQueueSound  BY DEF TypeInv
<1> QED  BY <1>1, TypeInvariant, PTL

-----------------------------------------------------------------------------
\* The order of a queue.

\* A queue in which the members before i were before i in q as well.
LEMMA AheadOf ==
    ASSUME NEW q, NEW r, NEW i,
           \A k, l \in DOMAIN r :
               k < l /\ r[l] = i => \E a, b \in DOMAIN q : a < b /\ q[a] = r[k] /\ q[b] = i
    PROVE  Ahead(r, i) \subseteq Ahead(q, i)
  BY DEF Ahead

\* Nobody gets before i when another is put at the end, ...
LEMMA AheadAppend ==
    ASSUME NEW q \in Seq(Ids), NEW e \in Ids, NEW i \in Ids \ {e}
    PROVE  Ahead(Append(q, e), i) \subseteq Ahead(q, i)
<1> DEFINE r == Append(q, e)
<1>1. /\ Len(q) \in Nat /\ DOMAIN q = 1 .. Len(q) /\ DOMAIN r = 1 .. Len(q) + 1
      /\ r[Len(q) + 1] = e /\ \A k \in 1 .. Len(q) : r[k] = q[k]
  OBVIOUS
<1> HIDE DEF r
<1>2. ASSUME NEW k \in DOMAIN r, NEW l \in DOMAIN r, k < l, r[l] = i
      PROVE  \E a, b \in DOMAIN q : a < b /\ q[a] = r[k] /\ q[b] = i
  <2>1. l # Len(q) + 1  BY <1>1, <1>2
  <2>2. l \in 1 .. Len(q) /\ k \in 1 .. Len(q)  BY <1>1, <1>2, <2>1
  <2> QED  BY <1>1, <1>2, <2>2
<1> QED  BY <1>2, AheadOf DEF r

\* ... when the first is taken out, who was before all that stay, ...
LEMMA AheadTail ==
    ASSUME NEW q \in Seq(Ids), q # <<>>, NEW i
    PROVE  /\ Ahead(Tail(q), i) \subseteq Ahead(q, i) /\ Ahead(Tail(q), i) \subseteq ToSet(Tail(q))
           /\ i \in ToSet(Tail(q)) => Head(q) \in Ahead(q, i)
<1> DEFINE r == Tail(q)
<1>1. /\ Len(q) \in Nat \ {0} /\ DOMAIN q = 1 .. Len(q) /\ DOMAIN r = 1 .. Len(q) - 1
      /\ Head(q) = q[1] /\ \A k \in 1 .. Len(q) - 1 : r[k] = q[k + 1]
  OBVIOUS
<1> HIDE DEF r
<1>2. ASSUME NEW k \in DOMAIN r, NEW l \in DOMAIN r, k < l, r[l] = i
      PROVE  \E a, b \in DOMAIN q : a < b /\ q[a] = r[k] /\ q[b] = i
  <2>1. /\ k + 1 \in DOMAIN q /\ l + 1 \in DOMAIN q /\ k + 1 < l + 1
        /\ q[k + 1] = r[k] /\ q[l + 1] = i
    BY <1>1, <1>2
  <2> QED  BY <2>1
<1>3. Ahead(r, i) \subseteq Ahead(q, i)  BY <1>2, AheadOf
<1>4. Ahead(r, i) \subseteq ToSet(r)  BY DEF Ahead, ToSet
<1>5. ASSUME i \in ToSet(r) PROVE Head(q) \in Ahead(q, i)
  <2>1. PICK l \in DOMAIN r : r[l] = i  BY <1>5 DEF ToSet
  <2>2. 1 \in DOMAIN q /\ l + 1 \in DOMAIN q /\ 1 < l + 1 /\ q[l + 1] = i  BY <1>1, <2>1
  <2> QED  BY <1>1, <2>2 DEF Ahead
<1> QED  BY <1>3, <1>4, <1>5 DEF r

\* ... when any is taken out, ...
LEMMA AheadRemove ==
    ASSUME NEW q \in Seq(Ids), NEW e, NEW i
    PROVE  Ahead(RemoveFirst(q, e), i) \subseteq Ahead(q, i)
<1> DEFINE r == RemoveFirst(q, e)
<1>1. Len(q) \in Nat /\ DOMAIN q = 1 .. Len(q)  OBVIOUS
<1>2. CASE ~\E k \in 1 .. Len(q) : q[k] = e
  <2>1. r = q  BY <1>2 DEF RemoveFirst
  <2> QED  BY <2>1
<1>3. CASE \E k \in 1 .. Len(q) : q[k] = e
  <2>1. PICK p \in 1 .. Len(q) : q[p] = e /\ r = RemoveAt(q, p)  BY <1>3, FirstOf
  <2> HIDE DEF r
  <2>2. /\ r \in Seq(Ids) /\ Len(r) = Len(q) - 1
        /\ \A k \in 1 .. Len(q) - 1 : r[k] = IF k < p THEN q[k] ELSE q[k + 1]
    BY <2>1, RemoveAtElements
  <2>3. DOMAIN r = 1 .. Len(q) - 1  BY <2>2
  <2> DEFINE at(k) == IF k < p THEN k ELSE k + 1
  <2>4. \A k \in DOMAIN r : r[k] = q[at(k)] /\ at(k) \in DOMAIN q  BY <1>1, <2>2, <2>3
  <2>5. \A k, l \in DOMAIN r : k < l => at(k) < at(l)  BY <1>1, <2>3
  <2> HIDE DEF at
  <2>6. \A k, l \in DOMAIN r :
            k < l /\ r[l] = i => \E a, b \in DOMAIN q : a < b /\ q[a] = r[k] /\ q[b] = i
    BY <2>4, <2>5
  <2> QED  BY <2>6, AheadOf DEF r
<1> QED  BY <1>2, <1>3

\* ... and when the channels of a client that is gone are moved behind all others.
LEMMA AheadRequeued ==
    ASSUME NEW q \in Seq(Ids), NEW mine \in SUBSET Ids, NEW i \in Ids \ mine,
           NEW key, \A j \in Ids : key[j] \in Int,
           NEW kept \in KeptPositions(q, mine), NEW order \in InOrder(mine, key)
    PROVE  Ahead(Requeued(q, kept, order), i) \subseteq Ahead(q, i)
<1> DEFINE D == {k \in DOMAIN q : q[k] \notin mine}
           s == [k \in DOMAIN kept |-> q[kept[k]]]
           r == Requeued(q, kept, order)
<1>1. DOMAIN q = 1 .. Len(q) /\ Len(q) \in Nat /\ \A k \in DOMAIN q : q[k] \in Ids  OBVIOUS
<1>2. IsFiniteSet(D) /\ IsFiniteSet(mine)
  <2>1. IsFiniteSet(1 .. Len(q)) /\ IsFiniteSet(Ids)
    BY <1>1, ChannelAssumption, FS_Interval DEF Ids
  <2> QED  BY <1>1, <2>1, FS_Subset
<1>3. /\ kept \in [1 .. Cardinality(D) -> D]
      /\ \A a, b \in 1 .. Cardinality(D) :
             a < b => [k \in DOMAIN q |-> k][kept[a]] < [k \in DOMAIN q |-> k][kept[b]]
  BY DEF KeptPositions, InOrder
<1>4. Cardinality(D) \in Nat  BY <1>2, FS_CardinalityType
<1>5. order \in Seq(mine)  BY <1>2, InOrderMembers
<1> DEFINE n == Cardinality(D)
<1>6. /\ DOMAIN kept = 1 .. n /\ n \in Nat
      /\ \A k \in 1 .. n : kept[k] \in DOMAIN q
      /\ \A a, b \in 1 .. n : a < b => kept[a] < kept[b]
  <2>1. \A k \in 1 .. n : kept[k] \in D /\ kept[k] \in DOMAIN q  BY <1>3
  <2> HIDE DEF D
  <2> QED  BY <1>3, <1>4, <2>1
<1> HIDE DEF D, n
<1>7. \A k \in 1 .. n : s[k] = q[kept[k]] /\ s[k] \in Ids  BY <1>1, <1>6
<1>8. s \in Seq(Ids) /\ Len(s) = n
  <2>1. s \in [1 .. n -> Ids]  BY <1>6, <1>7
  <2> HIDE DEF s
  <2>2. s \in Seq(Ids)  BY <1>6, <2>1, SeqDef
  <2>3. DOMAIN s = 1 .. n /\ DOMAIN s = 1 .. Len(s) /\ Len(s) \in Nat
    BY <2>1, <2>2, LenProperties
  <2> QED  BY <1>6, <2>2, <2>3
<1>9. r = s \o order  BY DEF Requeued
<1> HIDE DEF s, r
<1>10. /\ order \in Seq(Ids) /\ Len(order) \in Nat
       /\ \A k \in 1 .. Len(order) : order[k] \in mine
  BY <1>5
<1>11. /\ r \in Seq(Ids) /\ Len(r) = n + Len(order)
       /\ \A k \in 1 .. n + Len(order) : r[k] = IF k <= n THEN s[k] ELSE order[k - n]
  <2>1. /\ s \o order \in Seq(Ids) /\ Len(s \o order) = Len(s) + Len(order)
        /\ \A k \in 1 .. Len(s) + Len(order) :
               (s \o order)[k] = IF k <= Len(s) THEN s[k] ELSE order[k - Len(s)]
    BY <1>8, <1>10, ConcatProperties
  <2> QED  BY <1>8, <1>9, <2>1, Zenon
<1>12. DOMAIN r = 1 .. n + Len(order)  BY <1>6, <1>10, <1>11
<1>13. ASSUME NEW k \in DOMAIN r, NEW l \in DOMAIN r, k < l, r[l] = i
       PROVE  \E a, b \in DOMAIN q : a < b /\ q[a] = r[k] /\ q[b] = i
  <2>1. l <= n
    <3>1. SUFFICES ASSUME ~(l <= n) PROVE FALSE  OBVIOUS
    <3>2. l - n \in 1 .. Len(order) /\ r[l] = order[l - n]  BY <1>6, <1>10, <1>11, <1>12, <3>1
    <3> QED  BY <1>10, <1>13, <3>2
  <2>2. k \in 1 .. n /\ l \in 1 .. n  BY <1>6, <1>10, <1>12, <1>13, <2>1
  <2>3. r[k] = q[kept[k]] /\ i = q[kept[l]]  BY <1>7, <1>11, <1>12, <1>13, <2>1, <2>2
  <2> QED  BY <1>6, <1>13, <2>2, <2>3
<1> QED  BY <1>13, AheadOf DEF r

-----------------------------------------------------------------------------
\* Turns.  A channel that its client, or the Amiga, may still use has no RESET to
\* send: what it has when it is given up is not what it had before.
NoReset(c) == c.stream # 0 => \A k \in DOMAIN c.pq : c.pq[k].type # "RESET"

Undecided == \A i \in Ids : NoReset(chan[i])

\* A packet more, that is no RESET.
LEMMA EnqueuedNoReset ==
    ASSUME TypeOK, Undecided, NEW i \in Ids, NEW c \in Channel(i), NoReset(c),
           NEW type, type # "RESET", NEW x, Packet(type, i, x) \in R2APackets({i}),
           Enqueue(i, c, type, x)
    PROVE  Undecided'
<1> DEFINE p == Packet(type, i, x)
           d == [c EXCEPT !.pq = Append(@, p)]
<1>1. c.pq \in Seq(R2APackets({i})) /\ p \in R2APackets({i}) /\ p.type # "RESET"
  <2>1. p.type = type  BY DEF Packet
  <2> QED  BY <2>1 DEF Channel
<1> HIDE DEF p
<1>2. d.stream = c.stream /\ d.pq = Append(c.pq, p)  BY DEF Channel
<1>3. chan' = [chan EXCEPT ![i] = d]  BY DEF Enqueue, p
<1> HIDE DEF d
<1>4. NoReset(d)
  <2>1. SUFFICES ASSUME c.stream # 0, NEW k \in DOMAIN Append(c.pq, p)
                 PROVE  Append(c.pq, p)[k].type # "RESET"
    BY <1>2 DEF NoReset
  <2>2. k \in 1 .. Len(c.pq) + 1 /\ Len(c.pq) \in Nat  BY <1>1, <2>1
  <2>3. CASE k = Len(c.pq) + 1  BY <1>1, <2>3
  <2>4. CASE k \in 1 .. Len(c.pq)
    <3>1. Append(c.pq, p)[k] = c.pq[k] /\ k \in DOMAIN c.pq  BY <1>1, <2>4
    <3> QED  BY <2>1, <3>1 DEF NoReset
  <2> QED  BY <2>2, <2>3, <2>4
<1>5. DOMAIN chan = Ids  BY DEF TypeOK
<1> QED  BY <1>3, <1>4, <1>5 DEF Undecided

\* A channel that changes to one without a RESET, or without a stream.
LEMMA ChangedNoReset ==
    ASSUME TypeOK, Undecided, NEW i \in Ids, NEW c, NoReset(c), chan' = [chan EXCEPT ![i] = c]
    PROVE  Undecided'
  BY DEF Undecided, TypeOK

\* handle_received_pkt associates a channel when it has nothing to send.
LEMMA ReceiveNoReset ==
    ASSUME TypeOK, Undecided, NEW i \in Ids,
           PiConnect(i) \/ PiEos(i) \/ PiReset(i)
    PROVE  Undecided'
<1>1. chan[i] \in Channel(i) /\ NoReset(chan[i])  BY DEF TypeOK, Undecided
<1>2. NoReset(NoChannel)  BY DEF NoReset, NoChannel
<1>3. CASE PiConnect(i)
  <2>1. CASE chan' = [chan EXCEPT ![i].stream = Len(streams) + 1]
    <3> DEFINE c == [chan[i] EXCEPT !.stream = Len(streams) + 1]
    <3>1. chan' = [chan EXCEPT ![i] = c]  BY <2>1, Zenon
    <3>2. c.pq = <<>>  BY <1>1, <1>3 DEF Channel, PiConnect, Exists
    <3> HIDE DEF c
    <3>3. NoReset(c)  BY <3>2 DEF NoReset
    <3> QED  BY <3>1, <3>3, ChangedNoReset
  <2>2. CASE Enqueue(i, NoChannel, "RESPONSE", CONNECT_UNKNOWN_SERVICE)
    <3>1. Packet("RESPONSE", i, CONNECT_UNKNOWN_SERVICE) \in R2APackets({i})  BY PacketTypes
    <3>2. NoChannel \in Channel(i)
      <4>1. <<>> \in Seq(R2APackets({i})) /\ 0 \in 0 .. Len(streams)  BY PiState
      <4> QED  BY <4>1 DEF NoChannel, Channel
    <3> QED  BY <1>2, <2>2, <3>1, <3>2, EnqueuedNoReset
  <2> QED  BY <1>3, <2>1, <2>2 DEF PiConnect
<1>4. CASE PiEos(i)
  <2> DEFINE n == IF chan[i].eosClient THEN 0 ELSE chan[i].stream
             d == [chan[i] EXCEPT !.eosAmi = TRUE, !.stream = n]
  <2>1. chan' = [chan EXCEPT ![i] = Tidy(d)]  BY <1>4, Zenon DEF PiEos
  <2>2. d.pq = chan[i].pq /\ d.stream = n  BY <1>1 DEF Channel
  <2>3. n # 0 => chan[i].stream # 0  OBVIOUS
  <2> HIDE DEF n, d
  <2>4. NoReset(d)  BY <1>1, <2>2, <2>3 DEF NoReset
  <2>5. NoReset(Tidy(d))  BY <1>2, <2>4 DEF Tidy
  <2> QED  BY <2>1, <2>5, ChangedNoReset
<1>5. CASE PiReset(i)
  <2>1. chan' = [chan EXCEPT ![i] = NoChannel]  BY <1>5 DEF PiReset
  <2> QED  BY <1>2, <2>1, ChangedNoReset
<1> QED  BY <1>3, <1>4, <1>5

\* One turn of flush_send_queue.
LEMMA FlushNoReset ==
    ASSUME TypeOK, PiQueueSound, Undecided, PiFlush
    PROVE  Undecided'
<1>1. PICK i \in Ids : i = Head(send_queue) /\ i \in ToSet(send_queue)
  BY QueueTail DEF PiFlush, TypeOK
<1> DEFINE left == Tail(chan[i].pq)
           d == [chan[i] EXCEPT !.pq = left]
<1>2. chan[i] \in Channel(i) /\ NoReset(chan[i])  BY DEF TypeOK, Undecided
<1>3. chan[i].pq # <<>> /\ chan[i].pq \in Seq(R2APackets({i}))
  BY <1>1, <1>2 DEF PiQueueSound, Channel
<1>4. chan' = [chan EXCEPT ![i] = Tidy(d)]  BY <1>1, Zenon DEF PiFlush
<1>5. d.pq = left /\ d.stream = chan[i].stream  BY <1>2 DEF Channel
<1>6. \A k \in DOMAIN left : k + 1 \in DOMAIN chan[i].pq /\ left[k] = chan[i].pq[k + 1]
  <2> DEFINE q == chan[i].pq
  <2>1. q # <<>> /\ q \in Seq(R2APackets({i}))  BY <1>3
  <2> HIDE DEF q
  <2>2. \A k \in DOMAIN Tail(q) : k + 1 \in DOMAIN q /\ Tail(q)[k] = q[k + 1]  BY <2>1
  <2> QED  BY <2>2 DEF q
<1> HIDE DEF left, d
<1>7. NoReset(d)  BY <1>2, <1>5, <1>6 DEF NoReset
<1>8. NoReset(Tidy(d))  BY <1>7 DEF Tidy, NoReset, NoChannel
<1> QED  BY <1>4, <1>8, ChangedNoReset

\* The messages of the client.
LEMMA ClientNoReset ==
    ASSUME TypeOK, Undecided, NEW i \in Ids,
           ClientResponse(i) \/ ClientData(i) \/ ClientEos(i) \/ ClientReset(i)
    PROVE  Undecided'
<1> DEFINE c == chan[i]
           t == c.stream
           d == [c EXCEPT !.stream = 0]
           n == IF c.eosAmi THEN 0 ELSE t
           e == [c EXCEPT !.eosClient = TRUE, !.stream = n]
<1>1. t # 0  BY DEF ClientResponse, ClientData, ClientEos, ClientReset
<1>2. t \in 1 .. Len(streams) /\ c \in Channel(i) /\ NoReset(c)  BY <1>1, PiState DEF Undecided
<1>3. d \in Channel(i) /\ NoReset(d)
  <2> HIDE DEF c
  <2>1. 0 \in 0 .. Len(streams)  BY <1>2
  <2>2. d.stream = 0  BY <1>2 DEF Channel
  <2> QED  BY <1>2, <2>1, <2>2 DEF Channel, NoReset
<1>4. e \in Channel(i) /\ NoReset(e)
  <2>1. n \in 0 .. Len(streams) /\ (n # 0 => t # 0)  BY <1>2
  <2> HIDE DEF c, n
  <2>2. e \in Channel(i) /\ e.pq = c.pq /\ e.stream = n  BY <1>2, <2>1 DEF Channel
  <2> HIDE DEF e
  <2> QED  BY <1>2, <2>1, <2>2 DEF NoReset
<1> HIDE DEF d, e
<1>5. /\ Packet("RESPONSE", i, CONNECT_OK) \in R2APackets({i})
      /\ Packet("RESPONSE", i, CONNECT_UNKNOWN_SERVICE) \in R2APackets({i})
      /\ Packet("EOS", i, 0) \in R2APackets({i})
  BY PacketTypes
<1>6. CASE ClientResponse(i)
  <2>1. \/ Enqueue(i, c, "RESPONSE", CONNECT_OK)
        \/ Enqueue(i, d, "RESPONSE", CONNECT_UNKNOWN_SERVICE)
    BY <1>6, Zenon DEF ClientResponse, d
  <2> HIDE DEF c
  <2> QED  BY <1>2, <1>3, <1>5, <2>1, EnqueuedNoReset
<1>7. CASE ClientData(i)
  <2> DEFINE x == Len(streams[t].sent) + 1
  <2>1. Enqueue(i, c, "DATA", x)  BY <1>7, Zenon DEF ClientData
  <2>2. x \in 1 .. MaxData  BY <1>2, <1>7, SentTypes DEF ClientData
  <2>3. Packet("DATA", i, x) \in R2APackets({i})  BY <2>2, PacketTypes
  <2> HIDE DEF c, x
  <2> QED  BY <1>2, <2>1, <2>3, EnqueuedNoReset
<1>8. CASE ClientEos(i)
  <2>1. Enqueue(i, e, "EOS", 0)  BY <1>8, Zenon DEF ClientEos, e
  <2> HIDE DEF c
  <2> QED  BY <1>4, <1>5, <2>1, EnqueuedNoReset
<1>9. CASE ClientReset(i)
  <2>1. chan' = [chan EXCEPT ![i] = GivenUp(i)]  BY <1>9 DEF ClientReset
  <2>2. NoReset(GivenUp(i))  BY GivenUpTypes DEF NoReset
  <2> QED  BY <2>1, <2>2, ChangedNoReset
<1> QED  BY <1>6, <1>7, <1>8, <1>9

\* Every step keeps it.
LEMMA UndecidedStep == ASSUME TypeInv, Undecided, [Next]_vars PROVE Undecided'
<1>1. TypeOK /\ PiQueueSound  BY DEF TypeInv
<1>2. CASE UNCHANGED chan  BY <1>2 DEF Undecided
<1>3. CASE PiReceive
  <2>1. Head(a2r).id \in Ids
    <3>1. a2r # <<>> /\ a2r \in Seq(A2RPackets)  BY <1>1, <1>3 DEF PiReceive, TypeOK
    <3>2. Head(a2r) \in A2RPackets  BY <3>1, HeadTailProperties
    <3> QED  BY <3>2, PacketOfChannel
  <2>2. \/ \E i \in Ids : PiConnect(i) \/ PiEos(i) \/ PiReset(i)
        \/ UNCHANGED chan
    BY <1>3, <2>1, Zenon DEF PiReceive, PiData, piVars
  <2> QED  BY <1>1, <1>2, <2>2, ReceiveNoReset
<1>4. CASE PiStarted
  <2>1. \A i \in Ids : chan'[i] = NoChannel  BY <1>4 DEF PiStarted
  <2> QED  BY <2>1 DEF Undecided, NoReset, NoChannel
<1>5. CASE PiFlush  BY <1>1, <1>5, FlushNoReset
<1>6. ASSUME NEW i \in Ids,
             ClientResponse(i) \/ ClientData(i) \/ ClientEos(i) \/ ClientReset(i)
      PROVE  Undecided'
  BY <1>1, <1>6, ClientNoReset
<1>7. CASE ClientGone
  <2>1. \A i \in Ids : chan'[i] = GivenUp(i) \/ chan'[i] = chan[i]  BY <1>7 DEF ClientGone
  <2>2. \A i \in Ids : NoReset(GivenUp(i))  BY <1>1, GivenUpTypes DEF NoReset
  <2> QED  BY <2>1, <2>2, Zenon DEF Undecided
<1>8. CASE App \/ DriverSend \/ DriverReceive \/ DeviceStart \/ AmigaReset
           \/ ClientConnect \/ ClientRegister \/ UNCHANGED vars
  <2>1. UNCHANGED chan
    BY <1>8 DEF App, AppConnect, AppRead, AppWrite, AppEos, AppReset, DriverSend, DriverReceive,
                DeviceStart, AmigaReset, ClientConnect, ClientRegister, vars, piVars
  <2> QED  BY <1>2, <2>1
<1> QED  BY <1>3, <1>4, <1>5, <1>6, <1>7, <1>8 DEF Next, Client

\* Whoever has a packet to send is in the queue.
LEMMA InQueue ==
    ASSUME TypeInv, NEW i \in Ids, chan[i].pq # <<>>
    PROVE  i \in ToSet(send_queue) /\ send_queue \in Seq(Ids)
  BY DEF TypeInv, TypeOK, PiQueueSound

\* A channel that is not associated any more, but was, has lost what it had to send.
LEMMA GivenUpLost ==
    ASSUME TypeOK, Undecided, NEW i \in Ids, chan[i].stream # 0, chan[i].pq # <<>>
    PROVE  ~IsPrefix(chan[i].pq, GivenUp(i).pq)
<1> DEFINE q == chan[i].pq
           p == Packet("RESET", i, 0)
<1>1. q \in Seq(R2APackets({i})) /\ q # <<>>  BY DEF TypeOK, Channel
<1>2. \A k \in DOMAIN q : q[k].type # "RESET"  BY DEF Undecided, NoReset
<1>3. GivenUp(i).pq = <<p>>
  <2>1. chan[i] \in Channel(i)  BY DEF TypeOK
  <2> QED  BY <2>1 DEF GivenUp, Channel
<1>4. p.type = "RESET"  BY DEF Packet
<1> HIDE DEF q, p
<1>5. ASSUME IsPrefix(q, <<p>>) PROVE FALSE
  <2>1. Len(q) = 1 /\ 1 \in DOMAIN q  BY <1>1, <1>5 DEF IsPrefix
  <2>2. SubSeq(q, 1, 1) = SubSeq(<<p>>, 1, 1)  BY <1>5, <2>1 DEF IsPrefix
  <2>3. q[1] = p  BY <1>1, <2>1, <2>2
  <2> QED  BY <1>2, <1>4, <2>1, <2>3
<1> QED  BY <1>3, <1>5 DEF q

\* A queue that another joins, or nobody does.
LEMMA EnqueueTurns ==
    ASSUME TypeInv, NEW j \in Ids, NEW c, c.pq = chan[j].pq, NEW type, NEW x,
           Enqueue(j, c, type, x), NEW i \in Ids, chan[i].pq # <<>>
    PROVE  Ahead(send_queue', i) \subseteq Ahead(send_queue, i)
<1>1. CASE c.pq = <<>>
  <2>1. send_queue' = Append(send_queue, j) /\ i # j  BY <1>1 DEF Enqueue
  <2> QED  BY <2>1, InQueue, AheadAppend
<1>2. CASE c.pq # <<>>  BY <1>2 DEF Enqueue
<1> QED  BY <1>1, <1>2

\* One turn of flush_send_queue: the channel that had it goes behind all others.
LEMMA FlushTurns ==
    ASSUME TypeInv, PiFlush, NEW i \in Ids, chan[i].pq # <<>>, IsPrefix(chan[i].pq, chan'[i].pq)
    PROVE  KeepsItsPlace(i, send_queue, r2a)
<1>1. i \in ToSet(send_queue) /\ send_queue \in Seq(Ids) /\ send_queue # <<>>
  BY InQueue DEF PiFlush
<1>2. PICK h \in Ids :
         /\ h = Head(send_queue) /\ Tail(send_queue) \in Seq(Ids)
         /\ ToSet(Tail(send_queue)) = ToSet(send_queue) \ {h} /\ h \in ToSet(send_queue)
  BY <1>1, QueueTail DEF TypeInv, PiQueueSound
<1> DEFINE left == Tail(chan[h].pq)
           d == [chan[h] EXCEPT !.pq = left]
<1>3. chan[h] \in Channel(h) /\ chan[h].pq \in Seq(R2APackets({h})) /\ chan[h].pq # <<>>
  BY <1>2 DEF TypeInv, TypeOK, PiQueueSound, Channel
<1>4. chan' = [chan EXCEPT ![h] = Tidy(d)]  BY <1>2, Zenon DEF PiFlush
<1>5. r2a' = Append(r2a, Head(chan[h].pq)) /\ send_queue' = AfterTurn(h, left)
  BY <1>2, Zenon DEF PiFlush
<1>6. i # h
  <2>1. d.pq = left  BY <1>3 DEF Channel
  <2>2. Tidy(d).pq = left  BY <2>1 DEF Tidy, NoChannel
  <2>3. chan'[h].pq = left  BY <1>2, <1>4, <2>2 DEF TypeInv, TypeOK
  <2> DEFINE q == chan[h].pq
  <2>4. q \in Seq(R2APackets({h})) /\ q # <<>>  BY <1>3
  <2> HIDE DEF q
  <2>5. ~IsPrefix(q, Tail(q))  BY <2>4 DEF IsPrefix
  <2> QED  BY <2>3, <2>5 DEF q
<1>7. i \in ToSet(Tail(send_queue))  BY <1>1, <1>2, <1>6
<1>8. /\ Ahead(Tail(send_queue), i) \subseteq Ahead(send_queue, i) \ {h}
      /\ h \in Ahead(send_queue, i)
  BY <1>1, <1>2, <1>7, AheadTail
<1>9. Ahead(send_queue', i) \subseteq Ahead(Tail(send_queue), i)
  <2>1. CASE left = <<>>  BY <1>5, <2>1 DEF AfterTurn
  <2>2. CASE left # <<>>
    <3>1. send_queue' = Append(Tail(send_queue), h)  BY <1>5, <2>2 DEF AfterTurn
    <3> QED  BY <1>2, <1>6, <3>1, AheadAppend
  <2> QED  BY <2>1, <2>2
<1>10. Last(r2a').id = h
  <2> DEFINE p == Head(chan[h].pq)
  <2>1. p \in R2APackets({h})  BY <1>3, HeadTailProperties
  <2>2. r2a' = Append(r2a, p)  BY <1>5
  <2> HIDE DEF p
  <2>3. r2a \in Seq(R2APackets(Ids)) /\ p \in R2APackets(Ids) /\ p.id = h
    BY <1>2, <2>1, PacketOfChannel DEF TypeInv, TypeOK
  <2>4. Last(r2a') = p  BY <2>2, <2>3 DEF Last
  <2> QED  BY <2>3, <2>4
<1> QED  BY <1>8, <1>9, <1>10 DEF KeepsItsPlace

\* Nobody gets before a channel that has something to send, and still has it.
LEMMA QueueTurns ==
    ASSUME TypeInv, Undecided, [Next]_vars, ~PiFlush,
           NEW i \in Ids, chan[i].pq # <<>>, IsPrefix(chan[i].pq, chan'[i].pq)
    PROVE  Ahead(send_queue', i) \subseteq Ahead(send_queue, i)
<1>1. TypeOK /\ PiQueueSound /\ send_queue \in Seq(Ids)  BY DEF TypeInv, TypeOK
<1>2. CASE UNCHANGED send_queue  BY <1>2
<1>3. CASE PiReceive
  <2>1. Head(a2r).id \in Ids
    <3>1. a2r # <<>> /\ a2r \in Seq(A2RPackets)  BY <1>1, <1>3 DEF PiReceive, TypeOK
    <3>2. Head(a2r) \in A2RPackets  BY <3>1, HeadTailProperties
    <3> QED  BY <3>2, PacketOfChannel
  <2>2. \/ \E j \in Ids : PiConnect(j) \/ PiReset(j)
        \/ UNCHANGED send_queue
    BY <1>3, <2>1, Zenon DEF PiReceive, PiData, PiEos, piVars
  <2>3. ASSUME NEW j \in Ids, PiConnect(j)
        PROVE  Ahead(send_queue', i) \subseteq Ahead(send_queue, i)
    <3>1. chan[j].pq = <<>> /\ NoChannel.pq = <<>>  BY <2>3 DEF PiConnect, Exists, NoChannel
    <3> QED  BY <1>2, <2>3, <3>1, EnqueueTurns DEF PiConnect
  <2>4. ASSUME NEW j \in Ids, PiReset(j)
        PROVE  Ahead(send_queue', i) \subseteq Ahead(send_queue, i)
    BY <1>1, <2>4, AheadRemove DEF PiReset
  <2> QED  BY <1>2, <2>2, <2>3, <2>4
<1>4. CASE PiStarted
  <2>1. send_queue' = <<>>  BY <1>4 DEF PiStarted
  <2> QED  BY <2>1 DEF Ahead
<1>5. ASSUME NEW j \in Ids, ClientResponse(j) \/ ClientData(j) \/ ClientEos(j)
      PROVE  Ahead(send_queue', i) \subseteq Ahead(send_queue, i)
  <2> DEFINE c == chan[j]
             d == [c EXCEPT !.stream = 0]
             e == [c EXCEPT !.eosClient = TRUE, !.stream = IF c.eosAmi THEN 0 ELSE c.stream]
             x == Len(streams[c.stream].sent) + 1
  <2>1. c \in Channel(j)  BY <1>1 DEF TypeOK
  <2>2. d.pq = c.pq /\ e.pq = c.pq  BY <2>1 DEF Channel
  <2> HIDE DEF d, e, x
  <2>3. \/ Enqueue(j, c, "RESPONSE", CONNECT_OK)
        \/ Enqueue(j, d, "RESPONSE", CONNECT_UNKNOWN_SERVICE)
        \/ Enqueue(j, c, "DATA", x) \/ Enqueue(j, e, "EOS", 0)
    BY <1>5, Zenon DEF ClientResponse, ClientData, ClientEos, d, e, x
  <2> QED  BY <2>2, <2>3, EnqueueTurns
<1>6. ASSUME NEW j \in Ids, ClientReset(j)
      PROVE  Ahead(send_queue', i) \subseteq Ahead(send_queue, i)
  <2>1. chan[j].stream # 0 /\ chan' = [chan EXCEPT ![j] = GivenUp(j)]
    BY <1>6 DEF ClientReset
  <2>2. i # j  BY <1>1, <2>1, GivenUpLost DEF TypeOK
  <2>3. send_queue' = Append(RemoveFirst(send_queue, j), j)  BY <1>6 DEF ClientReset
  <2>4. RemoveFirst(send_queue, j) \in Seq(Ids)  BY <1>1, QueueRemove
  <2> QED  BY <1>1, <2>2, <2>3, <2>4, AheadAppend, AheadRemove
<1>7. CASE ClientGone
  <2> DEFINE mine == {j \in Ids : chan[j].stream # 0}
             key == [j \in Ids |-> chan[j].stream]
  <2>1. \A j \in Ids : key[j] \in Int
    <3>1. \A j \in Ids : chan[j].stream \in 0 .. Len(streams)  BY <1>1, PiState
    <3> QED  BY <3>1
  <2>2. PICK kept \in KeptPositions(send_queue, mine), order \in InOrder(mine, key) :
            send_queue' = Requeued(send_queue, kept, order)
    BY <1>7, Zenon DEF ClientGone
  <2>3. chan[i].stream # 0 => chan'[i] = GivenUp(i)  BY <1>7 DEF ClientGone
  <2>4. i \in Ids \ mine  BY <1>1, <2>3, GivenUpLost
  <2>5. mine \in SUBSET Ids  OBVIOUS
  <2> HIDE DEF mine, key
  <2> QED  BY <1>1, <2>1, <2>2, <2>4, <2>5, AheadRequeued
<1>8. CASE App \/ DriverSend \/ DriverReceive \/ DeviceStart \/ AmigaReset
           \/ ClientConnect \/ ClientRegister \/ UNCHANGED vars
  <2>1. UNCHANGED send_queue
    BY <1>8 DEF App, AppConnect, AppRead, AppWrite, AppEos, AppReset, DriverSend, DriverReceive,
                DeviceStart, AmigaReset, ClientConnect, ClientRegister, vars, piVars
  <2> QED  BY <1>2, <2>1
<1> QED  BY <1>3, <1>4, <1>5, <1>6, <1>7, <1>8 DEF Next, Client

\* Only flush_send_queue puts packets into R2A.
LEMMA OnlyFlushSends ==
    ASSUME TypeInv, [Next]_vars, ~PiFlush
    PROVE  ~(Len(r2a') > Len(r2a))
<1>1. r2a \in Seq(R2APackets(Ids)) /\ Len(r2a) \in Nat  BY DEF TypeInv, TypeOK
<1>2. CASE UNCHANGED r2a  BY <1>1, <1>2
<1>3. CASE DriverReceive
  <2>1. r2a # <<>> /\ r2a' = Tail(r2a)  BY <1>3 DEF DriverReceive
  <2>2. Len(Tail(r2a)) = Len(r2a) - 1  BY <1>1, <2>1
  <2> QED  BY <1>1, <2>1, <2>2
<1>4. CASE \/ App \/ DriverSend \/ DeviceStart \/ AmigaReset \/ PiReceive \/ PiStarted
           \/ Client \/ UNCHANGED vars
  <2>1. UNCHANGED r2a
    BY <1>4 DEF App, AppConnect, AppRead, AppWrite, AppEos, AppReset, DriverSend, DeviceStart,
                AmigaReset, PiReceive, PiStarted, Client, ClientResponse, ClientData, ClientEos,
                ClientReset, ClientGone, ClientConnect, ClientRegister, vars, ringVars
  <2> QED  BY <1>2, <2>1
<1> QED  BY <1>3, <1>4 DEF Next

\* A channel that has a packet to send waits for one packet of each other channel at
\* most: flush_send_queue puts the channel that had its turn behind all others, and
\* nothing that the driver, the clients or resets of the Amiga do lets anybody in
\* before it.
THEOREM ChannelsAreFair == Spec => ChannelsTakeTurns
<1>1. Init => Undecided  BY DEF Init, Undecided, NoReset, NoChannel
<1>2. TypeInv /\ Undecided /\ [Next]_vars => Undecided'  BY UndecidedStep
<1>3. ASSUME TypeInv, Undecided, [Next]_vars, NEW i \in Ids,
             chan[i].pq # <<>>, IsPrefix(chan[i].pq, chan'[i].pq)
      PROVE  KeepsItsPlace(i, send_queue, r2a)
  <2>1. CASE PiFlush  BY <1>3, <2>1, FlushTurns
  <2>2. CASE ~PiFlush  BY <1>3, <2>2, QueueTurns, OnlyFlushSends DEF KeepsItsPlace
  <2> QED  BY <2>1, <2>2
<1> DEFINE Turns == \A i \in Ids : chan[i].pq # <<>> /\ IsPrefix(chan[i].pq, chan'[i].pq)
                                      => KeepsItsPlace(i, send_queue, r2a)
<1>4. TypeInv /\ Undecided /\ [Next]_vars => [Turns]_vars  BY <1>3
<1>5. Spec => [][Turns]_vars
  <2> HIDE DEF Turns
  <2> QED  BY <1>1, <1>2, <1>4, TypeInvariant, PTL DEF Spec
<1> QED  BY <1>5 DEF ChannelsTakeTurns
=============================================================================
