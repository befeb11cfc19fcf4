-------------------------- MODULE KeyQueue_proofs --------------------------
(***************************************************************************)
(* Theorems about KeyQueue, for any size of the ring.                      *)
(***************************************************************************)
EXTENDS KeyQueue, TLAPS

\* One more or one less is a byte again.
LEMMA ByteType ==
    ASSUME NEW n \in Position
    PROVE  Byte(n + 1) \in Position /\ Byte(n - 1) \in Position
  BY KeyQueueAssumption DEF Byte, Position

\* Between the ends of the counter one more and one less do not wrap.
LEMMA ByteUp ==
    ASSUME NEW n \in Nat, n < Limit
    PROVE  Byte(n + 1) = n + 1 /\ n + 1 <= Limit
  BY KeyQueueAssumption DEF Byte

\* Nor does one less, above its lower end.
LEMMA ByteDown ==
    ASSUME NEW n \in Nat, n > 0, n <= Limit
    PROVE  Byte(n - 1) = n - 1 /\ n - 1 < Limit
  BY KeyQueueAssumption DEF Byte

-----------------------------------------------------------------------------
\* The variables have their types when the emulator starts.
LEMMA TypeInit == Init => TypeOK
  BY KeyQueueAssumption DEF Init, TypeOK, Position, Thread

\* Neither thread takes a variable out of its type.
LEMMA TypeStep == TypeOK /\ [Next]_vars => TypeOK'
<1> SUFFICES ASSUME TypeOK, [Next]_vars PROVE TypeOK'  OBVIOUS
<1> USE DEF TypeOK
<1>1. ASSUME NEW t \in Thread, Accept(t) PROVE TypeOK'
  <2>1. pressed' \in Nat  BY <1>1 DEF Accept
  <2> QED  BY <1>1, <2>1 DEF Accept, ring
<1>2. ASSUME NEW t \in Thread, Store(t) PROVE TypeOK'
  BY <1>2 DEF Store
<1>3. ASSUME NEW t \in Thread, Move(t) PROVE TypeOK'
  <2>1. pos[t] \in Position  OBVIOUS
  <2>2. Byte(pos[t] + 1) \in Position  BY <2>1, ByteType
  <2> QED  BY <1>3, <2>2 DEF Move
<1>4. ASSUME NEW t \in Thread, More(t) PROVE TypeOK'
  <2>1. queued_keypresses' \in Position
    <3>1. count[t] \in Position  OBVIOUS
    <3>2. Byte(count[t] + 1) \in Position  BY <3>1, ByteType
    <3> QED  BY <1>4, <3>2 DEF More, CountIs
  <2>2. accepted' \in Seq(Nat)  BY <1>4 DEF More
  <2>3. torn' \in BOOLEAN  BY <1>4, Zenon DEF More, CountIs
  <2> QED  BY <1>4, <2>1, <2>2, <2>3 DEF More, CountIs
<1>5. ASSUME NEW t \in Thread, Reload(t) PROVE TypeOK'
  BY <1>5 DEF Reload, ring
<1>6. CASE Pop
  <2>1. Byte(queue_input_pos + 1) \in Position  BY ByteType
  <2> QED  BY <1>6, <2>1 DEF Pop, Thread
<1>7. CASE Less
  <2>1. count["cpu"] \in Position  BY DEF Thread
  <2>2. queued_keypresses' \in Position
    <3>1. Byte(count["cpu"] - 1) \in Position  BY <2>1, ByteType
    <3> QED  BY <1>7, <3>1 DEF Less, CountIs
  <2>3. popped' \in Seq(Nat)  BY <1>7 DEF Less, Thread
  <2>4. torn' \in BOOLEAN  BY <1>7, Zenon DEF Less, CountIs
  <2> QED  BY <1>7, <2>2, <2>3, <2>4 DEF Less, CountIs, Thread
<1>8. CASE UNCHANGED vars
  BY <1>8 DEF vars, ring, locals
<1> QED
  BY <1>1, <1>2, <1>3, <1>4, <1>5, <1>6, <1>7, <1>8 DEF Next, Step

\* Every variable keeps its type: positions and counter stay within a byte,
\* whoever puts keys in.
THEOREM QueueTypeOK == Spec => []TypeOK
  BY TypeInit, TypeStep, PTL DEF Spec
-----------------------------------------------------------------------------
(***************************************************************************)
(* CountNeverWraps is about the values the threads loaded.  A thread may   *)
(* load the counter again at any time, so the same must hold of the        *)
(* counter itself while a thread is busy: the other thread can only move   *)
(* it away from the end this thread is heading for.                        *)
(***************************************************************************)
WrapInv ==
    /\ pc["kbd"] # "less"
    /\ ~overlap =>
          /\ queued_keypresses <= Limit
          /\ ~(Putting("kbd") /\ Putting("cpu"))
          /\ \A t \in Thread : Putting(t) => queued_keypresses < Limit /\ count[t] < Limit
          /\ pc["cpu"] = "less" =>
                queued_keypresses > 0 /\ count["cpu"] > 0 /\ count["cpu"] <= Limit

\* An empty queue has not overrun anything.
LEMMA WrapInit == Init => WrapInv
  BY KeyQueueAssumption DEF Init, WrapInv, Thread, Putting

\* Unless both threads were putting keys in at once, no step takes the counter
\* past either of its ends.
LEMMA WrapStep ==
    ASSUME TypeOK, WrapInv, [Next]_vars
    PROVE  WrapInv'
<1> USE KeyQueueAssumption DEF TypeOK, WrapInv, Position, Thread, Putting
<1>1. ASSUME NEW t \in Thread, Accept(t) PROVE WrapInv'
  <2>1. pc'["kbd"] # "less"  BY <1>1 DEF Accept
  <2>2. CASE ~overlap'
    <3>1. ~overlap /\ ~Putting("kbd") /\ ~Putting("cpu")  BY <1>1, <2>2, Zenon DEF Accept
    <3> QED  BY <1>1, <2>1, <2>2, <3>1 DEF Accept, ring
  <2> QED  BY <2>1, <2>2
<1>2. ASSUME NEW t \in Thread, Store(t) \/ Move(t) PROVE WrapInv'
  BY <1>2 DEF Store, Move
<1>3. ASSUME NEW t \in Thread, More(t) PROVE WrapInv'
  <2>1. pc' = [pc EXCEPT ![t] = "idle"] /\ count' = count /\ overlap' = overlap
    BY <1>3, Zenon DEF More, CountIs
  <2>2. pc'["kbd"] # "less"  BY <2>1
  <2>3. CASE ~overlap
    <3>1. count[t] \in Nat /\ count[t] < Limit  BY <1>3, <2>3 DEF More
    <3>2. \A s \in Thread : s # t => ~Putting(s)  BY <1>3, <2>3 DEF More
    <3>3. \A s \in Thread : ~Putting(s)'  BY <2>1, <3>2
    <3>4. queued_keypresses' = count[t] + 1 /\ queued_keypresses' <= Limit
      <4>1. queued_keypresses' = Byte(count[t] + 1)  BY <1>3, Zenon DEF More, CountIs
      <4> QED  BY <3>1, <4>1, ByteUp
    <3>5. pc'["cpu"] = "less" => pc["cpu"] = "less"  BY <2>1
    <3> HIDE DEF Putting
    <3> QED  BY <2>1, <2>2, <2>3, <3>1, <3>3, <3>4, <3>5
  <2> QED  BY <2>1, <2>2, <2>3
<1>4. ASSUME NEW t \in Thread, Reload(t) PROVE WrapInv'
  BY <1>4 DEF Reload, ring
<1>5. CASE Pop
  BY <1>5 DEF Pop
<1>6. CASE Less
  <2>1. pc' = [pc EXCEPT !["cpu"] = "idle"] /\ count' = count /\ overlap' = overlap
    BY <1>6, Zenon DEF Less, CountIs
  <2>2. pc'["kbd"] = pc["kbd"] /\ pc'["cpu"] = "idle"  BY <2>1
  <2>3. CASE ~overlap
    <3>1. count["cpu"] \in Nat /\ count["cpu"] > 0 /\ count["cpu"] <= Limit
      BY <1>6, <2>3 DEF Less
    <3>2. queued_keypresses' = count["cpu"] - 1 /\ queued_keypresses' < Limit
      <4>1. queued_keypresses' = Byte(count["cpu"] - 1)  BY <1>6, Zenon DEF Less, CountIs
      <4> QED  BY <3>1, <4>1, ByteDown
    <3> QED  BY <2>1, <2>2, <2>3, <3>1, <3>2
  <2> QED  BY <2>1, <2>2, <2>3
<1>7. CASE UNCHANGED vars
  BY <1>7 DEF vars, ring, locals
<1> QED
  BY <1>1, <1>2, <1>3, <1>4, <1>5, <1>6, <1>7 DEF Next, Step

\* Unless a wheel event and a key are put in at the same time, no interleaving of
\* the two threads and no choice of the compiler makes the 8-bit counter wrap.
THEOREM NoWrap == Spec => []CountNeverWraps
<1>1. TypeOK /\ WrapInv /\ [Next]_vars => WrapInv'  BY WrapStep
<1>2. WrapInv => CountNeverWraps
  BY DEF WrapInv, CountNeverWraps, Thread
<1> QED  BY <1>1, <1>2, WrapInit, QueueTypeOK, PTL DEF Spec
-----------------------------------------------------------------------------
(***************************************************************************)
(* Counters that only grow, and their low bytes: the ring's positions are  *)
(* those of the histories of keys put in and taken out.                    *)
(***************************************************************************)

\* A number is so many rounds of the ring and its byte.
LEMMA Rounds ==
    ASSUME NEW n \in Nat
    PROVE  /\ Byte(n) \in Position /\ n \div Cells \in Int
           /\ n = Cells * (n \div Cells) + Byte(n)
  BY KeyQueueAssumption DEF Byte, Position

\* Whole rounds that differ by less than one are the same.
LEMMA SameRounds ==
    ASSUME NEW k \in Int, NEW j \in Int, Cells * k - Cells * j < Cells, Cells * j - Cells * k < Cells
    PROVE  k = j
<1>1. Cells \in Nat \ {0}  BY KeyQueueAssumption
<1>2. k - j >= 1 => Cells * (k - j) >= Cells  BY <1>1
<1>3. j - k >= 1 => Cells * (j - k) >= Cells  BY <1>1
<1>4. Cells * k - Cells * j = Cells * (k - j) /\ Cells * j - Cells * k = Cells * (j - k)  BY <1>1
<1>5. ~(k - j >= 1) /\ ~(j - k >= 1)
  <2>1. Cells * (k - j) \in Int /\ Cells * (j - k) \in Int  BY <1>1
  <2> QED  BY <1>1, <1>2, <1>3, <1>4, <2>1
<1> QED  BY <1>5

\* The position of the next key, and of the n-th from there.
LEMMA ByteAdds ==
    ASSUME NEW m \in Nat, NEW n \in Nat
    PROVE  Byte(Byte(m) + n) = Byte(m + n)
<1>1. Cells \in Nat \ {0}  BY KeyQueueAssumption
<1> DEFINE d == m \div Cells  e == (Byte(m) + n) \div Cells  f == (m + n) \div Cells
<1>2. Byte(m) \in Position /\ d \in Int /\ m = Cells * d + Byte(m)  BY Rounds
<1>3. Byte(m) + n \in Nat  BY <1>2 DEF Position
<1>4. Byte(Byte(m) + n) \in Position /\ e \in Int /\ Byte(m) + n = Cells * e + Byte(Byte(m) + n)
  BY <1>3, Rounds
<1>5. m + n \in Nat /\ Byte(m + n) \in Position /\ f \in Int /\ m + n = Cells * f + Byte(m + n)
  BY Rounds
<1> DEFINE x == Cells * d  y == Cells * e  z == Cells * f
<1>6. /\ x \in Int /\ y \in Int /\ z \in Int
      /\ m = x + Byte(m) /\ Byte(m) + n = y + Byte(Byte(m) + n) /\ m + n = z + Byte(m + n)
  BY <1>1, <1>2, <1>4, <1>5
<1>7. (x + y) - z < Cells /\ z - (x + y) < Cells
  <2> HIDE DEF x, y, z
  <2> QED  BY <1>1, <1>2, <1>4, <1>5, <1>6 DEF Position
<1>8. d + e = f
  <2> HIDE DEF d, e, f
  <2>1. Cells * (d + e) = x + y  BY <1>1, <1>2, <1>4
  <2>2. d + e \in Int  BY <1>2, <1>4
  <2> QED  BY <1>5, <1>7, <2>1, <2>2, SameRounds
<1>9. x + y = z
  <2> HIDE DEF d, e, f
  <2> QED  BY <1>1, <1>2, <1>4, <1>8
<1> QED
  <2> HIDE DEF x, y, z
  <2> QED  BY <1>2, <1>4, <1>5, <1>6, <1>9 DEF Position

\* Two keys less than a round apart are in different cells.
LEMMA ByteApart ==
    ASSUME NEW m \in Nat, NEW n \in Nat, m < n, n - m < Cells
    PROVE  Byte(m) # Byte(n)
<1>1. Cells \in Nat \ {0}  BY KeyQueueAssumption
<1> DEFINE d == m \div Cells  e == n \div Cells
<1>2. Byte(m) \in Position /\ d \in Int /\ m = Cells * d + Byte(m)  BY Rounds
<1>3. Byte(n) \in Position /\ e \in Int /\ n = Cells * e + Byte(n)  BY Rounds
<1> HIDE DEF d, e
<1>4. Cells * d \in Int /\ Cells * e \in Int  BY <1>1, <1>2, <1>3
<1> SUFFICES ASSUME Byte(m) = Byte(n) PROVE FALSE  OBVIOUS
<1>5. Cells * e - Cells * d = n - m  BY <1>2, <1>3, <1>4 DEF Position
<1>6. e = d  BY <1>1, <1>2, <1>3, <1>4, <1>5, SameRounds
<1> QED  BY <1>2, <1>3, <1>6

-----------------------------------------------------------------------------
(***************************************************************************)
(* What ring, counter and positions are as long as nothing was lost: the   *)
(* counter is the number of keys put in and not taken out, the positions   *)
(* follow the histories, a step ahead while a thread is between its steps, *)
(* and every key that waits is in its cell.                                *)
(***************************************************************************)
In == Len(accepted)
Out == Len(popped)

CounterInv == Out <= In /\ queued_keypresses = In - Out

PositionInv ==
    /\ queue_output_pos = Byte(IF \E t \in Thread : pc[t] = "more" THEN In + 1 ELSE In)
    /\ queue_input_pos = Byte(IF pc["cpu"] = "less" THEN Out + 1 ELSE Out)
    /\ \A t \in Thread : Putting(t) => pos[t] = Byte(In)

ContentInv ==
    /\ \A k \in 1 .. In : k > Out => queued_keys[Byte(k - 1)] = accepted[k]
    /\ \A t \in Thread : pc[t] \in {"move", "more"} => queued_keys[Byte(In)] = key[t]
    /\ pc["cpu"] = "less" => Out < In /\ key["cpu"] = accepted[Out + 1]

OrderInv == \A k \in 1 .. Out : popped[k] = accepted[k]

QueueInv == Undisturbed => CounterInv /\ PositionInv /\ ContentInv /\ OrderInv

\* An empty queue holds what was accepted and not yet popped: nothing.
LEMMA QueueInit == Init => QueueInv
<1> SUFFICES ASSUME Init PROVE QueueInv  OBVIOUS
<1>1. In = 0 /\ Out = 0  BY DEF Init, In, Out
<1>2. Byte(0) = 0  BY KeyQueueAssumption DEF Byte
<1>3. \A t \in Thread : pc[t] = "idle"  BY DEF Init
<1>4. pc["cpu"] = "idle"  BY <1>3 DEF Thread
<1>5. CounterInv  BY <1>1 DEF Init, CounterInv
<1>6. PositionInv  BY <1>1, <1>2, <1>3, <1>4 DEF Init, PositionInv, Putting
<1>7. ContentInv /\ OrderInv  BY <1>1, <1>3, <1>4 DEF ContentInv, OrderInv
<1> QED  BY <1>5, <1>6, <1>7 DEF QueueInv

\* No history changes, and both ends of the ring stay where they are.
LEMMA QueueStore ==
    ASSUME TypeOK, WrapInv, QueueInv, Undisturbed, NEW t \in Thread, Store(t)
    PROVE  QueueInv'
<1>1. CounterInv /\ PositionInv /\ ContentInv /\ OrderInv  BY DEF QueueInv
<1>2. pc' = [pc EXCEPT ![t] = "move"] /\ pc[t] = "store"  BY DEF Store
<1>3. queued_keys' = [queued_keys EXCEPT ![pos[t]] = key[t]]  BY DEF Store
<1>4. UNCHANGED <<queued_keypresses, queue_output_pos, queue_input_pos, pos, key, accepted, popped>>
  BY DEF Store
<1>5. In' = In /\ Out' = Out /\ In \in Nat /\ Out \in Nat  BY <1>4 DEF In, Out, TypeOK
<1>6. pos[t] = Byte(In) /\ pos[t] \in Position
  BY <1>1, <1>2 DEF PositionInv, Putting, TypeOK
<1>7. In - Out < Limit  BY <1>1, <1>2 DEF WrapInv, Undisturbed, CounterInv, Putting
<1>8. \A s \in Thread : s # t => ~Putting(s)
  BY <1>2 DEF WrapInv, Undisturbed, Putting, Thread
<1>9. queued_keys'[Byte(In)] = key[t]  BY <1>3, <1>6 DEF TypeOK
<1>10. ASSUME NEW k \in 1 .. In, k > Out
       PROVE  queued_keys'[Byte(k - 1)] = accepted[k]
  <2>1. k - 1 \in Nat /\ k - 1 < In /\ In - (k - 1) < Cells
    BY <1>5, <1>7, <1>10, KeyQueueAssumption
  <2>2. Byte(k - 1) # Byte(In)  BY <1>5, <2>1, ByteApart
  <2>3. Byte(k - 1) \in Position  BY <2>1, Rounds
  <2> QED  BY <1>1, <1>3, <1>6, <1>10, <2>2, <2>3 DEF ContentInv, TypeOK
<1>11. CounterInv'  BY <1>1, <1>4, <1>5 DEF CounterInv
<1>12. PositionInv'
  <2>1. \A s \in Thread : (pc'[s] = "more" <=> pc[s] = "more") /\ (pc'[s] = "less" <=> pc[s] = "less")
    BY <1>2 DEF TypeOK
  <2>2. \A s \in Thread : Putting(s)' => Putting(s)  BY <1>2 DEF TypeOK, Putting
  <2>3. "cpu" \in Thread  BY DEF Thread
  <2> QED  BY <1>1, <1>4, <1>5, <2>1, <2>2, <2>3 DEF PositionInv
<1>13. ContentInv'
  <2>1. \A s \in Thread : pc'[s] \in {"move", "more"} => s = t
    BY <1>2, <1>8 DEF TypeOK, Putting
  <2>2. pc'["cpu"] = "less" => pc["cpu"] = "less"  BY <1>2 DEF TypeOK, Thread
  <2> QED  BY <1>1, <1>4, <1>5, <1>9, <1>10, <2>1, <2>2 DEF ContentInv
<1>14. OrderInv'  BY <1>1, <1>4, <1>5 DEF OrderInv
<1> QED  BY <1>11, <1>12, <1>13, <1>14 DEF QueueInv

\* The key goes where the last one ended, if nobody else is putting one in.
LEMMA QueueAccept ==
    ASSUME TypeOK, QueueInv, Undisturbed, NEW t \in Thread, Accept(t), ~overlap'
    PROVE  QueueInv'
<1>1. CounterInv /\ PositionInv /\ ContentInv /\ OrderInv  BY DEF QueueInv
<1>2. pc' = [pc EXCEPT ![t] = "store"] /\ pc[t] = "idle"  BY DEF Accept
<1>3. UNCHANGED <<queued_keys, queued_keypresses, queue_output_pos, queue_input_pos, accepted, popped>>
  BY DEF Accept, ring
<1>4. pos' = [pos EXCEPT ![t] = queue_output_pos] /\ key' = [key EXCEPT ![t] = pressed']
  BY DEF Accept
<1>5. In' = In /\ Out' = Out  BY <1>3 DEF In, Out
<1>6. \A s \in Thread : ~Putting(s)  BY Zenon DEF Accept
<1>7. \A s \in Thread : Putting(s)' => s = t  BY <1>2, <1>6 DEF TypeOK, Putting
<1>8. \A s \in Thread : pc'[s] \notin {"move", "more"} /\ pc[s] # "more"
  BY <1>2, <1>6 DEF TypeOK, Putting
<1>9. pc'["cpu"] = "less" <=> pc["cpu"] = "less"  BY <1>2 DEF TypeOK, Thread
<1>10. CounterInv'  BY <1>1, <1>3, <1>5 DEF CounterInv
<1>11. PositionInv'
  <2>1. queue_output_pos = Byte(In)  BY <1>1, <1>8 DEF PositionInv
  <2>2. pos'[t] = Byte(In)  BY <1>4, <2>1 DEF TypeOK
  <2> QED  BY <1>1, <1>3, <1>5, <1>7, <1>8, <1>9, <2>1, <2>2 DEF PositionInv
<1>12. ContentInv'
  <2>1. pc'["cpu"] = "less" => key'["cpu"] = key["cpu"]
    BY <1>2, <1>4 DEF TypeOK, Thread
  <2> QED  BY <1>1, <1>3, <1>5, <1>8, <1>9, <2>1 DEF ContentInv
<1>13. OrderInv'  BY <1>1, <1>3, <1>5 DEF OrderInv
<1> QED  BY <1>10, <1>11, <1>12, <1>13 DEF QueueInv

\* Second step of a put, once the key is stored: the output position moves.
LEMMA QueueMove ==
    ASSUME TypeOK, WrapInv, QueueInv, Undisturbed, NEW t \in Thread, Move(t)
    PROVE  QueueInv'
<1>1. CounterInv /\ PositionInv /\ ContentInv /\ OrderInv  BY DEF QueueInv
<1>2. pc' = [pc EXCEPT ![t] = "more"] /\ pc[t] = "move"  BY DEF Move
<1>3. UNCHANGED <<queued_keys, queued_keypresses, queue_input_pos, pos, key, accepted, popped>>
  BY DEF Move
<1>4. In' = In /\ Out' = Out /\ In \in Nat  BY <1>3 DEF In, Out, TypeOK
<1>5. \A s \in Thread : s # t => ~Putting(s)
  BY <1>2 DEF WrapInv, Undisturbed, Putting, Thread
<1>6. pc'["cpu"] = "less" <=> pc["cpu"] = "less"  BY <1>2 DEF TypeOK, Thread
<1>7. \A s \in Thread : Putting(s)' <=> s = t  BY <1>2, <1>5 DEF TypeOK, Putting
<1>8. CounterInv'  BY <1>1, <1>3, <1>4 DEF CounterInv
<1>9. PositionInv'
  <2>1. pos[t] = Byte(In)  BY <1>1, <1>2 DEF PositionInv, Putting
  <2>2. queue_output_pos' = Byte(In + 1)
    <3>1. queue_output_pos' = Byte(Byte(In) + 1)  BY <2>1 DEF Move
    <3> QED  BY <1>4, <3>1, ByteAdds
  <2>3. pc'[t] = "more"  BY <1>2 DEF TypeOK
  <2> QED  BY <1>1, <1>3, <1>4, <1>6, <1>7, <2>1, <2>2, <2>3 DEF PositionInv
<1>10. ContentInv'
  <2>1. \A s \in Thread : pc'[s] \in {"move", "more"} => s = t  BY <1>7 DEF Putting
  <2> QED  BY <1>1, <1>2, <1>3, <1>4, <1>6, <2>1 DEF ContentInv
<1>11. OrderInv'  BY <1>1, <1>3, <1>4 DEF OrderInv
<1> QED  BY <1>8, <1>9, <1>10, <1>11 DEF QueueInv

\* The key counts: the histories' length catches up with the position.
LEMMA QueueMore ==
    ASSUME TypeOK, WrapInv, QueueInv, Undisturbed, NEW t \in Thread, More(t), ~torn'
    PROVE  QueueInv'
<1>1. CounterInv /\ PositionInv /\ ContentInv /\ OrderInv  BY DEF QueueInv
<1>2. pc' = [pc EXCEPT ![t] = "idle"] /\ pc[t] = "more"  BY DEF More, CountIs
<1>3. UNCHANGED <<queued_keys, queue_output_pos, queue_input_pos, pos, key, popped>>  BY DEF More
<1>4. accepted' = Append(accepted, key[t])  BY DEF More
<1>5. In \in Nat /\ Out \in Nat /\ In' = In + 1 /\ Out' = Out  BY <1>3, <1>4 DEF In, Out, TypeOK
<1>6. \A k \in 1 .. In : accepted'[k] = accepted[k]  BY <1>4 DEF In, TypeOK
<1>7. accepted'[In + 1] = key[t]  BY <1>4 DEF In, TypeOK
<1>8. \A s \in Thread : s # t => ~Putting(s)
  BY <1>2 DEF WrapInv, Undisturbed, Putting, Thread
<1>9. \A s \in Thread : ~Putting(s)'  BY <1>2, <1>8 DEF TypeOK, Putting
<1>10. pc'["cpu"] = "less" <=> pc["cpu"] = "less"  BY <1>2 DEF TypeOK, Thread
<1>11. CounterInv'
  <2>1. queued_keypresses = count[t] /\ count[t] < Limit
    BY <1>2, Zenon DEF More, CountIs, WrapInv, Undisturbed, Putting
  <2>2. queued_keypresses \in Nat  BY <1>1, <1>5 DEF CounterInv
  <2>3. queued_keypresses' = queued_keypresses + 1
    <3>1. queued_keypresses' = Byte(count[t] + 1)  BY Zenon DEF More, CountIs
    <3> QED  BY <2>1, <2>2, <3>1, ByteUp
  <2> QED  BY <1>1, <1>5, <2>3 DEF CounterInv
<1>12. PositionInv'
  <2>1. queue_output_pos = Byte(In + 1)  BY <1>1, <1>2 DEF PositionInv
  <2>2. \A s \in Thread : pc'[s] # "more"  BY <1>9 DEF Putting
  <2> QED  BY <1>1, <1>3, <1>5, <1>9, <1>10, <2>1, <2>2 DEF PositionInv
<1>13. ContentInv'
  <2>1. queued_keys[Byte(In)] = key[t]  BY <1>1, <1>2 DEF ContentInv
  <2>2. \A k \in 1 .. In + 1 : k > Out => queued_keys[Byte(k - 1)] = accepted'[k]
    <3>1. SUFFICES ASSUME NEW k \in 1 .. In + 1, k > Out
                   PROVE  queued_keys[Byte(k - 1)] = accepted'[k]
      OBVIOUS
    <3>2. CASE k = In + 1  BY <1>5, <1>7, <2>1, <3>2
    <3>3. CASE k # In + 1
      <4>1. k \in 1 .. In  BY <1>5, <3>3
      <4> QED  BY <1>1, <1>6, <3>1, <4>1 DEF ContentInv
    <3> QED  BY <3>2, <3>3
  <2>3. \A s \in Thread : pc'[s] \notin {"move", "more"}  BY <1>9 DEF Putting
  <2>4. pc'["cpu"] = "less" => Out < In /\ key["cpu"] = accepted'[Out + 1]
    BY <1>1, <1>5, <1>6, <1>10 DEF ContentInv
  <2> QED  BY <1>3, <1>5, <2>2, <2>3, <2>4 DEF ContentInv
<1>14. OrderInv'
  <2>1. Out <= In  BY <1>1 DEF CounterInv
  <2> QED  BY <1>1, <1>3, <1>5, <1>6, <2>1 DEF OrderInv
<1> QED  BY <1>11, <1>12, <1>13, <1>14 DEF QueueInv

\* What is taken out is the oldest key that waits.
LEMMA QueuePop ==
    ASSUME TypeOK, QueueInv, Undisturbed, Pop
    PROVE  QueueInv'
<1>1. CounterInv /\ PositionInv /\ ContentInv /\ OrderInv  BY DEF QueueInv
<1>2. pc' = [pc EXCEPT !["cpu"] = "less"] /\ pc["cpu"] = "idle"  BY DEF Pop
<1>3. UNCHANGED <<queued_keys, queued_keypresses, queue_output_pos, pos, accepted, popped>>
  BY DEF Pop
<1>4. key' = [key EXCEPT !["cpu"] = queued_keys[queue_input_pos]]  BY DEF Pop
<1>5. In' = In /\ Out' = Out /\ In \in Nat /\ Out \in Nat  BY <1>3 DEF In, Out, TypeOK
<1>6. Out < In  BY <1>1, <1>5 DEF Pop, CounterInv
<1>7. queue_input_pos = Byte(Out)  BY <1>1, <1>2 DEF PositionInv
<1>8. pc'["cpu"] = "less"  BY <1>2 DEF TypeOK, Thread
<1>9. \A s \in Thread : Putting(s)' <=> Putting(s)  BY <1>2 DEF TypeOK, Putting
<1>10. \A s \in Thread : (pc'[s] = "more" <=> pc[s] = "more") /\ (pc'[s] = "move" <=> pc[s] = "move")
  BY <1>2 DEF TypeOK
<1>11. CounterInv'  BY <1>1, <1>3, <1>5 DEF CounterInv
<1>12. PositionInv'
  <2>1. queue_input_pos' = Byte(Out + 1)
    <3>1. queue_input_pos' = Byte(Byte(Out) + 1)  BY <1>7 DEF Pop
    <3> QED  BY <1>5, <3>1, ByteAdds
  <2> QED  BY <1>1, <1>3, <1>5, <1>8, <1>9, <1>10, <2>1 DEF PositionInv
<1>13. ContentInv'
  <2>1. key'["cpu"] = accepted[Out + 1]
    <3>1. key'["cpu"] = queued_keys[Byte(Out)]  BY <1>4, <1>7 DEF TypeOK, Thread
    <3>2. queued_keys[Byte((Out + 1) - 1)] = accepted[Out + 1]
      BY <1>1, <1>5, <1>6 DEF ContentInv
    <3> QED  BY <1>5, <3>1, <3>2
  <2>2. \A s \in Thread : pc[s] \in {"move", "more"} => key'[s] = key[s]
    BY <1>2, <1>4 DEF TypeOK
  <2> QED  BY <1>1, <1>3, <1>5, <1>6, <1>10, <2>1, <2>2 DEF ContentInv
<1>14. OrderInv'  BY <1>1, <1>3, <1>5 DEF OrderInv
<1> QED  BY <1>11, <1>12, <1>13, <1>14 DEF QueueInv

\* Last step of a pop: the counter goes down and the key is delivered.
LEMMA QueueLess ==
    ASSUME TypeOK, WrapInv, QueueInv, Undisturbed, Less, ~torn'
    PROVE  QueueInv'
<1>1. CounterInv /\ PositionInv /\ ContentInv /\ OrderInv  BY DEF QueueInv
<1>2. pc' = [pc EXCEPT !["cpu"] = "idle"] /\ pc["cpu"] = "less"  BY DEF Less, CountIs
<1>3. UNCHANGED <<queued_keys, queue_output_pos, queue_input_pos, pos, key, accepted>>  BY DEF Less
<1>4. popped' = Append(popped, key["cpu"])  BY DEF Less
<1>5. In \in Nat /\ Out \in Nat /\ In' = In /\ Out' = Out + 1  BY <1>3, <1>4 DEF In, Out, TypeOK
<1>6. \A k \in 1 .. Out : popped'[k] = popped[k]  BY <1>4 DEF Out, TypeOK
<1>7. popped'[Out + 1] = key["cpu"]  BY <1>4 DEF Out, TypeOK
<1>8. Out < In /\ key["cpu"] = accepted[Out + 1]  BY <1>1, <1>2 DEF ContentInv
<1>9. \A s \in Thread : Putting(s)' <=> Putting(s)  BY <1>2 DEF TypeOK, Putting
<1>10. \A s \in Thread : (pc'[s] = "more" <=> pc[s] = "more") /\ (pc'[s] = "move" <=> pc[s] = "move")
  BY <1>2 DEF TypeOK
<1>11. pc'["cpu"] # "less"  BY <1>2 DEF TypeOK, Thread
<1>12. CounterInv'
  <2>1. queued_keypresses = count["cpu"]  BY Zenon DEF Less, CountIs
  <2>2. queued_keypresses \in Nat /\ queued_keypresses > 0 /\ queued_keypresses <= Limit
    BY <1>1, <1>2, <1>5, <1>8 DEF CounterInv, WrapInv, Undisturbed
  <2>3. queued_keypresses' = queued_keypresses - 1
    <3>1. queued_keypresses' = Byte(count["cpu"] - 1)  BY Zenon DEF Less, CountIs
    <3> QED  BY <2>1, <2>2, <3>1, ByteDown
  <2> QED  BY <1>1, <1>5, <1>8, <2>3 DEF CounterInv
<1>13. PositionInv'  BY <1>1, <1>2, <1>3, <1>5, <1>9, <1>10, <1>11 DEF PositionInv
<1>14. ContentInv'  BY <1>1, <1>3, <1>5, <1>10, <1>11 DEF ContentInv
<1>15. OrderInv'
  <2>1. SUFFICES ASSUME NEW k \in 1 .. Out + 1 PROVE popped'[k] = accepted[k]
    BY <1>3, <1>5 DEF OrderInv
  <2>2. CASE k = Out + 1  BY <1>7, <1>8, <2>2
  <2>3. CASE k # Out + 1
    <3>1. k \in 1 .. Out  BY <1>5, <2>3
    <3> QED  BY <1>1, <1>6, <3>1 DEF OrderInv
  <2> QED  BY <2>2, <2>3
<1> QED  BY <1>12, <1>13, <1>14, <1>15 DEF QueueInv

\* While the threads do not disturb each other no step breaks the queue.
LEMMA QueueStep ==
    ASSUME TypeOK, WrapInv, QueueInv, [Next]_vars
    PROVE  QueueInv'
<1> SUFFICES ASSUME Undisturbed' PROVE QueueInv'  BY DEF QueueInv
<1>1. ASSUME NEW t \in Thread, Accept(t) PROVE QueueInv'
  <2>1. Undisturbed /\ ~overlap'  BY <1>1, Zenon DEF Accept, Undisturbed
  <2> QED  BY <1>1, <2>1, QueueAccept
<1>2. ASSUME NEW t \in Thread, Store(t) PROVE QueueInv'
  <2>1. Undisturbed  BY <1>2 DEF Store, Undisturbed
  <2> QED  BY <1>2, <2>1, QueueStore
<1>3. ASSUME NEW t \in Thread, Move(t) PROVE QueueInv'
  <2>1. Undisturbed  BY <1>3 DEF Move, Undisturbed
  <2> QED  BY <1>3, <2>1, QueueMove
<1>4. ASSUME NEW t \in Thread, More(t) PROVE QueueInv'
  <2>1. Undisturbed /\ ~torn'  BY <1>4, Zenon DEF More, CountIs, Undisturbed
  <2> QED  BY <1>4, <2>1, QueueMore
<1>5. CASE Pop
  <2>1. Undisturbed  BY <1>5 DEF Pop, Undisturbed
  <2> QED  BY <1>5, <2>1, QueuePop
<1>6. CASE Less
  <2>1. Undisturbed /\ ~torn'  BY <1>6, Zenon DEF Less, CountIs, Undisturbed
  <2> QED  BY <1>6, <2>1, QueueLess
<1>7. CASE (\E t \in Thread : Reload(t)) \/ UNCHANGED vars
  <2>1. UNCHANGED <<ring, pc, pos, key, accepted, popped, torn, overlap>>
    BY <1>7 DEF Reload, vars, locals
  <2> QED
    BY <2>1 DEF QueueInv, Undisturbed, CounterInv, PositionInv, ContentInv, OrderInv,
                In, Out, Putting, ring
<1> QED
  BY <1>1, <1>2, <1>3, <1>4, <1>5, <1>6, <1>7 DEF Next, Step

\* The queue is as the invariant says in every state.
LEMMA QueueInvariant == Spec => [](TypeOK /\ QueueInv)
<1>1. TypeOK /\ WrapInv /\ QueueInv /\ [Next]_vars => WrapInv' /\ QueueInv'
  BY WrapStep, QueueStep
<1> QED  BY <1>1, WrapInit, QueueInit, QueueTypeOK, PTL DEF Spec

\* As long as no update of the counter was lost and the two producers did not
\* meet, the Amiga gets the keys in the order in which they were put in, none
\* twice and none left out, for a ring of any size.
THEOREM KeysStayInOrder == Spec => []KeysInOrder
<1>1. ASSUME TypeOK, QueueInv, Undisturbed
      PROVE  /\ Len(popped) <= Len(accepted)
             /\ \A k \in DOMAIN popped : popped[k] = accepted[k]
  <2>1. CounterInv /\ OrderInv  BY <1>1 DEF QueueInv
  <2>2. DOMAIN popped = 1 .. Out  BY <1>1 DEF TypeOK, Out
  <2> QED  BY <2>1, <2>2 DEF CounterInv, OrderInv, In, Out
<1>2. TypeOK /\ QueueInv => KeysInOrder  BY <1>1 DEF KeysInOrder
<1> QED  BY <1>2, QueueInvariant, PTL

\* ... and when both threads are outside the queue, the counter is the number of
\* keys in the ring and the two positions are that far apart.
THEOREM CountTellsContents == Spec => []CountIsContents
<1>1. ASSUME TypeOK, QueueInv, Undisturbed, \A t \in Thread : pc[t] = "idle"
      PROVE  /\ queued_keypresses = Len(accepted) - Len(popped)
             /\ queue_output_pos = Byte(queue_input_pos + queued_keypresses)
  <2>1. CounterInv /\ PositionInv  BY <1>1 DEF QueueInv
  <2>2. In \in Nat /\ Out \in Nat  BY <1>1 DEF In, Out, TypeOK
  <2>3. queue_output_pos = Byte(In) /\ queue_input_pos = Byte(Out)
    BY <1>1, <2>1 DEF PositionInv, Thread
  <2>4. queued_keypresses \in Nat /\ Out + queued_keypresses = In
    BY <2>1, <2>2 DEF CounterInv
  <2>5. Byte(Byte(Out) + queued_keypresses) = Byte(In)  BY <2>2, <2>4, ByteAdds
  <2> QED  BY <2>1, <2>3, <2>5 DEF CounterInv, In, Out
<1>2. TypeOK /\ QueueInv => CountIsContents  BY <1>1 DEF CountIsContents
<1> QED  BY <1>2, QueueInvariant, PTL
=============================================================================
