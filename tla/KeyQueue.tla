------------------------------ MODULE KeyQueue ------------------------------
(***************************************************************************)
(* The queue of key presses (input.c:166-224).  The keyboard thread puts   *)
(* keys in, the CPU thread takes them out when the Amiga reads CIAADAT     *)
(* and, for the scroll wheel, puts keys in as well.  Nothing is locked and *)
(* nothing is atomic: a counter is loaded, changed and stored, and the     *)
(* compiler may use the value it loaded for an earlier test or load it     *)
(* again (Reload), with steps of the other thread in between.  Two threads *)
(* that put keys in at once store to the same cell: `overlap' records it.  *)
(***************************************************************************)
EXTENDS Integers, Sequences

CONSTANTS
    Cells,      \* cells of the ring, and the width of its counters: 256
    Limit,      \* keys the queue takes: 255
    MaxKeys     \* bound: keys pressed in a behaviour

ASSUME KeyQueueAssumption ==
    /\ Cells \in Nat /\ Limit \in Nat /\ Limit >= 1 /\ Limit < Cells
    /\ MaxKeys \in Nat

VARIABLES
    queued_keys,        \* the ring; keys are numbered from 1, 0 is no key
    queued_keypresses,
    queue_output_pos,   \* where the next key is put
    queue_input_pos,    \* where the next key is taken
    pc,                 \* where each thread is in queue_keypress, pop_queued_key
    count,              \* the value of queued_keypresses each thread loaded
    pos,                \* the value of queue_output_pos each thread loaded
    key,                \* the key each thread puts in or has taken out
    accepted, popped,   \* history: keys put in and taken out
    pressed,            \* history: how many keys were put in or are being put in
    torn,               \* history: was an update of the counter lost?
    overlap             \* history: were both threads in queue_keypress at once?

ring == <<queued_keys, queued_keypresses, queue_output_pos, queue_input_pos>>
locals == <<pc, count, pos, key>>
vars == <<ring, locals, accepted, popped, pressed, torn, overlap>>

Thread == {"kbd", "cpu"}
Position == 0 .. Cells - 1

Init ==
    /\ queued_keys = [c \in Position |-> 0]
    /\ queued_keypresses = 0 /\ queue_output_pos = 0 /\ queue_input_pos = 0
    /\ pc = [t \in Thread |-> "idle"]
    /\ count = [t \in Thread |-> 0] /\ pos = [t \in Thread |-> 0] /\ key = [t \in Thread |-> 0]
    /\ accepted = <<>> /\ popped = <<>> /\ pressed = 0
    /\ torn = FALSE /\ overlap = FALSE

\* The thread is in queue_keypress.
Putting(t) == pc[t] \in {"store", "move", "more"}

Byte_Int(n) == n

\* uint8_t arithmetic
Byte(n) == n % Cells

-----------------------------------------------------------------------------
\* queue_keypress: the keyboard thread for a mapped key that is not a repeat,
\* the CPU thread for the wheel.  A key that does not fit is dropped.

Accept_OneMore(t) ==
    /\ pc[t] = "idle"
    /\ pressed < MaxKeys
    /\ pressed' = pressed + 1
    /\ queued_keypresses <= Limit
    /\ pc' = [pc EXCEPT ![t] = "store"]
    /\ count' = [count EXCEPT ![t] = queued_keypresses]
    /\ pos' = [pos EXCEPT ![t] = queue_output_pos]
    /\ key' = [key EXCEPT ![t] = pressed']
    /\ overlap' = (overlap \/ \E s \in Thread : Putting(s))
    /\ UNCHANGED <<ring, accepted, popped, torn>>

Accept(t) ==
    /\ pc[t] = "idle"
    /\ pressed < MaxKeys
    /\ pressed' = pressed + 1
    /\ queued_keypresses < Limit
    /\ pc' = [pc EXCEPT ![t] = "store"]
    /\ count' = [count EXCEPT ![t] = queued_keypresses]
    /\ pos' = [pos EXCEPT ![t] = queue_output_pos]
    /\ key' = [key EXCEPT ![t] = pressed']
    /\ overlap' = (overlap \/ \E s \in Thread : Putting(s))
    /\ UNCHANGED <<ring, accepted, popped, torn>>

Store(t) ==
    /\ pc[t] = "store"
    /\ queued_keys' = [queued_keys EXCEPT ![pos[t]] = key[t]]
    /\ pc' = [pc EXCEPT ![t] = "move"]
    /\ UNCHANGED <<queued_keypresses, queue_output_pos, queue_input_pos, count, pos, key, accepted, popped, pressed, torn, overlap>>

Move(t) ==
    /\ pc[t] = "move"
    /\ queue_output_pos' = Byte(pos[t] + 1)
    /\ pc' = [pc EXCEPT ![t] = "more"]
    /\ UNCHANGED <<queued_keys, queued_keypresses, queue_input_pos, count, pos, key, accepted, popped, pressed, torn, overlap>>

\* The counter is stored; what another thread stored since the load is lost.
CountIs(t, n) ==
    /\ queued_keypresses' = Byte(n)
    /\ torn' = (torn \/ queued_keypresses # count[t])
    /\ pc' = [pc EXCEPT ![t] = "idle"]

More(t) ==
    /\ pc[t] = "more"
    /\ CountIs(t, count[t] + 1)
    /\ accepted' = Append(accepted, key[t])
    /\ UNCHANGED <<queued_keys, queue_output_pos, queue_input_pos, count, pos, key, popped, pressed, overlap>>

-----------------------------------------------------------------------------
\* pop_queued_key, in the CPU thread; an empty queue gives NONE and stays as it is.

Pop_Late ==
    /\ pc["cpu"] = "idle"
    /\ queued_keypresses # 0
    /\ count' = [count EXCEPT !["cpu"] = queued_keypresses]
    /\ queue_input_pos' = Byte(queue_input_pos + 1)
    /\ key' = [key EXCEPT !["cpu"] = queued_keys[queue_input_pos']]
    /\ pc' = [pc EXCEPT !["cpu"] = "less"]
    /\ UNCHANGED <<queued_keys, queued_keypresses, queue_output_pos, pos, accepted, popped, pressed, torn, overlap>>

Pop ==
    /\ pc["cpu"] = "idle"
    /\ queued_keypresses # 0
    /\ count' = [count EXCEPT !["cpu"] = queued_keypresses]
    /\ key' = [key EXCEPT !["cpu"] = queued_keys[queue_input_pos]]
    /\ queue_input_pos' = Byte(queue_input_pos + 1)
    /\ pc' = [pc EXCEPT !["cpu"] = "less"]
    /\ UNCHANGED <<queued_keys, queued_keypresses, queue_output_pos, pos, accepted, popped, pressed, torn, overlap>>

Less_KeepsCount ==
    /\ pc["cpu"] = "less"
    /\ CountIs("cpu", count["cpu"])
    /\ popped' = Append(popped, key["cpu"])
    /\ UNCHANGED <<queued_keys, queue_output_pos, queue_input_pos, count, pos, key, accepted, pressed, overlap>>

Less ==
    /\ pc["cpu"] = "less"
    /\ CountIs("cpu", count["cpu"] - 1)
    /\ popped' = Append(popped, key["cpu"])
    /\ UNCHANGED <<queued_keys, queue_output_pos, queue_input_pos, count, pos, key, accepted, pressed, overlap>>

\* The counter is loaded again for the update, not only for the test before it.
Reload(t) ==
    /\ pc[t] # "idle"
    /\ count' = [count EXCEPT ![t] = queued_keypresses]
    /\ UNCHANGED <<ring, pc, pos, key, accepted, popped, pressed, torn, overlap>>

Step(t) == Accept(t) \/ Store(t) \/ Move(t) \/ More(t) \/ Reload(t)

Next == Pop \/ Less \/ \E t \in Thread : Step(t)

Spec == Init /\ [][Next]_vars

-----------------------------------------------------------------------------
\* Every variable has its type.
TypeOK ==
    /\ queued_keys \in [Position -> Nat]
    /\ queued_keypresses \in Position
    /\ queue_output_pos \in Position /\ queue_input_pos \in Position
    /\ pc \in [Thread -> {"idle", "store", "move", "more", "less"}]
    /\ count \in [Thread -> Position] /\ pos \in [Thread -> Position]
    /\ key \in [Thread -> Nat]
    /\ accepted \in Seq(Nat) /\ popped \in Seq(Nat)
    /\ pressed \in Nat /\ torn \in BOOLEAN /\ overlap \in BOOLEAN

\* As long as the wheel's events and the keyboard's do not meet in queue_keypress,
\* the 8-bit counter never wraps, 255 + 1 or 0 - 1, although an update of it may
\* be lost and the test of the limit is not repeated when it is loaded again.
CountNeverWraps ==
    ~overlap =>
        /\ \A t \in Thread : Putting(t) => count[t] < Limit
        /\ pc["cpu"] = "less" => count["cpu"] > 0

Undisturbed == ~torn /\ ~overlap

\* As long as no update of the counter was lost and the two producers did not
\* meet, the Amiga gets the keys and the wheel's events in the order in which they
\* were put in, none twice and none left out.
KeysInOrder ==
    Undisturbed => /\ Len(popped) <= Len(accepted)
                   /\ \A k \in DOMAIN popped : popped[k] = accepted[k]

\* ... and at rest the counter is the number of keys that wait in the ring, so
\* that none of them is forgotten: get_num_kb_queued is what makes the keyboard
\* thread ask for another interrupt.
CountIsContents ==
    Undisturbed /\ (\A t \in Thread : pc[t] = "idle")
        => /\ queued_keypresses = Len(accepted) - Len(popped)
           /\ queue_output_pos = Byte(queue_input_pos + queued_keypresses)
=============================================================================
