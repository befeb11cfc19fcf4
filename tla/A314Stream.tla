----------------------------- MODULE A314Stream -----------------------------
(***************************************************************************)
(* What A314 promises about one direction of its streams: for each stream  *)
(* id the reader gets the packets the writer sent, each once, in their     *)
(* order, and after them the EOS that ended them, if it ever came.         *)
(***************************************************************************)
EXTENDS Naturals, Sequences

CONSTANT Ids

VARIABLES
    in,     \* what the writer has sent: 1, 2, ... and 0 for EOS
    out     \* what the reader has got

vars == <<in, out>>

Ended(i) == \E k \in DOMAIN in[i] : in[i][k] = 0

Init == in = [i \in Ids |-> <<>>] /\ out = [i \in Ids |-> <<>>]

Put(i) ==
    /\ ~Ended(i)
    /\ \E x \in {0, Len(in[i]) + 1} : in' = [in EXCEPT ![i] = Append(@, x)]
    /\ UNCHANGED out

Take(i) ==
    /\ Len(out[i]) < Len(in[i])
    /\ out' = [out EXCEPT ![i] = Append(@, in[i][Len(@) + 1])]
    /\ UNCHANGED in

Next == \E i \in Ids : Put(i) \/ Take(i)

Spec == Init /\ [][Next]_vars

-----------------------------------------------------------------------------
TypeOK == in \in [Ids -> Seq(Nat)] /\ out \in [Ids -> Seq(Nat)]

\* What the reader has got is the beginning of what was sent: nothing is lost,
\* duplicated, reordered or carried over from another stream (the packet queues,
\* the rings and the read queue of a socket keep their order).
Faithful ==
    \A i \in Ids : /\ Len(out[i]) <= Len(in[i])
                   /\ \A k \in 1 .. Len(out[i]) : out[i][k] = in[i][k]

\* Packets are numbered in their order, and only the last one may be an EOS.
Numbered ==
    \A i \in Ids : \A k \in 1 .. Len(in[i]) :
        in[i][k] = k \/ (k = Len(in[i]) /\ in[i][k] = 0)

\* The reader gets nothing after an EOS, and everything before it.
NothingAfterEos ==
    \A i \in Ids : \A k \in 1 .. Len(out[i]) :
        out[i][k] = 0 => k = Len(out[i]) /\ Len(out[i]) = Len(in[i])
=============================================================================
