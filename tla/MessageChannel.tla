--------------------------- MODULE MessageChannel ---------------------------
(***************************************************************************)
(* What the message layer promises its users.  While the byte stream      *)
(* carries only frames it is an ordered, lossless channel: every message   *)
(* posted is received exactly once, in the order it was posted, and the   *)
(* receiver may take several at once.  Once foreign bytes have entered the *)
(* stream the promise is weaker: what is received is still a subsequence   *)
(* of what was posted (nothing invented, duplicated or reordered), but     *)
(* messages may be lost and nothing more is promised to arrive.           *)
(***************************************************************************)
EXTENDS Naturals, Sequences, FiniteSets, SequencesExt

CONSTANT Messages

VARIABLES
    posted,     \* every message handed to the channel, in order
    received,   \* the messages handed to the receiver, in order
    corrupted   \* foreign bytes have entered the stream

vars == <<posted, received, corrupted>>

Init == posted = <<>> /\ received = <<>> /\ corrupted = FALSE

Post(m) ==
    /\ posted' = Append(posted, m)
    /\ UNCHANGED <<received, corrupted>>

(* The receiver takes the next k messages not yet received. *)
Take(k) ==
    /\ Len(received) + k <= Len(posted)
    /\ received' = received \o SubSeq(posted, Len(received) + 1, Len(received) + k)
    /\ UNCHANGED <<posted, corrupted>>

Deliver == ~corrupted /\ \E k \in 1..Len(posted) : Take(k)

(* Bytes no sender wrote reach the stream. *)
Corrupt ==
    /\ ~corrupted /\ corrupted' = TRUE
    /\ UNCHANGED <<posted, received>>

(* The subsequences of s: s with any of its elements left out. *)
Subsequences(s) ==
    { [i \in 1..Cardinality(D) |-> s[SetToSortSeq(D, <)[i]]] : D \in SUBSET DOMAIN s }

(* On a corrupted stream the receiver gets more messages; the whole of    *)
(* what it has received stays a subsequence of what was posted.           *)
DeliverLossy ==
    /\ corrupted
    /\ \E s \in Subsequences(posted) :
          /\ Len(s) > Len(received) /\ IsPrefix(received, s)
          /\ received' = s
    /\ UNCHANGED <<posted, corrupted>>

Next == (\E m \in Messages : Post(m)) \/ Deliver \/ Corrupt \/ DeliverLossy

(* Delivery is owed only on a clean stream. *)
Spec == Init /\ [][Next]_vars /\ WF_vars(Deliver)

=============================================================================
