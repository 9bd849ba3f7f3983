------------------------------- MODULE Outbox -------------------------------
(* What every publisher of the repository promises its callers, whatever     *)
(* library is below it.  Messages are numbered in the order in which Publish *)
(* accepts them.  They are handed to the client library in that order, at    *)
(* most Window of them being attempted at a time, again and again until the  *)
(* library takes them: a message may be sent twice, but none is passed over  *)
(* unless the publisher is closing.                                          *)
EXTENDS Naturals, Sequences, Functions

CONSTANT Window      \* messages attempted together

VARIABLES
  accepted,          \* number of messages accepted
  settled,           \* messages 1 .. settled are never attempted again
  sent,              \* what the library took, in order, repetitions included
  closing            \* Close was called

outVars == <<accepted, settled, sent, closing>>

Init == accepted = 0 /\ settled = 0 /\ sent = << >> /\ closing = FALSE

Current == {k \in settled + 1 .. accepted : k <= settled + Window}

\* One message, or a whole array of them.
Accept ==
  /\ accepted' \in Nat /\ accepted' > accepted
  /\ UNCHANGED <<settled, sent, closing>>

\* Current messages, the older ones first.
Batches ==
  {q \in UNION {[1 .. n -> Current] : n \in 0 .. Window} :
     \A i, j \in DOMAIN q : i < j => q[i] < q[j]}

\* The library takes the messages of q; those up to s are done with.
Attempt(q, s) ==
  /\ settled + 1 .. s \subseteq Range(sent) \cup Range(q)
  /\ sent' = sent \o q
  /\ settled' = s
  /\ UNCHANGED <<accepted, closing>>

\* While closing, the publisher may give up.
Discard(s) ==
  /\ closing
  /\ settled' = s
  /\ UNCHANGED <<accepted, sent, closing>>

Close ==
  /\ closing' = TRUE
  /\ UNCHANGED <<accepted, settled, sent>>

Next ==
  \/ Accept
  \/ \E q \in Batches : \E s \in {settled} \cup Current : Attempt(q, s)
  \/ \E s \in Current : Discard(s)
  \/ Close

Spec == Init /\ [][Next]_outVars
=============================================================================
