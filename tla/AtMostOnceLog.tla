--------------------------- MODULE AtMostOnceLog ---------------------------
(***************************************************************************)
(* What a producer of events promises to the readers of its topics: an     *)
(* event is accepted once, reaches the log at most once, and one that is   *)
(* lost before it reached the log never turns up later.  Events are named  *)
(* by the order in which they were accepted.  Delivery may reorder them.   *)
(***************************************************************************)
EXTENDS Naturals

VARIABLES accepted,   \* how many events have been accepted
          pending,    \* accepted, neither in the log nor lost
          log         \* the events readers can see

vars == <<accepted, pending, log>>

Init ==
    /\ accepted = 0
    /\ pending = {}
    /\ log = {}

Accept ==
    /\ accepted' = accepted + 1
    /\ pending' = pending \cup {accepted'}
    /\ UNCHANGED log

Append(n) ==
    /\ n \in pending
    /\ pending' = pending \ {n}
    /\ log' = log \cup {n}
    /\ UNCHANGED accepted

Lose(lost) ==
    /\ pending' = pending \ lost
    /\ UNCHANGED <<accepted, log>>

Next ==
    \/ Accept
    \/ \E n \in pending : Append(n)
    \/ \E lost \in SUBSET pending : Lose(lost)

Spec == Init /\ [][Next]_vars

\* What a system promises that loses nothing on the way.
Lossless == Init /\ [][Accept \/ \E n \in pending : Append(n)]_vars

=============================================================================
