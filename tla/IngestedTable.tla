--------------------------- MODULE IngestedTable ---------------------------
(***************************************************************************)
(* What the raw ingestion promises to the readers of its tables, without   *)
(* queries, batches and checkpoints.  A table takes published events of    *)
(* its topic, none whose id it has and none that was acknowledged before;  *)
(* an event is acknowledged only when its id is in the table; and nothing  *)
(* leaves a table but with the table itself.                               *)
(***************************************************************************)
EXTENDS Naturals, Sequences

CONSTANTS Topics,
          Ids,
          Events     \* pairs of a topic and an offset

VARIABLES log,       \* the ids published to each topic
          rows,      \* how often each event is in each table
          done,      \* up to which offset a topic is acknowledged
          lost       \* up to which offset rows went with a dropped table

vars == <<log, rows, done, lost>>

Init ==
    /\ log = [t \in Topics |-> <<>>]
    /\ rows = [t \in Topics |-> [e \in Events |-> 0]]
    /\ done = [t \in Topics |-> 0]
    /\ lost = [t \in Topics |-> 0]

IdsIn(t) == {log[e[1]][e[2]] : e \in {f \in Events : rows[t][f] > 0}}

\* Up to an offset nothing is missing but what was lost.
Complete(t, upto) == \A n \in 1 .. upto : lost[t] < n => log[t][n] \in IdsIn(t)

Publish(t, id) ==
    /\ log' = [log EXCEPT ![t] = Append(@, id)]
    /\ UNCHANGED <<rows, done, lost>>

Insert(t, new) ==
    /\ \A e \in new :
          /\ e[1] = t
          /\ done[t] < e[2] /\ e[2] <= Len(log[t])
          /\ log[t][e[2]] \notin IdsIn(t)
    /\ rows' = [rows EXCEPT ![t] = [e \in Events |-> IF e \in new THEN 1 ELSE @[e]]]
    /\ UNCHANGED <<log, done, lost>>

Acknowledge(t, upto) ==
    /\ done[t] <= upto /\ upto <= Len(log[t])
    /\ Complete(t, upto)
    /\ done' = [done EXCEPT ![t] = upto]
    /\ UNCHANGED <<log, rows, lost>>

\* The acknowledgements are forgotten: everything will be offered again.
Rewind(t) ==
    /\ done' = [done EXCEPT ![t] = 0]
    /\ lost' = [lost EXCEPT ![t] = 0]
    /\ UNCHANGED <<log, rows>>

\* The table goes, and with it for good what was acknowledged or would have
\* been: nothing that was not in it.
Drop(t, upto) ==
    /\ done[t] <= upto /\ upto <= Len(log[t])
    /\ Complete(t, upto)
    /\ rows' = [rows EXCEPT ![t] = [e \in Events |-> 0]]
    /\ lost' = [lost EXCEPT ![t] = upto]
    /\ UNCHANGED <<log, done>>

Next ==
    \E t \in Topics :
        \/ \E id \in Ids : Publish(t, id)
        \/ \E new \in SUBSET Events : Insert(t, new)
        \/ \E upto \in 0 .. Len(log[t]) : Acknowledge(t, upto) \/ Drop(t, upto)
        \/ Rewind(t)

Spec == Init /\ [][Next]_vars

=============================================================================
