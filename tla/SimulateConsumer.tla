-------------------------- MODULE SimulateConsumer --------------------------
(***************************************************************************)
(* The load generator of the feature store (images/simulation,             *)
(* simulate_consumer.py): one thread polls payments from Kafka into a      *)
(* bounded queue, worker threads take them out, wait, and ask the feature  *)
(* store for features.  A signal sets stop_event, which every thread reads *)
(* only at the top of its loop.                                            *)
(***************************************************************************)
EXTENDS Naturals, Sequences, FiniteSets

CONSTANTS
    Workers,      \* the worker threads
    MaxSize,      \* maxsize of the queue
    MaxRecords,   \* bound: how many payments are published in a run
    BadRecords,   \* those that raise in the deserialiser
    MayStop       \* whether the signal can arrive

ASSUME WorkersAssumption == Workers # {} /\ IsFiniteSet(Workers)
ASSUME MaxSizeAssumption == MaxSize \in Nat \ {0}
ASSUME RecordsAssumption == MaxRecords \in Nat /\ BadRecords \subseteq 1 .. MaxRecords
ASSUME MayStopAssumption == MayStop \in BOOLEAN

Records == 1 .. MaxRecords

VARIABLES
    stop_event,    \* whether the signal has been handled
    position,      \* the last record the consumer polled
    consumer,      \* where the Kafka thread is
    event_queue,   \* the records in the queue, the next one first
    unfinished,    \* its count of records without a task_done
    worker,        \* where each worker is
    record,        \* the record each worker took last
    requested      \* the records whose first request was made

vars == <<stop_event, position, consumer, event_queue, unfinished, worker,
          record, requested>>

Init ==
    /\ stop_event = FALSE
    /\ position = 0
    /\ consumer = "check"
    /\ event_queue = <<>>
    /\ unfinished = 0
    /\ worker = [w \in Workers |-> "check"]
    /\ record = [w \in Workers |-> 0]
    /\ requested = {}

-----------------------------------------------------------------------------
(* The Kafka thread.                                                       *)

\* Mutant: while True.
ConsumerCheckForever ==
    /\ consumer = "check"
    /\ consumer' = "poll"
    /\ UNCHANGED <<stop_event, position, event_queue, unfinished, worker,
                   record, requested>>

\* while not stop_event.is_set(); consumer.close() on the way out.
ConsumerCheck ==
    /\ consumer = "check"
    /\ consumer' = IF stop_event THEN "stopped" ELSE "poll"
    /\ UNCHANGED <<stop_event, position, event_queue, unfinished, worker,
                   record, requested>>

\* consumer.poll(1.0) returns nothing or an error.
PollEmpty ==
    /\ consumer = "poll"
    /\ consumer' = "check"
    /\ UNCHANGED <<stop_event, position, event_queue, unfinished, worker,
                   record, requested>>

\* It returns a record.  When the deserialiser raises, the finally clause
\* closes the consumer and the thread ends.
Poll ==
    /\ consumer = "poll"
    /\ position < MaxRecords
    /\ position' = position + 1
    /\ consumer' = IF position' \in BadRecords THEN "stopped" ELSE "put"
    /\ UNCHANGED <<stop_event, event_queue, unfinished, worker, record, requested>>

\* Mutant: a queue without a maxsize.
PutUnbounded ==
    /\ consumer = "put"
    /\ event_queue' = Append(event_queue, position)
    /\ unfinished' = unfinished + 1
    /\ consumer' = "check"
    /\ UNCHANGED <<stop_event, position, worker, record, requested>>

\* Mutant: the record is put without waiting, and lost when the queue is full.
PutOrDrop ==
    /\ consumer = "put"
    /\ IF Len(event_queue) < MaxSize
       THEN event_queue' = Append(event_queue, position) /\ unfinished' = unfinished + 1
       ELSE UNCHANGED <<event_queue, unfinished>>
    /\ consumer' = "check"
    /\ UNCHANGED <<stop_event, position, worker, record, requested>>

\* Mutant: the newest record is taken first, as from a LifoQueue.
PutFirst ==
    /\ consumer = "put"
    /\ Len(event_queue) < MaxSize
    /\ event_queue' = <<position>> \o event_queue
    /\ unfinished' = unfinished + 1
    /\ consumer' = "check"
    /\ UNCHANGED <<stop_event, position, worker, record, requested>>

\* event_queue.put blocks, without a timeout, while the queue is full.
Put ==
    /\ consumer = "put"
    /\ Len(event_queue) < MaxSize
    /\ event_queue' = Append(event_queue, position)
    /\ unfinished' = unfinished + 1
    /\ consumer' = "check"
    /\ UNCHANGED <<stop_event, position, worker, record, requested>>

-----------------------------------------------------------------------------
(* The workers.                                                            *)

WorkerCheck(w) ==
    /\ worker[w] = "check"
    /\ worker' = [worker EXCEPT ![w] = IF stop_event THEN "stopped" ELSE "get"]
    /\ UNCHANGED <<stop_event, position, consumer, event_queue, unfinished,
                   record, requested>>

\* event_queue.get(timeout=0.5) raises queue.Empty.
GetEmpty(w) ==
    /\ worker[w] = "get"
    /\ event_queue = <<>>
    /\ worker' = [worker EXCEPT ![w] = "check"]
    /\ UNCHANGED <<stop_event, position, consumer, event_queue, unfinished,
                   record, requested>>

Get(w) ==
    /\ worker[w] = "get"
    /\ event_queue # <<>>
    /\ record' = [record EXCEPT ![w] = Head(event_queue)]
    /\ event_queue' = Tail(event_queue)
    /\ worker' = [worker EXCEPT ![w] = "request"]
    /\ UNCHANGED <<stop_event, position, consumer, unfinished, requested>>

\* Mutant: a request that raises ends the worker's thread.
RequestMayRaise(w) ==
    /\ worker[w] = "request"
    /\ requested' = requested \cup {record[w]}
    /\ unfinished' = unfinished - 1
    /\ \E next \in {"check", "stopped"} : worker' = [worker EXCEPT ![w] = next]
    /\ UNCHANGED <<stop_event, position, consumer, event_queue, record>>

\* The pause, the requests and task_done: an exception of a request is logged
\* and changes nothing.  One of the first request, which every record gets, also
\* skips the second; the second is not followed.
Request(w) ==
    /\ worker[w] = "request"
    /\ requested' = requested \cup {record[w]}
    /\ unfinished' = unfinished - 1
    /\ worker' = [worker EXCEPT ![w] = "check"]
    /\ UNCHANGED <<stop_event, position, consumer, event_queue, record>>

-----------------------------------------------------------------------------
\* SIGINT or SIGTERM, handled by the main thread while it joins the others.
Shutdown ==
    /\ MayStop
    /\ stop_event' = TRUE
    /\ UNCHANGED <<position, consumer, event_queue, unfinished, worker, record,
                   requested>>

WorkerStep(w) == WorkerCheck(w) \/ GetEmpty(w) \/ Get(w) \/ Request(w)
ConsumerStep == ConsumerCheck \/ PollEmpty \/ Poll \/ Put

Next == ConsumerStep \/ Shutdown \/ \E w \in Workers : WorkerStep(w)

Spec == Init /\ [][Next]_vars

\* The threads are scheduled, and a poll, a get and a request time out.
Fairness ==
    /\ WF_vars(ConsumerStep)
    /\ \A w \in Workers : WF_vars(WorkerStep(w))

FairSpec == Spec /\ Fairness

-----------------------------------------------------------------------------
(* Properties.                                                             *)

Busy == {w \in Workers : worker[w] = "request"}
InQueue == {event_queue[i] : i \in 1 .. Len(event_queue)}
Held == IF consumer = "put" THEN {position} ELSE {}

TypeOK ==
    /\ stop_event \in BOOLEAN
    /\ position \in 0 .. MaxRecords
    /\ consumer \in {"check", "poll", "put", "stopped"}
    /\ event_queue \in Seq(Records)
    /\ Len(event_queue) <= MaxSize
    /\ unfinished \in Nat
    /\ worker \in [Workers -> {"check", "get", "request", "stopped"}]
    /\ record \in [Workers -> 0 .. MaxRecords]
    /\ requested \subseteq Records

\* Every record polled is in one place: with the Kafka thread, in the queue,
\* with one worker, or requested; and the queue's own count agrees: task_done
\* is called once for every record taken, whatever its requests raised.
NothingLost ==
    /\ 1 .. position = Held \cup InQueue \cup {record[w] : w \in Busy}
                            \cup requested \cup (BadRecords \cap 1 .. position)
    /\ Cardinality(Held) + Len(event_queue) + Cardinality(Busy)
         + Cardinality(requested) + Cardinality(BadRecords \cap 1 .. position)
         = position
    /\ unfinished = Len(event_queue) + Cardinality(Busy)

\* Records are handed to the workers in the order they were polled.
HandedOutInOrder ==
    /\ \A i \in 1 .. Len(event_queue) - 1 : event_queue[i] < event_queue[i + 1]
    /\ \A waiting \in InQueue \cup Held :
          \A taken \in {record[w] : w \in Busy} \cup requested : taken < waiting

\* What the feature store sees of the topic: every record polled is requested at
\* most once and none is dropped, whichever worker takes it; one that cannot be
\* deserialised stays pending.
Log == INSTANCE AtMostOnceLog WITH
           accepted <- position,
           pending <- Held \cup InQueue \cup {record[w] : w \in Busy}
                           \cup (BadRecords \cap 1 .. position),
           log <- requested

RequestedOnce == Log!Lossless

\* The producer stops too, unless it waits in put for a queue nobody empties.
AllStopOrPutHangs ==
    stop_event ~>
        /\ \A w \in Workers : worker[w] = "stopped"
        /\ \/ consumer = "stopped"
           \/ consumer = "put" /\ Len(event_queue) = MaxSize

\* Unless a signal arrives, every record polled that deserialises is
\* requested, one that is polled before the Kafka thread ends included.
EveryRecordRequested ==
    \A r \in Records \ BadRecords :
        (position >= r) ~> (r \in requested \/ stop_event)

\* shutdown() says "Shutting down" (simulate_consumer.py:173) and main() waits
\* for the Kafka thread to end: after the signal the program ends.
ProgramEnds ==
    stop_event ~>
        /\ consumer = "stopped"
        /\ \A w \in Workers : worker[w] = "stopped"

=============================================================================
