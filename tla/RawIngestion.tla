---------------------------- MODULE RawIngestion ----------------------------
(***************************************************************************)
(* The raw ingestion job (images/spark-jobs, raw_ingestion.py): a driver   *)
(* starts one streaming query per topic; each query plans micro-batches of *)
(* its topic, merges them into the Iceberg table of the topic on the id    *)
(* and then commits the batch to its checkpoint.  Spark, Kafka and Iceberg *)
(* are external: they are modelled by what the job relies on, the offsets  *)
(* a checkpoint plans and commits, and MERGE as one atomic step.           *)
(***************************************************************************)
EXTENDS Naturals, Sequences, FiniteSets, Functions

CONSTANTS
    TopicList,      \* the topics, in the order of driverArgs
    Ids,            \* the ids of the events; two events may have one id
    MaxLength,      \* bound: events per topic in a run
    MaxFailures     \* bound: failures in a run

ASSUME TopicsAssumption ==
    TopicList \in Seq(Range(TopicList)) /\ IsInjective(TopicList)
ASSUME IdsAssumption == Ids # {}
ASSUME BoundsAssumption == MaxLength \in Nat /\ MaxFailures \in Nat

Topics == Range(TopicList)

\* An event is named by its topic and its offset.
Events == Topics \X (1 .. MaxLength)

VARIABLES
    log,         \* the ids of the events of each topic, by offset
    started,     \* how many queries the driver has started; 0 when it is down
    driver,      \* "up" or "down"
    query,       \* where the query of each topic is
    planned,     \* the last offset of the batch planned last
    committed,   \* the last offset of the batch committed last
    checkpoint,  \* what there is of these in each checkpoint: "none", the
                 \* "last" batch but not the one before, or the "whole"
    batch,       \* the temporary view "batch" of each query's session
    table,       \* how often each event is in the table of each topic
    exists,      \* whether the catalog has the table of each topic
    lost,        \* up to which offset rows went with a dropped table for good
    failures     \* how many failures there were

catalog == <<table, exists, lost>>
vars == <<log, started, driver, query, planned, committed, checkpoint, batch,
          catalog, failures>>

Init ==
    /\ log = [t \in Topics |-> <<>>]
    /\ started = 0
    /\ driver = "down"
    /\ query = [t \in Topics |-> "off"]
    /\ planned = [t \in Topics |-> 0]
    /\ committed = [t \in Topics |-> 0]
    /\ checkpoint = [t \in Topics |-> "none"]
    /\ batch = [t \in Topics |-> {}]
    /\ table = [t \in Topics |-> [e \in Events |-> 0]]
    /\ exists = [t \in Topics |-> FALSE]
    /\ lost = [t \in Topics |-> 0]
    /\ failures = 0

IdOf(e) == log[e[1]][e[2]]

\* The events of a table, and their ids.
Written(t) == {e \in Events : table[t][e] > 0}
IdsIn(t) == {IdOf(e) : e \in Written(t)}

-----------------------------------------------------------------------------
(* The producers of the topics.                                            *)

Publish(t, id) ==
    /\ Len(log[t]) < MaxLength
    /\ log' = [log EXCEPT ![t] = Append(@, id)]
    /\ UNCHANGED <<started, driver, query, planned, committed, checkpoint, batch, catalog,
                   failures>>

-----------------------------------------------------------------------------
(* The driver.                                                             *)

\* Nothing starts the driver by itself, neither at first nor after a failure:
\* somebody applies the SparkApplication.
StartDriver ==
    /\ driver = "down"
    /\ driver' = "up"
    /\ UNCHANGED <<log, started, query, planned, committed, checkpoint, batch, catalog,
                   failures>>

NextQuery == TopicList[started + 1]

\* process_stream creates the table when it is missing.
StartsNext ==
    /\ driver = "up"
    /\ started < Len(TopicList)
    /\ exists' = [exists EXCEPT ![NextQuery] = TRUE]

\* The query starts from its checkpoint, and without one from the earliest
\* offset.
Resume(t, seen, done) ==
    /\ started' = started + 1
    /\ planned' = [planned EXCEPT ![t] = seen]
    /\ committed' = [committed EXCEPT ![t] = done]
    /\ lost' = [lost EXCEPT ![t] = IF checkpoint[t] = "none" THEN 0 ELSE @]
    /\ query' = [query EXCEPT ![t] = IF seen > done THEN "planned" ELSE "idle"]
    /\ UNCHANGED <<log, driver, checkpoint, batch, table, failures>>

\* Mutant: a restarted query starts after the batch it had planned.
StartAfterPlanned ==
    /\ StartsNext
    /\ CASE checkpoint[NextQuery] = "whole" ->
                Resume(NextQuery, planned[NextQuery], planned[NextQuery])
         [] checkpoint[NextQuery] = "none" -> Resume(NextQuery, 0, 0)

\* A batch planned and not committed runs again.
StartQuery ==
    /\ StartsNext
    /\ \/ /\ checkpoint[NextQuery] = "whole"
          /\ Resume(NextQuery, planned[NextQuery], committed[NextQuery])
       \/ /\ checkpoint[NextQuery] = "none"
          /\ Resume(NextQuery, 0, 0)

\* The driver is gone and every query with it.
Halt ==
    /\ driver' = "down"
    /\ started' = 0
    /\ query' = [t \in Topics |-> "off"]
    /\ batch' = [t \in Topics |-> {}]

\* Spark starts no query from a checkpoint that has its last batch and not the
\* one before it: the exception ends the driver, and whenever it is applied
\* again, until somebody deletes the checkpoint.
StartRefused ==
    /\ StartsNext
    /\ checkpoint[NextQuery] = "last"
    /\ Halt
    /\ UNCHANGED <<log, planned, committed, checkpoint, table, lost, failures>>

\* A kill of the driver, or an exception before it waits: no schema in the
\* registry, no catalog.
DriverFails ==
    /\ driver = "up"
    /\ failures < MaxFailures
    /\ failures' = failures + 1
    /\ Halt
    /\ UNCHANGED <<log, planned, committed, checkpoint, catalog>>

\* A query's trigger or batch raises.
QueryFails(t) ==
    /\ query[t] \in {"idle", "planned", "viewed", "merged"}
    /\ failures < MaxFailures
    /\ failures' = failures + 1
    /\ query' = [query EXCEPT ![t] = "failed"]
    /\ UNCHANGED <<log, started, driver, planned, committed, checkpoint, batch, catalog>>

\* Mutant: the driver waits for all queries to terminate.
AwaitAllTerminations ==
    /\ driver = "up"
    /\ started = Len(TopicList)
    /\ \A t \in Topics : query[t] = "failed"
    /\ Halt
    /\ UNCHANGED <<log, planned, committed, checkpoint, catalog, failures>>

\* awaitAnyTermination raises when the first query has failed.
AwaitAnyTermination ==
    /\ driver = "up"
    /\ started = Len(TopicList)
    /\ \E t \in Topics : query[t] = "failed"
    /\ Halt
    /\ UNCHANGED <<log, planned, committed, checkpoint, catalog, failures>>

\* "if the Spark checkpoints get corrupted, we can restart the stream with a
\* new checkpoint location": clean.py deletes those of all topics, and does not
\* look whether the driver is up.  A running query goes on from what it has in
\* memory.
LoseCheckpoints ==
    /\ failures < MaxFailures
    /\ failures' = failures + 1
    /\ checkpoint' = [t \in Topics |-> "none"]
    /\ UNCHANGED <<log, started, driver, query, planned, committed, batch, catalog>>

\* clean.py --data, or a refresh of the catalog: the table is dropped, while
\* the checkpoint stays.  What was committed, or merged in the batch to be
\* committed now, is not read again.
DropTable(t) ==
    /\ exists[t]
    /\ failures < MaxFailures
    /\ failures' = failures + 1
    /\ exists' = [exists EXCEPT ![t] = FALSE]
    /\ table' = [table EXCEPT ![t] = [e \in Events |-> 0]]
    /\ lost' = [lost EXCEPT ![t] =
                    IF query[t] = "merged" THEN planned[t] ELSE committed[t]]
    /\ UNCHANGED <<log, started, driver, query, planned, committed, checkpoint, batch>>

-----------------------------------------------------------------------------
(* A query.                                                                *)

\* The trigger plans a batch of everything new; the checkpoint has it first, and
\* has nothing else when it was deleted under the query.
Plan(t) ==
    /\ query[t] = "idle"
    /\ Len(log[t]) > committed[t]
    /\ planned' = [planned EXCEPT ![t] = Len(log[t])]
    /\ query' = [query EXCEPT ![t] = "planned"]
    /\ checkpoint' = [checkpoint EXCEPT ![t] =
                        IF @ = "none" /\ committed[t] > 0 THEN "last" ELSE "whole"]
    /\ UNCHANGED <<log, started, driver, committed, batch, catalog, failures>>

\* The trigger finds nothing new.
TriggerIdle(t) ==
    /\ query[t] = "idle"
    /\ Len(log[t]) = committed[t]
    /\ UNCHANGED vars

\* Mutant: all queries create the view in one session.
CreateViewInOneSession(t) ==
    /\ query[t] = "planned"
    /\ batch' = [u \in Topics |-> {<<t, n>> : n \in committed[t] + 1 .. planned[t]}]
    /\ query' = [query EXCEPT ![t] = "viewed"]
    /\ UNCHANGED <<log, started, driver, planned, committed, checkpoint, catalog, failures>>

\* merge_dataframe: the view "batch" of the query's own session.
CreateView(t) ==
    /\ query[t] = "planned"
    /\ batch' = [batch EXCEPT ![t] =
                    {<<t, n>> : n \in committed[t] + 1 .. planned[t]}]
    /\ query' = [query EXCEPT ![t] = "viewed"]
    /\ UNCHANGED <<log, started, driver, planned, committed, checkpoint, catalog, failures>>

Inserts(t, rows) ==
    /\ query[t] = "viewed" /\ exists[t]
    /\ table' = [table EXCEPT ![t] = rows]
    /\ query' = [query EXCEPT ![t] = "merged"]
    /\ UNCHANGED <<log, started, driver, planned, committed, checkpoint, batch, exists, lost,
                   failures>>

\* Mutant: INSERT of every row, matched or not.
MergeAll(t) ==
    Inserts(t, [e \in Events |-> table[t][e] + IF e \in batch[t] THEN 1 ELSE 0])

\* WHEN NOT MATCHED THEN INSERT *: matching looks at the table only, so rows
\* of the batch with one id are all inserted.
Merge(t) ==
    LET new == {e \in batch[t] : IdOf(e) \notin IdsIn(t)}
    IN  Inserts(t, [e \in Events |-> table[t][e] + IF e \in new THEN 1 ELSE 0])

\* Without its table the query fails, until the driver starts it again.
MergeFails(t) ==
    /\ query[t] = "viewed" /\ ~exists[t]
    /\ query' = [query EXCEPT ![t] = "failed"]
    /\ UNCHANGED <<log, started, driver, planned, committed, checkpoint, batch, catalog,
                   failures>>

\* Mutant: what arrived during the batch is committed with it.
CommitEverything(t) ==
    /\ query[t] = "merged"
    /\ committed' = [committed EXCEPT ![t] = Len(log[t])]
    /\ query' = [query EXCEPT ![t] = "idle"]
    /\ UNCHANGED <<log, started, driver, planned, checkpoint, batch, catalog, failures>>

\* The batch is committed once the function has returned.
CommitBatch(t) ==
    /\ query[t] = "merged"
    /\ committed' = [committed EXCEPT ![t] = planned[t]]
    /\ query' = [query EXCEPT ![t] = "idle"]
    /\ UNCHANGED <<log, started, driver, planned, checkpoint, batch, catalog, failures>>

-----------------------------------------------------------------------------
Driver == StartQuery \/ StartRefused \/ AwaitAnyTermination
Query(t) ==
    \/ Plan(t) \/ TriggerIdle(t) \/ CreateView(t)
    \/ Merge(t) \/ MergeFails(t) \/ CommitBatch(t)
Failure ==
    \/ DriverFails
    \/ LoseCheckpoints
    \/ \E t \in Topics : QueryFails(t) \/ DropTable(t)

Next ==
    \/ \E t \in Topics, id \in Ids : Publish(t, id)
    \/ StartDriver
    \/ Driver
    \/ \E t \in Topics : Query(t)
    \/ Failure

Spec == Init /\ [][Next]_vars

\* A driver that is up goes on and the queries' triggers fire.  Nobody need
\* start a driver that is down.
Fairness == WF_vars(Driver) /\ \A t \in Topics : WF_vars(Query(t))

FairSpec == Spec /\ Fairness

-----------------------------------------------------------------------------
(* Properties.                                                             *)

TypeOK ==
    /\ log \in [Topics -> Seq(Ids)]
    /\ started \in 0 .. Len(TopicList)
    /\ driver \in {"up", "down"}
    /\ query \in [Topics -> {"off", "idle", "planned", "viewed", "merged", "failed"}]
    /\ planned \in [Topics -> 0 .. MaxLength]
    /\ committed \in [Topics -> 0 .. MaxLength]
    /\ checkpoint \in [Topics -> {"none", "last", "whole"}]
    /\ batch \in [Topics -> SUBSET Events]
    /\ table \in [Topics -> [Events -> Nat]]
    /\ exists \in [Topics -> BOOLEAN]
    /\ lost \in [Topics -> 0 .. MaxLength]
    /\ failures \in 0 .. MaxFailures
    /\ \A t \in Topics : /\ committed[t] <= planned[t] /\ planned[t] <= Len(log[t])
                         /\ Len(log[t]) <= MaxLength

\* However often a batch is run again, no event is in a table twice.
NoEventTwice == \A t \in Topics, e \in Events : table[t][e] <= 1

\* A table holds events of its topic only, although every query calls its
\* view "batch".
OwnEventsOnly == \A t \in Topics : \A e \in Written(t) : e[1] = t

\* What readers of the tables may rely on: the steps of queries, checkpoints
\* and failures come down to inserts of new events, each acknowledged once it
\* is in the table, and to drops.
Table == INSTANCE IngestedTable WITH rows <- table, done <- committed

IngestsOnce == Table!Spec

\* The id of every event up to the committed offset is in the table, unless
\* the table was dropped after it was written: a batch is committed only after
\* its merge, whatever fails in between, and nothing else is lost by a drop.
CommittedIsWritten ==
    \A t \in Topics, n \in 1 .. MaxLength :
        lost[t] < n /\ n <= committed[t] => log[t][n] \in IdsIn(t)

\* A driver that stays up ingests: whatever failed before, once the job is
\* applied and does not go down any more the id of every event is in its table
\* at last.  A query that has failed does not leave the driver waiting for the
\* others, where nobody would see it.  Only a table dropped after the offset was
\* committed keeps its events from coming back.
EveryEventWritten ==
    <>[](driver = "up") =>
        \A t \in Topics, n \in 1 .. MaxLength :
            (n <= Len(log[t])) ~>
                (n <= Len(log[t]) /\ (log[t][n] \in IdsIn(t) \/ n <= lost[t]))

\* "upserts to ensure there are no duplicates in Iceberg" (README.md:7): a
\* table has one row for an id.
OneRowPerId ==
    \A t \in Topics : \A e, f \in Written(t) : IdOf(e) = IdOf(f) => e = f

=============================================================================
