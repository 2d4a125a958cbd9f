------------------------- MODULE RawIngestionProofs -------------------------
(***************************************************************************)
(* Proofs about the raw ingestion job for any topics, events and failures. *)
(***************************************************************************)
EXTENDS RawIngestion, TLAPS

\* What is in a view or a table is an event of its topic.
Placed ==
    /\ \A t \in Topics : \A e \in batch[t] : e[1] = t /\ e[2] <= Len(log[t])
    /\ \A t \in Topics : \A e \in Written(t) : e[1] = t /\ e[2] <= Len(log[t])

\* A query that has its view has all of the planned batch in it, and one that
\* has merged has the whole batch in the table, unless it was dropped since.
Merged ==
    /\ driver = "down" => \A t \in Topics : query[t] = "off"
    /\ \A t \in Topics :
          query[t] \in {"viewed", "merged"} =>
              \A n \in committed[t] + 1 .. planned[t] : <<t, n>> \in batch[t]
    /\ \A t \in Topics :
          query[t] = "merged" =>
              \A n \in 1 .. planned[t] : lost[t] < n => log[t][n] \in IdsIn(t)

RawInv == TypeOK /\ NoEventTwice /\ Placed /\ Merged /\ CommittedIsWritten

-----------------------------------------------------------------------------
LEMMA TopicOf == \A n \in 1 .. Len(TopicList) : TopicList[n] \in Topics
BY TopicsAssumption DEF Topics, Range

LEMMA InitRaw == Init => RawInv
BY BoundsAssumption, TopicsAssumption
   DEF Init, RawInv, TypeOK, NoEventTwice, Placed, Merged, CommittedIsWritten, Written, Events

\* A step that moves no event in or out of a table.
LEMMA IdsStay ==
    ASSUME UNCHANGED <<log, table>>, NEW t \in Topics
    PROVE  IdsIn(t)' = IdsIn(t) /\ Written(t)' = Written(t)
BY DEF IdsIn, Written, IdOf

LEMMA PublishKeeps ==
    ASSUME RawInv, NEW u \in Topics, NEW id \in Ids, Publish(u, id)
    PROVE  RawInv'
<1> USE BoundsAssumption DEF RawInv
<1>0. /\ log \in [Topics -> Seq(Ids)] /\ Len(log[u]) < MaxLength
      /\ log' = [log EXCEPT ![u] = Append(@, id)]
      /\ UNCHANGED <<started, driver, query, planned, committed, checkpoint, batch, table,
                     exists, lost, failures>>
    BY DEF TypeOK, Publish, catalog
<1>1. \A t \in Topics : /\ Len(log[t]) \in Nat /\ Len(log'[t]) \in Nat
                         /\ Len(log'[t]) >= Len(log[t])
    <2> SUFFICES ASSUME NEW t \in Topics
                 PROVE  /\ Len(log[t]) \in Nat /\ Len(log'[t]) \in Nat
                        /\ Len(log'[t]) >= Len(log[t])
        OBVIOUS
    <2>1. log[t] \in Seq(Ids) /\ (log'[t] = log[t] \/ log'[t] = Append(log[t], id))
        BY <1>0
    <2> QED BY <2>1
<1>2. \A t \in Topics : \A n \in 1 .. Len(log[t]) : log'[t][n] = log[t][n]
    <2> SUFFICES ASSUME NEW t \in Topics, NEW n \in 1 .. Len(log[t])
                 PROVE  log'[t][n] = log[t][n]
        OBVIOUS
    <2>1. log[t] \in Seq(Ids) /\ (log'[t] = log[t] \/ log'[t] = Append(log[t], id))
        BY <1>0
    <2> QED BY <2>1
<1>3. TypeOK'
    <2>1. log' \in [Topics -> Seq(Ids)]
        BY <1>0
    <2>2. \A t \in Topics : /\ committed[t] <= planned[t] /\ planned[t] <= Len(log'[t])
                             /\ Len(log'[t]) <= MaxLength
        <3> SUFFICES ASSUME NEW t \in Topics
                     PROVE  /\ committed[t] <= planned[t] /\ planned[t] <= Len(log'[t])
                            /\ Len(log'[t]) <= MaxLength
            OBVIOUS
        <3>1. /\ committed[t] <= planned[t] /\ planned[t] <= Len(log[t])
              /\ Len(log[t]) <= MaxLength /\ planned[t] \in Nat
            BY DEF TypeOK
        <3>2. t # u => log'[t] = log[t]
            BY <1>0
        <3>3. Len(log'[u]) = Len(log[u]) + 1 /\ Len(log[u]) \in Nat
            BY <1>0
        <3> QED BY <1>0, <1>1, <3>1, <3>2, <3>3
    <2> QED BY <1>0, <2>1, <2>2 DEF TypeOK
<1>4. \A t \in Topics : IdsIn(t)' = IdsIn(t) /\ Written(t)' = Written(t)
    <2> SUFFICES ASSUME NEW t \in Topics
                 PROVE  IdsIn(t)' = IdsIn(t) /\ Written(t)' = Written(t)
        OBVIOUS
    <2>1. Written(t)' = Written(t)
        BY DEF Publish, Written, catalog
    <2>2. \A e \in Written(t) : e[1] = t /\ e[2] \in 1 .. Len(log[t])
        BY DEF Placed, Written, Events
    <2>3. \A e \in Written(t) : IdOf(e)' = IdOf(e)
        BY <1>2, <2>2 DEF IdOf
    <2> QED BY <2>1, <2>3 DEF IdsIn
<1>5. NoEventTwice' /\ Placed'
    <2>1. \A t \in Topics : \A e \in batch[t] \cup Written(t) : e[2] \in Nat
        <3>1. \A t \in Topics : batch[t] \cup Written(t) \subseteq Events
            BY DEF TypeOK, Written
        <3>2. \A e \in Events : e[2] \in Nat
            BY DEF Events
        <3> QED BY <3>1, <3>2
    <2>2. NoEventTwice'
        BY <1>0 DEF NoEventTwice
    <2>3. Placed'
        <3>1. Placed
            OBVIOUS
        <3>2. \A t \in Topics : \A e \in batch[t] \cup Written(t) :
                 e[1] = t /\ e[2] <= Len(log'[t])
            BY <1>1, <2>1, <3>1 DEF Placed
        <3> QED BY <1>0, <1>4, <3>2 DEF Placed
    <2> QED BY <2>2, <2>3
<1>6. Merged' /\ CommittedIsWritten'
    <2>1. \A t \in Topics : \A n \in 1 .. planned[t] : log'[t][n] = log[t][n]
        <3> SUFFICES ASSUME NEW t \in Topics, NEW n \in 1 .. planned[t]
                     PROVE  log'[t][n] = log[t][n]
            OBVIOUS
        <3>1. planned[t] <= Len(log[t]) /\ planned[t] \in Nat
            BY DEF TypeOK
        <3>2. n \in 1 .. Len(log[t])
            BY <1>1, <3>1
        <3> QED BY <1>2, <3>2
    <2>2. \A t \in Topics : /\ planned[t] \in 0 .. MaxLength /\ committed[t] \in 0 .. MaxLength
                             /\ committed[t] <= planned[t]
        BY DEF TypeOK
    <2>3. Merged'
        BY <1>0, <1>4, <2>1 DEF Merged
    <2>4. CommittedIsWritten'
        <3> SUFFICES ASSUME NEW t \in Topics, NEW n \in 1 .. MaxLength,
                            lost[t] < n, n <= committed[t]
                     PROVE  log'[t][n] \in IdsIn(t)'
            BY <1>0 DEF CommittedIsWritten
        <3>1. log'[t][n] = log[t][n]
            BY <2>1, <2>2
        <3> QED BY <1>4, <3>1 DEF CommittedIsWritten
    <2> QED BY <2>3, <2>4
<1> QED BY <1>3, <1>5, <1>6

\* Steps of the driver and of queries that write nothing.
LEMMA RestKeeps ==
    ASSUME RawInv,
           \/ StartDriver \/ Driver \/ DriverFails \/ LoseCheckpoints \/ UNCHANGED vars
           \/ \E t \in Topics :
                \/ Plan(t) \/ TriggerIdle(t) \/ CreateView(t) \/ MergeFails(t)
                \/ CommitBatch(t) \/ QueryFails(t)
    PROVE  RawInv'
<1> USE BoundsAssumption DEF RawInv
<1>1. UNCHANGED <<log, table>>
    BY DEF Driver, DriverFails, vars, Plan, TriggerIdle, CreateView, MergeFails,
           CommitBatch, QueryFails, LoseCheckpoints, catalog, StartDriver,
           StartQuery, Resume, StartRefused, AwaitAnyTermination
<1>2. \A t \in Topics : IdsIn(t)' = IdsIn(t) /\ Written(t)' = Written(t)
    BY <1>1, IdsStay
<1>3. CASE StartDriver \/ StartRefused \/ AwaitAnyTermination \/ DriverFails \/ LoseCheckpoints
    <2>1. /\ driver' \in {"up", "down"}
          /\ started' = started \/ started' = 0
          /\ query' = query \/ query' = [t \in Topics |-> "off"]
          /\ batch' = batch \/ batch' = [t \in Topics |-> {}]
          /\ checkpoint' = checkpoint \/ checkpoint' = [t \in Topics |-> "none"]
          /\ failures' = failures \/ (failures < MaxFailures /\ failures' = failures + 1)
          /\ UNCHANGED <<log, planned, committed, table, lost>>
        BY <1>3 DEF StartDriver, StartRefused, AwaitAnyTermination, DriverFails,
                    LoseCheckpoints, Halt, catalog, TypeOK
    <2>2. TypeOK'
        <3>1. started' \in 0 .. Len(TopicList) /\ failures' \in 0 .. MaxFailures
            BY <2>1, TopicsAssumption DEF TypeOK
        <3>2. exists' \in [Topics -> BOOLEAN]
            BY <1>3 DEF StartDriver, StartRefused, StartsNext, AwaitAnyTermination,
                        DriverFails, LoseCheckpoints, catalog, TypeOK
        <3> QED BY <2>1, <3>1, <3>2 DEF TypeOK
    <2>3. Placed' /\ NoEventTwice' /\ CommittedIsWritten'
        BY <1>2, <2>1 DEF Placed, NoEventTwice, CommittedIsWritten
    <2>4. Merged'
        BY <1>2, <1>3 DEF StartDriver, StartRefused, AwaitAnyTermination, DriverFails,
                          LoseCheckpoints, Halt, catalog, Merged
    <2> QED BY <2>2, <2>3, <2>4
<1>4. CASE StartQuery
    <2> DEFINE u == NextQuery
    <2>1. u \in Topics /\ started' \in 0 .. Len(TopicList)
        BY <1>4, TopicOf, TopicsAssumption DEF StartQuery, StartsNext, Resume, NextQuery, TypeOK
    <2>2. PICK seen, done :
            /\ \/ /\ checkpoint[u] = "whole" /\ seen = planned[u] /\ done = committed[u]
               \/ checkpoint[u] = "none" /\ seen = 0 /\ done = 0
            /\ Resume(u, seen, done)
        BY <1>4 DEF StartQuery
    <2>3. /\ planned' = [planned EXCEPT ![u] = seen]
          /\ committed' = [committed EXCEPT ![u] = done]
          /\ lost' = [lost EXCEPT ![u] = IF checkpoint[u] = "none" THEN 0 ELSE @]
          /\ query' = [query EXCEPT ![u] = IF seen > done THEN "planned" ELSE "idle"]
          /\ exists' = [exists EXCEPT ![u] = TRUE]
          /\ driver = "up"
          /\ UNCHANGED <<log, driver, checkpoint, batch, table, failures>>
        BY <1>4, <2>2 DEF StartQuery, StartsNext, Resume
    <2> HIDE DEF u
    <2>4. /\ seen \in 0 .. MaxLength /\ done \in 0 .. MaxLength
          /\ done <= seen /\ seen <= Len(log[u])
        <3>1. Len(log[u]) \in Nat
            BY <2>1 DEF TypeOK
        <3> QED BY <2>1, <2>2, <3>1 DEF TypeOK
    <2>5. TypeOK'
        <3>1. lost' \in [Topics -> 0 .. MaxLength]
            BY <2>1, <2>3 DEF TypeOK
        <3>2. query' \in [Topics -> {"off", "idle", "planned", "viewed", "merged", "failed"}]
            BY <2>1, <2>3 DEF TypeOK
        <3>3. /\ planned' \in [Topics -> 0 .. MaxLength]
              /\ committed' \in [Topics -> 0 .. MaxLength]
              /\ \A t \in Topics : committed'[t] <= planned'[t] /\ planned'[t] <= Len(log[t])
            BY <2>1, <2>3, <2>4 DEF TypeOK
        <3> QED BY <2>1, <2>3, <3>1, <3>2, <3>3 DEF TypeOK
    <2>6. Placed' /\ NoEventTwice'
        BY <1>2, <2>3 DEF Placed, NoEventTwice
    <2>7. \A t \in Topics : t # u => /\ committed'[t] = committed[t] /\ lost'[t] = lost[t]
                                      /\ planned'[t] = planned[t] /\ query'[t] = query[t]
        BY <2>3 DEF TypeOK
    <2>8. CommittedIsWritten'
        <3> SUFFICES ASSUME NEW t \in Topics, NEW n \in 1 .. MaxLength,
                            lost'[t] < n, n <= committed'[t]
                     PROVE  log[t][n] \in IdsIn(t)'
            BY <2>3 DEF CommittedIsWritten
        <3>1. lost'[t] = lost[t] /\ committed'[t] = committed[t]
            BY <2>1, <2>2, <2>3, <2>7 DEF TypeOK
        <3> QED BY <1>2, <3>1 DEF CommittedIsWritten
    <2>9. Merged'
        <3>1. query'[u] \in {"planned", "idle"}
            BY <2>1, <2>3 DEF TypeOK
        <3> QED BY <1>2, <2>3, <2>7, <3>1 DEF Merged
    <2> QED BY <2>5, <2>6, <2>8, <2>9
<1>5. ASSUME NEW u \in Topics, Plan(u) \/ MergeFails(u) \/ QueryFails(u)
      PROVE  RawInv'
    <2>1. Placed' /\ NoEventTwice' /\ CommittedIsWritten'
        BY <1>2, <1>5 DEF Plan, MergeFails, QueryFails, catalog,
            Placed, NoEventTwice, CommittedIsWritten
    <2>2. CASE Plan(u)
        <3>1. /\ planned' = [planned EXCEPT ![u] = Len(log[u])]
              /\ query' = [query EXCEPT ![u] = "planned"] /\ query[u] = "idle"
              /\ Len(log[u]) > committed[u]
              /\ checkpoint' \in [Topics -> {"none", "last", "whole"}]
              /\ UNCHANGED <<log, started, driver, committed, batch, table, exists, lost, failures>>
            BY <2>2 DEF Plan, catalog, TypeOK
        <3>2. Len(log[u]) \in 0 .. MaxLength /\ committed[u] <= Len(log[u])
            BY <3>1 DEF TypeOK
        <3>3. TypeOK'
            <4>1. /\ planned' \in [Topics -> 0 .. MaxLength]
                  /\ query' \in [Topics -> {"off", "idle", "planned", "viewed", "merged", "failed"}]
                BY <3>1, <3>2 DEF TypeOK
            <4>2. \A t \in Topics : /\ committed[t] <= planned'[t] /\ planned'[t] <= Len(log[t])
                                    /\ Len(log[t]) <= MaxLength
                BY <3>1, <3>2 DEF TypeOK
            <4> QED BY <3>1, <4>1, <4>2 DEF TypeOK
        <3>4. Merged'
            BY <1>2, <3>1 DEF Merged, TypeOK
        <3> QED BY <2>1, <3>3, <3>4
    <2>3. CASE MergeFails(u) \/ QueryFails(u)
        <3>1. /\ query' = [query EXCEPT ![u] = "failed"] /\ query[u] # "off"
              /\ UNCHANGED <<log, started, driver, planned, committed, checkpoint, batch, table, exists, lost>>
              /\ failures' = failures \/ (failures < MaxFailures /\ failures' = failures + 1)
            BY <2>3 DEF MergeFails, QueryFails, catalog
        <3>2. TypeOK'
            <4>1. failures' \in 0 .. MaxFailures
                <5>1. failures \in 0 .. MaxFailures
                    BY DEF TypeOK
                <5> QED BY <3>1, <5>1
            <4>2. query' \in [Topics -> {"off", "idle", "planned", "viewed", "merged", "failed"}]
                BY <3>1 DEF TypeOK
            <4> QED BY <3>1, <4>1, <4>2 DEF TypeOK
        <3>3. Merged'
            BY <1>2, <3>1 DEF Merged, TypeOK
        <3> QED BY <2>1, <3>2, <3>3
    <2> QED BY <1>5, <2>2, <2>3
<1>6. ASSUME NEW u \in Topics, CommitBatch(u)
      PROVE  RawInv'
    <2>1. TypeOK'
        <3>1. /\ committed' = [committed EXCEPT ![u] = planned[u]]
              /\ query' = [query EXCEPT ![u] = "idle"]
              /\ UNCHANGED <<log, started, driver, planned, checkpoint, batch, table, exists, lost,
                         failures>>
            BY <1>6 DEF CommitBatch, catalog
        <3>2. /\ committed' \in [Topics -> 0 .. MaxLength]
              /\ \A t \in Topics : committed'[t] <= planned[t]
            BY <3>1 DEF TypeOK
        <3>3. query' \in [Topics -> {"off", "idle", "planned", "viewed", "merged", "failed"}]
            BY <3>1 DEF TypeOK
        <3> QED BY <3>1, <3>2, <3>3 DEF TypeOK
    <2>2. Placed' /\ NoEventTwice'
        BY <1>2, <1>6 DEF CommitBatch, catalog, Placed, NoEventTwice
    <2>3. Merged' /\ CommittedIsWritten'
        <3>1. /\ committed' = [committed EXCEPT ![u] = planned[u]]
              /\ query' = [query EXCEPT ![u] = "idle"] /\ query[u] = "merged"
              /\ UNCHANGED <<log, driver, planned, batch, table, lost>>
            BY <1>6 DEF CommitBatch, catalog
        <3>2. \A t \in Topics : t # u => committed'[t] = committed[t] /\ query'[t] = query[t]
            BY <3>1 DEF TypeOK
        <3>3. committed'[u] = planned[u] /\ query'[u] = "idle" /\ planned[u] \in Nat
            BY <3>1 DEF TypeOK
        <3>4. driver = "up"
            BY <3>1 DEF Merged, TypeOK
        <3>5. Merged'
            BY <1>2, <3>1, <3>2, <3>3, <3>4 DEF Merged
        <3>6. CommittedIsWritten'
            <4> SUFFICES ASSUME NEW t \in Topics, NEW n \in 1 .. MaxLength,
                                lost[t] < n, n <= committed'[t]
                         PROVE  log[t][n] \in IdsIn(t)'
                BY <3>1 DEF CommittedIsWritten
            <4>1. CASE t = u
                BY <1>2, <3>1, <3>3, <4>1 DEF Merged
            <4>2. CASE t # u
                BY <1>2, <3>2, <4>2 DEF CommittedIsWritten
            <4> QED BY <4>1, <4>2
        <3> QED BY <3>5, <3>6
    <2> QED BY <2>1, <2>2, <2>3
<1>7. ASSUME NEW u \in Topics, CreateView(u)
      PROVE  RawInv'
    <2> DEFINE view == {<<u, n>> : n \in committed[u] + 1 .. planned[u]}
    <2>1. /\ batch' = [batch EXCEPT ![u] = view]
          /\ query' = [query EXCEPT ![u] = "viewed"] /\ query[u] = "planned"
          /\ UNCHANGED <<log, started, driver, planned, committed, checkpoint, table, exists, lost,
                         failures>>
        BY <1>7 DEF CreateView, catalog
    <2>2. /\ committed[u] + 1 .. planned[u] \subseteq 1 .. MaxLength
          /\ planned[u] \in Nat /\ planned[u] <= Len(log[u])
        BY DEF TypeOK
    <2>3. view \subseteq Events
        BY <2>2 DEF Events
    <2>4. \A e \in view : e[1] = u /\ e[2] <= Len(log[u])
        <3>1. committed[u] \in Nat /\ Len(log[u]) \in Nat
            BY DEF TypeOK
        <3> QED BY <2>2, <3>1
    <2>5. \A n \in committed[u] + 1 .. planned[u] : <<u, n>> \in view
        OBVIOUS
    <2> HIDE DEF view
    <2>6. TypeOK'
        BY <2>1, <2>3 DEF TypeOK
    <2>7. Placed'
        BY <1>2, <2>1, <2>4 DEF Placed, TypeOK
    <2>8. Merged'
        BY <1>2, <2>1, <2>5 DEF Merged, TypeOK
    <2>9. NoEventTwice' /\ CommittedIsWritten'
        BY <1>2, <2>1 DEF NoEventTwice, CommittedIsWritten
    <2> QED BY <2>6, <2>7, <2>8, <2>9
<1>8. CASE UNCHANGED vars
    <2>1. UNCHANGED <<log, started, driver, query, planned, committed, checkpoint, batch,
                      table, exists, lost, failures>>
        BY <1>8 DEF vars, catalog
    <2>2. TypeOK' /\ NoEventTwice' /\ CommittedIsWritten'
        BY <1>2, <2>1 DEF TypeOK, NoEventTwice, CommittedIsWritten
    <2>3. Placed' /\ Merged'
        BY <1>2, <2>1 DEF Placed, Merged
    <2> QED BY <2>2, <2>3
<1>9. CASE \E t \in Topics :
                \/ Plan(t) \/ TriggerIdle(t) \/ CreateView(t) \/ MergeFails(t)
                \/ CommitBatch(t) \/ QueryFails(t)
    <2>1. \A t \in Topics : TriggerIdle(t) => UNCHANGED vars
        BY DEF TriggerIdle
    <2> HIDE DEF RawInv
    <2> QED BY <1>5, <1>6, <1>7, <1>8, <1>9, <2>1
<1>10. CASE Driver
    <2> HIDE DEF RawInv
    <2> QED BY <1>3, <1>4, <1>10 DEF Driver
<1> HIDE DEF RawInv
<1> QED BY <1>3, <1>8, <1>9, <1>10

LEMMA DropKeeps ==
    ASSUME RawInv, NEW u \in Topics, DropTable(u)
    PROVE  RawInv'
<1> USE BoundsAssumption DEF RawInv
<1> DEFINE empty == [e \in Events |-> 0]
<1>0. /\ table' = [table EXCEPT ![u] = empty]
      /\ exists' = [exists EXCEPT ![u] = FALSE]
      /\ lost' = [lost EXCEPT ![u] = IF query[u] = "merged" THEN planned[u] ELSE committed[u]]
      /\ failures' \in 0 .. MaxFailures
      /\ UNCHANGED <<log, started, driver, query, planned, committed, checkpoint, batch>>
    BY DEF DropTable, TypeOK
<1>1. \A t \in Topics : t # u => IdsIn(t)' = IdsIn(t) /\ Written(t)' = Written(t)
    BY <1>0 DEF TypeOK, IdsIn, Written, IdOf
<1>2. Written(u)' = {} /\ empty \in [Events -> {0}]
    BY <1>0 DEF TypeOK, Written
<1> HIDE DEF empty
<1>3. TypeOK'
    <2>1. table' \in [Topics -> [Events -> Nat]]
        BY <1>0, <1>2 DEF TypeOK
    <2>2. exists' \in [Topics -> BOOLEAN]
        BY <1>0 DEF TypeOK
    <2>3. lost' \in [Topics -> 0 .. MaxLength]
        BY <1>0 DEF TypeOK
    <2> QED BY <1>0, <2>1, <2>2, <2>3 DEF TypeOK
<1>4. NoEventTwice'
    BY <1>0, <1>2 DEF TypeOK, NoEventTwice
<1>5. Placed'
    BY <1>0, <1>1, <1>2 DEF Placed
<1>6. Merged'
    <2>1. Merged /\ \A t \in Topics : query'[t] = query[t] /\ planned'[t] = planned[t]
        BY <1>0
    <2>2. \A t \in Topics : t # u => lost'[t] = lost[t]
        BY <1>0 DEF TypeOK
    <2>3. query[u] = "merged" => lost'[u] = planned[u] /\ planned[u] \in Nat
        BY <1>0 DEF TypeOK
    <2>4. \A t \in Topics : query[t] = "merged" =>
              (\A n \in 1 .. planned[t] : lost'[t] < n => log[t][n] \in IdsIn(t)')
        <3> SUFFICES ASSUME NEW t \in Topics, query[t] = "merged",
                            NEW n \in 1 .. planned[t], lost'[t] < n
                     PROVE  log[t][n] \in IdsIn(t)'
            OBVIOUS
        <3>1. t # u
            BY <2>3
        <3> QED BY <1>1, <2>1, <2>2, <3>1 DEF Merged
    <2> QED BY <1>0, <2>1, <2>4 DEF Merged
<1>7. CommittedIsWritten'
    BY <1>0, <1>1 DEF TypeOK, CommittedIsWritten
<1> QED BY <1>3, <1>4, <1>5, <1>6, <1>7

\* The merge inserts what the table does not have, once, and has then every id
\* of the batch.
LEMMA MergeKeeps ==
    ASSUME RawInv, NEW u \in Topics, Merge(u)
    PROVE  RawInv'
<1> USE BoundsAssumption DEF RawInv
<1> DEFINE new == {e \in batch[u] : IdOf(e) \notin IdsIn(u)}
<1>1. /\ query[u] = "viewed"
      /\ table' = [table EXCEPT ![u] =
                    [e \in Events |-> table[u][e] + IF e \in new THEN 1 ELSE 0]]
      /\ query' = [query EXCEPT ![u] = "merged"]
      /\ UNCHANGED <<log, started, driver, planned, committed, checkpoint, batch, exists, lost,
                     failures>>
    BY DEF Merge, Inserts
<1>2. new \subseteq batch[u] /\ batch[u] \subseteq Events
    BY DEF TypeOK
<1>3. \A e \in new : e \in Events /\ table[u][e] = 0
    BY <1>2 DEF TypeOK, IdsIn, Written
<1>4. \A e \in batch[u] : IdOf(e) \in IdsIn(u) \/ e \in new
    OBVIOUS
<1> HIDE DEF new
<1>5. \A t \in Topics : t # u => IdsIn(t)' = IdsIn(t) /\ Written(t)' = Written(t)
    BY <1>1 DEF TypeOK, IdsIn, Written, IdOf
<1>6. Written(u)' = Written(u) \cup new
    BY <1>1, <1>2 DEF TypeOK, Written
<1>7. IdsIn(u) \subseteq IdsIn(u)' /\ \A e \in new : IdOf(e) \in IdsIn(u)'
    BY <1>1, <1>6 DEF IdsIn, IdOf
<1>8. TypeOK'
    BY <1>1 DEF TypeOK
<1>9. NoEventTwice'
    BY <1>1, <1>3 DEF TypeOK, NoEventTwice
<1>10. Placed'
    BY <1>1, <1>2, <1>5, <1>6 DEF Placed
<1>11. Merged'
    <2>1. \A n \in 1 .. planned[u] : lost[u] < n => log[u][n] \in IdsIn(u)'
        <3> SUFFICES ASSUME NEW n \in 1 .. planned[u], lost[u] < n
                     PROVE  log[u][n] \in IdsIn(u)'
            OBVIOUS
        <3>1. CASE n <= committed[u]
            BY <1>7, <3>1 DEF CommittedIsWritten, TypeOK
        <3>2. CASE n > committed[u]
            <4>1. <<u, n>> \in batch[u]
                BY <1>1, <3>2 DEF Merged, TypeOK
            <4>2. IdOf(<<u, n>>) = log[u][n]
                BY DEF IdOf
            <4> QED BY <1>4, <1>7, <4>1, <4>2
        <3> QED BY <3>1, <3>2 DEF TypeOK
    <2> QED BY <1>1, <1>5, <2>1 DEF Merged, TypeOK
<1>12. CommittedIsWritten'
    BY <1>1, <1>5, <1>7 DEF CommittedIsWritten
<1> QED BY <1>8, <1>9, <1>10, <1>11, <1>12

THEOREM RawInvariance == Spec => []RawInv
<1>1. Init => RawInv
    BY InitRaw
<1>2. RawInv /\ [Next]_vars => RawInv'
    BY PublishKeeps, RestKeeps, DropKeeps, MergeKeeps DEF Next, Query, Failure
<1> QED BY <1>1, <1>2, PTL DEF Spec

-----------------------------------------------------------------------------
(* The properties.                                                         *)

\* Every variable of the job keeps its type, and each checkpoint its order.
THEOREM RawTypes == Spec => []TypeOK
<1>1. RawInv => TypeOK
    BY DEF RawInv
<1> QED BY <1>1, RawInvariance, PTL

\* However often a batch is run again, no event is in a table twice.
THEOREM InsertedOnce == Spec => []NoEventTwice
<1>1. RawInv => NoEventTwice
    BY DEF RawInv
<1> QED BY <1>1, RawInvariance, PTL

\* A table holds events of its own topic, although all queries name their view
\* alike.
THEOREM OwnTable == Spec => []OwnEventsOnly
<1>1. RawInv => OwnEventsOnly
    BY DEF RawInv, Placed, OwnEventsOnly
<1> QED BY <1>1, RawInvariance, PTL

\* The id of every event up to the committed offset is in the table, save what
\* went with a dropped table: no failure commits a batch that is not merged.
THEOREM CommitFollowsMerge == Spec => []CommittedIsWritten
<1>1. RawInv => CommittedIsWritten
    BY DEF RawInv
<1> QED BY <1>1, RawInvariance, PTL

-----------------------------------------------------------------------------
(* Refinement of IngestedTable: a merge is an insert, a commit of a batch an *)
(* acknowledgement, and what the driver and the queries do besides is their *)
(* own affair.                                                             *)

\* A view holds nothing that was committed before: no merge brings back what a
\* dropped table has lost.
FreshView ==
    \A t \in Topics : query[t] = "viewed" => \A e \in batch[t] : committed[t] < e[2]

LEMMA ViewStaysFresh ==
    ASSUME RawInv, FreshView, [Next]_vars
    PROVE  FreshView'
<1> USE DEF catalog
<1>1. CASE \E t \in Topics, id \in Ids : Publish(t, id)
    BY <1>1 DEF Publish, FreshView
<1>2. CASE StartQuery
    <2> DEFINE u == NextQuery
    <2>1. u \in Topics
        BY <1>2, TopicOf DEF StartQuery, StartsNext, NextQuery, RawInv, TypeOK
    <2>2. PICK seen, done : Resume(u, seen, done)
        BY <1>2 DEF StartQuery
    <2>3. /\ committed' = [committed EXCEPT ![u] = done]
          /\ query' = [query EXCEPT ![u] = IF seen > done THEN "planned" ELSE "idle"]
          /\ UNCHANGED batch
        BY <2>2 DEF Resume
    <2> HIDE DEF u
    <2>4. \A t \in Topics : query'[t] = "viewed" =>
            query[t] = "viewed" /\ committed'[t] = committed[t]
        BY <2>1, <2>3 DEF RawInv, TypeOK
    <2> QED BY <2>3, <2>4 DEF FreshView
<1>3. CASE StartDriver \/ StartRefused \/ AwaitAnyTermination \/ DriverFails
    BY <1>3 DEF StartDriver, StartRefused, AwaitAnyTermination, DriverFails, Halt, FreshView
<1>4. CASE LoseCheckpoints
    BY <1>4 DEF LoseCheckpoints, FreshView
<1>5. ASSUME NEW t \in Topics, DropTable(t)
      PROVE  FreshView'
    BY <1>5 DEF DropTable, FreshView
<1>6. ASSUME NEW t \in Topics, CreateView(t)
      PROVE  FreshView'
    <2>1. \A e \in {<<t, n>> : n \in committed[t] + 1 .. planned[t]} : committed[t] < e[2]
        BY DEF RawInv, TypeOK
    <2> QED BY <1>6, <2>1 DEF CreateView, RawInv, TypeOK, FreshView
<1>7. ASSUME NEW t \in Topics,
             Plan(t) \/ TriggerIdle(t) \/ Merge(t) \/ MergeFails(t) \/ CommitBatch(t)
                \/ QueryFails(t)
      PROVE  FreshView'
    <2>1. /\ batch' = batch
          /\ \A u \in Topics : query'[u] = "viewed" =>
                query[u] = "viewed" /\ committed'[u] = committed[u]
        BY <1>7 DEF Plan, TriggerIdle, vars, Merge, Inserts, MergeFails, CommitBatch,
                    QueryFails, RawInv, TypeOK
    <2> QED BY <2>1 DEF FreshView
<1>8. CASE UNCHANGED vars
    BY <1>8 DEF vars, FreshView
<1> QED BY <1>1, <1>2, <1>3, <1>4, <1>5, <1>6, <1>7, <1>8 DEF Next, Driver, Query, Failure

LEMMA FreshInvariance == Spec => []FreshView
<1>1. Init => FreshView
    BY DEF Init, FreshView
<1>2. RawInv /\ FreshView /\ [Next]_vars => FreshView'
    BY ViewStaysFresh
<1> QED BY <1>1, <1>2, RawInvariance, PTL DEF Spec

\* The ids in a table are those its readers see.
LEMMA SameIds == \A t \in Topics : Table!IdsIn(t) = IdsIn(t)
BY DEF Table!IdsIn, IdsIn, Written, IdOf

\* A merge inserts new events of the topic, each once.
LEMMA MergeInserts ==
    ASSUME RawInv, FreshView, NEW t \in Topics, Merge(t)
    PROVE  Table!Next
<1> DEFINE new == {e \in batch[t] : IdOf(e) \notin IdsIn(t)}
<1>1. /\ query[t] = "viewed" /\ UNCHANGED <<log, committed, lost>>
      /\ table' = [table EXCEPT ![t] =
                    [e \in Events |-> table[t][e] + IF e \in new THEN 1 ELSE 0]]
    BY DEF Merge, Inserts
<1>2. new \in SUBSET Events
    BY DEF RawInv, TypeOK
<1>3. \A e \in new : /\ e[1] = t /\ committed[t] < e[2] /\ e[2] <= Len(log[t])
                     /\ log[t][e[2]] \notin Table!IdsIn(t)
    <2> SUFFICES ASSUME NEW e \in new
                 PROVE  /\ e[1] = t /\ committed[t] < e[2] /\ e[2] <= Len(log[t])
                        /\ log[t][e[2]] \notin Table!IdsIn(t)
        OBVIOUS
    <2>1. e[1] = t /\ e[2] <= Len(log[t])
        BY DEF RawInv, Placed
    <2>2. committed[t] < e[2]
        BY <1>1 DEF FreshView
    <2> QED BY <2>1, <2>2, SameIds DEF IdOf
<1>4. \A e \in new : table[t][e] = 0
    BY <1>2 DEF RawInv, TypeOK, IdsIn, Written
<1> HIDE DEF new
<1>5. [e \in Events |-> table[t][e] + IF e \in new THEN 1 ELSE 0]
        = [e \in Events |-> IF e \in new THEN 1 ELSE table[t][e]]
    BY <1>4 DEF RawInv, TypeOK
<1>6. Table!Insert(t, new)
    BY <1>1, <1>3, <1>5 DEF Table!Insert, RawInv, TypeOK
<1> QED BY <1>2, <1>6 DEF Table!Next

\* A batch is committed, or its table dropped, when its ids are in the table.
LEMMA CommitAcknowledges ==
    ASSUME RawInv, NEW t \in Topics, CommitBatch(t) \/ DropTable(t)
    PROVE  Table!Next
<1> DEFINE upto == IF query[t] = "merged" THEN planned[t] ELSE committed[t]
<1>1. /\ committed[t] \in Nat /\ planned[t] \in Nat /\ Len(log[t]) \in Nat
      /\ committed[t] <= planned[t] /\ planned[t] <= Len(log[t])
      /\ planned[t] <= MaxLength
    BY BoundsAssumption DEF RawInv, TypeOK
<1>2. upto \in 0 .. Len(log[t]) /\ committed[t] <= upto /\ upto <= Len(log[t])
    BY <1>1
<1>3. Table!Complete(t, upto)
    <2>1. \A n \in 1 .. upto : lost[t] < n => log[t][n] \in IdsIn(t)
        <3>1. CASE query[t] = "merged"
            BY <3>1 DEF RawInv, Merged
        <3>2. CASE query[t] # "merged"
            BY <1>1, <3>2, BoundsAssumption DEF RawInv, CommittedIsWritten
        <3> QED BY <3>1, <3>2
    <2> QED BY <2>1, SameIds DEF Table!Complete
<1> HIDE DEF upto
<1>4. CASE CommitBatch(t)
    <2>1. Table!Acknowledge(t, upto)
        BY <1>2, <1>3, <1>4 DEF CommitBatch, catalog, Table!Acknowledge, upto
    <2> QED BY <1>2, <2>1 DEF Table!Next
<1>5. CASE DropTable(t)
    <2>1. Table!Drop(t, upto)
        BY <1>2, <1>3, <1>5 DEF DropTable, Table!Drop, upto
    <2> QED BY <1>2, <2>1 DEF Table!Next
<1> QED BY <1>4, <1>5

\* A query that starts without a checkpoint reads its topic again; one that has a
\* checkpoint goes on.
LEMMA StartRewinds ==
    ASSUME RawInv, StartQuery
    PROVE  [Table!Next]_(Table!vars)
<1> DEFINE u == NextQuery
<1>1. u \in Topics
    BY TopicOf DEF StartQuery, StartsNext, NextQuery, RawInv, TypeOK
<1>2. CASE checkpoint[u] = "none" /\ Resume(u, 0, 0)
    <2>1. Table!Rewind(u)
        BY <1>2 DEF Resume, Table!Rewind
    <2> QED BY <1>1, <2>1 DEF Table!Next
<1>3. CASE checkpoint[u] = "whole" /\ Resume(u, planned[u], committed[u])
    <2>1. UNCHANGED <<log, table, committed, lost>>
        BY <1>1, <1>3 DEF Resume, RawInv, TypeOK
    <2> QED BY <2>1 DEF Table!vars
<1> QED BY <1>2, <1>3 DEF StartQuery

\* Every step of the job is one of the table, or none its readers see.
LEMMA IngestionRefines ==
    ASSUME RawInv, FreshView, [Next]_vars
    PROVE  [Table!Next]_(Table!vars)
<1>1. CASE \E t \in Topics, id \in Ids : Publish(t, id)
    <2>1. PICK t \in Topics, id \in Ids : Publish(t, id)
        BY <1>1
    <2>2. Table!Publish(t, id)
        BY <2>1 DEF Publish, catalog, Table!Publish
    <2> QED BY <2>2 DEF Table!Next
<1>2. CASE \E t \in Topics : Merge(t)
    BY <1>2, MergeInserts
<1>3. CASE \E t \in Topics : CommitBatch(t) \/ DropTable(t)
    BY <1>3, CommitAcknowledges
<1>4. CASE StartQuery
    BY <1>4, StartRewinds
<1>5. CASE UNCHANGED <<log, table, committed, lost>>
    BY <1>5 DEF Table!vars
<1> QED
    BY <1>1, <1>2, <1>3, <1>4, <1>5
    DEF Next, StartDriver, Driver, StartRefused, AwaitAnyTermination, Query, Plan,
        TriggerIdle, CreateView, MergeFails, Failure, DriverFails, LoseCheckpoints,
        QueryFails, catalog, vars

\* Whatever fails in it, the job keeps the promise of IngestedTable.
THEOREM IngestionRefinement == Spec => IngestsOnce
<1>1. Init => Table!Init
    BY DEF Init, Table!Init
<1>2. RawInv /\ FreshView /\ [Next]_vars => [Table!Next]_(Table!vars)
    BY IngestionRefines
<1> QED BY <1>1, <1>2, RawInvariance, FreshInvariance, PTL DEF Spec, IngestsOnce, Table!Spec

-----------------------------------------------------------------------------
\* While no id is published twice, what the README says is true.
IdsDiffer ==
    \A t \in Topics : \A m, n \in 1 .. Len(log[t]) : log[t][m] = log[t][n] => m = n

\* Only two events of one id can make two rows with it: for the topics whose
\* events have ids of their own the merge is the upsert it is said to be,
\* through failures, lost checkpoints and dropped tables.
THEOREM UpsertsDistinctIds == Spec => [](IdsDiffer => OneRowPerId)
<1>1. RawInv /\ IdsDiffer => OneRowPerId
    <2> SUFFICES ASSUME RawInv, IdsDiffer, NEW t \in Topics,
                        NEW e \in Written(t), NEW f \in Written(t), IdOf(e) = IdOf(f)
                 PROVE  e = f
        BY DEF OneRowPerId
    <2>1. /\ e \in Events /\ e[1] = t /\ e[2] <= Len(log[t])
          /\ f \in Events /\ f[1] = t /\ f[2] <= Len(log[t])
        BY DEF RawInv, Placed, Written
    <2>2. Len(log[t]) \in Nat
        BY DEF RawInv, TypeOK
    <2>3. e[2] \in 1 .. Len(log[t]) /\ f[2] \in 1 .. Len(log[t])
        BY <2>1, <2>2, BoundsAssumption DEF Events
    <2>4. e[2] = f[2]
        BY <2>1, <2>3 DEF IdsDiffer, IdOf
    <2> QED BY <2>1, <2>4 DEF Events
<1> QED BY <1>1, RawInvariance, PTL

=============================================================================
