----------------------- MODULE SimulateConsumerProofs -----------------------
(***************************************************************************)
(* Proofs about the load generator for any number of workers, any size of  *)
(* its queue and any records, those that cannot be deserialised included.  *)
(***************************************************************************)
EXTENDS SimulateConsumer, FiniteSetTheorems, TLAPS

Taken == {record[w] : w \in Busy} \cup requested
Bad == BadRecords \cap 1 .. position

\* A record is with one worker, and with none once it has been requested; the
\* one held by the Kafka thread is later than those in the queue, and they are in
\* order.
OneTaker ==
    /\ \A i, j \in 1 .. Len(event_queue) : i < j => event_queue[i] < event_queue[j]
    /\ \A r \in InQueue, h \in Held : r < h
    /\ \A v, w \in Busy : record[v] = record[w] => v = w
    /\ \A w \in Busy : record[w] \notin requested

SimInv == TypeOK /\ NothingLost /\ HandedOutInOrder /\ OneTaker

-----------------------------------------------------------------------------
LEMMA InitSim == Init => SimInv
<1> SUFFICES ASSUME Init PROVE SimInv
    OBVIOUS
<1>1. TypeOK
    <2>1. <<>> \in Seq(Records) /\ Len(<<>>) = 0
        OBVIOUS
    <2>2. MaxSize \in Nat /\ MaxRecords \in Nat
        BY MaxSizeAssumption, RecordsAssumption
    <2>3. /\ worker \in [Workers -> {"check", "get", "request", "stopped"}]
          /\ record \in [Workers -> 0 .. MaxRecords]
        BY <2>2 DEF Init
    <2>4. event_queue \in Seq(Records) /\ Len(event_queue) <= MaxSize
        BY <2>1, <2>2 DEF Init
    <2>5. stop_event \in BOOLEAN
        BY DEF Init
    <2>6. position \in 0 .. MaxRecords /\ unfinished \in Nat
        BY <2>2 DEF Init
    <2> QED BY <2>3, <2>4, <2>5, <2>6 DEF Init, TypeOK
<1>2. Busy = {} /\ InQueue = {} /\ Held = {} /\ 1 .. position = {}
    BY DEF Init, Busy, InQueue, Held
<1>3. NothingLost
    BY <1>2, FS_EmptySet DEF Init, NothingLost
<1>4. HandedOutInOrder /\ OneTaker
    BY <1>2 DEF Init, HandedOutInOrder, OneTaker
<1> QED BY <1>1, <1>3, <1>4 DEF SimInv

\* What is in the queue, held or taken has been polled.
LEMMA Polled ==
    ASSUME SimInv
    PROVE  /\ position \in Nat /\ Len(event_queue) \in Nat
           /\ \A r \in Held \cup InQueue \cup Taken : r \in 1 .. position
           /\ IsFiniteSet(Busy) /\ IsFiniteSet(requested) /\ IsFiniteSet(Bad)
           /\ IsFiniteSet(Held)
           /\ Cardinality(Busy) \in Nat /\ Cardinality(requested) \in Nat
           /\ Cardinality(Bad) \in Nat /\ Cardinality(Held) \in Nat
<1>1. position \in Nat /\ Len(event_queue) \in Nat
    BY RecordsAssumption DEF SimInv, TypeOK
<1>2. \A r \in Held \cup InQueue \cup Taken : r \in 1 .. position
    BY DEF SimInv, NothingLost, Taken
<1>3. IsFiniteSet(1 .. position)
    BY <1>1, FS_Interval
<1>4. IsFiniteSet(Busy)
    BY WorkersAssumption, FS_Subset DEF Busy
<1>5. requested \subseteq 1 .. position /\ Bad \subseteq 1 .. position
      /\ Held \subseteq 1 .. position
    BY <1>2 DEF Taken, Bad
<1>6. IsFiniteSet(requested) /\ IsFiniteSet(Bad) /\ IsFiniteSet(Held)
    BY <1>3, <1>5, FS_Subset
<1> QED BY <1>1, <1>2, <1>4, <1>6, FS_CardinalityType

\* Steps that move no record.
LEMMA IdleKeeps ==
    ASSUME SimInv,
           \/ ConsumerCheck \/ PollEmpty \/ Shutdown \/ UNCHANGED vars
           \/ \E w \in Workers : WorkerCheck(w) \/ GetEmpty(w)
    PROVE  SimInv'
<1>1. UNCHANGED <<position, event_queue, unfinished, record, requested>>
    BY DEF ConsumerCheck, PollEmpty, Shutdown, vars, WorkerCheck, GetEmpty
<1>2. Busy' = Busy
    BY DEF SimInv, TypeOK, Busy, ConsumerCheck, PollEmpty, Shutdown, vars, WorkerCheck, GetEmpty
<1>3. Held' = Held
    BY DEF Held, ConsumerCheck, PollEmpty, Shutdown, vars, WorkerCheck, GetEmpty
<1>4. InQueue' = InQueue
    BY <1>1 DEF InQueue
<1>5. TypeOK'
    BY DEF SimInv, TypeOK, ConsumerCheck, PollEmpty, Shutdown, vars, WorkerCheck, GetEmpty
<1>6. {record[w] : w \in Busy}' = {record[w] : w \in Busy}
    BY <1>1, <1>2
<1>7. NothingLost' /\ HandedOutInOrder' /\ OneTaker'
    BY <1>1, <1>2, <1>3, <1>4, <1>6 DEF SimInv, NothingLost, HandedOutInOrder, OneTaker
<1> QED BY <1>5, <1>7 DEF SimInv

\* The record polled is later than all before; it is held, or it is bad.
LEMMA PollKeeps ==
    ASSUME SimInv, Poll
    PROVE  SimInv'
<1>1. /\ position' = position + 1 /\ position' \in Records
      /\ Held = {}
      /\ Held' = IF position' \in BadRecords THEN {} ELSE {position'}
      /\ UNCHANGED <<stop_event, event_queue, unfinished, worker, record, requested>>
    BY RecordsAssumption DEF SimInv, TypeOK, Poll, Held, Records
<1>2. Busy' = Busy /\ InQueue' = InQueue /\ Taken' = Taken
    BY <1>1 DEF Busy, InQueue, Taken
<1>3. TypeOK'
    BY <1>1 DEF SimInv, TypeOK, Poll, Records
<1>4. 1 .. position' = (1 .. position) \cup {position'}
    BY <1>1, Polled
<1>5. Bad' = IF position' \in BadRecords THEN Bad \cup {position'} ELSE Bad
    BY <1>1, <1>4 DEF Bad
<1>6. position' \notin Bad
    BY <1>1, Polled DEF Bad
<1>7. NothingLost'
    <2>1. 1 .. position' = Held' \cup InQueue' \cup Taken' \cup Bad'
        BY <1>1, <1>2, <1>4, <1>5 DEF SimInv, NothingLost, Taken, Bad
    <2>2. Cardinality(Held) = 0 /\ Cardinality({position'}) = 1
        BY <1>1, FS_EmptySet, FS_Singleton
    <2>3. /\ Cardinality(Held') \in Nat /\ Cardinality(Bad') \in Nat
          /\ Cardinality(Held') + Cardinality(Bad') = Cardinality(Bad) + 1
        <3>1. CASE position' \in BadRecords
            <4>1. Held' = {} /\ Bad' = Bad \cup {position'}
                BY <1>1, <1>5, <3>1
            <4>2. Cardinality(Bad \cup {position'}) = Cardinality(Bad) + 1
                BY <1>6, Polled, FS_AddElement
            <4> QED BY <4>1, <4>2, <2>2, <1>1, Polled
        <3>2. CASE position' \notin BadRecords
            <4>1. Held' = {position'} /\ Bad' = Bad
                BY <1>1, <1>5, <3>2
            <4> QED BY <4>1, <2>2, Polled
        <3> QED BY <3>1, <3>2
    <2>4. Cardinality(Held) + Len(event_queue) + Cardinality(Busy)
            + Cardinality(requested) + Cardinality(Bad) = position
        BY DEF SimInv, NothingLost, Bad
    <2>5. Cardinality(Held') + Len(event_queue) + Cardinality(Busy)
            + Cardinality(requested) + Cardinality(Bad') = position'
        <3>1. position' = position + 1 /\ Cardinality(Held) = 0
            BY <1>1, <2>2
        <3>2. /\ Len(event_queue) \in Nat /\ Cardinality(Busy) \in Nat
              /\ Cardinality(requested) \in Nat /\ Cardinality(Bad) \in Nat
              /\ position \in Nat
            BY Polled
        <3> HIDE DEF SimInv
        <3> QED BY <2>3, <2>4, <3>1, <3>2, SMTT(30)
    <2> QED BY <1>1, <1>2, <2>1, <2>5 DEF SimInv, NothingLost, Taken, Bad
<1>8. HandedOutInOrder'
    <2>1. \A taken \in Taken : taken < position'
        BY <1>1, Polled DEF Taken
    <2> QED BY <1>1, <1>2, <2>1 DEF SimInv, HandedOutInOrder, Taken
<1>9. OneTaker'
    <2>1. \A r \in InQueue : r < position'
        BY <1>1, Polled
    <2> QED BY <1>1, <1>2, <2>1 DEF SimInv, OneTaker
<1> QED BY <1>3, <1>7, <1>8, <1>9 DEF SimInv

\* Put moves the record held into the queue ...
LEMMA PutMoves ==
    ASSUME SimInv, Put
    PROVE  Held = {position} /\ Held' = {} /\ InQueue' = InQueue \cup {position}
<1>1. /\ Held = {position} /\ Held' = {}
      /\ event_queue \in Seq(Records) /\ position \in Records
      /\ event_queue' = Append(event_queue, position)
    BY Polled DEF SimInv, TypeOK, Put, Held, Records
<1>2. /\ Len(event_queue') = Len(event_queue) + 1
      /\ \A i \in 1 .. Len(event_queue) : event_queue'[i] = event_queue[i]
      /\ event_queue'[Len(event_queue) + 1] = position
    BY <1>1
<1> QED BY <1>1, <1>2, Polled DEF InQueue

\* ... and Get the first of the queue to a worker.
LEMMA GetMoves ==
    ASSUME SimInv, NEW w \in Workers, Get(w)
    PROVE  /\ InQueue = InQueue' \cup {Head(event_queue)}
           /\ w \notin Busy /\ Busy' = Busy \cup {w}
           /\ {record[v] : v \in Busy}' =
                 {record[v] : v \in Busy} \cup {Head(event_queue)}
<1> DEFINE r == Head(event_queue)
<1>1. /\ w \notin Busy /\ Busy' = Busy \cup {w}
      /\ event_queue \in Seq(Records) /\ event_queue # <<>>
      /\ event_queue' = Tail(event_queue)
      /\ record' = [record EXCEPT ![w] = r]
      /\ record \in [Workers -> 0 .. MaxRecords] /\ Busy \subseteq Workers
    BY DEF SimInv, TypeOK, Get, Busy
<1>2. /\ Len(event_queue') = Len(event_queue) - 1 /\ Len(event_queue) \in Nat \ {0}
      /\ r = event_queue[1]
      /\ \A i \in 1 .. Len(event_queue) - 1 : event_queue'[i] = event_queue[i + 1]
    BY <1>1
<1> HIDE DEF r
<1>3. InQueue = InQueue' \cup {r}
    <2>1. \A s \in InQueue : s \in InQueue' \cup {r}
        <3> SUFFICES ASSUME NEW i \in 1 .. Len(event_queue), i # 1
                     PROVE  event_queue[i] \in InQueue'
            BY <1>2 DEF InQueue
        <3>1. i - 1 \in 1 .. Len(event_queue') /\ event_queue'[i - 1] = event_queue[i]
            BY <1>2
        <3> QED BY <3>1 DEF InQueue
    <2>2. \A s \in InQueue' \cup {r} : s \in InQueue
        <3>1. r \in InQueue
            BY <1>2 DEF InQueue
        <3>2. \A i \in 1 .. Len(event_queue') :
                 i + 1 \in 1 .. Len(event_queue) /\ event_queue'[i] = event_queue[i + 1]
            BY <1>2
        <3> QED BY <3>1, <3>2 DEF InQueue
    <2> QED BY <2>1, <2>2
<1>4. {record[v] : v \in Busy}' = {record[v] : v \in Busy} \cup {r}
    BY <1>1
<1> QED BY <1>1, <1>3, <1>4 DEF r

\* The record held goes to the end of the queue.
LEMMA PutKeeps ==
    ASSUME SimInv, Put
    PROVE  SimInv'
<1>1. /\ Held = {position} /\ Held' = {}
      /\ event_queue \in Seq(Records) /\ position \in Records
      /\ event_queue' = Append(event_queue, position)
      /\ Len(event_queue) < MaxSize
      /\ unfinished' = unfinished + 1
      /\ UNCHANGED <<stop_event, position, worker, record, requested>>
    BY Polled DEF SimInv, TypeOK, Put, Held, Records
<1>2. /\ event_queue' \in Seq(Records)
      /\ Len(event_queue') = Len(event_queue) + 1
      /\ \A i \in 1 .. Len(event_queue) : event_queue'[i] = event_queue[i]
      /\ event_queue'[Len(event_queue) + 1] = position
    BY <1>1
<1>3. InQueue' = InQueue \cup {position}
    BY PutMoves
<1>4. Busy' = Busy /\ Taken' = Taken /\ Bad' = Bad
    BY <1>1 DEF Busy, Taken, Bad
<1>5. TypeOK'
    BY <1>1, <1>2, MaxSizeAssumption DEF SimInv, TypeOK, Put
<1>6. NothingLost'
    <2>1. 1 .. position = Held' \cup InQueue' \cup Taken' \cup Bad'
        BY <1>1, <1>3, <1>4 DEF SimInv, NothingLost, Taken, Bad
    <2>2. Cardinality(Held) = 1 /\ Cardinality(Held') = 0
        <3>1. Cardinality({position}) = 1 /\ Cardinality({}) = 0
            BY FS_EmptySet, FS_Singleton
        <3> QED BY <1>1, <3>1
    <2>3. Cardinality(Held) + Len(event_queue) + Cardinality(Busy)
            + Cardinality(requested) + Cardinality(Bad) = position
        BY DEF SimInv, NothingLost, Bad
    <2>4. Cardinality(Held') + Len(event_queue') + Cardinality(Busy)
            + Cardinality(requested) + Cardinality(Bad) = position
        BY <1>2, <2>2, <2>3, Polled
    <2>5. unfinished' = Len(event_queue') + Cardinality(Busy)
        <3>1. unfinished' = unfinished + 1 /\ unfinished = Len(event_queue) + Cardinality(Busy)
            BY <1>1 DEF SimInv, NothingLost
        <3> QED BY <1>2, <3>1, Polled
    <2> QED BY <1>1, <1>4, <2>1, <2>4, <2>5 DEF NothingLost, Taken, Bad
<1>7. \A i \in 1 .. Len(event_queue) : event_queue[i] < position
    BY <1>1 DEF SimInv, OneTaker, InQueue
<1>8. \A i, j \in 1 .. Len(event_queue') : i < j => event_queue'[i] < event_queue'[j]
    <2> SUFFICES ASSUME NEW i \in 1 .. Len(event_queue'), NEW j \in 1 .. Len(event_queue'),
                        i < j
                 PROVE  event_queue'[i] < event_queue'[j]
        OBVIOUS
    <2>1. i \in 1 .. Len(event_queue)
        BY <1>2, Polled
    <2>2. CASE j = Len(event_queue) + 1
        BY <1>2, <1>7, <2>1, <2>2
    <2>3. CASE j \in 1 .. Len(event_queue)
        BY <1>2, <2>1, <2>3 DEF SimInv, OneTaker
    <2> QED BY <1>2, <2>2, <2>3, Polled
<1>10. HandedOutInOrder'
    <2>2. \A i \in 1 .. Len(event_queue') - 1 : event_queue'[i] < event_queue'[i + 1]
        BY <1>2, <1>8, Polled
    <2>3. \A waiting \in InQueue' \cup Held' : \A taken \in Taken' : taken < waiting
        BY <1>1, <1>3, <1>4 DEF SimInv, HandedOutInOrder, Taken
    <2> QED BY <2>2, <2>3 DEF HandedOutInOrder, Taken
<1>9. OneTaker'
    BY <1>1, <1>4, <1>8 DEF SimInv, OneTaker
<1> QED BY <1>5, <1>6, <1>10, <1>9 DEF SimInv

\* The first record of the queue, earlier than all that wait, goes to a worker.
LEMMA GetKeeps ==
    ASSUME SimInv, NEW w \in Workers, Get(w)
    PROVE  SimInv'
<1> DEFINE r == Head(event_queue)
<1>1. /\ w \notin Busy /\ Busy' = Busy \cup {w}
      /\ event_queue \in Seq(Records) /\ event_queue # <<>>
      /\ event_queue' = Tail(event_queue)
      /\ record' = [record EXCEPT ![w] = r]
      /\ record \in [Workers -> 0 .. MaxRecords] /\ Busy \subseteq Workers
      /\ Held' = Held /\ Bad' = Bad
      /\ UNCHANGED <<stop_event, position, consumer, unfinished, requested>>
    BY DEF SimInv, TypeOK, Get, Busy, Held, Bad
<1>2. /\ event_queue' \in Seq(Records)
      /\ Len(event_queue') = Len(event_queue) - 1 /\ Len(event_queue) \in Nat \ {0}
      /\ r \in Records /\ r = event_queue[1]
      /\ \A i \in 1 .. Len(event_queue) - 1 : event_queue'[i] = event_queue[i + 1]
    BY <1>1
<1> HIDE DEF r
<1>3. InQueue = InQueue' \cup {r}
    BY GetMoves DEF r
<1>4. {record[v] : v \in Busy}' = {record[v] : v \in Busy} \cup {r}
    BY GetMoves DEF r
<1>5. TypeOK'
    BY <1>1, <1>2, MaxSizeAssumption DEF SimInv, TypeOK, Get, Records
<1>6. NothingLost'
    <2>1. 1 .. position = Held' \cup InQueue' \cup {record[v] : v \in Busy}'
                            \cup requested \cup Bad
        BY <1>1, <1>3, <1>4 DEF SimInv, NothingLost, Bad
    <2>2. Cardinality(Busy') = Cardinality(Busy) + 1
        BY <1>1, Polled, FS_AddElement
    <2>3. Cardinality(Held) + Len(event_queue) + Cardinality(Busy)
            + Cardinality(requested) + Cardinality(Bad) = position
        BY DEF SimInv, NothingLost, Bad
    <2>4. Cardinality(Held) + Len(event_queue') + Cardinality(Busy')
            + Cardinality(requested) + Cardinality(Bad) = position
        BY <1>2, <2>2, <2>3, Polled
    <2>5. unfinished = Len(event_queue') + Cardinality(Busy')
        BY <1>2, <2>2, Polled DEF SimInv, NothingLost
    <2> QED BY <1>1, <2>1, <2>4, <2>5 DEF NothingLost, Bad
<1>7. \A s \in InQueue' : r < s
    <2> SUFFICES ASSUME NEW i \in 1 .. Len(event_queue')
                 PROVE  r < event_queue'[i]
        BY DEF InQueue
    <2>1. i + 1 \in 1 .. Len(event_queue) /\ 1 \in 1 .. Len(event_queue)
          /\ event_queue'[i] = event_queue[i + 1] /\ 1 < i + 1
        BY <1>2
    <2> QED BY <1>2, <2>1 DEF SimInv, OneTaker
<1>10. \A i, j \in 1 .. Len(event_queue') : i < j => event_queue'[i] < event_queue'[j]
    <2> SUFFICES ASSUME NEW i \in 1 .. Len(event_queue'), NEW j \in 1 .. Len(event_queue'),
                        i < j
                 PROVE  event_queue'[i] < event_queue'[j]
        OBVIOUS
    <2>1. /\ i + 1 \in 1 .. Len(event_queue) /\ j + 1 \in 1 .. Len(event_queue) /\ i + 1 < j + 1
          /\ event_queue'[i] = event_queue[i + 1] /\ event_queue'[j] = event_queue[j + 1]
        BY <1>2
    <2> QED BY <2>1 DEF SimInv, OneTaker
<1>8. HandedOutInOrder'
    <2>1. \A i \in 1 .. Len(event_queue') - 1 : event_queue'[i] < event_queue'[i + 1]
        BY <1>2, <1>10
    <2>2. \A s \in InQueue' \cup Held' : r < s
        BY <1>1, <1>3, <1>7 DEF SimInv, OneTaker
    <2>3. \A s \in InQueue' \cup Held' :
             \A taken \in {record[v] : v \in Busy}' \cup requested : taken < s
        BY <1>1, <1>3, <1>4, <2>2 DEF SimInv, HandedOutInOrder
    <2> QED BY <1>1, <2>1, <2>3 DEF HandedOutInOrder
<1>9. OneTaker'
    <2>1. \A s \in {record[v] : v \in Busy} \cup requested : s < r /\ s # r
        <3>1. r \in InQueue
            BY <1>3
        <3>2. r \in Nat /\ \A s \in Taken : s \in Nat
            BY <3>1, Polled
        <3>3. \A s \in Taken : s < r
            <4>1. HandedOutInOrder
                BY DEF SimInv
            <4> QED BY <3>1, <4>1 DEF HandedOutInOrder, Taken
        <3> QED BY <3>2, <3>3 DEF Taken
    <2>2. \A v \in Busy : record'[v] = record[v] /\ record[v] # r
        BY <1>1, <2>1
    <2>3. record'[w] = r /\ r \notin requested
        BY <1>1, <2>1
    <2> QED BY <1>1, <1>3, <1>10, <2>2, <2>3 DEF SimInv, OneTaker
<1> QED BY <1>5, <1>6, <1>8, <1>9 DEF SimInv

\* The record is requested, for the first time, and the worker is free.
LEMMA RequestKeeps ==
    ASSUME SimInv, NEW w \in Workers, Request(w)
    PROVE  SimInv'
<1>1. /\ w \in Busy /\ Busy' = Busy \ {w}
      /\ requested' = requested \cup {record[w]}
      /\ record[w] \notin requested
      /\ unfinished' = unfinished - 1
      /\ Held' = Held /\ Bad' = Bad /\ InQueue' = InQueue
      /\ UNCHANGED <<stop_event, position, consumer, event_queue, record>>
    BY DEF SimInv, TypeOK, OneTaker, Request, Busy, Held, Bad, InQueue
<1>2. {record[v] : v \in Busy'} \cup requested' = Taken
    BY <1>1 DEF Taken
<1>3. /\ Cardinality(Busy') = Cardinality(Busy) - 1
      /\ Cardinality(Busy) \in Nat \ {0}
      /\ Cardinality(requested') = Cardinality(requested) + 1
    <2>1. Cardinality(Busy') = Cardinality(Busy) - 1
        BY <1>1, Polled, FS_RemoveElement
    <2>2. Cardinality(Busy) # 0
        BY <1>1, Polled, FS_EmptySet
    <2>3. Cardinality(requested') = Cardinality(requested) + 1
        BY <1>1, Polled, FS_AddElement
    <2> QED BY <2>1, <2>2, <2>3, Polled
<1>4. TypeOK'
    <2>1. record[w] \in Records
        BY <1>1, Polled DEF Taken, SimInv, TypeOK, Records
    <2>2. unfinished' \in Nat
        <3>1. unfinished = Len(event_queue) + Cardinality(Busy) /\ unfinished' = unfinished - 1
            BY <1>1 DEF SimInv, NothingLost
        <3>2. Len(event_queue) \in Nat /\ Cardinality(Busy) \in Nat \ {0}
            BY <1>3, Polled
        <3> HIDE DEF SimInv
        <3> QED BY <3>1, <3>2
    <2>3. /\ requested' \subseteq Records
          /\ worker' = [worker EXCEPT ![w] = "check"]
        BY <1>1, <2>1 DEF SimInv, TypeOK, Request
    <2>4. worker' \in [Workers -> {"check", "get", "request", "stopped"}]
        BY <2>3 DEF SimInv, TypeOK
    <2> QED BY <1>1, <2>2, <2>3, <2>4 DEF SimInv, TypeOK
<1>5. NothingLost'
    <2>1. Cardinality(Held) + Len(event_queue) + Cardinality(Busy)
            + Cardinality(requested) + Cardinality(Bad) = position
        BY DEF SimInv, NothingLost, Bad
    <2>2. Cardinality(Held) + Len(event_queue) + Cardinality(Busy')
            + Cardinality(requested') + Cardinality(Bad) = position
        BY <1>3, <2>1, Polled
    <2>3. unfinished' = Len(event_queue) + Cardinality(Busy')
        BY <1>1, <1>3, Polled DEF SimInv, NothingLost
    <2>4. 1 .. position = Held \cup InQueue \cup Taken \cup Bad
        BY DEF SimInv, NothingLost, Taken, Bad
    <2> QED BY <1>1, <1>2, <2>2, <2>3, <2>4 DEF NothingLost, Bad
<1>6. HandedOutInOrder'
    BY <1>1, <1>2 DEF SimInv, HandedOutInOrder, Taken
<1>7. OneTaker'
    BY <1>1 DEF SimInv, OneTaker
<1> QED BY <1>4, <1>5, <1>6, <1>7 DEF SimInv

THEOREM SimInvariance == Spec => []SimInv
<1>1. Init => SimInv
    BY InitSim
<1>2. SimInv /\ [Next]_vars => SimInv'
    BY IdleKeeps, PollKeeps, PutKeeps, GetKeeps, RequestKeeps
       DEF Next, ConsumerStep, WorkerStep
<1> QED BY <1>1, <1>2, PTL DEF Spec

-----------------------------------------------------------------------------
(* The properties.                                                         *)

\* Every variable of the load generator keeps its type, and the queue its size.
THEOREM SimTypes == Spec => []TypeOK
<1>1. SimInv => TypeOK
    BY DEF SimInv
<1> QED BY <1>1, SimInvariance, PTL

\* Every record polled is in one place until its features are requested, and
\* the queue's count of unfinished records agrees.
THEOREM EveryRecordKept == Spec => []NothingLost
<1>1. SimInv => NothingLost
    BY DEF SimInv
<1> QED BY <1>1, SimInvariance, PTL

\* Records reach the workers in the order in which they were polled.
THEOREM InOrder == Spec => []HandedOutInOrder
<1>1. SimInv => HandedOutInOrder
    BY DEF SimInv
<1> QED BY <1>1, SimInvariance, PTL

-----------------------------------------------------------------------------
(* Refinement: a record is accepted when it is polled, and in the log when *)
(* its features have been requested.                                       *)

Waiting == Held \cup InQueue \cup {record[w] : w \in Busy}

\* A step polls a record, requests one that waits, or moves one between the
\* places where it waits.
LEMMA Moves ==
    ASSUME SimInv, [Next]_vars
    PROVE  \/ /\ position' = position + 1 /\ requested' = requested
              /\ Waiting' = Waiting \cup ({position'} \ BadRecords)
           \/ /\ position' = position
              /\ \E r \in Waiting : /\ requested' = requested \cup {r}
                                    /\ Waiting' = Waiting \ {r}
           \/ UNCHANGED <<position, requested>> /\ Waiting' = Waiting
<1>1. CASE Poll
    <2>1. /\ position' = position + 1 /\ requested' = requested
          /\ Held = {} /\ Held' = {position'} \ BadRecords
          /\ UNCHANGED <<event_queue, worker, record>>
        BY <1>1 DEF Poll, Held
    <2>2. Busy' = Busy /\ InQueue' = InQueue
        BY <2>1 DEF Busy, InQueue
    <2> QED BY <2>1, <2>2 DEF Waiting
<1>2. CASE Put
    <2>1. Busy' = Busy /\ UNCHANGED <<position, requested, record>>
        BY <1>2 DEF Put, Busy
    <2> QED BY <1>2, <2>1, PutMoves DEF Waiting
<1>3. ASSUME NEW w \in Workers, Get(w)
      PROVE  UNCHANGED <<position, requested>> /\ Waiting' = Waiting
    <2>1. Held' = Held /\ UNCHANGED <<position, requested>>
        BY <1>3 DEF Get, Held
    <2> QED BY <1>3, <2>1, GetMoves DEF Waiting
<1>4. ASSUME NEW w \in Workers, Request(w)
      PROVE  \E r \in Waiting : /\ requested' = requested \cup {r}
                               /\ Waiting' = Waiting \ {r}
                               /\ position' = position
    <2>1. /\ w \in Busy /\ Busy' = Busy \ {w}
          /\ requested' = requested \cup {record[w]}
          /\ Held' = Held /\ InQueue' = InQueue /\ UNCHANGED <<position, record>>
        BY <1>4 DEF SimInv, TypeOK, Request, Busy, Held, InQueue
    <2>2. \A v \in Busy : record[v] = record[w] => v = w
        BY <2>1 DEF SimInv, OneTaker
    <2>3. record[w] \notin Held \cup InQueue
        <3>1. \A s \in InQueue \cup Held : record[w] < s
            BY <2>1 DEF SimInv, HandedOutInOrder
        <3>2. record[w] \in Nat
            BY <2>1, Polled DEF Taken
        <3> QED BY <3>1, <3>2
    <2>4. Waiting' = Waiting \ {record[w]} /\ record[w] \in Waiting
        BY <2>1, <2>2, <2>3 DEF Waiting
    <2> QED BY <2>1, <2>4
<1>5. CASE ConsumerCheck \/ PollEmpty \/ Shutdown \/ UNCHANGED vars
           \/ \E w \in Workers : WorkerCheck(w) \/ GetEmpty(w)
    <2>1. UNCHANGED <<position, event_queue, record, requested>>
        BY <1>5 DEF ConsumerCheck, PollEmpty, Shutdown, vars, WorkerCheck, GetEmpty
    <2>2. Busy' = Busy /\ Held' = Held /\ InQueue' = InQueue
        BY <1>5, <2>1
        DEF SimInv, TypeOK, Busy, Held, InQueue, ConsumerCheck, PollEmpty,
            Shutdown, vars, WorkerCheck, GetEmpty
    <2> QED BY <2>1, <2>2 DEF Waiting
<1> QED BY <1>1, <1>2, <1>3, <1>4, <1>5 DEF Next, ConsumerStep, WorkerStep

\* A record that cannot be deserialised never waits.
GoodOnly == Waiting \cap BadRecords = {}

LEMMA StepAcceptsOrAppends ==
    ASSUME SimInv, GoodOnly, [Next]_vars
    PROVE  /\ GoodOnly'
           /\ [Log!Accept \/ \E n \in Waiting \cup Bad : Log!Append(n)]_(Log!vars)
<1>1. Bad \cup Waiting = Held \cup InQueue \cup {record[w] : w \in Busy}
                           \cup (BadRecords \cap 1 .. position)
    BY DEF Bad, Waiting
<1>2. (Bad \cup Waiting)' = (Held \cup InQueue \cup {record[w] : w \in Busy}
                              \cup (BadRecords \cap 1 .. position))'
    BY DEF Bad, Waiting
<1>3. CASE /\ position' = position + 1 /\ requested' = requested
           /\ Waiting' = Waiting \cup ({position'} \ BadRecords)
    <2>1. Bad' = Bad \cup ({position'} \cap BadRecords)
        <3>1. 1 .. position' = (1 .. position) \cup {position'}
            BY <1>3, Polled
        <3> QED BY <3>1 DEF Bad
    <2>2. Log!Accept
        BY <1>1, <1>2, <1>3, <2>1 DEF Log!Accept
    <2> QED BY <1>3, <2>2 DEF GoodOnly
<1>4. CASE /\ position' = position
           /\ \E r \in Waiting : /\ requested' = requested \cup {r}
                                 /\ Waiting' = Waiting \ {r}
    <2>1. PICK r \in Waiting : /\ requested' = requested \cup {r}
                              /\ Waiting' = Waiting \ {r}
        BY <1>4
    <2>2. Bad' = Bad /\ r \notin Bad
        BY <1>4 DEF Bad, GoodOnly
    <2>3. Log!Append(r)
        BY <1>1, <1>2, <1>4, <2>1, <2>2 DEF Log!Append
    <2> QED BY <2>1, <2>3 DEF GoodOnly
<1>5. CASE UNCHANGED <<position, requested>> /\ Waiting' = Waiting
    BY <1>1, <1>2, <1>5 DEF Bad, GoodOnly, Log!vars
<1> QED BY <1>3, <1>4, <1>5, Moves

\* Every record is requested at most once, and none is dropped on the way from
\* the topic, by whatever number of workers and wherever the signal finds them.
THEOREM SimRefinement == Spec => RequestedOnce
<1>1. Init => GoodOnly /\ Log!Init
    <2>1. ASSUME Init
          PROVE  Waiting = {} /\ Bad = {} /\ requested = {} /\ position = 0
        BY <2>1 DEF Init, Waiting, Held, InQueue, Busy, Bad
    <2> QED BY <2>1 DEF GoodOnly, Log!Init, Waiting, Bad
<1>2. SimInv /\ GoodOnly /\ [Next]_vars =>
        /\ GoodOnly'
        /\ [Log!Accept \/ \E n \in Held \cup InQueue \cup {record[w] : w \in Busy}
                                     \cup (BadRecords \cap 1 .. position) :
                             Log!Append(n)]_(Log!vars)
    BY StepAcceptsOrAppends DEF Waiting, Bad
<1> QED BY <1>1, <1>2, SimInvariance, PTL DEF Spec, RequestedOnce, Log!Lossless

=============================================================================
