---------------------------- MODULE FeatureStore ----------------------------
(***************************************************************************)
(* The feature store (images/feature_store, main.py and pinot.py): a       *)
(* request for a feature is one query to Pinot, a request for a feature    *)
(* set one task per feature in a TaskGroup.  It is composed with the job   *)
(* that provisions Pinot's tables and with Pinot's reading of the topics,  *)
(* each table at its own pace.  A record stands for its values by its      *)
(* place in the topic; all clocks are one.                                 *)
(***************************************************************************)
EXTENDS ProvisionPinot, Integers, Sequences, Functions

CONSTANTS
    Topic,      \* what the topic of each configured table gets, in order
    Keys,       \* the entity_keys of the requests: functions on some Columns
    Window,     \* the six hours the withdrawals are counted for
    MaxTime     \* bound: how far the clock goes

Columns == {"account_id", "card_id"}

\* The set transactions_6h; each feature reads the table of its name.
Features == {"payment_6h_batch", "atm_withdrawal"}
entities == [f \in Features |->
                IF f = "payment_6h_batch" THEN Columns ELSE {"card_id"}]

\* The query of the withdrawals is a GROUP BY over the records of the window;
\* that of the batch feature selects the records of an upsert table.
Grouped == {"atm_withdrawal"}
Upserted == {"payment_6h_batch"}

\* A group, and the primaryKeyColumns.
KeyOf(r) == [c \in Columns |-> r[c]]

ASSUME FeaturesAssumption == Features \subseteq Configured
ASSUME TopicAssumption ==
    \A f \in Features :
        /\ Topic[f] \in Seq(Range(Topic[f]))
        /\ \A r \in Range(Topic[f]) : r.at \in Int  \* window_start or timestamp
ASSUME KeysAssumption == \A k \in Keys : DOMAIN k \subseteq Columns
ASSUME TimeAssumption == Window \in Nat /\ MaxTime \in Nat

\* What the generator guarantees (CardDeterminesGroup): a card has one
\* account, in all topics.
ASSUME CardAssumption ==
    \A r, s \in UNION {Range(Topic[f]) : f \in Features} :
        r["card_id"] = s["card_id"] => KeyOf(r) = KeyOf(s)

VARIABLES
    ingested,  \* how much of its topic each table has read
    rows,      \* the records each table holds, by their places in the topic
    now,       \* the time
    request,   \* the entity_keys of the request, and of a 200
    asked,     \* the features asked for; a feature set asks for all
    status,    \* of each task: "none", "sent", "cancelled" or as answered
    result,    \* the row of each task that has one
    answer,    \* the status of the response; "none" while there is none
    seen       \* history: what the queries would have found at the request

pinotVars == <<ingested, rows, now>>
requestVars == <<request, asked, status, result, answer, seen>>
storeVars == <<pinotVars, requestVars>>
vars == <<provisionVars, storeVars>>

NoKeys == <<>>

StoreInit ==
    /\ Init
    /\ ingested = [f \in Features |-> 0]
    /\ rows = [f \in Features |-> {}]
    /\ now = 0
    /\ request = NoKeys
    /\ asked = {}
    /\ status = [f \in Features |-> "none"]
    /\ result = <<>>
    /\ answer = "404"
    /\ seen = [f \in Features |-> {}]

-----------------------------------------------------------------------------
(* Pinot.                                                                  *)

Tick ==
    /\ now < MaxTime
    /\ now' = now + 1
    /\ UNCHANGED <<provisionVars, ingested, rows, requestVars>>

\* The places of the topic that are filled by now: a record is produced at its
\* time or later.
Written(f) ==
    {n \in 1 .. Len(Topic[f]) : \A m \in 1 .. n : Topic[f][m].at <= now}

\* The records of the table with the key of record n.
SameKey(f, n) == {m \in rows[f] : KeyOf(Topic[f][m]) = KeyOf(Topic[f][n])}

\* A table reads its next record, which leaves it with the records held.
Read(f, n, held) ==
    /\ tables[f] # "none"
    /\ n = ingested[f] + 1 /\ n \in Written(f)
    /\ ingested' = [ingested EXCEPT ![f] = n]
    /\ rows' = [rows EXCEPT ![f] = held]
    /\ UNCHANGED <<provisionVars, now, requestVars>>

\* Mutant: the batch table has no upsertConfig.
IngestAppends(f) ==
    LET n == ingested[f] + 1
    IN  Read(f, n, rows[f] \cup {n})

\* Mutant: without a comparison column the last record wins.
IngestLast(f) ==
    LET n == ingested[f] + 1
    IN  Read(f, n, IF f \in Upserted THEN (rows[f] \ SameKey(f, n)) \cup {n}
                   ELSE rows[f] \cup {n})

\* upsertConfig FULL with comparisonColumns window_start: a record replaces the
\* one of its key unless that is newer.
Ingest(f) ==
    LET n == ingested[f] + 1
        newer == \E m \in SameKey(f, n) : Topic[f][m].at > Topic[f][n].at
    IN  Read(f, n, IF f \notin Upserted THEN rows[f] \cup {n}
                   ELSE IF newer THEN rows[f]
                   ELSE (rows[f] \ SameKey(f, n)) \cup {n})

\* The WHERE clause of a query sent now.
Matches(f, n, keys) ==
    /\ \A c \in entities[f] : Topic[f][n][c] = keys[c]
    /\ f \in Grouped => Topic[f][n].at >= now - Window

Found(f, keys) == {n \in rows[f] : Matches(f, n, keys)}

\* The rows a query returns, with the records each is made of.
Rows(f, keys) ==
    {[key |-> KeyOf(Topic[f][n]),
      from |-> IF f \in Grouped
               THEN {m \in Found(f, keys) : KeyOf(Topic[f][m]) = KeyOf(Topic[f][n])}
               ELSE {n}] : n \in Found(f, keys)}

\* The status get_features gives for a query answered now.
StatusOf(f, keys) ==
    IF tables[f] = "none" THEN "500"     \* PinotQueryError is not caught
    ELSE CASE Cardinality(Rows(f, keys)) = 0 -> "404"
           [] Cardinality(Rows(f, keys)) = 1 -> "200"
           [] OTHER -> "ambiguous"       \* a 500 of its own

-----------------------------------------------------------------------------
(* Requests.                                                               *)

InSet == asked = Features

\* A request for a feature or for the set; a task that misses an entity
\* raises 400 before its query.
Ask(keys, fs) ==
    /\ answer # "none"
    /\ request' = keys /\ asked' = fs
    /\ answer' = "none"
    /\ result' = <<>>
    /\ seen' = [f \in Features |->
                    IF f \in fs /\ entities[f] \subseteq DOMAIN keys
                    THEN Found(f, keys) ELSE {}]
    /\ LET missing == {f \in fs : ~ entities[f] \subseteq DOMAIN keys}
       IN  status' = [f \in Features |->
                        IF f \notin fs THEN "none"
                        ELSE IF f \in missing THEN "400"
                        ELSE IF missing # {} THEN "cancelled" ELSE "sent"]
    /\ UNCHANGED <<provisionVars, pinotVars>>

\* An exception of a task makes the TaskGroup cancel the others.
Raises(f, s) ==
    /\ status' = [g \in Features |-> IF g = f THEN s
                                     ELSE IF status[g] = "sent" THEN "cancelled"
                                     ELSE status[g]]
    /\ seen' = [g \in Features |-> {}]

\* Pinot answers, or does not within five seconds, or with an error.
Respond(f) ==
    /\ status[f] = "sent"
    /\ LET s == StatusOf(f, request)
       IN  \/ /\ s = "200"
              /\ status' = [status EXCEPT ![f] = s]
              /\ result' = [g \in DOMAIN result \cup {f} |->
                                IF g = f THEN CHOOSE r \in Rows(f, request) : TRUE
                                ELSE result[g]]
              /\ UNCHANGED seen
           \/ s # "200" /\ Raises(f, s) /\ UNCHANGED result
           \/ Raises(f, "500") /\ UNCHANGED result
    /\ UNCHANGED <<provisionVars, pinotVars, request, asked, answer>>

\* The response is sent and the tasks are gone; only a 200 says more than its
\* status.
Returns(s) ==
    /\ answer' = s
    /\ status' = [f \in Features |-> "none"]
    /\ IF s = "200" THEN UNCHANGED <<request, asked, result, seen>>
       ELSE /\ request' = NoKeys /\ asked' = {} /\ result' = <<>>
            /\ seen' = [f \in Features |-> {}]
    /\ UNCHANGED <<provisionVars, pinotVars>>

\* Mutant: the features that have no row are left out of the answer.
AnswerWithWhatThereIs ==
    /\ answer = "none"
    /\ \A f \in asked : status[f] # "sent"
    /\ Returns(IF \E f \in asked : status[f] = "200" THEN "200" ELSE "500")

\* The TaskGroup waits for all its tasks; whatever a task raised becomes an
\* ExceptionGroup and a 500.  A feature alone answers with its own status.
Answer ==
    /\ answer = "none"
    /\ \A f \in asked : status[f] # "sent"
    /\ Returns(IF InSet
               THEN IF \A f \in asked : status[f] = "200" THEN "200" ELSE "500"
               ELSE status[CHOOSE f \in asked : TRUE])

-----------------------------------------------------------------------------
Requests ==
    \/ \E keys \in Keys, fs \in {{f} : f \in Features} \cup {Features} : Ask(keys, fs)
    \/ \E f \in Features : Respond(f)
    \/ Answer

StoreNext ==
    \/ Provision /\ UNCHANGED storeVars
    \/ \E f \in Features : Ingest(f)
    \/ Tick
    \/ Requests

StoreSpec == StoreInit /\ [][StoreNext]_vars

\* The job's pod is restarted within its limit, tables read on, and the client's
\* timeout ends a query that Pinot does not answer.
Fairness ==
    /\ WF_vars(Job /\ UNCHANGED storeVars)
    /\ \A f \in Features : WF_vars(Ingest(f)) /\ WF_vars(Respond(f))
    /\ WF_vars(Answer)

FairSpec == StoreSpec /\ Fairness

-----------------------------------------------------------------------------
(* Properties.                                                             *)

Statuses == {"200", "400", "404", "500", "ambiguous"}

\* Every variable keeps its type; a table holds what it has read of its topic,
\* and nothing while it does not exist.
TypeOK ==
    /\ ProvisionTypeOK
    /\ ingested \in [Features -> Nat]
    /\ rows \in [Features -> SUBSET Nat] /\ seen \in [Features -> SUBSET Nat]
    /\ \A f \in Features :
        /\ ingested[f] \in 0 .. Len(Topic[f])
        /\ rows[f] \subseteq 1 .. ingested[f]
        /\ seen[f] \subseteq 1 .. ingested[f]
        /\ tables[f] = "none" => ingested[f] = 0
    /\ now \in 0 .. MaxTime
    /\ request \in Keys \cup {NoKeys}
    /\ asked \subseteq Features
    /\ status \in [Features -> {"none", "sent", "cancelled"} \cup Statuses]
    /\ DOMAIN result \subseteq asked
    /\ answer \in {"none"} \cup Statuses

\* In a set that is answered with 200 every feature has a row, and every row
\* is about the entities asked for: also the account of the withdrawals,
\* which their query does not filter by, when the request names another one.
AnswerAboutAsked ==
    answer = "200" /\ InSet =>
        \A f \in Features :
            f \in DOMAIN result /\ result[f].key = [c \in Columns |-> request[c]]

\* No query returns two rows for one entity, although the batch feature's query
\* has neither a GROUP BY nor a LIMIT and its topic gets a card again and again:
\* the table's upsert keeps one record of a key, and a card has one account.
NeverAmbiguous == \A f \in Features : status[f] # "ambiguous"

\* What an answer shows is no older than its request, although its queries run
\* at different times and the tables read on meanwhile: the batch row is of no
\* earlier window than the one that was there, and no withdrawal that was
\* counted then is missing unless it has left the window since.
AnswerIsCurrent ==
    answer = "200" =>
        \A f \in asked : \A n \in seen[f] :
            IF f \in Grouped
            THEN n \in result[f].from \/ Topic[f][n].at < now - Window
            ELSE \A m \in result[f].from : Topic[f][n].at <= Topic[f][m].at

\* A batch feature that a query finds is found by every later one, while
\* provisioning deletes, updates, fails and starts again.  (The query of the
\* withdrawals has a window, and loses them after six hours.)
BatchFeatureStaysFound ==
    [][\A k \in Keys :
          entities["payment_6h_batch"] \subseteq DOMAIN k =>
              (StatusOf("payment_6h_batch", k) = "200"
                  => (StatusOf("payment_6h_batch", k))' = "200")]_vars

\* At last, unless the job has failed for good, every table is there with all
\* that its topic holds, and a query finds what the topic has for it: for the
\* withdrawals, while they are in the window.
FoundAtLast ==
    <>[](\/ Exhausted
         \/ \A f \in Features, k \in Keys :
              entities[f] \subseteq DOMAIN k /\ (\E n \in Written(f) : Matches(f, n, k))
              => StatusOf(f, k) = "200")

=============================================================================
