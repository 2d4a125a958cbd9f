--------------------------- MODULE BatchFeatures ---------------------------
(***************************************************************************)
(* The batch features: dbt computes payment_6h and payment_6h_inference    *)
(* from the raw payments every five minutes (images/dbt), the load job     *)
(* sends the inference table to a topic every five minutes                 *)
(* (images/pinot-load, extract.py), and Pinot upserts the topic's rows     *)
(* into payment_6h_batch.  No cron job forbids its runs to overlap, and    *)
(* any run may be killed: a run of dbt computes a model from the tables as *)
(* they are when its query starts, and replaces the model's table when the *)
(* query is done.  Trino, dbt, Kafka and Pinot are external.               *)
(***************************************************************************)
EXTENDS Integers, Sequences, FiniteSets, FiniteSetsExt

CONSTANTS
    Cards,        \* the groups: an account and its card
    Payments,     \* the payments: records of a card and a time
    Step,         \* the distance of two windows (five minutes)
    Window,       \* the length of a window (six hours)
    Day,          \* the length of a day
    Runs,         \* runs of dbt that may run at the same time
    Loads,        \* load jobs that may run at the same time
    MaxTopic,     \* bound: rows of a card in the topic that Pinot has not read
    MaxFailures   \* bound: failed deliveries and killed jobs

ASSUME GridAssumption ==
    /\ {Step, Window, Day} \subseteq Nat \ {0}
    /\ Window % Step = 0 /\ Day % Step = 0 /\ Window <= Day
ASSUME PaymentsAssumption ==
    /\ IsFiniteSet(Payments)
    /\ \A p \in Payments : p.card \in Cards /\ p.time \in Nat
ASSUME BoundsAssumption == MaxTopic \in Nat /\ MaxFailures \in Nat

VARIABLES
    raw,        \* the payments in raw.payment_authorised
    features,   \* the rows of payment_6h
    inference,  \* the rows of payment_6h_inference
    stage,      \* the model each run of dbt computes, "built" after the first
    computed,   \* the rows each run of dbt has computed and not yet put in place
    todo,       \* the rows each load job has read and not yet produced
    topic,      \* the rows of each card Pinot has still to read, in order
    pinot,      \* the rows of payment_6h_batch
    failures

dbtVars == <<features, inference, stage, computed>>
loadVars == <<todo, topic, pinot>>
vars == <<raw, dbtVars, loadVars, failures>>

Init ==
    /\ raw = {} /\ features = {} /\ inference = {}
    /\ stage = [r \in Runs |-> "idle"]
    /\ computed = [r \in Runs |-> {}]
    /\ todo = [l \in Loads |-> {}]
    /\ topic = [c \in Cards |-> <<>>]
    /\ pinot = {}
    /\ failures = 0

-----------------------------------------------------------------------------
(* The models.  A row has the payments it counts for its tx_count.         *)

date_trunc(t) == (t \div Day) * Day

\* Mutant: the timeline ends with the last payment's day.
BoundsOfDays(source) ==
    LET times == {p.time : p \in source}
    IN  [start_bound |-> date_trunc(Min(times)) - Day,
         end_bound |-> date_trunc(Max(times))]

bounds(source) ==
    LET times == {p.time : p \in source}
    IN  [start_bound |-> date_trunc(Min(times)) - Day,
         end_bound |-> date_trunc(Max(times)) + Day]

timeline(source) ==
    LET b == bounds(source)
    IN  {t \in b.start_bound .. b.end_bound : (t - b.start_bound) % Step = 0}

\* source_data joined with the timeline, grouped by window and card.
payment_6h(source) ==
    IF source = {} THEN {}
    ELSE LET Joins(p, e) == p.time > e - Window /\ p.time <= e
         IN  {[card |-> j[1].card, window_end |-> j[2],
               counted |-> {p \in source : p.card = j[1].card /\ Joins(p, j[2])}] :
                j \in {k \in source \X timeline(source) : Joins(k[1], k[2])}}

\* row_number() ... order by window_start: the first window of a card.
payment_6h_inference(rows) ==
    {r \in rows : \A s \in rows : s.card = r.card => r.window_end <= s.window_end}

-----------------------------------------------------------------------------
(* The jobs.                                                               *)

Fails == failures < MaxFailures /\ failures' = failures + 1

\* The raw ingestion job writes a payment, in any order of their times.
Ingest(p) ==
    /\ raw' = raw \cup {p}
    /\ UNCHANGED <<dbtVars, loadVars, failures>>

\* A run's query of a model starts: its rows are those of the table it reads
\* as that is now.
Compute(r, from, model, rows) ==
    /\ stage[r] = from
    /\ stage' = [stage EXCEPT ![r] = model]
    /\ computed' = [computed EXCEPT ![r] = rows]
    /\ UNCHANGED <<raw, features, inference, loadVars, failures>>

\* The query is done, its table takes the place of the model's old one.
Replace(r, model, next) ==
    /\ stage[r] = model
    /\ stage' = [stage EXCEPT ![r] = next]
    /\ computed' = [computed EXCEPT ![r] = {}]
    /\ UNCHANGED <<raw, loadVars, failures>>

ComputeFeatures(r) == Compute(r, "idle", "payment_6h", payment_6h(raw))

ReplaceFeatures(r) ==
    /\ Replace(r, "payment_6h", "built")
    /\ features' = computed[r]
    /\ UNCHANGED inference

ComputeInference(r) ==
    Compute(r, "built", "payment_6h_inference", payment_6h_inference(features))

ReplaceInference(r) ==
    /\ Replace(r, "payment_6h_inference", "idle")
    /\ inference' = computed[r]
    /\ UNCHANGED features

\* dbt run: the models in the order of their references.
DbtRun(r) ==
    \/ ComputeFeatures(r) \/ ReplaceFeatures(r)
    \/ ComputeInference(r) \/ ReplaceInference(r)

\* A query fails or the pod is killed: what the run has computed is dropped.
DbtFails(r) ==
    /\ stage[r] # "idle"
    /\ Fails
    /\ stage' = [stage EXCEPT ![r] = "idle"]
    /\ computed' = [computed EXCEPT ![r] = {}]
    /\ UNCHANGED <<raw, features, inference, loadVars>>

\* Mutant: only rows that Pinot has not got are sent.
ExtractMissing(l) ==
    /\ todo[l] = {}
    /\ todo' = [todo EXCEPT ![l] =
                    {r \in inference : \A s \in pinot : s.card # r.card}]
    /\ UNCHANGED <<raw, dbtVars, topic, pinot, failures>>

\* extract: a load job starts and reads the whole table.
Extract(l) ==
    /\ todo[l] = {}
    /\ todo' = [todo EXCEPT ![l] = inference]
    /\ UNCHANGED <<raw, dbtVars, topic, pinot, failures>>

\* process_events: one row is produced; a delivery that fails is logged, and
\* the job ends as if it had not.
Produce(l) ==
    \E r \in todo[l] :
        /\ Len(topic[r.card]) < MaxTopic
        /\ todo' = [todo EXCEPT ![l] = @ \ {r}]
        /\ \/ topic' = [topic EXCEPT ![r.card] = Append(@, r)] /\ UNCHANGED failures
           \/ Fails /\ UNCHANGED topic
        /\ UNCHANGED <<raw, dbtVars, pinot>>

\* The pod is killed or an exception ends it; it reads the table again.
Killed(l) ==
    /\ todo[l] # {}
    /\ Fails
    /\ todo' = [todo EXCEPT ![l] = {}]
    /\ UNCHANGED <<raw, dbtVars, topic, pinot>>

\* Mutant: without a comparison column the last row of the topic wins.
UpsertLast(c) ==
    /\ topic[c] # <<>>
    /\ topic' = [topic EXCEPT ![c] = Tail(@)]
    /\ pinot' = {s \in pinot : s.card # c} \cup {Head(topic[c])}
    /\ UNCHANGED <<raw, dbtVars, todo, failures>>

\* Mutant: the table has no upsertConfig.
UpsertAppends(c) ==
    /\ topic[c] # <<>>
    /\ topic' = [topic EXCEPT ![c] = Tail(@)]
    /\ pinot' = pinot \cup {Head(topic[c])}
    /\ UNCHANGED <<raw, dbtVars, todo, failures>>

\* upsertConfig FULL with comparisonColumns window_start: a row replaces the
\* one of its key unless that has a newer window.
Upsert(c) ==
    /\ topic[c] # <<>>
    /\ topic' = [topic EXCEPT ![c] = Tail(@)]
    /\ LET row == Head(topic[c])
           old == {s \in pinot : s.card = c}
       IN  pinot' = IF \E s \in old : s.window_end > row.window_end THEN pinot
                    ELSE (pinot \ old) \cup {row}
    /\ UNCHANGED <<raw, dbtVars, todo, failures>>

-----------------------------------------------------------------------------
Next ==
    \/ \E p \in Payments : Ingest(p)
    \/ \E r \in Runs : DbtRun(r) \/ DbtFails(r)
    \/ \E l \in Loads : Extract(l) \/ Produce(l) \/ Killed(l)
    \/ \E c \in Cards : Upsert(c)

Spec == Init /\ [][Next]_vars

\* The cron jobs run again and again; Pinot reads on.
FairSpec ==
    /\ Spec
    /\ \A r \in Runs : WF_vars(DbtRun(r))
    /\ \A l \in Loads : WF_vars(Extract(l)) /\ WF_vars(Produce(l))
    /\ \A c \in Cards : WF_vars(Upsert(c))

-----------------------------------------------------------------------------
(* Properties.                                                             *)

\* A row of a window of the grid that counts payments of its card, all of them
\* written and in its window.
IsRow(r) ==
    /\ r.card \in Cards /\ r.window_end \in Int /\ r.window_end % Step = 0
    /\ r.counted \subseteq raw
    /\ \A p \in r.counted :
          p.card = r.card /\ p.time \in r.window_end - Window + 1 .. r.window_end

\* Every variable keeps its type, and the tables have one row for their key:
\* a card and a window, or a card.  (The data tests payment_6h.yml:10-12 and
\* payment_6h_inference.yml:10-12 say that window_start alone is unique, which
\* two cards with a payment in one window break; dbt run does not run them.)
TypeOK ==
    /\ raw \subseteq Payments
    /\ \A rows \in {features, inference, pinot} \cup {computed[r] : r \in Runs}
                     \cup {todo[l] : l \in Loads} :
        \A r \in rows : IsRow(r)
    /\ stage \in [Runs -> {"idle", "payment_6h", "built", "payment_6h_inference"}]
    /\ \A c \in Cards :
        /\ Len(topic[c]) <= MaxTopic
        /\ \A i \in 1 .. Len(topic[c]) : IsRow(topic[c][i])
    /\ \A r, s \in features :
        r.card = s.card /\ r.window_end = s.window_end => r = s
    /\ \A rows \in {inference, pinot} :
        \A r, s \in rows : r.card = s.card => r = s
    /\ failures \in 0 .. MaxFailures

\* Every payment is counted by all the windows it falls into that end before
\* the first window after the newest payment: however the payments lie in their
\* days, the timeline misses none of the windows that are over.
EveryWindowCounts ==
    LET rows == payment_6h(raw)
    IN  \A p, newest \in raw : \A e \in p.time .. newest.time + Step - 1 :
            e % Step = 0 /\ e < p.time + Window =>
                \E r \in rows : r.card = p.card /\ r.window_end = e /\ p \in r.counted

\* The row chosen for a card is of the first window after its earliest payment,
\* whatever payments it has had since.
FirstWindowOnly ==
    \A r \in payment_6h_inference(payment_6h(raw)) :
        \E p \in r.counted :
            /\ r.window_end < p.time + Step
            /\ \A q \in raw : q.card = r.card => p.time <= q.time

\* The payments of a card are written in the order of their times.
PaymentsInOrder ==
    [][\A p \in raw' \ raw, q \in raw : q.card = p.card => q.time <= p.time]_vars

\* A row is of the first window after the earliest payment of its card.
IsFirstWindow(r) ==
    \E p \in raw :
        /\ p.card = r.card
        /\ p.time <= r.window_end /\ r.window_end < p.time + Step
        /\ \A q \in raw : q.card = r.card => p.time <= q.time

\* What Pinot shows of a card for inference never leaves the card's first window,
\* while payments come in their order: later payments are not in it at all.
StuckAtFirstWindow == \A r \in pinot : IsFirstWindow(r)

\* Pinot never goes back to an earlier window of a card, although an older
\* run of the load job may send its rows after a newer one.
NeverBackInTime ==
    [][\A r \in pinot, s \in pinot' : r.card = s.card => r.window_end <= s.window_end]_vars

\* Pinot has the rows dbt would compute at last, with every payment counted,
\* unless a payment written late has moved a card's first window back: every
\* run of dbt computes the whole tables and every run of the load job sends
\* the whole table, which mends failed deliveries, tables an older run of dbt
\* has put back, and rows of an older load job that came last.
PinotCatchesUp ==
    <>[](\A r \in payment_6h_inference(payment_6h(raw)) :
            r \in pinot
            \/ \E s \in pinot : s.card = r.card /\ s.window_end > r.window_end)

\* "containing only the latest values for inference"
\* (images/dbt/warehouse/models/features/payment_6h_inference.yml:5): the row
\* chosen for a card counts the latest of its payments that any row counts.
LatestOnly ==
    \A r \in payment_6h_inference(features), s \in features :
        r.card = s.card =>
            \A p \in s.counted : \E q \in r.counted : q.time >= p.time

=============================================================================
