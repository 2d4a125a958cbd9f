--------------------------- MODULE FreshnessProbe ---------------------------
(***************************************************************************)
(* The freshness probe (images/simulation, freshness_probe.py): it         *)
(* produces a payment with ids of its own, asks the feature store for it   *)
(* until it is counted, and reports the time between the two.  Kafka and   *)
(* Pinot, which may lose, repeat and delay the event, and the feature      *)
(* store, which may answer late, with an error or never, are external.     *)
(*                                                                         *)
(* Time is counted from event_creation_ns; the clock stops at MaxTime,     *)
(* where every timeout may have passed.                                    *)
(***************************************************************************)
EXTENDS Naturals

CONSTANTS
    FlushTimeout,    \* producer.flush(1.0)
    RequestTimeout,  \* httpx.Client(timeout=3)
    MaxTime,         \* bound: the clock
    MaxFailures      \* bound: faults of the broker, the store and the pod

ASSUME TimesAssumption ==
    /\ FlushTimeout \in Nat /\ RequestTimeout \in Nat
    /\ MaxTime \in Nat /\ MaxFailures \in Nat

VARIABLES
    now,        \* the clock
    probe,      \* "idle", "flush", "poll", "request", "observed", "failed"
                 \* (its assertion) or "dead"
    event,      \* "none", "buffered", "sent" (not acknowledged), "acked", "lost"
    copies,     \* how often the event is in the topic
    visible,    \* how many copies the feature store counts
    visible_at, \* when the first copy was visible
    sent_at,    \* when the request was sent
    answer,     \* of the store to it: "none", "error", "lost" or "features"
    tx_count,   \* in the features
    last_zero,  \* when the last request answered by a tx_count of 0 was sent
    upper_bound,       \* time_taken_upper_bound_ns
    failures

broker == <<event, copies, visible, visible_at>>
request == <<sent_at, answer, tx_count>>
times == <<last_zero, upper_bound>>
vars == <<now, probe, broker, request, times, failures>>

Init ==
    /\ now = 0 /\ probe = "idle"
    /\ event = "none" /\ copies = 0 /\ visible = 0 /\ visible_at = 0
    /\ sent_at = 0 /\ answer = "none" /\ tx_count = 0
    /\ last_zero = 0 /\ upper_bound = 0
    /\ failures = 0

Fails == failures < MaxFailures /\ failures' = failures + 1

Passed(start, timeout) == now >= start + timeout \/ now = MaxTime

-----------------------------------------------------------------------------
(* The clock, Kafka, Pinot and the feature store.                          *)

Tick ==
    /\ probe \in {"flush", "poll", "request"}
    /\ now' = IF now < MaxTime THEN now + 1 ELSE now
    /\ UNCHANGED <<probe, broker, request, times, failures>>

\* The broker appends the event; the acknowledgement comes, or the producer,
\* which is not idempotent, sends the event once more.
Append ==
    /\ event \in {"buffered", "sent"}
    /\ copies' = copies + 1
    /\ \/ event' = "acked" /\ UNCHANGED failures
       \/ event' = "sent" /\ Fails
    /\ UNCHANGED <<now, probe, visible, visible_at, request, times>>

\* The delivery fails for good: delivery_callback logs it.
Lose ==
    /\ event \in {"buffered", "sent"}
    /\ event' = IF copies = 0 THEN "lost" ELSE "acked"
    /\ Fails
    /\ UNCHANGED <<now, probe, copies, visible, visible_at, request, times>>

Ingest ==
    /\ visible < copies
    /\ visible' = visible + 1
    /\ visible_at' = IF visible = 0 THEN now ELSE visible_at
    /\ UNCHANGED <<now, probe, event, copies, request, times, failures>>

\* The feature store counts what is visible, answers with an error, or its
\* answer is lost.
Serve ==
    /\ probe = "request" /\ answer = "none"
    /\ \/ answer' = "features" /\ tx_count' = visible /\ UNCHANGED failures
       \/ answer' \in {"error", "lost"} /\ UNCHANGED tx_count /\ Fails
    /\ UNCHANGED <<now, probe, broker, sent_at, times>>

-----------------------------------------------------------------------------
(* The probe.                                                              *)

\* Mutant: every check has the same ids.
CheckWithOldIds ==
    /\ probe \in {"idle", "observed"}
    /\ probe' = "flush"
    /\ event' = "buffered"
    /\ now' = 0 /\ visible_at' = 0
    /\ sent_at' = 0 /\ answer' = "none" /\ tx_count' = 0
    /\ last_zero' = 0 /\ upper_bound' = 0
    /\ UNCHANGED <<copies, visible, failures>>

\* freshness_check begins: new ids, and publish() puts the event into the
\* producer's buffer.
freshness_check ==
    /\ probe \in {"idle", "observed"}
    /\ probe' = "flush"
    /\ event' = "buffered"
    /\ now' = 0 /\ copies' = 0 /\ visible' = 0 /\ visible_at' = 0
    /\ sent_at' = 0 /\ answer' = "none" /\ tx_count' = 0
    /\ last_zero' = 0 /\ upper_bound' = 0
    /\ UNCHANGED failures

\* flush(1.0) returns when the event is delivered, or when its time is over;
\* the probe does not look at what it returns.
flush ==
    /\ probe = "flush"
    /\ event \in {"acked", "lost"} \/ Passed(0, FlushTimeout)
    /\ probe' = "poll"
    /\ UNCHANGED <<now, broker, request, times, failures>>

post ==
    /\ probe = "poll"
    /\ probe' = "request"
    /\ sent_at' = now /\ answer' = "none"
    /\ UNCHANGED <<now, broker, tx_count, times, failures>>

\* Mutant: the time is taken before the request.
UpperBoundOfRequest == upper_bound' = sent_at

\* The finally clause: after every response, error and timeout.
UpperBound == upper_bound' = now

\* Mutant: without a timeout.
TimeoutNever ==
    /\ probe = "request"
    /\ answer = "error"
    /\ UpperBound
    /\ probe' = "poll"
    /\ UNCHANGED <<now, broker, request, last_zero, failures>>

\* An error status, or no response in time: the loop continues.
Continue ==
    /\ probe = "request"
    /\ answer = "error" \/ Passed(sent_at, RequestTimeout)
    /\ UpperBound
    /\ probe' = "poll"
    /\ UNCHANGED <<now, broker, request, last_zero, failures>>

\* A tx_count other than 0 is observed, and must then be 1.
Response ==
    /\ probe = "request" /\ answer = "features"
    /\ UpperBound
    /\ IF tx_count = 0 THEN probe' = "poll" /\ last_zero' = sent_at
       ELSE probe' = (IF tx_count = 1 THEN "observed" ELSE "failed") /\ UNCHANGED last_zero
    /\ UNCHANGED <<now, broker, request, failures>>

\* Any other exception (a refused connection is not a timeout), a signal or a
\* kill ends the process.
Die ==
    /\ probe \notin {"failed", "dead"}
    /\ Fails
    /\ probe' = "dead"
    /\ UNCHANGED <<now, broker, request, times>>

\* Kubernetes starts the process again: main().
Restart ==
    /\ probe \in {"failed", "dead"}
    /\ probe' = "idle"
    /\ UNCHANGED <<now, broker, request, times, failures>>

-----------------------------------------------------------------------------
Environment == Tick \/ Append \/ Lose \/ Ingest \/ Serve
Probe == freshness_check \/ flush \/ post \/ Continue \/ Response

Next == Environment \/ Probe \/ Die \/ Restart

Spec == Init /\ [][Next]_vars

\* Time passes, the probe runs, the broker and Pinot deliver in the end, and of
\* requests sent again and again the feature store answers some in time.
FairSpec ==
    /\ Spec
    /\ WF_vars(Tick) /\ WF_vars(Append) /\ WF_vars(Ingest)
    /\ SF_vars(Serve /\ answer' = "features") /\ SF_vars(Response)
    /\ WF_vars(Probe) /\ WF_vars(Restart)

-----------------------------------------------------------------------------
(* Properties.                                                             *)

\* Every variable keeps its type, and counts keep their order.
TypeOK ==
    /\ now \in 0 .. MaxTime
    /\ probe \in {"idle", "flush", "poll", "request", "observed", "failed", "dead"}
    /\ event \in {"none", "buffered", "sent", "acked", "lost"}
    /\ copies \in 0 .. MaxFailures + 1
    /\ visible \in 0 .. copies /\ tx_count \in 0 .. visible
    /\ visible_at \in 0 .. now
    /\ sent_at \in 0 .. now /\ last_zero \in 0 .. sent_at
    /\ upper_bound \in 0 .. now
    /\ answer \in {"none", "error", "lost", "features"}
    /\ failures \in 0 .. MaxFailures

\* "this is an upper bound as we poll the feature store for the record, the
\* actual freshness may be lower than this" (README.md:243): what is observed
\* is not less than the time the event took, and the event was not visible
\* before the last request answered by 0 was sent.  Errors and timeouts in
\* between, and a flush that returned too early, do not matter.
ObservedIsBound ==
    probe = "observed" => last_zero <= visible_at /\ visible_at <= upper_bound

\* Unless something failed the assertion on tx_count holds: no event of an
\* earlier check is counted.
NoFalseAlarm == failures = 0 => probe # "failed"

\* Every check ends, or its event is lost: then the probe polls for ever.
EveryCheckEnds ==
    (probe = "flush") ~>
        (probe \in {"observed", "failed", "dead"} \/ event = "lost")

=============================================================================
