------------------------ MODULE FreshnessProbeProofs ------------------------
(***************************************************************************)
(* Proofs about the freshness probe for any timeouts, any horizon and any  *)
(* number of faults.                                                       *)
(***************************************************************************)
EXTENDS FreshnessProbe, TLAPS

\* A copy in the topic that was not acknowledged has cost a failure.
CopiesCost ==
    /\ copies <= failures + 1
    /\ event \in {"buffered", "sent"} => copies <= failures

\* A response that counts nothing was made before the event was visible.
ZeroIsEarlier ==
    visible > 0 =>
        /\ last_zero <= visible_at
        /\ answer = "features" /\ tx_count = 0 => sent_at <= visible_at

Observed == probe = "observed" => visible > 0 /\ visible_at <= upper_bound

ProbeInv == TypeOK /\ CopiesCost /\ ZeroIsEarlier /\ Observed /\ NoFalseAlarm

-----------------------------------------------------------------------------
LEMMA InitProbe == Init => ProbeInv
BY TimesAssumption
   DEF Init, ProbeInv, TypeOK, CopiesCost, ZeroIsEarlier, Observed, NoFalseAlarm

LEMMA EnvironmentKeeps ==
    ASSUME ProbeInv, Environment
    PROVE  ProbeInv'
<1> USE TimesAssumption
<1> USE DEF ProbeInv, TypeOK, CopiesCost, ZeroIsEarlier, Observed, NoFalseAlarm
<1>1. CASE Tick
    BY <1>1 DEF Tick, broker, request, times
<1>2. CASE Append
    BY <1>2 DEF Append, Fails, request, times
<1>3. CASE Lose
    BY <1>3 DEF Lose, Fails, request, times
<1>4. CASE Ingest
    BY <1>4 DEF Ingest, request, times
<1>5. CASE Serve
    BY <1>5 DEF Serve, Fails, broker, times
<1> QED BY <1>1, <1>2, <1>3, <1>4, <1>5 DEF Environment

LEMMA ProbeKeeps ==
    ASSUME ProbeInv, Probe \/ Die \/ Restart \/ UNCHANGED vars
    PROVE  ProbeInv'
<1> USE TimesAssumption
<1> USE DEF ProbeInv, TypeOK, CopiesCost, ZeroIsEarlier, Observed, NoFalseAlarm
<1>1. CASE freshness_check
    BY <1>1 DEF freshness_check
<1>2. CASE flush
    BY <1>2 DEF flush, broker, request, times
<1>3. CASE post
    BY <1>3 DEF post, broker, times
<1>4. CASE Continue
    BY <1>4 DEF Continue, UpperBound, broker, request
<1>5. CASE Response
    BY <1>5 DEF Response, UpperBound, broker, request
<1>6. CASE Die
    BY <1>6 DEF Die, Fails, broker, request, times
<1>7. CASE Restart \/ UNCHANGED vars
    BY <1>7 DEF Restart, vars, broker, request, times
<1> QED BY <1>1, <1>2, <1>3, <1>4, <1>5, <1>6, <1>7 DEF Probe

THEOREM ProbeInvariance == Spec => []ProbeInv
<1>1. Init => ProbeInv
    BY InitProbe
<1>2. ProbeInv /\ [Next]_vars => ProbeInv'
    BY EnvironmentKeeps, ProbeKeeps DEF Next
<1> QED BY <1>1, <1>2, PTL DEF Spec

-----------------------------------------------------------------------------
(* The properties.                                                         *)

\* Every variable of the probe keeps its type, and its times their order.
THEOREM ProbeTypes == Spec => []TypeOK
<1>1. ProbeInv => TypeOK
    BY DEF ProbeInv
<1> QED BY <1>1, ProbeInvariance, PTL

\* What the probe reports is an upper bound of the event's delay, whatever
\* requests failed, timed out or crossed the event on its way.
THEOREM ReportIsUpperBound == Spec => []ObservedIsBound
<1>1. ProbeInv => ObservedIsBound
    BY DEF ProbeInv, Observed, ZeroIsEarlier, ObservedIsBound
<1> QED BY <1>1, ProbeInvariance, PTL

\* Without a fault the probe's assertion on tx_count never fails.
THEOREM AssertionHolds == Spec => []NoFalseAlarm
<1>1. ProbeInv => NoFalseAlarm
    BY DEF ProbeInv
<1> QED BY <1>1, ProbeInvariance, PTL

=============================================================================
