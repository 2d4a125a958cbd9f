------------------------ MODULE BatchFeaturesProofs ------------------------
(***************************************************************************)
(* Proofs about the batch features for any payments and windows, and any   *)
(* number of runs of dbt and of load jobs that overlap.                    *)
(***************************************************************************)
EXTENDS BatchFeatures, FiniteSetTheorems, TLAPS

-----------------------------------------------------------------------------
(* Arithmetic of the grid of windows.                                      *)

LEMMA DivMod ==
    ASSUME NEW t \in Nat, NEW d \in Nat \ {0}
    PROVE  (t \div d) * d \in Nat /\ (t \div d) * d <= t /\ t < (t \div d) * d + d
OBVIOUS

LEMMA Multiple ==
    ASSUME NEW a \in Int, NEW n \in Nat \ {0}, a % n = 0
    PROVE  \E k \in Int : a = k * n
<1>1. a = (a \div n) * n + (a % n) /\ a \div n \in Int
    OBVIOUS
<1>2. a = (a \div n) * n
    BY <1>1
<1> QED BY <1>1, <1>2

LEMMA MultipleIs ==
    ASSUME NEW k \in Int, NEW n \in Nat \ {0}
    PROVE  (k * n) % n = 0
OBVIOUS

LEMMA Distributes ==
    ASSUME NEW j \in Int, NEW k \in Int, NEW n \in Int
    PROVE  /\ j * n - k * n = (j - k) * n
           /\ j * n + k * n = (j + k) * n
           /\ (j * k) * n = j * (k * n)
OBVIOUS

\* Sums, differences and multiples of points of the grid are points of it.
LEMMA GridOps ==
    ASSUME NEW a \in Int, NEW b \in Int, NEW c \in Int, NEW n \in Nat \ {0},
           a % n = 0, b % n = 0
    PROVE  (a + b) % n = 0 /\ (a - b) % n = 0 /\ (c * a) % n = 0
<1>1. PICK j \in Int : a = j * n
    BY Multiple
<1>2. PICK k \in Int : b = k * n
    BY Multiple
<1>3. /\ j + k \in Int /\ j - k \in Int /\ c * j \in Int
      /\ a + b = (j + k) * n /\ a - b = (j - k) * n /\ c * a = (c * j) * n
    BY <1>1, <1>2, Distributes
<1>4. ((j + k) * n) % n = 0 /\ ((j - k) * n) % n = 0 /\ ((c * j) * n) % n = 0
    <2> HIDE <1>1, <1>2
    <2> QED BY <1>3, MultipleIs
<1> QED BY <1>3, <1>4

\* Two points of the grid that are less than a step apart are one.
LEMMA NextOnGrid ==
    ASSUME NEW a \in Int, NEW b \in Int, NEW n \in Nat \ {0},
           a % n = 0, b % n = 0, a < b + n
    PROVE  a <= b
<1>1. PICK j \in Int : a = j * n
    BY Multiple
<1>2. PICK k \in Int : b = k * n
    BY Multiple
<1>3. j <= k
    <2> SUFFICES ASSUME j >= k + 1 PROVE FALSE
        OBVIOUS
    <2>1. j * n >= (k + 1) * n
        OBVIOUS
    <2>2. (k + 1) * n = k * n + n
        OBVIOUS
    <2> QED BY <1>1, <1>2, <2>1, <2>2
<1>4. j * n <= k * n
    BY <1>3
<1> QED BY <1>1, <1>2, <1>4

-----------------------------------------------------------------------------
(* The timeline.                                                           *)

Times(S) == {p.time : p \in S}

\* Some payments are the earliest, and of finitely many some the latest.
LEMMA Earliest ==
    ASSUME NEW S \in SUBSET Payments, S # {}
    PROVE  \E p \in S : \A q \in S : p.time <= q.time
<1>1. Times(S) \subseteq Nat /\ Times(S) # {}
    BY PaymentsAssumption DEF Times
<1>2. PICK m \in Times(S) : \A n \in Times(S) : ~(<<n, m>> \in OpToRel(<, Nat))
    BY <1>1, NatLessThanWellFounded, WFMin
<1>3. \A n \in Times(S) : ~(n < m)
    BY <1>1, <1>2 DEF OpToRel
<1>4. PICK p \in S : p.time = m
    BY DEF Times
<1>5. ASSUME NEW q \in S PROVE p.time <= q.time
    <2>1. q.time \in Times(S)
        BY DEF Times
    <2> QED BY <1>1, <1>3, <1>4, <2>1
<1> QED BY <1>5

HasLatest(S) == \E p \in S : \A q \in S : q.time <= p.time

LEMMA Latest ==
    ASSUME NEW S \in SUBSET Payments, S # {}
    PROVE  HasLatest(S)
<1> DEFINE Sizes == {n \in Nat : \E R \in SUBSET Payments :
                        R # {} /\ Cardinality(R) = n /\ ~HasLatest(R)}
<1>1. \A R \in SUBSET Payments : IsFiniteSet(R) /\ Cardinality(R) \in Nat
    BY PaymentsAssumption, FS_Subset, FS_CardinalityType
<1>2. SUFFICES ASSUME Sizes # {} PROVE FALSE
    BY <1>1
<1>3. PICK n \in Sizes : \A m \in Sizes : ~(<<m, n>> \in OpToRel(<, Nat))
    <2>1. Sizes \subseteq Nat
        OBVIOUS
    <2> HIDE DEF Sizes
    <2> QED BY <1>2, <2>1, NatLessThanWellFounded, WFMin
<1>4. \A m \in Sizes : ~(m < n)
    BY <1>3 DEF OpToRel
<1>5. PICK R \in SUBSET Payments : R # {} /\ Cardinality(R) = n /\ ~HasLatest(R)
    OBVIOUS
<1>6. PICK p \in R : p.time \in Nat
    BY <1>5, PaymentsAssumption
<1>7. /\ R \ {p} \in SUBSET Payments
      /\ Cardinality(R \ {p}) = n - 1 /\ Cardinality(R \ {p}) \in Nat
    BY <1>1, <1>5, FS_RemoveElement
<1>8. R \ {p} # {}
    BY <1>5, <1>6 DEF HasLatest
<1>9. HasLatest(R \ {p})
    <2>1. n - 1 \notin Sizes
        BY <1>4, <1>7
    <2> QED BY <1>7, <1>8, <2>1
<1>10. PICK q \in R \ {p} : \A r \in R \ {p} : r.time <= q.time
    BY <1>9 DEF HasLatest
<1>11. q \in R /\ q.time \in Nat
    BY PaymentsAssumption
<1>12. CASE p.time <= q.time
    <2>1. \A r \in R : r.time <= q.time
        BY <1>10, <1>12
    <2> QED BY <1>5, <1>11, <2>1 DEF HasLatest
<1>13. CASE q.time <= p.time
    <2>1. \A r \in R : r.time <= p.time
        <3> SUFFICES ASSUME NEW r \in R PROVE r.time <= p.time
            OBVIOUS
        <3>1. r.time \in Nat
            BY PaymentsAssumption
        <3>2. r # p => r.time <= q.time
            BY <1>10
        <3> QED BY <1>6, <1>11, <1>13, <3>1, <3>2
    <2> QED BY <1>5, <2>1 DEF HasLatest
<1> QED BY <1>6, <1>11, <1>12, <1>13

LEMMA OnGrid ==
    ASSUME NEW t \in Nat
    PROVE  /\ date_trunc(t) \in Nat /\ date_trunc(t) <= t /\ t < date_trunc(t) + Day
           /\ (date_trunc(t) - Day) % Step = 0 /\ (date_trunc(t) + Day) % Step = 0
<1>1. Step \in Nat \ {0} /\ Day \in Nat \ {0} /\ Day % Step = 0 /\ Day \in Int
    BY GridAssumption
<1>2. date_trunc(t) \in Nat /\ date_trunc(t) <= t /\ t < date_trunc(t) + Day
    BY <1>1, DivMod DEF date_trunc
<1>3. t \div Day \in Int
    BY <1>1
<1>4. date_trunc(t) % Step = 0
    BY <1>1, <1>3, GridOps DEF date_trunc
<1>5. date_trunc(t) \in Int
    BY <1>2
<1>6. (date_trunc(t) - Day) % Step = 0 /\ (date_trunc(t) + Day) % Step = 0
    <2> HIDE DEF date_trunc
    <2> QED BY <1>1, <1>4, <1>5, GridOps
<1> QED BY <1>2, <1>6

\* The timeline is the multiples of a step from a day before the day of the
\* first payment to the end of the day of the last.
LEMMA TimelineIs ==
    ASSUME NEW S \in SUBSET Payments, S # {}
    PROVE  \E first, last \in S :
              /\ \A p \in S : first.time <= p.time /\ p.time <= last.time
              /\ timeline(S) = {t \in date_trunc(first.time) - Day
                                        .. date_trunc(last.time) + Day : t % Step = 0}
<1>1. PICK first \in S : \A p \in S : first.time <= p.time
    BY Earliest
<1>2. PICK last \in S : \A p \in S : p.time <= last.time
    BY Latest DEF HasLatest
<1>3. first.time \in Nat /\ last.time \in Nat /\ Times(S) \subseteq Nat
    BY PaymentsAssumption DEF Times
<1>4. Min(Times(S)) = first.time /\ Max(Times(S)) = last.time
    <2>1. /\ first.time \in Times(S) /\ \A n \in Times(S) : first.time <= n
          /\ last.time \in Times(S) /\ \A n \in Times(S) : last.time >= n
        BY <1>1, <1>2, <1>3 DEF Times
    <2>2. \A m, n \in Times(S) : m <= n /\ n <= m => m = n
        BY <1>3
    <2>3. /\ Min(Times(S)) \in Times(S) /\ \A n \in Times(S) : Min(Times(S)) <= n
          /\ Max(Times(S)) \in Times(S) /\ \A n \in Times(S) : Max(Times(S)) >= n
        BY <2>1 DEF Min, Max
    <2> QED BY <1>3, <2>1, <2>2, <2>3
<1> DEFINE start == date_trunc(first.time) - Day
           end == date_trunc(last.time) + Day
<1>5. bounds(S) = [start_bound |-> start, end_bound |-> end]
    BY <1>4 DEF bounds, Times
<1>6. timeline(S) = {t \in start .. end : (t - start) % Step = 0}
    BY <1>5 DEF timeline
<1>7. start \in Int /\ end \in Int /\ start % Step = 0
    <2>1. /\ date_trunc(first.time) \in Nat /\ date_trunc(last.time) \in Nat
          /\ (date_trunc(first.time) - Day) % Step = 0
        BY <1>3, OnGrid
    <2>2. Day \in Nat
        BY GridAssumption
    <2> QED BY <2>1, <2>2
<1>8. Step \in Nat \ {0}
    BY GridAssumption
<1> HIDE DEF start, end
<1>9. ASSUME NEW t \in Int
      PROVE  (t - start) % Step = 0 <=> t % Step = 0
    <2>1. ASSUME t % Step = 0 PROVE (t - start) % Step = 0
        BY <1>7, <1>8, <2>1, GridOps
    <2>2. ASSUME (t - start) % Step = 0 PROVE t % Step = 0
        <3>1. t - start \in Int /\ (t - start) + start = t
            BY <1>7
        <3>2. ((t - start) + start) % Step = 0
            BY <1>7, <1>8, <2>2, <3>1, GridOps
        <3> QED BY <3>1, <3>2
    <2> QED BY <2>1, <2>2
<1>10. timeline(S) = {t \in start .. end : t % Step = 0}
    BY <1>6, <1>7, <1>9
<1> QED BY <1>1, <1>2, <1>10 DEF start, end

-----------------------------------------------------------------------------
(* The rows dbt computes from some payments.                               *)

AnyRow == [card : Cards, window_end : Int, counted : SUBSET Payments]

Joins(p, e) == p.time > e - Window /\ p.time <= e

\* The payments of a card that a window counts.
CountedBy(S, card, e) == {p \in S : p.card = card /\ Joins(p, e)}

\* Every row is of a window of the timeline that some payment falls into, and
\* counts the payments of its card in its window.
LEMMA RowsAre ==
    ASSUME NEW S \in SUBSET Payments, NEW r \in payment_6h(S)
    PROVE  /\ r \in AnyRow /\ S # {}
           /\ r.window_end \in timeline(S) /\ r.window_end % Step = 0
           /\ r.counted = CountedBy(S, r.card, r.window_end)
           /\ r.counted # {}
<1>1. S # {}
    BY DEF payment_6h
<1>2. \A e \in timeline(S) : e \in Int /\ e % Step = 0
    BY <1>1, TimelineIs
<1> HIDE DEF timeline
<1>3. PICK p \in S, e \in timeline(S) :
          /\ Joins(p, e)
          /\ r = [card |-> p.card, window_end |-> e,
                  counted |-> CountedBy(S, p.card, e)]
    BY <1>1 DEF payment_6h, CountedBy, Joins
<1>4. p.card \in Cards /\ p \in CountedBy(S, p.card, e)
    BY <1>3, PaymentsAssumption DEF CountedBy
<1>5. CountedBy(S, p.card, e) \in SUBSET Payments
    BY DEF CountedBy
<1> QED BY <1>1, <1>2, <1>3, <1>4, <1>5 DEF AnyRow

\* Every window of the timeline that a payment falls into has its row.
LEMMA RowExists ==
    ASSUME NEW S \in SUBSET Payments, NEW p \in S, NEW e \in timeline(S), Joins(p, e)
    PROVE  \E r \in payment_6h(S) :
              /\ r.card = p.card /\ r.window_end = e
              /\ r.counted = CountedBy(S, p.card, e)
              /\ p \in r.counted
<1> HIDE DEF timeline
<1> DEFINE row == [card |-> p.card, window_end |-> e,
                   counted |-> CountedBy(S, p.card, e)]
<1>1. <<p, e>> \in {k \in S \X timeline(S) : Joins(k[1], k[2])}
    OBVIOUS
<1>2. row \in payment_6h(S)
    BY <1>1 DEF payment_6h, CountedBy, Joins
<1> QED BY <1>2 DEF CountedBy

\* The rows of the table differ in card or window.
LEMMA RowsDiffer ==
    ASSUME NEW S \in SUBSET Payments,
           NEW r \in payment_6h(S), NEW s \in payment_6h(S),
           r.card = s.card, r.window_end = s.window_end
    PROVE  r = s
BY RowsAre DEF AnyRow

-----------------------------------------------------------------------------
(* The invariant.                                                          *)

\* What is on its way to Pinot are rows, each in the topic of its card.
Shapes ==
    /\ raw \subseteq Payments
    /\ features \subseteq AnyRow /\ inference \subseteq AnyRow
    /\ stage \in [Runs -> {"idle", "payment_6h", "built", "payment_6h_inference"}]
    /\ computed \in [Runs -> SUBSET AnyRow]
    /\ todo \in [Loads -> SUBSET AnyRow]
    /\ topic \in [Cards -> Seq(AnyRow)]
    /\ \A c \in Cards : \A i \in 1 .. Len(topic[c]) : topic[c][i].card = c
    /\ pinot \subseteq AnyRow
    /\ failures \in 0 .. MaxFailures

\* Every row, wherever it is, counts payments of its card in its window.
RowsFit ==
    /\ \A r \in features \cup inference \cup pinot : IsRow(r)
    /\ \A d \in Runs : \A r \in computed[d] : IsRow(r)
    /\ \A l \in Loads : \A r \in todo[l] : IsRow(r)
    /\ \A c \in Cards : \A i \in 1 .. Len(topic[c]) : IsRow(topic[c][i])

OnePerWindow(rows) ==
    \A r, s \in rows : r.card = s.card /\ r.window_end = s.window_end => r = s
OnePerCard(rows) == \A r, s \in rows : r.card = s.card => r = s

\* The tables, and what is to replace them, have one row of their keys, and the
\* topics their bound.
KeysUnique ==
    /\ OnePerWindow(features) /\ OnePerCard(inference) /\ OnePerCard(pinot)
    /\ \A d \in Runs :
          /\ OnePerWindow(computed[d])
          /\ stage[d] = "payment_6h_inference" => OnePerCard(computed[d])
    /\ \A c \in Cards : Len(topic[c]) <= MaxTopic

BatchInv == Shapes /\ RowsFit /\ KeysUnique

LEMMA InitBatch == Init => BatchInv
BY BoundsAssumption
DEF Init, BatchInv, Shapes, RowsFit, KeysUnique, OnePerWindow, OnePerCard

\* A row stays one while payments arrive.
LEMMA StillRow ==
    ASSUME raw \subseteq raw', NEW r, IsRow(r)
    PROVE  IsRow(r)'
BY DEF IsRow

LEMMA IngestKeeps ==
    ASSUME BatchInv, NEW p \in Payments, Ingest(p)
    PROVE  BatchInv'
<1>1. Shapes' /\ KeysUnique'
    BY DEF Ingest, dbtVars, loadVars, BatchInv, Shapes, KeysUnique
<1>2. RowsFit'
    <2>1. raw \subseteq raw' /\ UNCHANGED <<features, inference, computed, todo, topic, pinot>>
        BY DEF Ingest, dbtVars, loadVars
    <2> QED BY <2>1, StillRow DEF BatchInv, RowsFit
<1> QED BY <1>1, <1>2 DEF BatchInv

LEMMA ComputeKeeps ==
    ASSUME BatchInv, NEW d \in Runs, ComputeFeatures(d) \/ ComputeInference(d)
    PROVE  BatchInv'
<1>1. CASE ComputeFeatures(d)
    <2>1. raw \in SUBSET Payments
        BY DEF BatchInv, Shapes
    <2>2. /\ stage' = [stage EXCEPT ![d] = "payment_6h"]
          /\ computed' = [computed EXCEPT ![d] = payment_6h(raw)]
          /\ UNCHANGED <<raw, features, inference, todo, topic, pinot, failures>>
        BY <1>1 DEF ComputeFeatures, Compute, loadVars
    <2>3. \A r \in payment_6h(raw) : r \in AnyRow /\ IsRow(r)
        <3> SUFFICES ASSUME NEW r \in payment_6h(raw) PROVE r \in AnyRow /\ IsRow(r)
            OBVIOUS
        <3>1. /\ r \in AnyRow /\ r.window_end % Step = 0
              /\ r.counted = CountedBy(raw, r.card, r.window_end)
            BY <2>1, RowsAre
        <3>2. /\ r.card \in Cards /\ r.window_end \in Int /\ Window \in Nat
              /\ \A p \in raw : p.time \in Nat
            BY <2>1, <3>1, PaymentsAssumption, GridAssumption DEF AnyRow
        <3> QED BY <3>1, <3>2 DEF IsRow, CountedBy, Joins
    <2>4. Shapes'
        BY <2>2, <2>3 DEF BatchInv, Shapes
    <2>5. RowsFit'
        BY <2>2, <2>3 DEF BatchInv, Shapes, RowsFit, IsRow
    <2>6. OnePerWindow(payment_6h(raw))
        BY <2>1, RowsDiffer DEF OnePerWindow
    <2>7. KeysUnique'
        BY <2>2, <2>6 DEF BatchInv, Shapes, KeysUnique, OnePerWindow, OnePerCard
    <2> QED BY <2>4, <2>5, <2>7 DEF BatchInv
<1>2. CASE ComputeInference(d)
    <2> DEFINE rows == payment_6h_inference(features)
    <2>1. /\ stage' = [stage EXCEPT ![d] = "payment_6h_inference"]
          /\ computed' = [computed EXCEPT ![d] = rows]
          /\ UNCHANGED <<raw, features, inference, todo, topic, pinot, failures>>
        BY <1>2 DEF ComputeInference, Compute, loadVars
    <2>2. rows \subseteq features
        BY DEF payment_6h_inference
    <2>3. ASSUME NEW r \in rows, NEW s \in rows, r.card = s.card
          PROVE  r = s
        <3>1. r.window_end <= s.window_end /\ s.window_end <= r.window_end
            BY <2>3 DEF payment_6h_inference
        <3>2. r.window_end \in Int /\ s.window_end \in Int
            BY <2>2 DEF BatchInv, Shapes, AnyRow
        <3>3. r.window_end = s.window_end
            BY <3>1, <3>2
        <3> QED BY <2>2, <2>3, <3>3 DEF BatchInv, KeysUnique, OnePerWindow
    <2> HIDE DEF rows
    <2>4. OnePerCard(rows) /\ OnePerWindow(rows)
        BY <2>3 DEF OnePerCard, OnePerWindow
    <2>5. Shapes'
        BY <2>1, <2>2 DEF BatchInv, Shapes
    <2>6. RowsFit'
        BY <2>1, <2>2 DEF BatchInv, Shapes, RowsFit, IsRow
    <2>7. KeysUnique'
        BY <2>1, <2>4 DEF BatchInv, Shapes, KeysUnique, OnePerWindow, OnePerCard
    <2> QED BY <2>5, <2>6, <2>7 DEF BatchInv
<1> QED BY <1>1, <1>2

LEMMA ReplaceKeeps ==
    ASSUME BatchInv, NEW d \in Runs,
           ReplaceFeatures(d) \/ ReplaceInference(d) \/ DbtFails(d)
    PROVE  BatchInv'
<1>1. /\ stage' = [stage EXCEPT ![d] = "built"] \/ stage' = [stage EXCEPT ![d] = "idle"]
      /\ computed' = [computed EXCEPT ![d] = {}]
      /\ features' = features \/ features' = computed[d]
      /\ \/ inference' = inference
         \/ inference' = computed[d] /\ stage[d] = "payment_6h_inference"
      /\ UNCHANGED <<raw, todo, topic, pinot>>
    BY DEF ReplaceFeatures, ReplaceInference, Replace, DbtFails, loadVars
<1>2. failures' \in 0 .. MaxFailures
    BY BoundsAssumption
    DEF ReplaceFeatures, ReplaceInference, Replace, DbtFails, Fails, BatchInv, Shapes
<1>3. Shapes'
    BY <1>1, <1>2 DEF BatchInv, Shapes
<1>4. RowsFit'
    BY <1>1 DEF BatchInv, Shapes, RowsFit, IsRow
<1>5. KeysUnique'
    BY <1>1 DEF BatchInv, Shapes, KeysUnique, OnePerWindow, OnePerCard
<1> QED BY <1>3, <1>4, <1>5 DEF BatchInv

LEMMA LoadKeeps ==
    ASSUME BatchInv, NEW l \in Loads, Extract(l) \/ Killed(l)
    PROVE  BatchInv'
<1>1. UNCHANGED <<raw, features, inference, stage, computed, topic, pinot>>
    BY DEF Extract, Killed, dbtVars
<1>2. todo' = [todo EXCEPT ![l] = inference] \/ todo' = [todo EXCEPT ![l] = {}]
    BY DEF Extract, Killed
<1>3. failures' \in 0 .. MaxFailures
    BY BoundsAssumption DEF Extract, Killed, Fails, BatchInv, Shapes
<1>4. Shapes'
    BY <1>1, <1>2, <1>3 DEF BatchInv, Shapes
<1>5. RowsFit'
    <2>1. \A k \in Loads : \A r \in todo'[k] : IsRow(r)
        BY <1>2 DEF BatchInv, Shapes, RowsFit
    <2>2. raw' = raw /\ \A r : IsRow(r) => IsRow(r)'
        BY <1>1 DEF IsRow
    <2> QED BY <1>1, <2>1, <2>2 DEF BatchInv, RowsFit
<1>6. KeysUnique'
    BY <1>1 DEF BatchInv, KeysUnique
<1> QED BY <1>4, <1>5, <1>6 DEF BatchInv

\* What is appended to a sequence comes last.
LEMMA Appended ==
    ASSUME NEW S, NEW s \in Seq(S), NEW e \in S
    PROVE  /\ Append(s, e) \in Seq(S)
           /\ Len(s) \in Nat /\ Len(Append(s, e)) = Len(s) + 1
           /\ \A i \in 1 .. Len(Append(s, e)) :
                 \/ Append(s, e)[i] = e
                 \/ i \in 1 .. Len(s) /\ Append(s, e)[i] = s[i]
OBVIOUS

LEMMA ProduceKeeps ==
    ASSUME BatchInv, NEW l \in Loads, Produce(l)
    PROVE  BatchInv'
<1>1. PICK r \in todo[l] :
        /\ Len(topic[r.card]) < MaxTopic
        /\ todo' = [todo EXCEPT ![l] = @ \ {r}]
        /\ topic' = topic \/ topic' = [topic EXCEPT ![r.card] = Append(@, r)]
        /\ failures' = failures \/ (failures < MaxFailures /\ failures' = failures + 1)
        /\ UNCHANGED <<raw, features, inference, stage, computed, pinot>>
    BY DEF Produce, Fails, dbtVars
<1>2. r \in AnyRow /\ r.card \in Cards /\ topic[r.card] \in Seq(AnyRow) /\ IsRow(r)
    <2>1. r \in AnyRow /\ IsRow(r)
        BY DEF BatchInv, Shapes, RowsFit
    <2>2. r.card \in Cards
        BY <2>1 DEF AnyRow
    <2> QED BY <2>1, <2>2 DEF BatchInv, Shapes
<1> DEFINE longer == Append(topic[r.card], r)
<1>3. /\ longer \in Seq(AnyRow) /\ Len(longer) <= MaxTopic
      /\ \A i \in 1 .. Len(longer) : longer[i].card = r.card /\ IsRow(longer[i])
    <2>1. \A i \in 1 .. Len(topic[r.card]) :
              topic[r.card][i].card = r.card /\ IsRow(topic[r.card][i])
        BY <1>2 DEF BatchInv, Shapes, RowsFit
    <2>2. /\ longer \in Seq(AnyRow)
          /\ Len(longer) = Len(topic[r.card]) + 1 /\ Len(topic[r.card]) \in Nat
          /\ \A i \in 1 .. Len(longer) :
                \/ longer[i] = r
                \/ i \in 1 .. Len(topic[r.card]) /\ longer[i] = topic[r.card][i]
        BY <1>2, Appended
    <2> HIDE DEF longer
    <2>3. Len(longer) <= MaxTopic
        BY <1>1, <2>2, BoundsAssumption
    <2>4. \A i \in 1 .. Len(longer) : longer[i].card = r.card /\ IsRow(longer[i])
        BY <1>2, <2>1, <2>2
    <2> QED BY <2>2, <2>3, <2>4
<1> HIDE DEF longer
<1>4. topic' = topic \/ topic' = [topic EXCEPT ![r.card] = longer]
    BY <1>1 DEF longer
<1>5. Shapes'
    <2>1. topic' \in [Cards -> Seq(AnyRow)]
        BY <1>2, <1>3, <1>4 DEF BatchInv, Shapes
    <2>2. \A c \in Cards : \A i \in 1 .. Len(topic'[c]) : topic'[c][i].card = c
        BY <1>2, <1>3, <1>4 DEF BatchInv, Shapes
    <2>3. todo' \in [Loads -> SUBSET AnyRow] /\ failures' \in 0 .. MaxFailures
        BY <1>1, BoundsAssumption DEF BatchInv, Shapes
    <2> QED BY <1>1, <2>1, <2>2, <2>3 DEF BatchInv, Shapes
<1>6. RowsFit'
    <2>1. \A k \in Loads : \A q \in todo'[k] : IsRow(q)
        BY <1>1 DEF BatchInv, Shapes, RowsFit
    <2>2. \A c \in Cards : \A i \in 1 .. Len(topic'[c]) : IsRow(topic'[c][i])
        BY <1>2, <1>3, <1>4 DEF BatchInv, Shapes, RowsFit
    <2>3. raw' = raw /\ \A q : IsRow(q) => IsRow(q)'
        BY <1>1 DEF IsRow
    <2> QED BY <1>1, <2>1, <2>2, <2>3 DEF BatchInv, RowsFit
<1>7. KeysUnique'
    <2>1. \A c \in Cards : Len(topic'[c]) <= MaxTopic
        BY <1>2, <1>3, <1>4 DEF BatchInv, Shapes, KeysUnique
    <2> QED BY <1>1, <2>1 DEF BatchInv, KeysUnique
<1> QED BY <1>5, <1>6, <1>7 DEF BatchInv

\* The first element of a sequence and the rest of it are elements of it.
LEMMA HeadTail ==
    ASSUME NEW S, NEW s \in Seq(S), s # <<>>
    PROVE  /\ Head(s) = s[1] /\ 1 \in 1 .. Len(s) /\ Head(s) \in S
           /\ Tail(s) \in Seq(S)
           /\ Len(Tail(s)) = Len(s) - 1
           /\ \A i \in 1 .. Len(Tail(s)) :
                 i + 1 \in 1 .. Len(s) /\ Tail(s)[i] = s[i + 1]
OBVIOUS

\* The row read next is of its topic's card; it replaces no newer one.
LEMMA UpsertKeeps ==
    ASSUME BatchInv, NEW c \in Cards, Upsert(c)
    PROVE  /\ BatchInv'
           /\ \A r \in pinot, s \in pinot' : r.card = s.card => r.window_end <= s.window_end
<1> DEFINE row == Head(topic[c])
           rest == Tail(topic[c])
           old == {s \in pinot : s.card = c}
<1>1. /\ topic[c] \in Seq(AnyRow) /\ topic[c] # <<>>
      /\ topic' = [topic EXCEPT ![c] = rest]
      /\ pinot' = IF \E s \in old : s.window_end > row.window_end THEN pinot
                  ELSE (pinot \ old) \cup {row}
      /\ UNCHANGED <<raw, features, inference, stage, computed, todo, failures>>
    BY DEF Upsert, dbtVars, BatchInv, Shapes
<1>2. row \in AnyRow /\ row.card = c /\ IsRow(row)
    <2>1. row \in AnyRow /\ row = topic[c][1] /\ 1 \in 1 .. Len(topic[c])
        BY <1>1, HeadTail
    <2> HIDE DEF row
    <2> QED BY <2>1 DEF BatchInv, Shapes, RowsFit
<1>3. /\ rest \in Seq(AnyRow) /\ Len(rest) <= MaxTopic
      /\ \A i \in 1 .. Len(rest) : rest[i].card = c /\ IsRow(rest[i])
    <2>1. /\ rest \in Seq(AnyRow) /\ Len(rest) = Len(topic[c]) - 1
          /\ \A i \in 1 .. Len(rest) :
                \E j \in 1 .. Len(topic[c]) : rest[i] = topic[c][j]
        BY <1>1, HeadTail
    <2>2. Len(rest) <= MaxTopic
        BY <1>1, <2>1, BoundsAssumption DEF BatchInv, KeysUnique
    <2>3. \A i \in 1 .. Len(topic[c]) : topic[c][i].card = c /\ IsRow(topic[c][i])
        BY DEF BatchInv, Shapes, RowsFit
    <2> HIDE DEF rest
    <2> QED BY <2>1, <2>2, <2>3
<1> HIDE DEF row, rest
<1>4. \A r \in AnyRow : r.window_end \in Int
    BY DEF AnyRow
<1>5. \A r \in pinot, s \in pinot' : r.card = s.card => r.window_end <= s.window_end
    BY <1>1, <1>2, <1>4 DEF BatchInv, Shapes, KeysUnique, OnePerWindow, OnePerCard
<1>6. /\ pinot' \subseteq AnyRow /\ \A r \in pinot' : IsRow(r)
      /\ \A r, s \in pinot' : r.card = s.card => r = s
    BY <1>1, <1>2 DEF BatchInv, Shapes, RowsFit, KeysUnique, OnePerWindow, OnePerCard
<1>7. Shapes'
    <2>1. topic' \in [Cards -> Seq(AnyRow)]
        BY <1>1, <1>3 DEF BatchInv, Shapes
    <2>2. \A d \in Cards : \A i \in 1 .. Len(topic'[d]) : topic'[d][i].card = d
        BY <1>1, <1>3 DEF BatchInv, Shapes
    <2> QED BY <1>1, <1>6, <2>1, <2>2 DEF BatchInv, Shapes
<1>8. RowsFit'
    <2>1. \A d \in Cards : \A i \in 1 .. Len(topic'[d]) : IsRow(topic'[d][i])
        BY <1>1, <1>3 DEF BatchInv, Shapes, RowsFit
    <2>2. raw' = raw /\ \A q : IsRow(q) => IsRow(q)'
        BY <1>1 DEF IsRow
    <2> QED BY <1>1, <1>6, <2>1, <2>2 DEF BatchInv, RowsFit
<1>9. KeysUnique'
    <2>1. \A d \in Cards : Len(topic'[d]) <= MaxTopic
        BY <1>1, <1>3 DEF BatchInv, Shapes, KeysUnique
    <2> QED BY <1>1, <1>6, <2>1 DEF BatchInv, KeysUnique, OnePerCard, OnePerWindow
<1> QED BY <1>5, <1>7, <1>8, <1>9 DEF BatchInv

LEMMA BatchStep ==
    ASSUME BatchInv, [Next]_vars
    PROVE  /\ BatchInv'
           /\ \A r \in pinot, s \in pinot' : r.card = s.card => r.window_end <= s.window_end
<1>1. \A r \in pinot, s \in pinot : r.card = s.card => r.window_end <= s.window_end
    BY DEF BatchInv, Shapes, KeysUnique, OnePerWindow, OnePerCard, AnyRow
<1>2. CASE \E p \in Payments : Ingest(p)
    BY <1>1, <1>2, IngestKeeps DEF Ingest, loadVars
<1>3. CASE \E d \in Runs : DbtRun(d) \/ DbtFails(d)
    BY <1>1, <1>3, ComputeKeeps, ReplaceKeeps
    DEF DbtRun, ComputeFeatures, ComputeInference, Compute, ReplaceFeatures,
        ReplaceInference, Replace, DbtFails, loadVars
<1>4. CASE \E l \in Loads : Extract(l) \/ Killed(l)
    BY <1>1, <1>4, LoadKeeps DEF Extract, Killed
<1>5. CASE \E l \in Loads : Produce(l)
    BY <1>1, <1>5, ProduceKeeps DEF Produce
<1>6. CASE \E c \in Cards : Upsert(c)
    BY <1>6, UpsertKeeps
<1>7. CASE UNCHANGED vars
    <2>1. UNCHANGED <<raw, features, inference, stage, computed, todo, topic, pinot, failures>>
        BY <1>7 DEF vars, dbtVars, loadVars
    <2>2. Shapes'
        BY <2>1 DEF BatchInv, Shapes
    <2>3. RowsFit'
        BY <2>1 DEF BatchInv, RowsFit, IsRow
    <2>4. KeysUnique'
        BY <2>1 DEF BatchInv, KeysUnique, OnePerWindow, OnePerCard
    <2> QED BY <1>1, <2>1, <2>2, <2>3, <2>4 DEF BatchInv
<1> QED BY <1>2, <1>3, <1>4, <1>5, <1>6, <1>7 DEF Next

LEMMA BatchInvariance == Spec => []BatchInv
<1>1. Init => BatchInv
    BY InitBatch
<1>2. BatchInv /\ [Next]_vars => BatchInv'
    BY BatchStep
<1> QED BY <1>1, <1>2, PTL DEF Spec

-----------------------------------------------------------------------------
(* What a run of dbt computes.                                             *)

\* Every payment is counted by all the windows over that it falls into.
LEMMA WindowsCounted ==
    ASSUME NEW S \in SUBSET Payments, NEW p \in S, NEW newest \in S,
           NEW e \in p.time .. newest.time + Step - 1,
           e % Step = 0, e < p.time + Window
    PROVE  \E r \in payment_6h(S) :
              r.card = p.card /\ r.window_end = e /\ p \in r.counted
<1>1. /\ p.time \in Nat /\ newest.time \in Nat /\ e \in Int
      /\ Step \in Nat \ {0} /\ Window \in Nat \ {0} /\ Day \in Nat \ {0}
    BY PaymentsAssumption, GridAssumption
<1>2. PICK first, last \in S :
          /\ \A q \in S : first.time <= q.time /\ q.time <= last.time
          /\ timeline(S) = {t \in date_trunc(first.time) - Day
                                      .. date_trunc(last.time) + Day : t % Step = 0}
    BY TimelineIs
<1>3. first.time \in Nat /\ last.time \in Nat
    BY PaymentsAssumption
<1>4. date_trunc(first.time) - Day <= e /\ date_trunc(first.time) - Day \in Int
    <2>1. date_trunc(first.time) \in Nat /\ date_trunc(first.time) <= first.time
        BY <1>3, OnGrid
    <2>2. first.time <= p.time /\ p.time <= e
        BY <1>1, <1>2
    <2> HIDE DEF date_trunc
    <2> QED BY <1>1, <1>3, <2>1, <2>2
<1>5. e <= date_trunc(last.time) + Day /\ date_trunc(last.time) + Day \in Int
    <2>1. /\ last.time < date_trunc(last.time) + Day /\ date_trunc(last.time) \in Nat
          /\ (date_trunc(last.time) + Day) % Step = 0
        BY <1>3, OnGrid
    <2>2. date_trunc(last.time) + Day \in Int
        BY <1>1, <2>1
    <2>3. newest.time <= last.time /\ e <= newest.time + Step - 1
        BY <1>2
    <2>4. e < (date_trunc(last.time) + Day) + Step
        <3> HIDE DEF date_trunc
        <3> QED BY <1>1, <1>3, <2>1, <2>3
    <2> DEFINE stop == date_trunc(last.time) + Day
    <2>5. stop \in Int /\ stop % Step = 0 /\ e < stop + Step
        BY <2>1, <2>2, <2>4
    <2>6. e \in Int /\ e % Step = 0 /\ Step \in Nat \ {0}
        BY <1>1
    <2> HIDE DEF stop
    <2>7. e <= stop
        BY <2>5, <2>6, NextOnGrid
    <2> QED BY <2>5, <2>7 DEF stop
<1>6. e \in timeline(S)
    BY <1>1, <1>2, <1>4, <1>5
<1>7. Joins(p, e)
    BY <1>1 DEF Joins
<1> QED BY <1>6, <1>7, RowExists

\* The first point of the grid from a time on.
LEMMA NextPoint ==
    ASSUME NEW t \in Nat, NEW n \in Nat \ {0}
    PROVE  \E e \in t .. t + n - 1 : e % n = 0
<1> DEFINE k == (t + n - 1) \div n
<1>1. t + n - 1 \in Nat /\ k \in Nat
    OBVIOUS
<1>2. k * n \in Nat /\ k * n <= t + n - 1 /\ t + n - 1 < k * n + n
    BY <1>1, DivMod
<1>3. (k * n) % n = 0
    BY <1>1, MultipleIs
<1> HIDE DEF k
<1>4. k * n \in t .. t + n - 1
    BY <1>2
<1> QED BY <1>3, <1>4

\* A window is at least a step long.
LEMMA StepInWindow == Step <= Window
<1>1. Step \in Nat \ {0} /\ Window \in Nat \ {0} /\ Window % Step = 0 /\ 0 % Step = 0
    BY GridAssumption
<1>2. Window < 0 + Step => Window <= 0
    BY <1>1, NextOnGrid
<1> QED BY <1>1, <1>2

\* The first window that counts a card is the first after its earliest payment.
LEMMA FirstWindowChosen ==
    ASSUME NEW S \in SUBSET Payments, NEW r \in payment_6h_inference(payment_6h(S))
    PROVE  \E p \in r.counted :
              /\ p \in S /\ p.card = r.card
              /\ p.time <= r.window_end /\ r.window_end < p.time + Step
              /\ \A q \in S : q.card = r.card => p.time <= q.time
<1>1. /\ r \in payment_6h(S)
      /\ \A s \in payment_6h(S) : s.card = r.card => r.window_end <= s.window_end
    BY DEF payment_6h_inference
<1>2. /\ r.window_end \in Int /\ r.counted # {}
      /\ r.counted = CountedBy(S, r.card, r.window_end)
    BY <1>1, RowsAre DEF AnyRow
<1>3. PICK q \in S : q.card = r.card /\ Joins(q, r.window_end)
    BY <1>2 DEF CountedBy
<1> DEFINE ofCard == {p \in S : p.card = r.card}
<1>4. PICK p \in ofCard : \A o \in ofCard : p.time <= o.time
    <2>1. ofCard \in SUBSET Payments /\ ofCard # {}
        BY <1>3
    <2> HIDE DEF ofCard
    <2> QED BY <2>1, Earliest
<1>5. /\ p.time \in Nat /\ q.time \in Nat
      /\ Step \in Nat \ {0} /\ Window \in Nat \ {0} /\ Step <= Window
    BY PaymentsAssumption, GridAssumption, StepInWindow
<1>6. PICK e \in p.time .. p.time + Step - 1 : e % Step = 0
    BY <1>5, NextPoint
<1>7. \E s \in payment_6h(S) : s.card = p.card /\ s.window_end = e
    <2>1. e < p.time + Window
        BY <1>5, <1>6
    <2> QED BY <1>6, <2>1, WindowsCounted
<1>8. r.window_end <= e
    BY <1>1, <1>7
<1>9. p.time <= q.time /\ q.time <= r.window_end
    BY <1>3, <1>4 DEF Joins
<1>10. /\ r.window_end < p.time + Step /\ Joins(p, r.window_end)
       /\ p.time <= r.window_end
    BY <1>2, <1>5, <1>6, <1>8, <1>9 DEF Joins
<1>11. p \in r.counted
    BY <1>2, <1>10 DEF CountedBy
<1> QED BY <1>4, <1>10, <1>11

\* A row that was chosen for inference, wherever it is now.
IsChosen(r) ==
    \/ r \in inference \cup pinot
    \/ \E d \in Runs : stage[d] = "payment_6h_inference" /\ r \in computed[d]
    \/ \E l \in Loads : r \in todo[l]
    \/ \E c \in Cards : \E i \in 1 .. Len(topic[c]) : r = topic[c][i]

\* Only the second model of dbt chooses rows; the rest hands them on.
LEMMA ChosenStay ==
    ASSUME BatchInv, [Next]_vars, ~\E d \in Runs : ComputeInference(d),
           NEW r, IsChosen(r)'
    PROVE  IsChosen(r)
<1>1. CASE UNCHANGED <<inference, stage, computed, pinot, todo, topic>>
    BY <1>1 DEF IsChosen
<1>2. ASSUME NEW l \in Loads, Extract(l) \/ Killed(l)
      PROVE  IsChosen(r)
    <2>1. /\ UNCHANGED <<inference, stage, computed, pinot, topic>>
          /\ \A k \in Loads : todo'[k] \subseteq todo[k] \cup inference
        BY <1>2 DEF Extract, Killed, dbtVars, BatchInv, Shapes
    <2> QED BY <2>1 DEF IsChosen
<1>3. ASSUME NEW l \in Loads, Produce(l)
      PROVE  IsChosen(r)
    <2>1. PICK s \in todo[l] :
            /\ todo' = [todo EXCEPT ![l] = @ \ {s}]
            /\ topic' = topic \/ topic' = [topic EXCEPT ![s.card] = Append(@, s)]
            /\ UNCHANGED <<inference, stage, computed, pinot>>
        BY <1>3 DEF Produce, dbtVars
    <2>2. s \in AnyRow
        BY DEF BatchInv, Shapes
    <2>3. s.card \in Cards /\ topic[s.card] \in Seq(AnyRow)
        BY <2>2 DEF AnyRow, BatchInv, Shapes
    <2>4. \A c \in Cards : \A i \in 1 .. Len(topic'[c]) :
              \/ topic'[c][i] = s
              \/ i \in 1 .. Len(topic[c]) /\ topic'[c][i] = topic[c][i]
        <3>1. \A i \in 1 .. Len(Append(topic[s.card], s)) :
                  \/ Append(topic[s.card], s)[i] = s
                  \/ /\ i \in 1 .. Len(topic[s.card])
                     /\ Append(topic[s.card], s)[i] = topic[s.card][i]
            BY <2>2, <2>3, Appended
        <3> QED BY <2>1, <2>3, <3>1 DEF BatchInv, Shapes
    <2>5. IsChosen(s)
        BY DEF IsChosen
    <2>6. \A k \in Loads : todo'[k] \subseteq todo[k]
        BY <2>1 DEF BatchInv, Shapes
    <2> QED BY <2>1, <2>4, <2>5, <2>6 DEF IsChosen
<1>4. ASSUME NEW c \in Cards, Upsert(c)
      PROVE  IsChosen(r)
    <2>1. /\ topic[c] \in Seq(AnyRow) /\ topic[c] # <<>>
          /\ topic' = [topic EXCEPT ![c] = Tail(topic[c])]
          /\ pinot' \subseteq pinot \cup {Head(topic[c])}
          /\ UNCHANGED <<inference, stage, computed, todo>>
        BY <1>4 DEF Upsert, dbtVars, BatchInv, Shapes
    <2>2. /\ Head(topic[c]) = topic[c][1] /\ 1 \in 1 .. Len(topic[c])
          /\ \A i \in 1 .. Len(Tail(topic[c])) :
                /\ i + 1 \in 1 .. Len(topic[c])
                /\ Tail(topic[c])[i] = topic[c][i + 1]
        BY <2>1, HeadTail
    <2>3. \A d \in Cards : \A i \in 1 .. Len(topic'[d]) :
              \E j \in 1 .. Len(topic[d]) : topic'[d][i] = topic[d][j]
        BY <2>1, <2>2 DEF BatchInv, Shapes
    <2> QED BY <2>1, <2>2, <2>3 DEF IsChosen
<1>5. ASSUME NEW d \in Runs,
             ComputeFeatures(d) \/ ReplaceFeatures(d) \/ ReplaceInference(d) \/ DbtFails(d)
      PROVE  IsChosen(r)
    <2>1. /\ UNCHANGED <<pinot, todo, topic>>
          /\ \/ inference' = inference
             \/ inference' = computed[d] /\ stage[d] = "payment_6h_inference"
          /\ \E to \in {"payment_6h", "built", "idle"} :
                stage' = [stage EXCEPT ![d] = to]
          /\ \E rows : computed' = [computed EXCEPT ![d] = rows]
        BY <1>5 DEF ComputeFeatures, Compute, ReplaceFeatures, ReplaceInference,
                    Replace, DbtFails, loadVars
    <2>2. \A e \in Runs :
              stage'[e] = "payment_6h_inference" =>
                  stage[e] = "payment_6h_inference" /\ computed'[e] = computed[e]
        BY <2>1 DEF BatchInv, Shapes
    <2> QED BY <2>1, <2>2 DEF IsChosen
<1> QED
    BY <1>1, <1>2, <1>3, <1>4, <1>5
    DEF Next, DbtRun, Ingest, vars, dbtVars, loadVars

\* Rows computed from payments among which is the earliest of each of their
\* cards.
FromEarliest(rows) ==
    \E R \in SUBSET raw :
        /\ rows = payment_6h(R)
        /\ \A p \in R : \E o \in R :
              /\ o.card = p.card
              /\ \A q \in raw : q.card = p.card => o.time <= q.time

\* The features, and those a run is about to put in their place, have the first
\* window of each card they have, and every row chosen is of the first window.
InOrderInv ==
    /\ FromEarliest(features)
    /\ \A d \in Runs : stage[d] = "payment_6h" => FromEarliest(computed[d])
    /\ \A r : IsChosen(r) => IsFirstWindow(r)

\* A query that starts now reads the earliest payment of each card.
LEMMA ReadsEarliest ==
    ASSUME raw \in SUBSET Payments
    PROVE  FromEarliest(payment_6h(raw))
<1>1. ASSUME NEW p \in raw
      PROVE  \E o \in raw : /\ o.card = p.card
                            /\ \A q \in raw : q.card = p.card => o.time <= q.time
    <2> DEFINE ofCard == {q \in raw : q.card = p.card}
    <2>1. ofCard \in SUBSET Payments /\ ofCard # {}
        OBVIOUS
    <2>2. PICK o \in ofCard : \A q \in ofCard : o.time <= q.time
        <3> HIDE DEF ofCard
        <3> QED BY <2>1, Earliest
    <2> QED BY <2>2
<1>2. raw \in SUBSET raw
    OBVIOUS
<1> QED BY <1>1, <1>2 DEF FromEarliest

\* The windows chosen from such rows are the first ones.
LEMMA ChoosesFirst ==
    ASSUME raw \in SUBSET Payments, NEW rows, FromEarliest(rows),
           NEW r \in payment_6h_inference(rows)
    PROVE  IsFirstWindow(r)
<1>1. PICK R \in SUBSET raw :
          /\ rows = payment_6h(R)
          /\ \A p \in R : \E o \in R :
                /\ o.card = p.card
                /\ \A q \in raw : q.card = p.card => o.time <= q.time
    BY DEF FromEarliest
<1>2. R \in SUBSET Payments
    OBVIOUS
<1>3. PICK p \in R :
          /\ p.card = r.card
          /\ p.time <= r.window_end /\ r.window_end < p.time + Step
          /\ \A q \in R : q.card = r.card => p.time <= q.time
    BY <1>1, <1>2, FirstWindowChosen
<1>4. PICK o \in R : /\ o.card = p.card
                     /\ \A q \in raw : q.card = p.card => o.time <= q.time
    BY <1>1
<1>5. \A q \in raw : q.time \in Nat
    BY PaymentsAssumption
<1>6. \A q \in raw : q.card = r.card => p.time <= q.time
    BY <1>3, <1>4, <1>5
<1> QED BY <1>3, <1>6 DEF IsFirstWindow

InOrder == \A p \in raw' \ raw, q \in raw : q.card = p.card => q.time <= p.time

LEMMA InOrderStep ==
    ASSUME BatchInv, InOrderInv, [Next]_vars, InOrder
    PROVE  InOrderInv'
<1>1. /\ raw \in SUBSET Payments /\ raw' \in SUBSET Payments /\ raw \subseteq raw'
      /\ \A p \in raw' : p.time \in Nat
    <2>1. raw' \in SUBSET Payments
        BY BatchStep DEF BatchInv, Shapes
    <2>2. raw \subseteq raw'
        BY DEF Next, Ingest, DbtRun, ComputeFeatures, ComputeInference, Compute,
               ReplaceFeatures, ReplaceInference, Replace, DbtFails, Extract,
               Produce, Killed, Upsert, vars
    <2> QED BY <2>1, <2>2, PaymentsAssumption DEF BatchInv, Shapes
\* The earliest payment of a card stays the earliest.
<1>2. ASSUME NEW o \in raw, NEW card, o.card = card,
             \A q \in raw : q.card = card => o.time <= q.time
      PROVE  \A q \in raw' : q.card = card => o.time <= q.time
    BY <1>1, <1>2 DEF InOrder
<1>3. ASSUME NEW r, IsFirstWindow(r) PROVE IsFirstWindow(r)'
    BY <1>1, <1>2, <1>3 DEF IsFirstWindow
<1>4. ASSUME NEW rows, FromEarliest(rows) PROVE FromEarliest(rows)'
    <2>1. PICK R \in SUBSET raw :
              /\ rows = payment_6h(R)
              /\ \A p \in R : \E o \in R :
                    /\ o.card = p.card
                    /\ \A q \in raw : q.card = p.card => o.time <= q.time
        BY <1>4 DEF FromEarliest
    <2>2. \A p \in R : \E o \in R :
              /\ o.card = p.card
              /\ \A q \in raw' : q.card = p.card => o.time <= q.time
        BY <2>1, <1>2
    <2>3. R \in SUBSET raw'
        BY <1>1
    <2> QED BY <2>1, <2>2, <2>3 DEF FromEarliest
<1>5. FromEarliest(payment_6h(raw))
    BY <1>1, ReadsEarliest
\* The features ...
<1>6. FromEarliest(features')
    <2>1. CASE \E d \in Runs : ReplaceFeatures(d)
        BY <2>1 DEF ReplaceFeatures, Replace, InOrderInv
    <2>2. CASE ~\E d \in Runs : ReplaceFeatures(d)
        <3>1. features' = features
            BY <2>2 DEF Next, Ingest, DbtRun, ComputeFeatures, ComputeInference,
                Compute, ReplaceInference, Replace, DbtFails, Extract, Produce,
                Killed, Upsert, vars, dbtVars, loadVars
        <3> QED BY <3>1 DEF InOrderInv
    <2> QED BY <2>1, <2>2
\* ... and those a run is about to put in their place.
<1>7. ASSUME NEW d \in Runs, stage'[d] = "payment_6h"
      PROVE  FromEarliest(computed'[d])
    <2>1. CASE ComputeFeatures(d)
        <3>1. computed'[d] = payment_6h(raw)
            BY <2>1 DEF ComputeFeatures, Compute, BatchInv, Shapes
        <3> QED BY <1>5, <3>1
    <2>2. CASE ~ComputeFeatures(d)
        <3>1. stage[d] = "payment_6h" /\ computed'[d] = computed[d]
            <4>1. ASSUME NEW e \in Runs, DbtRun(e) \/ DbtFails(e)
                  PROVE  stage[d] = "payment_6h" /\ computed'[d] = computed[d]
                BY <1>7, <2>2, <4>1
                DEF DbtRun, ComputeFeatures, ComputeInference, Compute, ReplaceFeatures,
                    ReplaceInference, Replace, DbtFails, BatchInv, Shapes
            <4>2. CASE UNCHANGED <<stage, computed>>
                BY <1>7, <4>2
            <4> QED BY <4>1, <4>2
                DEF Next, Ingest, Extract, Produce, Killed, Upsert, vars, dbtVars
        <3> QED BY <3>1 DEF InOrderInv
    <2> QED BY <2>1, <2>2
<1>8. ASSUME NEW r, IsChosen(r)' PROVE IsFirstWindow(r)
    <2>1. CASE \E d \in Runs : ComputeInference(d)
        <3>1. PICK d \in Runs :
                /\ stage' = [stage EXCEPT ![d] = "payment_6h_inference"]
                /\ computed' = [computed EXCEPT ![d] = payment_6h_inference(features)]
                /\ UNCHANGED <<raw, features, inference, todo, topic, pinot>>
            BY <2>1 DEF ComputeInference, Compute, loadVars
        <3>2. IsChosen(r) \/ r \in payment_6h_inference(features)
            BY <1>8, <3>1 DEF IsChosen, BatchInv, Shapes
        <3>3. r \in payment_6h_inference(features) => IsFirstWindow(r)
            BY <1>1, ChoosesFirst DEF InOrderInv
        <3> QED BY <3>2, <3>3 DEF InOrderInv
    <2>2. CASE ~\E d \in Runs : ComputeInference(d)
        BY <1>8, <2>2, ChosenStay DEF InOrderInv
    <2> QED BY <2>1, <2>2
<1>9. FromEarliest(features)'
    <2>1. PICK rows : rows = features'
        OBVIOUS
    <2>2. FromEarliest(rows)'
        BY <1>4, <1>6, <2>1
    <2> QED BY <2>1, <2>2 DEF FromEarliest
<1>10. \A d \in Runs : stage'[d] = "payment_6h" => FromEarliest(computed[d])'
    BY <1>4, <1>7 DEF FromEarliest
<1>11. \A r : IsChosen(r)' => IsFirstWindow(r)'
    BY <1>3, <1>8
<1> QED BY <1>9, <1>10, <1>11 DEF InOrderInv

-----------------------------------------------------------------------------
(* The theorems.                                                           *)

\* Wherever a row is, in a table, in a load job's hands or in a topic, it is of
\* a window of the grid and counts written payments of its card in that window;
\* no table has two rows of its key.
THEOREM BatchTypes == Spec => []TypeOK
<1>1. BatchInv => TypeOK
    BY DEF BatchInv, Shapes, RowsFit, KeysUnique, OnePerWindow, OnePerCard, TypeOK
<1> QED BY <1>1, BatchInvariance, PTL

\* Pinot never goes back to an earlier window of a card, in whatever order load
\* jobs that overlap, fail or are killed send their rows.
THEOREM WindowsAdvance == Spec => NeverBackInTime
<1>1. BatchInv /\ [Next]_vars =>
        [\A r \in pinot, s \in pinot' : r.card = s.card => r.window_end <= s.window_end]_vars
    BY BatchStep
<1> QED BY <1>1, BatchInvariance, PTL DEF Spec, NeverBackInTime

\* No window that is over is missed, whatever the window, its step and the day.
THEOREM NoWindowMissed == Spec => []EveryWindowCounts
<1>1. BatchInv => EveryWindowCounts
    BY WindowsCounted DEF BatchInv, Shapes, EveryWindowCounts
<1> QED BY <1>1, BatchInvariance, PTL

\* What is computed for inference is never the latest window of a card but the
\* first one it has: new payments only change it while they fall into it.
THEOREM OldestWindowForInference == Spec => []FirstWindowOnly
<1>1. BatchInv => FirstWindowOnly
    <2>1. raw \in SUBSET Payments => FirstWindowOnly
        BY FirstWindowChosen DEF FirstWindowOnly
    <2> QED BY <2>1 DEF BatchInv, Shapes
<1> QED BY <1>1, BatchInvariance, PTL

\* While the payments of a card are written in their order, the row Pinot has of
\* it stays in the window of its very first payment, however runs of dbt and
\* load jobs overlap: an older run may drop a card, but gives none a later window.
THEOREM InferenceIsStuck == Spec /\ PaymentsInOrder => []StuckAtFirstWindow
<1>1. Init => InOrderInv
    <2>1. ASSUME Init PROVE InOrderInv
        <3>1. {} \in SUBSET raw /\ features = payment_6h({})
            BY <2>1 DEF Init, payment_6h
        <3>2. \A r : ~IsChosen(r)
            BY <2>1 DEF Init, IsChosen
        <3>3. \A d \in Runs : stage[d] # "payment_6h"
            BY <2>1 DEF Init
        <3> QED BY <3>1, <3>2, <3>3 DEF InOrderInv, FromEarliest
    <2> QED BY <2>1
<1>2. /\ BatchInv /\ InOrderInv /\ [Next]_vars
      /\ [\A p \in raw' \ raw, q \in raw : q.card = p.card => q.time <= p.time]_vars
      => InOrderInv'
    <2>1. UNCHANGED vars =>
            \A p \in raw' \ raw, q \in raw : q.card = p.card => q.time <= p.time
        BY DEF vars
    <2> QED BY <2>1, InOrderStep DEF InOrder
<1>3. InOrderInv => StuckAtFirstWindow
    BY DEF InOrderInv, StuckAtFirstWindow, IsChosen
<1> QED BY <1>1, <1>2, <1>3, BatchInvariance, PTL DEF Spec, PaymentsInOrder

=============================================================================
