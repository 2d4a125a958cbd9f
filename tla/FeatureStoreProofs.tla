------------------------- MODULE FeatureStoreProofs -------------------------
(***************************************************************************)
(* Proofs about the provisioner of Pinot and the feature store for every   *)
(* configuration, every content of the topics and every request.           *)
(***************************************************************************)
EXTENDS FeatureStore, FiniteSetTheorems, TLAPS

-----------------------------------------------------------------------------
(* The provisioner.                                                        *)

\* What the job has done when it is at a step: the tables it has still to
\* delete, then the schemas, then what it has still to create or to collect an
\* exception for.
Progress ==
    /\ pc \in {"delete_table", "delete_schema"} => todo \cap Configured = {}
    /\ pc \in {"upsert_schema", "upsert_table"} => todo \subseteq Configured
    /\ pc # "stopped" =>
        \A n \in Names \ Configured :
            tables[n] # "none" => pc = "delete_table" /\ n \in todo
    /\ pc \notin {"stopped", "delete_table"} =>
        \A n \in Names \ Configured :
            schemas[n] # "none" =>
                (pc = "delete_schema" /\ n \in todo) \/ <<"schema", n>> \in failed
    /\ pc \in {"upsert_schema", "upsert_table", "done"} =>
        \A n \in Configured :
            \/ schemas[n] = "new"
            \/ pc = "upsert_schema" /\ n \in todo
            \/ <<"schema", n>> \in failed
    /\ pc \in {"upsert_table", "done"} =>
        \A n \in Configured :
            \/ tables[n] = "new"
            \/ pc = "upsert_table" /\ n \in todo
            \/ <<"table", n>> \in failed
    /\ pc = "done" => failed = {} /\ todo = {}

PInv == ProvisionTypeOK /\ Progress

LEMMA InitProgress == Init => PInv
BY FailuresAssumption DEF Init, PInv, ProvisionTypeOK, Progress

\* Every step of the job, with any failure, keeps what was achieved.
LEMMA ProvisionKeeps ==
    ASSUME PInv, Provision
    PROVE  PInv'
<1> USE NamesAssumption, FailuresAssumption
<1> USE DEF PInv
<1>1. CASE main
    BY <1>1 DEF main, ProvisionTypeOK, Progress, Existing
<1>2. CASE Killed
    BY <1>2 DEF Killed, Fails, ProvisionTypeOK, Progress
<1>3. CASE get_schemas
    BY <1>3 DEF get_schemas, ProvisionTypeOK, Progress, Existing
<1>4. CASE NextLoop
    BY <1>4 DEF NextLoop, ProvisionTypeOK, Progress
<1>5. CASE End
    BY <1>5 DEF End, ProvisionTypeOK, Progress
<1>6. CASE \E n \in Names : delete_table(n)
    BY <1>6 DEF delete_table, Fails, ProvisionTypeOK, Progress
<1>7. CASE \E n \in Names : delete_schema(n)
    <2> PICK n \in Names : delete_schema(n)
        BY <1>7
    <2>1. ProvisionTypeOK'
        BY DEF delete_schema, Item, ItemRefused, Fails, ProvisionTypeOK
    <2>2. Progress'
        BY DEF delete_schema, Item, ItemRefused, ProvisionTypeOK, Progress
    <2> QED BY <2>1, <2>2
<1>8. CASE \E n \in Names : upsert_schema(n)
    <2> PICK n \in Names : upsert_schema(n)
        BY <1>8
    <2>1. ProvisionTypeOK'
        BY DEF upsert_schema, Item, Fails, ProvisionTypeOK
    <2>2. Progress'
        BY DEF upsert_schema, Item, ProvisionTypeOK, Progress
    <2> QED BY <2>1, <2>2
<1>9. CASE \E n \in Names : upsert_table(n)
    <2> PICK n \in Names : upsert_table(n)
        BY <1>9
    <2>1. ProvisionTypeOK'
        BY DEF upsert_table, Item, ItemRefused, Fails, ProvisionTypeOK
    <2>2. Progress'
        BY DEF upsert_table, Item, ItemRefused, ProvisionTypeOK, Progress
    <2> QED BY <2>1, <2>2
<1> QED BY <1>1, <1>2, <1>3, <1>4, <1>5, <1>6, <1>7, <1>8, <1>9 DEF Provision, Job

LEMMA ProvisionStutters == PInv /\ UNCHANGED provisionVars => PInv'
BY DEF provisionVars, PInv, ProvisionTypeOK, Progress

-----------------------------------------------------------------------------
(* The tables.                                                             *)

LEMMA Topics ==
    ASSUME NEW f \in Features
    PROVE  /\ Len(Topic[f]) \in Nat
           /\ \A n \in 1 .. Len(Topic[f]) :
                Topic[f][n] \in Range(Topic[f]) /\ Topic[f][n].at \in Int
<1> DEFINE t == Topic[f]
<1>1. t \in Seq(Range(t)) /\ \A r \in Range(t) : r.at \in Int
    BY TopicAssumption
<1>2. Len(t) \in Nat /\ \A n \in 1 .. Len(t) : t[n] \in Range(t)
    <2> HIDE DEF t
    <2> QED BY <1>1
<1> QED BY <1>1, <1>2

HasKeys(f, n, keys) == \A c \in entities[f] : Topic[f][n][c] = keys[c]

\* Every query asks for one card, and a card has one account, in all topics.
LEMMA OneCard ==
    ASSUME NEW f \in Features, NEW n \in 1 .. Len(Topic[f]),
           NEW g \in Features, NEW m \in 1 .. Len(Topic[g]), NEW keys,
           HasKeys(f, n, keys), HasKeys(g, m, keys)
    PROVE  KeyOf(Topic[f][n]) = KeyOf(Topic[g][m])
<1>1. "card_id" \in entities[f] /\ "card_id" \in entities[g]
    BY DEF entities, Columns
<1>2. Topic[f][n]["card_id"] = Topic[g][m]["card_id"]
    BY <1>1 DEF HasKeys
<1>3. /\ Topic[f][n] \in UNION {Range(Topic[h]) : h \in Features}
      /\ Topic[g][m] \in UNION {Range(Topic[h]) : h \in Features}
    BY Topics
<1> QED BY <1>2, <1>3, CardAssumption

\* Records with one key answer the same queries.
LEMMA SameKeys ==
    ASSUME NEW f \in Features, NEW n, NEW m, NEW keys,
           KeyOf(Topic[f][n]) = KeyOf(Topic[f][m]), HasKeys(f, n, keys)
    PROVE  HasKeys(f, m, keys)
<1>1. ASSUME NEW c \in entities[f]
      PROVE  Topic[f][m][c] = keys[c]
    <2>1. c \in Columns
        BY DEF entities, Columns
    <2>2. KeyOf(Topic[f][n])[c] = KeyOf(Topic[f][m])[c]
        OBVIOUS
    <2> QED BY <2>1, <2>2 DEF KeyOf, HasKeys
<1> QED BY <1>1 DEF HasKeys

TablesTyped ==
    /\ ingested \in [Features -> Nat] /\ rows \in [Features -> SUBSET Nat]
    /\ \A f \in Features : /\ ingested[f] \in 0 .. Len(Topic[f])
                           /\ rows[f] \subseteq 1 .. ingested[f]

\* An upsert table holds one record of each key it has read, the newest; the
\* others hold all they have read.
Held ==
    /\ \A f \in Upserted : \A m, n \in rows[f] :
          KeyOf(Topic[f][m]) = KeyOf(Topic[f][n]) => m = n
    /\ \A f \in Upserted : \A n \in 1 .. ingested[f] : \E m \in rows[f] :
          KeyOf(Topic[f][m]) = KeyOf(Topic[f][n]) /\ Topic[f][n].at <= Topic[f][m].at
    /\ \A f \in Features \ Upserted : rows[f] = 1 .. ingested[f]

LEMMA ReadKeepsTypes ==
    ASSUME TablesTyped, NEW f \in Features, NEW n, NEW held,
           held \subseteq rows[f] \cup {n}, Read(f, n, held)
    PROVE  /\ TablesTyped'
           /\ n \in 1 .. Len(Topic[f]) /\ n = ingested[f] + 1
           /\ ingested'[f] = n /\ rows'[f] = held
           /\ \A g \in Features \ {f} : ingested'[g] = ingested[g] /\ rows'[g] = rows[g]
<1>1. /\ Len(Topic[f]) \in Nat /\ n \in 1 .. Len(Topic[f]) /\ n = ingested[f] + 1
      /\ ingested[f] \in Nat /\ rows[f] \subseteq 1 .. ingested[f]
    BY Topics DEF Read, Written, TablesTyped
<1>2. /\ ingested'[f] = n /\ rows'[f] = held
      /\ \A g \in Features \ {f} : ingested'[g] = ingested[g] /\ rows'[g] = rows[g]
    BY DEF Read, TablesTyped
<1>3. held \subseteq 1 .. n
    BY <1>1
<1>4. ingested' \in [Features -> Nat] /\ rows' \in [Features -> SUBSET Nat]
    BY <1>1, <1>3 DEF Read, TablesTyped
<1>5. ASSUME NEW g \in Features
      PROVE  ingested'[g] \in 0 .. Len(Topic[g]) /\ rows'[g] \subseteq 1 .. ingested'[g]
    <2>1. CASE g = f
        <3>1. n \in 0 .. Len(Topic[g])
            BY <1>1, <2>1
        <3>2. ingested'[g] = n /\ rows'[g] = held
            BY <1>2, <2>1
        <3> QED BY <1>3, <3>1, <3>2
    <2>2. CASE g # f
        BY <1>2, <2>2 DEF TablesTyped
    <2> QED BY <2>1, <2>2
<1> QED BY <1>1, <1>2, <1>4, <1>5 DEF TablesTyped

\* What a table reads next leaves it as its configuration says.
LEMMA IngestHolds ==
    ASSUME TablesTyped, Held, NEW f \in Features, Ingest(f)
    PROVE  /\ TablesTyped' /\ Held'
           /\ \A g \in Features : ingested[g] <= ingested'[g]
<1> DEFINE n == ingested[f] + 1
           newer == \E m \in SameKey(f, n) : Topic[f][m].at > Topic[f][n].at
           held == IF f \notin Upserted THEN rows[f] \cup {n}
                   ELSE IF newer THEN rows[f]
                   ELSE (rows[f] \ SameKey(f, n)) \cup {n}
<1>1. Read(f, n, held) /\ held \subseteq rows[f] \cup {n}
    BY DEF Ingest
<1>2. /\ TablesTyped'
      /\ n \in 1 .. Len(Topic[f])
      /\ ingested'[f] = n /\ rows'[f] = held
      /\ \A g \in Features \ {f} : ingested'[g] = ingested[g] /\ rows'[g] = rows[g]
    <2> HIDE DEF held, n
    <2> QED BY <1>1, ReadKeepsTypes
<1>3. \A g \in Features : ingested[g] \in Nat /\ ingested[g] <= ingested'[g]
    <2> SUFFICES ASSUME NEW g \in Features
                 PROVE  ingested[g] \in Nat /\ ingested[g] <= ingested'[g]
        OBVIOUS
    <2>1. ingested[g] \in Nat
        BY DEF TablesTyped
    <2>2. ingested'[g] = ingested[g] \/ ingested'[g] = ingested[g] + 1
        BY <1>2
    <2> HIDE DEF held, n
    <2> QED BY <2>1, <2>2
<1>4. CASE f \notin Upserted
    <2>1. rows[f] = 1 .. ingested[f] /\ held = rows[f] \cup {n}
        BY <1>4 DEF Held
    <2>2. rows'[f] = 1 .. ingested'[f]
        <3>1. rows'[f] = (1 .. ingested[f]) \cup {ingested[f] + 1}
            BY <1>2, <2>1
        <3>2. ingested'[f] = ingested[f] + 1 /\ ingested[f] \in Nat
            BY <1>2, <1>3
        <3> QED BY <3>1, <3>2
    <2>3. Held'
        BY <1>2, <1>4, <2>2 DEF Held, Upserted, Features
    <2> QED BY <1>2, <1>3, <2>3
<1>5. CASE f \in Upserted
    <2> DEFINE K(m) == KeyOf(Topic[f][m])
               At(m) == Topic[f][m].at
    <2>1. /\ \A m, k \in rows[f] : K(m) = K(k) => m = k
          /\ \A k \in 1 .. ingested[f] : \E m \in rows[f] : K(m) = K(k) /\ At(k) <= At(m)
          /\ rows[f] \subseteq 1 .. ingested[f]
        BY <1>5 DEF Held, TablesTyped
    <2>2. \A k \in 1 .. n : At(k) \in Int
        <3>1. \A k \in 1 .. n : k \in 1 .. Len(Topic[f])
            BY <1>2, Topics
        <3> QED BY <3>1, Topics
    <2>3. SameKey(f, n) = {m \in rows[f] : K(m) = K(n)}
        BY DEF SameKey
    <2> DEFINE One(set) == \A m, k \in set : K(m) = K(k) => m = k
               Newest(set, last) ==
                  \A k \in 1 .. last : \E m \in set : K(m) = K(k) /\ At(k) <= At(m)
    <2>4. One(held) /\ Newest(held, n)
        <3>0. \A k \in 1 .. n : k = n \/ k \in 1 .. ingested[f]
            BY <1>3
        <3>1. CASE newer
            <4>1. held = rows[f]
                BY <1>5, <3>1
            <4>2. PICK m \in rows[f] : K(m) = K(n) /\ At(m) > At(n)
                BY <2>3, <3>1
            <4>3. m \in 1 .. n /\ n \in 1 .. n
                BY <1>2, <2>1, <1>3
            <4>4. At(n) <= At(m)
                BY <2>2, <4>2, <4>3
            <4> HIDE DEF K, At, held, n
            <4> QED BY <2>1, <3>0, <4>1, <4>2, <4>4
        <3>2. CASE ~newer
            <4>1. held = {m \in rows[f] : K(m) # K(n)} \cup {n}
                BY <1>5, <2>3, <3>2
            <4>2. \A m \in rows[f] : K(m) = K(n) => ~(At(m) > At(n))
                BY <2>3, <3>2
            <4>3. \A m \in rows[f] : m \in 1 .. n /\ m # n
                BY <2>1, <1>2, <1>3
            <4>4. n \in 1 .. n
                BY <1>2
            <4>5. \A m \in rows[f] : K(m) = K(n) => At(m) <= At(n)
                BY <2>2, <4>2, <4>3, <4>4
            <4>6. One(held)
                <5> HIDE DEF K, At, held, n
                <5> QED BY <2>1, <4>1
            <4>7. ASSUME NEW k \in 1 .. n
                  PROVE  \E m \in held : K(m) = K(k) /\ At(k) <= At(m)
                <5>1. At(k) \in Int /\ At(n) \in Int
                    BY <2>2, <4>4
                <5> HIDE DEF K, At, held, n
                <5>2. CASE k = n
                    <6>1. At(n) <= At(n)
                        BY <5>1
                    <6> QED BY <4>1, <5>2, <6>1
                <5>3. CASE k # n
                    <6>1. PICK m \in rows[f] : K(m) = K(k) /\ At(k) <= At(m)
                        BY <2>1, <3>0, <5>3
                    <6>2. CASE K(m) = K(n)
                        <7>1. At(m) \in Int /\ At(m) <= At(n)
                            BY <2>2, <4>3, <4>5, <6>2
                        <7>2. At(k) <= At(n)
                            BY <5>1, <6>1, <7>1
                        <7> QED BY <4>1, <6>1, <6>2, <7>2
                    <6>3. CASE K(m) # K(n)
                        BY <4>1, <6>1, <6>3
                    <6> QED BY <6>2, <6>3
                <5> QED BY <5>2, <5>3
            <4> QED BY <4>6, <4>7
        <3> QED BY <3>1, <3>2
    <2>5. One(rows'[f]) /\ Newest(rows'[f], ingested'[f])
        BY <1>2, <2>4
    <2>6. f \notin Features \ Upserted /\ \A g \in Upserted : g = f
        BY <1>5 DEF Upserted
    <2>7. \A g \in Features \ Upserted : rows'[g] = 1 .. ingested'[g]
        BY <1>2, <2>6 DEF Held
    <2>8. Held'
        BY <2>5, <2>6, <2>7 DEF Held
    <2> QED BY <1>2, <1>3, <2>8
<1> QED BY <1>4, <1>5

-----------------------------------------------------------------------------
(* Queries.                                                                *)

\* The records a query finds have one key, so it has one row or none, and that
\* is made of all of them: of several withdrawals by the GROUP BY, of one batch
\* record because the table is upserted.
LEMMA OneRow ==
    ASSUME TablesTyped, Held, NEW f \in Features, NEW keys
    PROVE  /\ \A n \in Found(f, keys) :
                /\ n \in rows[f] /\ n \in 1 .. ingested[f] /\ n \in 1 .. Len(Topic[f])
                /\ HasKeys(f, n, keys)
           /\ \A r \in Rows(f, keys) :
                /\ r.from = Found(f, keys)
                /\ \E n \in Found(f, keys) : r.key = KeyOf(Topic[f][n])
           /\ Rows(f, keys) = {} <=> Found(f, keys) = {}
           /\ StatusOf(f, keys) = IF tables[f] = "none" THEN "500"
                                  ELSE IF Found(f, keys) = {} THEN "404" ELSE "200"
<1> DEFINE found == Found(f, keys)
           row(n) == [key |-> KeyOf(Topic[f][n]),
                      from |-> IF f \in Grouped
                               THEN {m \in found : KeyOf(Topic[f][m]) = KeyOf(Topic[f][n])}
                               ELSE {n}]
<1>1. \A n \in found : /\ n \in rows[f] /\ n \in 1 .. ingested[f] /\ n \in 1 .. Len(Topic[f])
                       /\ HasKeys(f, n, keys)
    BY Topics DEF Found, Matches, HasKeys, TablesTyped
<1>2. \A m, n \in found : KeyOf(Topic[f][m]) = KeyOf(Topic[f][n])
    BY <1>1, OneCard
<1>3. f \notin Grouped => \A m, n \in found : m = n
    BY <1>1, <1>2 DEF Held, Grouped, Upserted, Features
<1>4. \A n \in found : row(n) = [key |-> KeyOf(Topic[f][n]), from |-> found]
    <2> SUFFICES ASSUME NEW n \in found
                 PROVE  row(n).from = found
        OBVIOUS
    <2>1. CASE f \in Grouped
        BY <1>2, <2>1
    <2>2. CASE f \notin Grouped
        BY <1>3, <2>2
    <2> QED BY <2>1, <2>2
<1>5. Rows(f, keys) = {row(n) : n \in found}
    BY DEF Rows
<1>6. \A m, n \in found : row(m) = row(n)
    <2> SUFFICES ASSUME NEW m \in found, NEW n \in found
                 PROVE  row(m) = row(n)
        OBVIOUS
    <2>1. KeyOf(Topic[f][m]) = KeyOf(Topic[f][n])
        BY <1>2
    <2> QED BY <1>4, <2>1
<1> HIDE DEF found, row
<1>7. Rows(f, keys) = {} <=> found = {}
    BY <1>5
<1>8. Rows(f, keys) = {} \/ \E r : Rows(f, keys) = {r}
    BY <1>5, <1>6
<1>9. Cardinality(Rows(f, keys)) = IF found = {} THEN 0 ELSE 1
    BY <1>7, <1>8, FS_EmptySet, FS_Singleton
<1>10. StatusOf(f, keys) = IF tables[f] = "none" THEN "500"
                           ELSE IF found = {} THEN "404" ELSE "200"
    BY <1>9 DEF StatusOf
<1>11. ASSUME NEW r \in Rows(f, keys)
       PROVE  /\ r.from = found
              /\ \E n \in found : r.key = KeyOf(Topic[f][n])
    <2>1. PICK n \in found : r = row(n)
        BY <1>5
    <2>2. r = [key |-> KeyOf(Topic[f][n]), from |-> found]
        BY <1>4, <2>1
    <2> QED BY <2>2
<1> QED BY <1>1, <1>7, <1>10, <1>11 DEF found

-----------------------------------------------------------------------------
(* Requests.                                                               *)

\* No query runs without a request that has what it asks for, a row is about the
\* request, and a 200 has a row of every feature.
Asked ==
    /\ \A f \in Features :
          status[f] = "sent" =>
              f \in asked /\ answer = "none" /\ entities[f] \subseteq DOMAIN request
    /\ \A f \in Features : status[f] = "200" => f \in DOMAIN result
    /\ \A f \in DOMAIN result :
          /\ entities[f] \subseteq DOMAIN request
          /\ \E n \in 1 .. Len(Topic[f]) :
                HasKeys(f, n, request) /\ result[f].key = KeyOf(Topic[f][n])
    /\ answer = "200" => asked \subseteq DOMAIN result
    /\ answer = "none" =>
          /\ InSet \/ \E f \in Features : asked = {f}
          /\ \A f \in asked : status[f] # "none" /\ (status[f] = "cancelled" => InSet)

\* What record n of the topic, seen at the request, is to the row that answers it.
Covers(f, n, row) ==
    IF f \in Grouped THEN n \in row.from \/ Topic[f][n].at < now - Window
    ELSE \A m \in row.from : Topic[f][n].at <= Topic[f][m].at

\* What was seen at the request matched it, and is in the rows it has.
Current ==
    /\ \A f \in Features : \A n \in seen[f] : HasKeys(f, n, request)
    /\ \A f \in DOMAIN result : \A n \in seen[f] : Covers(f, n, result[f])

\* A query finds what was seen at its request, or newer than that.
LEMMA FindsWhatWasSeen ==
    ASSUME TypeOK, Held, NEW f \in Features, NEW keys,
           NEW n \in 1 .. ingested[f], HasKeys(f, n, keys),
           NEW r \in Rows(f, keys)
    PROVE  Covers(f, n, r)
<1>0. TablesTyped
    BY DEF TypeOK, TablesTyped
<1>1. r.from = Found(f, keys)
    BY <1>0, OneRow
<1>2. n \in 1 .. Len(Topic[f]) /\ Topic[f][n].at \in Int /\ now - Window \in Int
    BY <1>0, Topics, TimeAssumption DEF TypeOK, TablesTyped
<1>3. CASE f \in Grouped
    <2>1. n \in rows[f]
        BY <1>3 DEF Held, Grouped, Upserted, Features
    <2>2. CASE Topic[f][n].at >= now - Window
        BY <1>1, <2>1, <2>2, <1>3 DEF Found, Matches, HasKeys, Covers
    <2>3. CASE ~(Topic[f][n].at >= now - Window)
        BY <1>2, <1>3, <2>3 DEF Covers
    <2> QED BY <2>2, <2>3
<1>4. CASE f \notin Grouped
    <2>1. f \in Upserted
        BY <1>4 DEF Grouped, Upserted, Features
    <2>2. PICK m \in rows[f] :
              KeyOf(Topic[f][m]) = KeyOf(Topic[f][n]) /\ Topic[f][n].at <= Topic[f][m].at
        BY <2>1 DEF Held
    <2>3. m \in Found(f, keys)
        <3>1. HasKeys(f, m, keys)
            BY <2>2, SameKeys
        <3> QED BY <1>4, <3>1 DEF Found, Matches, HasKeys
    <2>4. \A k \in Found(f, keys) : k = m
        <3>1. \A k \in Found(f, keys) :
                k \in rows[f] /\ k \in 1 .. Len(Topic[f]) /\ HasKeys(f, k, keys)
            BY <1>0, OneRow
        <3>2. \A k \in Found(f, keys) : KeyOf(Topic[f][k]) = KeyOf(Topic[f][m])
            BY <2>3, <3>1, OneCard
        <3> QED BY <2>1, <2>3, <3>1, <3>2 DEF Held
    <2>5. \A k \in r.from : Topic[f][n].at <= Topic[f][k].at
        BY <1>1, <2>2, <2>4
    <2> QED BY <1>4, <2>5 DEF Covers
<1> QED BY <1>3, <1>4

StoreInv == TypeOK /\ Progress /\ Held /\ Asked /\ Current /\ NeverAmbiguous

LEMMA InitStore == StoreInit => StoreInv
<1> SUFFICES ASSUME StoreInit PROVE StoreInv
    OBVIOUS
<1>1. PInv
    BY InitProgress DEF StoreInit
<1>2. \A f \in Features : Len(Topic[f]) \in Nat
    BY Topics
<1>3. TypeOK
    BY <1>1, <1>2, TimeAssumption DEF StoreInit, TypeOK, PInv, Statuses
<1>4. Held
    BY DEF StoreInit, Held, Upserted, Features
<1>5. Asked /\ Current /\ NeverAmbiguous
    BY DEF StoreInit, Asked, Current, NeverAmbiguous
<1> QED BY <1>1, <1>3, <1>4, <1>5 DEF StoreInv, PInv

\* A step of the provisioner takes no configured table away.
LEMMA TablesStay ==
    ASSUME PInv, Provision, NEW n \in Configured, tables[n] # "none"
    PROVE  tables'[n] # "none"
<1> USE NamesAssumption DEF PInv, ProvisionTypeOK, Progress
<1>1. CASE main \/ Killed \/ get_schemas \/ NextLoop \/ End
    BY <1>1 DEF main, Killed, get_schemas, NextLoop, End
<1>2. CASE \E m \in Names : delete_table(m)
    BY <1>2 DEF delete_table
<1>3. CASE \E m \in Names : delete_schema(m) \/ upsert_schema(m) \/ upsert_table(m)
    BY <1>3 DEF delete_schema, upsert_schema, upsert_table, Item, ItemRefused
<1> QED BY <1>1, <1>2, <1>3 DEF Provision, Job

LEMMA StoreStep == StoreInv /\ [StoreNext]_vars => StoreInv'
<1> SUFFICES ASSUME StoreInv, [StoreNext]_vars PROVE StoreInv'
    OBVIOUS
<1> USE FeaturesAssumption
<1>0. PInv /\ TablesTyped
    BY DEF StoreInv, TypeOK, PInv, TablesTyped
<1>1. CASE Provision /\ UNCHANGED storeVars
    <2> USE DEF storeVars, pinotVars, requestVars
    <2>1. PInv'
        BY <1>0, <1>1, ProvisionKeeps
    <2>2. TypeOK'
        BY <1>0, <1>1, <2>1, TablesStay DEF StoreInv, TypeOK, PInv
    <2>3. Held'
        BY <1>1 DEF StoreInv, Held
    <2>4. Asked' /\ Current' /\ NeverAmbiguous'
        BY <1>1 DEF StoreInv, Asked, Current, Covers, HasKeys, NeverAmbiguous, InSet
    <2> QED BY <2>1, <2>2, <2>3, <2>4 DEF StoreInv, PInv
<1> HIDE DEF StoreInv
<1>2. ASSUME NEW f \in Features, Ingest(f)
      PROVE  StoreInv'
    <2>1. UNCHANGED <<provisionVars, now, requestVars>> /\ tables[f] # "none"
        BY <1>2 DEF Ingest, Read
    <2>2. PInv'
        BY <1>0, <2>1, ProvisionStutters
    <2>3. /\ TablesTyped' /\ Held'
          /\ \A g \in Features : ingested[g] <= ingested'[g]
        BY <1>0, <1>2, IngestHolds DEF StoreInv
    <2>4. \A g \in Features : g # f => ingested'[g] = ingested[g]
        BY <1>0, <1>2 DEF Ingest, Read, TablesTyped
    <2>5. seen' = seen /\ \A g \in Features : seen[g] \subseteq 1 .. ingested'[g]
        BY <1>0, <2>1, <2>3 DEF StoreInv, TypeOK, TablesTyped, requestVars
    <2>6. TypeOK'
        BY <2>1, <2>2, <2>3, <2>4, <2>5
        DEF StoreInv, TypeOK, PInv, TablesTyped, provisionVars, requestVars
    <2>7. Asked' /\ Current' /\ NeverAmbiguous'
        BY <2>1 DEF StoreInv, Asked, Current, Covers, HasKeys, NeverAmbiguous, InSet, requestVars
    <2> QED BY <2>2, <2>3, <2>6, <2>7 DEF StoreInv, PInv
<1>3. CASE Tick
    <2>1. /\ UNCHANGED <<provisionVars, ingested, rows, requestVars>>
          /\ now' = now + 1 /\ now' \in 0 .. MaxTime /\ now \in Int
        BY <1>3, TimeAssumption DEF Tick, StoreInv, TypeOK
    <2>2. PInv'
        BY <1>0, <2>1, ProvisionStutters
    <2>3. TypeOK'
        BY <2>1, <2>2 DEF StoreInv, TypeOK, PInv, provisionVars, requestVars
    <2>4. Held' /\ Asked' /\ NeverAmbiguous'
        BY <2>1 DEF StoreInv, Held, Asked, HasKeys, NeverAmbiguous, InSet, requestVars
    <2>5. ASSUME NEW f \in DOMAIN result, NEW n \in seen[f]
          PROVE  Covers(f, n, result[f])'
        <3>1. /\ f \in Features /\ Covers(f, n, result[f])
              /\ n \in 1 .. Len(Topic[f])
            BY <1>0, Topics DEF StoreInv, TypeOK, TablesTyped, Current
        <3>2. Topic[f][n].at \in Int /\ Window \in Int
            BY <3>1, Topics, TimeAssumption
        <3>3. Topic[f][n].at < now - Window => Topic[f][n].at < now' - Window
            BY <2>1, <3>2
        <3> QED BY <2>1, <3>1, <3>3 DEF Covers, requestVars
    <2>6. Current'
        BY <2>1, <2>5 DEF StoreInv, Current, HasKeys, requestVars
    <2> QED BY <2>2, <2>3, <2>4, <2>6 DEF StoreInv, PInv
<1>4. ASSUME NEW keys \in Keys, NEW fs \in {{f} : f \in Features} \cup {Features}, Ask(keys, fs)
      PROVE  StoreInv'
    <2>1. PInv'
        BY <1>0, <1>4, ProvisionStutters DEF Ask
    <2>2. ASSUME NEW f \in Features
          PROVE  /\ seen'[f] \subseteq 1 .. ingested[f] /\ seen'[f] \subseteq Nat
                 /\ \A n \in seen'[f] : HasKeys(f, n, keys)
        <3>1. seen'[f] \subseteq Found(f, keys)
            BY <1>4 DEF Ask
        <3>2. \A n \in Found(f, keys) : n \in 1 .. ingested[f] /\ HasKeys(f, n, keys)
            BY <1>0, OneRow DEF StoreInv
        <3> QED BY <1>0, <3>1, <3>2 DEF TablesTyped
    <2>3. /\ UNCHANGED <<provisionVars, ingested, rows, now>>
          /\ request' = keys /\ asked' = fs /\ answer' = "none" /\ result' = <<>>
          /\ seen' = [f \in Features |-> seen'[f]]
        BY <1>4 DEF Ask, pinotVars
    <2>4. /\ status' \in [Features -> {"none", "sent", "cancelled", "400"}]
          /\ \A f \in Features :
                /\ status'[f] = "sent" => f \in fs /\ entities[f] \subseteq DOMAIN keys
                /\ f \in fs => status'[f] # "none"
                /\ status'[f] = "cancelled" => \E g \in fs : g # f
        BY <1>4 DEF Ask
    <2>5. fs \subseteq Features /\ (fs = Features \/ \E f \in Features : fs = {f})
        OBVIOUS
    <2>6. seen' \in [Features -> SUBSET Nat]
        BY <2>2, <2>3
    <2>7. TypeOK'
        BY <2>1, <2>2, <2>3, <2>4, <2>5, <2>6
        DEF StoreInv, TypeOK, PInv, provisionVars, Statuses
    <2>8. Held'
        BY <2>3 DEF StoreInv, Held
    <2>9. Asked' /\ NeverAmbiguous'
        BY <2>3, <2>4, <2>5 DEF Asked, NeverAmbiguous, InSet
    <2>10. Current'
        BY <2>2, <2>3 DEF Current, HasKeys
    <2> QED BY <2>1, <2>7, <2>8, <2>9, <2>10 DEF StoreInv, PInv
<1>5. ASSUME NEW f \in Features, Respond(f)
      PROVE  StoreInv'
    <2>1. UNCHANGED <<provisionVars, pinotVars, request, asked, answer>>
        BY <1>5 DEF Respond
    <2>2. /\ status[f] = "sent" /\ f \in asked /\ answer = "none"
          /\ entities[f] \subseteq DOMAIN request
        BY <1>5 DEF StoreInv, Asked, Respond
    <2>3. PInv'
        BY <1>0, <2>1, ProvisionStutters
    <2>4. Held'
        BY <2>1 DEF StoreInv, Held, pinotVars
    <2>5. StatusOf(f, request) \in {"500", "404", "200"}
        BY <1>0, OneRow DEF StoreInv
    <2>6. CASE \E s \in {"404", "500"} : Raises(f, s) /\ UNCHANGED result
        <3>1. /\ seen' = [g \in Features |-> {}] /\ UNCHANGED result
              /\ status' \in [Features -> {"none", "cancelled"} \cup Statuses]
              /\ \A g \in Features :
                    /\ status'[g] = "200" => status[g] = "200"
                    /\ status[g] # "none" => status'[g] # "none"
                    /\ status'[g] = "cancelled" =>
                          status[g] = "cancelled" \/ (status[g] = "sent" /\ g # f)
                    /\ status'[g] = "ambiguous" => status[g] = "ambiguous"
            BY <2>6 DEF Raises, StoreInv, TypeOK, Statuses
        <3>2. TypeOK'
            BY <2>1, <2>3, <3>1 DEF StoreInv, TypeOK, PInv, provisionVars, pinotVars
        <3>3. \A g \in Features : g \in asked /\ g # f => InSet
            BY <2>2 DEF StoreInv, Asked
        <3>4. Asked' /\ NeverAmbiguous'
            BY <2>1, <2>2, <3>1, <3>3
            DEF StoreInv, Asked, NeverAmbiguous, InSet, HasKeys, Statuses
        <3>5. Current'
            BY <3>1 DEF StoreInv, TypeOK, Current
        <3> QED BY <2>3, <2>4, <3>2, <3>4, <3>5 DEF StoreInv, PInv
    <2>7. CASE StatusOf(f, request) = "200" /\ status' = [status EXCEPT ![f] = "200"]
        <3> DEFINE row == CHOOSE r \in Rows(f, request) : TRUE
        <3>1. row \in Rows(f, request)
            <4>1. Rows(f, request) # {}
                BY <1>0, <2>7, OneRow DEF StoreInv
            <4> QED BY <4>1
        <3>2. \E n \in 1 .. Len(Topic[f]) :
                  HasKeys(f, n, request) /\ row.key = KeyOf(Topic[f][n])
            <4> HIDE DEF row
            <4>1. PICK n \in Found(f, request) : row.key = KeyOf(Topic[f][n])
                BY <1>0, <3>1, OneRow DEF StoreInv
            <4>2. n \in 1 .. Len(Topic[f]) /\ HasKeys(f, n, request)
                BY <1>0, OneRow DEF StoreInv
            <4> QED BY <4>1, <4>2
        <3>3. \A n \in seen[f] : Covers(f, n, row)
            <4> HIDE DEF row
            <4>1. \A n \in seen[f] : n \in 1 .. ingested[f] /\ HasKeys(f, n, request)
                BY DEF StoreInv, TypeOK, Current
            <4> QED BY <3>1, <4>1, FindsWhatWasSeen DEF StoreInv
        <3>4. /\ result' = [g \in DOMAIN result \cup {f} |-> IF g = f THEN row ELSE result[g]]
              /\ UNCHANGED seen
            BY <1>5, <2>2, <2>7 DEF Respond, Raises, StoreInv, TypeOK
        <3> HIDE DEF row
        <3>5. TypeOK'
            BY <2>1, <2>2, <2>3, <2>7, <3>4
            DEF StoreInv, TypeOK, PInv, provisionVars, pinotVars, Statuses
        <3>6. /\ status \in [Features -> {"none", "sent", "cancelled"} \cup Statuses]
              /\ \A g \in Features : status'[g] = IF g = f THEN "200" ELSE status[g]
              /\ DOMAIN result' = DOMAIN result \cup {f} /\ result'[f] = row
              /\ \A g \in DOMAIN result : g # f => result'[g] = result[g]
            BY <2>7, <3>4 DEF StoreInv, TypeOK
        <3>7. NeverAmbiguous'
            BY <3>6 DEF StoreInv, NeverAmbiguous
        <3>8. Asked'
            <4>1. \A g \in DOMAIN result' :
                    /\ entities[g] \subseteq DOMAIN request
                    /\ \E n \in 1 .. Len(Topic[g]) :
                          HasKeys(g, n, request) /\ result'[g].key = KeyOf(Topic[g][n])
                BY <2>2, <3>2, <3>6 DEF StoreInv, Asked
            <4> QED BY <2>1, <2>2, <3>6, <4>1 DEF StoreInv, Asked, InSet, HasKeys
        <3>9. Current'
            BY <2>1, <3>3, <3>4 DEF StoreInv, Current, Covers, HasKeys, pinotVars
        <3> QED BY <2>3, <2>4, <3>5, <3>7, <3>8, <3>9 DEF StoreInv, PInv
    <2> QED BY <2>5, <2>6, <2>7, <1>5 DEF Respond
<1>6. CASE Answer
    <2> DEFINE s == IF InSet
                    THEN IF \A f \in asked : status[f] = "200" THEN "200" ELSE "500"
                    ELSE status[CHOOSE f \in asked : TRUE]
    <2>1. Returns(s)
        BY <1>6 DEF Answer
    <2>2. PInv' /\ Held'
        <3>1. UNCHANGED <<provisionVars, pinotVars>>
            BY <2>1 DEF Returns
        <3>2. Held'
            BY <3>1 DEF StoreInv, Held, pinotVars
        <3> QED BY <1>0, <3>1, <3>2, ProvisionStutters
    <2>3. s \in Statuses /\ (s = "200" => \A f \in asked : status[f] = "200")
        <3>1. CASE InSet
            BY <2>1, <3>1 DEF Statuses
        <3>2. CASE ~InSet
            <4>1. PICK f \in Features : asked = {f}
                BY <1>6, <3>2 DEF StoreInv, Asked, Answer
            <4>2. (CHOOSE g \in asked : TRUE) = f
                BY <4>1
            <4>3. status[f] \in Statuses
                BY <1>6, <3>2, <4>1 DEF StoreInv, TypeOK, Asked, Answer
            <4> QED BY <2>1, <3>2, <4>1, <4>2, <4>3
        <3> QED BY <3>1, <3>2
    <2> HIDE DEF s
    <2>4. CASE s = "200"
        <3>1. /\ answer' = "200" /\ status' = [f \in Features |-> "none"]
              /\ UNCHANGED <<provisionVars, pinotVars, request, asked, result, seen>>
            BY <2>1, <2>4 DEF Returns
        <3>2. TypeOK'
            BY <2>2, <2>3, <2>4, <3>1 DEF StoreInv, TypeOK, PInv, provisionVars, pinotVars
        <3>3. asked \subseteq DOMAIN result
            BY <2>3, <2>4 DEF StoreInv, TypeOK, Asked
        <3>4. Asked' /\ Current' /\ NeverAmbiguous'
            BY <3>1, <3>3
            DEF StoreInv, Asked, Current, Covers, HasKeys, NeverAmbiguous, InSet, pinotVars
        <3> QED BY <2>2, <3>2, <3>4 DEF StoreInv, PInv
    <2>5. CASE s # "200"
        <3>1. /\ answer' = s /\ status' = [f \in Features |-> "none"]
              /\ request' = NoKeys /\ asked' = {} /\ result' = <<>>
              /\ seen' = [f \in Features |-> {}]
              /\ UNCHANGED <<provisionVars, pinotVars>>
            BY <2>1, <2>5 DEF Returns
        <3>2. TypeOK'
            BY <2>2, <2>3, <3>1 DEF StoreInv, TypeOK, PInv, provisionVars, pinotVars
        <3>3. Asked' /\ Current' /\ NeverAmbiguous'
            BY <2>3, <2>5, <3>1 DEF Asked, Current, NeverAmbiguous, Statuses
        <3> QED BY <2>2, <3>2, <3>3 DEF StoreInv, PInv
    <2> QED BY <2>4, <2>5
<1>7. CASE UNCHANGED vars
    <2>1. PInv'
        BY <1>0, <1>7, ProvisionStutters DEF vars
    <2>2. UNCHANGED <<tables, ingested, rows, now, request, asked, status, result, answer, seen>>
        BY <1>7 DEF vars, storeVars, pinotVars, requestVars, provisionVars
    <2>3. TypeOK' /\ Held'
        BY <2>1, <2>2 DEF StoreInv, TypeOK, Held, PInv
    <2>4. Asked' /\ Current' /\ NeverAmbiguous'
        BY <2>2 DEF StoreInv, Asked, Current, Covers, HasKeys, NeverAmbiguous, InSet
    <2> QED BY <2>1, <2>3, <2>4 DEF StoreInv, PInv
<1>8. CASE Requests
    BY <1>4, <1>5, <1>6, <1>8 DEF Requests
<1> QED BY <1>1, <1>2, <1>3, <1>7, <1>8 DEF StoreNext

THEOREM StoreInvariance == StoreSpec => []StoreInv
<1>1. StoreInit => StoreInv
    BY InitStore
<1>2. StoreInv /\ [StoreNext]_vars => StoreInv'
    BY StoreStep
<1> QED BY <1>1, <1>2, PTL DEF StoreSpec

-----------------------------------------------------------------------------
(* The properties.                                                         *)

\* Every variable of the provisioner and of the feature store keeps its type.
THEOREM StoreTypes == StoreSpec => []TypeOK
<1>1. StoreInv => TypeOK
    BY DEF StoreInv
<1> QED BY <1>1, StoreInvariance, PTL

\* No query returns two rows for one entity, however often a topic has it and in
\* whatever order of its windows: the upsert keeps one record of a key, the
\* GROUP BY makes one row of a group, and a card has one account.
THEOREM OneRowPerEntity == StoreSpec => []NeverAmbiguous
<1>1. StoreInv => NeverAmbiguous
    BY DEF StoreInv
<1> QED BY <1>1, StoreInvariance, PTL

\* A set answered with 200 has a row of the card and the account asked for in
\* every feature, the one that does not filter by the account included.
THEOREM SetAboutAsked == StoreSpec => []AnswerAboutAsked
<1>1. StoreInv => AnswerAboutAsked
    <2> SUFFICES ASSUME StoreInv, answer = "200", InSet, NEW f \in Features
                 PROVE  f \in DOMAIN result /\ result[f].key = [c \in Columns |-> request[c]]
        BY DEF AnswerAboutAsked
    <2> DEFINE b == "payment_6h_batch"
    <2>1. b \in Features /\ entities[b] = Columns
        BY DEF Features, entities, Columns
    <2>2. f \in DOMAIN result /\ b \in DOMAIN result
        BY <2>1 DEF StoreInv, Asked, InSet
    <2>3. PICK n \in 1 .. Len(Topic[f]) :
              HasKeys(f, n, request) /\ result[f].key = KeyOf(Topic[f][n])
        BY <2>2 DEF StoreInv, Asked
    <2>4. PICK m \in 1 .. Len(Topic[b]) : HasKeys(b, m, request)
        BY <2>2 DEF StoreInv, Asked
    <2>5. KeyOf(Topic[f][n]) = KeyOf(Topic[b][m])
        BY <2>1, <2>3, <2>4, OneCard
    <2>6. KeyOf(Topic[b][m]) = [c \in Columns |-> request[c]]
        BY <2>1, <2>4 DEF KeyOf, HasKeys
    <2> QED BY <2>2, <2>3, <2>5, <2>6
<1> QED BY <1>1, StoreInvariance, PTL

\* What an answer shows is no older than its request, whatever the tables have
\* read between its queries.
THEOREM AnswersAreCurrent == StoreSpec => []AnswerIsCurrent
<1>1. StoreInv => AnswerIsCurrent
    BY DEF StoreInv, Asked, Current, Covers, AnswerIsCurrent
<1> QED BY <1>1, StoreInvariance, PTL

\* A deployment that ends well has every configured table with its schema and
\* nothing else, however often the job was killed or refused before.
THEOREM DeploymentIsComplete == StoreSpec => []DoneAsConfigured
<1>1. StoreInv => DoneAsConfigured
    BY DEF StoreInv, TypeOK, ProvisionTypeOK, Progress, DoneAsConfigured
<1> QED BY <1>1, StoreInvariance, PTL

\* A refused schema or table keeps no other from being provisioned in the same
\* attempt.
THEOREM OthersAreProvisioned == StoreSpec => []FailuresAreIsolated
<1>1. StoreInv => FailuresAreIsolated
    BY DEF StoreInv, Progress, FailuresAreIsolated
<1> QED BY <1>1, StoreInvariance, PTL

\* The status of a query is that of what it finds.
StatusFollows ==
    \A f \in Features, k \in Keys :
        StatusOf(f, k) = IF tables[f] = "none" THEN "500"
                         ELSE IF Found(f, k) = {} THEN "404" ELSE "200"

\* A batch feature found once is found by every later query: no step of the
\* provisioner takes a configured table away, and an upsert replaces a record by
\* one of its key.
THEOREM FoundBatchFeatureStays == StoreSpec => BatchFeatureStaysFound
<1> DEFINE b == "payment_6h_batch"
<1>0. StoreInv => StatusFollows
    BY OneRow DEF StoreInv, TypeOK, TablesTyped, StatusFollows
<1>1. ASSUME StoreInv, StatusFollows', [StoreNext]_vars, NEW k \in Keys, StatusOf(b, k) = "200"
      PROVE  (StatusOf(b, k))' = "200"
    <2>1. StoreInv' /\ b \in Features /\ b \in Upserted /\ b \notin Grouped
        BY <1>1, StoreStep DEF Features, Upserted, Grouped
    <2>2. TablesTyped /\ TablesTyped' /\ Held /\ Held'
        BY <1>1, <2>1 DEF StoreInv, TypeOK, TablesTyped
    <2> HIDE DEF b
    <2>3. tables[b] # "none" /\ Found(b, k) # {}
        BY <1>1, <2>1, <2>2, OneRow
    <2>4. PICK n \in 1 .. ingested[b] : HasKeys(b, n, k)
        BY <2>1, <2>2, <2>3, OneRow
    <2>5. tables'[b] # "none"
        <3>1. CASE Provision
            BY <1>1, <2>1, <2>3, <3>1, TablesStay, FeaturesAssumption DEF StoreInv, TypeOK, PInv
        <3>2. CASE UNCHANGED provisionVars
            BY <2>3, <3>2 DEF provisionVars
        <3> QED BY <1>1, <3>1, <3>2
            DEF StoreNext, Ingest, Read, Tick, Requests, Ask, Respond, Answer, Returns, vars
    <2>6. n \in 1 .. ingested'[b]
        <3>1. CASE \E f \in Features : Ingest(f)
            BY <2>1, <2>2, <3>1, IngestHolds DEF TablesTyped
        <3>2. CASE UNCHANGED ingested
            BY <3>2
        <3> QED BY <1>1, <3>1, <3>2
            DEF StoreNext, Tick, Requests, Ask, Respond, Answer, Returns, vars, storeVars, pinotVars
    <2>7. PICK m \in rows'[b] : KeyOf(Topic[b][m]) = KeyOf(Topic[b][n])
        BY <2>1, <2>2, <2>6 DEF Held
    <2>8. HasKeys(b, m, k)
        BY <2>1, <2>4, <2>7, SameKeys
    <2>9. Found(b, k)' # {}
        BY <2>1, <2>7, <2>8 DEF Found, Matches, HasKeys
    <2> QED BY <1>1, <2>1, <2>5, <2>9 DEF StatusFollows
<1>2. StoreInv /\ StatusFollows' /\ [StoreNext]_vars =>
        [\A k \in Keys :
            entities["payment_6h_batch"] \subseteq DOMAIN k =>
                (StatusOf("payment_6h_batch", k) = "200"
                    => (StatusOf("payment_6h_batch", k))' = "200")]_vars
    BY <1>1
<1> QED BY <1>0, <1>2, StoreInvariance, PTL DEF StoreSpec, BatchFeatureStaysFound

=============================================================================
