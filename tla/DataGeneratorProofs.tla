------------------------ MODULE DataGeneratorProofs ------------------------
(***************************************************************************)
(* Proofs about DataGenerator for every value of its constants.  IInv is   *)
(* shown inductive; the safety properties and the refinement of            *)
(* AtMostOnceLog follow from it.                                           *)
(***************************************************************************)
EXTENDS DataGenerator, TLAPS, WellFoundedInduction

-----------------------------------------------------------------------------
(* Lemmas about the operators.                                             *)

\* max(ids) of a bounded list of ids is an upper bound of it.
LEMMA MaxIdIsUpperBound ==
    ASSUME NEW S \in SUBSET Nat, NEW c \in Nat, \A n \in S : n <= c
    PROVE  MaxId(S) \in 0 .. c /\ \A n \in S : n <= MaxId(S)
<1>1. CASE S = {}
    BY <1>1 DEF MaxId
<1>2. CASE S # {}
    <2> DEFINE Bounds == {u \in Nat : \A n \in S : n <= u}
    <2>1. Bounds \subseteq Nat /\ Bounds # {}
        OBVIOUS
    <2>2. PICK m \in Bounds : \A u \in Bounds : ~(<<u, m>> \in OpToRel(<, Nat))
        <3> HIDE DEF Bounds
        <3> QED BY <2>1, NatLessThanWellFounded, WFMin
    <2>3. \A u \in Bounds : ~(u < m)
        BY <2>1, <2>2 DEF OpToRel
    <2>4. m \in S
        <3>1. SUFFICES ASSUME m \notin S PROVE FALSE
            OBVIOUS
        <3>2. m \in Nat /\ \A n \in S : n < m
            BY <3>1
        <3> PICK k \in S : k \in Nat
            BY <1>2
        <3>3. m - 1 \in Nat
            BY <3>2
        <3>4. \A n \in S : n <= m - 1
            BY <3>2, <3>3
        <3>5. m - 1 \in Bounds
            BY <3>3, <3>4
        <3> QED BY <2>3, <3>2, <3>5
    <2>5. \E k \in S : \A n \in S : n <= k
        BY <2>4
    <2>6. MaxId(S) = CHOOSE k \in S : \A n \in S : n <= k
        BY <1>2 DEF MaxId
    <2>7. MaxId(S) \in S /\ \A n \in S : n <= MaxId(S)
        <3> HIDE DEF Bounds
        <3> QED BY <2>5, <2>6, Zenon
    <2>8. MaxId(S) \in Nat /\ MaxId(S) <= c
        BY <2>7
    <2> QED BY <2>7, <2>8
<1> QED BY <1>1, <1>2

\* The database object of each topic.
LEMMA TableOfTopic ==
    /\ TableOf \in [Topics -> Tables]
    /\ TableOf["card_issued"] = "Card"
    /\ TableOf["customer_details_updated"] = "Customer"
    /\ TableOf["login_attempted"] = "Device"
    /\ Stored \subseteq Topics
    /\ "login_attempted" \notin Stored
    /\ "customer_details_updated" \notin Stored
    /\ \A topic \in Topics \ Stored :
          topic \in {"login_attempted", "customer_details_updated"}
BY DEF TableOf, Topics, Tables, Stored

\* The table of each foreign-key column.
LEMMA TargetOfField ==
    /\ Target \in [Fields -> Tables]
    /\ Target["customer_id"] = "Customer"
    /\ Target["account_id"] = "Account"
    /\ Target["source_account_id"] = "Account"
    /\ Target["destination_account_id"] = "Account"
    /\ Target["card_id"] = "Card"
    /\ Target["device_id"] = "Device"
    /\ Target["merchant_id"] = "Merchant"
BY DEF Target, Fields, Tables

-----------------------------------------------------------------------------
(* Writing the file.                                                       *)

\* References stay resolved while no id disappears.
LEMMA ResolvesSurvives ==
    ASSUME \A t \in Tables : IdsOf(db[t]) \subseteq IdsOf(db'[t]),
           NEW ref, Resolves(ref)
    PROVE  Resolves(ref)'
BY TargetOfField DEF Resolves

\* What a committed statement leaves of the file: no id disappears, an INSERT
\* adds the one of its row, an UPDATE none, and every table stays sound.
LEMMA CommittedTables ==
    ASSUME IInv, NEW e \in current, stage = "commit", db' = Committed(e)
    PROVE  /\ db' \in [Tables -> SUBSET Rows]
           /\ \A t \in Tables : \A r \in db'[t] : r.id \in 1 .. clock
           /\ UniqueIds'
           /\ ReferentialIntegrity'
           /\ \A t \in Tables :
                 IdsOf(db'[t]) = IF t = TableOf[e.topic] /\ ~IsUpdate(e)
                                 THEN IdsOf(db[t]) \cup {e.row.id}
                                 ELSE IdsOf(db[t])
           /\ \A t \in Tables \ {"Customer"} : db[t] \subseteq db'[t]
           /\ \A t \in Tables : \A r \in db'[t] :
                 r \in db[t] \/ (r = e.row /\ t = TableOf[e.topic])
           /\ e.row.id \in IdsOf(db'[TableOf[e.topic]])
<1> DEFINE T == TableOf[e.topic]
<1>1. /\ e \in Events /\ e.topic \in Topics /\ e.row \in Rows
      /\ e.row.id \in Nat /\ e.row.ref \in [Fields -> Nat]
      /\ T \in Tables /\ db \in [Tables -> SUBSET Rows]
    BY TableOfTopic DEF IInv, TypeOK, Events, Rows
<1>2. /\ Resolves(e.row.ref)
      /\ e.row.id \in 1 .. clock
      /\ ~IsUpdate(e) => e.row.id \notin IdsOf(db[T])
    BY DEF IInv, CurrentFits
<1>3. IsUpdate(e) =>
          /\ T = "Customer"
          /\ \E r \in db[T] :
                r.id = e.row.id /\ r.ref = e.row.ref /\ r.at = e.row.at
    BY TableOfTopic DEF IInv, CurrentFits, IsUpdate
<1>4. CASE IsUpdate(e)
    <2>1. db' = [db EXCEPT ![T] = {IF r.id = e.row.id THEN e.row ELSE r : r \in @}]
        BY <1>4 DEF Committed
    <2>2. /\ \A t \in Tables \ {T} : db'[t] = db[t]
          /\ db'[T] = {IF r.id = e.row.id THEN e.row ELSE r : r \in db[T]}
        BY <2>1, <1>1
    <2>3. /\ \A r \in db'[T] : r = e.row \/ (r \in db[T] /\ r.id # e.row.id)
          /\ \A r \in db[T] : \E s \in db'[T] : s.id = r.id
          /\ \A s \in db'[T] : \E r \in db[T] : s.id = r.id
        BY <2>2, <1>3, <1>4
    <2>4. IdsOf(db'[T]) = IdsOf(db[T])
        BY <2>3 DEF IdsOf
    <2>5. \A t \in Tables : IdsOf(db'[t]) = IdsOf(db[t])
        BY <2>2, <2>4
    <2>6. db' \in [Tables -> SUBSET Rows]
        <3>1. db'[T] \subseteq Rows
            BY <2>3, <1>1
        <3> QED BY <3>1, <2>1, <1>1
    <2>7. \A t \in Tables : \A r \in db'[t] : r.id \in 1 .. clock
        <3>1. \A t \in Tables : \A r \in db[t] : r.id \in 1 .. clock
            BY DEF IInv, IdsBounded
        <3>2. \A r \in db'[T] : r.id \in 1 .. clock
            BY <2>3, <3>1, <1>1, <1>2
        <3> QED BY <2>2, <3>1, <3>2
    <2>8. UniqueIds'
        <3>1. \A t \in Tables : \A r, s \in db[t] : r.id = s.id => r = s
            BY DEF IInv, UniqueIds
        <3>2. \A r, s \in db'[T] : r.id = s.id => r = s
            <4> SUFFICES ASSUME NEW r \in db'[T], NEW s \in db'[T], r.id = s.id
                         PROVE  r = s
                OBVIOUS
            <4>1. CASE r = e.row
                BY <4>1, <2>3
            <4>2. CASE r # e.row
                BY <4>2, <2>3, <3>1, <1>1
            <4> QED BY <4>1, <4>2
        <3>3. \A t \in Tables : t # T => db'[t] = db[t]
            BY <2>2
        <3> QED BY <3>1, <3>2, <3>3 DEF UniqueIds
    <2>9. ReferentialIntegrity'
        <3>1. \A t \in Tables : \A r \in db[t] : Resolves(r.ref)
            BY DEF IInv, ReferentialIntegrity
        <3>2. \A t \in Tables : \A r \in db'[t] : Resolves(r.ref)
            BY <2>2, <2>3, <3>1, <1>1, <1>2
        <3>3. \A t \in Tables : IdsOf(db[t]) \subseteq IdsOf(db'[t])
            BY <2>5
        <3>4. \A t \in Tables : \A r \in db'[t] : Resolves(r.ref)'
            BY <3>2, <3>3, ResolvesSurvives
        <3> QED BY <3>4 DEF ReferentialIntegrity
    <2>10. e.row.id \in IdsOf(db'[T])
        BY <2>5, <1>1, <1>3, <1>4 DEF IdsOf
    <2> QED BY <1>3, <1>4, <2>2, <2>3, <2>5, <2>6, <2>7, <2>8, <2>9, <2>10
<1>5. CASE ~IsUpdate(e)
    <2>1. db' = [db EXCEPT ![T] = @ \cup {e.row}]
        BY <1>5 DEF Committed
    <2>2. /\ \A t \in Tables \ {T} : db'[t] = db[t]
          /\ db'[T] = db[T] \cup {e.row}
        BY <2>1, <1>1
    <2>3. \A t \in Tables : IdsOf(db'[t]) = IF t = T THEN IdsOf(db[t]) \cup {e.row.id}
                                            ELSE IdsOf(db[t])
        BY <2>2 DEF IdsOf
    <2>4. db' \in [Tables -> SUBSET Rows]
        BY <2>1, <2>2, <1>1
    <2>5. \A t \in Tables : \A r \in db'[t] : r.id \in 1 .. clock
        BY <2>2, <1>1, <1>2 DEF IInv, IdsBounded
    <2>6. \A r \in db[T] : r.id # e.row.id
        BY <1>2, <1>5 DEF IdsOf
    <2>7. UniqueIds'
        BY <2>2, <2>6, <1>1 DEF IInv, UniqueIds
    <2>8. ReferentialIntegrity'
        <3>1. \A t \in Tables : \A r \in db'[t] : Resolves(r.ref)
            BY <2>2, <1>1, <1>2 DEF IInv, ReferentialIntegrity
        <3>2. \A t \in Tables : IdsOf(db[t]) \subseteq IdsOf(db'[t])
            BY <2>3
        <3>3. \A t \in Tables : \A r \in db'[t] : Resolves(r.ref)'
            BY <3>1, <3>2, ResolvesSurvives
        <3> QED BY <3>3 DEF ReferentialIntegrity
    <2> QED BY <1>1, <1>5, <2>2, <2>3, <2>4, <2>5, <2>7, <2>8
<1> QED BY <1>4, <1>5

-----------------------------------------------------------------------------
(* Each kind of step keeps the invariant.                                  *)

\* The process ends, with its file sound and no smaller.
LEMMA ExitKeeps ==
    ASSUME IInv, Exit,
           db' \in [Tables -> SUBSET Rows],
           \A t \in Tables : \A r \in db'[t] : r.id \in 1 .. clock,
           UniqueIds', ReferentialIntegrity',
           \A t \in Tables : IdsOf(db[t]) \subseteq IdsOf(db'[t]),
           db["Card"] \subseteq db'["Card"]
    PROVE  IInv'
<1>1. Published' \subseteq Published /\ current' = {} /\ buffer' = {}
    BY DEF Exit, Published
<1>2. TypeOK'
    BY DEF IInv, TypeOK, Exit
<1>3. IdsBounded' /\ CacheCoherent' /\ DownIsEmpty' /\ CurrentFits'
    BY DEF IInv, TypeOK, Exit, IdsBounded, CacheCoherent, DownIsEmpty, CurrentFits
<1>4. EventsAreDurable'
    <2> SUFFICES ASSUME NEW e \in Published'
                 PROVE  /\ Resolves(e.row.ref)'
                        /\ e.topic # "login_attempted" =>
                              e.row.id \in IdsOf(db'[TableOf[e.topic]])
        BY DEF EventsAreDurable
    <2>1. e \in Published /\ TableOf[e.topic] \in Tables
        BY <1>1, TableOfTopic DEF IInv, TypeOK, Events, Published
    <2>2. Resolves(e.row.ref)
        BY <2>1 DEF IInv, EventsAreDurable
    <2>3. Resolves(e.row.ref)'
        BY <2>2, ResolvesSurvives
    <2> QED BY <2>1, <2>3 DEF IInv, EventsAreDurable
<1>5. EventIdsUnique' /\ EventsNumbered' /\ CardUsesMatch'
    BY <1>1 DEF IInv, EventIdsUnique, EventsNumbered, CardUsesMatch, InFlight,
                Exit, UsesCard
<1> QED BY <1>2, <1>3, <1>4, <1>5 DEF IInv

\* An event is drawn: its id is new, or it repeats a stored customer's.
LEMMA DrawKeeps ==
    ASSUME IInv, status = "up", stage = "choose", NEW e \in Events,
           current' = {e}, clock' = clock + 1, e.row.data = clock + 1,
           UNCHANGED <<status, seeded, ids, buffer, db, kafka>>,
           counter' \in [Tables -> Nat],
           \A t \in Tables : counter'[t] \in counter[t] .. clock + 1,
           e.row.id \in 1 .. counter'[TableOf[e.topic]],
           Resolves(e.row.ref),
           \/ stage' = "publish" /\ e.topic = "login_attempted"
           \/ stage' = "execute" /\ e.topic # "login_attempted",
           e.topic \in Stored => e.row.id \notin IdsOf(db[TableOf[e.topic]]),
           IsUpdate(e) => \E r \in db["Customer"] :
                             r.id = e.row.id /\ r.ref = e.row.ref /\ r.at = e.row.at,
           UsesCard(e) => \E card \in db["Card"] :
                             /\ card.id = e.row.ref["card_id"]
                             /\ card.ref["account_id"] = e.row.ref["account_id"]
                             /\ card.ref["customer_id"] = e.row.ref["customer_id"]
    PROVE  IInv'
<1>1. /\ current = {} /\ Published' = Published /\ clock \in Nat
      /\ InFlight = Published /\ InFlight' = Published \cup {e}
      /\ TableOf[e.topic] \in Tables /\ e.topic \in Topics
      /\ counter \in [Tables -> Nat]
      /\ Published \subseteq Events
    BY TableOfTopic DEF IInv, TypeOK, Published, InFlight, Events
<1>2. TypeOK'
    BY <1>1 DEF IInv, TypeOK
<1>3. IdsBounded' /\ CacheCoherent'
    BY <1>1 DEF IInv, TypeOK, IdsBounded, CacheCoherent, Rows
<1>4. UniqueIds' /\ ReferentialIntegrity' /\ EventsAreDurable' /\ EventIdsUnique'
    BY <1>1 DEF IInv, UniqueIds, ReferentialIntegrity, EventsAreDurable,
                EventIdsUnique, Resolves
<1>5. EventsNumbered'
    <2>1. \A f \in Published : f.row.data \in 1 .. clock
        BY <1>1 DEF IInv, EventsNumbered
    <2>2. e \notin Published
        BY <1>1, <2>1
    <2> QED BY <1>1, <2>1, <2>2 DEF IInv, EventsNumbered
<1>6. DownIsEmpty'
    BY DEF IInv, DownIsEmpty
<1>7. CurrentFits'
    <2>1. e.row.id \in 1 .. clock' /\ e.row.id <= counter'[TableOf[e.topic]]
        BY <1>1
    <2>2. e.topic \in Stored =>
              \A f \in Published' : f.topic = e.topic => f.row.id # e.row.id
        BY <1>1, TableOfTopic DEF IInv, EventsAreDurable
    <2>3. Resolves(e.row.ref)'
        BY DEF Resolves
    <2>4. ~IsUpdate(e) /\ e.topic # "login_attempted" => e.topic \in Stored
        BY <1>1, TableOfTopic DEF IsUpdate
    <2>5. /\ stage' \in {"execute", "commit"} =>
                /\ e.topic # "login_attempted"
                /\ ~IsUpdate(e) => e.row.id \notin IdsOf(db'[TableOf[e.topic]])
          /\ ~(stage' = "publish" /\ e.topic # "login_attempted")
        BY <2>4
    <2>6. IsUpdate(e) => \E r \in db'["Customer"] :
                            r.id = e.row.id /\ r.ref = e.row.ref /\ r.at = e.row.at
        OBVIOUS
    <2> QED BY <2>1, <2>2, <2>3, <2>5, <2>6 DEF CurrentFits, IsUpdate
<1>8. CardUsesMatch'
    BY <1>1 DEF IInv, CardUsesMatch
<1> QED BY <1>2, <1>3, <1>4, <1>5, <1>6, <1>7, <1>8 DEF IInv

\* A new entity that is stored: its references resolve, and so does its card.
LEMMA StoreKeeps ==
    ASSUME IInv, status = "up", stage = "choose",
           NEW topic \in Stored, NEW ref \in [Fields -> Nat],
           Store(topic, ref), Resolves(ref),
           topic \in {"payment_authorised", "atm_withdrawal"} =>
               \E card \in db["Card"] :
                   /\ card.id = ref["card_id"]
                   /\ card.ref["account_id"] = ref["account_id"]
                   /\ card.ref["customer_id"] = ref["customer_id"]
    PROVE  IInv'
<1> DEFINE t == TableOf[topic]
           e == [topic |-> topic,
                 row |-> [id |-> counter[t] + 1, ref |-> ref,
                          at |-> clock + 1, data |-> clock + 1]]
<1>1. /\ topic \in Topics /\ t \in Tables /\ counter \in [Tables -> Nat]
      /\ clock \in Nat /\ db \in [Tables -> SUBSET Rows]
    BY TableOfTopic DEF IInv, TypeOK
<1>2. e \in Events
    BY <1>1 DEF Events, Rows
<1>3. /\ current' = {e} /\ clock' = clock + 1 /\ stage' = "execute"
      /\ counter' = [counter EXCEPT ![t] = @ + 1]
      /\ UNCHANGED <<status, seeded, ids, buffer, db, kafka>>
    BY DEF Store, Create
<1>4. /\ counter' \in [Tables -> Nat]
      /\ \A u \in Tables : counter'[u] \in counter[u] .. clock + 1
      /\ e.row.id \in 1 .. counter'[TableOf[e.topic]]
    BY <1>1, <1>3 DEF IInv, IdsBounded
<1>5. e.row.id \notin IdsOf(db[TableOf[e.topic]])
    BY <1>1 DEF IInv, CacheCoherent, IdsOf, Rows
<1>6. e.topic # "login_attempted" /\ ~IsUpdate(e)
    BY TableOfTopic DEF IsUpdate
<1>7. /\ e.row.data = clock + 1 /\ e.row.ref = ref /\ e.topic = topic
    OBVIOUS
<1> HIDE DEF e
<1> QED BY <1>2, <1>3, <1>4, <1>5, <1>6, <1>7, DrawKeeps DEF UsesCard

\* A login attempt is drawn: it takes an id and will not be stored.
LEMMA LoginKeeps ==
    ASSUME IInv, login_attempted
    PROVE  IInv'
<1>1. PICK device \in Random("Device") :
          Create("login_attempted",
                 [NoRef EXCEPT !["customer_id"] = device.ref["customer_id"],
                               !["device_id"] = device.id])
    BY DEF login_attempted
<1> DEFINE ref == [NoRef EXCEPT !["customer_id"] = device.ref["customer_id"],
                                !["device_id"] = device.id]
           e == [topic |-> "login_attempted",
                 row |-> [id |-> counter["Device"] + 1, ref |-> ref,
                          at |-> clock + 1, data |-> clock + 1]]
<1>2. /\ counter \in [Tables -> Nat] /\ clock \in Nat
      /\ db \in [Tables -> SUBSET Rows] /\ "Device" \in Tables
    BY DEF IInv, TypeOK, Tables
<1>3. device \in db["Device"] /\ device \in Rows
    BY <1>2 DEF Random
<1>4. ref \in [Fields -> Nat] /\ Resolves(ref)
    <2>1. ref \in [Fields -> Nat]
        BY <1>3 DEF NoRef, Fields, Rows
    <2>2. \A field \in Fields : ref[field] # 0 =>
              \/ field = "customer_id" /\ ref[field] = device.ref["customer_id"]
              \/ field = "device_id" /\ ref[field] = device.id
        BY DEF NoRef
    <2>3. Resolves(device.ref)
        BY <1>2, <1>3 DEF IInv, ReferentialIntegrity
    <2>4. "customer_id" \in Fields /\ device.id \in IdsOf(db["Device"])
        BY <1>3 DEF Fields, IdsOf
    <2> QED BY <2>1, <2>2, <2>3, <2>4, TargetOfField DEF Resolves
<1>5. e \in Events
    BY <1>2, <1>4 DEF Events, Rows, Topics
<1>6. /\ status = "up" /\ stage = "choose" /\ stage' = "publish"
      /\ current' = {e} /\ clock' = clock + 1
      /\ counter' = [counter EXCEPT !["Device"] = @ + 1]
      /\ UNCHANGED <<status, seeded, ids, buffer, db, kafka>>
    BY <1>1, TableOfTopic DEF login_attempted, Create, Chosen
<1>7. /\ counter' \in [Tables -> Nat]
      /\ \A u \in Tables : counter'[u] \in counter[u] .. clock + 1
      /\ e.row.id \in 1 .. counter'[TableOf[e.topic]]
    BY <1>2, <1>6, TableOfTopic DEF IInv, IdsBounded
<1>8. /\ e.row.data = clock + 1 /\ e.row.ref = ref
      /\ e.topic = "login_attempted" /\ e.topic \notin Stored
      /\ ~IsUpdate(e) /\ ~UsesCard(e)
    BY TableOfTopic DEF IsUpdate, UsesCard
<1> HIDE DEF e, ref
<1> QED BY <1>4, <1>5, <1>6, <1>7, <1>8, DrawKeeps

\* New details of a customer are drawn.
LEMMA UpdateKeeps ==
    ASSUME IInv, customer_details_updated
    PROVE  IInv'
<1>1. PICK customer \in Random("Customer") :
          current' = {[topic |-> "customer_details_updated",
                       row |-> [customer EXCEPT !.data = clock + 1]]}
    BY DEF customer_details_updated
<1> DEFINE e == [topic |-> "customer_details_updated",
                 row |-> [customer EXCEPT !.data = clock + 1]]
<1>2. /\ counter \in [Tables -> Nat] /\ clock \in Nat
      /\ db \in [Tables -> SUBSET Rows] /\ "Customer" \in Tables
    BY DEF IInv, TypeOK, Tables
<1>3. customer \in db["Customer"] /\ customer \in Rows
    BY <1>2 DEF Random
<1>4. /\ e \in Events /\ e.topic = "customer_details_updated"
      /\ e.row.id = customer.id /\ e.row.ref = customer.ref
      /\ e.row.at = customer.at /\ e.row.data = clock + 1
    BY <1>2, <1>3 DEF Events, Rows, Topics
<1>5. /\ status = "up" /\ stage = "choose" /\ stage' = "execute"
      /\ current' = {e} /\ clock' = clock + 1 /\ counter' = counter
      /\ UNCHANGED <<status, seeded, ids, buffer, db, kafka>>
    BY <1>1 DEF customer_details_updated, Chosen
<1>6. /\ Resolves(e.row.ref)
      /\ e.row.id \in 1 .. counter["Customer"]
      /\ \A u \in Tables : counter[u] \in counter[u] .. clock + 1
    BY <1>2, <1>3, <1>4, <1>5
    DEF IInv, ReferentialIntegrity, CacheCoherent, IdsBounded
<1>7. e.topic \notin Stored /\ ~UsesCard(e) /\ TableOf[e.topic] = "Customer"
    BY <1>4, TableOfTopic DEF UsesCard
<1> HIDE DEF e
<1> QED BY <1>2, <1>3, <1>4, <1>5, <1>6, <1>7, DrawKeeps

\* Every event type.
LEMMA EachDrawKeeps ==
    ASSUME IInv, Draw
    PROVE  IInv'
<1> USE DEF Chosen
<1>1. /\ db \in [Tables -> SUBSET Rows]
      /\ \A t \in Tables : \A r \in Random(t) :
            r \in db[t] /\ r \in Rows /\ r.id \in IdsOf(db[t]) /\ Resolves(r.ref)
    BY DEF IInv, TypeOK, Random, IdsOf, ReferentialIntegrity
<1>2. {"Customer", "Account", "Card", "Device", "Merchant"} \subseteq Tables
    BY DEF Tables
<1>3. NoRef \in [Fields -> Nat] /\ Resolves(NoRef)
    BY DEF NoRef, Resolves
<1>4. CASE customer_created
    BY <1>3, <1>4, StoreKeeps DEF customer_created, Stored
<1>5. CASE customer_details_updated
    BY <1>5, UpdateKeeps
<1>6. CASE account_opened
    <2>1. PICK customer \in Random("Customer") :
              Store("account_opened", [NoRef EXCEPT !["customer_id"] = customer.id])
        BY <1>6 DEF account_opened, AccountHolders
    <2> DEFINE ref == [NoRef EXCEPT !["customer_id"] = customer.id]
    <2>2. ref \in [Fields -> Nat]
        BY <1>1, <1>2 DEF NoRef, Fields, Rows
    <2>3. Resolves(ref)
        BY <1>1, <1>2, TargetOfField DEF Resolves, NoRef
    <2> HIDE DEF ref
    <2> QED BY <1>6, <2>1, <2>2, <2>3, StoreKeeps DEF account_opened, Stored, ref
<1>7. CASE card_issued
    <2>1. PICK account \in Random("Account") :
              Store("card_issued",
                    [NoRef EXCEPT !["account_id"] = account.id,
                                  !["customer_id"] = account.ref["customer_id"]])
        BY <1>7 DEF card_issued, CardAccounts
    <2> DEFINE ref == [NoRef EXCEPT !["account_id"] = account.id,
                                    !["customer_id"] = account.ref["customer_id"]]
    <2>2. ref \in [Fields -> Nat]
        BY <1>1, <1>2 DEF NoRef, Fields, Rows
    <2>3. "customer_id" \in Fields /\ Resolves(account.ref)
        BY <1>1, <1>2 DEF Fields
    <2>4. Resolves(ref)
        BY <1>1, <1>2, <2>3, TargetOfField DEF Resolves, NoRef
    <2> HIDE DEF ref
    <2> QED BY <1>7, <2>1, <2>2, <2>4, StoreKeeps DEF card_issued, Stored, ref
<1>8. CASE device_registered
    <2>1. PICK customer \in Random("Customer") :
              Store("device_registered", [NoRef EXCEPT !["customer_id"] = customer.id])
        BY <1>8 DEF device_registered
    <2> DEFINE ref == [NoRef EXCEPT !["customer_id"] = customer.id]
    <2>2. ref \in [Fields -> Nat]
        BY <1>1, <1>2 DEF NoRef, Fields, Rows
    <2>3. Resolves(ref)
        BY <1>1, <1>2, TargetOfField DEF Resolves, NoRef
    <2> HIDE DEF ref
    <2> QED BY <1>8, <2>1, <2>2, <2>3, StoreKeeps DEF device_registered, Stored, ref
<1>9. CASE login_attempted
    BY <1>9, LoginKeeps
<1>10. CASE merchant_onboarded
    BY <1>3, <1>10, StoreKeeps DEF merchant_onboarded, Stored
<1>11. ASSUME NEW card \in Random("Card")
       PROVE  /\ CardRef(card) \in [Fields -> Nat]
              /\ Resolves(CardRef(card))
              /\ card \in db["Card"]
              /\ CardRef(card)["card_id"] = card.id
              /\ CardRef(card)["account_id"] = card.ref["account_id"]
              /\ CardRef(card)["customer_id"] = card.ref["customer_id"]
    <2>1. card \in db["Card"] /\ card \in Rows /\ Resolves(card.ref)
          /\ card.id \in IdsOf(db["Card"])
        BY <1>1, <1>2
    <2>2. /\ CardRef(card) \in [Fields -> Nat]
          /\ CardRef(card)["card_id"] = card.id
          /\ CardRef(card)["account_id"] = card.ref["account_id"]
          /\ CardRef(card)["customer_id"] = card.ref["customer_id"]
          /\ \A field \in Fields \ {"card_id", "account_id", "customer_id"} :
                CardRef(card)[field] = 0
        BY <2>1 DEF CardRef, NoRef, Fields, Rows
    <2>3. Resolves(CardRef(card))
        BY <2>1, <2>2, TargetOfField DEF Resolves
    <2> QED BY <2>1, <2>2, <2>3
<1>12. CASE payment_authorised
    <2>1. PICK card \in Random("Card"), merchant \in Random("Merchant") :
              Store("payment_authorised",
                    [CardRef(card) EXCEPT !["merchant_id"] = merchant.id])
        BY <1>12 DEF payment_authorised
    <2> DEFINE ref == [CardRef(card) EXCEPT !["merchant_id"] = merchant.id]
    <2>2. merchant \in Rows /\ merchant.id \in IdsOf(db["Merchant"])
        BY <1>1, <1>2
    <2>3. /\ ref \in [Fields -> Nat]
          /\ ref["merchant_id"] = merchant.id
          /\ \A field \in Fields \ {"merchant_id"} : ref[field] = CardRef(card)[field]
        BY <1>11, <2>2 DEF Fields, Rows
    <2>4. Resolves(ref)
        BY <1>11, <2>2, <2>3, TargetOfField DEF Resolves
    <2>5. /\ card \in db["Card"] /\ card.id = ref["card_id"]
          /\ card.ref["account_id"] = ref["account_id"]
          /\ card.ref["customer_id"] = ref["customer_id"]
        BY <1>11, <2>3 DEF Fields
    <2>6. Store("payment_authorised", ref)
        BY <2>1
    <2> HIDE DEF ref
    <2> QED BY <1>12, <2>3, <2>4, <2>5, <2>6, StoreKeeps
            DEF payment_authorised, Stored
<1>13. CASE atm_withdrawal
    <2>1. PICK card \in Random("Card") : Store("atm_withdrawal", CardRef(card))
        BY <1>13 DEF atm_withdrawal
    <2> QED BY <1>11, <1>13, <2>1, StoreKeeps DEF atm_withdrawal, Stored
<1>14. CASE transfer_completed
    <2>1. \A x, y \in IdsOf(db["Account"]) \cup {0} :
              TransferRef(x, y) \in [Fields -> Nat] /\ Resolves(TransferRef(x, y))
        <3> SUFFICES ASSUME NEW x \in IdsOf(db["Account"]) \cup {0},
                            NEW y \in IdsOf(db["Account"]) \cup {0}
                     PROVE  TransferRef(x, y) \in [Fields -> Nat]
                            /\ Resolves(TransferRef(x, y))
            OBVIOUS
        <3>1. x \in Nat /\ y \in Nat
            BY <1>1, <1>2 DEF IdsOf, Rows
        <3>2. TransferRef(x, y) \in [Fields -> Nat]
            BY <3>1 DEF TransferRef, NoRef, Fields
        <3>3. Resolves(TransferRef(x, y))
            BY TargetOfField DEF TransferRef, NoRef, Resolves
        <3> QED BY <3>2, <3>3
    <2>2. \A x : RandomExcept("Account", x) \subseteq Random("Account")
        BY DEF RandomExcept
    <2>3. PICK x \in IdsOf(db["Account"]) \cup {0}, y \in IdsOf(db["Account"]) \cup {0} :
              Store("transfer_completed", TransferRef(x, y))
        BY <1>1, <1>2, <1>14, <2>2 DEF transfer_completed
    <2> QED BY <1>14, <2>1, <2>3, StoreKeeps DEF transfer_completed, Stored
<1> QED BY <1>4, <1>5, <1>6, <1>7, <1>8, <1>9, <1>10, <1>12, <1>13, <1>14 DEF Draw

\* The statement of an event is committed.
LEMMA CommitKeeps ==
    ASSUME IInv, Commit
    PROVE  IInv'
<1>1. PICK e \in current :
          /\ db' = Committed(e)
          /\ ids' = IF IsUpdate(e) THEN ids
                    ELSE [ids EXCEPT ![TableOf[e.topic]] = @ \cup {e.row.id}]
    BY DEF Commit
<1>2. /\ stage = "commit" /\ status = "up" /\ stage' = "publish"
      /\ UNCHANGED <<status, seeded, current, counter, buffer, kafka, clock>>
    BY DEF Commit
<1>3. /\ current = {e} /\ current' = {e} /\ e \in Events
      /\ TableOf[e.topic] \in Tables
      /\ Published' = Published /\ InFlight' = InFlight
      /\ ids \in [Tables -> SUBSET Nat] /\ counter \in [Tables -> Nat]
      /\ e.row.id \in Nat /\ Published \subseteq Events
    BY <1>1, <1>2, TableOfTopic DEF IInv, TypeOK, Events, Rows, Published, InFlight
<1>4. /\ db' \in [Tables -> SUBSET Rows]
      /\ \A t \in Tables : \A r \in db'[t] : r.id \in 1 .. clock
      /\ UniqueIds'
      /\ ReferentialIntegrity'
      /\ \A t \in Tables :
            IdsOf(db'[t]) = IF t = TableOf[e.topic] /\ ~IsUpdate(e)
                            THEN IdsOf(db[t]) \cup {e.row.id}
                            ELSE IdsOf(db[t])
      /\ \A t \in Tables \ {"Customer"} : db[t] \subseteq db'[t]
      /\ \A t \in Tables : \A r \in db'[t] :
            r \in db[t] \/ (r = e.row /\ t = TableOf[e.topic])
      /\ e.row.id \in IdsOf(db'[TableOf[e.topic]])
    BY <1>1, <1>2, CommittedTables
<1>5. \A t \in Tables : IdsOf(db[t]) \subseteq IdsOf(db'[t])
    BY <1>4
<1>6. TypeOK'
    <2>1. ids' \in [Tables -> SUBSET Nat]
        BY <1>1, <1>3
    <2> QED BY <1>2, <1>3, <1>4, <2>1 DEF IInv, TypeOK
<1>7. IdsBounded'
    BY <1>2, <1>4 DEF IInv, IdsBounded
<1>8. CacheCoherent'
    <2>1. \A t \in Tables : ids'[t] = IdsOf(db'[t])
        BY <1>1, <1>2, <1>3, <1>4 DEF IInv, CacheCoherent
    <2>2. \A t \in Tables : \A r \in db'[t] : r.id <= counter[t]
        BY <1>1, <1>2, <1>4 DEF IInv, CacheCoherent, CurrentFits
    <2> QED BY <1>2, <2>1, <2>2 DEF CacheCoherent
<1>9. EventsAreDurable'
    <2> SUFFICES ASSUME NEW f \in Published
                 PROVE  /\ Resolves(f.row.ref)'
                        /\ f.topic # "login_attempted" =>
                              f.row.id \in IdsOf(db'[TableOf[f.topic]])
        BY <1>3 DEF EventsAreDurable
    <2>1. TableOf[f.topic] \in Tables
        BY <1>3, TableOfTopic DEF Events
    <2>2. Resolves(f.row.ref)
        BY DEF IInv, EventsAreDurable
    <2>3. Resolves(f.row.ref)'
        BY <1>5, <2>2, ResolvesSurvives
    <2> QED BY <1>5, <2>1, <2>3 DEF IInv, EventsAreDurable
<1>10. EventIdsUnique' /\ EventsNumbered' /\ DownIsEmpty'
    BY <1>2, <1>3 DEF IInv, EventIdsUnique, EventsNumbered, DownIsEmpty
<1>11. CurrentFits'
    <2>1. Resolves(e.row.ref)'
        <3>1. Resolves(e.row.ref)
            BY DEF IInv, CurrentFits
        <3> QED BY <1>5, <3>1, ResolvesSurvives
    <2>2. IsUpdate(e) => \E r \in db'["Customer"] :
              r.id = e.row.id /\ r.ref = e.row.ref /\ r.at = e.row.at
        <3>1. SUFFICES ASSUME IsUpdate(e)
                       PROVE  \E r \in db'["Customer"] :
                                 r.id = e.row.id /\ r.ref = e.row.ref /\ r.at = e.row.at
            OBVIOUS
        <3>2. PICK r \in db["Customer"] :
                  r.id = e.row.id /\ r.ref = e.row.ref /\ r.at = e.row.at
            BY <3>1 DEF IInv, CurrentFits
        <3>3. "Customer" \in Tables /\ r.id \in IdsOf(db["Customer"])
            BY DEF Tables, IdsOf
        <3>4. PICK s \in db'["Customer"] : s.id = r.id
            BY <1>5, <3>3 DEF IdsOf
        <3>5. s \in db["Customer"] => s = r
            BY <3>3, <3>4 DEF IInv, UniqueIds
        <3>6. s \in db["Customer"] \/ s = e.row
            BY <1>4, <3>3
        <3> QED BY <3>2, <3>4, <3>5, <3>6
    <2> QED BY <1>2, <1>3, <1>4, <2>1, <2>2 DEF IInv, CurrentFits
<1>12. CardUsesMatch'
    <2>1. "Card" \in Tables \ {"Customer"}
        BY DEF Tables
    <2>2. db["Card"] \subseteq db'["Card"]
        BY <1>4, <2>1
    <2> QED BY <1>3, <2>2 DEF IInv, CardUsesMatch
<1> QED BY <1>4, <1>6, <1>7, <1>8, <1>9, <1>10, <1>11, <1>12 DEF IInv

\* The signal handler commits an open transaction and leaves.
LEMMA ShutdownKeeps ==
    ASSUME IInv, ShutdownDone
    PROVE  IInv'
<1>1. Exit
    BY DEF ShutdownDone
<1>2. "Card" \in Tables \ {"Customer"}
    BY DEF Tables
<1>3. CASE stage = "commit"
    <2>1. PICK e \in current : db' = Committed(e)
        BY <1>3 DEF ShutdownDone
    <2>2. \A t \in Tables : IdsOf(db[t]) \subseteq IdsOf(db'[t])
        BY <1>3, <2>1, CommittedTables
    <2> QED BY <1>1, <1>2, <1>3, <2>1, <2>2, CommittedTables, ExitKeeps
<1>4. CASE stage # "commit"
    <2>1. db' = db
        BY <1>4 DEF ShutdownDone
    <2> QED BY <1>1, <2>1, ExitKeeps
            DEF IInv, TypeOK, IdsBounded, UniqueIds, ReferentialIntegrity, Resolves
<1> QED BY <1>3, <1>4

\* A process starts from its file.
LEMMA BootKeeps ==
    ASSUME IInv, Boot
    PROVE  IInv'
<1>1. /\ status = "down" /\ status' = "up" /\ current = {} /\ buffer = {}
      /\ UNCHANGED <<seeded, stage, current, buffer, db, kafka, clock>>
      /\ ids' = [t \in Tables |-> IdsOf(db[t])]
      /\ counter' = [t \in Tables |-> MaxId(IdsOf(db[t]))]
    BY DEF Boot, IInv, DownIsEmpty
<1>2. /\ db \in [Tables -> SUBSET Rows] /\ clock \in Nat
      /\ Published' = Published /\ InFlight' = InFlight
    BY <1>1 DEF IInv, TypeOK, Published, InFlight
<1>3. \A t \in Tables :
          /\ IdsOf(db[t]) \in SUBSET Nat
          /\ \A n \in IdsOf(db[t]) : n <= clock
    BY <1>2 DEF IInv, IdsBounded, IdsOf, Rows
<1>4. \A t \in Tables :
          /\ MaxId(IdsOf(db[t])) \in 0 .. clock
          /\ \A n \in IdsOf(db[t]) : n <= MaxId(IdsOf(db[t]))
    BY <1>2, <1>3, MaxIdIsUpperBound
<1>5. TypeOK'
    BY <1>1, <1>3, <1>4 DEF IInv, TypeOK
<1>6. IdsBounded' /\ CacheCoherent'
    BY <1>1, <1>2, <1>4 DEF IInv, IdsBounded, CacheCoherent, IdsOf
<1>7. UniqueIds' /\ ReferentialIntegrity' /\ EventsAreDurable' /\ EventIdsUnique'
    BY <1>1, <1>2 DEF IInv, UniqueIds, ReferentialIntegrity, EventsAreDurable,
                      EventIdsUnique, Resolves
<1>8. EventsNumbered' /\ DownIsEmpty' /\ CurrentFits' /\ CardUsesMatch'
    BY <1>1, <1>2 DEF IInv, EventsNumbered, DownIsEmpty, CurrentFits, CardUsesMatch
<1> QED BY <1>5, <1>6, <1>7, <1>8 DEF IInv

\* Steps that leave the file and the set of drawn events alone: the statement
\* is executed, the event is produced or delivered, a signal arrives.
LEMMA HandOverKeeps ==
    ASSUME IInv, UNCHANGED <<ids, counter, db, clock>>, TypeOK',
           status' = status \/ (status = "up" /\ status' = "stopping"),
           buffer' \subseteq buffer \cup current,
           \/ /\ Published' \subseteq Published
              /\ current' = current
              /\ stage' = stage \/ (stage = "execute" /\ stage' = "commit")
           \/ /\ Published' = Published \cup current
              /\ current' = {}
              /\ stage = "publish"
    PROVE  IInv'
<1> USE DEF InFlight
<1>1. IdsBounded' /\ UniqueIds' /\ ReferentialIntegrity' /\ CacheCoherent'
    BY DEF IInv, IdsBounded, UniqueIds, ReferentialIntegrity, CacheCoherent, Resolves
<1>2. EventsAreDurable'
    <2>1. CASE Published' \subseteq Published
        BY <2>1 DEF IInv, EventsAreDurable, Resolves
    <2>2. CASE stage = "publish" /\ Published' \subseteq Published \cup current
        BY <2>2 DEF IInv, EventsAreDurable, Resolves, CurrentFits
    <2> QED BY <2>1, <2>2
<1>3. EventIdsUnique'
    <2>1. CASE Published' \subseteq Published
        BY <2>1 DEF IInv, EventIdsUnique
    <2>2. CASE stage = "publish" /\ Published' \subseteq Published \cup current
        BY <2>2 DEF IInv, TypeOK, EventIdsUnique, CurrentFits
    <2> QED BY <2>1, <2>2
<1>4. EventsNumbered' /\ CardUsesMatch'
    BY DEF IInv, EventsNumbered, CardUsesMatch
<1>5. DownIsEmpty'
    BY DEF IInv, DownIsEmpty
<1>6. CurrentFits'
    <2>1. CASE current' = {}
        BY <2>1 DEF CurrentFits
    <2>2. CASE current' # {}
        <3>1. Published' \subseteq Published
            BY <2>2
        <3>2. stage' = stage \/ (stage = "execute" /\ stage' = "commit")
            BY <2>2
        <3> QED BY <3>1, <3>2 DEF IInv, CurrentFits, Resolves
    <2> QED BY <2>1, <2>2
<1> QED BY <1>1, <1>2, <1>3, <1>4, <1>5, <1>6 DEF IInv

-----------------------------------------------------------------------------
(* The theorems.                                                           *)

\* The invariant holds before the first start.
LEMMA InitEstablishes == Init => IInv
BY DEF Init, IInv, TypeOK, IdsBounded, UniqueIds, CacheCoherent,
       ReferentialIntegrity, EventsAreDurable, EventIdsUnique, EventsNumbered,
       DownIsEmpty, CurrentFits, CardUsesMatch, Published, InFlight, Tables

\* Every step keeps it.
LEMMA NextKeeps == IInv /\ [Next]_vars => IInv'
<1> SUFFICES ASSUME IInv, [Next]_vars PROVE IInv'
    OBVIOUS
<1> USE DEF volatile
<1>1. CASE Boot
    BY <1>1, BootKeeps
<1>2. CASE Draw
    BY <1>2, EachDrawKeeps
<1>3. CASE Execute
    <2>1. TypeOK' /\ Published' = Published
        BY <1>3 DEF IInv, TypeOK, Execute, Published
    <2> QED BY <1>3, <2>1, HandOverKeeps DEF Execute
<1>4. CASE Commit
    BY <1>4, CommitKeeps
<1>5. CASE Produce
    <2>1. TypeOK' /\ Published' = Published \cup current
        BY <1>5 DEF IInv, TypeOK, Produce, Published
    <2> QED BY <1>5, <2>1, HandOverKeeps DEF Produce
<1>6. CASE Crash \/ RecursionError \/ BufferError
    <2>1. Exit /\ db' = db
        BY <1>6 DEF Crash, RecursionError, BufferError
    <2> QED BY <2>1, ExitKeeps
            DEF IInv, TypeOK, IdsBounded, UniqueIds, ReferentialIntegrity, Resolves
<1>7. CASE SigTerm
    <2>1. TypeOK' /\ Published' = Published
        BY <1>7 DEF IInv, TypeOK, SigTerm, Published
    <2> QED BY <1>7, <2>1, HandOverKeeps DEF SigTerm
<1>8. CASE ShutdownDone
    BY <1>8, ShutdownKeeps
<1>9. CASE Broker
    <2>1. PICK e \in buffer : Deliver(e) \/ DeliveryFails(e)
        BY <1>9 DEF Broker
    <2>2. TypeOK' /\ Published' \subseteq Published
        BY <2>1 DEF IInv, TypeOK, Deliver, DeliveryFails, Published
    <2> QED BY <2>1, <2>2, HandOverKeeps DEF Deliver, DeliveryFails
<1>10. CASE UNCHANGED vars
    <2>1. TypeOK' /\ Published' = Published
        BY <1>10 DEF IInv, TypeOK, vars, Published
    <2> QED BY <1>10, <2>1, HandOverKeeps DEF vars
<1> QED BY <1>1, <1>2, <1>3, <1>4, <1>5, <1>6, <1>7, <1>8, <1>9, <1>10
        DEF Next, Main, Stop, Terminating

THEOREM Invariance == Spec => []IInv
<1> QED BY InitEstablishes, NextKeeps, PTL DEF Spec

\* Every variable keeps its type.
THEOREM TypeCorrect == Spec => []TypeOK
<1>1. IInv => TypeOK
    BY DEF IInv
<1> QED BY <1>1, Invariance, PTL

\* The file stays sound and the process agrees with it: no id twice, no
\* reference to a missing row, no id the counter could give out again.
THEOREM FileIsSound == Spec => []FileSound
<1>1. IInv => FileSound
    BY DEF IInv, FileSound
<1> QED BY <1>1, Invariance, PTL

\* A published event speaks only of committed rows.
THEOREM PublishedIsDurable == Spec => []EventsAreDurable
<1>1. IInv => EventsAreDurable
    BY DEF IInv
<1> QED BY <1>1, Invariance, PTL

\* No two events of a stored entity share an id, through any restarts.
THEOREM NoIdReused == Spec => []EventIdsUnique
<1>1. IInv => EventIdsUnique
    BY DEF IInv
<1> QED BY <1>1, Invariance, PTL

\* A card determines the account and the customer of its payments and
\* withdrawals.
THEOREM CardGroups == Spec => []CardDeterminesGroup
<1>1. IInv => CardDeterminesGroup
    <2> SUFFICES ASSUME IInv, NEW e \in Published, NEW f \in Published,
                        UsesCard(e), UsesCard(f),
                        e.row.ref["card_id"] = f.row.ref["card_id"],
                        NEW field \in {"account_id", "customer_id"}
                 PROVE  e.row.ref[field] = f.row.ref[field]
        BY DEF CardDeterminesGroup
    <2>1. PICK card \in db["Card"] :
              /\ card.id = e.row.ref["card_id"]
              /\ card.ref["account_id"] = e.row.ref["account_id"]
              /\ card.ref["customer_id"] = e.row.ref["customer_id"]
        BY DEF IInv, CardUsesMatch, InFlight
    <2>2. PICK other \in db["Card"] :
              /\ other.id = f.row.ref["card_id"]
              /\ other.ref["account_id"] = f.row.ref["account_id"]
              /\ other.ref["customer_id"] = f.row.ref["customer_id"]
        BY DEF IInv, CardUsesMatch, InFlight
    <2>3. card = other
        BY <2>1, <2>2 DEF IInv, UniqueIds, Tables
    <2> QED BY <2>1, <2>2, <2>3
<1> QED BY <1>1, Invariance, PTL

\* A committed row survives every step; only a customer's own columns change.
THEOREM CommittedRowsSurvive == Spec => RowsSurvive
<1> DEFINE Keeps == \A t \in Tables : \A r \in db[t] :
                       \E s \in db'[t] :
                           /\ s.id = r.id /\ s.ref = r.ref /\ s.at = r.at
                           /\ t # "Customer" => s = r
<1>1. db' = db => Keeps
    OBVIOUS
<1>2. ASSUME IInv, NEW e \in current, stage = "commit", db' = Committed(e)
      PROVE  Keeps
    <2> SUFFICES ASSUME NEW t \in Tables, NEW r \in db[t]
                 PROVE  \E s \in db'[t] :
                           /\ s.id = r.id /\ s.ref = r.ref /\ s.at = r.at
                           /\ t # "Customer" => s = r
        OBVIOUS
    <2>1. CASE r \in db'[t]
        BY <2>1
    <2>2. CASE r \notin db'[t]
        <3>1. t = "Customer" /\ r.id \in IdsOf(db'[t])
            BY <1>2, <2>2, CommittedTables, SMTT(30) DEF IdsOf
        <3>2. PICK s \in db'[t] : s.id = r.id
            BY <3>1 DEF IdsOf
        <3>3. s \notin db[t]
            BY <1>2, <2>2, <3>2 DEF IInv, UniqueIds
        <3>4. s = e.row /\ TableOf[e.topic] = "Customer"
            BY <1>2, <3>1, <3>3, CommittedTables
        <3>5. IsUpdate(e)
            <4>1. SUFFICES ASSUME ~IsUpdate(e) PROVE FALSE
                OBVIOUS
            <4>2. e.row.id \notin IdsOf(db["Customer"])
                BY <1>2, <3>4, <4>1 DEF IInv, CurrentFits
            <4> QED BY <3>1, <3>2, <3>4, <4>2 DEF IdsOf
        <3>6. PICK old \in db["Customer"] :
                  old.id = e.row.id /\ old.ref = e.row.ref /\ old.at = e.row.at
            BY <1>2, <3>5 DEF IInv, CurrentFits
        <3>7. old = r
            BY <1>2, <3>1, <3>2, <3>4, <3>6 DEF IInv, UniqueIds
        <3> QED BY <3>1, <3>2, <3>4, <3>6, <3>7
    <2> QED BY <2>1, <2>2
<1>3. ASSUME IInv, [Next]_vars
      PROVE  [Keeps]_vars
    <2>1. CASE Commit
        BY <1>2, <1>3, <2>1 DEF Commit
    <2>2. CASE ShutdownDone
        BY <1>1, <1>2, <1>3, <2>2 DEF ShutdownDone
    <2>3. CASE ~Commit /\ ~ShutdownDone
        <3>1. db' = db
            BY <1>3, <2>3
            DEF Next, Main, Draw, Stop, Broker, Boot, Execute, Produce, Crash,
                RecursionError, BufferError, SigTerm, Deliver, DeliveryFails,
                Terminating, vars, Store, customer_created,
                customer_details_updated, account_opened, card_issued,
                device_registered, login_attempted, merchant_onboarded,
                payment_authorised, atm_withdrawal, transfer_completed
        <3> QED BY <1>1, <3>1
    <2> QED BY <2>1, <2>2, <2>3
<1> QED BY <1>3, Invariance, PTL DEF Spec, RowsSurvive

-----------------------------------------------------------------------------
(* Refinement: pending are the events drawn and not delivered or lost.     *)

\* Drawing makes one new event, numbered by the clock.
LEMMA DrawAccepts ==
    ASSUME IInv, Draw
    PROVE  /\ stage = "choose"
           /\ \E e : current' = {e} /\ e.row.data = clock + 1
           /\ clock' = clock + 1 /\ UNCHANGED <<buffer, kafka>>
<1> USE DEF Chosen
<1>1. ASSUME NEW topic, NEW ref, Create(topic, ref)
      PROVE  /\ clock' = clock + 1
             /\ \E e : current' = {e} /\ e.row.data = clock + 1
    <2> DEFINE e == [topic |-> topic,
                     row |-> [id |-> counter[TableOf[topic]] + 1, ref |-> ref,
                              at |-> clock + 1, data |-> clock + 1]]
    <2>1. current' = {e} /\ e.row.data = clock + 1
        BY <1>1 DEF Create
    <2> HIDE DEF e
    <2> QED BY <1>1, <2>1 DEF Create
<1>2. CASE customer_details_updated
    <2>1. PICK customer \in Random("Customer") :
              current' = {[topic |-> "customer_details_updated",
                           row |-> [customer EXCEPT !.data = clock + 1]]}
        BY <1>2 DEF customer_details_updated
    <2>2. customer \in Rows
        BY DEF IInv, TypeOK, Random, Tables
    <2> DEFINE e == [topic |-> "customer_details_updated",
                     row |-> [customer EXCEPT !.data = clock + 1]]
    <2>3. current' = {e} /\ e.row.data = clock + 1
        BY <2>1, <2>2 DEF Rows
    <2> HIDE DEF e
    <2> QED BY <1>2, <2>3 DEF customer_details_updated
<1>3. CASE login_attempted
    BY <1>1, <1>3 DEF login_attempted
<1>4. CASE \E topic, ref : Chosen(topic) /\ Store(topic, ref)
    BY <1>1, <1>4 DEF Store
<1> QED
    BY <1>2, <1>3, <1>4
    DEF Draw, customer_created, account_opened, card_issued, device_registered,
        merchant_onboarded, payment_authorised, atm_withdrawal, transfer_completed

\* Every step is a step of the log or leaves it alone.
LEMMA StepRefines ==
    ASSUME IInv, [Next]_vars
    PROVE  [Log!Next]_(Log!vars)
<1> DEFINE Pending == {e.row.data : e \in current \cup buffer}
           Seen == {e.row.data : e \in kafka}
<1>1. CASE Draw
    <2>1. Log!Accept
        BY <1>1, DrawAccepts DEF IInv, TypeOK, Log!Accept
    <2> QED BY <2>1 DEF Log!Next
<1>2. CASE Broker
    <2>1. PICK e \in buffer : Deliver(e) \/ DeliveryFails(e)
        BY <1>2 DEF Broker
    <2>2. \A f \in current \cup buffer : f.row.data = e.row.data => f = e
        BY DEF IInv, EventsNumbered, InFlight, Published
    <2>3. e \notin current
        BY DEF IInv, EventsNumbered, InFlight, Published
    <2>4. Pending' = Pending \ {e.row.data} /\ clock' = clock
        BY <2>1, <2>2, <2>3 DEF Deliver, DeliveryFails
    <2>5. CASE Deliver(e)
        <3>1. Log!Append(e.row.data)
            BY <2>4, <2>5 DEF Deliver, Log!Append
        <3> QED BY <3>1 DEF Log!Next, Log!Append
    <2>6. CASE DeliveryFails(e)
        <3>1. Log!Lose({e.row.data})
            BY <2>4, <2>6 DEF DeliveryFails, Log!Lose
        <3> QED BY <3>1 DEF Log!Next
    <2> QED BY <2>1, <2>5, <2>6
<1>3. CASE Exit
    <2>1. Log!Lose(Pending)
        BY <1>3 DEF Exit, Log!Lose
    <2>2. \E lost \in SUBSET Pending : Log!Lose(lost)
        <3>1. Pending \in SUBSET Pending
            OBVIOUS
        <3> QED BY <2>1, <3>1 DEF Log!Lose
    <2> QED BY <2>2 DEF Log!Next
<1>4. CASE UNCHANGED <<current \cup buffer, kafka, clock>>
    BY <1>4 DEF Log!vars
<1> QED
    BY <1>1, <1>2, <1>3, <1>4
    DEF Next, Main, Stop, Boot, Execute, Commit, Produce, Crash, RecursionError,
        BufferError, SigTerm, ShutdownDone, Terminating, vars, volatile

\* Readers of the topics see every event at most once.
THEOREM Refinement == Spec => AtMostOnce
<1>1. Init => Log!Init
    BY DEF Init, Log!Init
<1>2. IInv /\ [Next]_vars => [Log!Next]_(Log!vars)
    BY StepRefines
<1> QED BY <1>1, <1>2, Invariance, PTL DEF Spec, AtMostOnce, Log!Spec

-----------------------------------------------------------------------------
(* What holds while nothing is lost, and while the process keeps running.  *)
(* Both are broken by a fault; neither follows from IInv alone.            *)

\* A drawn event that is a login attempt takes the next id of the devices.
LEMMA DrawNumbers ==
    ASSUME IInv, Draw
    PROVE  /\ status = "up" /\ stage = "choose" /\ clock' = clock + 1
           /\ UNCHANGED <<status, buffer, db, kafka>>
           /\ counter' \in [Tables -> Nat]
           /\ counter'["Device"] >= counter["Device"]
           /\ \E e \in current' :
                 /\ current' = {e}
                 /\ e.topic = "login_attempted" =>
                       /\ e.row.id = counter["Device"] + 1
                       /\ counter'["Device"] = counter["Device"] + 1
<1> USE DEF Chosen
<1>1. counter \in [Tables -> Nat] /\ "Device" \in Tables
    BY DEF IInv, TypeOK, Tables
<1>2. ASSUME NEW topic \in Topics, NEW ref, Create(topic, ref)
      PROVE  /\ clock' = clock + 1
             /\ counter' \in [Tables -> Nat]
             /\ counter'["Device"] >= counter["Device"]
             /\ \E e \in current' :
                   /\ current' = {e}
                   /\ e.topic = "login_attempted" =>
                         /\ e.row.id = counter["Device"] + 1
                         /\ counter'["Device"] = counter["Device"] + 1
    <2> DEFINE e == [topic |-> topic,
                     row |-> [id |-> counter[TableOf[topic]] + 1, ref |-> ref,
                              at |-> clock + 1, data |-> clock + 1]]
    <2>1. /\ current' = {e} /\ clock' = clock + 1
          /\ counter' = [counter EXCEPT ![TableOf[topic]] = @ + 1]
        BY <1>2 DEF Create
    <2>2. e.topic = topic /\ e.row.id = counter[TableOf[topic]] + 1
        OBVIOUS
    <2>3. TableOf[topic] \in Tables /\ TableOf["login_attempted"] = "Device"
        BY TableOfTopic
    <2> HIDE DEF e
    <2>4. /\ counter' \in [Tables -> Nat]
          /\ counter'["Device"] >= counter["Device"]
          /\ topic = "login_attempted" =>
                counter'["Device"] = counter["Device"] + 1
        BY <1>1, <2>1, <2>3
    <2> QED BY <2>1, <2>2, <2>3, <2>4
<1>3. CASE customer_details_updated
    <2>1. PICK customer \in Random("Customer") :
              current' = {[topic |-> "customer_details_updated",
                           row |-> [customer EXCEPT !.data = clock + 1]]}
        BY <1>3 DEF customer_details_updated
    <2> QED BY <1>1, <1>3, <2>1 DEF customer_details_updated
<1>4. CASE login_attempted
    BY <1>2, <1>4 DEF login_attempted, Topics
<1>5. CASE \E topic \in Topics : \E ref : Chosen(topic) /\ Store(topic, ref)
    BY <1>2, <1>5 DEF Store
<1> QED
    BY <1>3, <1>4, <1>5
    DEF Draw, customer_created, account_opened, card_issued, device_registered,
        merchant_onboarded, payment_authorised, atm_withdrawal,
        transfer_completed, Topics

\* While the process keeps running its counter stays past every login.
LEMMA LoginsStayNumbered ==
    ASSUME IInv, LoginsNumbered, [Next]_vars,
           status # "down" => status' # "down"
    PROVE  LoginsNumbered'
<1> USE DEF InFlight, Published
<1>1. counter \in [Tables -> Nat] /\ "Device" \in Tables
      /\ \A e \in InFlight : e.row.id \in Nat
    BY DEF IInv, TypeOK, Tables, Events, Rows
<1>2. CASE Draw
    <2>1. PICK e \in current' :
              /\ current' = {e}
              /\ e.topic = "login_attempted" =>
                    /\ e.row.id = counter["Device"] + 1
                    /\ counter'["Device"] = counter["Device"] + 1
        BY <1>2, DrawNumbers
    <2>2. /\ status' # "down" /\ InFlight' \subseteq InFlight \cup {e}
          /\ counter'["Device"] \in Nat
          /\ counter'["Device"] >= counter["Device"]
        BY <1>1, <1>2, <2>1, DrawNumbers
    <2>3. \A f \in InFlight : f.topic = "login_attempted" =>
              f.row.id <= counter["Device"]
        BY DEF LoginsNumbered
    <2>4. \A f \in InFlight' : f.topic = "login_attempted" =>
              f.row.id <= counter'["Device"]
        BY <1>1, <2>1, <2>2, <2>3
    <2>5. \A f, g \in InFlight' :
              /\ f.topic = "login_attempted"
              /\ g.topic = "login_attempted"
              /\ g.row.id = f.row.id
              => g = f
        BY <1>1, <2>1, <2>2, <2>3 DEF LoginsNumbered
    <2> QED BY <2>2, <2>4, <2>5 DEF LoginsNumbered
<1>3. CASE Boot
    <2>1. InFlight' = {} /\ kafka' = {}
        BY <1>3 DEF Boot, LoginsNumbered, IInv, DownIsEmpty
    <2> QED BY <2>1 DEF LoginsNumbered
<1>4. CASE Exit
    <2>1. status = "down" /\ status' = "down" /\ kafka' = kafka
        BY <1>4 DEF Exit
    <2>2. InFlight' = {} /\ kafka' = {}
        BY <1>4, <2>1 DEF Exit, LoginsNumbered
    <2> QED BY <2>2 DEF LoginsNumbered
<1>5. CASE /\ InFlight' \subseteq InFlight /\ counter' = counter
           /\ status' = "down" => UNCHANGED <<status, kafka>>
    BY <1>5 DEF LoginsNumbered
<1>6. Execute \/ Commit \/ Produce \/ SigTerm \/ Broker \/ UNCHANGED vars
      => /\ InFlight' \subseteq InFlight /\ counter' = counter
         /\ status' = "down" => UNCHANGED <<status, kafka>>
    <2>1. Broker => status # "down"
        BY DEF Broker, IInv, DownIsEmpty
    <2> QED BY <2>1 DEF Execute, Commit, Produce, SigTerm, Broker, Deliver,
                        DeliveryFails, vars, volatile
<1> QED
    BY <1>2, <1>3, <1>4, <1>5, <1>6
    DEF Next, Main, Stop, Crash, RecursionError, BufferError, ShutdownDone,
        Terminating

\* Login attempts of one uninterrupted process have different ids.  A restart
\* is what it takes to repeat one: the counter starts again from the devices.
THEOREM LoginsUniqueWhileRunning == Spec /\ Uninterrupted => []LoginIdsUnique
<1>1. Init => LoginsNumbered
    BY DEF Init, LoginsNumbered, InFlight, Published
<1>2. /\ IInv /\ LoginsNumbered /\ [Next]_vars
      /\ [status # "down" => status' # "down"]_vars
      => LoginsNumbered'
    <2>1. CASE UNCHANGED vars
        BY <2>1 DEF LoginsNumbered, InFlight, Published, vars, volatile
    <2>2. CASE status # "down" => status' # "down"
        BY <2>2, LoginsStayNumbered
    <2> QED BY <2>1, <2>2
<1>3. LoginsNumbered => LoginIdsUnique
    BY DEF LoginsNumbered, LoginIdsUnique, InFlight
<1> QED BY <1>1, <1>2, <1>3, Invariance, PTL DEF Spec, Uninterrupted

\* Only a produced event joins the published ones, only a committed row
\* joins the file, and an event that is not lost stays published.
LEMMA PublishingSteps ==
    ASSUME IInv, [Next]_vars, InFlight \subseteq InFlight'
    PROVE  /\ Published \subseteq Published'
           /\ Published' \subseteq Published \/ Published' = InFlight'
           /\ Published' \subseteq InFlight
           /\ \/ db' = db
              \/ \E e \in current : /\ stage = "commit"
                                   /\ db' = Committed(e)
                                   /\ current' = current
<1> USE DEF InFlight, Published
<1>1. current \cap Published = {}
    BY DEF IInv, EventsNumbered
<1>2. CASE Draw
    BY <1>2, DrawNumbers
<1>3. CASE Produce
    BY <1>3 DEF Produce
<1>4. CASE Commit
    BY <1>4 DEF Commit
<1>5. CASE Broker
    <2>1. PICK e \in buffer : Deliver(e) \/ DeliveryFails(e)
        BY <1>5 DEF Broker
    <2> QED BY <1>1, <2>1 DEF Deliver, DeliveryFails
<1>6. CASE Exit
    <2>1. current = {} /\ Published' = Published
        BY <1>1, <1>6 DEF Exit
    <2>2. db' = db \/ ~ShutdownDone
        BY <2>1 DEF ShutdownDone
    <2>3. ~ShutdownDone => db' = db
        BY <1>6 DEF Next, Main, Draw, Stop, Broker, Boot, Execute, Commit,
                    Produce, Crash, RecursionError, BufferError, SigTerm,
                    Deliver, DeliveryFails, Terminating, vars, Exit, Store,
                    customer_created, customer_details_updated, account_opened,
                    card_issued, device_registered, login_attempted,
                    merchant_onboarded, payment_authorised, atm_withdrawal,
                    transfer_completed
    <2> QED BY <2>1, <2>2, <2>3
<1>7. CASE Boot \/ Execute \/ SigTerm \/ UNCHANGED vars
    BY <1>7 DEF Boot, Execute, SigTerm, vars, volatile
<1> QED
    BY <1>2, <1>3, <1>4, <1>5, <1>6, <1>7
    DEF Next, Main, Stop, Crash, RecursionError, BufferError, ShutdownDone,
        Terminating

\* While no event is lost, every row of the file has been announced or is
\* about to be, and whatever a published event mentions has been.
LEMMA RowsStayAnnounced ==
    ASSUME IInv, RowsAnnounced, [Next]_vars, InFlight \subseteq InFlight'
    PROVE  RowsAnnounced'
<1>1. /\ Published \subseteq Published'
      /\ Published' \subseteq Published \/ Published' = InFlight'
      /\ Published' \subseteq InFlight
      /\ \A t, id : Announces(InFlight, t, id) => Announces(InFlight', t, id)
      /\ \A t, id : Announces(Published, t, id) => Announces(Published', t, id)
    BY PublishingSteps DEF Announces
<1>2. ASSUME NEW t \in Tables, NEW r \in db'[t]
      PROVE  Announces(InFlight', t, r.id)
    <2>1. CASE r.id \in IdsOf(db[t])
        BY <1>1, <2>1 DEF RowsAnnounced, IdsOf
    <2>2. CASE r.id \notin IdsOf(db[t])
        <3>1. db' # db
            BY <2>2 DEF IdsOf
        <3>2. PICK e \in current : /\ stage = "commit"
                                  /\ db' = Committed(e)
                                  /\ current' = current
            BY <3>1, PublishingSteps
        <3>3. r.id \in IdsOf(db'[t])
            BY DEF IdsOf
        <3>4. t = TableOf[e.topic] /\ ~IsUpdate(e) /\ r.id = e.row.id
            <4>1. \A u \in Tables :
                      IdsOf(db'[u]) = IF u = TableOf[e.topic] /\ ~IsUpdate(e)
                                      THEN IdsOf(db[u]) \cup {e.row.id}
                                      ELSE IdsOf(db[u])
                BY <3>2, CommittedTables
            <4> QED BY <2>2, <3>3, <4>1
        <3>5. e.topic \in Topics /\ e.topic # "login_attempted"
            BY <3>2 DEF IInv, TypeOK, Events, CurrentFits
        <3>6. e.topic \in Stored
            BY <3>4, <3>5, TableOfTopic DEF IsUpdate
        <3>7. e \in InFlight'
            BY <3>2 DEF InFlight
        <3> QED BY <3>4, <3>6, <3>7 DEF Announces
    <2> QED BY <2>1, <2>2
<1>3. ASSUME NEW e \in Published', NEW field \in Fields, e.row.ref[field] # 0
      PROVE  Announces(Published', Target[field], e.row.ref[field])
    <2>1. CASE e \in Published
        BY <1>1, <1>3, <2>1 DEF RowsAnnounced
    <2>2. CASE e \notin Published
        <3>1. e \in current /\ Published' = InFlight'
            BY <1>1, <2>2 DEF InFlight
        <3>2. e.row.ref[field] \in IdsOf(db[Target[field]])
            BY <1>3, <3>1 DEF IInv, CurrentFits, Resolves
        <3>3. Announces(InFlight, Target[field], e.row.ref[field])
            BY <3>2, TargetOfField DEF RowsAnnounced, IdsOf
        <3> QED BY <1>1, <3>1, <3>3
    <2> QED BY <2>1, <2>2
<1> QED BY <1>2, <1>3 DEF RowsAnnounced

\* A reader can join whatever an event refers to as long as no event is lost:
\* neither by a process that ends with one in hand nor by a failed delivery.
THEOREM JoinsPossibleWithoutLoss == Spec /\ NothingLost => []JoinsPossible
<1>1. Init => RowsAnnounced
    BY DEF Init, RowsAnnounced, Published
<1>2. /\ IInv /\ RowsAnnounced /\ [Next]_vars
      /\ [InFlight \subseteq InFlight']_vars
      => RowsAnnounced'
    <2>1. CASE UNCHANGED vars
        <3>1. InFlight' = InFlight
            BY <2>1 DEF InFlight, Published, vars, volatile
        <3> QED BY <2>1, <3>1, RowsStayAnnounced
    <2>2. CASE InFlight \subseteq InFlight'
        BY <2>2, RowsStayAnnounced
    <2> QED BY <2>1, <2>2
<1>3. RowsAnnounced => JoinsPossible
    BY DEF RowsAnnounced, JoinsPossible, Published
<1> QED BY <1>1, <1>2, <1>3, Invariance, PTL DEF Spec, NothingLost

=============================================================================
