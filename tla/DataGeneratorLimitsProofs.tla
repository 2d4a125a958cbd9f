---------------------- MODULE DataGeneratorLimitsProofs ----------------------
(***************************************************************************)
(* Proofs about the limits on accounts per customer and cards per account, *)
(* which are checked when an event is drawn and relied on when its row is  *)
(* committed, perhaps by the signal handler.                               *)
(***************************************************************************)
EXTENDS DataGeneratorProofs, FiniteSetTheorems

\* The limited tables: the column that is counted, the event that adds a row,
\* and the limit.
Limited == {"Account", "Card"}
Column(t) == IF t = "Account" THEN "customer_id" ELSE "account_id"
Adds(t) == IF t = "Account" THEN "account_opened" ELSE "card_issued"
Limit(t) == IF t = "Account" THEN MaxAccountsPerCustomer ELSE MaxCardsPerAccount

\* No entity has more than the limit, and the one a row is being added to has
\* less until that row is committed.
LimitInv ==
    /\ \A t \in Limited : IsFiniteSet(db[t])
    /\ \A t \in Limited, n \in Nat : CountOf(t, Column(t), n) <= Limit(t)
    /\ \A t \in Limited, e \in current :
          stage \in {"execute", "commit"} /\ e.topic = Adds(t) =>
              CountOf(t, Column(t), e.row.ref[Column(t)]) < Limit(t)

-----------------------------------------------------------------------------
LEMMA InitLimits == Init => LimitInv
<1> SUFFICES ASSUME Init PROVE LimitInv
    OBVIOUS
<1>1. Limited \subseteq Tables
    BY DEF Limited, Tables
<1>2. \A t \in Limited : db[t] = {}
    BY <1>1 DEF Init
<1>3. \A t \in Limited, n \in Nat : CountOf(t, Column(t), n) = 0
    BY <1>2, FS_EmptySet DEF CountOf
<1>4. \A t \in Limited : Limit(t) \in Nat
    BY LimitsAssumption DEF Limit
<1>5. current = {}
    BY DEF Init
<1> QED BY <1>2, <1>3, <1>4, <1>5, FS_EmptySet DEF LimitInv

\* The rows of an entity are finitely many, and one more row is at most one
\* more of them.
LEMMA CountGrows ==
    ASSUME NEW t, IsFiniteSet(db[t]), NEW r, db'[t] = db[t] \cup {r},
           NEW field, NEW n
    PROVE  /\ CountOf(t, field, n) \in Nat /\ CountOf(t, field, n)' \in Nat
           /\ r.ref[field] # n => CountOf(t, field, n)' = CountOf(t, field, n)
           /\ CountOf(t, field, n)' <= CountOf(t, field, n) + 1
<1> DEFINE A == {s \in db[t] : s.ref[field] = n}
           B == {s \in db[t] \cup {r} : s.ref[field] = n}
<1>0. CountOf(t, field, n) = Cardinality(A) /\ CountOf(t, field, n)' = Cardinality(B)
    BY DEF CountOf
<1>1. IsFiniteSet(A) /\ Cardinality(A) \in Nat
    BY FS_Subset, FS_CardinalityType
<1>2. B = A \/ B = A \cup {r}
    OBVIOUS
<1>3. r.ref[field] # n => B = A
    OBVIOUS
<1> HIDE DEF A, B
<1>4. /\ Cardinality(A \cup {r}) = IF r \in A THEN Cardinality(A) ELSE Cardinality(A) + 1
      /\ IsFiniteSet(A \cup {r})
    BY <1>1, FS_AddElement
<1>5. Cardinality(B) = Cardinality(A) \/ Cardinality(B) = Cardinality(A) + 1
    BY <1>2, <1>4
<1> QED BY <1>0, <1>1, <1>3, <1>5

\* A committed row uses the place that was seen to be free.
LEMMA CommittedLimits ==
    ASSUME IInv, LimitInv, NEW e \in current, stage = "commit", db' = Committed(e)
    PROVE  /\ \A t \in Limited : IsFiniteSet(db'[t])
           /\ \A t \in Limited, n \in Nat : CountOf(t, Column(t), n)' <= Limit(t)
<1>1. /\ TableOf[e.topic] \in Tables /\ db \in [Tables -> SUBSET Rows]
      /\ e.topic \in Topics
      /\ Limited \subseteq Tables
    BY TableOfTopic DEF IInv, TypeOK, Events, Limited, Tables
<1> SUFFICES ASSUME NEW t \in Limited
             PROVE  /\ IsFiniteSet(db'[t])
                    /\ \A n \in Nat : CountOf(t, Column(t), n)' <= Limit(t)
    OBVIOUS
<1>2. /\ IsFiniteSet(db[t])
      /\ \A n \in Nat : CountOf(t, Column(t), n) <= Limit(t)
      /\ Limit(t) \in Nat
    BY LimitsAssumption DEF LimitInv, Limit
<1>3. CASE TableOf[e.topic] # t
    <2>1. db'[t] = db[t]
        BY <1>1, <1>3 DEF Committed
    <2> QED BY <1>2, <2>1 DEF CountOf
<1>4. CASE TableOf[e.topic] = t
    <2>1. e.topic = Adds(t) /\ ~IsUpdate(e)
        BY <1>1, <1>4 DEF TableOf, Topics, Limited, Adds, IsUpdate
    <2>2. db'[t] = db[t] \cup {e.row}
        BY <1>1, <1>4, <2>1 DEF Committed
    <2>3. CountOf(t, Column(t), e.row.ref[Column(t)]) < Limit(t)
        BY <2>1 DEF LimitInv
    <2>4. IsFiniteSet(db'[t])
        BY <1>2, <2>2, FS_AddElement
    <2>5. ASSUME NEW n \in Nat
          PROVE  CountOf(t, Column(t), n)' <= Limit(t)
        <3>1. /\ CountOf(t, Column(t), n) \in Nat /\ CountOf(t, Column(t), n)' \in Nat
              /\ e.row.ref[Column(t)] # n =>
                    CountOf(t, Column(t), n)' = CountOf(t, Column(t), n)
              /\ CountOf(t, Column(t), n)' <= CountOf(t, Column(t), n) + 1
            BY <1>2, <2>2, CountGrows
        <3> QED BY <1>2, <2>3, <3>1
    <2> QED BY <2>4, <2>5
<1> QED BY <1>3, <1>4

\* The file stays as it is, and no row is on its way that was not.
LEMMA SameFile ==
    ASSUME LimitInv, db' = db,
           \/ current' = {}
           \/ current' = current /\ (stage \in {"execute", "commit"} \/ stage' = stage)
           \/ stage' \notin {"execute", "commit"}
    PROVE  LimitInv'
BY DEF LimitInv, CountOf

\* A draw looks at the limit.
LEMMA DrawLimits ==
    ASSUME IInv, LimitInv, Draw
    PROVE  LimitInv'
<1>1. db' = db
    BY DEF Draw, customer_created, customer_details_updated, account_opened, card_issued,
           device_registered, login_attempted, merchant_onboarded, payment_authorised,
           atm_withdrawal, transfer_completed, Store
<1>2. \A t \in Limited : IsFiniteSet(db'[t])
    BY <1>1 DEF LimitInv
<1>3. \A t \in Limited, n \in Nat : CountOf(t, Column(t), n)' <= Limit(t)
    BY <1>1 DEF LimitInv, CountOf
<1>4. ASSUME NEW t \in Limited, NEW e \in current', e.topic = Adds(t)
      PROVE  CountOf(t, Column(t), e.row.ref[Column(t)]) < Limit(t)
    <2>1. CASE account_opened
        <3>1. PICK customer \in AccountHolders :
                  Store("account_opened", [NoRef EXCEPT !["customer_id"] = customer.id])
            BY <2>1 DEF account_opened
        <3>2. /\ e.topic = "account_opened"
              /\ e.row.ref["customer_id"] = customer.id
            BY <3>1 DEF Store, Create, NoRef, Fields
        <3>3. t = "Account"
            BY <1>4, <3>2 DEF Limited, Adds
        <3> QED BY <3>1, <3>2, <3>3 DEF AccountHolders, Column, Limit
    <2>2. CASE card_issued
        <3>1. PICK account \in CardAccounts :
                  Store("card_issued",
                        [NoRef EXCEPT !["account_id"] = account.id,
                                      !["customer_id"] = account.ref["customer_id"]])
            BY <2>2 DEF card_issued
        <3>2. /\ e.topic = "card_issued"
              /\ e.row.ref["account_id"] = account.id
            BY <3>1 DEF Store, Create, NoRef, Fields
        <3>3. t = "Card"
            BY <1>4, <3>2 DEF Limited, Adds
        <3> QED BY <3>1, <3>2, <3>3 DEF CardAccounts, Column, Limit
    <2>3. CASE ~account_opened /\ ~card_issued
        <3>1. e.topic \notin {"account_opened", "card_issued"}
            BY <2>3 DEF Draw, customer_created, customer_details_updated,
                device_registered, login_attempted, merchant_onboarded, payment_authorised,
                atm_withdrawal, transfer_completed, Store, Create
        <3> QED BY <1>4, <3>1 DEF Adds
    <2> QED BY <2>1, <2>2, <2>3
<1>5. \A t \in Limited, e \in current' :
          CountOf(t, Column(t), e.row.ref[Column(t)])' = CountOf(t, Column(t), e.row.ref[Column(t)])
    BY <1>1 DEF CountOf
<1> QED BY <1>2, <1>3, <1>4, <1>5 DEF LimitInv

LEMMA NextLimits == IInv /\ LimitInv /\ [Next]_vars => LimitInv'
<1> SUFFICES ASSUME IInv, LimitInv, [Next]_vars PROVE LimitInv'
    OBVIOUS
<1> USE DEF volatile
<1>1. CASE Draw
    BY <1>1, DrawLimits
<1>2. CASE Commit
    <2>1. PICK e \in current : db' = Committed(e)
        BY <1>2 DEF Commit
    <2>2. stage = "commit" /\ stage' = "publish"
        BY <1>2 DEF Commit
    <2> QED BY <2>1, <2>2, CommittedLimits DEF LimitInv
<1>3. CASE ShutdownDone
    <2>1. current' = {}
        BY <1>3 DEF ShutdownDone, Exit
    <2>2. CASE stage = "commit"
        <3>1. PICK e \in current : db' = Committed(e)
            BY <1>3, <2>2 DEF ShutdownDone
        <3> QED BY <2>1, <2>2, <3>1, CommittedLimits DEF LimitInv
    <2>3. CASE stage # "commit"
        BY <1>3, <2>1, <2>3, SameFile DEF ShutdownDone
    <2> QED BY <2>2, <2>3
<1>4. CASE Boot \/ Execute \/ Produce \/ Crash \/ RecursionError \/ BufferError \/ SigTerm
    BY <1>4, SameFile
       DEF Boot, Execute, Produce, Crash, RecursionError, BufferError, SigTerm, Exit
<1>5. CASE Broker \/ UNCHANGED vars
    BY <1>5, SameFile DEF Broker, Deliver, DeliveryFails, vars
<1> QED BY <1>1, <1>2, <1>3, <1>4, <1>5 DEF Next, Main, Stop, Terminating

LEMMA LimitInvariance == Spec => []LimitInv
<1> QED BY InitLimits, NextLimits, Invariance, PTL DEF Spec

\* No customer has more accounts and no account more cards than the limits
\* allow, through crashes and the handler's commit of an open transaction.
THEOREM LimitsHold == Spec => []LimitsRespected
<1>1. IInv /\ LimitInv => LimitsRespected
    <2> SUFFICES ASSUME IInv, LimitInv PROVE LimitsRespected
        OBVIOUS
    <2>1. \A t \in {"Customer", "Account"} : \A r \in db[t] : r.id \in Nat
        BY DEF IInv, TypeOK, Rows, Tables
    <2> QED BY <2>1 DEF LimitInv, LimitsRespected, Limited, Column, Limit
<1> QED BY <1>1, Invariance, LimitInvariance, PTL

=============================================================================
