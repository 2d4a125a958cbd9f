--------------------------- MODULE DataGenerator ---------------------------
(***************************************************************************)
(* The data generator (images/data-generator): one process that invents    *)
(* the events of a bank, keeps the entities it invented in a sqlite file   *)
(* so that later events can refer to them, and produces every event to a   *)
(* Kafka topic.  Row and event are written in this order:                  *)
(*                                                                         *)
(*     draw -> INSERT/UPDATE -> COMMIT -> produce (buffer) -> broker       *)
(*                                                                         *)
(* and the process may stop, be stopped, or lose the broker between any    *)
(* two of these steps.  The file and the topics survive it; the id lists,  *)
(* the id counters and the producer's buffer do not.                       *)
(***************************************************************************)
EXTENDS Integers, FiniteSets

CONSTANTS
    EventTypes,               \* the event types drawn after the seed events
    Faults,                   \* what may go wrong: see AllFaults
    MaxAccountsPerCustomer,   \* MAX_ACCOUNTS_PER_CUSTOMER
    MaxCardsPerAccount,       \* MAX_CARDS_PER_ACCOUNT
    QueueLimit,               \* events the producer buffers before BufferError
    MaxClock                  \* bound: how many events are drawn in a run

Topics == {"customer_created", "customer_details_updated", "account_opened",
           "card_issued", "device_registered", "login_attempted",
           "merchant_onboarded", "payment_authorised", "atm_withdrawal",
           "transfer_completed"}

AllFaults == {"crash",      \* the process is killed at any point
              "sigterm",    \* the orchestrator stops it, at any point
              "delivery"}   \* the broker does not answer within 30 s

ASSUME EventTypesAssumption == EventTypes \subseteq Topics
ASSUME FaultsAssumption == Faults \subseteq AllFaults
ASSUME LimitsAssumption ==
    /\ MaxAccountsPerCustomer \in Nat \ {0}
    /\ MaxCardsPerAccount \in Nat \ {0}
    /\ QueueLimit \in Nat
ASSUME MaxClockAssumption == MaxClock \in Nat

-----------------------------------------------------------------------------
(* Entities.  A row has its id, the ids of the entities it refers to, the  *)
(* time it was created and the time its other columns were drawn.          *)

Tables == {"Customer", "Account", "Card", "Device", "Merchant", "Payment",
           "Withdrawal", "Transfer"}

\* The database object whose counter numbers the events of a topic.
TableOf == [topic \in Topics |->
    CASE topic \in {"customer_created", "customer_details_updated"} -> "Customer"
      [] topic = "account_opened" -> "Account"
      [] topic = "card_issued" -> "Card"
      [] topic \in {"device_registered", "login_attempted"} -> "Device"
      [] topic = "merchant_onboarded" -> "Merchant"
      [] topic = "payment_authorised" -> "Payment"
      [] topic = "atm_withdrawal" -> "Withdrawal"
      [] topic = "transfer_completed" -> "Transfer"]

Fields == {"customer_id", "account_id", "card_id", "device_id", "merchant_id",
           "source_account_id", "destination_account_id"}

\* The table a foreign-key column refers to.
Target == [field \in Fields |->
    CASE field = "customer_id" -> "Customer"
      [] field \in {"account_id", "source_account_id",
                    "destination_account_id"} -> "Account"
      [] field = "card_id" -> "Card"
      [] field = "device_id" -> "Device"
      [] field = "merchant_id" -> "Merchant"]

\* 0 is a column the entity does not have, or the uuid4 of an account of
\* another bank: neither is an id any counter returns.
NoRef == [field \in Fields |-> 0]

Rows == [id : Nat, ref : [Fields -> Nat], at : Nat, data : Nat]
Events == [topic : Topics, row : Rows]

-----------------------------------------------------------------------------
VARIABLES
    status,     \* "down", "up", or "stopping": in the signal handler
    seeded,     \* how many of the seed events this process has produced
    stage,      \* where main() is with the current event
    current,    \* the event being written: a set of at most one
    ids,        \* _ids of each database object
    counter,    \* _id_counter of each database object
    buffer,     \* events handed to the producer and not yet acknowledged
    db,         \* the committed rows of each table of the sqlite file
    kafka,      \* the events in the topics
    clock       \* how many events were ever drawn: the wall clock

volatile == <<seeded, stage, current, ids, counter, buffer>>
vars == <<status, volatile, db, kafka, clock>>

Init ==
    /\ status = "down"
    /\ seeded = 0
    /\ stage = "choose"
    /\ current = {}
    /\ ids = [t \in Tables |-> {}]
    /\ counter = [t \in Tables |-> 0]
    /\ buffer = {}
    /\ db = [t \in Tables |-> {}]
    /\ kafka = {}
    /\ clock = 0

-----------------------------------------------------------------------------
(* Start and stop.                                                         *)

IdsOf(rows) == {r.id : r \in rows}

\* max(ids), or 0 when there are none.
MaxId(S) == IF S = {} THEN 0 ELSE CHOOSE m \in S : \A n \in S : n <= m

\* Mutant: the counters start from 0 whatever the file holds.
BootForgets ==
    /\ status = "down"
    /\ status' = "up"
    /\ ids' = [t \in Tables |-> IdsOf(db[t])]
    /\ UNCHANGED <<seeded, stage, current, counter, buffer, db, kafka, clock>>

\* BaseDatabase.__init__ of every table.
Boot ==
    /\ status = "down"
    /\ status' = "up"
    /\ ids' = [t \in Tables |-> IdsOf(db[t])]
    /\ counter' = [t \in Tables |-> MaxId(IdsOf(db[t]))]
    /\ UNCHANGED <<seeded, stage, current, buffer, db, kafka, clock>>

\* The process ends: everything it held in memory is gone.
Exit ==
    /\ status' = "down"
    /\ seeded' = 0
    /\ stage' = "choose"
    /\ current' = {}
    /\ ids' = [t \in Tables |-> {}]
    /\ counter' = [t \in Tables |-> 0]
    /\ buffer' = {}
    /\ UNCHANGED <<kafka, clock>>

\* A kill: sqlite rolls the open transaction back at the next open.
Crash ==
    /\ "crash" \in Faults
    /\ status # "down"
    /\ Exit
    /\ UNCHANGED db

-----------------------------------------------------------------------------
(* Drawing an event.                                                       *)

Seeds == <<"customer_created", "account_opened", "card_issued",
           "merchant_onboarded">>

\* main() is about to generate an event of this type.
Chosen(topic) ==
    /\ status = "up"
    /\ stage = "choose"
    /\ clock < MaxClock
    /\ IF seeded < 4 THEN topic = Seeds[seeded + 1] ELSE topic \in EventTypes

\* get_random: the row of an id of the list.  On an empty list the code
\* raises EmptyDatabaseException and main() draws again: no step.
Random(t) == {r \in db[t] : r.id \in ids[t]}

\* get_item.  Its ValueError, unless exactly one row has the id, would end the
\* process (main() catches only EmptyDatabaseException): FileSound rules it out.
GetItem(t, id) == {r \in db[t] : r.id = id}

\* get_random(except_for): the retry after a match does not pass it on.
RandomExcept(t, id) ==
    {r \in Random(t) : r.id # id} \cup (IF id \in ids[t] THEN Random(t) ELSE {})

\* Rows of a table that refer to an id in a column: SELECT count(*).
CountOf(t, field, id) == Cardinality({r \in db[t] : r.ref[field] = id})

\* Mutant: the id is taken and the counter is not moved past it.
CreateKeepsCounter(topic, ref) ==
    /\ current' = {[topic |-> topic,
                    row |-> [id |-> counter[TableOf[topic]] + 1, ref |-> ref,
                             at |-> clock + 1, data |-> clock + 1]]}
    /\ clock' = clock + 1
    /\ UNCHANGED counter

\* A new entity with the next id of its table's counter.
Create(topic, ref) ==
    LET t == TableOf[topic]
        row == [id |-> counter[t] + 1, ref |-> ref,
                at |-> clock + 1, data |-> clock + 1]
    IN  /\ counter' = [counter EXCEPT ![t] = @ + 1]
        /\ current' = {[topic |-> topic, row |-> row]}
        /\ clock' = clock + 1

\* The new entity will be stored: BaseDatabase._insert.
Store(topic, ref) ==
    /\ Create(topic, ref)
    /\ stage' = "execute"
    /\ UNCHANGED <<status, seeded, ids, buffer, db, kafka>>

customer_created ==
    /\ Chosen("customer_created")
    /\ Store("customer_created", NoRef)

\* Mutant: the update also renews created_at.
UpdateRenewsCreation ==
    /\ Chosen("customer_details_updated")
    /\ \E customer \in Random("Customer") :
          current' = {[topic |-> "customer_details_updated",
                       row |-> [customer EXCEPT !.data = clock + 1, !.at = clock + 1]]}
    /\ clock' = clock + 1
    /\ stage' = "execute"
    /\ UNCHANGED <<status, seeded, ids, counter, buffer, db, kafka>>

\* The columns of a stored customer change, its created_at does not.
customer_details_updated ==
    /\ Chosen("customer_details_updated")
    /\ \E customer \in Random("Customer") :
          current' = {[topic |-> "customer_details_updated",
                       row |-> [customer EXCEPT !.data = clock + 1]]}
    /\ clock' = clock + 1
    /\ stage' = "execute"
    /\ UNCHANGED <<status, seeded, ids, counter, buffer, db, kafka>>

\* Mutant: a customer with the maximum gets one account more.
AccountHoldersOffByOne ==
    {r \in Random("Customer") :
        CountOf("Account", "customer_id", r.id) <= MaxAccountsPerCustomer}

AccountHolders ==
    {r \in Random("Customer") :
        CountOf("Account", "customer_id", r.id) < MaxAccountsPerCustomer}

account_opened ==
    /\ Chosen("account_opened")
    /\ \E customer \in AccountHolders :
          Store("account_opened", [NoRef EXCEPT !["customer_id"] = customer.id])

CardAccounts ==
    {r \in Random("Account") :
        CountOf("Card", "account_id", r.id) < MaxCardsPerAccount}

card_issued ==
    /\ Chosen("card_issued")
    /\ \E account \in CardAccounts :
          Store("card_issued",
                [NoRef EXCEPT !["account_id"] = account.id,
                              !["customer_id"] = account.ref["customer_id"]])

\* An entity at its limit is drawn and the method calls itself; every retry
\* may draw such an entity again, and must when all are at their limits.
Retries ==
    \/ /\ Chosen("account_opened")
       /\ AccountHolders # Random("Customer")
    \/ /\ Chosen("card_issued")
       /\ CardAccounts # Random("Account")

\* The retries end in RecursionError, which main() does not catch.
RecursionError ==
    /\ Retries
    /\ Exit
    /\ UNCHANGED db

device_registered ==
    /\ Chosen("device_registered")
    /\ \E customer \in Random("Customer") :
          Store("device_registered",
                [NoRef EXCEPT !["customer_id"] = customer.id])

\* Takes the next id of the Device counter and stores nothing.
login_attempted ==
    /\ Chosen("login_attempted")
    /\ \E device \in Random("Device") :
          Create("login_attempted",
                 [NoRef EXCEPT !["customer_id"] = device.ref["customer_id"],
                               !["device_id"] = device.id])
    /\ stage' = "publish"
    /\ UNCHANGED <<status, seeded, ids, buffer, db, kafka>>

merchant_onboarded ==
    /\ Chosen("merchant_onboarded")
    /\ Store("merchant_onboarded", NoRef)

\* What a payment and a withdrawal copy from the card used.
CardRef(card) ==
    [NoRef EXCEPT !["customer_id"] = card.ref["customer_id"],
                  !["account_id"] = card.ref["account_id"],
                  !["card_id"] = card.id]

\* Mutant: the payment does not say which account it is from.
PaymentWithoutAccount ==
    /\ Chosen("payment_authorised")
    /\ \E card \in Random("Card"), merchant \in Random("Merchant") :
          Store("payment_authorised",
                [CardRef(card) EXCEPT !["merchant_id"] = merchant.id,
                                      !["account_id"] = 0])

payment_authorised ==
    /\ Chosen("payment_authorised")
    /\ \E card \in Random("Card"), merchant \in Random("Merchant") :
          /\ GetItem("Account", card.ref["account_id"]) # {}
          /\ Store("payment_authorised",
                   [CardRef(card) EXCEPT !["merchant_id"] = merchant.id])

atm_withdrawal ==
    /\ Chosen("atm_withdrawal")
    /\ \E card \in Random("Card") :
          /\ GetItem("Account", card.ref["account_id"]) # {}
          /\ Store("atm_withdrawal", CardRef(card))

TransferRef(source, destination) ==
    [NoRef EXCEPT !["source_account_id"] = source,
                  !["destination_account_id"] = destination]

transfer_completed ==
    /\ Chosen("transfer_completed")
    /\ \E account_1 \in Random("Account") :
          \/ \E account_2 \in RandomExcept("Account", account_1.id) :
                Store("transfer_completed", TransferRef(account_1.id, account_2.id))
          \/ Store("transfer_completed", TransferRef(0, account_1.id))
          \/ Store("transfer_completed", TransferRef(account_1.id, 0))

Draw ==
    \/ customer_created
    \/ customer_details_updated
    \/ account_opened
    \/ card_issued
    \/ device_registered
    \/ login_attempted
    \/ merchant_onboarded
    \/ payment_authorised
    \/ atm_withdrawal
    \/ transfer_completed

-----------------------------------------------------------------------------
(* Storing and publishing it.                                              *)

\* Mutant: the event is produced before its row is committed.
ExecuteAfterProduce ==
    /\ status = "up"
    /\ stage = "execute"
    /\ stage' = "commit"
    /\ buffer' = buffer \cup current
    /\ UNCHANGED <<status, seeded, current, ids, counter, db, kafka, clock>>

\* cursor.execute: an INSERT or UPDATE in a transaction not yet committed.
Execute ==
    /\ status = "up"
    /\ stage = "execute"
    /\ stage' = "commit"
    /\ UNCHANGED <<status, seeded, current, ids, counter, buffer, db, kafka, clock>>

IsUpdate(e) == e.topic = "customer_details_updated"

\* The tables once the statement for an event is committed.
Committed(e) ==
    [db EXCEPT ![TableOf[e.topic]] =
        IF IsUpdate(e)
        THEN {IF r.id = e.row.id THEN e.row ELSE r : r \in @}
        ELSE @ \cup {e.row}]

\* Mutant: the new id does not join the list.
CommitWithoutAppend ==
    /\ status = "up"
    /\ stage = "commit"
    /\ \E e \in current : db' = Committed(e)
    /\ stage' = "publish"
    /\ UNCHANGED <<status, seeded, current, ids, counter, buffer, kafka, clock>>

\* con.commit(), and for an INSERT the new id joins the list.
Commit ==
    /\ status = "up"
    /\ stage = "commit"
    /\ \E e \in current :
          /\ db' = Committed(e)
          /\ ids' = IF IsUpdate(e) THEN ids
                    ELSE [ids EXCEPT ![TableOf[e.topic]] = @ \cup {e.row.id}]
    /\ stage' = "publish"
    /\ UNCHANGED <<status, seeded, current, counter, buffer, kafka, clock>>

\* Mutant: the event produced is still the current one afterwards.
ProduceKeepsEvent ==
    /\ status = "up"
    /\ stage = "publish"
    /\ Cardinality(buffer) < QueueLimit
    /\ buffer' = buffer \cup current
    /\ stage' = "choose"
    /\ seeded' = IF seeded < 4 THEN seeded + 1 ELSE seeded
    /\ UNCHANGED <<status, current, ids, counter, db, kafka, clock>>

\* process_event: the event joins the producer's buffer.
Produce ==
    /\ status = "up"
    /\ stage = "publish"
    /\ Cardinality(buffer) < QueueLimit
    /\ buffer' = buffer \cup current
    /\ current' = {}
    /\ stage' = "choose"
    /\ seeded' = IF seeded < 4 THEN seeded + 1 ELSE seeded
    /\ UNCHANGED <<status, ids, counter, db, kafka, clock>>

\* process_event logs the exception of a full buffer and raises it again.
BufferError ==
    /\ status = "up"
    /\ stage = "publish"
    /\ Cardinality(buffer) >= QueueLimit
    /\ Exit
    /\ UNCHANGED db

\* Mutant: a producer that is not idempotent may send an event again.
DeliverAgain(e) ==
    /\ kafka' = kafka \cup {e}
    /\ buffer' \in {buffer, buffer \ {e}}
    /\ UNCHANGED <<status, seeded, stage, current, ids, counter, db, clock>>

\* The broker appends an event; the producer is idempotent, so only once.
Deliver(e) ==
    /\ kafka' = kafka \cup {e}
    /\ buffer' = buffer \ {e}
    /\ UNCHANGED <<status, seeded, stage, current, ids, counter, db, clock>>

\* Mutant: an event can time out while the broker answers.
DeliveryFailsAnyway(e) ==
    /\ buffer' = buffer \ {e}
    /\ UNCHANGED <<status, seeded, stage, current, ids, counter, db, kafka, clock>>

\* delivery_callback logs the error: nobody sends the event again.
DeliveryFails(e) ==
    /\ "delivery" \in Faults
    /\ buffer' = buffer \ {e}
    /\ UNCHANGED <<status, seeded, stage, current, ids, counter, db, kafka, clock>>

-----------------------------------------------------------------------------
(* handle_shutdown.  It runs between two steps of main(), which does not   *)
(* continue: the current event is never produced.                          *)

SigTerm ==
    /\ "sigterm" \in Faults
    /\ status = "up"
    /\ status' = "stopping"
    /\ UNCHANGED <<volatile, db, kafka, clock>>

\* flush(30) returned; Persistence.close commits an open transaction.
ShutdownDone ==
    /\ status = "stopping"
    /\ buffer = {} \/ "delivery" \in Faults
    /\ IF stage = "commit"
       THEN \E e \in current : db' = Committed(e)
       ELSE UNCHANGED db
    /\ Exit

-----------------------------------------------------------------------------
(* The bound on the clock ends a run.                                      *)
Terminating ==
    /\ clock = MaxClock
    /\ UNCHANGED vars

Main == Draw \/ Execute \/ Commit \/ Produce
Stop == Crash \/ RecursionError \/ BufferError \/ SigTerm \/ ShutdownDone
Broker == \E e \in buffer : Deliver(e) \/ DeliveryFails(e)

Next == Boot \/ Main \/ Stop \/ Broker \/ Terminating

Spec == Init /\ [][Next]_vars

\* The main loop never blocks, the orchestrator restarts the process, and
\* the broker answers.
Fairness ==
    /\ WF_vars(Boot)
    /\ WF_vars(Main)
    /\ WF_vars(ShutdownDone)
    /\ WF_vars(\E e \in buffer : Deliver(e))

FairSpec == Spec /\ Fairness

-----------------------------------------------------------------------------
(* Properties.                                                             *)

\* Every variable has its type; an event is being written exactly between
\* the draw and the produce call.
TypeOK ==
    /\ status \in {"down", "up", "stopping"}
    /\ seeded \in 0 .. 4
    /\ stage \in {"choose", "execute", "commit", "publish"}
    /\ current \subseteq Events
    /\ ids \in [Tables -> SUBSET Nat]
    /\ counter \in [Tables -> Nat]
    /\ buffer \subseteq Events
    /\ db \in [Tables -> SUBSET Rows]
    /\ kafka \subseteq Events
    /\ clock \in Nat
    /\ (stage = "choose") <=> (current = {})
    /\ \A e, f \in current : e = f

\* Events that reached the producer: they may be read, or soon will be.
Published == kafka \cup buffer

\* No two rows of a table have one id: sqlite does not enforce it (id is not
\* a primary key), and get_item raises ValueError on it.
UniqueIds ==
    \A t \in Tables : \A r, s \in db[t] : r.id = s.id => r = s

\* The id list and counter a running process derives its next id from agree
\* with the file: every listed id has its row, every row is listed, and no
\* row has an id the counter has still to give out.
CacheCoherent ==
    status # "down" =>
        \A t \in Tables :
            /\ ids[t] = IdsOf(db[t])
            /\ \A r \in db[t] : r.id <= counter[t]

\* A row of the file refers only to rows of the file: foreign keys are not
\* enforced by sqlite, and get_item(card.account_id) raises without the row.
Resolves(ref) ==
    \A field \in Fields :
        ref[field] # 0 => ref[field] \in IdsOf(db[Target[field]])

ReferentialIntegrity ==
    \A t \in Tables : \A r \in db[t] : Resolves(r.ref)

\* What a running process and a restarted one rely on, together.
FileSound == UniqueIds /\ CacheCoherent /\ ReferentialIntegrity

\* An event is published only when what it talks about survives a crash: the
\* rows it refers to and, for a stored entity, a row with its id.
EventsAreDurable ==
    \A e \in Published :
        /\ Resolves(e.row.ref)
        /\ e.topic # "login_attempted" => e.row.id \in IdsOf(db[TableOf[e.topic]])

\* Two published payments or withdrawals with one card name the same account
\* and customer, across restarts too: the batch features rely on it to return
\* one row for a card.
UsesCard(e) == e.topic \in {"payment_authorised", "atm_withdrawal"}

CardDeterminesGroup ==
    \A e, f \in Published :
        /\ UsesCard(e)
        /\ UsesCard(f)
        /\ e.row.ref["card_id"] = f.row.ref["card_id"]
        => \A field \in {"account_id", "customer_id"} :
              e.row.ref[field] = f.row.ref[field]

\* Two published events of a stored entity have different ids, although the
\* counters are lost with the process: downstream merges on the id.
Stored == {"account_opened", "card_issued", "customer_created",
           "device_registered", "merchant_onboarded", "payment_authorised",
           "atm_withdrawal", "transfer_completed"}

EventIdsUnique ==
    \A e, f \in Published :
        /\ e.topic \in Stored
        /\ f.topic = e.topic
        /\ f.row.id = e.row.id
        => f = e

\* The limits on accounts per customer and cards per account, checked before
\* a row is drawn and relied on when it is committed.
LimitsRespected ==
    /\ \A r \in db["Customer"] :
          CountOf("Account", "customer_id", r.id) <= MaxAccountsPerCustomer
    /\ \A r \in db["Account"] :
          CountOf("Card", "account_id", r.id) <= MaxCardsPerAccount

\* A committed row is never lost or altered, except that a customer's own
\* columns change: not its id, and not its created_at.
RowsSurvive ==
    [][\A t \in Tables : \A r \in db[t] :
          \E s \in db'[t] :
              /\ s.id = r.id /\ s.ref = r.ref /\ s.at = r.at
              /\ t # "Customer" => s = r]_vars

\* What readers of the topics may rely on: every event at most once.
Log == INSTANCE AtMostOnceLog WITH
           accepted <- clock,
           pending <- {e.row.data : e \in current \cup buffer},
           log <- {e.row.data : e \in kafka}

AtMostOnce == Log!Spec

\* Some event of a set announces the entity of a table with an id.
Announces(S, t, id) ==
    \E f \in S : f.topic \in Stored /\ TableOf[f.topic] = t /\ f.row.id = id

\* An entity a reader learns the id of has been announced, or will be.
JoinsPossible ==
    \A e \in kafka : \A field \in Fields :
        e.row.ref[field] # 0 =>
            Announces(Published, Target[field], e.row.ref[field])

\* While nothing goes wrong no two login attempts have one id, although they
\* share the counter of the devices and leave no row behind (device.py:60).
\* After a restart they may: the file does not know their ids.
LoginIdsUnique ==
    \A e, f \in Published :
        /\ e.topic = "login_attempted"
        /\ f.topic = "login_attempted"
        /\ f.row.id = e.row.id
        => f = e

\* While nothing goes wrong every event drawn reaches the broker.
EveryEventArrives ==
    \A n \in 1 .. MaxClock :
        (clock >= n) ~> (\E e \in kafka : e.row.data = n)

-----------------------------------------------------------------------------
(* The inductive invariant: what the safety properties rest on.            *)

InFlight == Published \cup current

\* Ids count from 1 and never exceed the number of events drawn, so every
\* table is finite and has a largest id.
IdsBounded ==
    \A t \in Tables :
        /\ counter[t] <= clock
        /\ \A r \in db[t] : r.id \in 1 .. clock

\* Every drawn event is told from all others by the time it was drawn.
EventsNumbered ==
    /\ \A e \in InFlight : e.row.data \in 1 .. clock
    /\ \A e, f \in InFlight : e.row.data = f.row.data => e = f
    /\ current \cap Published = {}

\* A process that is not running holds nothing.
DownIsEmpty == status = "down" => current = {} /\ buffer = {}

\* The event being written refers to stored rows.  Until its own row is
\* stored its id is new, and after that it has not been published before.
CurrentFits ==
    \A e \in current :
        /\ Resolves(e.row.ref)
        /\ e.row.id \in 1 .. clock
        /\ e.row.id <= counter[TableOf[e.topic]]
        /\ IsUpdate(e) =>
              \E r \in db["Customer"] :
                  r.id = e.row.id /\ r.ref = e.row.ref /\ r.at = e.row.at
        /\ stage \in {"execute", "commit"} =>
              /\ e.topic # "login_attempted"
              /\ ~IsUpdate(e) => e.row.id \notin IdsOf(db[TableOf[e.topic]])
        /\ stage = "publish" /\ e.topic # "login_attempted" =>
              e.row.id \in IdsOf(db[TableOf[e.topic]])
        /\ e.topic \in Stored =>
              \A f \in Published : f.topic = e.topic => f.row.id # e.row.id

\* The account and customer of every use of a card are those of its row.
CardUsesMatch ==
    \A e \in InFlight :
        UsesCard(e) =>
            \E card \in db["Card"] :
                /\ card.id = e.row.ref["card_id"]
                /\ card.ref["account_id"] = e.row.ref["account_id"]
                /\ card.ref["customer_id"] = e.row.ref["customer_id"]

IInv ==
    /\ TypeOK
    /\ IdsBounded
    /\ UniqueIds
    /\ CacheCoherent
    /\ ReferentialIntegrity
    /\ EventsAreDurable
    /\ EventIdsUnique
    /\ EventsNumbered
    /\ DownIsEmpty
    /\ CurrentFits
    /\ CardUsesMatch

-----------------------------------------------------------------------------
(* What the two properties that faults break need of a behaviour, and the  *)
(* invariants they follow from.                                            *)

\* The process, once started, is not stopped and does not fail.
Uninterrupted == [][status # "down" => status' # "down"]_vars

\* No event drawn is lost: the process never ends with one in hand, and every
\* delivery succeeds.  It may end between two events, and start again.
NothingLost == [][InFlight \subseteq InFlight']_vars

\* Before the start there are no events, and the counter of the devices is
\* past the id of every login attempt.
LoginsNumbered ==
    /\ status = "down" => kafka = {}
    /\ \A e \in InFlight :
          e.topic = "login_attempted" => e.row.id <= counter["Device"]
    /\ \A e, f \in InFlight :
          /\ e.topic = "login_attempted"
          /\ f.topic = "login_attempted"
          /\ f.row.id = e.row.id
          => f = e

\* A committed row has its event in flight; what a published event refers to
\* has its event published.
RowsAnnounced ==
    /\ \A t \in Tables : \A r \in db[t] : Announces(InFlight, t, r.id)
    /\ \A e \in Published : \A field \in Fields :
          e.row.ref[field] # 0 =>
              Announces(Published, Target[field], e.row.ref[field])

=============================================================================
