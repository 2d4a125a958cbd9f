--------------------------- MODULE ProvisionPinot ---------------------------
(***************************************************************************)
(* The job that provisions Pinot (images/provisioner, provision_pinot.py;  *)
(* kube/pinot/provision-pinot.yaml): obsolete tables and schemas are       *)
(* deleted, then every configured schema and after them every configured   *)
(* table is created or updated.  All but the deletion of a table collect   *)
(* their errors; a job with errors is run again until its backoffLimit.    *)
(* Pinot is external: a table needs its schema, which is not deleted while *)
(* the table exists.                                                       *)
(***************************************************************************)
EXTENDS Naturals, FiniteSets

CONSTANTS
    Names,        \* the names of tables; the schema of a table has its name
    Configured,   \* those the job's configuration directory describes
    MaxAttempts,  \* starts of the pod within the job's backoffLimit
    MaxFailures   \* bound: failures of requests and of the pod

ASSUME NamesAssumption == Configured \subseteq Names
ASSUME FailuresAssumption == MaxAttempts \in Nat /\ MaxFailures \in Nat

VARIABLES
    schemas,   \* the schema of each name in Pinot: "none", "old" or "new"
    tables,    \* likewise the tables
    pc,        \* what the job is doing
    todo,      \* the names it still has to do that for
    failed,    \* the schemas and tables whose exceptions it has collected
    attempts,  \* starts of the pod
    failures

provisionVars == <<schemas, tables, pc, todo, failed, attempts, failures>>

Existing(kind) == {n \in Names : kind[n] # "none"}

\* What the previous deployment left, each table with a schema; some attempts of
\* this one may have failed before they did anything.
Init ==
    /\ schemas \in [Names -> {"none", "old"}]
    /\ tables \in {f \in [Names -> {"none", "old"}] :
                        \A n \in Names : f[n] = "old" => schemas[n] = "old"}
    /\ pc = "stopped"
    /\ todo = {} /\ failed = {}
    /\ attempts \in 0 .. MaxAttempts /\ failures = 0

Fails == failures < MaxFailures /\ failures' = failures + 1

-----------------------------------------------------------------------------
\* Mutant: backoffLimit 0.
mainOnce ==
    /\ pc = "stopped"
    /\ attempts = 0 /\ attempts' = 1
    /\ pc' = "delete_table"
    /\ todo' = Existing(tables) \ Configured
    /\ UNCHANGED <<schemas, tables, failed, failures>>

\* The pod starts, and again after a failure up to the job's default
\* backoffLimit.  get_tables; the list of exceptions is empty.
main ==
    /\ pc = "stopped"
    /\ attempts < MaxAttempts /\ attempts' = attempts + 1
    /\ pc' = "delete_table"
    /\ todo' = Existing(tables) \ Configured
    /\ UNCHANGED <<schemas, tables, failed, failures>>

\* The pod is killed, or get_tables or get_schemas raises.
Killed ==
    /\ pc \notin {"stopped", "done"}
    /\ Fails
    /\ pc' = "stopped"
    /\ todo' = {} /\ failed' = {}
    /\ UNCHANGED <<schemas, tables, attempts>>

\* An exception ends the attempt; the table may be gone or not.
delete_table(n) ==
    /\ pc = "delete_table" /\ n \in todo
    /\ \/ /\ tables' = [tables EXCEPT ![n] = "none"]
          /\ todo' = todo \ {n}
          /\ UNCHANGED <<pc, failures>>
       \/ /\ Fails
          /\ tables' \in {tables, [tables EXCEPT ![n] = "none"]}
          /\ pc' = "stopped" /\ todo' = {}
    /\ UNCHANGED <<schemas, failed, attempts>>

\* get_schemas.
get_schemas ==
    /\ pc = "delete_table" /\ todo = {}
    /\ pc' = "delete_schema"
    /\ todo' = Existing(schemas) \ Configured
    /\ UNCHANGED <<schemas, tables, failed, attempts, failures>>

\* Mutant: an exception ends the loop.
ItemOrBreak(k, n, s, t) ==
    /\ \/ /\ schemas' = s /\ tables' = t
          /\ todo' = todo \ {n}
          /\ UNCHANGED <<failed, failures>>
       \/ /\ Fails
          /\ UNCHANGED <<schemas, tables>>
          /\ todo' = {}
          /\ failed' = failed \cup {<<k, n>>}
    /\ UNCHANGED <<pc, attempts>>

\* One request for n, of kind k, that leaves the schemas s and tables t: it is
\* served, or an exception is collected whether it is served or not.
Item(k, n, s, t) ==
    /\ todo' = todo \ {n}
    /\ \/ schemas' = s /\ tables' = t /\ UNCHANGED <<failed, failures>>
       \/ /\ Fails
          /\ \/ schemas' = s /\ tables' = t
             \/ UNCHANGED <<schemas, tables>>
          /\ failed' = failed \cup {<<k, n>>}
    /\ UNCHANGED <<pc, attempts>>

\* Pinot refuses: the exception is collected.
ItemRefused(k, n) ==
    /\ todo' = todo \ {n}
    /\ failed' = failed \cup {<<k, n>>}
    /\ UNCHANGED <<pc, schemas, tables, attempts, failures>>

delete_schema(n) ==
    /\ pc = "delete_schema" /\ n \in todo
    /\ IF tables[n] # "none" THEN ItemRefused("schema", n)
       ELSE Item("schema", n, [schemas EXCEPT ![n] = "none"], tables)

upsert_schema(n) ==
    /\ pc = "upsert_schema" /\ n \in todo
    /\ Item("schema", n, [schemas EXCEPT ![n] = "new"], tables)

\* Mutant: the table is dropped, to be created in the next attempt.
RecreateTable(n) ==
    /\ pc = "upsert_table" /\ n \in todo
    /\ IF schemas[n] = "none" THEN ItemRefused("table", n)
       ELSE Item("table", n, schemas,
                 [tables EXCEPT ![n] = IF @ = "old" THEN "none" ELSE "new"])

\* A table that exists is updated in place.
upsert_table(n) ==
    /\ pc = "upsert_table" /\ n \in todo
    /\ IF schemas[n] = "none" THEN ItemRefused("table", n)
       ELSE Item("table", n, schemas, [tables EXCEPT ![n] = "new"])

\* The loops over schemas and tables follow one another.
NextLoop ==
    /\ todo = {}
    /\ \/ pc = "delete_schema" /\ pc' = "upsert_schema"
       \/ pc = "upsert_schema" /\ pc' = "upsert_table"
    /\ todo' = Configured
    /\ UNCHANGED <<schemas, tables, failed, attempts, failures>>

\* Mutant: exceptions are logged only.
EndAnyway ==
    /\ pc = "upsert_table" /\ todo = {}
    /\ pc' = "done"
    /\ failed' = {}
    /\ UNCHANGED <<schemas, tables, todo, attempts, failures>>

\* ExceptionGroup ends the pod.
End ==
    /\ pc = "upsert_table" /\ todo = {}
    /\ pc' = IF failed = {} THEN "done" ELSE "stopped"
    /\ failed' = {}
    /\ UNCHANGED <<schemas, tables, todo, attempts, failures>>

\* The job has failed: Kubernetes starts no pod again.
Exhausted == pc = "stopped" /\ attempts = MaxAttempts

Job ==
    \/ main \/ get_schemas \/ NextLoop \/ End
    \/ \E n \in Names : delete_table(n) \/ delete_schema(n)
                        \/ upsert_schema(n) \/ upsert_table(n)

Provision == Job \/ Killed

-----------------------------------------------------------------------------
(* Properties.                                                             *)

\* Every variable keeps its type, and no table is without a schema.
ProvisionTypeOK ==
    /\ schemas \in [Names -> {"none", "old", "new"}]
    /\ tables \in [Names -> {"none", "old", "new"}]
    /\ pc \in {"stopped", "done", "delete_table", "delete_schema",
               "upsert_schema", "upsert_table"}
    /\ todo \in SUBSET Names
    /\ failed \in SUBSET ({"schema", "table"} \X Names)
    /\ attempts \in 0 .. MaxAttempts
    /\ failures \in 0 .. MaxFailures
    /\ \A n \in Names : tables[n] # "none" => schemas[n] # "none"

\* A job that is done leaves what its configuration says and nothing else,
\* whatever failed in which attempt.
DoneAsConfigured ==
    pc = "done" =>
        \A n \in Names :
            /\ schemas[n] = IF n \in Configured THEN "new" ELSE "none"
            /\ tables[n] = schemas[n]

\* A schema or table that Pinot refuses does not keep the others from being
\* provisioned in the same attempt: at the end of the loop over the tables all
\* are, save those that raised and the tables whose schema did.
FailuresAreIsolated ==
    pc = "upsert_table" /\ todo = {} =>
        \A n \in Configured :
            /\ <<"schema", n>> \notin failed => schemas[n] = "new"
            /\ {<<"schema", n>>, <<"table", n>>} \cap failed = {} => tables[n] = "new"

=============================================================================
