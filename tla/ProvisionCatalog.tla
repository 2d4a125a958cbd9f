-------------------------- MODULE ProvisionCatalog --------------------------
(***************************************************************************)
(* The job that provisions the Iceberg catalog (images/provisioner,        *)
(* provision_catalog.py; kube/catalog/provision-catalog.yaml): one request *)
(* after another to Polaris, each of which may fail, and a pod that        *)
(* Kubernetes restarts from the first request.  Polaris is external: a     *)
(* store of objects that refuses to drop what is not empty.  So are the    *)
(* writers, Spark and Trino, which log in with the secret the job stores.  *)
(***************************************************************************)
EXTENDS Naturals, FiniteSets

CONSTANTS
    Modes,           \* the command lines in use: "create", "delete", "refresh"
    Namespaces,      \* the namespaces there may be, the job's among them
    Tables,          \* the tables of a namespace
    MaxDeployments,  \* bound: how often the job is deployed
    MaxAttempts,     \* how often a deployed job's pod is started (backoffLimit)
    MaxFailures      \* bound: failures of requests and of the pod

polaris_namespace_name == "dev_db"

ASSUME ModesAssumption == Modes \subseteq {"create", "delete", "refresh"}
ASSUME NamespacesAssumption == polaris_namespace_name \in Namespaces
ASSUME BoundsAssumption ==
    MaxDeployments \in Nat /\ MaxAttempts \in Nat /\ MaxFailures \in Nat

VARIABLES
    mode,        \* the command line of the job deployed last
    pc,          \* the job's next request; "stopped" until its pod (re)starts
    deployments, attempts, failures,
    namespace,   \* the namespace get_namespaces returned
    listed,      \* what get_tables returned and is not deleted yet
    objects,     \* what exists: see Objects
    namespaces,  \* the namespaces of the catalog
    tables,      \* the tables of each namespace
    credential,  \* the principal's credential, counted; 0 before the first
    secret,      \* the credential in the Kubernetes secret; 0 if there is none
    session,     \* the credential the writers were started with
    unheeded     \* the requests refused in this deployment without anyone noticing

counters == <<deployments, attempts, failures>>
catalog == <<objects, namespaces, tables>>
login == <<credential, secret>>
vars == <<mode, pc, counters, namespace, listed, catalog, login, session, unheeded>>

\* What must exist for the writers to have access: the principal has the
\* principal role, that has the catalog role, and that has the grant.
Chain == {"catalog", "principal", "principal_role", "catalog_role",
          "role_of_principal", "role_of_principal_role", "grant"}
Objects == Chain \cup {"bucket", "service_admin"}
Unchecked == {"delete_principal", "create_catalog", "create_namespace"}

DeleteSteps == {
    "unassign_catalog_role_to_principal_role", "unassign_principal_role",
    "delete_principal", "get_namespaces", "get_tables", "delete_table",
    "delete_namespace", "delete_catalog_role", "delete_catalog",
    "delete_principal_role"}
CreateSteps == {
    "configure_minio", "create_catalog", "create_namespace",
    "create_principal", "store_credentials_as_secret", "create_principal_role",
    "create_catalog_role", "assign_principal_role",
    "assign_catalog_role_to_principal_role", "assign_catalog_role_grant"}

Init ==
    /\ mode \in Modes
    /\ pc = "idle"
    /\ deployments = 0 /\ attempts = 0 /\ failures = 0
    /\ namespace = polaris_namespace_name
    /\ listed = {}
    /\ objects = {}
    /\ namespaces = {}
    /\ tables = [n \in Namespaces |-> {}]
    /\ credential = 0 /\ secret = 0 /\ session = 0
    /\ unheeded = {}

-----------------------------------------------------------------------------
(* Requests.                                                               *)

\* A failure: the request or its answer is lost, the status is an error and
\* raise_for_status raises, or the pod dies.
Fails == failures < MaxFailures /\ failures' = failures + 1

\* The job goes on with step s, or ends here although the request was served.
Goes(s) ==
    /\ \/ pc' = s /\ UNCHANGED failures
       \/ pc' = "stopped" /\ Fails
    /\ UNCHANGED <<mode, deployments, attempts>>

\* Polaris refuses the request and raise_for_status ends the job.
Refused ==
    /\ pc' = "stopped"
    /\ UNCHANGED <<mode, counters, namespace, listed, catalog, login, session, unheeded>>

\* Polaris refuses request r and the job goes on with s: nobody looks at the
\* status.
Unheeded(r, s) ==
    /\ Fails
    /\ unheeded' = unheeded \cup {r}
    /\ pc' = s
    /\ UNCHANGED <<mode, deployments, attempts, namespace, listed, catalog, login, session>>

Removes(os) ==
    /\ objects' = objects \ os
    /\ UNCHANGED <<namespace, listed, namespaces, tables, login, session, unheeded>>

Adds(o) ==
    /\ objects' = objects \cup {o}
    /\ UNCHANGED <<namespace, listed, namespaces, tables, login, session, unheeded>>

-----------------------------------------------------------------------------
(* The job.                                                                *)

\* The Job object is applied again; the one before is done or has failed.
Deploy(m) ==
    /\ pc \in {"idle", "done"} \/ (pc = "stopped" /\ attempts = MaxAttempts)
    /\ deployments < MaxDeployments
    /\ mode' = m
    /\ deployments' = deployments + 1
    /\ attempts' = 0
    /\ pc' = "stopped"
    /\ unheeded' = {}
    /\ UNCHANGED <<failures, namespace, listed, catalog, login, session>>

\* The pod starts (restartPolicy OnFailure): get_token, and main.
main ==
    /\ pc = "stopped"
    /\ attempts < MaxAttempts
    /\ attempts' = attempts + 1
    /\ pc' = IF mode = "create" THEN "configure_minio"
             ELSE "unassign_catalog_role_to_principal_role"
    /\ UNCHANGED <<mode, deployments, failures, namespace, listed, catalog,
                   login, session, unheeded>>

\* Mutant: the catalog role stays assigned.
UnassignNothing ==
    /\ pc = "unassign_catalog_role_to_principal_role"
    /\ Removes({})
    /\ Goes("unassign_principal_role")

unassign_catalog_role_to_principal_role ==
    /\ pc = "unassign_catalog_role_to_principal_role"
    /\ Removes({"role_of_principal_role"})
    /\ Goes("unassign_principal_role")

unassign_principal_role ==
    /\ pc = "unassign_principal_role"
    /\ Removes({"service_admin"})
    /\ Goes("delete_principal")

\* Mutant: the principal, and its credential, are kept.
DeletePrincipalNever ==
    /\ pc = "delete_principal"
    /\ Removes({})
    /\ Goes("get_namespaces")

\* The status of the DELETE is not looked at.
delete_principal ==
    /\ pc = "delete_principal"
    /\ \/ Removes({"principal", "role_of_principal"}) /\ Goes("get_namespaces")
       \/ "principal" \in objects /\ Unheeded("delete_principal", "get_namespaces")

\* namespaces[0]: the first namespace only; an error response counts as none.
get_namespaces ==
    /\ pc = "get_namespaces"
    /\ \/ namespaces = {} /\ Goes("delete_catalog_role") /\ UNCHANGED namespace
       \/ Fails /\ pc' = "delete_catalog_role"
          /\ UNCHANGED <<namespace, mode, deployments, attempts>>
       \/ namespace' \in namespaces /\ Goes("get_tables")
    /\ UNCHANGED <<listed, catalog, login, session, unheeded>>

get_tables ==
    /\ pc = "get_tables"
    /\ listed' = tables[namespace]
    /\ Goes(IF listed' = {} THEN "delete_namespace" ELSE "delete_table")
    /\ UNCHANGED <<namespace, catalog, login, session, unheeded>>

delete_table ==
    /\ pc = "delete_table"
    /\ \E t \in listed :
        /\ listed' = listed \ {t}
        /\ tables' = [tables EXCEPT ![namespace] = @ \ {t}]
    /\ Goes(IF listed' = {} THEN "delete_namespace" ELSE "delete_table")
    /\ UNCHANGED <<namespace, objects, namespaces, login, session, unheeded>>

delete_namespace ==
    /\ pc = "delete_namespace"
    /\ IF tables[namespace] # {} THEN Refused
       ELSE /\ namespaces' = namespaces \ {namespace}
            /\ Goes("delete_catalog_role")
            /\ UNCHANGED <<namespace, listed, objects, tables, login, session, unheeded>>

delete_catalog_role ==
    /\ pc = "delete_catalog_role"
    /\ Removes({"catalog_role", "role_of_principal_role", "grant"})
    /\ Goes("delete_catalog")

\* Polaris drops an empty catalog only.
delete_catalog ==
    /\ pc = "delete_catalog"
    /\ IF namespaces # {} \/ "catalog_role" \in objects THEN Refused
       ELSE Removes({"catalog"}) /\ Goes("delete_principal_role")

delete_principal_role ==
    /\ pc = "delete_principal_role"
    /\ Removes({"principal_role", "role_of_principal", "role_of_principal_role"})
    /\ Goes(IF mode = "delete" THEN "done" ELSE "configure_minio")

configure_minio ==
    /\ pc = "configure_minio"
    /\ Adds("bucket")
    /\ Goes("create_catalog")

\* The status of the POST is not looked at.
create_catalog ==
    /\ pc = "create_catalog"
    /\ \/ Adds("catalog") /\ Goes("create_namespace")
       \/ "catalog" \notin objects /\ Unheeded("create_catalog", "create_namespace")

\* Mutant: any namespace will do.
CreateNamespaceIfNone ==
    /\ pc = "create_namespace"
    /\ namespaces' = IF namespaces = {} THEN {polaris_namespace_name} ELSE namespaces
    /\ Goes("create_principal")
    /\ UNCHANGED <<namespace, listed, objects, tables, login, session, unheeded>>

\* Nor is this one; without a catalog Polaris has nothing to create it in.
create_namespace ==
    /\ pc = "create_namespace"
    /\ \/ /\ namespaces' = IF "catalog" \in objects
                           THEN namespaces \cup {polaris_namespace_name} ELSE {}
          /\ Goes("create_principal")
          /\ UNCHANGED <<namespace, listed, objects, tables, login, session, unheeded>>
       \/ /\ polaris_namespace_name \notin namespaces
          /\ Unheeded("create_namespace", "create_principal")

\* Mutant: with a principal that exists all is taken for provisioned.
CreatePrincipalLast ==
    /\ pc = "create_principal"
    /\ objects' = objects \cup {"principal"}
    /\ IF "principal" \in objects
       THEN UNCHANGED credential /\ Goes("done")
       ELSE credential' = credential + 1 /\ Goes("store_credentials_as_secret")
    /\ UNCHANGED <<namespace, listed, namespaces, tables, secret, session, unheeded>>

\* A principal that exists is taken for one whose credential is stored.
create_principal ==
    /\ pc = "create_principal"
    /\ objects' = objects \cup {"principal"}
    /\ IF "principal" \in objects
       THEN UNCHANGED credential /\ Goes("create_principal_role")
       ELSE credential' = credential + 1 /\ Goes("store_credentials_as_secret")
    /\ UNCHANGED <<namespace, listed, namespaces, tables, secret, session, unheeded>>

\* Mutant: a secret that exists is kept.
StoreCredentialsOnce ==
    /\ pc = "store_credentials_as_secret"
    /\ secret' = IF secret = 0 THEN credential ELSE secret
    /\ Goes("create_principal_role")
    /\ UNCHANGED <<namespace, listed, catalog, credential, session, unheeded>>

store_credentials_as_secret ==
    /\ pc = "store_credentials_as_secret"
    /\ secret' = credential
    /\ Goes("create_principal_role")
    /\ UNCHANGED <<namespace, listed, catalog, credential, session, unheeded>>

create_principal_role ==
    /\ pc = "create_principal_role"
    /\ Adds("principal_role")
    /\ Goes("create_catalog_role")

\* Mutant: a role that exists is an error.
CreateCatalogRoleOnce ==
    /\ pc = "create_catalog_role"
    /\ IF "catalog" \in objects /\ "catalog_role" \notin objects
       THEN Adds("catalog_role") /\ Goes("assign_principal_role")
       ELSE Refused

create_catalog_role ==
    /\ pc = "create_catalog_role"
    /\ IF "catalog" \notin objects THEN Refused
       ELSE Adds("catalog_role") /\ Goes("assign_principal_role")

assign_principal_role ==
    /\ pc = "assign_principal_role"
    /\ Adds("role_of_principal")
    /\ Goes("assign_catalog_role_to_principal_role")

assign_catalog_role_to_principal_role ==
    /\ pc = "assign_catalog_role_to_principal_role"
    /\ Adds("role_of_principal_role")
    /\ Goes("assign_catalog_role_grant")

assign_catalog_role_grant ==
    /\ pc = "assign_catalog_role_grant"
    /\ Adds("grant")
    /\ Goes("done")

Delete ==
    \/ unassign_catalog_role_to_principal_role \/ unassign_principal_role
    \/ delete_principal \/ get_namespaces \/ get_tables \/ delete_table
    \/ delete_namespace \/ delete_catalog_role \/ delete_catalog
    \/ delete_principal_role

Create ==
    \/ configure_minio \/ create_catalog \/ create_namespace \/ create_principal
    \/ store_credentials_as_secret \/ create_principal_role \/ create_catalog_role
    \/ assign_principal_role \/ assign_catalog_role_to_principal_role
    \/ assign_catalog_role_grant

Job == main \/ Delete \/ Create

-----------------------------------------------------------------------------
(* The writers: the raw ingestion job and dbt through Trino.               *)

Access == session = credential /\ session > 0 /\ Chain \subseteq objects

\* A writer is started, for the first time or again, and reads the secret then
\* and only then.  Whoever does this is not the code's: neither a writer that
\* Polaris turns away nor one whose secret has changed is started again.
StartWriter ==
    /\ secret > 0 /\ session # secret
    /\ session' = secret
    /\ UNCHANGED <<mode, pc, counters, namespace, listed, catalog, login, unheeded>>

\* CREATE NAMESPACE IF NOT EXISTS.
WriterCreatesNamespace(n) ==
    /\ Access
    /\ n \notin namespaces
    /\ namespaces' = namespaces \cup {n}
    /\ UNCHANGED <<mode, pc, counters, namespace, listed, objects, tables, login,
                   session, unheeded>>

WriterCreatesTable(n, t) ==
    /\ Access
    /\ n \in namespaces
    /\ t \notin tables[n]
    /\ tables' = [tables EXCEPT ![n] = @ \cup {t}]
    /\ UNCHANGED <<mode, pc, counters, namespace, listed, objects, namespaces, login,
                   session, unheeded>>

Writer ==
    \/ StartWriter
    \/ \E n \in Namespaces : WriterCreatesNamespace(n)
    \/ \E n \in Namespaces, t \in Tables : WriterCreatesTable(n, t)

-----------------------------------------------------------------------------
Next ==
    \/ \E m \in Modes : Deploy(m)
    \/ Job
    \/ Writer

Spec == Init /\ [][Next]_vars

\* Kubernetes restarts the job's pod.  Nobody need start a writer.
FairSpec == Spec /\ WF_vars(Job)

-----------------------------------------------------------------------------
(* Properties.                                                             *)

\* Every variable keeps its type; a namespace has a catalog and a table a
\* namespace.
TypeOK ==
    /\ mode \in Modes
    /\ pc \in {"idle", "stopped", "done"} \cup DeleteSteps \cup CreateSteps
    /\ deployments \in 0 .. MaxDeployments
    /\ attempts \in 0 .. MaxAttempts
    /\ failures \in 0 .. MaxFailures
    /\ namespace \in Namespaces
    /\ listed \in SUBSET Tables
    /\ objects \in SUBSET Objects
    /\ namespaces \in SUBSET Namespaces
    /\ tables \in [Namespaces -> SUBSET Tables]
    /\ credential \in Nat /\ secret \in 0 .. credential /\ session \in 0 .. secret
    /\ unheeded \in SUBSET Unchecked
    /\ namespaces # {} => "catalog" \in objects
    /\ \A n \in Namespaces : tables[n] # {} => n \in namespaces

\* A refresh that is done has left the writers a secret that works: a pod
\* killed between the creation of the principal and the storing of its
\* credential does no harm, because the next attempt makes a new principal.
\* Only a refused deletion of the principal, which nobody notices, can.
CredentialsStored ==
    mode = "refresh" /\ pc = "done" /\ "delete_principal" \notin unheeded =>
        "principal" \in objects /\ secret = credential

\* After a job that is done, with no request refused unnoticed, nothing is
\* missing between the principal and the catalog, whatever attempt failed
\* where; the delete mode leaves nothing in Polaris, although it clears one
\* namespace at a time and takes a failed listing for an empty one.  (The bucket
\* stays, and so does the Kubernetes secret, which opens nothing any more.)
DoneAsAsked ==
    pc = "done" /\ unheeded = {} =>
        IF mode = "delete"
        THEN objects \subseteq {"bucket"} /\ namespaces = {}
        ELSE Chain \cup {"bucket"} \subseteq objects /\ polaris_namespace_name \in namespaces

\* While the job empties a namespace no table is created in it: the tables it
\* has listed are all there are, although the writers are never told to stop.
NothingSlipsIn ==
    pc \in {"delete_table", "delete_namespace"} => tables[namespace] = listed

\* Polaris refuses a job without a failure for one reason only: the catalog has
\* another namespace.  The namespace that is deleted is empty, although the
\* writers run on, the catalog's role is gone before the catalog, and a catalog
\* role is created in a catalog that exists, unless its creation went wrong unseen.
RefusedForNamespacesOnly ==
    /\ pc = "delete_namespace" => tables[namespace] = {}
    /\ pc = "delete_catalog" => "catalog_role" \notin objects
    /\ pc = "create_catalog_role" =>
          "catalog" \in objects \/ "create_catalog" \in unheeded

\* Every deployed job is done at last, within the attempts Kubernetes makes: a
\* refresh clears one namespace in an attempt, and a failure at the very end
\* lets the writers fill the catalog again before the next.  The attempts are
\* enough for one failure, not for two.
DeploymentEnds == (pc = "stopped") ~> (pc = "done" \/ failures > 1)

\* After a refresh with no request refused unnoticed there is a secret, and a
\* writer that was started with it has access: to the credential of now and along
\* every assignment and grant to the catalog.  One started before the refresh has
\* none, until somebody starts it again.
SecretOpens ==
    mode = "refresh" /\ pc = "done" /\ unheeded = {} =>
        secret > 0 /\ (session = secret => Access)

=============================================================================
