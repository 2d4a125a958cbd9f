----------------------- MODULE ProvisionCatalogProofs -----------------------
(***************************************************************************)
(* Proofs about the job that provisions the catalog, for any namespaces    *)
(* and tables, and any number of deployments, attempts and failures.       *)
(***************************************************************************)
EXTENDS ProvisionCatalog, TLAPS

Unassigned == DeleteSteps \ {"unassign_catalog_role_to_principal_role"}
Revoked == Unassigned \ {"unassign_principal_role"}
Emptying == Revoked \ {"delete_principal"}
Renewing == {"configure_minio", "create_catalog", "create_namespace", "create_principal"}

\* The job is at step s, or it is done and s was its last.
At(s) == pc = s \/ (pc = "done" /\ mode # "delete")
Granted == At("assign_catalog_role_grant")
Assigned == Granted \/ At("assign_catalog_role_to_principal_role")
HasCatalogRole == Assigned \/ At("assign_principal_role")
HasPrincipalRole == HasCatalogRole \/ At("create_catalog_role")
HasPrincipal == HasPrincipalRole \/ At("create_principal_role")
Created == HasPrincipal \/ At("store_credentials_as_secret")
HasNamespace == Created \/ At("create_principal")
HasCatalog == HasNamespace \/ At("create_namespace")
HasBucket == HasCatalog \/ At("create_catalog")

\* What is gone when the job that deletes is at a step: without its role the
\* writers create nothing.
Deleting ==
    /\ mode = "create" => pc \notin DeleteSteps
    /\ mode = "delete" => pc \notin CreateSteps
    /\ pc \in Unassigned => "role_of_principal_role" \notin objects
    /\ pc \in Revoked => "service_admin" \notin objects
    /\ pc \in Emptying =>
        \/ {"principal", "role_of_principal"} \cap objects = {}
        \/ "delete_principal" \in unheeded
    /\ pc \in {"delete_catalog", "delete_principal_role"} =>
        {"catalog_role", "grant"} \cap objects = {}
    /\ pc = "delete_principal_role" => "catalog" \notin objects
    /\ pc = "done" /\ mode = "delete" /\ unheeded = {} => objects \subseteq {"bucket"}

\* What is there when the job that creates is at a step.
Creating ==
    /\ HasBucket => "bucket" \in objects
    /\ HasCatalog => "catalog" \in objects \/ "create_catalog" \in unheeded
    /\ HasNamespace =>
        \/ polaris_namespace_name \in namespaces
        \/ {"create_catalog", "create_namespace"} \cap unheeded # {}
    /\ Created => "principal" \in objects
    /\ HasPrincipalRole => "principal_role" \in objects
    /\ HasCatalogRole => "catalog_role" \in objects
    /\ Assigned => "role_of_principal" \in objects
    /\ Granted => "role_of_principal_role" \in objects
    /\ pc = "done" /\ mode # "delete" => "grant" \in objects

\* A refresh makes a new principal and stores its credential.
Renewed ==
    /\ mode = "refresh" /\ pc \in Renewing =>
        "principal" \notin objects \/ "delete_principal" \in unheeded
    /\ mode = "refresh" /\ HasPrincipal =>
        secret = credential \/ "delete_principal" \in unheeded

CatalogInv == TypeOK /\ Deleting /\ Creating /\ Renewed /\ NothingSlipsIn

-----------------------------------------------------------------------------
LEMMA InitCatalog == Init => CatalogInv
BY NamespacesAssumption, BoundsAssumption
   DEF Init, CatalogInv, TypeOK, Deleting, Creating, Renewed, NothingSlipsIn,
       DeleteSteps, CreateSteps, Objects, Chain, Unassigned, Revoked, Emptying,
       Renewing, At, Granted, Assigned, HasCatalogRole, HasPrincipalRole,
       HasPrincipal, Created, HasNamespace, HasCatalog, HasBucket

\* The steps of the deletion.
LEMMA DeleteKeeps ==
    ASSUME CatalogInv, Delete
    PROVE  CatalogInv'
<1> USE NamespacesAssumption, BoundsAssumption
<1> USE DEF CatalogInv, catalog, login, counters
<1>1. CASE unassign_catalog_role_to_principal_role
    <2> USE <1>1 DEF unassign_catalog_role_to_principal_role, Goes, Fails, Removes, Adds, Refused, Unheeded
    <2>1. TypeOK'
        BY DEF TypeOK, DeleteSteps, CreateSteps, Objects, Chain, Unchecked
    <2>2. Deleting' /\ NothingSlipsIn'
        BY DEF TypeOK, Deleting, NothingSlipsIn, DeleteSteps, CreateSteps, Objects, Chain,
            Unassigned, Revoked, Emptying
    <2>3. Creating' /\ Renewed'
        BY DEF TypeOK, Deleting, Creating, Renewed, DeleteSteps, CreateSteps, Unassigned, Revoked, Emptying, Renewing, At, Granted, Assigned, HasCatalogRole,
            HasPrincipalRole, HasPrincipal, Created, HasNamespace, HasCatalog, HasBucket
    <2> QED BY <2>1, <2>2, <2>3
<1>2. CASE unassign_principal_role
    <2> USE <1>2 DEF unassign_principal_role, Goes, Fails, Removes, Adds, Refused, Unheeded
    <2>1. TypeOK'
        BY DEF TypeOK, DeleteSteps, CreateSteps, Objects, Chain, Unchecked
    <2>2. Deleting' /\ NothingSlipsIn'
        BY DEF TypeOK, Deleting, NothingSlipsIn, DeleteSteps, CreateSteps, Objects, Chain,
            Unassigned, Revoked, Emptying
    <2>3. Creating' /\ Renewed'
        BY DEF TypeOK, Deleting, Creating, Renewed, DeleteSteps, CreateSteps, Unassigned, Revoked, Emptying, Renewing, At, Granted, Assigned, HasCatalogRole,
            HasPrincipalRole, HasPrincipal, Created, HasNamespace, HasCatalog, HasBucket
    <2> QED BY <2>1, <2>2, <2>3
<1>3. CASE delete_principal
    <2> USE <1>3 DEF delete_principal, Goes, Fails, Removes, Adds, Refused, Unheeded
    <2>1. TypeOK'
        <3>1. /\ mode' \in Modes /\ pc' \in {"stopped", "done"} \cup DeleteSteps \cup CreateSteps
              /\ deployments' \in 0 .. MaxDeployments /\ attempts' \in 0 .. MaxAttempts
              /\ failures' \in 0 .. MaxFailures
            BY DEF TypeOK, DeleteSteps, CreateSteps
        <3>2. namespace' \in Namespaces /\ listed' \in SUBSET Tables
            BY DEF TypeOK
        <3>3. objects' \in SUBSET Objects /\ unheeded' \in SUBSET Unchecked
            BY DEF TypeOK, Objects, Chain, Unchecked
        <3>4. credential' \in Nat /\ secret' \in 0 .. credential' /\ session' \in 0 .. secret'
            BY DEF TypeOK
        <3>5. namespaces' \in SUBSET Namespaces /\ tables' \in [Namespaces -> SUBSET Tables]
            BY DEF TypeOK
        <3>6. /\ namespaces' # {} => "catalog" \in objects'
              /\ \A n \in Namespaces : tables'[n] # {} => n \in namespaces'
            BY DEF TypeOK
        <3> QED BY <3>1, <3>2, <3>3, <3>4, <3>5, <3>6 DEF TypeOK
    <2>2. Deleting' /\ NothingSlipsIn'
        BY DEF TypeOK, Deleting, NothingSlipsIn, DeleteSteps, CreateSteps, Objects, Chain,
            Unassigned, Revoked, Emptying
    <2>3. Creating' /\ Renewed'
        BY DEF TypeOK, Deleting, Creating, Renewed, DeleteSteps, CreateSteps, Unassigned, Revoked, Emptying, Renewing, At, Granted, Assigned, HasCatalogRole,
            HasPrincipalRole, HasPrincipal, Created, HasNamespace, HasCatalog, HasBucket
    <2> QED BY <2>1, <2>2, <2>3
<1>4. CASE get_namespaces
    <2> USE <1>4 DEF get_namespaces, Goes, Fails, Removes, Adds, Refused, Unheeded
    <2>1. TypeOK'
        BY DEF TypeOK, DeleteSteps, CreateSteps, Objects, Chain, Unchecked
    <2>2. Deleting' /\ NothingSlipsIn'
        BY DEF TypeOK, Deleting, NothingSlipsIn, DeleteSteps, CreateSteps, Objects, Chain,
            Unassigned, Revoked, Emptying
    <2>3. Creating' /\ Renewed'
        BY DEF TypeOK, Deleting, Creating, Renewed, DeleteSteps, CreateSteps, Unassigned, Revoked, Emptying, Renewing, At, Granted, Assigned, HasCatalogRole,
            HasPrincipalRole, HasPrincipal, Created, HasNamespace, HasCatalog, HasBucket
    <2> QED BY <2>1, <2>2, <2>3
<1>5. CASE get_tables
    <2> USE <1>5 DEF get_tables, Goes, Fails, Removes, Adds, Refused, Unheeded
    <2>1. TypeOK'
        BY DEF TypeOK, DeleteSteps, CreateSteps, Objects, Chain, Unchecked
    <2>2. Deleting' /\ NothingSlipsIn'
        BY DEF TypeOK, Deleting, NothingSlipsIn, DeleteSteps, CreateSteps, Objects, Chain,
            Unassigned, Revoked, Emptying
    <2>3. Creating' /\ Renewed'
        BY DEF TypeOK, Deleting, Creating, Renewed, DeleteSteps, CreateSteps, Unassigned, Revoked, Emptying, Renewing, At, Granted, Assigned, HasCatalogRole,
            HasPrincipalRole, HasPrincipal, Created, HasNamespace, HasCatalog, HasBucket
    <2> QED BY <2>1, <2>2, <2>3
<1>6. CASE delete_table
    <2> USE <1>6 DEF delete_table, Goes, Fails, Removes, Adds, Refused, Unheeded
    <2>1. TypeOK'
        BY DEF TypeOK, DeleteSteps, CreateSteps, Objects, Chain, Unchecked
    <2>2. Deleting' /\ NothingSlipsIn'
        BY DEF TypeOK, Deleting, NothingSlipsIn, DeleteSteps, CreateSteps, Objects, Chain,
            Unassigned, Revoked, Emptying
    <2>3. Creating' /\ Renewed'
        BY DEF TypeOK, Deleting, Creating, Renewed, DeleteSteps, CreateSteps, Unassigned, Revoked, Emptying, Renewing, At, Granted, Assigned, HasCatalogRole,
            HasPrincipalRole, HasPrincipal, Created, HasNamespace, HasCatalog, HasBucket
    <2> QED BY <2>1, <2>2, <2>3
<1>7. CASE delete_namespace
    <2> USE <1>7 DEF delete_namespace, Goes, Fails, Removes, Adds, Refused, Unheeded
    <2>1. TypeOK'
        <3>1. /\ mode' \in Modes /\ pc' \in {"stopped", "done"} \cup DeleteSteps \cup CreateSteps
              /\ deployments' \in 0 .. MaxDeployments /\ attempts' \in 0 .. MaxAttempts
              /\ failures' \in 0 .. MaxFailures
            BY DEF TypeOK, DeleteSteps, CreateSteps
        <3>2. namespace' \in Namespaces /\ listed' \in SUBSET Tables
            BY DEF TypeOK
        <3>3. objects' \in SUBSET Objects /\ unheeded' \in SUBSET Unchecked
            BY DEF TypeOK, Objects, Chain, Unchecked
        <3>4. credential' \in Nat /\ secret' \in 0 .. credential' /\ session' \in 0 .. secret'
            BY DEF TypeOK
        <3>5. namespaces' \in SUBSET Namespaces /\ tables' \in [Namespaces -> SUBSET Tables]
            BY DEF TypeOK
        <3>6. /\ namespaces' # {} => "catalog" \in objects'
              /\ \A n \in Namespaces : tables'[n] # {} => n \in namespaces'
            BY DEF TypeOK
        <3> QED BY <3>1, <3>2, <3>3, <3>4, <3>5, <3>6 DEF TypeOK
    <2>2. Deleting' /\ NothingSlipsIn'
        BY DEF TypeOK, Deleting, NothingSlipsIn, DeleteSteps, CreateSteps, Objects, Chain,
            Unassigned, Revoked, Emptying
    <2>3. Creating' /\ Renewed'
        BY DEF TypeOK, Deleting, Creating, Renewed, DeleteSteps, CreateSteps, Unassigned, Revoked, Emptying, Renewing, At, Granted, Assigned, HasCatalogRole,
            HasPrincipalRole, HasPrincipal, Created, HasNamespace, HasCatalog, HasBucket
    <2> QED BY <2>1, <2>2, <2>3
<1>8. CASE delete_catalog_role
    <2> USE <1>8 DEF delete_catalog_role, Goes, Fails, Removes, Adds, Refused, Unheeded
    <2>1. TypeOK'
        BY DEF TypeOK, DeleteSteps, CreateSteps, Objects, Chain, Unchecked
    <2>2. Deleting' /\ NothingSlipsIn'
        BY DEF TypeOK, Deleting, NothingSlipsIn, DeleteSteps, CreateSteps, Objects, Chain,
            Unassigned, Revoked, Emptying
    <2>3. Creating' /\ Renewed'
        BY DEF TypeOK, Deleting, Creating, Renewed, DeleteSteps, CreateSteps, Unassigned, Revoked, Emptying, Renewing, At, Granted, Assigned, HasCatalogRole,
            HasPrincipalRole, HasPrincipal, Created, HasNamespace, HasCatalog, HasBucket
    <2> QED BY <2>1, <2>2, <2>3
<1>9. CASE delete_catalog
    <2> USE <1>9 DEF delete_catalog, Goes, Fails, Removes, Adds, Refused, Unheeded
    <2>1. TypeOK'
        <3>1. /\ mode' \in Modes /\ pc' \in {"stopped", "done"} \cup DeleteSteps \cup CreateSteps
              /\ deployments' \in 0 .. MaxDeployments /\ attempts' \in 0 .. MaxAttempts
              /\ failures' \in 0 .. MaxFailures
            BY DEF TypeOK, DeleteSteps, CreateSteps
        <3>2. namespace' \in Namespaces /\ listed' \in SUBSET Tables
            BY DEF TypeOK
        <3>3. objects' \in SUBSET Objects /\ unheeded' \in SUBSET Unchecked
            BY DEF TypeOK, Objects, Chain, Unchecked
        <3>4. credential' \in Nat /\ secret' \in 0 .. credential' /\ session' \in 0 .. secret'
            BY DEF TypeOK
        <3>5. namespaces' \in SUBSET Namespaces /\ tables' \in [Namespaces -> SUBSET Tables]
            BY DEF TypeOK
        <3>6. /\ namespaces' # {} => "catalog" \in objects'
              /\ \A n \in Namespaces : tables'[n] # {} => n \in namespaces'
            BY DEF TypeOK
        <3> QED BY <3>1, <3>2, <3>3, <3>4, <3>5, <3>6 DEF TypeOK
    <2>2. Deleting' /\ NothingSlipsIn'
        BY DEF TypeOK, Deleting, NothingSlipsIn, DeleteSteps, CreateSteps, Objects, Chain,
            Unassigned, Revoked, Emptying
    <2>3. Creating' /\ Renewed'
        BY DEF TypeOK, Deleting, Creating, Renewed, DeleteSteps, CreateSteps, Unassigned, Revoked, Emptying, Renewing, At, Granted, Assigned, HasCatalogRole,
            HasPrincipalRole, HasPrincipal, Created, HasNamespace, HasCatalog, HasBucket
    <2> QED BY <2>1, <2>2, <2>3
<1>10. CASE delete_principal_role
    <2> USE <1>10 DEF delete_principal_role, Goes, Fails, Removes, Adds, Refused, Unheeded
    <2>1. TypeOK'
        BY DEF TypeOK, DeleteSteps, CreateSteps, Objects, Chain, Unchecked
    <2>2. Deleting' /\ NothingSlipsIn'
        BY DEF TypeOK, Deleting, NothingSlipsIn, DeleteSteps, CreateSteps, Objects, Chain,
            Unassigned, Revoked, Emptying
    <2>3. Creating' /\ Renewed'
        BY DEF TypeOK, Deleting, Creating, Renewed, DeleteSteps, CreateSteps, Unassigned, Revoked, Emptying, Renewing, At, Granted, Assigned, HasCatalogRole,
            HasPrincipalRole, HasPrincipal, Created, HasNamespace, HasCatalog, HasBucket
    <2> QED BY <2>1, <2>2, <2>3
<1> QED BY <1>1, <1>2, <1>3, <1>4, <1>5, <1>6, <1>7, <1>8, <1>9, <1>10 DEF Delete

\* The steps of the creation.
LEMMA CreateKeeps ==
    ASSUME CatalogInv, Create
    PROVE  CatalogInv'
<1> USE NamespacesAssumption, BoundsAssumption
<1> USE DEF CatalogInv, catalog, login, counters
<1>1. CASE configure_minio
    <2> USE <1>1 DEF configure_minio, Goes, Fails, Removes, Adds, Refused, Unheeded
    <2>1. TypeOK'
        BY DEF TypeOK, DeleteSteps, CreateSteps, Objects, Chain, Unchecked
    <2>2. Deleting' /\ NothingSlipsIn'
        BY DEF TypeOK, Deleting, NothingSlipsIn, DeleteSteps, CreateSteps, Objects, Chain,
            Unassigned, Revoked, Emptying
    <2>3. Creating' /\ Renewed'
        BY DEF TypeOK, Deleting, Creating, Renewed, DeleteSteps, CreateSteps, Unassigned, Revoked, Emptying, Renewing, At, Granted, Assigned, HasCatalogRole,
            HasPrincipalRole, HasPrincipal, Created, HasNamespace, HasCatalog, HasBucket
    <2> QED BY <2>1, <2>2, <2>3
<1>2. CASE create_catalog
    <2> USE <1>2 DEF create_catalog, Goes, Fails, Removes, Adds, Refused, Unheeded
    <2>1. TypeOK'
        <3>1. /\ mode' \in Modes /\ pc' \in {"stopped", "done"} \cup DeleteSteps \cup CreateSteps
              /\ deployments' \in 0 .. MaxDeployments /\ attempts' \in 0 .. MaxAttempts
              /\ failures' \in 0 .. MaxFailures
            BY DEF TypeOK, DeleteSteps, CreateSteps
        <3>2. namespace' \in Namespaces /\ listed' \in SUBSET Tables
            BY DEF TypeOK
        <3>3. objects' \in SUBSET Objects /\ unheeded' \in SUBSET Unchecked
            BY DEF TypeOK, Objects, Chain, Unchecked
        <3>4. credential' \in Nat /\ secret' \in 0 .. credential' /\ session' \in 0 .. secret'
            BY DEF TypeOK
        <3>5. namespaces' \in SUBSET Namespaces /\ tables' \in [Namespaces -> SUBSET Tables]
            BY DEF TypeOK
        <3>6. /\ namespaces' # {} => "catalog" \in objects'
              /\ \A n \in Namespaces : tables'[n] # {} => n \in namespaces'
            BY DEF TypeOK
        <3> QED BY <3>1, <3>2, <3>3, <3>4, <3>5, <3>6 DEF TypeOK
    <2>2. Deleting' /\ NothingSlipsIn'
        BY DEF TypeOK, Deleting, NothingSlipsIn, DeleteSteps, CreateSteps, Objects, Chain,
            Unassigned, Revoked, Emptying
    <2>3. Creating' /\ Renewed'
        BY DEF TypeOK, Deleting, Creating, Renewed, DeleteSteps, CreateSteps, Unassigned, Revoked, Emptying, Renewing, At, Granted, Assigned, HasCatalogRole,
            HasPrincipalRole, HasPrincipal, Created, HasNamespace, HasCatalog, HasBucket
    <2> QED BY <2>1, <2>2, <2>3
<1>3. CASE create_namespace
    <2> USE <1>3 DEF create_namespace, Goes, Fails, Removes, Adds, Refused, Unheeded
    <2>1. TypeOK'
        <3>1. /\ mode' \in Modes /\ pc' \in {"stopped", "done"} \cup DeleteSteps \cup CreateSteps
              /\ deployments' \in 0 .. MaxDeployments /\ attempts' \in 0 .. MaxAttempts
              /\ failures' \in 0 .. MaxFailures
            BY DEF TypeOK, DeleteSteps, CreateSteps
        <3>2. namespace' \in Namespaces /\ listed' \in SUBSET Tables
            BY DEF TypeOK
        <3>3. objects' \in SUBSET Objects /\ unheeded' \in SUBSET Unchecked
            BY DEF TypeOK, Objects, Chain, Unchecked
        <3>4. credential' \in Nat /\ secret' \in 0 .. credential' /\ session' \in 0 .. secret'
            BY DEF TypeOK
        <3>5. namespaces' \in SUBSET Namespaces /\ tables' \in [Namespaces -> SUBSET Tables]
            BY DEF TypeOK
        <3>6. /\ namespaces' # {} => "catalog" \in objects'
              /\ \A n \in Namespaces : tables'[n] # {} => n \in namespaces'
            BY DEF TypeOK
        <3> QED BY <3>1, <3>2, <3>3, <3>4, <3>5, <3>6 DEF TypeOK
    <2>2. Deleting' /\ NothingSlipsIn'
        BY DEF TypeOK, Deleting, NothingSlipsIn, DeleteSteps, CreateSteps, Objects, Chain,
            Unassigned, Revoked, Emptying
    <2>3. Creating' /\ Renewed'
        BY DEF TypeOK, Deleting, Creating, Renewed, DeleteSteps, CreateSteps, Unassigned, Revoked, Emptying, Renewing, At, Granted, Assigned, HasCatalogRole,
            HasPrincipalRole, HasPrincipal, Created, HasNamespace, HasCatalog, HasBucket
    <2> QED BY <2>1, <2>2, <2>3
<1>4. CASE create_principal
    <2> USE <1>4 DEF create_principal, Goes, Fails, Removes, Adds, Refused, Unheeded
    <2>1. TypeOK'
        BY DEF TypeOK, DeleteSteps, CreateSteps, Objects, Chain, Unchecked
    <2>2. Deleting' /\ NothingSlipsIn'
        BY DEF TypeOK, Deleting, NothingSlipsIn, DeleteSteps, CreateSteps, Objects, Chain,
            Unassigned, Revoked, Emptying
    <2>3. Creating' /\ Renewed'
        BY DEF TypeOK, Deleting, Creating, Renewed, DeleteSteps, CreateSteps, Unassigned, Revoked, Emptying, Renewing, At, Granted, Assigned, HasCatalogRole,
            HasPrincipalRole, HasPrincipal, Created, HasNamespace, HasCatalog, HasBucket
    <2> QED BY <2>1, <2>2, <2>3
<1>5. CASE store_credentials_as_secret
    <2> USE <1>5 DEF store_credentials_as_secret, Goes, Fails, Removes, Adds, Refused, Unheeded
    <2>1. TypeOK'
        BY DEF TypeOK, DeleteSteps, CreateSteps, Objects, Chain, Unchecked
    <2>2. Deleting' /\ NothingSlipsIn'
        BY DEF TypeOK, Deleting, NothingSlipsIn, DeleteSteps, CreateSteps, Objects, Chain,
            Unassigned, Revoked, Emptying
    <2>3. Creating' /\ Renewed'
        BY DEF TypeOK, Deleting, Creating, Renewed, DeleteSteps, CreateSteps, Unassigned, Revoked, Emptying, Renewing, At, Granted, Assigned, HasCatalogRole,
            HasPrincipalRole, HasPrincipal, Created, HasNamespace, HasCatalog, HasBucket
    <2> QED BY <2>1, <2>2, <2>3
<1>6. CASE create_principal_role
    <2> USE <1>6 DEF create_principal_role, Goes, Fails, Removes, Adds, Refused, Unheeded
    <2>1. TypeOK'
        BY DEF TypeOK, DeleteSteps, CreateSteps, Objects, Chain, Unchecked
    <2>2. Deleting' /\ NothingSlipsIn'
        BY DEF TypeOK, Deleting, NothingSlipsIn, DeleteSteps, CreateSteps, Objects, Chain,
            Unassigned, Revoked, Emptying
    <2>3. Creating' /\ Renewed'
        BY DEF TypeOK, Deleting, Creating, Renewed, DeleteSteps, CreateSteps, Unassigned, Revoked, Emptying, Renewing, At, Granted, Assigned, HasCatalogRole,
            HasPrincipalRole, HasPrincipal, Created, HasNamespace, HasCatalog, HasBucket
    <2> QED BY <2>1, <2>2, <2>3
<1>7. CASE create_catalog_role
    <2> USE <1>7 DEF create_catalog_role, Goes, Fails, Removes, Adds, Refused, Unheeded
    <2>1. TypeOK'
        <3>1. /\ mode' \in Modes /\ pc' \in {"stopped", "done"} \cup DeleteSteps \cup CreateSteps
              /\ deployments' \in 0 .. MaxDeployments /\ attempts' \in 0 .. MaxAttempts
              /\ failures' \in 0 .. MaxFailures
            BY DEF TypeOK, DeleteSteps, CreateSteps
        <3>2. namespace' \in Namespaces /\ listed' \in SUBSET Tables
            BY DEF TypeOK
        <3>3. objects' \in SUBSET Objects /\ unheeded' \in SUBSET Unchecked
            BY DEF TypeOK, Objects, Chain, Unchecked
        <3>4. credential' \in Nat /\ secret' \in 0 .. credential' /\ session' \in 0 .. secret'
            BY DEF TypeOK
        <3>5. namespaces' \in SUBSET Namespaces /\ tables' \in [Namespaces -> SUBSET Tables]
            BY DEF TypeOK
        <3>6. /\ namespaces' # {} => "catalog" \in objects'
              /\ \A n \in Namespaces : tables'[n] # {} => n \in namespaces'
            BY DEF TypeOK
        <3> QED BY <3>1, <3>2, <3>3, <3>4, <3>5, <3>6 DEF TypeOK
    <2>2. Deleting' /\ NothingSlipsIn'
        BY DEF TypeOK, Deleting, NothingSlipsIn, DeleteSteps, CreateSteps, Objects, Chain,
            Unassigned, Revoked, Emptying
    <2>3. Creating' /\ Renewed'
        BY DEF TypeOK, Deleting, Creating, Renewed, DeleteSteps, CreateSteps, Unassigned, Revoked, Emptying, Renewing, At, Granted, Assigned, HasCatalogRole,
            HasPrincipalRole, HasPrincipal, Created, HasNamespace, HasCatalog, HasBucket
    <2> QED BY <2>1, <2>2, <2>3
<1>8. CASE assign_principal_role
    <2> USE <1>8 DEF assign_principal_role, Goes, Fails, Removes, Adds, Refused, Unheeded
    <2>1. TypeOK'
        BY DEF TypeOK, DeleteSteps, CreateSteps, Objects, Chain, Unchecked
    <2>2. Deleting' /\ NothingSlipsIn'
        BY DEF TypeOK, Deleting, NothingSlipsIn, DeleteSteps, CreateSteps, Objects, Chain,
            Unassigned, Revoked, Emptying
    <2>3. Creating' /\ Renewed'
        BY DEF TypeOK, Deleting, Creating, Renewed, DeleteSteps, CreateSteps, Unassigned, Revoked, Emptying, Renewing, At, Granted, Assigned, HasCatalogRole,
            HasPrincipalRole, HasPrincipal, Created, HasNamespace, HasCatalog, HasBucket
    <2> QED BY <2>1, <2>2, <2>3
<1>9. CASE assign_catalog_role_to_principal_role
    <2> USE <1>9 DEF assign_catalog_role_to_principal_role, Goes, Fails, Removes, Adds, Refused, Unheeded
    <2>1. TypeOK'
        BY DEF TypeOK, DeleteSteps, CreateSteps, Objects, Chain, Unchecked
    <2>2. Deleting' /\ NothingSlipsIn'
        BY DEF TypeOK, Deleting, NothingSlipsIn, DeleteSteps, CreateSteps, Objects, Chain,
            Unassigned, Revoked, Emptying
    <2>3. Creating' /\ Renewed'
        BY DEF TypeOK, Deleting, Creating, Renewed, DeleteSteps, CreateSteps, Unassigned, Revoked, Emptying, Renewing, At, Granted, Assigned, HasCatalogRole,
            HasPrincipalRole, HasPrincipal, Created, HasNamespace, HasCatalog, HasBucket
    <2> QED BY <2>1, <2>2, <2>3
<1>10. CASE assign_catalog_role_grant
    <2> USE <1>10 DEF assign_catalog_role_grant, Goes, Fails, Removes, Adds, Refused, Unheeded
    <2>1. TypeOK'
        BY DEF TypeOK, DeleteSteps, CreateSteps, Objects, Chain, Unchecked
    <2>2. Deleting' /\ NothingSlipsIn'
        BY DEF TypeOK, Deleting, NothingSlipsIn, DeleteSteps, CreateSteps, Objects, Chain,
            Unassigned, Revoked, Emptying
    <2>3. Creating' /\ Renewed'
        BY DEF TypeOK, Deleting, Creating, Renewed, DeleteSteps, CreateSteps, Unassigned, Revoked, Emptying, Renewing, At, Granted, Assigned, HasCatalogRole,
            HasPrincipalRole, HasPrincipal, Created, HasNamespace, HasCatalog, HasBucket
    <2> QED BY <2>1, <2>2, <2>3
<1> QED BY <1>1, <1>2, <1>3, <1>4, <1>5, <1>6, <1>7, <1>8, <1>9, <1>10 DEF Create

\* The writers create namespaces and tables only while they have access.
LEMMA WriterKeeps ==
    ASSUME CatalogInv, Writer
    PROVE  CatalogInv'
<1> USE NamespacesAssumption, BoundsAssumption
<1> USE DEF CatalogInv, catalog, login, counters
<1>1. CASE StartWriter
    BY <1>1 DEF StartWriter, TypeOK, Deleting, Creating, Renewed, NothingSlipsIn,
        Unassigned, Revoked, Emptying, Renewing, At, Granted, Assigned, HasCatalogRole,
        HasPrincipalRole, HasPrincipal, Created, HasNamespace, HasCatalog, HasBucket
<1>2. CASE ~StartWriter
    <2>1. /\ Access
          /\ UNCHANGED <<mode, pc, counters, namespace, listed, objects, login, session, unheeded>>
          /\ namespaces \subseteq namespaces' /\ namespaces' \in SUBSET Namespaces
          /\ tables' \in [Namespaces -> SUBSET Tables]
          /\ \A n \in Namespaces : tables'[n] # {} => n \in namespaces'
        BY <1>2 DEF Writer, WriterCreatesNamespace, WriterCreatesTable, TypeOK
    <2>2. Chain \subseteq objects /\ "catalog" \in objects /\ "role_of_principal_role" \in objects
        BY <2>1 DEF Access, Chain
    <2>3. pc \notin Unassigned
        BY <2>2 DEF Deleting
    <2>4. TypeOK'
        BY <2>1, <2>2 DEF TypeOK
    <2>5. Deleting'
        BY <2>1 DEF Deleting
    <2>6. NothingSlipsIn'
        BY <2>1, <2>3 DEF NothingSlipsIn, Unassigned, DeleteSteps
    <2>7. Creating' /\ Renewed'
        BY <2>1 DEF Creating, Renewed, Unassigned, Revoked, Emptying, Renewing, At, Granted, Assigned, HasCatalogRole,
        HasPrincipalRole, HasPrincipal, Created, HasNamespace, HasCatalog, HasBucket
    <2> QED BY <2>4, <2>5, <2>6, <2>7
<1> QED BY <1>1, <1>2

LEMMA StartKeeps ==
    ASSUME CatalogInv, main \/ (\E m \in Modes : Deploy(m)) \/ UNCHANGED vars
    PROVE  CatalogInv'
<1> USE BoundsAssumption, ModesAssumption
<1> USE DEF CatalogInv, catalog, login, counters
<1>1. CASE main
    BY <1>1 DEF main, TypeOK, Deleting, Creating, Renewed, NothingSlipsIn,
        DeleteSteps, CreateSteps,
        Unassigned, Revoked, Emptying, Renewing, At, Granted, Assigned, HasCatalogRole,
        HasPrincipalRole, HasPrincipal, Created, HasNamespace, HasCatalog, HasBucket
<1>2. CASE \E m \in Modes : Deploy(m)
    BY <1>2 DEF Deploy, TypeOK, Deleting, Creating, Renewed, NothingSlipsIn,
        DeleteSteps, CreateSteps,
        Unassigned, Revoked, Emptying, Renewing, At, Granted, Assigned, HasCatalogRole,
        HasPrincipalRole, HasPrincipal, Created, HasNamespace, HasCatalog, HasBucket
<1>3. CASE UNCHANGED vars
    BY <1>3 DEF vars, TypeOK, Deleting, Creating, Renewed, NothingSlipsIn,
        Unassigned, Revoked, Emptying, Renewing, At, Granted, Assigned, HasCatalogRole,
        HasPrincipalRole, HasPrincipal, Created, HasNamespace, HasCatalog, HasBucket
<1> QED BY <1>1, <1>2, <1>3

THEOREM CatalogInvariance == Spec => []CatalogInv
<1>1. Init => CatalogInv
    BY InitCatalog
<1>2. CatalogInv /\ [Next]_vars => CatalogInv'
    BY DeleteKeeps, CreateKeeps, WriterKeeps, StartKeeps DEF Next, Job
<1> QED BY <1>1, <1>2, PTL DEF Spec

-----------------------------------------------------------------------------
(* The properties.                                                         *)

\* Every variable of the job keeps its type; a table has a namespace, and a
\* namespace a catalog.
THEOREM CatalogTypes == Spec => []TypeOK
<1>1. CatalogInv => TypeOK
    BY DEF CatalogInv
<1> QED BY <1>1, CatalogInvariance, PTL

\* While a namespace is emptied no writer creates a table in it.
THEOREM WritersAreOut == Spec => []NothingSlipsIn
<1>1. CatalogInv => NothingSlipsIn
    BY DEF CatalogInv
<1> QED BY <1>1, CatalogInvariance, PTL

\* A refresh that is done has stored the credential of its new principal,
\* wherever an attempt before was killed.
THEOREM SecretWorks == Spec => []CredentialsStored
<1>1. CatalogInv => CredentialsStored
    BY DEF CatalogInv, TypeOK, Creating, Renewed, CredentialsStored,
        Unassigned, Revoked, Emptying, Renewing, At, Granted, Assigned, HasCatalogRole,
        HasPrincipalRole, HasPrincipal, Created, HasNamespace, HasCatalog, HasBucket
<1> QED BY <1>1, CatalogInvariance, PTL

\* A job that is done with no request refused unnoticed has left what was asked
\* for, whatever failed in which attempt.
THEOREM JobDoesAsAsked == Spec => []DoneAsAsked
<1>1. CatalogInv => DoneAsAsked
    BY DEF CatalogInv, TypeOK, Deleting, Creating, DoneAsAsked, Chain,
        Unassigned, Revoked, Emptying, Renewing, At, Granted, Assigned, HasCatalogRole,
        HasPrincipalRole, HasPrincipal, Created, HasNamespace, HasCatalog, HasBucket
<1> QED BY <1>1, CatalogInvariance, PTL

\* A principal has a credential.
Numbered == "principal" \in objects => credential > 0

LEMMA NumberedStep ==
    ASSUME CatalogInv, Numbered, [Next]_vars
    PROVE  Numbered'
<1> USE DEF catalog, login
<1>1. CASE create_principal \/ store_credentials_as_secret
    BY <1>1 DEF create_principal, store_credentials_as_secret, CatalogInv, TypeOK, Numbered
<1>2. CASE Delete
    BY <1>2 DEF Delete, Removes, Refused, Unheeded, Numbered,
        unassign_catalog_role_to_principal_role, unassign_principal_role,
        delete_principal, get_namespaces, get_tables, delete_table,
        delete_namespace, delete_catalog_role, delete_catalog, delete_principal_role
<1>3. CASE /\ Create
           /\ ~create_principal /\ ~store_credentials_as_secret
    <2>1. objects' \subseteq objects \cup (Objects \ {"principal"})
          /\ credential' = credential
        BY <1>3 DEF Create, Adds, Refused, Unheeded, Objects, Chain,
            configure_minio, create_catalog, create_namespace,
            create_principal_role, create_catalog_role, assign_principal_role,
            assign_catalog_role_to_principal_role, assign_catalog_role_grant
    <2> QED BY <2>1 DEF Numbered
<1>4. CASE (\E m \in Modes : Deploy(m)) \/ main \/ Writer \/ UNCHANGED vars
    BY <1>4 DEF Deploy, main, Writer, StartWriter, WriterCreatesNamespace,
        WriterCreatesTable, vars, Numbered
<1> QED BY <1>1, <1>2, <1>3, <1>4 DEF Next, Job

\* Nothing is missing between the secret a refresh leaves and the catalog: all it
\* takes to give the writers access again is to start them again.
THEOREM SecretGivesAccess == Spec => []SecretOpens
<1>1. Init => Numbered
    BY DEF Init, Numbered
<1>2. CatalogInv /\ Numbered /\ [Next]_vars => Numbered'
    BY NumberedStep
<1>3. CatalogInv /\ Numbered /\ DoneAsAsked /\ CredentialsStored => SecretOpens
    BY DEF CatalogInv, TypeOK, Numbered, DoneAsAsked, CredentialsStored,
           SecretOpens, Access, Chain
<1> QED BY <1>1, <1>2, <1>3, CatalogInvariance, JobDoesAsAsked, SecretWorks, PTL DEF Spec

\* A namespace is deleted when all tables listed in it are.
Cleared == pc = "delete_namespace" => listed = {}

LEMMA ClearedStep ==
    ASSUME Cleared, [Next]_vars
    PROVE  Cleared'
<1>1. CASE get_tables \/ delete_table
    BY <1>1 DEF get_tables, delete_table, Goes, Cleared
<1>2. CASE Delete /\ ~get_tables /\ ~delete_table
    <2>1. pc' # "delete_namespace"
        BY <1>2 DEF Delete, Goes, Refused, Unheeded, Removes,
            unassign_catalog_role_to_principal_role, unassign_principal_role,
            delete_principal, get_namespaces, delete_namespace,
            delete_catalog_role, delete_catalog, delete_principal_role
    <2> QED BY <2>1 DEF Cleared
<1>3. CASE Create
    <2>1. pc' # "delete_namespace"
        BY <1>3 DEF Create, Goes, Refused, Unheeded, Adds, configure_minio,
            create_catalog, create_namespace, create_principal,
            store_credentials_as_secret, create_principal_role,
            create_catalog_role, assign_principal_role,
            assign_catalog_role_to_principal_role, assign_catalog_role_grant
    <2> QED BY <2>1 DEF Cleared
<1>4. CASE (\E m \in Modes : Deploy(m)) \/ main \/ Writer \/ UNCHANGED vars
    BY <1>4 DEF Deploy, main, Writer, StartWriter, WriterCreatesNamespace,
        WriterCreatesTable, vars, Cleared
<1> QED BY <1>1, <1>2, <1>3, <1>4 DEF Next, Job

\* The one refusal a job has to live with is that of a catalog with further
\* namespaces, which the next attempt takes up; no other step can be refused for
\* what the writers did or an attempt before has left.
THEOREM OtherStepsAreServed == Spec => []RefusedForNamespacesOnly
<1>1. Init => Cleared
    BY DEF Init, Cleared
<1>2. Cleared /\ [Next]_vars => Cleared'
    BY ClearedStep
<1>3. CatalogInv /\ Cleared => RefusedForNamespacesOnly
    BY DEF CatalogInv, Cleared, NothingSlipsIn, Deleting, Creating,
           RefusedForNamespacesOnly, At, Granted, Assigned, HasCatalogRole,
           HasPrincipalRole, HasPrincipal, Created, HasNamespace, HasCatalog
<1> QED BY <1>1, <1>2, <1>3, CatalogInvariance, PTL DEF Spec

=============================================================================
