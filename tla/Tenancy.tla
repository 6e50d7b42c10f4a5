------------------------------ MODULE Tenancy ------------------------------
(***************************************************************************)
(* Tenants, their users and their configuration.  POST /admin/tenants      *)
(* makes sure the root tenant and its user0 exist, then creates a tenant,  *)
(* its owner and its first API key; POST /users adds a user below a source *)
(* user; two more endpoints rewrite parts of one JSON column, the tenant's *)
(* webhookConfig.                                                          *)
(*                                                                         *)
(* A step is one statement; findOrCreateTenantUser's upsert and create are *)
(* one transaction.  A request may throw or die between any two.           *)
(***************************************************************************)
EXTENDS Integers, FiniteSets

CONSTANTS
    Root,       \* the tenant with slug uprm
    Slugs,      \* slugs of the other tenants
    Externals,  \* external ids of the users tenants create
    Refs,       \* product references
    Versions,   \* contents of a product or of a part of the configuration
    Handlers,   \* requests that run at once
    None        \* no member, version or tenant

Tenants == Slugs \cup {Root}

\* tenantUser is unique by (tenantId, externalUserId); "owner" stands for user0
\* in the root tenant and for tenant:<slug> in another.
Members == Tenants \X (Externals \cup {"owner"})
Owner(t) == <<t, "owner">>
User0 == Owner(Root)

VARIABLES
    tenants,    \* tenant rows, by slug
    owned,      \* tenants whose ownerTenantUserId is set
    keyed,      \* tenants with an active API key
    source,     \* sourceTenantUserId of each tenantUser row, None if no row
    config,     \* webhookConfig of each tenant
    offered,    \* history: the product each finished registration left
    raced,      \* history: tenants of which two configuration requests overlapped
    request     \* control state and locals of each request

rowVars == <<tenants, owned, keyed, source>>
configVars == <<config, offered, raced>>
vars == <<rowVars, configVars, request>>

Parts == {"stripe", "outbound"}
Config ==
    [parts : [Parts -> Versions \cup {None}], products : [Refs -> Versions \cup {None}]]
NoConfig == [parts |-> [p \in Parts |-> None], products |-> [r \in Refs |-> None]]

\* source is User0 itself for user0, whose row names no source.
Exists(m) == source[m] # None

Idle == [pc |-> "idle", job |-> "none", tenant |-> None, member |-> None,
         under |-> None, read |-> NoConfig]

\* Every row and local is of its type, and only tenants that exist have an
\* owner or a key.
TypeOK ==
    /\ tenants \subseteq Tenants /\ owned \subseteq tenants /\ keyed \subseteq tenants
    /\ source \in [Members -> Members \cup {None}]
    /\ config \in [Tenants -> Config]
    /\ offered \in [Tenants -> [Refs -> Versions \cup {None}]]
    /\ raced \subseteq Tenants
    /\ request \in [Handlers ->
          [pc : {"idle", "root", "create_root", "user0", "add_user0", "own_root", "create",
                 "find", "source", "add", "own", "key", "write"},
           job : {"none", "tenant", "user", "product", "parts"},
           tenant : Tenants \cup {None}, member : Members \cup {None},
           under : Members \cup {None}, read : Config]]

Init ==
    /\ tenants = {} /\ owned = {} /\ keyed = {}
    /\ source = [m \in Members |-> None]
    /\ config = [t \in Tenants |-> NoConfig]
    /\ offered = [t \in Tenants |-> [r \in Refs |-> None]]
    /\ raced = {}
    /\ request = [h \in Handlers |-> Idle]

Goto(h, pc) == request' = [request EXCEPT ![h].pc = pc]
Return(h) == request' = [request EXCEPT ![h] = Idle]

At(h, pc) == request[h].pc = pc

\* The request throws: what it has written stays.
Throw(h) ==
    /\ request[h].pc # "idle"
    /\ Return(h)
    /\ UNCHANGED <<rowVars, configVars>>

-----------------------------------------------------------------------------
(* create: a super_admin makes a tenant, below root or below another user. *)

CreateTenant(h, t, under) ==
    /\ At(h, "idle")
    /\ request' = [request EXCEPT ![h] = [Idle EXCEPT
          !.pc = "root", !.job = "tenant", !.tenant = t, !.member = Owner(t),
          !.under = under]]
    /\ UNCHANGED <<rowVars, configVars>>

\* ensureRootProvenance.
FindRoot(h) ==
    /\ At(h, "root")
    /\ Goto(h, IF Root \in tenants THEN "user0" ELSE "create_root")
    /\ UNCHANGED <<rowVars, configVars>>

CreateRoot(h) ==
    /\ At(h, "create_root") /\ Root \notin tenants
    /\ tenants' = tenants \cup {Root}
    /\ Goto(h, "user0")
    /\ UNCHANGED <<owned, keyed, source, configVars>>

FindUser0(h) ==
    /\ At(h, "user0")
    /\ Goto(h, IF Exists(User0) THEN "own_root" ELSE "add_user0")
    /\ UNCHANGED <<rowVars, configVars>>

AddUser0(h) ==
    /\ At(h, "add_user0") /\ ~Exists(User0)
    /\ source' = [source EXCEPT ![User0] = User0]
    /\ Goto(h, "own_root")
    /\ UNCHANGED <<tenants, owned, keyed, configVars>>

OwnRoot(h) ==
    /\ At(h, "own_root")
    /\ owned' = owned \cup {Root}
    /\ Goto(h, "create")
    /\ UNCHANGED <<tenants, keyed, source, configVars>>

\* createTenant: the slug is unique, and the source is not looked at yet.
CreateRow(h) ==
    /\ At(h, "create") /\ request[h].tenant \notin tenants
    /\ tenants' = tenants \cup {request[h].tenant}
    /\ Goto(h, "find")
    /\ UNCHANGED <<owned, keyed, source, configVars>>

SetOwner(h) ==
    /\ At(h, "own")
    /\ owned' = owned \cup {request[h].tenant}
    /\ Goto(h, "key")
    /\ UNCHANGED <<tenants, keyed, source, configVars>>

IssueApiKey(h) ==
    /\ At(h, "key")
    /\ keyed' = keyed \cup {request[h].tenant}
    /\ Return(h)
    /\ UNCHANGED <<tenants, owned, source, configVars>>

-----------------------------------------------------------------------------
(* Users.  HmacAuthGuard lets a request in only with an active key of its  *)
(* tenant, a signature over its body and a timestamp within SKEW_SECONDS.  *)

VerifiedTenant(t) == t \in keyed

\* getTenant: the source is the caller's choice, or else the tenant's owner.
CreateUser(h, t, x, under) ==
    /\ At(h, "idle") /\ VerifiedTenant(t)
    /\ request' = [request EXCEPT ![h] = [Idle EXCEPT
          !.pc = "find", !.job = "user", !.tenant = t, !.member = <<t, x>>,
          !.under = IF under = None /\ t \in owned THEN Owner(t) ELSE under]]
    /\ UNCHANGED <<rowVars, configVars>>

\* findOrCreateTenantUser: return the row that exists; without a source, throw.
FindMember(h) ==
    LET found == Exists(request[h].member)
    IN  /\ At(h, "find")
        /\ found \/ request[h].under # None
        /\ IF ~found THEN Goto(h, "source")
           ELSE IF request[h].job = "user" THEN Return(h) ELSE Goto(h, "own")
        /\ UNCHANGED <<rowVars, configVars>>

\* Mutant of CheckSource: takes the source without looking it up.
TakeSource(h) ==
    /\ At(h, "source")
    /\ Goto(h, "add")
    /\ UNCHANGED <<rowVars, configVars>>

CheckSource(h) ==
    /\ At(h, "source") /\ Exists(request[h].under)
    /\ Goto(h, "add")
    /\ UNCHANGED <<rowVars, configVars>>

\* The transaction; of two requests with one key the second throws.
AddMember(h) ==
    /\ At(h, "add") /\ ~Exists(request[h].member)
    /\ source' = [source EXCEPT ![request[h].member] = request[h].under]
    /\ IF request[h].job = "user" THEN Return(h) ELSE Goto(h, "own")
    /\ UNCHANGED <<tenants, owned, keyed, configVars>>

-----------------------------------------------------------------------------
(* Configuration: read the whole webhookConfig, write the whole back.      *)

Configures(h, t) == request[h].pc = "write" /\ request[h].tenant = t

ReadConfig(h, job, t) ==
    /\ At(h, "idle")
    /\ request' = [request EXCEPT ![h] = [Idle EXCEPT
          !.pc = "write", !.job = job, !.tenant = t, !.read = config[t]]]
    /\ raced' = IF \E other \in Handlers : Configures(other, t)
                THEN raced \cup {t} ELSE raced
    /\ UNCHANGED <<rowVars, config, offered>>

Configure(h) ==
    \/ \E t \in keyed : ReadConfig(h, "product", t)
    \/ \E t \in tenants : ReadConfig(h, "parts", t)

\* registerCheckoutProduct puts the product in the place of the one with its ref.
RegisterCheckoutProduct(h, r, v) ==
    LET t == request[h].tenant
    IN  /\ At(h, "write") /\ request[h].job = "product"
        /\ config' = [config EXCEPT ![t] = [request[h].read EXCEPT !.products[r] = v]]
        /\ offered' = [offered EXCEPT ![t][r] = v]
        /\ Return(h)
        /\ UNCHANGED <<rowVars, raced>>

\* Mutant of UpdateWebhookConfig: writes the part without what it read.
WritePartOnly(h, p, v) ==
    LET t == request[h].tenant
    IN  /\ At(h, "write") /\ request[h].job = "parts"
        /\ config' = [config EXCEPT ![t] = [NoConfig EXCEPT !.parts[p] = v]]
        /\ Return(h)
        /\ UNCHANGED <<rowVars, offered, raced>>

\* updateWebhookConfig replaces the stripe or the outbound part.
UpdateWebhookConfig(h, p, v) ==
    LET t == request[h].tenant
    IN  /\ At(h, "write") /\ request[h].job = "parts"
        /\ config' = [config EXCEPT ![t] = [request[h].read EXCEPT !.parts[p] = v]]
        /\ Return(h)
        /\ UNCHANGED <<rowVars, offered, raced>>

-----------------------------------------------------------------------------
Next ==
    \E h \in Handlers :
        \/ \E t \in Slugs, under \in Members : CreateTenant(h, t, under)
        \/ \E t \in Slugs, x \in Externals, under \in Members \cup {None} :
              CreateUser(h, t, x, under)
        \/ FindRoot(h) \/ CreateRoot(h) \/ FindUser0(h) \/ AddUser0(h) \/ OwnRoot(h)
        \/ CreateRow(h) \/ FindMember(h) \/ CheckSource(h) \/ AddMember(h)
        \/ SetOwner(h) \/ IssueApiKey(h)
        \/ Configure(h)
        \/ \E r \in Refs, v \in Versions : RegisterCheckoutProduct(h, r, v)
        \/ \E p \in Parts, v \in Versions : UpdateWebhookConfig(h, p, v)
        \/ Throw(h)

Spec == Init /\ [][Next]_vars

-----------------------------------------------------------------------------
(* Properties.                                                             *)

\* Users each of whom names one of them as the source.
Closed(group) == \A m \in group : Exists(m) /\ source[m] \in group

\* Every user descends from user0: a source exists, and no group of users name
\* only each other without user0.  A tenant has an owner before it has a key, and
\* so no tenant has users before its owner, wherever requests throw.
MembersAreRooted ==
    /\ \A m \in Members : Exists(m) => Exists(source[m])
    /\ \A group \in SUBSET Members : group # {} /\ Closed(group) => User0 \in group
    /\ \A t \in owned : Exists(Owner(t))
    /\ \A t \in Slugs, x \in Externals \ {"owner"} : Exists(<<t, x>>) => t \in owned

\* A registered product stays what its last registration left, whatever else
\* of the tenant is configured, unless two configuration requests overlapped.
RegisteredStaysOffered ==
    \A t \in Tenants \ raced : config[t].products = offered[t]
=============================================================================
