----------------------------- MODULE OAuthClients -----------------------------
(***************************************************************************)
(* What an OAuth client of a tenant may do: its scopes, its roles, its     *)
(* grant types and its secret, and the requests of OAuthClientService that *)
(* set them.  When a client is revoked and restored is in TenantLifecycle. *)
(*                                                                         *)
(* update and rotateSecret read the client, check and change their copy,   *)
(* and save it: save() reads the row again and updates the columns in      *)
(* which the copy differs from it, whoever changed them.  A request whose  *)
(* checks fail changes nothing and is no step.  A caller is a platform     *)
(* admin or a manager of the tenant.                                       *)
(***************************************************************************)
EXTENDS Integers, FiniteSets

CONSTANTS
    KIds,          \* the clients
    KRequests,     \* requests, each made once
    KCatalog,      \* ASSIGNABLE_OAUTH_CLIENT_SCOPES
    KConfigured,   \* OIDC_SCOPES of the deployment
    KHeld,         \* the effective scopes of a manager of the tenant
    KScopeSets, KRoleSets, KGrantSets,   \* what requests ask for
    KNoSecret,
    KFirstSecret   \* the secret of a client that is there from the start

ASSUME KAssumption ==
    /\ KHeld \subseteq KCatalog
    /\ KNoSecret \notin KRequests \cup {KFirstSecret}
    /\ KFirstSecret \notin KRequests

VARIABLES
    kRow,        \* client -> its row
    kReq,        \* request -> where it stands and the copy it holds
    kShown,      \* client -> the secret shown last to whoever manages it
    kGranted,    \* client -> privileges a platform admin asked for (history)
    kOvertaken,  \* requests that hold a copy older than the row (history)
    kLost        \* whether such a request has written (history)

kVars == <<kRow, kReq, kShown, kGranted, kOvertaken, kLost>>

KColumns == {"scopes", "roles", "grants"}
KCallers == {"platform", "manager"}
KMachineGrant == "client_credentials"

\* OAUTH_CLIENT_ALLOWED_ROLES: the roles of the tenant, and the platform's.
KPlatformRoles == {"platform-admin"}
KAllowedRoles == {"member"} \cup KPlatformRoles

KAbsent == [there |-> FALSE, public |-> FALSE, secret |-> KNoSecret,
            scopes |-> {}, roles |-> {}, grants |-> {}]

\* The columns of a new confidential client.
KMachine(secret, scopes, roles, grants) ==
    [there |-> TRUE, public |-> FALSE, secret |-> secret,
     scopes |-> scopes, roles |-> roles, grants |-> grants]

\* The UI's public client as it is seeded: no secret, no roles.
KPublic == [there |-> TRUE, public |-> TRUE, secret |-> KNoSecret,
            scopes |-> KHeld \cap KConfigured, roles |-> {}, grants |-> {"authorization_code", "refresh_token"}]

KIdle == [at |-> "idle", id |-> "none", caller |-> "manager", sent |-> {},
          copy |-> KAbsent, found |-> KAbsent]

\* What only a platform admin may give a client.
KPrivileges(row) == (row.scopes \ KHeld) \cup (row.roles \cap KPlatformRoles)

\* A client may be there already: the UI's, the bootstrap's platform client,
\* or one registered before.
KInit ==
    /\ kRow \in [KIds -> {KAbsent, KPublic}
          \cup {KMachine(KFirstSecret, KHeld \cap KConfigured, roles, {KMachineGrant}) :
                   roles \in {{}, {"member"}, KPlatformRoles}}]
    /\ kReq = [r \in KRequests |-> KIdle]
    /\ kShown = [k \in KIds |-> kRow[k].secret]
    /\ kGranted = [k \in KIds |-> KPrivileges(kRow[k])]
    /\ kOvertaken = {}
    /\ kLost = FALSE

------------------------------------------------------------------------------
(* The checks *)

\* partitionRequestedScopes: the scopes that are granted.
KPartition(requested, allowed, actor, platform) ==
    {s \in requested : s \in allowed /\ (platform \/ s \in actor)}

\* assertAssignableScopes
KAssignable(scopes, caller) ==
    /\ scopes # {}
    /\ KPartition(scopes, KCatalog \cap KConfigured, KHeld, caller = "platform") = scopes

\* assertSupportedGrantTypes
KSupported(grants) == grants \subseteq {KMachineGrant, "authorization_code", "refresh_token"}

\* hasPlatformRole
KHasPlatformRole(roles) == roles \cap KPlatformRoles # {}

\* MUTANT of KRolesFit: the pairing is checked with the roles only.
KRolesFit_IfSent(roles, grants, caller, checkAssignment, previous) ==
    /\ roles \subseteq KAllowedRoles
    /\ checkAssignment =>
         /\ KHasPlatformRole(previous) = KHasPlatformRole(roles) \/ caller = "platform"
         /\ roles = {} \/ grants = {KMachineGrant}

\* assertRoleConstraints
KRolesFit(roles, grants, caller, checkAssignment, previous) ==
    /\ roles \subseteq KAllowedRoles
    /\ (checkAssignment /\ KHasPlatformRole(previous) # KHasPlatformRole(roles))
         => caller = "platform"
    /\ roles = {} \/ grants = {KMachineGrant}

\* chk_oauth_client_secret_matches_kind
KCheckHolds(row) == row.there => (row.public <=> row.secret = KNoSecret)

\* verifyClientSecret, and compareClientSecret of the provider: a public client
\* authenticates with no secret at all.
KAuthenticates(k, secret) ==
    kRow[k].there /\ kRow[k].secret # KNoSecret /\ kRow[k].secret = secret

------------------------------------------------------------------------------
(* Requests *)

\* A write makes the copies of the other requests old, and records what it
\* was that a platform admin asked for.
KWrote(r, k, row, caller, sent) ==
    /\ kRow' = [kRow EXCEPT ![k] = row]
    /\ kOvertaken' = kOvertaken \cup
         {q \in KRequests \ {r} : kReq[q].at # "idle" /\ kReq[q].id = k /\ row # kRow[k]}
    /\ kGranted' = [kGranted EXCEPT ![k] = @ \cup
         (IF caller = "platform"
          THEN (IF "scopes" \in sent THEN row.scopes ELSE {})
                 \cup (IF "roles" \in sent THEN row.roles ELSE {})
          ELSE {})]

KDone(r) == [kReq EXCEPT ![r] = [KIdle EXCEPT !.at = "done"]]

\* createClient: roles are {} and the grant is client_credentials unless sent;
\* the secret is new.  repository.create is one INSERT.
KCreate(r, k, caller, scopes, roles, grants, rolesSent) ==
    /\ kReq[r].at = "idle" /\ ~kRow[k].there
    /\ ~rolesSent => roles = {}
    /\ KSupported(grants)
    /\ KRolesFit(roles, grants, caller, rolesSent, {})
    /\ KAssignable(scopes, caller)
    /\ kReq' = KDone(r)
    /\ KWrote(r, k, KMachine(r, scopes, roles, grants), caller, {"scopes", "roles"})
    /\ kShown' = [kShown EXCEPT ![k] = r]
    /\ UNCHANGED kLost

\* The resulting state: a column of the patch replaces that of the copy.
KPatched(row, sent, patch) ==
    [c \in KColumns |-> IF c \in sent THEN patch[c] ELSE row[c]]

\* update, up to the save: roles and grants are checked together on the result.
KUpdateRead(r, k, caller, sent, patch) ==
    LET next == KPatched(kRow[k], sent, patch)
    IN  /\ kReq[r].at = "idle"
        /\ kRow[k].there
        /\ "grants" \in sent => KSupported(patch["grants"])
        /\ KRolesFit(next["roles"], next["grants"], caller, "roles" \in sent, kRow[k].roles)
        /\ "scopes" \in sent => KAssignable(patch["scopes"], caller)
        /\ kReq' = [kReq EXCEPT ![r] =
             [KIdle EXCEPT !.at = "load", !.id = k, !.caller = caller, !.sent = sent,
                           !.copy = [kRow[k] EXCEPT !.scopes = next["scopes"],
                                                    !.roles = next["roles"],
                                                    !.grants = next["grants"]]]]
        /\ UNCHANGED <<kRow, kShown, kGranted, kOvertaken, kLost>>

\* rotateSecret, up to the save.  It does not look at the kind of the client.
KRotateRead(r, k) ==
    /\ kReq[r].at = "idle"
    /\ kRow[k].there
    /\ kReq' = [kReq EXCEPT ![r] = [KIdle EXCEPT !.at = "load", !.id = k,
                  !.sent = {"secret"}, !.copy = [kRow[k] EXCEPT !.secret = r]]]
    /\ UNCHANGED <<kRow, kShown, kGranted, kOvertaken, kLost>>

\* save: its SELECT.
KLoad(r) ==
    /\ kReq[r].at = "load"
    /\ kReq' = [kReq EXCEPT ![r].at = "write", ![r].found = kRow[kReq[r].id]]
    /\ UNCHANGED <<kRow, kShown, kGranted, kOvertaken, kLost>>

\* The columns in which the entity differs from what the SELECT found.
KMerge(row, found, copy) ==
    [c \in DOMAIN row |-> IF copy[c] # found[c] THEN copy[c] ELSE row[c]]

\* save: its UPDATE, which the CHECK may refuse.
KWrite(r) ==
    LET q == kReq[r]
        row == KMerge(kRow[q.id], q.found, q.copy)
    IN  /\ q.at = "write"
        /\ kReq' = KDone(r)
        /\ IF KCheckHolds(row)
           THEN /\ KWrote(r, q.id, row, q.caller, q.sent)
                /\ kShown' = IF "secret" \in q.sent THEN [kShown EXCEPT ![q.id] = r] ELSE kShown
                /\ kLost' = (kLost \/ r \in kOvertaken)
           ELSE UNCHANGED <<kRow, kShown, kGranted, kOvertaken, kLost>>

KNext == \E r \in KRequests :
    \/ \E k \in KIds :
         \/ \E caller \in KCallers, scopes \in KScopeSets, roles \in KRoleSets,
               grants \in KGrantSets, rolesSent \in BOOLEAN :
              KCreate(r, k, caller, scopes, roles, grants, rolesSent)
         \/ \E caller \in KCallers, sent \in SUBSET KColumns, scopes \in KScopeSets,
               roles \in KRoleSets, grants \in KGrantSets :
              KUpdateRead(r, k, caller, sent,
                          [c \in KColumns |-> CASE c = "scopes" -> scopes
                                                [] c = "roles" -> roles
                                                [] OTHER -> grants])
         \/ KRotateRead(r, k)
    \/ KLoad(r)
    \/ KWrite(r)

KSpec == KInit /\ [][KNext]_kVars

------------------------------------------------------------------------------
(* Properties *)

KRow == [there : BOOLEAN, public : BOOLEAN, secret : KRequests \cup {KNoSecret, KFirstSecret},
         scopes : SUBSET KCatalog, roles : SUBSET KAllowedRoles,
         grants : SUBSET {KMachineGrant, "authorization_code", "refresh_token"}]

\* Rows and requests have their shape; a stored row passes the CHECK.
KTypeOK ==
    /\ kRow \in [KIds -> KRow]
    /\ \A k \in KIds : KCheckHolds(kRow[k])
    /\ kReq \in [KRequests -> [at : {"idle", "load", "write", "done"}, id : KIds \cup {"none"},
                               caller : KCallers, sent : SUBSET (KColumns \cup {"secret"}),
                               copy : KRow, found : KRow]]
    /\ kShown \in [KIds -> KRequests \cup {KNoSecret, KFirstSecret}]
    /\ kOvertaken \subseteq KRequests /\ kLost \in BOOLEAN

\* assertAssignableScopes and assertRoleConstraints: whatever requests run at
\* once, a client has a scope that managers of its tenant do not hold, or a
\* platform role, only if a platform admin once asked for that on this client;
\* and it has no scope the deployment does not offer.
KPrivilegesGranted ==
    \A k \in KIds : /\ KPrivileges(kRow[k]) \subseteq kGranted[k]
                    /\ kRow[k].scopes \subseteq KConfigured

\* assertRoleConstraints checks roles and grant types on the resulting state:
\* as long as no request saved a copy that another request had overtaken, a
\* client with roles has the client_credentials grant and no other.
KRolesOnlyForMachines ==
    kLost \/ \A k \in KIds : kRow[k].roles # {} => kRow[k].grants = {KMachineGrant}

\* createClient and rotateSecret show a secret once: as long as no overtaken
\* copy was saved, the secret shown last is the only one that authenticates
\* the client, and no secret authenticates a public one.
KShownSecretWorks ==
    kLost \/ \A k \in KIds, s \in KRequests \cup {KFirstSecret} :
      KAuthenticates(k, s) <=> (kShown[k] = s /\ ~kRow[k].public)

\* What a client may do is what someone entitled to it asked for, a pair of roles
\* and grants the service allows, with the secret that was shown.
KClientsSound ==
    KTypeOK /\ KPrivilegesGranted /\ KRolesOnlyForMachines /\ KShownSecretWorks
===============================================================================
