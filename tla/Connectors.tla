------------------------------ MODULE Connectors ------------------------------
(***************************************************************************)
(* A tenant's connectors: ConnectorCredentialService (registration behind  *)
(* a connectivity check, update, deletion, and the lazy re-encryption that *)
(* every read performs), the versioned keys of EncryptionService, and      *)
(* AdapterRegistry.resolve, which picks a connector for an operation.      *)
(*                                                                         *)
(* Every operation is a job of several database statements on one pod;     *)
(* jobs interleave between statements.  A pod holds the encryption keys of *)
(* the file it read when it started: versions 1 .. cKeys[p], the last one  *)
(* current.  The stored ciphertext is the pair of the plain secret and the *)
(* key version it was encrypted under.                                     *)
(***************************************************************************)
EXTENDS Integers, FiniteSets

CONSTANTS
    CPods, CJobs,
    CIds,        \* connectors of the tenant
    CEndpoints, CSecrets,
    CNone,
    CAdapters,   \* the connectors whose type has a registered adapter
    CMaxRequests \* bound on the requests of a behaviour

ASSUME CAssumption ==
    /\ IsFiniteSet(CIds) /\ CAdapters \subseteq CIds /\ CMaxRequests \in Nat
    /\ CNone \notin CIds \cup CEndpoints \cup CSecrets

VARIABLES
    cKeys,      \* pod -> current encryption key version
    cRow,       \* connector -> its row
    cDefault,   \* tenant.config.default_connector
    cJob,       \* job -> what it runs and holds
    cChecked,   \* endpoints that passed a connectivity check
    cAcked,     \* connector -> the last secret an acknowledged request stored
    cLeft       \* requests the bounded model may still start

cVars == <<cKeys, cRow, cDefault, cJob, cChecked, cAcked, cLeft>>

CNoRow == [exists |-> FALSE, active |-> FALSE, endpoint |-> CNone, secret |-> CNone,
           under |-> 1, keyVersion |-> 1]
CNoRows == [c \in CIds |-> CNoRow]

\* A job: its request, the rows it loaded, those it still has to re-encrypt,
\* and whether a row could not be decrypted.
CFree  == [kind |-> "none", pod |-> CNone, at |-> "free", id |-> CNone, named |-> CNone,
           endpoint |-> CNone, secret |-> CNone, copy |-> CNoRows, todo |-> {}, failed |-> FALSE]

CInit ==
    /\ cKeys = [p \in CPods |-> 1]
    /\ cRow = CNoRows
    /\ cDefault = CNone
    /\ cJob = [j \in CJobs |-> CFree]
    /\ cChecked = {}
    /\ cAcked = [c \in CIds |-> CNone]
    /\ cLeft = CMaxRequests

------------------------------------------------------------------------------
(* Encryption *)

\* EncryptionService.encrypt: the current key of the pod.
CEncrypt(row, secret, p) ==
    [row EXCEPT !.secret = secret, !.under = cKeys[p], !.keyVersion = cKeys[p]]

\* decrypt: the key the row names is configured, and it is the key used.
CDecrypts(row, p) == row.keyVersion <= cKeys[p] /\ row.under = row.keyVersion

CRequiresRotation(row, p) == row.keyVersion # cKeys[p]

\* MUTANT of CWriteSecret: the key version column is left as it was.
CWriteSecret_KeepVersion(row, new) == [row EXCEPT !.secret = new.secret, !.under = new.under]

\* The columns lazyRotateKeyIfNeeded and update write over the stored row.
CWriteSecret(row, new) ==
    [row EXCEPT !.secret = new.secret, !.under = new.under, !.keyVersion = new.keyVersion]

\* A pod restarts with the key file that has the next version; the requests
\* it ran are gone.
CRestart(p) ==
    /\ cKeys[p] = 1
    /\ cKeys' = [cKeys EXCEPT ![p] = 2]
    /\ cJob' = [j \in CJobs |-> IF cJob[j].pod = p THEN CFree ELSE cJob[j]]
    /\ UNCHANGED <<cRow, cDefault, cChecked, cAcked, cLeft>>

------------------------------------------------------------------------------
(* Requests *)

CEnd(j) == cJob' = [cJob EXCEPT ![j] = CFree]
CGo(j, at) == cJob' = [cJob EXCEPT ![j].at = at]

CKinds == {"create", "update", "list", "delete", "resolve"}

\* A request arrives: a registration and an update carry an endpoint and a
\* secret (an update one of them or both), the others at most a connector.
CBegin(j, p, kind, c, e, s) ==
    /\ cJob[j].at = "free" /\ cLeft > 0
    /\ kind \in {"list", "resolve"} <=> c = CNone
    /\ CASE kind = "create" -> ~cRow[c].exists /\ CNone \notin {e, s}
         [] kind = "update" -> cRow[c].exists /\ {e, s} # {CNone}
         [] kind = "delete" -> cRow[c].exists /\ {e, s} = {CNone}
         [] OTHER           -> {e, s} = {CNone}
    /\ cJob' = [cJob EXCEPT ![j] = [CFree EXCEPT !.kind = kind, !.pod = p, !.id = c,
                 !.endpoint = e, !.secret = s,
                 !.at = CASE kind = "create" -> "check" [] kind = "resolve" -> "default" [] OTHER -> "load"]]
    /\ cLeft' = cLeft - 1
    /\ UNCHANGED <<cKeys, cRow, cDefault, cChecked, cAcked>>

\* findById or findByTenant: the rows are loaded, and those under another key
\* version than the pod's are to be re-encrypted.  A missing row answers 404.
CLoad(j) ==
    LET job  == cJob[j]
        rows == {c \in CIds : cRow[c].exists /\ job.id \in {c, CNone}}
    IN  /\ job.at = "load"
        /\ IF rows = {} THEN CEnd(j)
           ELSE cJob' = [cJob EXCEPT ![j].at = "rotate",
                  ![j].copy = [c \in CIds |-> IF c \in rows THEN cRow[c] ELSE CNoRow],
                  ![j].todo = {c \in rows : CRequiresRotation(cRow[c], job.pod)}]
        /\ UNCHANGED <<cKeys, cRow, cDefault, cChecked, cAcked, cLeft>>

\* lazyRotateKeyIfNeeded: decrypts the row it loaded and writes the same
\* secret under the current key, whatever the row holds by now.
CRotate(j, c) ==
    LET job == cJob[j]
        new == CEncrypt(job.copy[c], job.copy[c].secret, job.pod)
    IN  /\ job.at = "rotate" /\ c \in job.todo
        /\ IF CDecrypts(job.copy[c], job.pod)
           THEN /\ cRow' = [cRow EXCEPT ![c] = IF @.exists THEN CWriteSecret(@, new) ELSE @]
                /\ cJob' = [cJob EXCEPT ![j].copy[c] = new, ![j].todo = @ \ {c}]
           ELSE /\ cJob' = [cJob EXCEPT ![j].failed = TRUE, ![j].todo = @ \ {c}]
                /\ UNCHANGED cRow
        /\ UNCHANGED <<cKeys, cDefault, cChecked, cAcked, cLeft>>

\* Every loaded row is re-encrypted: the request goes on, or fails when one
\* could not be decrypted.
CLoaded(j) ==
    LET job == cJob[j]
    IN  /\ job.at = "rotate" /\ job.todo = {}
        /\ IF job.failed \/ job.kind = "list" THEN CEnd(j)
           ELSE CGo(j, CASE job.kind = "update" -> "check" [] job.kind = "delete" -> "delete"
                         [] job.kind = "resolve" -> "select")
        /\ UNCHANGED <<cKeys, cRow, cDefault, cChecked, cAcked, cLeft>>

\* The pair an update or a registration tests: what the caller sent, and the
\* loaded row's value for what it left out.
CTestedEndpoint(job) == IF job.endpoint # CNone THEN job.endpoint ELSE job.copy[job.id].endpoint

\* An update of the endpoint alone is tested with the stored credentials.
CCanTest(job) == job.secret # CNone \/ CDecrypts(job.copy[job.id], job.pod)

\* assertSafeConnectorUrl: https to public addresses only.  The host is
\* resolved anew at every check, so any check may pass or fail.
CUrlSafe == BOOLEAN

\* ConnectorHealthCheckService.check: an unsafe address, a refused or late
\* token request and an unexpected answer are all unhealthy.
CHealthy(safe, answers) == safe /\ answers

\* assertHealthy: the endpoint is healthy, or the request fails.
CCheck(j, healthy) ==
    LET job == cJob[j]
    IN  /\ job.at = "check"
        /\ IF healthy /\ CCanTest(job)
           THEN /\ cChecked' = cChecked \cup {CTestedEndpoint(job)}
                /\ CGo(j, "store")
           ELSE CEnd(j) /\ UNCHANGED cChecked
        /\ UNCHANGED <<cKeys, cRow, cDefault, cAcked, cLeft>>

\* The columns an update changes.
CUpdates(row, job) ==
    LET moved == IF job.endpoint = CNone THEN row ELSE [row EXCEPT !.endpoint = job.endpoint]
    IN  IF job.secret = CNone THEN moved ELSE CEncrypt(moved, job.secret, job.pod)

CInserted(job) ==
    CEncrypt([CNoRow EXCEPT !.exists = TRUE, !.active = TRUE, !.endpoint = job.endpoint],
             job.secret, job.pod)

\* The row is inserted or updated and the request acknowledged; a row that is
\* gone answers 404.  An update loads the row again, and re-encrypts it when
\* another pod has written it since.
CStore(j) ==
    LET job == cJob[j] row == cRow[job.id]
    IN  /\ job.at = "store"
        /\ cRow' = [cRow EXCEPT ![job.id] =
                      IF job.kind = "create" THEN (IF row.exists THEN row ELSE CInserted(job))
                      ELSE IF row.exists THEN CUpdates(row, job) ELSE row]
        /\ cAcked' = IF job.secret # CNone /\ cRow'[job.id] # row
                     THEN [cAcked EXCEPT ![job.id] = job.secret] ELSE cAcked
        /\ IF job.kind = "update" /\ row.exists
           THEN cJob' = [cJob EXCEPT ![j] = [CFree EXCEPT !.kind = "list", !.pod = job.pod,
                                              !.id = job.id, !.at = "load"]]
           ELSE CEnd(j)
        /\ UNCHANGED <<cKeys, cDefault, cChecked, cLeft>>

\* delete: refused while credential records reference the connector (the
\* foreign key refuses a record added in between); otherwise the row goes.
CDelete(j, referenced) ==
    /\ cJob[j].at = "delete"
    /\ cRow' = IF referenced THEN cRow ELSE [cRow EXCEPT ![cJob[j].id] = CNoRow]
    /\ cAcked' = IF referenced THEN cAcked ELSE [cAcked EXCEPT ![cJob[j].id] = CNone]
    /\ CEnd(j)
    /\ UNCHANGED <<cKeys, cDefault, cChecked, cLeft>>

\* The deactivation cascade, and updateConfig, which checked the connector it
\* names before saving it: it may be inactive or gone by now.
CDeactivateAll ==
    /\ \E c \in CIds : cRow[c].active
    /\ cRow' = [c \in CIds |-> [cRow[c] EXCEPT !.active = FALSE]]
    /\ UNCHANGED <<cKeys, cDefault, cJob, cChecked, cAcked, cLeft>>

CSetDefault(c) ==
    /\ cDefault # c
    /\ cDefault' = c
    /\ UNCHANGED <<cKeys, cRow, cJob, cChecked, cAcked, cLeft>>

------------------------------------------------------------------------------
(* AdapterRegistry.resolve *)

\* The tenant's default connector is read before its connectors are.
CResolveDefault(j) ==
    /\ cJob[j].at = "default"
    /\ cJob' = [cJob EXCEPT ![j].at = "load", ![j].named = cDefault]
    /\ UNCHANGED <<cKeys, cRow, cDefault, cChecked, cAcked, cLeft>>

\* MUTANT of CCandidates: the connector the tenant names is taken as it is.
CCandidates_NamedAnyway(rows, named) ==
    LET active == {c \in CIds : rows[c].exists /\ rows[c].active}
    IN  CAdapters \cap (IF named # CNone THEN {c \in {named} : rows[c].exists}
                        ELSE IF Cardinality(active) = 1 THEN active ELSE {})

\* findConnector over the loaded rows: the named connector if it is the
\* tenant's and active, else the only active one; none and several are
\* refused, and so is a type without an adapter.
CCandidates(rows, named) ==
    LET active == {c \in CIds : rows[c].exists /\ rows[c].active}
    IN  CAdapters \cap (IF named # CNone THEN {named} \cap active
                        ELSE IF Cardinality(active) = 1 THEN active ELSE {})

\* The chosen row is decrypted into the context of the adapter's call.
CSelect(j) ==
    LET job == cJob[j]
        chosen == CCandidates(job.copy, job.named)
    IN  /\ job.at = "select"
        /\ IF chosen = {} THEN CEnd(j)
           ELSE \E c \in chosen : CDecrypts(job.copy[c], job.pod)
                   /\ cJob' = [cJob EXCEPT ![j].at = "resolved", ![j].id = c]
        /\ UNCHANGED <<cKeys, cRow, cDefault, cChecked, cAcked, cLeft>>

\* The adapter's call with that context ends.
CCall(j) ==
    /\ cJob[j].at = "resolved"
    /\ CEnd(j)
    /\ UNCHANGED <<cKeys, cRow, cDefault, cChecked, cAcked, cLeft>>

CStep(j) ==
    \/ CLoad(j) \/ CLoaded(j) \/ CStore(j)
    \/ CResolveDefault(j) \/ CSelect(j) \/ CCall(j)
    \/ \E c \in CIds : CRotate(j, c)
    \/ \E safe \in CUrlSafe, answers \in BOOLEAN : CCheck(j, CHealthy(safe, answers))
    \/ \E referenced \in BOOLEAN : CDelete(j, referenced)

CNext ==
    \/ \E p \in CPods : CRestart(p)
    \/ \E j \in CJobs : CStep(j)
    \/ \E j \in CJobs, p \in CPods, kind \in CKinds, c \in CIds \cup {CNone},
          e \in CEndpoints \cup {CNone}, s \in CSecrets \cup {CNone} : CBegin(j, p, kind, c, e, s)
    \/ CDeactivateAll
    \/ \E c \in CIds \cup {CNone} : CSetDefault(c)

CSpec == CInit /\ [][CNext]_cVars

------------------------------------------------------------------------------
(* Properties *)

\* Rows, jobs and key versions have their shapes.
CRows == [exists : BOOLEAN, active : BOOLEAN, endpoint : CEndpoints \cup {CNone},
          secret : CSecrets \cup {CNone}, under : 1 .. 2, keyVersion : 1 .. 2]
CTypeOK ==
    /\ cKeys \in [CPods -> 1 .. 2]
    /\ cRow \in [CIds -> CRows]
    /\ cDefault \in CIds \cup {CNone}
    /\ \A j \in CJobs : /\ cJob[j].copy \in [CIds -> CRows] /\ cJob[j].todo \subseteq CIds
                        /\ cJob[j].at \in {"free", "load", "rotate", "check", "store", "delete",
                                          "default", "select", "resolved"}
    /\ cChecked \subseteq CEndpoints
    /\ cAcked \in [CIds -> CSecrets \cup {CNone}]

\* However updates, registrations and re-encryptions of pods with different
\* key files interleave, a stored ciphertext was made under the key version
\* its row names, and it holds a secret some request submitted: nothing
\* becomes unreadable once every pod has the newest key (lazyRotateKeyIfNeeded
\* and update write both columns in one statement).
CDecryptable ==
    \A c \in CIds : cRow[c].exists =>
        /\ cRow[c].under = cRow[c].keyVersion
        /\ cRow[c].secret # CNone

\* A connector's endpoint passed a connectivity check before it was stored,
\* by whichever of the concurrent requests that wrote the row (assertHealthy
\* in create and in both branches of update).
CEndpointChecked == \A c \in CIds : cRow[c].exists => cRow[c].endpoint \in cChecked

\* What is stored of a connector can be used: a secret that its key opens and an
\* endpoint that answered.
CStoredSound == CTypeOK /\ CDecryptable /\ CEndpointChecked

\* An operation runs against the tenant's default connector if one was set
\* when it started, otherwise against the only active one, and never against
\* one that was inactive when the connectors were loaded, also when the
\* default named it and was saved after the deactivation (resolve).
CResolvedUsable ==
    \A j \in CJobs : cJob[j].at = "resolved" =>
        LET job == cJob[j] IN
        /\ job.copy[job.id].active
        /\ job.named \in {CNone, job.id}
        /\ job.named = CNone => \A c \in CIds \ {job.id} : ~job.copy[c].active

\* Credentials that an acknowledged update stored stay stored until the next
\* update or the deletion of the connector.
CUpdateKept == \A c \in CIds : cRow[c].exists => cRow[c].secret = cAcked[c]
===============================================================================
