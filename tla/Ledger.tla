-------------------------------- MODULE Ledger --------------------------------
(***************************************************************************)
(* The SQLite ledger and the requests that use it: store.py and the        *)
(* pipeline of service.py that issues and verifies proofs.                 *)
(*                                                                         *)
(* The variable db is the committed content of the database.  A write      *)
(* transaction (Store._write: BEGIN IMMEDIATE ... COMMIT, ROLLBACK on any  *)
(* exception) is one action; every read made outside of one is an action   *)
(* of its own, so requests, the command line and the maintenance           *)
(* interleave between any two of them.  The time a handler samples before  *)
(* it waits for the write lock is a parameter "now" that may be late.      *)
(*                                                                         *)
(* Identities drawn from the system's random source (clients, credentials, *)
(* proofs) are fresh when drawn.  A proof or a secret is its identity, and *)
(* a binding stands for subject, purpose and audience.  The key that       *)
(* digests a secret, the audit rows and last_cleanup_at, which no          *)
(* decision reads, are left out.                                           *)
(***************************************************************************)
EXTENDS Quota

CONSTANTS
    Client, Credential, Proof,  \* identities that may be drawn
    Request,        \* requests, each sent at most once
    Key,            \* idempotency keys
    Binding,        \* subject, purpose and audience of a proof
    Allowed,        \* the bindings whose audience the client policy lists
    MaxTtl,         \* proof_ttl_seconds of the client policy
    Ttls,           \* the ttl_seconds a request may ask for
    Graces,         \* the grace_seconds a rotation may ask for
    IssueLimit, VerifyLimit,
    ProofRetention, VerificationRetention,
    MaxLag,         \* how late a time sampled before a transaction may be
    StepBack,       \* how far the host clock may be set back, 0 if never
    MaxTime,        \* bound on the clock
    Backups,        \* may backups be taken (the latest is kept)
    None

ASSUME AllowedAssumption == Allowed \subseteq Binding
ASSUME BoundAssumption ==
    /\ MaxTtl \in Nat \ {0}
    /\ Ttls \subseteq Nat
    /\ Graces \subseteq Nat
    /\ IssueLimit \in Nat \ {0}
    /\ VerifyLimit \in Nat \ {0}
    /\ ProofRetention \in Nat
    /\ VerificationRetention \in Nat
    /\ MaxLag \in Nat
    /\ StepBack \in Nat
    /\ MaxTime \in Nat
    /\ Backups \in BOOLEAN
\* No identity is the absent value, nor is any number.
ASSUME NoneAssumption ==
    None \notin Client \cup Credential \cup Proof \cup Request \cup Key \cup Binding \cup Nat
\* Nothing drawn as a proof can be drawn as something else.
ASSUME NameAssumption == Proof \cap (Client \cup Credential) = {}

VARIABLES
    clock,      \* the host clock, in seconds
    db,         \* the committed database
    backup,     \* the sealed snapshot written by "db backup", or None
    requests,   \* requests[r]: the request r and how far its handler is
    names,      \* history: the identities drawn so far
    accepted    \* history: <<proof, decision>> of every committed acceptance

vars == <<clock, db, backup, requests, names, accepted>>

-----------------------------------------------------------------------------
(* The tables *)

Role == {"issuance", "verification"}
Operation == {"issue", "verify"}

CredentialRow ==
    [client : Client, role : Role,
     status : {"current", "previous", "revoked"}, validUntil : Nat \cup {None}]

ProofRow ==
    [client : Client, credential : Credential, binding : Binding,
     issuedAt : Nat, expiresAt : Nat, consumedBy : Request \cup {None}]

Verdicts ==
    {"verified_once", "invalid", "already_consumed", "expired", "binding_mismatch"}

\* The verdict, the verification_id and the time of a recorded decision.
Decision == [verdict : Verdicts, id : Request, at : Nat]

VerificationRow ==
    [client : Client, proof : Proof \cup {None}, binding : Binding,
     key : Key \cup {None}, decision : Decision]

\* No row is the absent value.
ASSUME RowAssumption == None \notin CredentialRow \cup ProofRow \cup VerificationRow

RateRow ==
    [id : Request, client : Client, operation : Operation, at : Nat]

Database ==
    [clients : [Client -> {"absent", "active", "revoked"}],
     credentials : [Credential -> CredentialRow \cup {None}],
     proofs : [Proof -> ProofRow \cup {None}],
     verifications : [Request -> VerificationRow \cup {None}],
     rateEvents : SUBSET RateRow,
     restoreRequired : BOOLEAN]

EmptyDatabase ==
    [clients |-> [c \in Client |-> "absent"],
     credentials |-> [k \in Credential |-> None],
     proofs |-> [p \in Proof |-> None],
     verifications |-> [r \in Request |-> None],
     rateEvents |-> {},
     restoreRequired |-> FALSE]

\* _credential_is_accepted, on a row
Accepts(row, now) ==
    \/ row.status = "current"
    \/ row.status = "previous" /\ now < row.validUntil

\* What _authenticate asks of the secret's row; the client is not read.
Authentic(d, k, role, now) ==
    /\ d.credentials[k] # None
    /\ d.credentials[k].role = role
    /\ Accepts(d.credentials[k], now)

\* What every transaction asks again of credential and client.
Authority(d, k, c, role, now) ==
    /\ Authentic(d, k, role, now)
    /\ d.credentials[k].client = c
    /\ d.clients[c] = "active"

Metered(d, c, operation) ==
    {e \in d.rateEvents : e.client = c /\ e.operation = operation}

LimitOf(operation) == IF operation = "issue" THEN IssueLimit ELSE VerifyLimit

\* _consume_rate_slot when there is a slot
TakeSlot(d, r, c, operation, now) ==
    [d EXCEPT !.rateEvents = Unexpired(@, now) \cup
        {[id |-> r, client |-> c, operation |-> operation, at |-> now]}]

-----------------------------------------------------------------------------
(* Requests *)

Receipt == [proof : Proof, issuedAt : Nat, expiresAt : Nat]

InFlight == {"authenticate", "policy", "lookup", "recall", "commit", "reply"}

RequestState ==
    [step : InFlight \cup {"idle", "done", "lost"},
     operation : Operation \cup {None},
     credential : Credential \cup {None},    \* None: a secret never issued
     client : Client \cup {None},            \* found by _authenticate
     proof : Proof \cup {None},              \* None: a proof never issued
     binding : Binding \cup {None},
     key : Key \cup {None},
     ttl : Nat,
     at : Nat,                               \* sampled on arrival
     slotAt : Nat \cup {None},               \* history: the slot it took
     receipt : Receipt \cup {None},          \* the answer to an issue
     decision : Decision \cup {None}]        \* the answer to a verify

Idle ==
    [step |-> "idle", operation |-> None, credential |-> None, client |-> None,
     proof |-> None, binding |-> None, key |-> None, ttl |-> 0, at |-> 0,
     slotAt |-> None, receipt |-> None, decision |-> None]

TypeOK ==
    /\ clock \in Nat
    /\ db \in Database
    /\ backup \in Database \cup {None}
    /\ requests \in [Request -> RequestState]
    /\ names \in SUBSET (Client \cup Credential \cup Proof)
    /\ accepted \in SUBSET (Proof \X Request)

Init ==
    /\ clock = 0
    /\ db = EmptyDatabase
    /\ backup = None
    /\ requests = [r \in Request |-> Idle]
    /\ names = {}
    /\ accepted = {}

Goto(r, step) == requests' = [requests EXCEPT ![r].step = step]

\* What only the handler knew is gone when it answers.
Answered(q) ==
    [q EXCEPT !.step = "reply", !.credential = None, !.ttl = 0, !.at = 0]

Decided(q, decision) == [Answered(q) EXCEPT !.decision = decision]

\* An answer that is no receipt and no decision: an error response.
Refuse(r) == requests' = [requests EXCEPT ![r] = [Idle EXCEPT !.step = "reply"]]

At(r, operation, step) ==
    requests[r].operation = operation /\ requests[r].step = step

-----------------------------------------------------------------------------
(* Arrival and authentication: service.py, before any transaction *)

SendIssue(r) ==
    /\ requests[r].step = "idle"
    /\ \E k \in (names \cap Credential) \cup {None},
         b \in Binding, ttl \in Ttls :
           requests' = [requests EXCEPT ![r] =
               [Idle EXCEPT !.step = "authenticate", !.operation = "issue",
                   !.credential = k, !.binding = b, !.ttl = ttl, !.at = clock]]
    /\ UNCHANGED <<clock, db, backup, names, accepted>>

SendVerify(r) ==
    /\ requests[r].step = "idle"
    /\ \E k \in (names \cap Credential) \cup {None},
         p \in (names \cap Proof) \cup {None},
         b \in Binding, key \in Key \cup {None} :
           requests' = [requests EXCEPT ![r] =
               [Idle EXCEPT !.step = "authenticate", !.operation = "verify",
                   !.credential = k, !.proof = p, !.binding = b, !.key = key,
                   !.at = clock]]
    /\ UNCHANGED <<clock, db, backup, names, accepted>>

RoleFor(operation) ==
    IF operation = "issue" THEN "issuance" ELSE "verification"

\* issue_proof holds _key_lock from here to the end of its transaction.
KeyLockFree ==
    ~\E r \in Request : /\ requests[r].operation = "issue"
                        /\ requests[r].step \in {"policy", "commit"}

\* The secret's row is judged by the time sampled on arrival.
Authenticate(r) ==
    LET q == requests[r]
        next == CASE q.operation = "issue" -> "policy"
                  [] q.operation = "verify" /\ q.key # None -> "lookup"
                  [] OTHER -> "commit"
        authentic == /\ q.credential # None
                     /\ Authentic(db, q.credential, RoleFor(q.operation), q.at)
    IN  /\ q.step = "authenticate"
        /\ q.operation = "issue" => KeyLockFree
        /\ \/ /\ authentic
              /\ requests' = [requests EXCEPT ![r].step = next,
                     ![r].client = db.credentials[q.credential].client]
           \/ /\ ~authentic
              /\ Refuse(r)             \* credential_rejected
        /\ UNCHANGED <<clock, db, backup, names, accepted>>

\* issue_proof reads the client in a second snapshot.
CheckPolicy(r) ==
    LET q == requests[r]
        permitted == /\ db.clients[q.client] = "active"
                     /\ q.binding \in Allowed
                     /\ q.ttl \in 1..MaxTtl
    IN  /\ q.step = "policy"
        /\ \/ permitted /\ Goto(r, "commit")
           \/ ~permitted /\ Refuse(r)
        /\ UNCHANGED <<clock, db, backup, names, accepted>>

-----------------------------------------------------------------------------
(* Store.issue_proof: one transaction, which reads the clock inside *)

MayIssue(d, q, now) ==
    /\ ~d.restoreRequired
    /\ Authority(d, q.credential, q.client, "issuance", now)

IssueRow(q, now) ==
    [client |-> q.client, credential |-> q.credential, binding |-> q.binding,
     issuedAt |-> now, expiresAt |-> now + q.ttl, consumedBy |-> None]

IssueProof(r) ==
    LET q == requests[r] IN
    /\ At(r, "issue", "commit")
    /\ MayIssue(db, q, clock)
    /\ HasSlot(Metered(db, q.client, "issue"), IssueLimit, clock)
    /\ \E p \in Proof \ names :
         /\ db' = [TakeSlot(db, r, q.client, "issue", clock)
                      EXCEPT !.proofs[p] = IssueRow(q, clock)]
         /\ names' = names \cup {p}
         /\ requests' = [requests EXCEPT ![r] = [Answered(@) EXCEPT
                !.slotAt = clock,
                !.receipt = [proof |-> p, issuedAt |-> clock,
                             expiresAt |-> clock + q.ttl]]]
    /\ UNCHANGED <<clock, backup, accepted>>

\* restore_required, credential_rejected or rate_limited
RefuseIssue(r) ==
    LET q == requests[r] IN
    /\ At(r, "issue", "commit")
    /\ \/ ~MayIssue(db, q, clock)
       \/ ~HasSlot(Metered(db, q.client, "issue"), IssueLimit, clock)
    /\ Refuse(r)
    /\ UNCHANGED <<clock, db, backup, names, accepted>>

-----------------------------------------------------------------------------
(* Idempotency: Store.cached_verification and _idempotent_result *)

\* Faulty form, for the mutant runs: only an acceptance is found again.
KeyRowsAccepted(d, c, key) ==
    {v \in Request : /\ key # None
                     /\ d.verifications[v] # None
                     /\ d.verifications[v].client = c
                     /\ d.verifications[v].key = key
                     /\ d.verifications[v].decision.verdict = "verified_once"}

\* The row the unique index verification_idempotency finds, if any.
KeyRows(d, c, key) ==
    {v \in Request : /\ key # None
                     /\ d.verifications[v] # None
                     /\ d.verifications[v].client = c
                     /\ d.verifications[v].key = key}

\* Faulty form, for the mutant runs: the proof is left out.
FingerprintOfBinding(row, q) == row.binding = q.binding

\* request_fingerprint covers the proof and its binding, not the client.
SameFingerprint(row, q) == row.proof = q.proof /\ row.binding = q.binding

AnswerFromRow(r, v) ==
    \/ /\ SameFingerprint(db.verifications[v], requests[r])
       /\ requests' = [requests EXCEPT ![r] =
              Decided(@, db.verifications[v].decision)]
    \/ /\ ~SameFingerprint(db.verifications[v], requests[r])
       /\ Refuse(r)                    \* idempotency_conflict

\* cached_verification's first two reads: the seal, then the credential.
Lookup(r) ==
    LET q == requests[r]
        trusted == Authority(db, q.credential, q.client, "verification", clock)
    IN  /\ q.step = "lookup"
        /\ \/ db.restoreRequired /\ Refuse(r)
           \/ ~db.restoreRequired /\ trusted /\ Goto(r, "recall")
           \/ ~db.restoreRequired /\ ~trusted /\ Goto(r, "commit")
        /\ UNCHANGED <<clock, db, backup, names, accepted>>

\* Its last read, in a later snapshot: the row of the key.
Recall(r) ==
    LET q == requests[r]
        found == KeyRows(db, q.client, q.key)
    IN  /\ q.step = "recall"
        /\ \/ found = {} /\ Goto(r, "commit")
           \/ \E v \in found : AnswerFromRow(r, v)
        /\ UNCHANGED <<clock, db, backup, names, accepted>>

-----------------------------------------------------------------------------
(* Store.consume_proof: one transaction, which reads the clock inside *)

MayVerify(d, q, now) ==
    /\ ~d.restoreRequired
    /\ Authority(d, q.credential, q.client, "verification", now)

Found(d, p, c) ==
    p # None /\ d.proofs[p] # None /\ d.proofs[p].client = c

\* Faulty forms, for the mutant runs: consumed_at is not looked at, and a
\* proof still works in the second in which it expires.
VerdictWithoutConsumed(d, p, c, b, now) ==
    IF ~Found(d, p, c) THEN "invalid"
    ELSE IF now >= d.proofs[p].expiresAt THEN "expired"
    ELSE IF d.proofs[p].binding # b THEN "binding_mismatch"
    ELSE "verified_once"

VerdictPastExpiry(d, p, c, b, now) ==
    IF ~Found(d, p, c) THEN "invalid"
    ELSE IF d.proofs[p].consumedBy # None THEN "already_consumed"
    ELSE IF now > d.proofs[p].expiresAt THEN "expired"
    ELSE IF d.proofs[p].binding # b THEN "binding_mismatch"
    ELSE "verified_once"

\* The order of the checks is the order of the reasons.
Verdict(d, p, c, b, now) ==
    IF ~Found(d, p, c) THEN "invalid"
    ELSE IF d.proofs[p].consumedBy # None THEN "already_consumed"
    ELSE IF now >= d.proofs[p].expiresAt THEN "expired"
    ELSE IF d.proofs[p].binding # b THEN "binding_mismatch"
    ELSE "verified_once"

VerificationRowOf(q, decision) ==
    [client |-> q.client, proof |-> q.proof, binding |-> q.binding,
     key |-> q.key, decision |-> decision]

\* Faulty form, for the mutant runs: the UPDATE is lost.
ConsumeNothing(d, verdict, p, r) == d

Consume(d, verdict, p, r) ==
    IF verdict = "verified_once"
    THEN [d EXCEPT !.proofs[p].consumedBy = r]
    ELSE d

\* A decision on the merits: slot, verdict, consumption and result commit
\* together.
Judge(r) ==
    LET q == requests[r]
        verdict == Verdict(db, q.proof, q.client, q.binding, clock)
        decision == [verdict |-> verdict, id |-> r, at |-> clock]
        slotted == TakeSlot(db, r, q.client, "verify", clock)
    IN  /\ At(r, "verify", "commit")
        /\ MayVerify(db, q, clock)
        /\ KeyRows(db, q.client, q.key) = {}
        /\ HasSlot(Metered(db, q.client, "verify"), VerifyLimit, clock)
        /\ db' = [Consume(slotted, verdict, q.proof, r) EXCEPT
                      !.verifications[r] = VerificationRowOf(q, decision)]
        /\ requests' = [requests EXCEPT ![r] =
               [Decided(@, decision) EXCEPT !.slotAt = clock]]
        /\ accepted' = IF verdict = "verified_once"
                       THEN accepted \cup {<<q.proof, r>>}
                       ELSE accepted
        /\ UNCHANGED <<clock, backup, names>>

\* The ways the transaction ends without a decision on the merits.
EndVerify(r) ==
    LET q == requests[r]
        found == KeyRows(db, q.client, q.key)
    IN  /\ At(r, "verify", "commit")
        /\ \/ ~MayVerify(db, q, clock) /\ Refuse(r)
           \/ /\ MayVerify(db, q, clock)
              /\ \E v \in found : AnswerFromRow(r, v)
           \/ /\ MayVerify(db, q, clock)
              /\ found = {}
              /\ ~HasSlot(Metered(db, q.client, "verify"), VerifyLimit, clock)
              /\ Refuse(r)             \* rate_limited
        /\ UNCHANGED <<clock, db, backup, names, accepted>>

-----------------------------------------------------------------------------
(* The ends of a request *)

Reply(r) ==
    /\ requests[r].step = "reply"
    /\ Goto(r, "done")
    /\ UNCHANGED <<clock, db, backup, names, accepted>>

\* SQLite refuses or times out: nothing of the transaction remains.
StoreFails(r) ==
    /\ requests[r].step \in InFlight \ {"reply"}
    /\ Refuse(r)
    /\ UNCHANGED <<clock, db, backup, names, accepted>>

\* The server dies: what was committed stays, no answer leaves.
Lost(q) ==
    CASE q.step \notin InFlight -> q
      [] q.step = "reply" -> [q EXCEPT !.step = "lost"]
      [] OTHER -> [Idle EXCEPT !.step = "lost"]

Crash ==
    /\ \E r \in Request : requests[r].step \in InFlight
    /\ requests' = [r \in Request |-> Lost(requests[r])]
    /\ UNCHANGED <<clock, db, backup, names, accepted>>

-----------------------------------------------------------------------------
(* Administration: each has a time sampled before its transaction *)

\* Not older than MaxLag, and ahead by what one step back of the clock explains:
\* several of them between the sample and the transaction are left out.
Sampled ==
    {t \in 0..MaxTime : clock - t <= MaxLag /\ t - clock <= StepBack}

NewCredential(c, role) ==
    [client |-> c, role |-> role, status |-> "current", validUntil |-> None]

CreateClient(c, i, v) ==
    /\ ~db.restoreRequired
    /\ c \notin names /\ i \notin names /\ v \notin names /\ i # v
    /\ db' = [db EXCEPT
           !.clients[c] = "active",
           !.credentials[i] = NewCredential(c, "issuance"),
           !.credentials[v] = NewCredential(c, "verification")]
    /\ names' = names \cup {c, i, v}
    /\ UNCHANGED <<clock, backup, requests, accepted>>

Demote(row, grace, now) ==
    [row EXCEPT !.status = "previous", !.validUntil = now + grace]

\* Only the current credential is demoted; older ones keep their own end.
RotateCredential(c, role, new, grace, now) ==
    /\ ~db.restoreRequired
    /\ db.clients[c] = "active"
    /\ new \notin names
    /\ \E k \in Credential :
         /\ db.credentials[k] # None
         /\ db.credentials[k].client = c
         /\ db.credentials[k].role = role
         /\ db.credentials[k].status = "current"
         /\ db' = [db EXCEPT
                !.credentials[k] = Demote(@, grace, now),
                !.credentials[new] = NewCredential(c, role)]
    /\ names' = names \cup {new}
    /\ UNCHANGED <<clock, backup, requests, accepted>>

RevokeRow(row, now) ==
    [row EXCEPT !.status = "revoked", !.validUntil = now]

\* Faulty form, for the mutant runs: a second too short.
CutBefore(row, now) ==
    [row EXCEPT !.expiresAt = IF @ < now THEN @ ELSE now - 1]

\* CASE WHEN expires_at < now THEN expires_at ELSE now
CutShort(row, now) ==
    [row EXCEPT !.expiresAt = IF @ < now THEN @ ELSE now]

RevokeClient(c, now) ==
    /\ ~db.restoreRequired
    /\ db.clients[c] = "active"
    /\ db' = [db EXCEPT
           !.clients[c] = "revoked",
           !.credentials = [k \in Credential |->
               IF @[k] # None /\ @[k].client = c /\ @[k].status # "revoked"
               THEN RevokeRow(@[k], now) ELSE @[k]],
           !.proofs = [p \in Proof |->
               IF @[p] # None /\ @[p].client = c /\ @[p].consumedBy = None
               THEN CutShort(@[p], now) ELSE @[p]]]
    /\ UNCHANGED <<clock, backup, requests, names, accepted>>

\* Faulty forms, for the mutant runs: rows deleted a second early.
ProofIsStaleEarly(row, now) == row.expiresAt <= now - ProofRetention

VerificationIsStaleEarly(row, now) ==
    row.decision.at <= now - VerificationRetention

ProofIsStale(row, now) == row.expiresAt < now - ProofRetention

VerificationIsStale(row, now) == row.decision.at < now - VerificationRetention

\* Faulty forms, for the mutant runs: proofs may still refer to the row,
\* and the grace is not waited for.
CredentialIsDeadAlone(k, row, proofs, now) ==
    row.status # "current" /\ row.validUntil < now

CredentialIsDeadAtOnce(k, row, proofs, now) ==
    /\ row.status # "current"
    /\ \A p \in Proof : proofs[p] # None => proofs[p].credential # k

\* proofs: the rows left, which keep their issuing credential.
CredentialIsDead(k, row, proofs, now) ==
    /\ row.status # "current"
    /\ row.validUntil < now
    /\ \A p \in Proof : proofs[p] # None => proofs[p].credential # k

\* Not gated by the seal.
Cleanup(now) ==
    LET kept == [p \in Proof |->
                    IF db.proofs[p] # None /\ ProofIsStale(db.proofs[p], now)
                    THEN None ELSE db.proofs[p]]
    IN  /\ db' = [db EXCEPT
               !.proofs = kept,
               !.credentials = [k \in Credential |->
                   IF @[k] # None /\ CredentialIsDead(k, @[k], kept, now)
                   THEN None ELSE @[k]],
               !.verifications = [r \in Request |->
                   IF @[r] # None /\ VerificationIsStale(@[r], now)
                   THEN None ELSE @[r]],
               !.rateEvents = Unexpired(@, now)]
        /\ UNCHANGED <<clock, backup, requests, names, accepted>>

-----------------------------------------------------------------------------
(* Backup, restore and the host clock *)

\* Faulty form, for the mutant runs: the copy is not sealed.
Unsealed(d) == d

Sealed(d) == [d EXCEPT !.restoreRequired = TRUE]

\* Store.backup copies one read snapshot and seals the copy, whatever it was:
\* the ledger may itself be a restored one, activated or not yet.
TakeBackup ==
    /\ Backups
    /\ backup' = Sealed(db)
    /\ UNCHANGED <<clock, db, requests, names, accepted>>

Quiet == \A r \in Request : requests[r].step \notin InFlight

\* The operator's restore: the server is stopped, the file is copied back.
RestoreBackup ==
    /\ backup # None
    /\ Quiet
    /\ db' = backup
    /\ UNCHANGED <<clock, backup, requests, names, accepted>>

\* Faulty form, for the mutant runs: activation leaves the clients alone.
KeptStatus(status) == status

ActivatedStatus(status) == IF status = "absent" THEN "absent" ELSE "revoked"

\* Store.activate_restored_backup; the command holds the instance lock.
ActivateRestore(now) ==
    /\ db.restoreRequired
    /\ Quiet
    /\ db' = [db EXCEPT
           !.clients = [c \in Client |-> ActivatedStatus(@[c])],
           !.credentials = [k \in Credential |->
               IF @[k] # None THEN RevokeRow(@[k], now) ELSE None],
           !.proofs = [p \in Proof |->
               IF @[p] # None /\ @[p].consumedBy = None
               THEN CutShort(@[p], now) ELSE @[p]],
           !.rateEvents = {},
           !.restoreRequired = FALSE]
    /\ UNCHANGED <<clock, backup, requests, names, accepted>>

Tick ==
    /\ clock < MaxTime
    /\ clock' = clock + 1
    /\ UNCHANGED <<db, backup, requests, names, accepted>>

ClockStepsBack ==
    /\ \E back \in 1..StepBack : back <= clock /\ clock' = clock - back
    /\ UNCHANGED <<db, backup, requests, names, accepted>>

-----------------------------------------------------------------------------

Handle(r) ==
    \/ Authenticate(r) \/ CheckPolicy(r)
    \/ IssueProof(r) \/ RefuseIssue(r)
    \/ Lookup(r) \/ Recall(r)
    \/ Judge(r) \/ EndVerify(r)
    \/ Reply(r) \/ StoreFails(r)

Administer ==
    \/ \E c \in Client, i, v \in Credential : CreateClient(c, i, v)
    \/ \E now \in Sampled :
         \/ \E c \in Client, role \in Role, new \in Credential, g \in Graces :
              RotateCredential(c, role, new, g, now)
         \/ \E c \in Client : RevokeClient(c, now)
         \/ Cleanup(now)
         \/ ActivateRestore(now)
    \/ TakeBackup
    \/ RestoreBackup

Next ==
    \/ \E r \in Request : SendIssue(r) \/ SendVerify(r) \/ Handle(r)
    \/ Crash
    \/ Administer
    \/ Tick
    \/ ClockStepsBack

Spec == Init /\ [][Next]_vars
-----------------------------------------------------------------------------
(* Correctness *)

(* No proof is ever accepted by two decisions, whatever mixture of retries, *)
(* concurrent verifications, deletions, revocations, crashes, restores of   *)
(* an older backup and clock changes lies between (store.py 676-714,        *)
(* 1094-1126).                                                              *)
AtMostOneWitness ==
    \A a, b \in accepted : a[1] = b[1] => a = b

Receipts == {r \in Request : requests[r].receipt # None}

\* The requests told a decision on the merits of the proof they sent.
Judged == {r \in Request : requests[r].decision # None}

(* Two different decisions under one idempotency key of one client lie more *)
(* than the retention apart: within it, a retry, concurrent or later, gets  *)
(* the first decision or a conflict, cleanups that run late included        *)
(* (store.py 644-651, 876-879, 1057-1092).                                  *)
KeyDecisionsApart ==
    \A r, s \in Judged :
        LET a == requests[r].decision
            b == requests[s].decision
        IN  /\ requests[r].client = requests[s].client
            /\ requests[r].key = requests[s].key
            /\ requests[r].key # None
            /\ a.id # b.id
            /\ a.at <= b.at
            => b.at - a.at > VerificationRetention

(* What a receipt says is what verification does: a proof is accepted only  *)
(* for its client and binding before its expiry, called expired only from   *)
(* the second on which the receipt says so, called mismatched only for      *)
(* another binding and called consumed only after an acceptance. Unless the *)
(* clock is set back, it is not accepted before it is issued and forgotten  *)
(* only after the retention (store.py 662-714, 860-863).                    *)
ReceiptHonoured ==
    \A i \in Receipts, v \in Judged :
        LET receipt == requests[i].receipt
            decision == requests[v].decision
            sameClient == requests[i].client = requests[v].client
            sameBinding == requests[i].binding = requests[v].binding
        IN  requests[v].proof = receipt.proof =>
            CASE decision.verdict = "verified_once" ->
                     /\ sameClient /\ sameBinding
                     /\ decision.at < receipt.expiresAt
                     /\ StepBack = 0 => receipt.issuedAt <= decision.at
              [] decision.verdict = "expired" ->
                     sameClient /\ decision.at >= receipt.expiresAt
              [] decision.verdict = "binding_mismatch" ->
                     sameClient /\ ~sameBinding
              [] decision.verdict = "already_consumed" ->
                     \E r \in Request : <<receipt.proof, r>> \in accepted
              [] decision.verdict = "invalid" ->
                     \/ ~sameClient
                     \/ StepBack > 0
                     \/ decision.at > receipt.expiresAt + ProofRetention

(* No window of the past holds more issued proofs, or more decisions, of a  *)
(* client than its limit: a restore deletes rate_events but gives nobody a  *)
(* second allowance (store.py 1117, 1159-1188).                             *)
QuotaRespected ==
    \A c \in Client, operation \in Operation, t \in 0..clock :
        Cardinality({r \in Request :
            /\ requests[r].slotAt # None
            /\ requests[r].client = c
            /\ requests[r].operation = operation
            /\ t - Window < requests[r].slotAt
            /\ requests[r].slotAt <= t}) <= LimitOf(operation)

(* No statement ever meets a constraint of the schema: the foreign keys of  *)
(* proofs and credentials hold after every deletion, and an active client   *)
(* has exactly one current credential per role, and a client one decision   *)
(* on file per idempotency key (store.py 221-283, 860-875). A trip would    *)
(* fail the whole transaction, a cleanup or a retry for ever.               *)
SchemaNeverTrips ==
    /\ \A p \in Proof : db.proofs[p] # None =>
           /\ db.credentials[db.proofs[p].credential] # None
           /\ db.clients[db.proofs[p].client] # "absent"
    /\ \A k \in Credential : db.credentials[k] # None =>
           db.clients[db.credentials[k].client] # "absent"
    /\ \A c \in Client, role \in Role : db.clients[c] = "active" =>
           \E k \in Credential : \A j \in Credential :
               (/\ db.credentials[j] # None
                /\ db.credentials[j].client = c
                /\ db.credentials[j].role = role
                /\ db.credentials[j].status = "current") <=> j = k
    /\ \A v, w \in Request :
           /\ db.verifications[v] # None /\ db.verifications[w] # None
           /\ db.verifications[v].client = db.verifications[w].client
           /\ db.verifications[v].key = db.verifications[w].key
           /\ db.verifications[v].key # None
           => v = w

Serves(c) == ~db.restoreRequired /\ db.clients[c] = "active"

Works(k) ==
    /\ db.credentials[k] # None
    /\ Serves(db.credentials[k].client)
    /\ Accepts(db.credentials[k], clock)

(* Authority that is gone stays gone: a client or credential that is not    *)
(* accepted now is accepted later only if it is new, so neither a restore,  *)
(* its activation nor a rotation revives one (store.py 811-849, 1094-1126). *)
(* A clock set back gives a demoted credential its time again, no client.   *)
AuthorityNeverReturns ==
    [][ /\ \A c \in Client : Serves(c)' => Serves(c) \/ c \notin names
        /\ clock <= clock' =>
               \A k \in Credential : Works(k)' => Works(k) \/ k \notin names ]_vars

(* A demoted credential works to the end of the grace it was given: neither *)
(* another rotation nor a cleanup ends it early while its client serves     *)
(* (store.py 745-809, 864-875). A cleanup may have its time from before the *)
(* clock was set back, so the last StepBack seconds are not promised.       *)
GraceKept ==
    [][ \A k \in Credential, c \in Client :
          /\ Works(k)
          /\ db.credentials[k].client = c
          /\ db.credentials[k].status = "previous"
          /\ clock' + StepBack < db.credentials[k].validUntil
          /\ Serves(c)'
          => Works(k)' ]_vars

(* docs/OPERATIONS.md:147, "For one leaked role, rotate that role with zero *)
(* grace": after that rotation only the new credential of the role works    *)
(* (store.py 777-784).                                                      *)
ZeroGraceEndsLeak ==
    [][ \A c \in Client, role \in Role, new \in Credential, now \in Sampled :
          RotateCredential(c, role, new, 0, now) =>
              \A k \in Credential \ {new} :
                  ~(/\ db'.credentials[k] # None
                    /\ db'.credentials[k].client = c
                    /\ db'.credentials[k].role = role
                    /\ Accepts(db'.credentials[k], clock)) ]_vars

-----------------------------------------------------------------------------
(* The promise to the parties *)

AcceptedBy(p) == {r \in Request : <<p, r>> \in accepted}

Statement(says, p, r) == [says |-> says, proof |-> p, by |-> r]

Says(q) ==
    IF q.receipt # None THEN Statement("issued", q.receipt.proof, None)
    ELSE IF q.decision = None THEN Statement("refused", None, None)
    ELSE CASE q.decision.verdict = "verified_once" ->
                 Statement("verified_once", q.proof, q.decision.id)
           [] q.decision.verdict = "already_consumed" ->
                 Statement("already_consumed", q.proof, None)
           [] OTHER -> Statement("refused", None, None)

Life ==
    [p \in Proof |->
        IF AcceptedBy(p) # {} THEN "verified_once"
        ELSE IF p \in names THEN "issued" ELSE "absent"]

OneOf(deciders) ==
    IF deciders # {} THEN CHOOSE r \in deciders : TRUE ELSE None

Witness == [p \in Proof |-> OneOf(AcceptedBy(p))]

Told ==
    [r \in Request |->
        IF requests[r].step = "done" THEN Says(requests[r]) ELSE None]

Promise == INSTANCE OneTimeProof WITH life <- Life, witness <- Witness, told <- Told

(* Every answer that leaves the system is true of the proof's one history:  *)
(* the ledger implements OneTimeProof.                                      *)
PromiseKept == Promise!Spec
=============================================================================
