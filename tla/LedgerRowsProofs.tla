--------------------------- MODULE LedgerRowsProofs ---------------------------
(***************************************************************************)
(* What the rows of clients, credentials and proofs always satisfy, in the *)
(* ledger and in its backup, and what follows: every stored result can be  *)
(* read back, authority that is gone stays gone, and a grace lasts as long *)
(* as it was said to.                                                      *)
(***************************************************************************)
EXTENDS LedgerProofs, StoredResult

-----------------------------------------------------------------------------
(* The inductive invariant *)

CurrentOf(d, c, role, k) ==
    /\ d.credentials[k] # None
    /\ d.credentials[k].client = c
    /\ d.credentials[k].role = role
    /\ d.credentials[k].status = "current"

\* The foreign keys.
Referenced(d) ==
    /\ \A p \in Proof : d.proofs[p] # None =>
           /\ d.credentials[d.proofs[p].credential] # None
           /\ d.clients[d.proofs[p].client] # "absent"
    /\ \A k \in Credential : d.credentials[k] # None =>
           d.clients[d.credentials[k].client] # "absent"

\* The unique index of the current credentials, and that there is one.
Staffed(d) ==
    \A c \in Client, role \in Role : d.clients[c] = "active" =>
        \E k \in Credential : \A j \in Credential : CurrentOf(d, c, role, j) <=> j = k

\* A credential that is no longer current has an end.
Dated(d, drawn) ==
    \A k \in Credential : d.credentials[k] # None =>
        /\ k \in drawn
        /\ d.credentials[k].status # "current" => d.credentials[k].validUntil \in Nat

\* Only the proofs of revoked clients are cut short.
Lasting(d) ==
    \A p \in Proof : d.proofs[p] # None /\ d.clients[d.proofs[p].client] = "active" =>
        d.proofs[p].issuedAt < d.proofs[p].expiresAt

Firm(d, drawn) == Referenced(d) /\ Staffed(d) /\ Dated(d, drawn) /\ Lasting(d)

\* A transaction that issues was given a lifetime of a second at least.
ReadyIf(q) ==
    /\ q.step \in {"lookup", "recall"} => q.operation = "verify"
    /\ q.operation = "issue" /\ q.step = "commit" => q.ttl \in Nat \ {0}

Prepared == \A r \in Request : ReadyIf(requests[r])

RInv ==
    /\ IInv
    /\ Firm(db, names)
    /\ backup # None => Firm(backup, names)
    /\ Prepared

LEMMA InitFirm == Init => RInv
<1> SUFFICES ASSUME Init PROVE RInv
  OBVIOUS
<1>1. Firm(db, names) /\ backup = None
  BY DEF Init, EmptyDatabase, Firm, Referenced, Staffed, Dated, Lasting
<1>2. Prepared
  BY DEF Init, Idle, Prepared, ReadyIf
<1> QED
  BY <1>1, <1>2, InitEstablishes DEF RInv

LEMMA FirmGrows ==
    ASSUME NEW d, NEW N, NEW M, N \subseteq M, Firm(d, N)
    PROVE  Firm(d, M)
BY DEF Firm, Dated

-----------------------------------------------------------------------------
(* Requests *)

LEMMA OneRequestPrepared ==
    ASSUME TypeOK, Prepared, NEW r \in Request, NEW q,
           requests' = [requests EXCEPT ![r] = q], ReadyIf(q)
    PROVE  Prepared'
BY DEF TypeOK, Prepared

LEMMA HandlerPrepared ==
    ASSUME RInv, NEW r \in Request,
           SendIssue(r) \/ SendVerify(r) \/ Authenticate(r) \/ CheckPolicy(r)
              \/ RefuseIssue(r) \/ Lookup(r) \/ Recall(r) \/ EndVerify(r)
              \/ Reply(r) \/ StoreFails(r)
    PROVE  Prepared'
<1>1. /\ TypeOK /\ Prepared /\ requests[r] \in RequestState /\ ReadyIf(requests[r])
      /\ db \in Database
  BY DEF RInv, IInv, TypeOK, Prepared
<1>2. ASSUME Refuse(r) PROVE Prepared'
  <2>1. ReadyIf([Idle EXCEPT !.step = "reply"])
    BY DEF Idle, ReadyIf
  <2> QED
    BY <1>1, <1>2, <2>1, OneRequestPrepared DEF Refuse
<1>3. ASSUME NEW step, Goto(r, step), ReadyIf([requests[r] EXCEPT !.step = step])
      PROVE  Prepared'
  BY <1>1, <1>3, OneRequestPrepared DEF Goto
<1>4. ASSUME NEW v \in Request, db.verifications[v] # None, AnswerFromRow(r, v)
      PROVE  Prepared'
  <2>1. ReadyIf(Decided(requests[r], db.verifications[v].decision))
    BY <1>1 DEF Decided, Answered, RequestState, ReadyIf
  <2> QED
    BY <1>1, <1>2, <1>4, <2>1, OneRequestPrepared DEF AnswerFromRow
<1>5. CASE SendIssue(r) \/ SendVerify(r)
  <2>1. PICK q \in RequestState : /\ requests' = [requests EXCEPT ![r] = q]
                                  /\ q.step = "authenticate"
    BY <1>1, <1>5, SentRecord
  <2> QED
    BY <1>1, <2>1, OneRequestPrepared DEF ReadyIf
<1>6. CASE Authenticate(r)
  <2>1. CASE Refuse(r)
    BY <1>2, <2>1
  <2>2. CASE ~Refuse(r)
    <3>1. PICK step \in {"policy", "lookup", "commit"} :
             /\ requests' = [requests EXCEPT ![r].step = step,
                      ![r].client = db.credentials[requests[r].credential].client]
             /\ requests[r].operation = "issue" => step = "policy"
             /\ step = "lookup" => requests[r].operation = "verify"
      BY <1>6, <2>2 DEF Authenticate
    <3> DEFINE q == [requests[r] EXCEPT !.step = step,
                         !.client = db.credentials[requests[r].credential].client]
    <3>2. requests' = [requests EXCEPT ![r] = q]
      BY <3>1
    <3>3. ReadyIf(q)
      BY <1>1, <3>1 DEF RequestState, ReadyIf
    <3> QED
      BY <1>1, <3>2, <3>3, OneRequestPrepared
  <2> QED
    BY <2>1, <2>2
<1>7. CASE CheckPolicy(r)
  <2>1. CASE Goto(r, "commit") /\ requests[r].ttl \in 1..MaxTtl
    <3>1. requests[r].ttl \in Nat \ {0}
      BY <2>1, BoundAssumption
    <3>2. ReadyIf([requests[r] EXCEPT !.step = "commit"])
      BY <1>1, <3>1 DEF RequestState, ReadyIf
    <3> QED
      BY <1>3, <2>1, <3>2
  <2> QED
    BY <1>2, <1>7, <2>1 DEF CheckPolicy
<1>8. CASE RefuseIssue(r)
  BY <1>2, <1>8 DEF RefuseIssue
<1>9. CASE Lookup(r)
  <2>1. /\ ReadyIf([requests[r] EXCEPT !.step = "recall"])
        /\ ReadyIf([requests[r] EXCEPT !.step = "commit"])
    BY <1>1, <1>9 DEF Lookup, RequestState, ReadyIf
  <2> QED
    BY <1>2, <1>3, <1>9, <2>1 DEF Lookup
<1>10. CASE Recall(r)
  <2>1. ReadyIf([requests[r] EXCEPT !.step = "commit"])
    BY <1>1, <1>10 DEF Recall, RequestState, ReadyIf
  <2> QED
    BY <1>3, <1>4, <1>10, <2>1 DEF Recall, KeyRows
<1>11. CASE EndVerify(r)
  BY <1>2, <1>4, <1>11 DEF EndVerify, KeyRows
<1>12. CASE Reply(r)
  <2>1. ReadyIf([requests[r] EXCEPT !.step = "done"])
    BY <1>1 DEF RequestState, ReadyIf
  <2> QED
    BY <1>3, <1>12, <2>1 DEF Reply
<1>13. CASE StoreFails(r)
  BY <1>2, <1>13 DEF StoreFails
<1> QED
  BY <1>5, <1>6, <1>7, <1>8, <1>9, <1>10, <1>11, <1>12, <1>13

LEMMA HandlerFirm ==
    ASSUME RInv, NEW r \in Request,
           SendIssue(r) \/ SendVerify(r) \/ Authenticate(r) \/ CheckPolicy(r)
              \/ RefuseIssue(r) \/ Lookup(r) \/ Recall(r) \/ EndVerify(r)
              \/ Reply(r) \/ StoreFails(r)
    PROVE  RInv' /\ UNCHANGED <<clock, db>>
<1>1. UNCHANGED <<clock, db, backup, names>>
  BY DEF SendIssue, SendVerify, Authenticate, CheckPolicy, RefuseIssue, Lookup, Recall,
         EndVerify, Reply, StoreFails
<1>2. IInv' /\ Prepared'
  BY HandlerPreserves, HandlerPrepared DEF RInv
<1> QED
  BY <1>1, <1>2 DEF RInv

LEMMA CrashFirm ==
    ASSUME RInv, Crash
    PROVE  RInv' /\ UNCHANGED <<clock, db>>
<1>1. IInv' /\ UNCHANGED <<clock, db, backup, names>>
  BY CrashPreserves DEF RInv, Crash
<1>2. Prepared'
  <2> SUFFICES ASSUME NEW r \in Request PROVE ReadyIf(Lost(requests[r]))
    BY DEF Crash, Prepared
  <2>1. requests[r] \in RequestState /\ ReadyIf(requests[r])
    BY DEF RInv, IInv, TypeOK, Prepared
  <2> QED
    BY <2>1 DEF Lost, Idle, ReadyIf, RequestState
<1> QED
  BY <1>1, <1>2 DEF RInv

-----------------------------------------------------------------------------
(* The two transactions of a request *)

(* They leave clients, credentials and the seal alone.                     *)
LEMMA TransactionKeeps ==
    ASSUME IInv, NEW r \in Request, IssueProof(r) \/ Judge(r)
    PROVE  /\ db'.clients = db.clients /\ db'.credentials = db.credentials
           /\ db'.restoreRequired = db.restoreRequired
           /\ UNCHANGED <<clock, backup>>
<1>1. db \in Database
  BY DEF IInv, TypeOK
<1>2. CASE IssueProof(r)
  <2>1. PICK p \in Proof : db' = [TakeSlot(db, r, requests[r].client, "issue", clock)
                                     EXCEPT !.proofs[p] = IssueRow(requests[r], clock)]
    BY <1>2, Zenon DEF IssueProof
  <2> QED
    BY <1>1, <1>2, <2>1 DEF TakeSlot, Database, IssueProof
<1>3. CASE Judge(r)
  <2> DEFINE verdict == Verdict(db, requests[r].proof, requests[r].client,
                                requests[r].binding, clock)
             slotted == TakeSlot(db, r, requests[r].client, "verify", clock)
             row == VerificationRowOf(requests[r],
                        [verdict |-> verdict, id |-> r, at |-> clock])
  <2>1. db' = [Consume(slotted, verdict, requests[r].proof, r) EXCEPT
                  !.verifications[r] = row]
    BY <1>3, Zenon DEF Judge
  <2>2. slotted = [db EXCEPT !.rateEvents = slotted.rateEvents]
    BY <1>1 DEF TakeSlot, Database
  <2>3. UNCHANGED <<clock, backup>>
    BY <1>3 DEF Judge
  <2> HIDE DEF verdict, slotted, row
  <2> QED
    BY <1>1, <2>1, <2>2, <2>3 DEF Consume, Database
<1> QED
  BY <1>2, <1>3

(* Any change of rows that keeps clients and credentials, and that gives   *)
(* each proof row a credential and a client that serve it.                 *)
LEMMA FirmByProofs ==
    ASSUME NEW d, NEW e, NEW N, Firm(d, N),
           e.clients = d.clients, e.credentials = d.credentials,
           \A p \in Proof : e.proofs[p] # None =>
               \/ /\ d.proofs[p] # None
                  /\ e.proofs[p].credential = d.proofs[p].credential
                  /\ e.proofs[p].client = d.proofs[p].client
                  /\ e.proofs[p].issuedAt = d.proofs[p].issuedAt
                  /\ e.proofs[p].expiresAt = d.proofs[p].expiresAt
               \/ /\ d.credentials[e.proofs[p].credential] # None
                  /\ d.clients[e.proofs[p].client] = "active"
                  /\ e.proofs[p].issuedAt < e.proofs[p].expiresAt
    PROVE  Firm(e, N)
<1>1. Referenced(e)
  BY DEF Firm, Referenced
<1>2. Staffed(e)
  BY DEF Firm, Staffed, CurrentOf
<1>3. Dated(e, N) /\ Lasting(e)
  BY DEF Firm, Dated, Lasting
<1> QED
  BY <1>1, <1>2, <1>3 DEF Firm

LEMMA IssueFirm ==
    ASSUME RInv, NEW r \in Request, IssueProof(r)
    PROVE  RInv'
<1>1. IInv /\ IInv' /\ db \in Database /\ clock \in Nat
  BY IssuePreserves DEF RInv, IInv, TypeOK
<1>2. PICK p \in Proof \ names, q \in RequestState :
             /\ requests' = [requests EXCEPT ![r] = q] /\ requests[r].step = "commit"
             /\ q.step = "reply" /\ q.receipt.proof = p
             /\ q.decision = requests[r].decision /\ q.proof = requests[r].proof
             /\ q.client = requests[r].client /\ q.binding = requests[r].binding
             /\ q.receipt.issuedAt = clock
             /\ q.receipt.expiresAt = clock + requests[r].ttl
             /\ names' = names \cup {p}
             /\ accepted' = accepted /\ backup' = backup
             /\ db'.proofs = [db.proofs EXCEPT ![p] = IssueRow(requests[r], clock)]
             /\ db'.verifications = db.verifications
  BY <1>1, IssueEffect
<1>3. Prepared'
  BY <1>1, <1>2, OneRequestPrepared DEF RInv, IInv, ReadyIf
<1>4. requests[r].ttl \in Nat \ {0}
  BY <1>2 DEF RInv, Prepared, ReadyIf, IssueProof, At
<1> DEFINE row == IssueRow(requests[r], clock)
<1>5. /\ db.credentials[row.credential] # None /\ db.clients[row.client] = "active"
      /\ row.issuedAt < row.expiresAt
  BY <1>1, <1>4 DEF IssueRow, IssueProof, MayIssue, Authority, Authentic
<1> HIDE DEF row
<1>6. \A o \in Proof : db'.proofs[o] = IF o = p THEN row ELSE db.proofs[o]
  BY <1>1, <1>2 DEF Database, row
<1>7. Firm(db', names)
  BY <1>1, <1>5, <1>6, TransactionKeeps, FirmByProofs DEF RInv
<1>8. Firm(db, names)' /\ (backup' # None => Firm(backup, names)')
  BY <1>2, <1>7, FirmGrows DEF RInv
<1> QED
  BY <1>1, <1>3, <1>8 DEF RInv

LEMMA JudgeFirm ==
    ASSUME RInv, NEW r \in Request, Judge(r)
    PROVE  RInv'
<1> DEFINE old == requests[r]
           verdict == Verdict(db, old.proof, old.client, old.binding, clock)
<1>1. IInv /\ IInv' /\ db \in Database
  BY JudgePreserves DEF RInv, IInv, TypeOK
<1>2. PICK q \in RequestState : requests' = [requests EXCEPT ![r] = q] /\ q.step = "reply"
  BY <1>1, JudgeEffect
<1>3. /\ names' = names /\ backup' = backup
      /\ db'.proofs = IF verdict = "verified_once"
                      THEN [db.proofs EXCEPT ![old.proof].consumedBy = r]
                      ELSE db.proofs
  BY <1>1, JudgeEffect
<1>4. Prepared'
  BY <1>1, <1>2, OneRequestPrepared DEF RInv, IInv, ReadyIf
<1>5. verdict = "verified_once" => db.proofs[old.proof] # None /\ old.proof \in Proof
  BY <1>1 DEF Verdict, Found, IInv, TypeOK, RequestState
<1> HIDE DEF verdict
<1>6. ASSUME NEW p \in Proof, db'.proofs[p] # None
      PROVE  /\ db.proofs[p] # None
             /\ db'.proofs[p].credential = db.proofs[p].credential
             /\ db'.proofs[p].client = db.proofs[p].client
             /\ db'.proofs[p].issuedAt = db.proofs[p].issuedAt
             /\ db'.proofs[p].expiresAt = db.proofs[p].expiresAt
  <2>1. \/ db'.proofs[p] = db.proofs[p]
        \/ db.proofs[p] # None /\ db'.proofs[p] = [db.proofs[p] EXCEPT !.consumedBy = r]
    BY <1>1, <1>3, <1>5 DEF Database
  <2> QED
    BY <1>1, <1>6, <2>1 DEF Database, ProofRow
<1>7. Firm(db', names)
  BY <1>1, <1>6, TransactionKeeps, FirmByProofs DEF RInv
<1> QED
  BY <1>1, <1>3, <1>4, <1>7 DEF RInv

-----------------------------------------------------------------------------
(* The commands, one by one *)

LEMMA AdminCommon ==
    ASSUME RInv, Administer
    PROVE  /\ IInv' /\ Prepared' /\ UNCHANGED <<clock, requests>> /\ names \subseteq names'
           /\ db \in Database
<1>1. UNCHANGED <<clock, requests>> /\ names \subseteq names'
  BY DEF Administer, CreateClient, RotateCredential, RevokeClient, Cleanup,
         ActivateRestore, TakeBackup, RestoreBackup
<1> QED
  BY <1>1, AdminPreserves DEF RInv, IInv, TypeOK, Prepared

LEMMA RowsMade ==
    ASSUME NEW c \in Client, NEW role \in Role
    PROVE  /\ NewCredential(c, role) # None
           /\ NewCredential(c, role).client = c /\ NewCredential(c, role).role = role
           /\ NewCredential(c, role).status = "current"
<1>1. NewCredential(c, role) \in CredentialRow
  BY DEF NewCredential, CredentialRow
<1> QED
  BY <1>1, RowAssumption DEF NewCredential

LEMMA RowsEnded ==
    ASSUME NEW row \in CredentialRow, NEW now \in Nat, NEW g \in Nat
    PROVE  /\ RevokeRow(row, now) # None /\ Demote(row, g, now) # None
           /\ RevokeRow(row, now).client = row.client /\ Demote(row, g, now).client = row.client
           /\ RevokeRow(row, now).role = row.role /\ Demote(row, g, now).role = row.role
           /\ RevokeRow(row, now).status = "revoked"
           /\ Demote(row, g, now).status = "previous"
           /\ RevokeRow(row, now).validUntil = now
           /\ Demote(row, g, now).validUntil = now + g
<1>1. RevokeRow(row, now) \in CredentialRow
  BY DEF RevokeRow, CredentialRow
<1>2. now + g \in Nat
  OBVIOUS
<1>3. Demote(row, g, now) \in CredentialRow
  BY <1>2 DEF Demote, CredentialRow
<1> QED
  BY <1>1, <1>2, <1>3, RowAssumption DEF RevokeRow, Demote, CredentialRow

LEMMA CreateFirm ==
    ASSUME RInv, NEW c \in Client, NEW i \in Credential, NEW v \in Credential,
           CreateClient(c, i, v)
    PROVE  Firm(db', names') /\ backup' = backup
<1>1. db \in Database /\ IInv /\ Firm(db, names) /\ Drawn(db)
  BY DEF RInv, IInv, TypeOK
<1> DEFINE made(role) == NewCredential(c, role)
<1>2. /\ db'.proofs = db.proofs /\ backup' = backup
      /\ db'.clients = [db.clients EXCEPT ![c] = "active"]
      /\ db'.credentials = [db.credentials EXCEPT
                               ![i] = made("issuance"), ![v] = made("verification")]
      /\ c \notin names /\ i \notin names /\ v \notin names /\ i # v
      /\ names' = names \cup {c, i, v}
  BY <1>1 DEF CreateClient, Database
<1>3. \A role \in Role : /\ made(role) # None /\ made(role).client = c
                         /\ made(role).role = role /\ made(role).status = "current"
  BY RowsMade
<1> HIDE DEF made
<1>4. \A k \in Credential :
          db'.credentials[k] = IF k = i THEN made("issuance")
                               ELSE IF k = v THEN made("verification")
                               ELSE db.credentials[k]
  BY <1>1, <1>2 DEF Database
<1>5. \A o \in Client : db'.clients[o] = IF o = c THEN "active" ELSE db.clients[o]
  BY <1>1, <1>2 DEF Database
<1>6. /\ db.credentials[i] = None /\ db.credentials[v] = None
      /\ \A k \in Credential : db.credentials[k] # None => db.credentials[k].client # c
      /\ \A p \in Proof : db.proofs[p] # None => db.proofs[p].client # c
  BY <1>1, <1>2 DEF Firm, Dated, Drawn
<1>7. "issuance" \in Role /\ "verification" \in Role
  BY DEF Role
<1>8. Referenced(db')
  <2>1. \A p \in Proof : db'.proofs[p] # None =>
           /\ db'.credentials[db'.proofs[p].credential] # None
           /\ db'.clients[db'.proofs[p].client] # "absent"
    BY <1>1, <1>2, <1>3, <1>4, <1>5, <1>6, <1>7 DEF Firm, Referenced, Database, ProofRow
  <2>2. \A k \in Credential : db'.credentials[k] # None =>
           db'.clients[db'.credentials[k].client] # "absent"
    BY <1>1, <1>3, <1>4, <1>5, <1>7 DEF Firm, Referenced, Database, CredentialRow
  <2> QED
    BY <2>1, <2>2 DEF Referenced
<1>9. Staffed(db')
  <2> SUFFICES ASSUME NEW o \in Client, NEW role \in Role, db'.clients[o] = "active"
               PROVE  \E k \in Credential : \A j \in Credential :
                          CurrentOf(db', o, role, j) <=> j = k
    BY DEF Staffed
  <2>1. CASE o = c
    <3>1. CASE role = "issuance"
      <4>1. \A j \in Credential : CurrentOf(db', o, role, j) <=> j = i
        BY <1>3, <1>4, <1>6, <1>7, <2>1, <3>1 DEF CurrentOf
      <4> QED
        BY <4>1
    <3>2. CASE role = "verification"
      <4>1. \A j \in Credential : CurrentOf(db', o, role, j) <=> j = v
        BY <1>2, <1>3, <1>4, <1>6, <1>7, <2>1, <3>2 DEF CurrentOf
      <4> QED
        BY <4>1
    <3> QED
      BY <3>1, <3>2 DEF Role
  <2>2. CASE o # c
    <3>1. \A j \in Credential : CurrentOf(db', o, role, j) <=> CurrentOf(db, o, role, j)
      BY <1>3, <1>4, <1>6, <1>7, <2>2 DEF CurrentOf
    <3>2. db.clients[o] = "active"
      BY <1>5, <2>2
    <3> QED
      BY <1>1, <3>1, <3>2 DEF Firm, Staffed
  <2> QED
    BY <2>1, <2>2
<1>10. Dated(db', names')
  BY <1>1, <1>2, <1>3, <1>4, <1>7 DEF Firm, Dated
<1>11. Lasting(db')
  BY <1>1, <1>2, <1>5, <1>6 DEF Firm, Lasting, Database, ProofRow
<1> QED
  BY <1>2, <1>8, <1>9, <1>10, <1>11 DEF Firm

LEMMA RotateFirm ==
    ASSUME RInv, NEW c \in Client, NEW role \in Role, NEW new \in Credential,
           NEW g \in Graces, NEW now \in Sampled, RotateCredential(c, role, new, g, now)
    PROVE  Firm(db', names') /\ backup' = backup
<1>1. /\ db \in Database /\ IInv /\ Firm(db, names) /\ Drawn(db)
      /\ now \in Nat /\ g \in Nat
  BY SampledTyped, BoundAssumption DEF RInv, IInv, TypeOK
<1>2. PICK old \in Credential :
         /\ db.credentials[old] # None
         /\ db.credentials[old].client = c
         /\ db.credentials[old].role = role
         /\ db.credentials[old].status = "current"
         /\ db' = [db EXCEPT
                !.credentials[old] = Demote(@, g, now),
                !.credentials[new] = NewCredential(c, role)]
  BY DEF RotateCredential
<1> DEFINE demoted == Demote(db.credentials[old], g, now)
           made == NewCredential(c, role)
<1>3. /\ db'.proofs = db.proofs /\ db'.clients = db.clients /\ backup' = backup
      /\ db'.credentials = [db.credentials EXCEPT ![old] = demoted, ![new] = made]
      /\ names' = names \cup {new} /\ new \notin names
  BY <1>1, <1>2 DEF RotateCredential, Database
<1>4. /\ made # None /\ made.client = c /\ made.role = role /\ made.status = "current"
  BY RowsMade
<1>5. /\ demoted # None /\ demoted.client = c /\ demoted.role = role
      /\ demoted.status = "previous" /\ demoted.validUntil \in Nat
  <2>1. db.credentials[old] \in CredentialRow
    BY <1>1, <1>2 DEF Database
  <2> QED
    BY <1>1, <1>2, <2>1, RowsEnded
<1> HIDE DEF demoted, made
<1>6. db.credentials[new] = None /\ new # old
  BY <1>1, <1>2, <1>3 DEF Firm, Dated
<1>7. \A k \in Credential :
          db'.credentials[k] = IF k = new THEN made
                               ELSE IF k = old THEN demoted ELSE db.credentials[k]
  BY <1>1, <1>3 DEF Database
<1>8. Referenced(db')
  <2>1. db.clients[c] # "absent"
    BY <1>1, <1>2 DEF Firm, Referenced
  <2>2. \A p \in Proof : db'.proofs[p] # None =>
           /\ db'.credentials[db'.proofs[p].credential] # None
           /\ db'.clients[db'.proofs[p].client] # "absent"
    BY <1>1, <1>3, <1>4, <1>5, <1>7 DEF Firm, Referenced, Database, ProofRow
  <2>3. \A k \in Credential : db'.credentials[k] # None =>
           db'.clients[db'.credentials[k].client] # "absent"
    BY <1>1, <1>3, <1>4, <1>5, <1>7, <2>1 DEF Firm, Referenced
  <2> QED
    BY <2>2, <2>3 DEF Referenced
<1>9. Staffed(db')
  <2> SUFFICES ASSUME NEW o \in Client, NEW part \in Role, db'.clients[o] = "active"
               PROVE  \E k \in Credential : \A j \in Credential :
                          CurrentOf(db', o, part, j) <=> j = k
    BY DEF Staffed
  <2>1. PICK k \in Credential : \A j \in Credential : CurrentOf(db, o, part, j) <=> j = k
    BY <1>1, <1>3 DEF Firm, Staffed
  <2>2. CASE o = c /\ part = role
    <3>1. k = old
      BY <1>2, <2>1, <2>2 DEF CurrentOf
    <3>2. \A j \in Credential : CurrentOf(db', o, part, j) <=> j = new
      BY <1>4, <1>5, <1>7, <2>1, <2>2, <3>1 DEF CurrentOf
    <3> QED
      BY <3>2
  <2>3. CASE ~(o = c /\ part = role)
    <3>1. \A j \in Credential : CurrentOf(db', o, part, j) <=> CurrentOf(db, o, part, j)
      BY <1>2, <1>4, <1>5, <1>6, <1>7, <2>3 DEF CurrentOf
    <3> QED
      BY <2>1, <3>1
  <2> QED
    BY <2>2, <2>3
<1>10. Dated(db', names')
  BY <1>1, <1>2, <1>3, <1>4, <1>5, <1>7 DEF Firm, Dated
<1>11. Lasting(db')
  BY <1>1, <1>3 DEF Firm, Lasting
<1> QED
  BY <1>3, <1>8, <1>9, <1>10, <1>11 DEF Firm

(* Rows end or go, clients are revoked: nothing that held is disturbed, if *)
(* no credential goes that a proof needs or that an active client uses.    *)
LEMMA FirmByEnding ==
    ASSUME NEW d \in Database, NEW e, NEW N, Firm(d, N),
           \A c \in Client : /\ e.clients[c] = "absent" => d.clients[c] = "absent"
                             /\ e.clients[c] = "active" => d.clients[c] = "active",
           \A p \in Proof : e.proofs[p] # None =>
               /\ d.proofs[p] # None
               /\ e.proofs[p].credential = d.proofs[p].credential
               /\ e.proofs[p].client = d.proofs[p].client
               /\ e.credentials[d.proofs[p].credential] # None
               /\ \/ e.clients[d.proofs[p].client] # "active"
                  \/ e.proofs[p] = d.proofs[p],
           \A k \in Credential : e.credentials[k] # None =>
               /\ d.credentials[k] # None
               /\ e.credentials[k].client = d.credentials[k].client
               /\ \/ e.credentials[k] = d.credentials[k]
                  \/ /\ e.clients[d.credentials[k].client] # "active"
                     /\ e.credentials[k].validUntil \in Nat,
           \A k \in Credential :
               d.credentials[k] # None /\ d.credentials[k].status = "current" =>
                   e.credentials[k] # None
    PROVE  Firm(e, N)
<1>1. Referenced(e)
  BY DEF Firm, Referenced, Database, ProofRow, CredentialRow
<1>2. Staffed(e)
  <2> SUFFICES ASSUME NEW c \in Client, NEW role \in Role, e.clients[c] = "active"
               PROVE  \A j \in Credential : CurrentOf(e, c, role, j) <=> CurrentOf(d, c, role, j)
    BY DEF Firm, Staffed
  <2> QED
    BY DEF CurrentOf
<1>3. Dated(e, N)
  BY DEF Firm, Dated
<1>4. Lasting(e)
  BY DEF Firm, Lasting, Database, ProofRow
<1> QED
  BY <1>1, <1>2, <1>3, <1>4 DEF Firm

LEMMA RevokeFirm ==
    ASSUME RInv, NEW c \in Client, NEW now \in Sampled, RevokeClient(c, now)
    PROVE  Firm(db', names') /\ backup' = backup
<1>1. db \in Database /\ Firm(db, names) /\ now \in Nat /\ 0 \in Nat
  BY SampledTyped DEF RInv, IInv, TypeOK
<1>2. /\ names' = names /\ backup' = backup
      /\ db'.clients = [db.clients EXCEPT ![c] = "revoked"]
      /\ \A p \in Proof :
            \/ db'.proofs[p] = db.proofs[p]
            \/ /\ db.proofs[p] # None /\ db.proofs[p].client = c
               /\ db'.proofs[p] = CutShort(db.proofs[p], now)
      /\ \A k \in Credential :
            \/ db'.credentials[k] = db.credentials[k]
            \/ /\ db.credentials[k] # None /\ db.credentials[k].client = c
               /\ db'.credentials[k] = RevokeRow(db.credentials[k], now)
  BY <1>1 DEF RevokeClient, Database
<1>3. \A o \in Client : db'.clients[o] = IF o = c THEN "revoked" ELSE db.clients[o]
  BY <1>1, <1>2 DEF Database
<1>4. \A k \in Credential : db.credentials[k] # None =>
          /\ db.credentials[k] \in CredentialRow
          /\ RevokeRow(db.credentials[k], now) # None
          /\ RevokeRow(db.credentials[k], now).client = db.credentials[k].client
          /\ RevokeRow(db.credentials[k], now).validUntil = now
  BY <1>1, RowsEnded DEF Database
<1>5. \A p \in Proof : db.proofs[p] # None =>
          /\ CutShort(db.proofs[p], now).credential = db.proofs[p].credential
          /\ CutShort(db.proofs[p], now).client = db.proofs[p].client
  BY <1>1 DEF CutShort, Database, ProofRow
<1>6. \A k \in Credential : db.credentials[k] # None => db'.credentials[k] # None
  BY <1>2, <1>4
<1>7. \A p \in Proof : db'.proofs[p] # None =>
               /\ db.proofs[p] # None
               /\ db'.proofs[p].credential = db.proofs[p].credential
               /\ db'.proofs[p].client = db.proofs[p].client
               /\ db'.credentials[db.proofs[p].credential] # None
               /\ \/ db'.clients[db.proofs[p].client] # "active"
                  \/ db'.proofs[p] = db.proofs[p]
  BY <1>1, <1>2, <1>3, <1>5, <1>6 DEF Firm, Referenced, Database, ProofRow
<1>8. \A k \in Credential : db'.credentials[k] # None =>
               /\ db.credentials[k] # None
               /\ db'.credentials[k].client = db.credentials[k].client
               /\ \/ db'.credentials[k] = db.credentials[k]
                  \/ /\ db'.clients[db.credentials[k].client] # "active"
                     /\ db'.credentials[k].validUntil \in Nat
  BY <1>1, <1>2, <1>3, <1>4
<1>9. \A o \in Client : /\ db'.clients[o] = "absent" => db.clients[o] = "absent"
                        /\ db'.clients[o] = "active" => db.clients[o] = "active"
  BY <1>3
<1>10. Firm(db', names)
  BY <1>1, <1>6, <1>7, <1>8, <1>9, FirmByEnding
<1> QED
  BY <1>2, <1>10

LEMMA ActivateFirm ==
    ASSUME RInv, NEW now \in Sampled, ActivateRestore(now)
    PROVE  Firm(db', names') /\ backup' = backup
<1>1. db \in Database /\ Firm(db, names) /\ now \in Nat /\ 0 \in Nat
  BY SampledTyped DEF RInv, IInv, TypeOK
<1>2. /\ names' = names /\ backup' = backup
      /\ db'.clients = [c \in Client |-> ActivatedStatus(db.clients[c])]
      /\ \A p \in Proof :
            \/ db'.proofs[p] = db.proofs[p]
            \/ /\ db.proofs[p] # None
               /\ db'.proofs[p] = CutShort(db.proofs[p], now)
      /\ \A k \in Credential :
            \/ db'.credentials[k] = db.credentials[k] /\ db.credentials[k] = None
            \/ /\ db.credentials[k] # None
               /\ db'.credentials[k] = RevokeRow(db.credentials[k], now)
  BY <1>1 DEF ActivateRestore, Database
<1>3. \A o \in Client : /\ db'.clients[o] # "active"
                        /\ db'.clients[o] = "absent" => db.clients[o] = "absent"
  BY <1>2 DEF ActivatedStatus
<1>4. \A k \in Credential : db.credentials[k] # None =>
          /\ db.credentials[k] \in CredentialRow
          /\ RevokeRow(db.credentials[k], now) # None
          /\ RevokeRow(db.credentials[k], now).client = db.credentials[k].client
          /\ RevokeRow(db.credentials[k], now).validUntil = now
  BY <1>1, RowsEnded DEF Database
<1>5. \A p \in Proof : db.proofs[p] # None =>
          /\ CutShort(db.proofs[p], now).credential = db.proofs[p].credential
          /\ CutShort(db.proofs[p], now).client = db.proofs[p].client
  BY <1>1 DEF CutShort, Database, ProofRow
<1>6. \A k \in Credential : db.credentials[k] # None => db'.credentials[k] # None
  BY <1>2, <1>4
<1>7. \A p \in Proof : db'.proofs[p] # None =>
               /\ db.proofs[p] # None
               /\ db'.proofs[p].credential = db.proofs[p].credential
               /\ db'.proofs[p].client = db.proofs[p].client
               /\ db'.credentials[db.proofs[p].credential] # None
               /\ \/ db'.clients[db.proofs[p].client] # "active"
                  \/ db'.proofs[p] = db.proofs[p]
  BY <1>1, <1>2, <1>3, <1>5, <1>6 DEF Firm, Referenced, Database, ProofRow
<1>8. \A k \in Credential : db'.credentials[k] # None =>
               /\ db.credentials[k] # None
               /\ db'.credentials[k].client = db.credentials[k].client
               /\ \/ db'.credentials[k] = db.credentials[k]
                  \/ /\ db'.clients[db.credentials[k].client] # "active"
                     /\ db'.credentials[k].validUntil \in Nat
  BY <1>1, <1>2, <1>3, <1>4 DEF Database, CredentialRow
<1> QED
  BY <1>1, <1>2, <1>3, <1>6, <1>7, <1>8, FirmByEnding

(* A cleanup keeps every credential that a proof left needs.               *)
LEMMA CleanupFirm ==
    ASSUME RInv, NEW now \in Sampled, Cleanup(now)
    PROVE  Firm(db', names') /\ backup' = backup
<1>1. db \in Database /\ Firm(db, names)
  BY DEF RInv, IInv, TypeOK
<1>2. /\ names' = names /\ backup' = backup /\ db'.clients = db.clients
      /\ \A p \in Proof : db'.proofs[p] \in {None, db.proofs[p]}
      /\ \A k \in Credential : db'.credentials[k] =
            IF db.credentials[k] # None
                 /\ CredentialIsDead(k, db.credentials[k], db'.proofs, now)
            THEN None ELSE db.credentials[k]
  BY <1>1 DEF Cleanup, Database
<1>3. \A p \in Proof : db'.proofs[p] # None =>
               /\ db.proofs[p] # None
               /\ db'.proofs[p].credential = db.proofs[p].credential
               /\ db'.proofs[p].client = db.proofs[p].client
               /\ db'.credentials[db.proofs[p].credential] # None
               /\ \/ db'.clients[db.proofs[p].client] # "active"
                  \/ db'.proofs[p] = db.proofs[p]
  BY <1>1, <1>2 DEF CredentialIsDead, Firm, Referenced, Database, ProofRow
<1>4. \A k \in Credential : db'.credentials[k] # None =>
               /\ db.credentials[k] # None
               /\ db'.credentials[k].client = db.credentials[k].client
               /\ \/ db'.credentials[k] = db.credentials[k]
                  \/ /\ db'.clients[db.credentials[k].client] # "active"
                     /\ db'.credentials[k].validUntil \in Nat
  BY <1>2
<1>5. \A k \in Credential :
          db.credentials[k] # None /\ db.credentials[k].status = "current" =>
              db'.credentials[k] # None
  BY <1>2 DEF CredentialIsDead
<1>6. \A c \in Client : /\ db'.clients[c] = "absent" => db.clients[c] = "absent"
                        /\ db'.clients[c] = "active" => db.clients[c] = "active"
  BY <1>2
<1> QED
  BY <1>1, <1>2, <1>3, <1>4, <1>5, <1>6, FirmByEnding

LEMMA BackupFirm ==
    ASSUME RInv, TakeBackup \/ RestoreBackup
    PROVE  Firm(db', names') /\ (backup' # None => Firm(backup', names'))
<1>1. db \in Database /\ Firm(db, names) /\ (backup # None => Firm(backup, names))
  BY DEF RInv, IInv, TypeOK
<1>2. CASE TakeBackup
  <2>1. /\ db' = db /\ names' = names
        /\ backup'.clients = db.clients /\ backup'.credentials = db.credentials
        /\ backup'.proofs = db.proofs
    BY <1>1, <1>2 DEF TakeBackup, Sealed, Database
  <2>2. Firm(backup', names)
    BY <1>1, <2>1 DEF Firm, Referenced, Staffed, CurrentOf, Dated, Lasting
  <2> QED
    BY <1>1, <2>1, <2>2
<1>3. CASE RestoreBackup
  BY <1>1, <1>3 DEF RestoreBackup
<1> QED
  BY <1>2, <1>3

LEMMA AdminFirm ==
    ASSUME RInv, Administer
    PROVE  RInv'
<1>1. IInv' /\ Prepared' /\ names \subseteq names'
  BY AdminCommon
<1>2. ASSUME Firm(db', names') /\ backup' = backup PROVE RInv'
  BY <1>1, <1>2, FirmGrows DEF RInv
<1>3. ASSUME TakeBackup \/ RestoreBackup PROVE RInv'
  BY <1>1, <1>3, BackupFirm DEF RInv
<1> QED
  BY <1>2, <1>3, CreateFirm, RotateFirm, RevokeFirm, CleanupFirm, ActivateFirm
  DEF Administer

LEMMA NextFirm == RInv /\ [Next]_vars => RInv'
<1> SUFFICES ASSUME RInv, [Next]_vars PROVE RInv'
  OBVIOUS
<1>1. ASSUME NEW r \in Request, SendIssue(r) \/ SendVerify(r) \/ Handle(r)
      PROVE  RInv'
  BY <1>1, HandlerFirm, IssueFirm, JudgeFirm DEF Handle
<1>2. CASE Crash
  BY <1>2, CrashFirm
<1>3. CASE Administer
  BY <1>3, AdminFirm
<1>4. CASE Tick \/ ClockStepsBack \/ UNCHANGED vars
  <2>1. UNCHANGED <<db, backup, requests, names, accepted>>
    BY <1>4 DEF Tick, ClockStepsBack, vars
  <2>2. IInv'
    BY NextPreserves DEF RInv
  <2> QED
    BY <2>1, <2>2 DEF RInv, Prepared
<1> QED
  BY <1>1, <1>2, <1>3, <1>4 DEF Next

LEMMA Firmness == Spec => []RInv
BY InitFirm, NextFirm, PTL DEF Spec

-----------------------------------------------------------------------------
(* Theorems *)

(* Whatever a verification stores, the strict reader takes back.           *)
LEMMA StoredReadable ==
    ASSUME RInv, NEW r \in Request, Judge(r)
    PROVE  Readable(ResultOf(db, requests[r], db'.verifications[r].decision))
<1> DEFINE q == requests[r]
           verdict == Verdict(db, q.proof, q.client, q.binding, clock)
           decision == [verdict |-> verdict, id |-> r, at |-> clock]
           result == ResultOf(db, q, decision)
<1>1. db \in Database /\ clock \in Nat /\ q \in RequestState
  BY DEF RInv, IInv, TypeOK
<1>2. db'.verifications[r].decision = decision
  <2>1. db'.verifications = [db.verifications EXCEPT ![r] = VerificationRowOf(q, decision)]
    BY JudgeEffect DEF RInv
  <2>2. VerificationRowOf(q, decision).decision = decision
    BY DEF VerificationRowOf
  <2> QED
    BY <1>1, <2>1, <2>2 DEF Database
<1>3. /\ decision.verdict = verdict /\ decision.id = r /\ decision.at = clock
      /\ verdict \in Verdicts /\ r # None
  BY NoneAssumption DEF Verdict, Verdicts
<1>4. db.clients[q.client] = "active"
  BY DEF Judge, MayVerify, Authority
<1>5. verdict = "verified_once" =>
          /\ q.proof \in Proof /\ db.proofs[q.proof] # None
          /\ db.proofs[q.proof].client = q.client
  BY <1>1 DEF Verdict, Found, RequestState
<1> HIDE DEF decision, verdict
<1>6. CASE verdict = "verified_once"
  <2> DEFINE row == db.proofs[q.proof]
  <2>1. row \in ProofRow /\ row.issuedAt < row.expiresAt /\ q.proof # None
    BY <1>1, <1>4, <1>5, <1>6, NoneAssumption DEF RInv, Firm, Lasting, Database
  <2>2. Claims(row) # None /\ Claims(row).client = row.client
        /\ Claims(row).issuedAt = row.issuedAt /\ Claims(row).expiresAt = row.expiresAt
    BY <2>1, ClaimsAssumption DEF Claims, ProofRow
  <2>3. result = AcceptedResult(row, r, q.proof, clock)
    BY <1>3, <1>6 DEF ResultOf
  <2>4. row.issuedAt >= 0 /\ row.expiresAt >= 0
    BY <2>1 DEF ProofRow
  <2> HIDE DEF row, result
  <2>5. ReadableWitness(result.witness)
    BY <1>1, <1>3, <2>3 DEF AcceptedResult, ReadableWitness, IsTime
  <2>6. ReadableAcceptance(result) /\ result.verified = TRUE
    BY <2>1, <2>2, <2>3, <2>4 DEF AcceptedResult, ReadableAcceptance, ReadableClaims, IsTime
  <2>7. Readable(result)
    BY <2>5, <2>6 DEF Readable
  <2> QED
    BY <1>2, <2>7 DEF result
<1>7. CASE verdict # "verified_once"
  <2>1. PICK tag : result = RejectedResult(verdict, r, tag, q.client, clock)
    BY <1>3, <1>7 DEF ResultOf
  <2>2. verdict \in Reasons
    BY <1>3, <1>7 DEF Verdicts, Reasons
  <2> HIDE DEF result
  <2>3. ReadableWitness(result.witness)
    BY <1>1, <1>3, <2>1, <2>2 DEF RejectedResult, ReadableWitness, IsTime
  <2>4. ReadableRejection(result) /\ result.verified = FALSE
    BY <2>1, <2>2 DEF RejectedResult, ReadableRejection, StateOf
  <2>5. Readable(result)
    BY <2>3, <2>4 DEF Readable
  <2> QED
    BY <1>2, <2>5 DEF result
<1> QED
  BY <1>6, <1>7

THEOREM ResultsReadable == Spec => StoredResultsReadable
<1>1. RInv /\ [Next]_vars =>
          [ \A r \in Request :
                Judge(r) =>
                    Readable(ResultOf(db, requests[r], db'.verifications[r].decision)) ]_vars
  BY StoredReadable
<1> QED
  BY <1>1, Firmness, PTL DEF Spec, StoredResultsReadable

(* A time read earlier is ahead of the clock only where that was set back. *)
LEMMA SampledPast ==
    ASSUME TypeOK, NEW now \in Sampled
    PROVE  /\ now \in Nat /\ now <= clock + StepBack
           /\ StepBack = 0 => now <= clock
BY BoundAssumption DEF TypeOK, Sampled

LEMMA AcceptedOnly ==
    ASSUME NEW row, NEW now \in Nat, NEW later \in Nat, now <= later,
           row.status # "current" => row.validUntil \in Nat,
           Accepts(row, later)
    PROVE  Accepts(row, now)
BY DEF Accepts

\* A step that leaves the rows of clients and credentials alone.
RowsStay ==
    /\ db'.clients = db.clients /\ db'.credentials = db.credentials
    /\ db'.restoreRequired = db.restoreRequired

LEMMA RequestRowsStay ==
    ASSUME RInv, Next, ~Administer
    PROVE  RowsStay /\ (clock <= clock' \/ ClockStepsBack)
<1>1. clock \in Nat
  BY DEF RInv, IInv, TypeOK
<1>2. ASSUME NEW r \in Request, SendIssue(r) \/ SendVerify(r) \/ Handle(r)
      PROVE  RowsStay /\ clock <= clock'
  BY <1>1, <1>2, HandlerFirm, TransactionKeeps DEF Handle, RInv, RowsStay
<1>3. CASE Crash
  BY <1>1, <1>3, CrashFirm DEF RowsStay
<1>4. CASE Tick
  BY <1>1, <1>4 DEF Tick, RowsStay
<1>5. CASE ClockStepsBack
  BY <1>5 DEF ClockStepsBack, RowsStay
<1> QED
  BY <1>2, <1>3, <1>4, <1>5 DEF Next

LEMMA ClientsNeverReturn ==
    ASSUME RInv, [Next]_vars, NEW c \in Client, Serves(c)'
    PROVE  Serves(c) \/ c \notin names
<1>1. CASE UNCHANGED vars
  BY <1>1 DEF vars, Serves
<1>2. CASE Next /\ ~Administer
  BY <1>2, RequestRowsStay DEF RowsStay, Serves
<1>3. CASE Administer
  <2>1. db \in Database /\ (backup # None => backup.restoreRequired)
    BY DEF RInv, IInv, TypeOK, BackupSealed
  <2>2. ASSUME NEW o \in Client, NEW i \in Credential, NEW v \in Credential,
               CreateClient(o, i, v)
        PROVE  Serves(c) \/ c \notin names
    BY <2>1, <2>2 DEF CreateClient, Serves, Database
  <2>3. ASSUME NEW now \in Sampled, NEW o \in Client, NEW role \in Role,
               NEW new \in Credential, NEW g \in Graces,
               RotateCredential(o, role, new, g, now)
        PROVE  Serves(c)
    BY <2>1, <2>3 DEF RotateCredential, Serves, Database
  <2>4. ASSUME NEW now \in Sampled, NEW o \in Client, RevokeClient(o, now)
        PROVE  Serves(c)
    BY <2>1, <2>4 DEF RevokeClient, Serves, Database
  <2>5. ASSUME NEW now \in Sampled, Cleanup(now)
        PROVE  Serves(c)
    BY <2>1, <2>5 DEF Cleanup, Serves, Database
  <2>6. ASSUME NEW now \in Sampled, ActivateRestore(now)
        PROVE  FALSE
    BY <2>1, <2>6 DEF ActivateRestore, ActivatedStatus, Serves, Database
  <2>7. CASE TakeBackup
    BY <2>7 DEF TakeBackup, Serves
  <2>8. CASE RestoreBackup
    BY <2>1, <2>8 DEF RestoreBackup, Serves
  <2> QED
    BY <1>3, <2>2, <2>3, <2>4, <2>5, <2>6, <2>7, <2>8 DEF Administer
<1> QED
  BY <1>1, <1>2, <1>3 DEF Next

LEMMA ClockForward ==
    ASSUME RInv, StepBack = 0, [Next]_vars
    PROVE  clock \in Nat /\ clock' \in Nat /\ clock <= clock'
<1>1. clock \in Nat /\ clock' \in Nat
  BY NextPreserves DEF RInv, IInv, TypeOK
<1>2. CASE UNCHANGED vars
  BY <1>1, <1>2 DEF vars
<1>3. CASE Next /\ ~Administer
  <2>1. ~ClockStepsBack
    BY DEF ClockStepsBack
  <2> QED
    BY <1>1, <1>3, <2>1, RequestRowsStay
<1>4. CASE Administer
  BY <1>1, <1>4, AdminCommon
<1> QED
  BY <1>2, <1>3, <1>4 DEF Next

(* A row that stays works afterwards only if it worked before, unless the  *)
(* clock was set back.                                                     *)
LEMMA SameRowWorked ==
    ASSUME RInv, clock <= clock', [Next]_vars, NEW k \in Credential, Works(k)',
           db'.credentials[k] = db.credentials[k]
    PROVE  Works(k)
<1> DEFINE row == db.credentials[k]
           c == row.client
<1>1. /\ row # None /\ row \in CredentialRow /\ c \in Client /\ c \in names
      /\ row.status # "current" => row.validUntil \in Nat
  BY DEF Works, RInv, IInv, TypeOK, Database, CredentialRow, Drawn, Firm, Dated
<1>2. PICK o \in Client : o = c
  BY <1>1
<1>3. Serves(o)' /\ Accepts(row, clock')
  BY <1>2 DEF Works
<1>4. Serves(o)
  BY <1>1, <1>2, <1>3, ClientsNeverReturn
<1>5. Accepts(row, clock)
  <2>1. clock \in Nat /\ clock' \in Nat
    BY NextPreserves DEF RInv, IInv, TypeOK
  <2> QED
    BY <1>1, <1>3, <2>1, AcceptedOnly
<1> QED
  BY <1>1, <1>2, <1>4, <1>5 DEF Works

LEMMA CredentialsNeverReturn ==
    ASSUME RInv, clock <= clock', [Next]_vars, NEW k \in Credential, Works(k)'
    PROVE  Works(k) \/ k \notin names
<1>1. db \in Database /\ (backup # None => backup.restoreRequired)
  BY DEF RInv, IInv, TypeOK, BackupSealed
<1>2. CASE UNCHANGED vars
  BY <1>2, SameRowWorked DEF vars
<1>3. CASE Next /\ ~Administer
  BY <1>3, RequestRowsStay, SameRowWorked DEF RowsStay
<1>4. CASE Administer
  <2>1. ASSUME NEW c \in Client, NEW i \in Credential, NEW v \in Credential,
               CreateClient(c, i, v)
        PROVE  Works(k) \/ k \notin names
    <3>1. i \notin names /\ v \notin names
      BY <2>1 DEF CreateClient
    <3>2. k # i /\ k # v => db'.credentials[k] = db.credentials[k]
      BY <1>1, <2>1 DEF CreateClient, Database
    <3> QED
      BY <3>1, <3>2, SameRowWorked
  <2>2. ASSUME NEW now \in Sampled, NEW c \in Client, NEW role \in Role,
               NEW new \in Credential, NEW g \in Graces,
               RotateCredential(c, role, new, g, now)
        PROVE  Works(k) \/ k \notin names
    <3>1. PICK old \in Credential :
             /\ db.credentials[old] # None /\ db.credentials[old].client = c
             /\ db.credentials[old].status = "current"
             /\ db' = [db EXCEPT
                    !.credentials[old] = Demote(@, g, now),
                    !.credentials[new] = NewCredential(c, role)]
      BY <2>2 DEF RotateCredential
    <3>2. Serves(c) /\ new \notin names
      BY <2>2 DEF RotateCredential, Serves
    <3>3. k # old /\ k # new => db'.credentials[k] = db.credentials[k]
      BY <1>1, <3>1 DEF Database
    <3>4. Works(old)
      BY <3>1, <3>2 DEF Works, Accepts
    <3> QED
      BY <3>2, <3>3, <3>4, SameRowWorked
  <2>3. ASSUME NEW now \in Sampled, NEW c \in Client, RevokeClient(c, now)
        PROVE  Works(k)
    <3>1. \/ db'.credentials[k] = db.credentials[k]
          \/ db.credentials[k] # None /\ db'.credentials[k] = RevokeRow(db.credentials[k], now)
      BY <1>1, <2>3 DEF RevokeClient, Database
    <3>2. db.credentials[k] # None =>
              RevokeRow(db.credentials[k], now).status = "revoked"
      BY <1>1 DEF RevokeRow, Database, CredentialRow
    <3> QED
      BY <3>1, <3>2, SameRowWorked DEF Works, Accepts
  <2>4. ASSUME NEW now \in Sampled, Cleanup(now)
        PROVE  Works(k)
    <3>1. db'.credentials[k] \in {None, db.credentials[k]}
      BY <1>1, <2>4 DEF Cleanup, Database
    <3> QED
      BY <3>1, SameRowWorked DEF Works
  <2>5. ASSUME NEW now \in Sampled, ActivateRestore(now)
        PROVE  FALSE
    <3>1. db' \in Database
      BY NextPreserves DEF RInv, IInv, TypeOK
    <3>2. \A c \in Client : db'.clients[c] # "active"
      BY <1>1, <2>5 DEF ActivateRestore, ActivatedStatus, Database
    <3> QED
      BY <3>1, <3>2 DEF Works, Serves, Database, CredentialRow
  <2>6. CASE TakeBackup
    BY <2>6, SameRowWorked DEF TakeBackup
  <2>7. CASE RestoreBackup
    BY <1>1, <2>7 DEF RestoreBackup, Works, Serves
  <2> QED
    BY <1>4, <2>1, <2>2, <2>3, <2>4, <2>5, <2>6, <2>7 DEF Administer
<1> QED
  BY <1>2, <1>3, <1>4 DEF Next

(* A client that does not serve now serves later only if it is new, and a  *)
(* credential that does not work now works later only if it is new or the  *)
(* clock was set back.                                                     *)
THEOREM AuthorityStaysGone == Spec => AuthorityNeverReturns
<1>1. RInv /\ [Next]_vars =>
          [ /\ \A c \in Client : Serves(c)' => Serves(c) \/ c \notin names
            /\ clock <= clock' =>
                   \A k \in Credential : Works(k)' => Works(k) \/ k \notin names ]_vars
  BY ClientsNeverReturn, CredentialsNeverReturn
<1> QED
  BY <1>1, Firmness, PTL DEF Spec, AuthorityNeverReturns

LEMMA GraceStep ==
    ASSUME RInv, [Next]_vars, NEW k \in Credential, NEW c \in Client,
           Works(k), db.credentials[k].client = c, db.credentials[k].status = "previous",
           clock' + StepBack < db.credentials[k].validUntil, Serves(c)'
    PROVE  Works(k)'
<1>1. /\ db \in Database /\ TypeOK /\ (backup # None => backup.restoreRequired)
      /\ db.credentials[k] # None /\ k \in names
      /\ db.credentials[k].validUntil \in Nat
      /\ clock \in Nat /\ clock' \in Nat /\ StepBack \in Nat
  BY NextPreserves, BoundAssumption
  DEF RInv, IInv, TypeOK, BackupSealed, Works, Firm, Dated
<1>2. SUFFICES db'.credentials[k] = db.credentials[k]
  BY <1>1 DEF Works, Accepts
<1>3. CASE UNCHANGED vars
  BY <1>3 DEF vars
<1>4. CASE Next /\ ~Administer
  BY <1>4, RequestRowsStay DEF RowsStay
<1>5. CASE Administer
  <2>1. ASSUME NEW o \in Client, NEW i \in Credential, NEW v \in Credential,
               CreateClient(o, i, v)
        PROVE  db'.credentials[k] = db.credentials[k]
    BY <1>1, <2>1 DEF CreateClient, Database
  <2>2. ASSUME NEW now \in Sampled, NEW o \in Client, NEW role \in Role,
               NEW new \in Credential, NEW g \in Graces,
               RotateCredential(o, role, new, g, now)
        PROVE  db'.credentials[k] = db.credentials[k]
    <3>1. PICK old \in Credential :
             /\ db.credentials[old].status = "current"
             /\ db' = [db EXCEPT
                    !.credentials[old] = Demote(@, g, now),
                    !.credentials[new] = NewCredential(o, role)]
      BY <2>2 DEF RotateCredential
    <3>2. k # old /\ k # new
      BY <1>1, <2>2, <3>1 DEF RotateCredential
    <3> QED
      BY <1>1, <3>1, <3>2 DEF Database
  <2>3. ASSUME NEW now \in Sampled, NEW o \in Client, RevokeClient(o, now)
        PROVE  db'.credentials[k] = db.credentials[k]
    <3>1. o # c
      BY <1>1, <2>3 DEF RevokeClient, Serves, Database
    <3> QED
      BY <1>1, <2>3, <3>1 DEF RevokeClient, Database
  <2>4. ASSUME NEW now \in Sampled, Cleanup(now)
        PROVE  db'.credentials[k] = db.credentials[k]
    <3>1. now \in Nat /\ now <= clock + StepBack /\ clock' = clock
      BY <1>1, <2>4, SampledPast DEF Cleanup
    <3>2. ~(db.credentials[k].validUntil < now)
      BY <1>1, <3>1
    <3>3. db'.credentials[k] =
              IF CredentialIsDead(k, db.credentials[k], db'.proofs, now)
              THEN None ELSE db.credentials[k]
      BY <1>1, <2>4 DEF Cleanup, Database
    <3> QED
      BY <3>2, <3>3 DEF CredentialIsDead
  <2>5. ASSUME NEW now \in Sampled, ActivateRestore(now)
        PROVE  FALSE
    BY <1>1, <2>5 DEF ActivateRestore, ActivatedStatus, Serves, Database
  <2>6. CASE TakeBackup
    BY <2>6 DEF TakeBackup
  <2>7. CASE RestoreBackup
    BY <1>1, <2>7 DEF RestoreBackup, Serves
  <2> QED
    BY <1>5, <2>1, <2>2, <2>3, <2>4, <2>5, <2>6, <2>7 DEF Administer
<1> QED
  BY <1>3, <1>4, <1>5 DEF Next

(* A demoted credential of a serving client works until the end it was     *)
(* given, but for its last StepBack seconds, which bound how far the clock *)
(* is behind a sampled time (Sampled).                                     *)
THEOREM GraceLasts == Spec => GraceKept
<1>1. RInv /\ [Next]_vars =>
          [ \A k \in Credential, c \in Client :
              /\ Works(k)
              /\ db.credentials[k].client = c
              /\ db.credentials[k].status = "previous"
              /\ clock' + StepBack < db.credentials[k].validUntil
              /\ Serves(c)'
              => Works(k)' ]_vars
  BY GraceStep
<1> QED
  BY <1>1, Firmness, PTL DEF Spec, GraceKept
=============================================================================
