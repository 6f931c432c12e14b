----------------------------- MODULE LedgerProofs -----------------------------
(***************************************************************************)
(* The ledger accepts no proof twice and implements OneTimeProof: every    *)
(* answer that leaves the system is true of the one history of the proof   *)
(* it speaks of.  This holds for every set of clients, proofs and requests *)
(* and every bound: backups, restores and backward clocks included.        *)
(***************************************************************************)
EXTENDS Ledger, TLAPS

-----------------------------------------------------------------------------
(* Types *)

LEMMA IdleTyped == Idle \in RequestState
BY DEF Idle, RequestState, InFlight

LEMMA InitTyped == Init => TypeOK
BY IdleTyped DEF Init, TypeOK, EmptyDatabase, Database

LEMMA SentTyped ==
    ASSUME NEW k \in Credential \cup {None}, NEW p \in Proof \cup {None},
           NEW b \in Binding, NEW key \in Key \cup {None},
           NEW ttl \in Nat, NEW at \in Nat
    PROVE  /\ [Idle EXCEPT !.step = "authenticate", !.operation = "issue",
                   !.credential = k, !.binding = b, !.ttl = ttl, !.at = at]
                 \in RequestState
           /\ [Idle EXCEPT !.step = "authenticate", !.operation = "verify",
                   !.credential = k, !.proof = p, !.binding = b, !.key = key,
                   !.at = at] \in RequestState
BY DEF Idle, RequestState, InFlight, Operation

LEMMA AuthenticTyped ==
    ASSUME NEW q \in RequestState, NEW c \in Client,
           NEW step \in {"policy", "lookup", "commit"}
    PROVE  [q EXCEPT !.step = step, !.client = c] \in RequestState
BY DEF RequestState, InFlight

(* What a handler writes into its own record keeps the record's type. *)
LEMMA RequestTyped ==
    ASSUME NEW q \in RequestState
    PROVE  /\ \A step \in InFlight \cup {"done", "lost"} :
                  [q EXCEPT !.step = step] \in RequestState
           /\ Answered(q) \in RequestState
           /\ \A d \in Decision : Decided(q, d) \in RequestState
           /\ Lost(q) \in RequestState
           /\ [Idle EXCEPT !.step = "reply"] \in RequestState
<1>1. \A step \in InFlight \cup {"done", "lost"} :
          [q EXCEPT !.step = step] \in RequestState
  BY DEF RequestState
<1>2. Answered(q) \in RequestState
  BY DEF RequestState, Answered, InFlight
<1>3. \A d \in Decision : Decided(q, d) \in RequestState
  BY <1>2 DEF RequestState, Decided
<1>4. [Idle EXCEPT !.step = "reply"] \in RequestState
  BY IdleTyped DEF RequestState, InFlight
<1>5. [Idle EXCEPT !.step = "lost"] \in RequestState
  BY IdleTyped DEF RequestState
<1>6. Lost(q) \in RequestState
  BY <1>1, <1>5 DEF Lost
<1> QED
  BY <1>1, <1>2, <1>3, <1>4, <1>6

LEMMA GotoTyped ==
    ASSUME TypeOK, NEW r \in Request,
           NEW step \in InFlight \cup {"done", "lost"}, Goto(r, step)
    PROVE  requests' \in [Request -> RequestState]
BY RequestTyped DEF TypeOK, Goto

LEMMA RefuseTyped ==
    ASSUME TypeOK, NEW r \in Request, Refuse(r)
    PROVE  requests' \in [Request -> RequestState]
BY IdleTyped, RequestTyped DEF TypeOK, Refuse

LEMMA AnswerFromRowTyped ==
    ASSUME TypeOK, NEW r \in Request, NEW v \in Request,
           db.verifications[v] # None, AnswerFromRow(r, v)
    PROVE  requests' \in [Request -> RequestState]
<1>1. db.verifications[v].decision \in Decision
  BY DEF TypeOK, Database, VerificationRow
<1>2. requests[r] \in RequestState
  BY DEF TypeOK
<1>3. Decided(requests[r], db.verifications[v].decision) \in RequestState
  BY <1>1, <1>2, RequestTyped
<1> QED
  BY <1>3, RefuseTyped DEF AnswerFromRow, TypeOK

LEMMA TakeSlotTyped ==
    ASSUME NEW d \in Database, NEW r \in Request, NEW c \in Client,
           NEW operation \in Operation, NEW now \in Nat
    PROVE  TakeSlot(d, r, c, operation, now) \in Database
BY DEF TakeSlot, Database, Unexpired, RateRow

LEMMA SentRecord ==
    ASSUME TypeOK, NEW r \in Request, SendIssue(r) \/ SendVerify(r)
    PROVE  \E q \in RequestState :
               /\ requests' = [requests EXCEPT ![r] = q]
               /\ q.step = "authenticate"
               /\ q.binding \in Binding
<1>1. clock \in Nat /\ 0 \in Nat
  BY DEF TypeOK
<1>2. CASE SendIssue(r)
  <2>1. PICK k \in (names \cap Credential) \cup {None}, b \in Binding, ttl \in Ttls :
           requests' = [requests EXCEPT ![r] =
               [Idle EXCEPT !.step = "authenticate", !.operation = "issue",
                   !.credential = k, !.binding = b, !.ttl = ttl, !.at = clock]]
    BY <1>2, Zenon DEF SendIssue
  <2> DEFINE q == [Idle EXCEPT !.step = "authenticate", !.operation = "issue",
                      !.credential = k, !.binding = b, !.ttl = ttl, !.at = clock]
  <2>2. k \in Credential \cup {None} /\ ttl \in Nat
    BY BoundAssumption
  <2>3. q \in RequestState
    BY <1>1, <2>2, SentTyped
  <2>4. q.step = "authenticate" /\ q.binding = b
    BY DEF Idle
  <2> HIDE DEF q
  <2> QED
    BY <2>1, <2>3, <2>4 DEF q
<1>3. CASE SendVerify(r)
  <2>1. PICK k \in (names \cap Credential) \cup {None},
             p \in (names \cap Proof) \cup {None}, b \in Binding,
             key \in Key \cup {None} :
           requests' = [requests EXCEPT ![r] =
               [Idle EXCEPT !.step = "authenticate", !.operation = "verify",
                   !.credential = k, !.proof = p, !.binding = b, !.key = key,
                   !.at = clock]]
    BY <1>3, Zenon DEF SendVerify
  <2> DEFINE q == [Idle EXCEPT !.step = "authenticate", !.operation = "verify",
                      !.credential = k, !.proof = p, !.binding = b, !.key = key,
                      !.at = clock]
  <2>2. k \in Credential \cup {None} /\ p \in Proof \cup {None}
    OBVIOUS
  <2>3. q \in RequestState
    BY <1>1, <2>2, SentTyped
  <2>4. q.step = "authenticate" /\ q.binding = b
    BY DEF Idle
  <2> HIDE DEF q
  <2> QED
    BY <2>1, <2>3, <2>4 DEF q
<1> QED
  BY <1>2, <1>3

LEMMA HandlerTyped ==
    ASSUME TypeOK, NEW r \in Request,
           SendIssue(r) \/ SendVerify(r) \/ Authenticate(r) \/ CheckPolicy(r)
              \/ RefuseIssue(r) \/ Lookup(r) \/ Recall(r) \/ EndVerify(r)
              \/ Reply(r) \/ StoreFails(r)
    PROVE  TypeOK'
<1>1. CASE SendIssue(r)
  BY <1>1, SentRecord DEF SendIssue, TypeOK
<1>2. CASE SendVerify(r)
  BY <1>2, SentRecord DEF SendVerify, TypeOK
<1>3. CASE Authenticate(r)
  <2>1. CASE Refuse(r)
    BY <1>3, <2>1, RefuseTyped DEF Authenticate, TypeOK
  <2>2. CASE ~Refuse(r)
    <3>1. PICK step \in {"policy", "lookup", "commit"} :
             /\ requests' = [requests EXCEPT ![r].step = step,
                     ![r].client = db.credentials[requests[r].credential].client]
             /\ requests[r].credential # None
             /\ db.credentials[requests[r].credential] # None
      BY <1>3, <2>2 DEF Authenticate, Authentic
    <3>2. requests[r].credential \in Credential
      BY <3>1 DEF TypeOK, RequestState
    <3>3. db.credentials[requests[r].credential].client \in Client
      BY <3>1, <3>2 DEF TypeOK, Database, CredentialRow
    <3>4. requests' \in [Request -> RequestState]
      <4>1. [requests[r] EXCEPT !.step = step,
                !.client = db.credentials[requests[r].credential].client]
                  \in RequestState
        BY <3>3, AuthenticTyped DEF TypeOK
      <4> QED
        BY <3>1, <4>1 DEF TypeOK
    <3> QED
      BY <1>3, <3>4 DEF Authenticate, TypeOK
  <2> QED
    BY <2>1, <2>2
<1>4. CASE CheckPolicy(r)
  BY <1>4, RefuseTyped, GotoTyped DEF CheckPolicy, TypeOK, InFlight
<1>5. CASE RefuseIssue(r)
  BY <1>5, RefuseTyped DEF RefuseIssue, TypeOK
<1>6. CASE Lookup(r)
  BY <1>6, RefuseTyped, GotoTyped DEF Lookup, TypeOK, InFlight
<1>7. CASE Recall(r)
  <2>1. requests' \in [Request -> RequestState]
    BY <1>7, GotoTyped, AnswerFromRowTyped DEF Recall, KeyRows, InFlight
  <2> QED
    BY <1>7, <2>1 DEF Recall, TypeOK
<1>8. CASE EndVerify(r)
  <2>1. requests' \in [Request -> RequestState]
    BY <1>8, RefuseTyped, AnswerFromRowTyped DEF EndVerify, KeyRows
  <2> QED
    BY <1>8, <2>1 DEF EndVerify, TypeOK
<1>9. CASE Reply(r)
  BY <1>9, GotoTyped DEF Reply, TypeOK
<1>10. CASE StoreFails(r)
  BY <1>10, RefuseTyped DEF StoreFails, TypeOK
<1> QED
  BY <1>1, <1>2, <1>3, <1>4, <1>5, <1>6, <1>7, <1>8, <1>9, <1>10

LEMMA ReceiptTyped ==
    ASSUME NEW q \in RequestState, NEW at \in Nat, NEW receipt \in Receipt
    PROVE  [q EXCEPT !.slotAt = at, !.receipt = receipt] \in RequestState
BY DEF RequestState

LEMMA IssueTyped ==
    ASSUME TypeOK, NEW r \in Request, IssueProof(r),
           requests[r].credential \in Credential,
           requests[r].client \in Client,
           requests[r].binding \in Binding
    PROVE  TypeOK'
<1> DEFINE q == requests[r]
           slotted == TakeSlot(db, r, q.client, "issue", clock)
           row == IssueRow(q, clock)
<1>1. PICK p \in Proof \ names :
         /\ db' = [slotted EXCEPT !.proofs[p] = row]
         /\ names' = names \cup {p}
         /\ requests' = [requests EXCEPT ![r] = [Answered(@) EXCEPT
                !.slotAt = clock,
                !.receipt = [proof |-> p, issuedAt |-> clock,
                             expiresAt |-> clock + q.ttl]]]
  BY Zenon DEF IssueProof
<1>2. clock \in Nat /\ q \in RequestState /\ db \in Database
  BY DEF TypeOK
<1>3. q.ttl \in Nat
  BY <1>2 DEF RequestState
<1>4. row \in ProofRow
  BY <1>2, <1>3 DEF IssueRow, ProofRow
<1>5. slotted \in Database
  BY <1>2, TakeSlotTyped DEF Operation
<1>6. db' \in Database
  <2> HIDE DEF slotted, row, q
  <2> QED
    BY <1>1, <1>4, <1>5 DEF Database
<1>7. [Answered(q) EXCEPT !.slotAt = clock,
          !.receipt = [proof |-> p, issuedAt |-> clock,
                       expiresAt |-> clock + q.ttl]] \in RequestState
  <2>1. [proof |-> p, issuedAt |-> clock, expiresAt |-> clock + q.ttl] \in Receipt
    BY <1>2, <1>3 DEF Receipt
  <2>2. Answered(q) \in RequestState
    BY <1>2, RequestTyped
  <2> HIDE DEF q
  <2> QED
    BY <1>2, <2>1, <2>2, ReceiptTyped
<1>8. requests' \in [Request -> RequestState]
  BY <1>1, <1>7 DEF TypeOK
<1> QED
  BY <1>1, <1>6, <1>8 DEF IssueProof, TypeOK

LEMMA ConsumeTyped ==
    ASSUME NEW d \in Database, NEW p \in Proof \cup {None}, NEW r \in Request,
           NEW verdict, verdict = "verified_once" => p \in Proof /\ d.proofs[p] # None
    PROVE  Consume(d, verdict, p, r) \in Database
<1>1. CASE verdict = "verified_once"
  <2>1. [d.proofs[p] EXCEPT !.consumedBy = r] \in ProofRow
    BY <1>1 DEF Database, ProofRow
  <2>2. Consume(d, verdict, p, r) =
          [d EXCEPT !.proofs = [d.proofs EXCEPT ![p] =
              [d.proofs[p] EXCEPT !.consumedBy = r]]]
    BY <1>1 DEF Consume
  <2> QED
    BY <1>1, <2>1, <2>2 DEF Database
<1>2. CASE verdict # "verified_once"
  BY <1>2 DEF Consume
<1> QED
  BY <1>1, <1>2

LEMMA JudgeTyped ==
    ASSUME TypeOK, NEW r \in Request, Judge(r),
           requests[r].client \in Client,
           requests[r].binding \in Binding
    PROVE  TypeOK'
<1> DEFINE q == requests[r]
           verdict == Verdict(db, q.proof, q.client, q.binding, clock)
           decision == [verdict |-> verdict, id |-> r, at |-> clock]
           slotted == TakeSlot(db, r, q.client, "verify", clock)
           consumed == Consume(slotted, verdict, q.proof, r)
           row == VerificationRowOf(q, decision)
<1>1. /\ db' = [consumed EXCEPT !.verifications[r] = row]
      /\ requests' = [requests EXCEPT ![r] =
             [Decided(@, decision) EXCEPT !.slotAt = clock]]
      /\ accepted' = IF verdict = "verified_once"
                     THEN accepted \cup {<<q.proof, r>>} ELSE accepted
      /\ clock' = clock /\ backup' = backup /\ names' = names
  BY Zenon DEF Judge
<1>2. clock \in Nat /\ q \in RequestState /\ db \in Database
  BY DEF TypeOK
<1>3. q.proof \in Proof \cup {None} /\ q.key \in Key \cup {None}
  BY <1>2 DEF RequestState
<1>4. verdict \in Verdicts
  BY DEF Verdict, Verdicts
<1>5. verdict = "verified_once" => q.proof \in Proof /\ db.proofs[q.proof] # None
  BY <1>3 DEF Verdict, Found
<1>6. decision \in Decision
  BY <1>2, <1>4 DEF Decision
<1>7. slotted \in Database /\ slotted.proofs = db.proofs
  BY <1>2, TakeSlotTyped DEF Operation, TakeSlot, Database
<1>8. consumed \in Database
  BY <1>3, <1>5, <1>7, ConsumeTyped
<1>9. row \in VerificationRow
  BY <1>3, <1>6 DEF VerificationRowOf, VerificationRow
<1>10. db' \in Database
  <2> HIDE DEF consumed, row
  <2> QED
    BY <1>1, <1>8, <1>9 DEF Database
<1>11. [Decided(q, decision) EXCEPT !.slotAt = clock] \in RequestState
  <2>1. Decided(q, decision) \in RequestState
    BY <1>2, <1>6, RequestTyped
  <2> QED
    BY <1>2, <2>1 DEF RequestState
<1>12. requests' \in [Request -> RequestState]
  BY <1>1, <1>11 DEF TypeOK
<1>13. accepted' \in SUBSET (Proof \X Request)
  BY <1>1, <1>5 DEF TypeOK
<1> QED
  BY <1>1, <1>10, <1>12, <1>13 DEF TypeOK

LEMMA SampledTyped == TypeOK => Sampled \subseteq Nat
BY BoundAssumption DEF Sampled

LEMMA AdminTyped ==
    ASSUME TypeOK, Administer
    PROVE  TypeOK'
<1>1. ASSUME NEW c \in Client, NEW i \in Credential, NEW v \in Credential,
             CreateClient(c, i, v)
      PROVE  TypeOK'
  <2>1. /\ NewCredential(c, "issuance") \in CredentialRow
        /\ NewCredential(c, "verification") \in CredentialRow
    BY DEF NewCredential, CredentialRow, Role
  <2>2. db' \in Database
    BY <1>1, <2>1 DEF CreateClient, TypeOK, Database
  <2> QED
    BY <1>1, <2>2 DEF CreateClient, TypeOK
<1>2. ASSUME NEW now \in Sampled, NEW c \in Client, NEW role \in Role,
             NEW new \in Credential, NEW g \in Graces,
             RotateCredential(c, role, new, g, now)
      PROVE  TypeOK'
  <2>1. PICK k \in Credential :
           /\ db.credentials[k] # None
           /\ db' = [db EXCEPT
                  !.credentials[k] = Demote(@, g, now),
                  !.credentials[new] = NewCredential(c, role)]
    BY <1>2 DEF RotateCredential
  <2>2. NewCredential(c, role) \in CredentialRow
    BY DEF NewCredential, CredentialRow
  <2>3. now + g \in Nat
    BY SampledTyped, BoundAssumption
  <2>4. Demote(db.credentials[k], g, now) \in CredentialRow
    <3>1. db.credentials[k] \in CredentialRow
      BY <2>1 DEF TypeOK, Database
    <3> HIDE DEF Database
    <3> QED
      BY <2>3, <3>1 DEF Demote, CredentialRow
  <2>5. db' \in Database
    BY <2>1, <2>2, <2>4 DEF TypeOK, Database
  <2> QED
    BY <1>2, <2>5 DEF RotateCredential, TypeOK
<1>3. ASSUME NEW now \in Nat
      PROVE  /\ \A row \in CredentialRow : RevokeRow(row, now) \in CredentialRow
             /\ \A row \in ProofRow : CutShort(row, now) \in ProofRow
  BY DEF RevokeRow, CutShort, CredentialRow, ProofRow
<1>4. ASSUME NEW now \in Sampled, NEW c \in Client, RevokeClient(c, now)
      PROVE  TypeOK'
  <2>1. now \in Nat
    BY SampledTyped
  <2>2. db' \in Database
    BY <1>3, <1>4, <2>1 DEF RevokeClient, TypeOK, Database
  <2> QED
    BY <1>4, <2>2 DEF RevokeClient, TypeOK
<1>5. ASSUME NEW now \in Sampled, Cleanup(now)
      PROVE  TypeOK'
  <2>1. db' \in Database
    BY <1>5 DEF Cleanup, TypeOK, Database, Unexpired
  <2> QED
    BY <1>5, <2>1 DEF Cleanup, TypeOK
<1>6. ASSUME NEW now \in Sampled, ActivateRestore(now)
      PROVE  TypeOK'
  <2>1. now \in Nat
    BY SampledTyped
  <2>2. db' \in Database
    BY <1>3, <1>6, <2>1 DEF ActivateRestore, ActivatedStatus, TypeOK, Database
  <2> QED
    BY <1>6, <2>2 DEF ActivateRestore, TypeOK
<1>7. CASE TakeBackup
  BY <1>7 DEF TakeBackup, Sealed, TypeOK, Database
<1>8. CASE RestoreBackup
  BY <1>8 DEF RestoreBackup, TypeOK
<1> QED
  BY <1>1, <1>2, <1>4, <1>5, <1>6, <1>7, <1>8 DEF Administer

-----------------------------------------------------------------------------
(* The inductive invariant *)

\* A handler past the authentication knows credential and client.
Identified ==
    \A r \in Request :
        /\ requests[r].step \in {"authenticate", "policy", "lookup", "recall", "commit"} =>
               requests[r].binding \in Binding
        /\ requests[r].step \in {"policy", "lookup", "recall", "commit"} =>
               /\ requests[r].credential \in Credential
               /\ requests[r].client \in Client

\* No row speaks of an identity that is still to be drawn.
Drawn(d) ==
    /\ \A p \in Proof : d.proofs[p] # None =>
           p \in names /\ d.proofs[p].client \in names
    /\ \A k \in Credential : d.credentials[k] # None =>
           d.credentials[k].client \in names

AcceptedDrawn == \A a \in accepted : a[1] \in names

\* An accepted proof whose row says otherwise came from a backup: the ledger
\* is sealed, or the proof's client is revoked.
Spent ==
    \A a \in accepted :
        /\ db.proofs[a[1]] # None
        /\ db.proofs[a[1]].consumedBy = None
        => \/ db.restoreRequired
           \/ db.clients[db.proofs[a[1]].client] # "active"

BackupSealed == backup # None => backup.restoreRequired /\ Drawn(backup)

IInv ==
    /\ TypeOK
    /\ Identified
    /\ Drawn(db)
    /\ AcceptedDrawn
    /\ Spent
    /\ BackupSealed
    /\ AtMostOneWitness

LEMMA InitEstablishes == Init => IInv
<1> SUFFICES ASSUME Init PROVE IInv
  OBVIOUS
<1>1. TypeOK
  BY InitTyped
<1>2. Identified
  BY DEF Init, Identified, Idle
<1>3. Drawn(db) /\ AcceptedDrawn /\ Spent /\ BackupSealed /\ AtMostOneWitness
  BY DEF Init, EmptyDatabase, Drawn, AcceptedDrawn, Spent, BackupSealed, AtMostOneWitness
<1> QED
  BY <1>1, <1>2, <1>3 DEF IInv

(* What no handler or command disturbs stays when these variables stay.    *)
LEMMA RowsUntouched ==
    ASSUME IInv, UNCHANGED <<db, backup, names, accepted>>
    PROVE  /\ Drawn(db)' /\ AcceptedDrawn' /\ Spent'
           /\ BackupSealed' /\ AtMostOneWitness'
BY DEF IInv, Drawn, AcceptedDrawn, Spent, BackupSealed, AtMostOneWitness

(* Replacing one request record identifies it if the new record does.      *)
LEMMA OneRequestIdentified ==
    ASSUME TypeOK, Identified, NEW r \in Request, NEW q,
           requests' = [requests EXCEPT ![r] = q],
           q.step \in {"authenticate", "policy", "lookup", "recall", "commit"} =>
               q.binding \in Binding,
           q.step \in {"policy", "lookup", "recall", "commit"} =>
               q.credential \in Credential /\ q.client \in Client
    PROVE  Identified'
BY DEF TypeOK, Identified

LEMMA AnswerIdentified ==
    ASSUME TypeOK, Identified, NEW r \in Request, NEW q \in RequestState,
           requests' = [requests EXCEPT ![r] = q],
           q.step \in {"reply", "done", "lost"}
    PROVE  Identified'
BY OneRequestIdentified

LEMMA RefuseIdentified ==
    ASSUME TypeOK, Identified, NEW r \in Request, Refuse(r)
    PROVE  Identified'
<1>1. [Idle EXCEPT !.step = "reply"] \in RequestState
  BY IdleTyped, RequestTyped
<1>2. [Idle EXCEPT !.step = "reply"].step = "reply"
  BY DEF Idle
<1> QED
  BY <1>1, <1>2, AnswerIdentified DEF Refuse

LEMMA DecidedSteps ==
    ASSUME NEW q \in RequestState, NEW d
    PROVE  Answered(q).step = "reply" /\ Decided(q, d).step = "reply"
BY DEF Answered, Decided, RequestState

LEMMA AnswerFromRowIdentified ==
    ASSUME TypeOK, Identified, NEW r \in Request, NEW v \in Request,
           db.verifications[v] # None, AnswerFromRow(r, v)
    PROVE  Identified'
<1>1. db.verifications[v].decision \in Decision /\ requests[r] \in RequestState
  BY DEF TypeOK, Database, VerificationRow
<1>2. Decided(requests[r], db.verifications[v].decision) \in RequestState
  BY <1>1, RequestTyped
<1>3. Decided(requests[r], db.verifications[v].decision).step = "reply"
  BY <1>1, DecidedSteps
<1>4. CASE Refuse(r)
  BY <1>4, RefuseIdentified
<1>5. CASE requests' = [requests EXCEPT ![r] =
              Decided(@, db.verifications[v].decision)]
  BY <1>2, <1>3, <1>5, AnswerIdentified
<1> QED
  BY <1>4, <1>5 DEF AnswerFromRow

(* A step of the handler moves on only after what it must know is known.   *)
LEMMA GotoIdentified ==
    ASSUME TypeOK, Identified, NEW r \in Request, NEW step, Goto(r, step),
           \/ step = "done"
           \/ /\ step \in {"recall", "commit"}
              /\ requests[r].step \in {"policy", "lookup", "recall"}
    PROVE  Identified'
BY DEF TypeOK, RequestState, Identified, Goto

LEMMA HandlerPreserves ==
    ASSUME IInv, NEW r \in Request,
           SendIssue(r) \/ SendVerify(r) \/ Authenticate(r) \/ CheckPolicy(r)
              \/ RefuseIssue(r) \/ Lookup(r) \/ Recall(r) \/ EndVerify(r)
              \/ Reply(r) \/ StoreFails(r)
    PROVE  IInv'
<1>1. TypeOK /\ Identified /\ TypeOK'
  BY HandlerTyped DEF IInv
<1>2. UNCHANGED <<db, backup, names, accepted>>
  BY DEF SendIssue, SendVerify, Authenticate, CheckPolicy, RefuseIssue, Lookup,
         Recall, EndVerify, Reply, StoreFails
<1>3. Identified'
  <2>1. CASE SendIssue(r)
    BY <1>1, <2>1, SentRecord, OneRequestIdentified
  <2>2. CASE SendVerify(r)
    BY <1>1, <2>2, SentRecord, OneRequestIdentified
  <2>3. CASE Authenticate(r)
    <3>1. CASE Refuse(r)
      BY <1>1, <3>1, RefuseIdentified
    <3>2. CASE ~Refuse(r)
      <4>1. PICK step \in {"policy", "lookup", "commit"} :
               /\ requests' = [requests EXCEPT ![r].step = step,
                      ![r].client = db.credentials[requests[r].credential].client]
               /\ requests[r].step = "authenticate"
               /\ requests[r].credential # None
               /\ db.credentials[requests[r].credential] # None
        BY <2>3, <3>2 DEF Authenticate, Authentic
      <4> DEFINE c == db.credentials[requests[r].credential].client
                 q == [requests[r] EXCEPT !.step = step, !.client = c]
      <4>2. requests[r].credential \in Credential /\ requests[r] \in RequestState
        BY <1>1, <4>1 DEF TypeOK, RequestState
      <4>3. c \in Client
        BY <1>1, <4>1, <4>2 DEF TypeOK, Database, CredentialRow
      <4>4. /\ q.credential \in Credential /\ q.client \in Client
            /\ q.binding = requests[r].binding
        BY <4>2, <4>3 DEF RequestState
      <4>5. requests[r].binding \in Binding
        BY <1>1, <4>1 DEF Identified
      <4>6. requests' = [requests EXCEPT ![r] = q]
        BY <4>1
      <4> HIDE DEF q
      <4> QED
        BY <1>1, <4>4, <4>5, <4>6, OneRequestIdentified
    <3> QED
      BY <3>1, <3>2
  <2>4. CASE CheckPolicy(r)
    BY <1>1, <2>4, RefuseIdentified, GotoIdentified DEF CheckPolicy
  <2>5. CASE RefuseIssue(r)
    BY <1>1, <2>5, RefuseIdentified DEF RefuseIssue
  <2>6. CASE Lookup(r)
    BY <1>1, <2>6, RefuseIdentified, GotoIdentified DEF Lookup
  <2>7. CASE Recall(r)
    BY <1>1, <2>7, GotoIdentified, AnswerFromRowIdentified DEF Recall, KeyRows
  <2>8. CASE EndVerify(r)
    BY <1>1, <2>8, RefuseIdentified, AnswerFromRowIdentified DEF EndVerify, KeyRows
  <2>9. CASE Reply(r)
    BY <1>1, <2>9, GotoIdentified DEF Reply
  <2>10. CASE StoreFails(r)
    BY <1>1, <2>10, RefuseIdentified DEF StoreFails
  <2> QED
    BY <2>1, <2>2, <2>3, <2>4, <2>5, <2>6, <2>7, <2>8, <2>9, <2>10
<1> QED
  BY <1>1, <1>2, <1>3, RowsUntouched DEF IInv

LEMMA CrashPreserves ==
    ASSUME IInv, Crash
    PROVE  IInv'
<1>1. TypeOK /\ Identified /\ UNCHANGED <<clock, db, backup, names, accepted>>
  BY DEF IInv, Crash
<1>2. ASSUME NEW r \in Request
      PROVE  /\ requests'[r] = Lost(requests[r])
             /\ requests'[r] \in RequestState
             /\ requests'[r] = requests[r] \/ requests'[r].step = "lost"
  <2>1. requests[r] \in RequestState
    BY <1>1 DEF TypeOK
  <2>2. requests'[r] = Lost(requests[r])
    BY DEF Crash
  <2>3. Lost(requests[r]) = requests[r] \/ Lost(requests[r]).step = "lost"
    BY <2>1 DEF Lost, Idle, RequestState
  <2> QED
    BY <2>1, <2>2, <2>3, RequestTyped
<1>3. requests' \in [Request -> RequestState]
  BY <1>2 DEF Crash
<1>4. TypeOK'
  BY <1>1, <1>3 DEF TypeOK
<1>5. Identified'
  BY <1>1, <1>2 DEF Identified
<1> QED
  BY <1>1, <1>4, <1>5, RowsUntouched DEF IInv

(* A new proof was never accepted, so its fresh row disturbs nothing.      *)
LEMMA IssuePreserves ==
    ASSUME IInv, NEW r \in Request, IssueProof(r)
    PROVE  IInv'
<1> DEFINE q == requests[r]
           slotted == TakeSlot(db, r, q.client, "issue", clock)
           row == IssueRow(q, clock)
<1>1. /\ TypeOK /\ Identified /\ q.step = "commit"
      /\ q.credential \in Credential /\ q.client \in Client
      /\ q.binding \in Binding
  BY DEF IInv, Identified, IssueProof, At
<1>2. TypeOK'
  BY <1>1, IssueTyped
<1>3. PICK p \in Proof \ names :
         /\ db' = [slotted EXCEPT !.proofs[p] = row]
         /\ names' = names \cup {p}
         /\ requests' = [requests EXCEPT ![r] = [Answered(@) EXCEPT
                !.slotAt = clock,
                !.receipt = [proof |-> p, issuedAt |-> clock,
                             expiresAt |-> clock + q.ttl]]]
  BY Zenon DEF IssueProof
<1>4. /\ q.client \in names
      /\ accepted' = accepted /\ backup' = backup
  BY <1>1 DEF IInv, Drawn, IssueProof, MayIssue, Authority, Authentic
<1>5. /\ db'.proofs = [db.proofs EXCEPT ![p] = row]
      /\ db'.clients = db.clients /\ db'.credentials = db.credentials
      /\ db'.restoreRequired = db.restoreRequired
      /\ db.proofs \in [Proof -> ProofRow \cup {None}]
  BY <1>1, <1>3 DEF TakeSlot, TypeOK, Database
<1>6. row.client = q.client
  BY DEF IssueRow
<1>7. Drawn(db)' /\ BackupSealed' /\ AcceptedDrawn'
  BY <1>3, <1>4, <1>5, <1>6 DEF IInv, Drawn, BackupSealed, AcceptedDrawn
<1>8. Spent'
  <2> SUFFICES ASSUME NEW a \in accepted,
                      db'.proofs[a[1]] # None, db'.proofs[a[1]].consumedBy = None
               PROVE  \/ db'.restoreRequired
                      \/ db'.clients[db'.proofs[a[1]].client] # "active"
    BY <1>4 DEF Spent
  <2>1. a[1] \in Proof /\ a[1] # p
    BY <1>1, <1>3 DEF IInv, AcceptedDrawn, TypeOK
  <2> QED
    BY <1>5, <2>1 DEF IInv, Spent
<1>9. Identified'
  <2>1. [Answered(q) EXCEPT !.slotAt = clock,
             !.receipt = [proof |-> p, issuedAt |-> clock,
                          expiresAt |-> clock + q.ttl]].step = "reply"
    BY <1>1 DEF Answered, TypeOK, RequestState
  <2> QED
    BY <1>1, <1>3, <2>1, OneRequestIdentified
<1>10. AtMostOneWitness'
  BY <1>4 DEF IInv, AtMostOneWitness
<1> QED
  BY <1>2, <1>7, <1>8, <1>9, <1>10 DEF IInv

(* The heart: the row that passes the verdict "verified_once" is of a      *)
(* serving client in an unsealed ledger, so by Spent it was never accepted.*)
LEMMA JudgePreserves ==
    ASSUME IInv, NEW r \in Request, Judge(r)
    PROVE  IInv'
<1> DEFINE q == requests[r]
           verdict == Verdict(db, q.proof, q.client, q.binding, clock)
           decision == [verdict |-> verdict, id |-> r, at |-> clock]
           slotted == TakeSlot(db, r, q.client, "verify", clock)
           consumed == Consume(slotted, verdict, q.proof, r)
           row == VerificationRowOf(q, decision)
<1>1. /\ TypeOK /\ Identified /\ q.step = "commit"
      /\ q.credential \in Credential /\ q.client \in Client
      /\ q.binding \in Binding
  BY DEF IInv, Identified, Judge, At
<1>2. TypeOK'
  BY <1>1, JudgeTyped
<1>3. /\ db' = [consumed EXCEPT !.verifications[r] = row]
      /\ requests' = [requests EXCEPT ![r] =
             [Decided(@, decision) EXCEPT !.slotAt = clock]]
      /\ accepted' = IF verdict = "verified_once"
                     THEN accepted \cup {<<q.proof, r>>} ELSE accepted
      /\ backup' = backup /\ names' = names
      /\ ~db.restoreRequired /\ db.clients[q.client] = "active"
  BY Zenon DEF Judge, MayVerify, Authority
<1>4. q \in RequestState /\ db \in Database /\ q.proof \in Proof \cup {None}
  BY <1>1 DEF TypeOK, RequestState
<1>5. /\ slotted.proofs = db.proofs /\ slotted.clients = db.clients
      /\ slotted.credentials = db.credentials
      /\ slotted.restoreRequired = db.restoreRequired
      /\ slotted = [db EXCEPT !.rateEvents = slotted.rateEvents]
  BY <1>4 DEF TakeSlot, Database
<1>6. /\ db'.clients = db.clients /\ db'.credentials = db.credentials
      /\ db'.restoreRequired = db.restoreRequired
      /\ db'.proofs = IF verdict = "verified_once"
                      THEN [db.proofs EXCEPT ![q.proof].consumedBy = r]
                      ELSE db.proofs
  <2> HIDE DEF verdict, row, slotted
  <2> QED
    BY <1>3, <1>4, <1>5 DEF Consume, Database
<1>7. Identified'
  <2>1. [Decided(q, decision) EXCEPT !.slotAt = clock].step = "reply"
    <3> HIDE DEF decision, q
    <3> QED
      BY <1>4 DEF Decided, Answered, RequestState
  <2> QED
    BY <1>1, <1>3, <2>1, OneRequestIdentified
<1>8. CASE verdict # "verified_once"
  <2>1. db'.proofs = db.proofs /\ accepted' = accepted
    BY <1>3, <1>6, <1>8
  <2> HIDE DEF verdict, q, decision, slotted, consumed, row
  <2>2. Drawn(db)'
    BY <1>3, <1>6, <2>1 DEF IInv, Drawn
  <2>3. AcceptedDrawn' /\ Spent'
    BY <1>3, <1>6, <2>1 DEF IInv, AcceptedDrawn, Spent
  <2>4. BackupSealed' /\ AtMostOneWitness'
    BY <1>3, <2>1 DEF IInv, BackupSealed, Drawn, AtMostOneWitness
  <2> QED
    BY <1>2, <1>7, <2>2, <2>3, <2>4 DEF IInv
<1>9. CASE verdict = "verified_once"
  <2> DEFINE p == q.proof
  <2>1. /\ p \in Proof /\ db.proofs[p] # None
        /\ db.proofs[p].client = q.client
        /\ db.proofs[p].consumedBy = None
    BY <1>4, <1>9 DEF Verdict, Found
  <2>2. \A a \in accepted : a[1] # p
    BY <1>3, <2>1 DEF IInv, Spent
  <2>3. accepted' = accepted \cup {<<p, r>>} /\ p \in names
    BY <1>3, <1>9, <2>1 DEF IInv, Drawn
  <2>4. db.proofs[p] \in ProofRow /\ db.proofs \in [Proof -> ProofRow \cup {None}]
    BY <1>4, <2>1 DEF Database
  <2>5. r # None
    BY NoneAssumption
  <2>6. /\ db'.proofs[p] = [db.proofs[p] EXCEPT !.consumedBy = r]
        /\ \A o \in Proof : o # p => db'.proofs[o] = db.proofs[o]
    BY <1>6, <1>9, <2>1, <2>4
  <2>7. db'.proofs[p].consumedBy = r /\ db'.proofs[p].client = db.proofs[p].client
    BY <2>4, <2>6 DEF ProofRow
  <2> HIDE DEF verdict, q, p
  <2>8. Drawn(db)' /\ AcceptedDrawn' /\ BackupSealed'
    BY <1>3, <1>6, <2>1, <2>3, <2>6, <2>7
    DEF IInv, Drawn, AcceptedDrawn, BackupSealed
  <2>9. Spent'
    <3> SUFFICES ASSUME NEW a \in accepted',
                        db'.proofs[a[1]] # None, db'.proofs[a[1]].consumedBy = None
                 PROVE  \/ db'.restoreRequired
                        \/ db'.clients[db'.proofs[a[1]].client] # "active"
      BY DEF Spent
    <3>1. a[1] # p
      BY <2>5, <2>7
    <3>2. a \in accepted /\ a[1] \in Proof
      BY <1>1, <2>3, <3>1 DEF TypeOK
    <3> QED
      BY <1>6, <2>6, <3>1, <3>2 DEF IInv, Spent
  <2>10. AtMostOneWitness'
    BY <2>2, <2>3 DEF IInv, AtMostOneWitness
  <2> QED
    BY <1>2, <1>7, <2>8, <2>9, <2>10 DEF IInv
<1> QED
  BY <1>8, <1>9

(* The commands: none of them revives a spent proof.                       *)
LEMMA AdminPreserves ==
    ASSUME IInv, Administer
    PROVE  IInv'
<1>1. TypeOK' /\ UNCHANGED <<requests, accepted>>
  BY AdminTyped
  DEF IInv, Administer, CreateClient, RotateCredential, RevokeClient, Cleanup,
      ActivateRestore, TakeBackup, RestoreBackup
<1>2. Identified' /\ AtMostOneWitness'
  BY <1>1 DEF IInv, Identified, AtMostOneWitness
<1>3. db \in Database /\ db' \in Database /\ accepted \in SUBSET (Proof \X Request)
  BY <1>1 DEF IInv, TypeOK
<1>4. SUFFICES Drawn(db)' /\ AcceptedDrawn' /\ Spent' /\ BackupSealed'
  BY <1>1, <1>2 DEF IInv
<1>5. ASSUME NEW c \in Client, NEW i \in Credential, NEW v \in Credential,
             CreateClient(c, i, v)
      PROVE  Drawn(db)' /\ AcceptedDrawn' /\ Spent' /\ BackupSealed'
  <2>1. /\ db'.proofs = db.proofs /\ db'.restoreRequired = db.restoreRequired
        /\ db'.clients = [db.clients EXCEPT ![c] = "active"]
        /\ db'.credentials = [db.credentials EXCEPT
                                 ![i] = NewCredential(c, "issuance"),
                                 ![v] = NewCredential(c, "verification")]
        /\ c \notin names /\ names \subseteq names' /\ c \in names'
        /\ backup' = backup
    BY <1>3, <1>5 DEF CreateClient, Database
  <2>2. Drawn(db)' /\ AcceptedDrawn' /\ BackupSealed'
    BY <1>1, <1>3, <2>1
    DEF IInv, Drawn, AcceptedDrawn, BackupSealed, NewCredential, Database
  <2>3. Spent'
    BY <1>1, <1>3, <2>1 DEF IInv, Drawn, Spent, Database
  <2> QED
    BY <2>2, <2>3
<1>6. ASSUME NEW now \in Sampled, NEW c \in Client, NEW role \in Role,
             NEW new \in Credential, NEW g \in Graces,
             RotateCredential(c, role, new, g, now)
      PROVE  Drawn(db)' /\ AcceptedDrawn' /\ Spent' /\ BackupSealed'
  <2>1. PICK k \in Credential :
           /\ db.credentials[k] # None
           /\ db.credentials[k].client = c
           /\ db' = [db EXCEPT
                  !.credentials[k] = Demote(@, g, now),
                  !.credentials[new] = NewCredential(c, role)]
    BY <1>6 DEF RotateCredential
  <2>2. /\ db'.proofs = db.proofs /\ db'.restoreRequired = db.restoreRequired
        /\ db'.clients = db.clients
        /\ db'.credentials = [db.credentials EXCEPT
                                 ![k] = Demote(@, g, now),
                                 ![new] = NewCredential(c, role)]
        /\ names' = names \cup {new} /\ backup' = backup
    BY <1>3, <1>6, <2>1 DEF RotateCredential, Database
  <2>3. Demote(db.credentials[k], g, now).client = c
    BY <1>3, <2>1 DEF Demote, Database, CredentialRow
  <2>4. c \in names
    BY <2>1 DEF IInv, Drawn
  <2>5. \A j \in Credential : db'.credentials[j] # None =>
            \/ db'.credentials[j].client = c
            \/ db'.credentials[j] = db.credentials[j]
    BY <1>3, <2>2, <2>3 DEF Database, NewCredential
  <2>6. Drawn(db)' /\ AcceptedDrawn' /\ BackupSealed'
    BY <1>1, <2>2, <2>4, <2>5 DEF IInv, Drawn, AcceptedDrawn, BackupSealed
  <2>7. Spent'
    BY <1>1, <2>2 DEF IInv, Spent
  <2> QED
    BY <2>6, <2>7
<1>7. ASSUME NEW row \in ProofRow, NEW now
      PROVE  /\ CutShort(row, now).client = row.client
             /\ CutShort(row, now).consumedBy = row.consumedBy
  BY DEF CutShort, ProofRow
<1>8. ASSUME NEW row \in CredentialRow, NEW now
      PROVE  RevokeRow(row, now).client = row.client
  BY DEF RevokeRow, CredentialRow
<1>9. ASSUME UNCHANGED <<names, backup>>,
             \A p \in Proof : db'.proofs[p] # None =>
                 /\ db.proofs[p] # None
                 /\ db'.proofs[p].client = db.proofs[p].client
                 /\ db'.proofs[p].consumedBy = db.proofs[p].consumedBy,
             \A k \in Credential : db'.credentials[k] # None =>
                 /\ db.credentials[k] # None
                 /\ db'.credentials[k].client = db.credentials[k].client
      PROVE  Drawn(db)' /\ AcceptedDrawn' /\ BackupSealed'
  BY <1>1, <1>9 DEF IInv, Drawn, AcceptedDrawn, BackupSealed
<1>10. ASSUME NEW now \in Sampled, NEW c \in Client, RevokeClient(c, now)
       PROVE  Drawn(db)' /\ AcceptedDrawn' /\ Spent' /\ BackupSealed'
  <2>1. /\ UNCHANGED <<names, backup>>
        /\ db'.restoreRequired = db.restoreRequired
        /\ db'.clients = [db.clients EXCEPT ![c] = "revoked"]
        /\ \A p \in Proof : \/ db'.proofs[p] = db.proofs[p]
                              \/ /\ db.proofs[p] # None
                                 /\ db'.proofs[p] = CutShort(db.proofs[p], now)
        /\ \A k \in Credential : \/ db'.credentials[k] = db.credentials[k]
                                   \/ /\ db.credentials[k] # None
                                      /\ db'.credentials[k] = RevokeRow(db.credentials[k], now)
    BY <1>3, <1>10 DEF RevokeClient, Database
  <2>2. /\ \A p \in Proof : db'.proofs[p] # None =>
               /\ db.proofs[p] # None
               /\ db'.proofs[p].client = db.proofs[p].client
               /\ db'.proofs[p].consumedBy = db.proofs[p].consumedBy
        /\ \A k \in Credential : db'.credentials[k] # None =>
               /\ db.credentials[k] # None
               /\ db'.credentials[k].client = db.credentials[k].client
    BY <1>3, <1>7, <1>8, <2>1 DEF Database
  <2>3. Spent'
    BY <1>1, <1>3, <2>1, <2>2 DEF IInv, Spent, Database
  <2> QED
    BY <1>9, <2>1, <2>2, <2>3
<1>11. ASSUME NEW now \in Sampled, Cleanup(now)
       PROVE  Drawn(db)' /\ AcceptedDrawn' /\ Spent' /\ BackupSealed'
  <2>1. /\ UNCHANGED <<names, backup>>
        /\ db'.restoreRequired = db.restoreRequired
        /\ db'.clients = db.clients
        /\ \A p \in Proof : db'.proofs[p] \in {None, db.proofs[p]}
        /\ \A k \in Credential : db'.credentials[k] \in {None, db.credentials[k]}
    BY <1>3, <1>11 DEF Cleanup, Database
  <2>2. Spent'
    BY <1>1, <1>3, <2>1 DEF IInv, Spent
  <2> QED
    BY <1>9, <2>1, <2>2
<1>12. ASSUME NEW now \in Sampled, ActivateRestore(now)
       PROVE  Drawn(db)' /\ AcceptedDrawn' /\ Spent' /\ BackupSealed'
  <2>1. /\ UNCHANGED <<names, backup>>
        /\ \A c \in Client : db'.clients[c] # "active"
        /\ \A p \in Proof : \/ db'.proofs[p] = db.proofs[p]
                              \/ /\ db.proofs[p] # None
                                 /\ db'.proofs[p] = CutShort(db.proofs[p], now)
        /\ \A k \in Credential : \/ db'.credentials[k] = db.credentials[k]
                                   \/ /\ db.credentials[k] # None
                                      /\ db'.credentials[k] = RevokeRow(db.credentials[k], now)
    BY <1>3, <1>12 DEF ActivateRestore, ActivatedStatus, Database
  <2>2. /\ \A p \in Proof : db'.proofs[p] # None =>
               /\ db.proofs[p] # None
               /\ db'.proofs[p].client = db.proofs[p].client
               /\ db'.proofs[p].consumedBy = db.proofs[p].consumedBy
        /\ \A k \in Credential : db'.credentials[k] # None =>
               /\ db.credentials[k] # None
               /\ db'.credentials[k].client = db.credentials[k].client
    BY <1>3, <1>7, <1>8, <2>1 DEF Database
  <2>3. Spent'
    BY <1>1, <1>3, <2>1 DEF Spent, Database, ProofRow
  <2> QED
    BY <1>9, <2>1, <2>2, <2>3
<1>13. ASSUME TakeBackup
       PROVE  Drawn(db)' /\ AcceptedDrawn' /\ Spent' /\ BackupSealed'
  <2>1. /\ db' = db /\ names' = names
        /\ backup'.restoreRequired = TRUE /\ backup'.proofs = db.proofs
        /\ backup'.credentials = db.credentials
    BY <1>3, <1>13 DEF TakeBackup, Sealed, Database
  <2> QED
    BY <1>1, <2>1 DEF IInv, Drawn, AcceptedDrawn, Spent, BackupSealed
<1>14. ASSUME RestoreBackup
       PROVE  Drawn(db)' /\ AcceptedDrawn' /\ Spent' /\ BackupSealed'
  BY <1>1, <1>14
  DEF RestoreBackup, IInv, Drawn, AcceptedDrawn, Spent, BackupSealed
<1> QED
  BY <1>5, <1>6, <1>10, <1>11, <1>12, <1>13, <1>14 DEF Administer

LEMMA NextPreserves == IInv /\ [Next]_vars => IInv'
<1> SUFFICES ASSUME IInv, [Next]_vars PROVE IInv'
  OBVIOUS
<1>1. ASSUME NEW r \in Request, SendIssue(r) \/ SendVerify(r) \/ Handle(r)
      PROVE  IInv'
  BY <1>1, HandlerPreserves, IssuePreserves, JudgePreserves DEF Handle
<1>2. CASE Crash
  BY <1>2, CrashPreserves
<1>3. CASE Administer
  BY <1>3, AdminPreserves
<1>4. CASE Tick \/ ClockStepsBack
  <2>1. UNCHANGED <<db, backup, requests, names, accepted>>
    BY <1>4 DEF Tick, ClockStepsBack
  <2>2. clock' \in Nat
    BY <1>4, BoundAssumption DEF Tick, ClockStepsBack, IInv, TypeOK
  <2>3. TypeOK' /\ Identified'
    BY <2>1, <2>2 DEF IInv, TypeOK, Identified
  <2> QED
    BY <2>1, <2>3, RowsUntouched DEF IInv
<1>5. CASE UNCHANGED vars
  <2>1. TypeOK' /\ Identified'
    BY <1>5 DEF vars, IInv, TypeOK, Identified
  <2> QED
    BY <1>5, <2>1, RowsUntouched DEF vars, IInv
<1> QED
  BY <1>1, <1>2, <1>3, <1>4, <1>5 DEF Next

THEOREM Invariance == Spec => []IInv
<1>1. Init => IInv
  BY InitEstablishes
<1>2. IInv /\ [Next]_vars => IInv'
  BY NextPreserves
<1> QED
  BY <1>1, <1>2, PTL DEF Spec

(* The database, the snapshot and every request keep their types.          *)
THEOREM TypeCorrect == Spec => []TypeOK
<1>1. IInv => TypeOK
  BY DEF IInv
<1> QED
  BY <1>1, Invariance, PTL

(* Two decisions never accept the same proof.                              *)
THEOREM OneWitness == Spec => []AtMostOneWitness
<1>1. IInv => AtMostOneWitness
  BY DEF IInv
<1> QED
  BY <1>1, Invariance, PTL
-----------------------------------------------------------------------------
(***************************************************************************)
(* The refinement.  In addition to IInv, every row from which an answer    *)
(* can be made agrees with the history of acceptances, in a backup too.    *)
(***************************************************************************)
(* The inductive invariant *)

TrueIn(acceptances, p, decision) ==
    /\ decision.verdict = "verified_once" => <<p, decision.id>> \in acceptances
    /\ decision.verdict = "already_consumed" =>
          \E w \in Request : <<p, w>> \in acceptances

\* What the rows of d say of acceptances has happened.
Backed(d, acceptances) ==
    /\ \A p \in Proof : d.proofs[p] # None /\ d.proofs[p].consumedBy # None =>
          <<p, d.proofs[p].consumedBy>> \in acceptances
    /\ \A v \in Request : d.verifications[v] # None =>
          TrueIn(acceptances, d.verifications[v].proof, d.verifications[v].decision)

\* ... and what the answers that are on their way say.
Truthful(q, drawn, acceptances) ==
    /\ q.receipt # None => q.receipt.proof \in drawn
    /\ q.decision # None => TrueIn(acceptances, q.proof, q.decision)

AllTruthful == \A r \in Request : Truthful(requests[r], names, accepted)

PInv ==
    /\ IInv
    /\ Backed(db, accepted)
    /\ backup # None => Backed(backup, accepted)
    /\ AllTruthful

LEMMA InitPromises == Init => PInv
<1> SUFFICES ASSUME Init PROVE PInv
  OBVIOUS
<1>1. Backed(db, accepted) /\ backup = None
  BY DEF Init, EmptyDatabase, Backed
<1>2. AllTruthful
  BY DEF Init, Idle, AllTruthful, Truthful
<1> QED
  BY <1>1, <1>2, InitEstablishes DEF PInv

(* The history only grows, and what is true of it stays true.              *)
LEMMA BackedGrows ==
    ASSUME NEW d, NEW A, NEW B, A \subseteq B, Backed(d, A)
    PROVE  Backed(d, B)
BY DEF Backed, TrueIn

LEMMA TruthfulGrows ==
    ASSUME NEW q, NEW N, NEW M, N \subseteq M, NEW A, NEW B, A \subseteq B,
           Truthful(q, N, A)
    PROVE  Truthful(q, M, B)
BY DEF Truthful, TrueIn

-----------------------------------------------------------------------------
(* The steps of a request that change no row *)

(* No request that is done moves, and what is new in an answer is true.    *)
LEMMA HandlerKeeps ==
    ASSUME NEW r \in Request,
           SendIssue(r) \/ SendVerify(r) \/ Authenticate(r) \/ CheckPolicy(r)
              \/ RefuseIssue(r) \/ Lookup(r) \/ Recall(r) \/ EndVerify(r) \/ StoreFails(r)
    PROVE  UNCHANGED <<clock, db, backup, names, accepted>> /\ requests[r].step # "done"
BY DEF SendIssue, SendVerify, Authenticate, CheckPolicy, RefuseIssue, Lookup, Recall,
       EndVerify, StoreFails, At, InFlight

LEMMA HandlerMoves ==
    ASSUME PInv, NEW r \in Request,
           SendIssue(r) \/ SendVerify(r) \/ Authenticate(r) \/ CheckPolicy(r)
              \/ RefuseIssue(r) \/ Lookup(r) \/ Recall(r) \/ EndVerify(r) \/ StoreFails(r)
    PROVE  \E q : /\ requests' = [requests EXCEPT ![r] = q] /\ q.step # "done"
                  /\ Truthful(q, names, accepted)
<1>3. requests[r] \in RequestState /\ Truthful(requests[r], names, accepted)
  BY DEF PInv, IInv, TypeOK, AllTruthful
<1> DEFINE Goal == \E q : /\ requests' = [requests EXCEPT ![r] = q] /\ q.step # "done"
                          /\ Truthful(q, names, accepted)
<1>4. ASSUME Refuse(r) PROVE Goal
  <2>1. /\ [Idle EXCEPT !.step = "reply"].step # "done"
        /\ Truthful([Idle EXCEPT !.step = "reply"], names, accepted)
    BY DEF Idle, Truthful
  <2> QED
    BY <1>4, <2>1 DEF Refuse
<1>5. ASSUME NEW step, Goto(r, step), step # "done" PROVE Goal
  <2>1. /\ [requests[r] EXCEPT !.step = step].step # "done"
        /\ Truthful([requests[r] EXCEPT !.step = step], names, accepted)
    BY <1>3, <1>5 DEF RequestState, Truthful
  <2> QED
    BY <1>5, <2>1 DEF Goto
<1>6. ASSUME NEW v \in Request, db.verifications[v] # None, AnswerFromRow(r, v)
      PROVE  Goal
  <2> DEFINE row == db.verifications[v]
             q == Decided(requests[r], row.decision)
  <2>1. CASE Refuse(r)
    BY <1>4, <2>1
  <2>2. CASE SameFingerprint(row, requests[r]) /\ requests' = [requests EXCEPT ![r] = q]
    <3>1. TrueIn(accepted, requests[r].proof, row.decision)
      BY <1>6, <2>2 DEF PInv, Backed, SameFingerprint
    <3>2. /\ q.step = "reply" /\ q.decision = row.decision
          /\ q.proof = requests[r].proof /\ q.receipt = requests[r].receipt
      BY <1>3 DEF Decided, Answered, RequestState
    <3>3. Truthful(q, names, accepted)
      BY <1>3, <3>1, <3>2 DEF Truthful
    <3> QED
      BY <2>2, <3>2, <3>3
  <2> QED
    BY <1>6, <2>1, <2>2 DEF AnswerFromRow
<1>7. CASE SendIssue(r) \/ SendVerify(r)
  <2>1. PICK q : /\ requests' = [requests EXCEPT ![r] = q] /\ q.step = "authenticate"
                 /\ q.receipt = None /\ q.decision = None
    <3>1. CASE SendIssue(r)
      <4>1. PICK k \in (names \cap Credential) \cup {None}, b \in Binding, ttl \in Ttls :
               requests' = [requests EXCEPT ![r] =
                   [Idle EXCEPT !.step = "authenticate", !.operation = "issue",
                       !.credential = k, !.binding = b, !.ttl = ttl, !.at = clock]]
        BY <3>1 DEF SendIssue
      <4> DEFINE q == [Idle EXCEPT !.step = "authenticate", !.operation = "issue",
                           !.credential = k, !.binding = b, !.ttl = ttl, !.at = clock]
      <4>2. q.step = "authenticate" /\ q.receipt = None /\ q.decision = None
        BY DEF Idle
      <4>3. requests' = [requests EXCEPT ![r] = q]
        BY <4>1
      <4> HIDE DEF q
      <4> QED
        BY <4>2, <4>3
    <3>2. CASE SendVerify(r)
      <4>1. PICK k \in (names \cap Credential) \cup {None},
                 p \in (names \cap Proof) \cup {None},
                 b \in Binding, key \in Key \cup {None} :
               requests' = [requests EXCEPT ![r] =
                   [Idle EXCEPT !.step = "authenticate", !.operation = "verify",
                       !.credential = k, !.proof = p, !.binding = b, !.key = key,
                       !.at = clock]]
        BY <3>2 DEF SendVerify
      <4> DEFINE q == [Idle EXCEPT !.step = "authenticate", !.operation = "verify",
                           !.credential = k, !.proof = p, !.binding = b, !.key = key,
                           !.at = clock]
      <4>2. q.step = "authenticate" /\ q.receipt = None /\ q.decision = None
        BY DEF Idle
      <4>3. requests' = [requests EXCEPT ![r] = q]
        BY <4>1
      <4> HIDE DEF q
      <4> QED
        BY <4>2, <4>3
    <3> QED
      BY <1>7, <3>1, <3>2
  <2> QED
    BY <2>1 DEF Truthful
<1>8. CASE Authenticate(r)
  <2>1. CASE Refuse(r)
    BY <1>4, <2>1
  <2>2. CASE ~Refuse(r)
    <3>1. PICK step \in {"policy", "lookup", "commit"} :
             requests' = [requests EXCEPT ![r].step = step,
                      ![r].client = db.credentials[requests[r].credential].client]
      BY <1>8, <2>2 DEF Authenticate
    <3> DEFINE q == [requests[r] EXCEPT !.step = step,
                         !.client = db.credentials[requests[r].credential].client]
    <3>2. requests' = [requests EXCEPT ![r] = q]
      BY <3>1
    <3>3. q.step # "done" /\ Truthful(q, names, accepted)
      BY <1>3 DEF RequestState, Truthful
    <3> QED
      BY <3>2, <3>3
  <2> QED
    BY <2>1, <2>2
<1>9. CASE CheckPolicy(r)
  BY <1>4, <1>5, <1>9 DEF CheckPolicy
<1>10. CASE RefuseIssue(r)
  BY <1>4, <1>10 DEF RefuseIssue
<1>11. CASE Lookup(r)
  BY <1>4, <1>5, <1>11 DEF Lookup
<1>12. CASE Recall(r)
  BY <1>5, <1>6, <1>12 DEF Recall, KeyRows
<1>13. CASE EndVerify(r)
  BY <1>4, <1>6, <1>13 DEF EndVerify, KeyRows
<1>14. CASE StoreFails(r)
  BY <1>4, <1>14 DEF StoreFails
<1> QED
  BY <1>7, <1>8, <1>9, <1>10, <1>11, <1>12, <1>13, <1>14

-----------------------------------------------------------------------------
(* The two transactions of a request *)

LEMMA IssueEffect ==
    ASSUME IInv, NEW r \in Request, IssueProof(r)
    PROVE  \E p \in Proof \ names, q \in RequestState :
             /\ requests' = [requests EXCEPT ![r] = q] /\ requests[r].step = "commit"
             /\ q.step = "reply" /\ q.receipt.proof = p
             /\ q.decision = requests[r].decision /\ q.proof = requests[r].proof
             /\ q.client = requests[r].client /\ q.binding = requests[r].binding
             /\ q.receipt.issuedAt = clock
             /\ q.receipt.expiresAt = clock + requests[r].ttl
             /\ names' = names \cup {p}
             /\ accepted' = accepted /\ backup' = backup
             /\ db'.proofs = [db.proofs EXCEPT ![p] = IssueRow(requests[r], clock)]
             /\ db'.verifications = db.verifications
<1> DEFINE old == requests[r]
           slotted == TakeSlot(db, r, old.client, "issue", clock)
           row == IssueRow(old, clock)
<1>1. PICK p \in Proof \ names :
         /\ db' = [slotted EXCEPT !.proofs[p] = row]
         /\ names' = names \cup {p}
         /\ requests' = [requests EXCEPT ![r] = [Answered(@) EXCEPT
                !.slotAt = clock,
                !.receipt = [proof |-> p, issuedAt |-> clock,
                             expiresAt |-> clock + old.ttl]]]
  BY Zenon DEF IssueProof
<1>2. /\ old \in RequestState /\ db \in Database /\ clock \in Nat /\ old.ttl \in Nat
      /\ old.step = "commit" /\ accepted' = accepted /\ backup' = backup
  BY DEF IInv, TypeOK, RequestState, IssueProof, At
<1> DEFINE receipt == [proof |-> p, issuedAt |-> clock, expiresAt |-> clock + old.ttl]
           q == [Answered(old) EXCEPT !.slotAt = clock, !.receipt = receipt]
<1>3. requests' = [requests EXCEPT ![r] = q]
  BY <1>1
<1>4. /\ receipt \in Receipt /\ receipt.proof = p /\ receipt.issuedAt = clock
      /\ receipt.expiresAt = clock + old.ttl
  BY <1>2 DEF Receipt
<1>5. /\ q \in RequestState /\ q.step = "reply" /\ q.receipt = receipt
      /\ q.decision = old.decision /\ q.proof = old.proof
      /\ q.client = old.client /\ q.binding = old.binding
  <2> HIDE DEF receipt
  <2>1. Answered(old) \in RequestState
    BY <1>2, RequestTyped
  <2>2. q \in RequestState
    BY <1>2, <1>4, <2>1, ReceiptTyped
  <2> QED
    BY <1>2, <2>2 DEF Answered, RequestState
<1>6. /\ db'.proofs = [db.proofs EXCEPT ![p] = row]
      /\ db'.verifications = db.verifications
  <2> HIDE DEF row
  <2> QED
    BY <1>1, <1>2 DEF TakeSlot, Database
<1> HIDE DEF q, receipt
<1> QED
  BY <1>1, <1>2, <1>3, <1>4, <1>5, <1>6

LEMMA JudgeEffect ==
    ASSUME IInv, NEW r \in Request, Judge(r)
    PROVE  LET old == requests[r]
               verdict == Verdict(db, old.proof, old.client, old.binding, clock)
               decision == [verdict |-> verdict, id |-> r, at |-> clock]
           IN  /\ \E q \in RequestState :
                    /\ requests' = [requests EXCEPT ![r] = q] /\ old.step = "commit"
                    /\ q.step = "reply" /\ q.receipt = old.receipt
                    /\ q.decision = decision /\ q.proof = old.proof
                    /\ q.client = old.client /\ q.key = old.key /\ q.binding = old.binding
               /\ names' = names /\ backup' = backup
               /\ accepted' = IF verdict = "verified_once"
                              THEN accepted \cup {<<old.proof, r>>} ELSE accepted
               /\ db'.proofs = IF verdict = "verified_once"
                               THEN [db.proofs EXCEPT ![old.proof].consumedBy = r]
                               ELSE db.proofs
               /\ db'.verifications = [db.verifications EXCEPT
                                          ![r] = VerificationRowOf(old, decision)]
<1> DEFINE old == requests[r]
           verdict == Verdict(db, old.proof, old.client, old.binding, clock)
           decision == [verdict |-> verdict, id |-> r, at |-> clock]
           slotted == TakeSlot(db, r, old.client, "verify", clock)
           row == VerificationRowOf(old, decision)
           q == [Decided(old, decision) EXCEPT !.slotAt = clock]
<1>1. /\ db' = [Consume(slotted, verdict, old.proof, r) EXCEPT !.verifications[r] = row]
      /\ requests' = [requests EXCEPT ![r] = [Decided(@, decision) EXCEPT !.slotAt = clock]]
      /\ accepted' = IF verdict = "verified_once"
                     THEN accepted \cup {<<old.proof, r>>} ELSE accepted
      /\ backup' = backup /\ names' = names
  BY Zenon DEF Judge
<1>2. /\ old \in RequestState /\ db \in Database /\ clock \in Nat /\ old.step = "commit"
  BY DEF IInv, TypeOK, Judge, At
<1>3. decision \in Decision
  <2>1. verdict \in Verdicts
    BY DEF Verdict, Verdicts
  <2> QED
    BY <1>2, <2>1 DEF Decision
<1>4. requests' = [requests EXCEPT ![r] = q]
  BY <1>1
<1>5. /\ q \in RequestState /\ q.step = "reply" /\ q.receipt = old.receipt
      /\ q.decision = decision /\ q.proof = old.proof
      /\ q.client = old.client /\ q.key = old.key /\ q.binding = old.binding
  <2> HIDE DEF decision
  <2>1. Decided(old, decision) \in RequestState
    BY <1>2, <1>3, RequestTyped
  <2>2. q \in RequestState
    BY <1>2, <2>1 DEF RequestState
  <2> QED
    BY <1>2, <1>3, <2>2 DEF Decided, Answered, RequestState
<1>6. /\ slotted.proofs = db.proofs /\ slotted.verifications = db.verifications
      /\ slotted = [db EXCEPT !.rateEvents = slotted.rateEvents]
  BY <1>2 DEF TakeSlot, Database
<1>7. /\ db'.proofs = IF verdict = "verified_once"
                      THEN [db.proofs EXCEPT ![old.proof].consumedBy = r] ELSE db.proofs
      /\ db'.verifications = [db.verifications EXCEPT ![r] = row]
  <2> HIDE DEF verdict, row, slotted
  <2> QED
    BY <1>1, <1>2, <1>6 DEF Consume, Database
<1> HIDE DEF q, decision, verdict, row
<1>8. /\ \E q1 \in RequestState :
            /\ requests' = [requests EXCEPT ![r] = q1] /\ old.step = "commit"
            /\ q1.step = "reply" /\ q1.receipt = old.receipt
            /\ q1.decision = decision /\ q1.proof = old.proof
            /\ q1.client = old.client /\ q1.key = old.key /\ q1.binding = old.binding
  BY <1>2, <1>4, <1>5
<1> QED
  BY <1>1, <1>7, <1>8, Zenon DEF decision, verdict, row

-----------------------------------------------------------------------------
(* Preservation *)

(* Replacing one request's record.                                         *)
LEMMA OneRequestTruthful ==
    ASSUME AllTruthful, NEW r \in Request, NEW q, requests' = [requests EXCEPT ![r] = q],
           requests \in [Request -> RequestState],
           names \subseteq names', accepted \subseteq accepted',
           Truthful(q, names', accepted')
    PROVE  AllTruthful'
<1> SUFFICES ASSUME NEW s \in Request PROVE Truthful(requests'[s], names', accepted')
  BY DEF AllTruthful
<1>1. CASE s = r
  BY <1>1
<1>2. CASE s # r
  <2>1. requests'[s] = requests[s] /\ Truthful(requests[s], names, accepted)
    BY <1>2 DEF AllTruthful
  <2> QED
    BY <2>1, TruthfulGrows
<1> QED
  BY <1>1, <1>2

LEMMA HandlerKeepsPromises ==
    ASSUME PInv, NEW r \in Request,
           SendIssue(r) \/ SendVerify(r) \/ Authenticate(r) \/ CheckPolicy(r)
              \/ RefuseIssue(r) \/ Lookup(r) \/ Recall(r) \/ EndVerify(r) \/ StoreFails(r)
    PROVE  PInv'
<1>1. IInv'
  BY HandlerPreserves DEF PInv
<1>2. UNCHANGED <<clock, db, backup, names, accepted>>
  BY HandlerKeeps
<1>3. PICK q : requests' = [requests EXCEPT ![r] = q] /\ Truthful(q, names, accepted)
  BY HandlerMoves
<1>4. AllTruthful'
  BY <1>2, <1>3, OneRequestTruthful DEF PInv, IInv, TypeOK
<1> QED
  BY <1>1, <1>2, <1>4 DEF PInv

LEMMA ReplyKeepsPromises ==
    ASSUME PInv, NEW r \in Request, Reply(r)
    PROVE  PInv'
<1>1. IInv' /\ UNCHANGED <<clock, db, backup, names, accepted>>
  BY HandlerPreserves DEF PInv, Reply
<1>2. Truthful([requests[r] EXCEPT !.step = "done"], names, accepted)
  BY DEF PInv, IInv, TypeOK, RequestState, AllTruthful, Truthful
<1>3. AllTruthful'
  BY <1>1, <1>2, OneRequestTruthful DEF PInv, IInv, TypeOK, Reply, Goto
<1> QED
  BY <1>1, <1>3 DEF PInv

LEMMA IssueKeepsPromises ==
    ASSUME PInv, NEW r \in Request, IssueProof(r)
    PROVE  PInv'
<1>1. IInv /\ IInv' /\ db \in Database
  BY IssuePreserves DEF PInv, IInv, TypeOK
<1>2. PICK p \in Proof \ names, q \in RequestState :
             /\ requests' = [requests EXCEPT ![r] = q] /\ requests[r].step = "commit"
             /\ q.step = "reply" /\ q.receipt.proof = p
             /\ q.decision = requests[r].decision /\ q.proof = requests[r].proof
             /\ q.client = requests[r].client /\ q.binding = requests[r].binding
             /\ q.receipt.issuedAt = clock
             /\ q.receipt.expiresAt = clock + requests[r].ttl
             /\ names' = names \cup {p}
             /\ accepted' = accepted /\ backup' = backup
             /\ db'.proofs = [db.proofs EXCEPT ![p] = IssueRow(requests[r], clock)]
             /\ db'.verifications = db.verifications
  BY <1>1, IssueEffect
<1>3. Truthful(q, names', accepted')
  BY <1>2 DEF PInv, AllTruthful, Truthful
<1>4. AllTruthful'
  BY <1>1, <1>2, <1>3, OneRequestTruthful DEF PInv, IInv, TypeOK
<1>5. IssueRow(requests[r], clock).consumedBy = None
  BY DEF IssueRow
<1>6. Backed(db, accepted)'
  BY <1>1, <1>2, <1>5 DEF PInv, Backed, Database
<1> QED
  BY <1>1, <1>2, <1>4, <1>6 DEF PInv

LEMMA JudgeKeepsPromises ==
    ASSUME PInv, NEW r \in Request, Judge(r)
    PROVE  PInv'
<1> DEFINE old == requests[r]
           verdict == Verdict(db, old.proof, old.client, old.binding, clock)
           decision == [verdict |-> verdict, id |-> r, at |-> clock]
           row == VerificationRowOf(old, decision)
<1>1. IInv /\ IInv' /\ db \in Database /\ old \in RequestState
  BY JudgePreserves DEF PInv, IInv, TypeOK
<1>2. /\ \E q \in RequestState :
           /\ requests' = [requests EXCEPT ![r] = q]
           /\ q.receipt = old.receipt /\ q.decision = decision /\ q.proof = old.proof
      /\ names' = names /\ backup' = backup
      /\ accepted' = IF verdict = "verified_once"
                     THEN accepted \cup {<<old.proof, r>>} ELSE accepted
      /\ db'.proofs = IF verdict = "verified_once"
                      THEN [db.proofs EXCEPT ![old.proof].consumedBy = r]
                      ELSE db.proofs
      /\ db'.verifications = [db.verifications EXCEPT ![r] = row]
  BY <1>1, JudgeEffect
<1>3. decision.verdict = verdict /\ decision.id = r
  OBVIOUS
<1>4. verdict = "verified_once" =>
          old.proof \in Proof /\ db.proofs[old.proof] # None
  BY <1>1 DEF Verdict, Found, RequestState
<1>5. verdict = "already_consumed" =>
          /\ old.proof \in Proof /\ db.proofs[old.proof] # None
          /\ db.proofs[old.proof].consumedBy # None
  BY <1>1 DEF Verdict, Found, RequestState
<1>6. row.proof = old.proof /\ row.decision = decision
  BY DEF VerificationRowOf
<1> HIDE DEF decision, verdict, row
<1>7. accepted \subseteq accepted'
  BY <1>2
<1>8. TrueIn(accepted', old.proof, decision)
  <2>1. verdict = "verified_once" => <<old.proof, decision.id>> \in accepted'
    BY <1>2, <1>3
  <2>2. verdict = "already_consumed" =>
            \E w \in Request : <<old.proof, w>> \in accepted'
    <3>1. SUFFICES ASSUME verdict = "already_consumed"
                   PROVE  \E w \in Request : <<old.proof, w>> \in accepted
      BY <1>7
    <3>2. <<old.proof, db.proofs[old.proof].consumedBy>> \in accepted
      BY <1>5, <3>1 DEF PInv, Backed
    <3>3. db.proofs[old.proof].consumedBy \in Request
      BY <1>1, <1>5, <3>1 DEF Database, ProofRow
    <3> QED
      BY <3>2, <3>3
  <2> QED
    BY <1>3, <2>1, <2>2 DEF TrueIn
<1>9. AllTruthful'
  <2>1. PICK q : /\ requests' = [requests EXCEPT ![r] = q]
                 /\ q.receipt = old.receipt /\ q.decision = decision /\ q.proof = old.proof
    BY <1>2
  <2>2. Truthful(q, names', accepted')
    BY <1>2, <1>8, <2>1 DEF PInv, AllTruthful, Truthful
  <2> QED
    BY <1>1, <1>2, <1>7, <2>1, <2>2, OneRequestTruthful DEF PInv, IInv, TypeOK
<1>10. Backed(db, accepted)'
  <2>1. \A p \in Proof : db'.proofs[p] # None /\ db'.proofs[p].consumedBy # None =>
            <<p, db'.proofs[p].consumedBy>> \in accepted'
    <3> SUFFICES ASSUME NEW p \in Proof, db'.proofs[p] # None,
                        db'.proofs[p].consumedBy # None
                 PROVE  <<p, db'.proofs[p].consumedBy>> \in accepted'
      OBVIOUS
    <3>1. CASE verdict = "verified_once" /\ p = old.proof
      <4>1. db'.proofs[p] = [db.proofs[p] EXCEPT !.consumedBy = r]
        BY <1>1, <1>2, <3>1 DEF Database
      <4>2. db'.proofs[p].consumedBy = r
        BY <1>1, <1>4, <3>1, <4>1 DEF Database, ProofRow
      <4> QED
        BY <1>2, <3>1, <4>2
    <3>2. CASE ~(verdict = "verified_once" /\ p = old.proof)
      <4>1. db'.proofs[p] = db.proofs[p]
        BY <1>1, <1>2, <3>2 DEF Database
      <4> QED
        BY <1>7, <4>1 DEF PInv, Backed
    <3> QED
      BY <3>1, <3>2
  <2>2. \A v \in Request : db'.verifications[v] # None =>
            TrueIn(accepted', db'.verifications[v].proof, db'.verifications[v].decision)
    <3> SUFFICES ASSUME NEW v \in Request, db'.verifications[v] # None
                 PROVE  TrueIn(accepted', db'.verifications[v].proof,
                               db'.verifications[v].decision)
      OBVIOUS
    <3>1. CASE v = r
      BY <1>1, <1>2, <1>6, <1>8, <3>1 DEF Database
    <3>2. CASE v # r
      <4>1. db'.verifications[v] = db.verifications[v]
        BY <1>1, <1>2, <3>2 DEF Database
      <4>2. Backed(db, accepted')
        BY <1>7, BackedGrows DEF PInv
      <4> QED
        BY <4>1, <4>2 DEF Backed
    <3> QED
      BY <3>1, <3>2
  <2> QED
    BY <2>1, <2>2 DEF Backed
<1>11. backup' # None => Backed(backup, accepted)'
  BY <1>2, <1>7, BackedGrows DEF PInv
<1> QED
  BY <1>1, <1>9, <1>10, <1>11 DEF PInv

LEMMA CrashKeepsPromises ==
    ASSUME PInv, Crash
    PROVE  PInv'
<1>1. IInv' /\ UNCHANGED <<clock, db, backup, names, accepted>>
  BY CrashPreserves DEF PInv, Crash
<1>2. AllTruthful'
  <2> SUFFICES ASSUME NEW r \in Request PROVE Truthful(Lost(requests[r]), names, accepted)
    BY <1>1 DEF AllTruthful, Crash
  <2>1. requests[r] \in RequestState /\ Truthful(requests[r], names, accepted)
    BY DEF PInv, IInv, TypeOK, AllTruthful
  <2> QED
    BY <2>1 DEF Lost, Idle, Truthful, RequestState
<1> QED
  BY <1>1, <1>2 DEF PInv

(* The commands only keep rows, remove them, or bring back those of a      *)
(* backup.                                                                 *)
LEMMA AdminKeepsPromises ==
    ASSUME PInv, Administer
    PROVE  PInv'
<1>1. /\ IInv /\ IInv' /\ UNCHANGED <<requests, accepted>> /\ db \in Database
      /\ names \subseteq names'
  BY AdminPreserves
  DEF PInv, IInv, TypeOK, Administer, CreateClient, RotateCredential, RevokeClient,
      Cleanup, ActivateRestore, TakeBackup, RestoreBackup
<1>2. AllTruthful'
  BY <1>1, TruthfulGrows DEF PInv, AllTruthful
<1>3. SUFFICES /\ Backed(db', accepted)
               /\ backup' # None => Backed(backup', accepted)
  BY <1>1, <1>2 DEF PInv
<1>4. ASSUME UNCHANGED backup,
             \A p \in Proof : db'.proofs[p] # None =>
                 /\ db.proofs[p] # None
                 /\ db'.proofs[p].consumedBy = db.proofs[p].consumedBy,
             \A v \in Request : db'.verifications[v] \in {None, db.verifications[v]}
      PROVE  Backed(db', accepted) /\ (backup' # None => Backed(backup', accepted))
  BY <1>4 DEF PInv, Backed
<1>5. ASSUME NEW row \in ProofRow, NEW now
      PROVE  CutShort(row, now).consumedBy = row.consumedBy
  BY DEF CutShort, ProofRow
<1>6. ASSUME NEW c \in Client, NEW i \in Credential, NEW v \in Credential,
             CreateClient(c, i, v)
      PROVE  db'.proofs = db.proofs /\ db'.verifications = db.verifications
             /\ UNCHANGED backup
  BY <1>1, <1>6 DEF CreateClient, Database
<1>7. ASSUME NEW now \in Sampled, NEW c \in Client, NEW role \in Role,
             NEW new \in Credential, NEW g \in Graces,
             RotateCredential(c, role, new, g, now)
      PROVE  db'.proofs = db.proofs /\ db'.verifications = db.verifications
             /\ UNCHANGED backup
  BY <1>1, <1>7 DEF RotateCredential, Database
<1>8. ASSUME NEW now \in Sampled, NEW c \in Client,
             RevokeClient(c, now)
      PROVE  /\ \A p \in Proof : \/ db'.proofs[p] = db.proofs[p]
                                 \/ /\ db.proofs[p] # None
                                    /\ db'.proofs[p] = CutShort(db.proofs[p], now)
             /\ db'.verifications = db.verifications
             /\ UNCHANGED backup
  BY <1>1, <1>8 DEF RevokeClient, Database
<1>9. ASSUME NEW now \in Sampled, Cleanup(now)
      PROVE  /\ \A p \in Proof : db'.proofs[p] \in {None, db.proofs[p]}
             /\ \A v \in Request : db'.verifications[v] \in {None, db.verifications[v]}
             /\ UNCHANGED backup
  BY <1>1, <1>9 DEF Cleanup, Database
<1>10. CASE TakeBackup
  <2>1. db' = db /\ backup'.proofs = db.proofs /\ backup'.verifications = db.verifications
    BY <1>1, <1>10 DEF TakeBackup, Sealed, Database
  <2> QED
    BY <2>1 DEF PInv, Backed
<1>11. CASE RestoreBackup
  BY <1>11 DEF RestoreBackup, PInv
<1>12. ASSUME NEW now \in Sampled, ActivateRestore(now)
      PROVE  /\ \A p \in Proof : \/ db'.proofs[p] = db.proofs[p]
                                 \/ /\ db.proofs[p] # None
                                    /\ db'.proofs[p] = CutShort(db.proofs[p], now)
             /\ db'.verifications = db.verifications
             /\ UNCHANGED backup
  BY <1>1, <1>12 DEF ActivateRestore, Database
<1>13. ASSUME NEW now,
              \A p \in Proof : \/ db'.proofs[p] = db.proofs[p]
                               \/ /\ db.proofs[p] # None
                                  /\ db'.proofs[p] = CutShort(db.proofs[p], now)
       PROVE  \A p \in Proof : db'.proofs[p] # None =>
                 /\ db.proofs[p] # None
                 /\ db'.proofs[p].consumedBy = db.proofs[p].consumedBy
  BY <1>1, <1>5, <1>13 DEF Database
<1>14. CASE \E c \in Client, i, v \in Credential : CreateClient(c, i, v)
  BY <1>4, <1>6, <1>14
<1>15. CASE \E now \in Sampled, c \in Client, role \in Role, new \in Credential,
               g \in Graces : RotateCredential(c, role, new, g, now)
  BY <1>4, <1>7, <1>15
<1>16. ASSUME NEW now \in Sampled, NEW c \in Client, RevokeClient(c, now)
       PROVE  Backed(db', accepted) /\ (backup' # None => Backed(backup', accepted))
  BY <1>4, <1>8, <1>13, <1>16
<1>17. ASSUME NEW now \in Sampled, ActivateRestore(now)
       PROVE  Backed(db', accepted) /\ (backup' # None => Backed(backup', accepted))
  BY <1>4, <1>12, <1>13, <1>17
<1>18. ASSUME NEW now \in Sampled, Cleanup(now)
       PROVE  Backed(db', accepted) /\ (backup' # None => Backed(backup', accepted))
  BY <1>4, <1>9, <1>18
<1> QED
  BY <1>10, <1>11, <1>14, <1>15, <1>16, <1>17, <1>18 DEF Administer

LEMMA NextKeepsPromises == PInv /\ [Next]_vars => PInv'
<1> SUFFICES ASSUME PInv, [Next]_vars PROVE PInv'
  OBVIOUS
<1>1. ASSUME NEW r \in Request, SendIssue(r) \/ SendVerify(r) \/ Handle(r)
      PROVE  PInv'
  BY <1>1, HandlerKeepsPromises, IssueKeepsPromises, JudgeKeepsPromises,
     ReplyKeepsPromises DEF Handle
<1>2. CASE Crash
  BY <1>2, CrashKeepsPromises
<1>3. CASE Administer
  BY <1>3, AdminKeepsPromises
<1>4. CASE Tick \/ ClockStepsBack \/ UNCHANGED vars
  <2>1. UNCHANGED <<db, backup, requests, names, accepted>>
    BY <1>4 DEF Tick, ClockStepsBack, vars
  <2>2. IInv'
    BY NextPreserves DEF PInv
  <2> QED
    BY <2>1, <2>2 DEF PInv, AllTruthful
<1> QED
  BY <1>1, <1>2, <1>3, <1>4 DEF Next

-----------------------------------------------------------------------------
(* The refinement *)

LEMMA InitMaps == Init => Promise!Init
<1> SUFFICES ASSUME Init PROVE Promise!Init
  OBVIOUS
<1>1. \A p \in Proof : AcceptedBy(p) = {} /\ p \notin names
  BY DEF Init, AcceptedBy
<1>2. Life = [p \in Proof |-> "absent"] /\ Witness = [p \in Proof |-> None]
  BY <1>1 DEF Life, Witness, OneOf
<1>3. Told = [r \in Request |-> None]
  BY DEF Init, Idle, Told
<1> QED
  BY <1>2, <1>3 DEF Promise!Init

(* The history of the proofs is a function of names and accepted ...       *)
LEMMA SameHistory ==
    ASSUME accepted' = accepted, \A p \in Proof : p \in names' <=> p \in names
    PROVE  UNCHANGED <<Life, Witness>>
<1>1. \A p \in Proof : AcceptedBy(p)' = AcceptedBy(p)
  BY DEF AcceptedBy
<1>2. Life' = Life
  BY <1>1 DEF Life
<1>3. Witness' = Witness
  BY <1>1 DEF Witness
<1> QED
  BY <1>2, <1>3

(* ... and nobody is told anything while no request gets done.             *)
LEMMA SameTold ==
    ASSUME \A r \in Request : \/ requests'[r] = requests[r]
                              \/ requests[r].step # "done" /\ requests'[r].step # "done"
    PROVE  UNCHANGED Told
BY DEF Told

(* A step that replaces the record of one request.                         *)
LEMMA SameToldOne ==
    ASSUME TypeOK, NEW r \in Request, NEW q, requests' = [requests EXCEPT ![r] = q],
           requests[r].step # "done", q.step # "done"
    PROVE  UNCHANGED Told
<1>1. \A s \in Request : requests'[s] = IF s = r THEN q ELSE requests[s]
  BY DEF TypeOK
<1> QED
  BY <1>1, SameTold

LEMMA IssueMaps ==
    ASSUME PInv, NEW r \in Request, IssueProof(r)
    PROVE  \E p \in Proof : Promise!Issue(p)
<1>1. PICK p \in Proof \ names, q \in RequestState :
             /\ requests' = [requests EXCEPT ![r] = q] /\ requests[r].step = "commit"
             /\ q.step = "reply" /\ q.receipt.proof = p
             /\ q.decision = requests[r].decision /\ q.proof = requests[r].proof
             /\ q.client = requests[r].client /\ q.binding = requests[r].binding
             /\ q.receipt.issuedAt = clock
             /\ q.receipt.expiresAt = clock + requests[r].ttl
             /\ names' = names \cup {p}
             /\ accepted' = accepted /\ backup' = backup
             /\ db'.proofs = [db.proofs EXCEPT ![p] = IssueRow(requests[r], clock)]
             /\ db'.verifications = db.verifications
  BY IssueEffect DEF PInv
<1>2. AcceptedBy(p) = {}
  BY DEF PInv, IInv, AcceptedDrawn, AcceptedBy
<1>3. \A o \in Proof : AcceptedBy(o)' = AcceptedBy(o)
  BY <1>1 DEF AcceptedBy
<1>4. /\ Life[p] = "absent" /\ Life' = [Life EXCEPT ![p] = "issued"]
      /\ Witness' = Witness
  <2>1. Life[p] = "absent"
    BY <1>1, <1>2 DEF Life
  <2>2. Life' = [Life EXCEPT ![p] = "issued"]
    BY <1>1, <1>2, <1>3 DEF Life
  <2>3. Witness' = Witness
    BY <1>3 DEF Witness
  <2> QED
    BY <2>1, <2>2, <2>3
<1>5. UNCHANGED Told
  BY <1>1, SameToldOne DEF PInv, IInv
<1> QED
  BY <1>4, <1>5 DEF Promise!Issue

(* An acceptance is the first of its proof, because its row said so and    *)
(* the invariant Spent says that rows of serving clients do not lie.       *)
LEMMA AcceptMaps ==
    ASSUME PInv, NEW r \in Request, Judge(r)
    PROVE  \/ \E p \in Proof : Promise!Accept(p, r)
           \/ UNCHANGED Promise!vars
<1> DEFINE old == requests[r]
           verdict == Verdict(db, old.proof, old.client, old.binding, clock)
<1>1. PICK q \in RequestState : /\ requests' = [requests EXCEPT ![r] = q]
                                /\ old.step = "commit" /\ q.step = "reply"
  BY JudgeEffect DEF PInv
<1>2. /\ names' = names
      /\ accepted' = IF verdict = "verified_once"
                     THEN accepted \cup {<<old.proof, r>>} ELSE accepted
  BY JudgeEffect DEF PInv
<1>3. UNCHANGED Told
  BY <1>1, SameToldOne DEF PInv, IInv
<1>4. CASE verdict = "verified_once"
  <2>1. PICK p \in Proof : /\ p = old.proof
                           /\ db.proofs[p] # None /\ db.proofs[p].client = old.client
                           /\ db.proofs[p].consumedBy = None
    BY <1>4 DEF Verdict, Found, PInv, IInv, TypeOK, RequestState
  <2>2. ~db.restoreRequired /\ db.clients[old.client] = "active"
    BY DEF Judge, MayVerify, Authority
  <2>3. AcceptedBy(p) = {} /\ p \in names
    BY <2>1, <2>2 DEF PInv, IInv, Spent, Drawn, AcceptedBy
  <2>4. accepted' = accepted \cup {<<p, r>>}
    BY <1>2, <1>4, <2>1
  <2>5. AcceptedBy(p)' = {r}
    BY <2>3, <2>4 DEF AcceptedBy
  <2>6. \A o \in Proof : o # p => AcceptedBy(o)' = AcceptedBy(o)
    BY <2>4 DEF AcceptedBy
  <2>7. Life[p] = "issued" /\ Life' = [Life EXCEPT ![p] = "verified_once"]
    BY <1>2, <2>3, <2>5, <2>6 DEF Life
  <2>8. OneOf({r}) = r
    BY DEF OneOf
  <2>9. Witness' = [Witness EXCEPT ![p] = r]
    BY <2>5, <2>6, <2>8 DEF Witness
  <2> QED
    BY <1>3, <2>7, <2>9 DEF Promise!Accept
<1>5. CASE verdict # "verified_once"
  BY <1>2, <1>3, <1>5, SameHistory DEF Promise!vars
<1> QED
  BY <1>4, <1>5

(* What leaves is true at the moment it leaves.                            *)
LEMMA TellMaps ==
    ASSUME PInv, NEW r \in Request, Reply(r)
    PROVE  Promise!Tell(r)
<1> DEFINE q == requests[r]
           answer == Says(q)
<1>1. q \in RequestState /\ q.step = "reply" /\ Truthful(q, names, accepted)
  BY DEF PInv, IInv, TypeOK, AllTruthful, Reply
<1>2. requests' = [requests EXCEPT ![r].step = "done"] /\ names' = names /\ accepted' = accepted
  BY DEF Reply, Goto
<1>3. UNCHANGED <<Life, Witness>>
  BY <1>2, SameHistory
<1>4. Says(requests'[r]) = answer /\ requests'[r].step = "done"
  BY <1>1, <1>2 DEF Says, RequestState, PInv, IInv, TypeOK
<1>5. Told[r] = None
  BY <1>1 DEF Told
<1>6. Told' = [Told EXCEPT ![r] = answer]
  <2>1. \A s \in Request : s # r => requests'[s] = requests[s]
    BY <1>2 DEF PInv, IInv, TypeOK
  <2> HIDE DEF answer
  <2> QED
    BY <1>4, <2>1 DEF Told
<1>7. answer \in Promise!Truths
  <2>1. CASE q.receipt # None
    <3>1. q.receipt.proof \in Proof /\ q.receipt.proof \in names
      BY <1>1, <2>1 DEF RequestState, Receipt, Truthful
    <3>2. Life[q.receipt.proof] # "absent"
      BY <3>1 DEF Life
    <3> QED
      BY <2>1, <3>1, <3>2 DEF Says, Statement, Promise!Truths, Promise!Issued
  <2>2. CASE q.receipt = None /\ q.decision # None /\ q.decision.verdict = "verified_once"
    <3>1. <<q.proof, q.decision.id>> \in accepted
      BY <1>1, <2>2 DEF Truthful, TrueIn
    <3>2. q.proof \in Proof /\ q.decision.id \in Request
      BY <3>1 DEF PInv, IInv, TypeOK
    <3>3. AcceptedBy(q.proof) = {q.decision.id}
      BY <3>1, <3>2 DEF AcceptedBy, PInv, IInv, AtMostOneWitness
    <3>4. Life[q.proof] = "verified_once" /\ Witness[q.proof] = q.decision.id
      BY <3>2, <3>3 DEF Life, Witness, OneOf
    <3>5. answer = Promise!VerifiedOnce(q.proof, Witness[q.proof])
      BY <2>2, <3>4 DEF Says, Statement, Promise!VerifiedOnce
    <3> QED
      BY <3>2, <3>4, <3>5 DEF Promise!Truths
  <2>3. CASE q.receipt = None /\ q.decision # None /\ q.decision.verdict = "already_consumed"
    <3>1. PICK w \in Request : <<q.proof, w>> \in accepted
      BY <1>1, <2>3 DEF Truthful, TrueIn
    <3>2. q.proof \in Proof /\ AcceptedBy(q.proof) # {}
      BY <3>1 DEF AcceptedBy, PInv, IInv, TypeOK
    <3>3. Life[q.proof] = "verified_once"
      BY <3>2 DEF Life
    <3>4. answer = Promise!AlreadyConsumed(q.proof)
      BY <2>3 DEF Says, Statement, Promise!AlreadyConsumed
    <3> QED
      BY <3>2, <3>3, <3>4 DEF Promise!Truths
  <2>4. CASE q.receipt = None /\ (q.decision = None \/
                q.decision.verdict \notin {"verified_once", "already_consumed"})
    BY <2>4 DEF Says, Statement, Promise!Truths, Promise!Refused
  <2> QED
    BY <2>1, <2>2, <2>3, <2>4
<1> HIDE DEF answer
<1> QED
  BY <1>3, <1>5, <1>6, <1>7 DEF Promise!Tell

LEMMA StepMaps ==
    ASSUME PInv, [Next]_vars
    PROVE  [Promise!Next]_(Promise!vars)
<1>1. ASSUME NEW r \in Request, SendIssue(r) \/ SendVerify(r) \/ Handle(r)
      PROVE  [Promise!Next]_(Promise!vars)
  <2>1. CASE IssueProof(r)
    BY <2>1, IssueMaps DEF Promise!Next
  <2>2. CASE Judge(r)
    BY <2>2, AcceptMaps DEF Promise!Next
  <2>3. CASE Reply(r)
    BY <2>3, TellMaps DEF Promise!Next
  <2>4. CASE SendIssue(r) \/ SendVerify(r) \/ Authenticate(r) \/ CheckPolicy(r)
               \/ RefuseIssue(r) \/ Lookup(r) \/ Recall(r) \/ EndVerify(r) \/ StoreFails(r)
    <3>1. UNCHANGED <<clock, db, backup, names, accepted>> /\ requests[r].step # "done"
      BY <2>4, HandlerKeeps
    <3>2. UNCHANGED Told
      BY <2>4, <3>1, HandlerMoves, SameToldOne DEF PInv, IInv
    <3> QED
      BY <3>1, <3>2, SameHistory DEF Promise!vars
  <2> QED
    BY <1>1, <2>1, <2>2, <2>3, <2>4 DEF Handle
<1>2. CASE Crash
  <2>1. \A r \in Request : \/ requests'[r] = requests[r]
                           \/ requests[r].step # "done" /\ requests'[r].step # "done"
    BY <1>2 DEF Crash, Lost, Idle, InFlight, PInv, IInv, TypeOK, RequestState
  <2> QED
    BY <1>2, <2>1, SameTold, SameHistory DEF Crash, Promise!vars
<1>3. CASE Administer
  <2>1. UNCHANGED <<requests, accepted>> /\ \A p \in Proof : p \in names' <=> p \in names
    BY <1>3, NameAssumption
    DEF Administer, CreateClient, RotateCredential, RevokeClient, Cleanup,
        ActivateRestore, TakeBackup, RestoreBackup
  <2> QED
    BY <2>1, SameTold, SameHistory DEF Promise!vars
<1>4. CASE Tick \/ ClockStepsBack \/ UNCHANGED vars
  <2>1. UNCHANGED <<requests, names, accepted>>
    BY <1>4 DEF Tick, ClockStepsBack, vars
  <2> QED
    BY <2>1, SameTold, SameHistory DEF Promise!vars
<1> QED
  BY <1>1, <1>2, <1>3, <1>4 DEF Next

(* Every answer that leaves the system is true of the proof's one history: *)
(* the ledger, with its retries, deletions, crashes, restores and backward *)
(* clocks, implements OneTimeProof.                                        *)
THEOREM Implements == Spec => PromiseKept
<1>1. Init => PInv /\ Promise!Init
  BY InitPromises, InitMaps
<1>2. PInv /\ [Next]_vars => PInv'
  BY NextKeepsPromises
<1>3. PInv /\ [Next]_vars => [Promise!Next]_(Promise!vars)
  BY StepMaps
<1> QED
  BY <1>1, <1>2, <1>3, PTL DEF Spec, PromiseKept, Promise!Spec
=============================================================================
