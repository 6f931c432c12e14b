------------------------ MODULE LedgerRetentionProofs ------------------------
(***************************************************************************)
(* What depends on the rows that a cleanup deletes and a restore takes:    *)
(* the constraints of the schema, decisions under one key, the answers to  *)
(* the holder of a receipt, and the rate limit, for every retention,       *)
(* window and limit.  In each part, an inductive invariant says that       *)
(* deletions, however late they run, take no row that an answer still      *)
(* depends on, and that a restore, which may take any, leaves nobody who   *)
(* could ask.  Only distances in time need a clock that is not set back.   *)
(***************************************************************************)
EXTENDS LedgerRowsProofs, FiniteSetTheorems

-----------------------------------------------------------------------------
(* The inductive invariant about idempotency keys *)

\* The clients of which a decision may still be told to somebody.
Live(c) ==
    \/ Serves(c)
    \/ \E s \in Request : requests[s].step = "recall" /\ requests[s].client = c

\* A handler has nothing to say before its transaction, and speaks only of
\* what has been drawn.
Fair(q, drawn) ==
    /\ q.step \in {"authenticate", "policy", "lookup", "recall", "commit"} =>
           q.receipt = None /\ q.decision = None
    /\ q.client # None => q.client \in drawn
    /\ q.receipt # None \/ q.decision # None => q.client \in drawn
    /\ q.proof # None => q.proof \in drawn

AllFair == \A r \in Request : Fair(requests[r], names)

\* The decisions of d are filed under the request that decided, and the
\* unique index verification_idempotency holds.
Filed(d, drawn) ==
    /\ \A v \in Request : d.verifications[v] # None =>
           /\ d.verifications[v].decision.id = v
           /\ d.verifications[v].client \in drawn
           /\ d.verifications[v].proof # None => d.verifications[v].proof \in drawn
    /\ \A v, w \in Request :
           /\ d.verifications[v] # None /\ d.verifications[w] # None
           /\ d.verifications[v].client = d.verifications[w].client
           /\ d.verifications[v].key = d.verifications[w].key
           /\ d.verifications[v].key # None
           => v = w

\* The decision told to r is still on file ...
Recorded(r) ==
    LET row == db.verifications[requests[r].decision.id] IN
    /\ row # None
    /\ row.client = requests[r].client /\ row.key = requests[r].key
    /\ row.decision = requests[r].decision

\* ... or it is too old for any other under the same key.
Outlived(r) ==
    LET end == requests[r].decision.at + VerificationRetention IN
    /\ end < clock
    /\ \A v \in Request :
          /\ db.verifications[v] # None
          /\ db.verifications[v].client = requests[r].client
          /\ db.verifications[v].key = requests[r].key
          => end < db.verifications[v].decision.at

Accounted ==
    \A r \in Judged : requests[r].key # None /\ Live(requests[r].client) =>
        Recorded(r) \/ Outlived(r)

Over == {"reply", "done", "lost"}

\* Who decided has nothing left to decide.
Spoken(d) == \A v \in Request : d.verifications[v] # None => requests[v].step \in Over

\* What holds on file whatever the clock does ...
FInv ==
    /\ RInv /\ PInv
    /\ AllFair
    /\ Filed(db, names) /\ Spoken(db)
    /\ backup # None => Filed(backup, names) /\ Spoken(backup)

StillFiled ==
    /\ AllFair' /\ Filed(db', names') /\ Spoken(db)'
    /\ backup' # None => Filed(backup', names') /\ Spoken(backup)'

\* ... and what needs a clock that is not set back.
KInv ==
    /\ FInv
    /\ Accounted
    /\ KeyDecisionsApart

StillApart == KInv /\ StepBack = 0 => Accounted' /\ KeyDecisionsApart'

LEMMA InitAccounted == Init => FInv /\ KInv
<1> SUFFICES ASSUME Init PROVE FInv /\ KInv
  OBVIOUS
<1>1. Filed(db, names) /\ Spoken(db) /\ backup = None
  BY DEF Init, EmptyDatabase, Filed, Spoken
<1>2. AllFair /\ Judged = {}
  BY DEF Init, Idle, AllFair, Fair, Judged
<1>3. Accounted /\ KeyDecisionsApart
  BY <1>2 DEF Accounted, KeyDecisionsApart
<1> QED
  BY <1>1, <1>2, <1>3, InitFirm, InitPromises DEF FInv, KInv

-----------------------------------------------------------------------------
(* The steps of a request that change no row *)

\* A receipt or a decision is what it was, or the decision of a row.
SameReceipt(q, old) ==
    q.receipt # None =>
        q.receipt = old.receipt /\ q.client = old.client /\ q.binding = old.binding

SameDecision(q, old) ==
    /\ q.decision = old.decision /\ q.client = old.client /\ q.key = old.key
    /\ q.proof = old.proof /\ q.binding = old.binding

FromRow(q, v) ==
    /\ db.verifications[v] # None
    /\ db.verifications[v].client = q.client
    /\ db.verifications[v].key = q.key
    /\ db.verifications[v].proof = q.proof
    /\ db.verifications[v].binding = q.binding
    /\ db.verifications[v].decision = q.decision

Moves(q, old) ==
    /\ Fair(q, names)
    /\ SameReceipt(q, old)
    /\ q.decision # None =>
           \/ SameDecision(q, old)
           \/ Live(q.client) /\ \E v \in Request : FromRow(q, v)
    /\ q.step = "recall" => Live(q.client)
    /\ old.step \in Over => q.step \in Over

LEMMA HandlerEffect ==
    ASSUME FInv, NEW r \in Request,
           SendIssue(r) \/ SendVerify(r) \/ Authenticate(r) \/ CheckPolicy(r)
              \/ RefuseIssue(r) \/ Lookup(r) \/ Recall(r) \/ EndVerify(r)
              \/ Reply(r) \/ StoreFails(r)
    PROVE  \E q : requests' = [requests EXCEPT ![r] = q] /\ Moves(q, requests[r])
<1> DEFINE old == requests[r]
           Goal == \E q : requests' = [requests EXCEPT ![r] = q] /\ Moves(q, old)
<1>1. /\ old \in RequestState /\ Fair(old, names) /\ db \in Database /\ Drawn(db)
      /\ names \subseteq Client \cup Credential \cup Proof
  BY DEF FInv, AllFair, RInv, IInv, TypeOK
<1>2. ASSUME Refuse(r) PROVE Goal
  <2> DEFINE q == [Idle EXCEPT !.step = "reply"]
  <2>1. /\ q.step = "reply" /\ q.receipt = None /\ q.decision = None
        /\ q.client = None /\ q.proof = None
    BY DEF Idle
  <2>2. requests' = [requests EXCEPT ![r] = q]
    BY <1>2 DEF Refuse
  <2> HIDE DEF q
  <2> QED
    BY <2>1, <2>2 DEF Moves, Fair, SameReceipt, Over
<1>3. ASSUME NEW step, Goto(r, step), step \in {"commit", "recall", "done"},
             IF step = "done" THEN old.step = "reply"
                              ELSE old.step \in {"policy", "lookup", "recall"},
             step = "recall" => Live(old.client)
      PROVE  Goal
  <2> DEFINE q == [old EXCEPT !.step = step]
  <2>1. /\ q.step = step /\ q.receipt = old.receipt /\ q.decision = old.decision
        /\ q.client = old.client /\ q.proof = old.proof /\ q.key = old.key
        /\ q.binding = old.binding
    BY <1>1 DEF RequestState
  <2>2. requests' = [requests EXCEPT ![r] = q]
    BY <1>3 DEF Goto
  <2> HIDE DEF q
  <2>3. Fair(q, names)
    BY <1>1, <1>3, <2>1 DEF Fair
  <2> QED
    BY <1>3, <2>1, <2>2, <2>3 DEF Moves, SameReceipt, SameDecision, Over
<1>4. ASSUME NEW v \in KeyRows(db, old.client, old.key), AnswerFromRow(r, v),
             Live(old.client), old.step \in {"recall", "commit"}
      PROVE  Goal
  <2> DEFINE row == db.verifications[v]
             q == Decided(old, row.decision)
  <2>1. /\ v \in Request /\ row # None /\ row.client = old.client /\ row.key = old.key
    BY <1>4 DEF KeyRows
  <2>2. CASE Refuse(r)
    BY <1>2, <2>2
  <2>3. CASE SameFingerprint(row, old) /\ requests' = [requests EXCEPT ![r] = q]
    <3>1. /\ q.step = "reply" /\ q.receipt = old.receipt /\ q.decision = row.decision
          /\ q.client = old.client /\ q.proof = old.proof /\ q.key = old.key
          /\ q.binding = old.binding
      BY <1>1 DEF Decided, Answered, RequestState
    <3>2. row.proof = q.proof /\ row.binding = q.binding
      BY <2>3, <3>1 DEF SameFingerprint
    <3>3. requests' = [requests EXCEPT ![r] = q]
      BY <2>3
    <3> HIDE DEF q
    <3>4. Fair(q, names)
      BY <1>1, <2>1, <3>1 DEF Fair, FInv, Filed
    <3>5. FromRow(q, v)
      BY <2>1, <3>1, <3>2 DEF FromRow
    <3>6. Moves(q, old)
      BY <1>4, <2>1, <3>1, <3>4, <3>5 DEF Moves, SameReceipt, Over
    <3> QED
      BY <3>3, <3>6
  <2> QED
    BY <1>4, <2>2, <2>3 DEF AnswerFromRow
<1>5. CASE SendIssue(r)
  <2>1. PICK k \in (names \cap Credential) \cup {None}, b \in Binding, ttl \in Ttls :
           requests' = [requests EXCEPT ![r] =
               [Idle EXCEPT !.step = "authenticate", !.operation = "issue",
                   !.credential = k, !.binding = b, !.ttl = ttl, !.at = clock]]
    BY <1>5 DEF SendIssue
  <2> DEFINE q == [Idle EXCEPT !.step = "authenticate", !.operation = "issue",
                       !.credential = k, !.binding = b, !.ttl = ttl, !.at = clock]
  <2>2. /\ q.step = "authenticate" /\ q.receipt = None /\ q.decision = None
        /\ q.client = None /\ q.proof = None
    BY DEF Idle
  <2>3. requests' = [requests EXCEPT ![r] = q]
    BY <2>1
  <2> HIDE DEF q
  <2> QED
    BY <1>5, <2>2, <2>3 DEF SendIssue, Moves, Fair, SameReceipt, Over
<1>6. CASE SendVerify(r)
  <2>1. PICK k \in (names \cap Credential) \cup {None},
             p \in (names \cap Proof) \cup {None},
             b \in Binding, key \in Key \cup {None} :
           requests' = [requests EXCEPT ![r] =
               [Idle EXCEPT !.step = "authenticate", !.operation = "verify",
                   !.credential = k, !.proof = p, !.binding = b, !.key = key,
                   !.at = clock]]
    BY <1>6 DEF SendVerify
  <2> DEFINE q == [Idle EXCEPT !.step = "authenticate", !.operation = "verify",
                       !.credential = k, !.proof = p, !.binding = b, !.key = key,
                       !.at = clock]
  <2>2. /\ q.step = "authenticate" /\ q.receipt = None /\ q.decision = None
        /\ q.client = None /\ q.proof = p
    BY DEF Idle
  <2>3. requests' = [requests EXCEPT ![r] = q]
    BY <2>1
  <2> HIDE DEF q
  <2> QED
    BY <1>6, <2>2, <2>3 DEF SendVerify, Moves, Fair, SameReceipt, Over
<1>7. CASE Authenticate(r)
  <2>1. CASE Refuse(r)
    BY <1>2, <2>1
  <2>2. CASE ~Refuse(r)
    <3>1. PICK step \in {"policy", "lookup", "commit"} :
             /\ requests' = [requests EXCEPT ![r].step = step,
                      ![r].client = db.credentials[old.credential].client]
             /\ old.step = "authenticate"
             /\ old.credential # None /\ db.credentials[old.credential] # None
      BY <1>7, <2>2 DEF Authenticate, Authentic
    <3> DEFINE c == db.credentials[old.credential].client
               q == [old EXCEPT !.step = step, !.client = c]
    <3>2. requests' = [requests EXCEPT ![r] = q]
      BY <3>1
    <3>3. c \in names
      BY <1>1, <3>1 DEF Drawn, RequestState
    <3>4. /\ q.step = step /\ q.receipt = None /\ q.decision = None
          /\ q.client = c /\ q.proof = old.proof
      BY <1>1, <3>1 DEF RequestState, Fair
    <3> HIDE DEF q, c
    <3> QED
      BY <1>1, <3>1, <3>2, <3>3, <3>4 DEF Moves, Fair, SameReceipt, Over
  <2> QED
    BY <2>1, <2>2
<1>8. CASE CheckPolicy(r)
  BY <1>2, <1>3, <1>8 DEF CheckPolicy
<1>9. CASE RefuseIssue(r)
  BY <1>2, <1>9 DEF RefuseIssue
<1>10. CASE Lookup(r)
  <2>1. Authority(db, old.credential, old.client, "verification", clock)
           /\ ~db.restoreRequired => Live(old.client)
    BY DEF Authority, Live, Serves
  <2> QED
    BY <1>2, <1>3, <1>10, <2>1 DEF Lookup
<1>11. CASE Recall(r)
  <2>1. Live(old.client)
    BY <1>11 DEF Recall, Live
  <2> QED
    BY <1>3, <1>4, <1>11, <2>1 DEF Recall
<1>12. CASE EndVerify(r)
  <2>1. MayVerify(db, old, clock) => Live(old.client)
    BY DEF MayVerify, Authority, Live, Serves
  <2> QED
    BY <1>2, <1>4, <1>12, <2>1 DEF EndVerify, At
<1>13. CASE Reply(r)
  BY <1>3, <1>13 DEF Reply
<1>14. CASE StoreFails(r)
  BY <1>2, <1>14 DEF StoreFails
<1> QED
  BY <1>5, <1>6, <1>7, <1>8, <1>9, <1>10, <1>11, <1>12, <1>13, <1>14

-----------------------------------------------------------------------------
(* One decision per key and retention *)

ApartFrom(q, s) ==
    /\ q.client = s.client /\ q.key = s.key /\ q.key # None
    /\ q.decision.id # s.decision.id
    /\ q.decision.at <= s.decision.at
    => s.decision.at - q.decision.at > VerificationRetention

LEMMA PairwiseApart ==
    KeyDecisionsApart <=> \A r, s \in Judged : ApartFrom(requests[r], requests[s])
BY DEF KeyDecisionsApart, ApartFrom

LEMMA JudgedTyped ==
    ASSUME TypeOK, NEW r \in Judged
    PROVE  /\ r \in Request /\ requests[r].decision \in Decision
           /\ requests[r].decision.at \in Nat /\ VerificationRetention \in Nat
           /\ clock \in Nat
BY BoundAssumption DEF TypeOK, Judged, RequestState, Decision

LEMMA RowTyped ==
    ASSUME TypeOK, NEW v \in Request, db.verifications[v] # None
    PROVE  /\ db.verifications[v] \in VerificationRow
           /\ db.verifications[v].decision.at \in Nat
BY DEF TypeOK, Database, VerificationRow, Decision

(* A handler that changes no row: what it now says is on file.             *)
LEMMA HandlerAccounted ==
    ASSUME FInv, NEW r \in Request, NEW q, requests' = [requests EXCEPT ![r] = q],
           Moves(q, requests[r]), UNCHANGED <<clock, db, backup, names>>, TypeOK'
    PROVE  StillFiled /\ StillApart
<1> DEFINE old == requests[r]
<1>1. /\ TypeOK /\ \A s \in Request : requests'[s] = IF s = r THEN q ELSE requests[s]
  BY DEF FInv, RInv, IInv, TypeOK
<1>2. StillFiled
  BY <1>1 DEF StillFiled, FInv, AllFair, Spoken, Moves
<1>3. ASSUME NEW c, Live(c)' PROVE Live(c)
  BY <1>1, <1>3 DEF Live, Serves, Moves
<1>4. ASSUME NEW s \in Judged', s # r
      PROVE  s \in Judged /\ requests'[s] = requests[s]
  BY <1>1, <1>4 DEF Judged
<1>5. ASSUME q.decision # None, SameDecision(q, old)
      PROVE  r \in Judged
  BY <1>5 DEF SameDecision, Judged
<1>6. ASSUME NEW v \in Request, FromRow(q, v)
      PROVE  /\ db.verifications[v].decision.id = v /\ q.decision.id = v
             /\ db.verifications[v] # None
             /\ db.verifications[v].client = q.client
             /\ db.verifications[v].key = q.key
             /\ db.verifications[v].decision = q.decision
  BY <1>6 DEF FInv, Filed, FromRow
<1>7. ASSUME KInv, NEW s \in Judged', requests'[s].key # None, Live(requests[s].client)'
      PROVE  Recorded(s)' \/ Outlived(s)'
  <2>1. PICK c : c = requests'[s].client
    OBVIOUS
  <2>2. Live(c)
    BY <1>3, <1>7, <2>1
  <2>3. CASE s # r
    <3>1. Recorded(s) \/ Outlived(s)
      BY <1>4, <1>7, <2>1, <2>2, <2>3 DEF KInv, Accounted
    <3> QED
      BY <1>4, <2>3, <3>1 DEF Recorded, Outlived
  <2>4. CASE s = r /\ SameDecision(q, old)
    <3>1. q.decision # None /\ requests'[r] = q
      BY <1>1, <2>4 DEF Judged
    <3>2. Recorded(r) \/ Outlived(r)
      BY <1>5, <1>7, <2>1, <2>2, <2>4, <3>1 DEF KInv, Accounted, SameDecision
    <3> QED
      BY <2>4, <3>1, <3>2 DEF Recorded, Outlived, SameDecision
  <2>5. CASE s = r /\ \E v \in Request : FromRow(q, v)
    <3>1. requests'[r] = q
      BY <1>1
    <3> QED
      BY <1>6, <2>5, <3>1 DEF Recorded
  <2> QED
    BY <1>1, <2>3, <2>4, <2>5 DEF Judged, Moves
<1>8. KInv => Accounted'
  BY <1>3, <1>7 DEF Accounted
<1>9. ASSUME KInv, NEW s \in Judged, NEW v \in Request, FromRow(q, v), Live(q.client)
      PROVE  ApartFrom(q, requests[s]) /\ ApartFrom(requests[s], q)
  <2>1. SUFFICES ASSUME requests[s].client = q.client, requests[s].key = q.key,
                        q.key # None, q.decision.id # requests[s].decision.id
                 PROVE  requests[s].decision.at + VerificationRetention < q.decision.at
    BY <1>1, <1>6, <1>9, JudgedTyped, RowTyped DEF ApartFrom
  <2>2. Recorded(s) \/ Outlived(s)
    BY <1>9, <2>1 DEF KInv, Accounted
  <2>3. ~Recorded(s)
    <3>1. requests[s].decision.id \in Request
      BY <1>1, JudgedTyped DEF Decision
    <3> QED
      BY <1>6, <1>9, <2>1, <3>1 DEF FInv, Filed, Recorded
  <2> QED
    BY <1>6, <1>9, <2>1, <2>2, <2>3 DEF Outlived
<1>10. ASSUME KInv, NEW s \in Judged', NEW t \in Judged'
       PROVE  ApartFrom(requests'[s], requests'[t])
  <2>1. \A a, b \in Judged : ApartFrom(requests[a], requests[b])
    BY <1>10, PairwiseApart DEF KInv
  <2>2. CASE s # r /\ t # r
    BY <1>4, <2>1, <2>2
  <2>3. CASE s = r /\ t = r
    BY <2>3 DEF ApartFrom
  <2>4. CASE (s = r) # (t = r)
    <3>1. requests'[r] = q /\ q.decision # None
      BY <1>1, <2>4 DEF Judged
    <3>2. CASE SameDecision(q, old)
      BY <1>4, <1>5, <2>1, <2>4, <3>1, <3>2 DEF ApartFrom, SameDecision
    <3>3. CASE Live(q.client) /\ \E v \in Request : FromRow(q, v)
      BY <1>4, <1>9, <1>10, <2>4, <3>1, <3>3
    <3> QED
      BY <3>1, <3>2, <3>3 DEF Moves
  <2> QED
    BY <2>2, <2>3, <2>4
<1>11. KInv => KeyDecisionsApart'
  BY <1>10 DEF KeyDecisionsApart, ApartFrom
<1> QED
  BY <1>2, <1>8, <1>11 DEF StillApart

(* The new decision is on file, and whatever was told before under its key *)
(* and is not on file is too old.                                          *)
LEMMA JudgeAccounted ==
    ASSUME FInv, NEW r \in Request, Judge(r), TypeOK'
    PROVE  StillFiled /\ StillApart
<1> DEFINE old == requests[r]
           verdict == Verdict(db, old.proof, old.client, old.binding, clock)
           decision == [verdict |-> verdict, id |-> r, at |-> clock]
           row == VerificationRowOf(old, decision)
<1>1. /\ IInv /\ TypeOK /\ db \in Database /\ clock \in Nat /\ old \in RequestState
      /\ Fair(old, names) /\ clock' = clock
  BY DEF FInv, AllFair, RInv, IInv, TypeOK, Judge
<1>2. /\ Serves(old.client) /\ KeyRows(db, old.client, old.key) = {} /\ old.client # None
      /\ old.client \in Client
  BY NoneAssumption DEF Judge, MayVerify, Authority, Serves, FInv, RInv, IInv, Identified, At
<1>3. PICK q \in RequestState :
         /\ requests' = [requests EXCEPT ![r] = q] /\ old.step = "commit"
         /\ q.step = "reply" /\ q.receipt = old.receipt
         /\ q.decision = decision /\ q.proof = old.proof
         /\ q.client = old.client /\ q.key = old.key /\ q.binding = old.binding
  BY <1>1, JudgeEffect
<1>4. /\ names' = names /\ backup' = backup
      /\ db'.verifications = [db.verifications EXCEPT ![r] = row]
  BY <1>1, JudgeEffect
<1>5. /\ row.client = old.client /\ row.key = old.key /\ row.proof = old.proof
      /\ row.decision = decision /\ decision.id = r /\ decision.at = clock
  BY DEF VerificationRowOf
<1> HIDE DEF decision, row, verdict
<1>6. /\ \A s \in Request : requests'[s] = IF s = r THEN q ELSE requests[s]
      /\ \A v \in Request : db'.verifications[v] = IF v = r THEN row ELSE db.verifications[v]
  BY <1>1, <1>3, <1>4 DEF TypeOK, Database
<1>7. db.verifications[r] = None /\ row # None
  <2>1. db.verifications[r] = None
    BY <1>3 DEF FInv, Spoken, Over
  <2>2. row \in VerificationRow \cup {None}
    BY <1>6 DEF TypeOK, Database
  <2>3. row \in VerificationRow
    <3>1. old.binding \in Binding
      BY <1>1, <1>3 DEF IInv, Identified
    <3>2. decision \in Decision
      <4>1. verdict \in Verdicts
        BY DEF verdict, Verdict, Verdicts
      <4> QED
        BY <1>1, <4>1 DEF decision, Decision
    <3> QED
      BY <1>1, <1>2, <3>1, <3>2 DEF row, VerificationRowOf, VerificationRow, RequestState
  <2> QED
    BY <2>1, <2>3, RowAssumption
<1>8. \A v \in Request : ~(/\ old.key # None /\ db.verifications[v] # None
                           /\ db.verifications[v].client = old.client
                           /\ db.verifications[v].key = old.key)
  BY <1>2 DEF KeyRows
<1>9. Filed(db', names')
  <2>1. \A v \in Request : db'.verifications[v] # None =>
           /\ db'.verifications[v].decision.id = v
           /\ db'.verifications[v].client \in names'
           /\ db'.verifications[v].proof # None => db'.verifications[v].proof \in names'
    BY <1>1, <1>2, <1>4, <1>5, <1>6 DEF FInv, Filed, Fair
  <2>2. \A v, w \in Request :
           /\ db'.verifications[v] # None /\ db'.verifications[w] # None
           /\ db'.verifications[v].client = db'.verifications[w].client
           /\ db'.verifications[v].key = db'.verifications[w].key
           /\ db'.verifications[v].key # None
           => v = w
    BY <1>5, <1>6, <1>8 DEF FInv, Filed
  <2> QED
    BY <2>1, <2>2 DEF Filed
<1>10. AllFair'
  BY <1>1, <1>2, <1>3, <1>4, <1>6 DEF FInv, AllFair, Fair
<1>11. Spoken(db)' /\ (backup' # None => Filed(backup', names') /\ Spoken(backup)')
  BY <1>3, <1>4, <1>6 DEF FInv, Spoken, Over
<1>12. ASSUME NEW c, Live(c)' PROVE Live(c)
  BY <1>1, <1>3, <1>6, <1>12, TransactionKeeps DEF Live, Serves
<1>13. ASSUME NEW s \in Judged', s # r
       PROVE  s \in Judged /\ requests'[s] = requests[s]
  BY <1>6, <1>13 DEF Judged
<1>14. ASSUME KInv, NEW s \in Judged, s # r,
              requests[s].key # None, Live(requests[s].client)
       PROVE  Recorded(s)' \/ Outlived(s)'
  <2>1. requests'[s] = requests[s] /\ requests[s].decision.id \in Request
    BY <1>1, <1>6, <1>14, JudgedTyped DEF Decision
  <2>2. CASE Recorded(s)
    BY <1>6, <1>7, <2>1, <2>2 DEF Recorded
  <2>3. CASE Outlived(s)
    <3>1. requests[s].decision.at + VerificationRetention < clock'
      BY <1>1, <2>3 DEF Outlived
    <3>2. ASSUME NEW v \in Request, db'.verifications[v] # None,
                 db'.verifications[v].client = requests[s].client,
                 db'.verifications[v].key = requests[s].key
          PROVE  requests[s].decision.at + VerificationRetention
                     < db'.verifications[v].decision.at
      BY <1>1, <1>5, <1>6, <2>3, <3>1, <3>2 DEF Outlived
    <3> QED
      BY <2>1, <3>1, <3>2 DEF Outlived
  <2> QED
    BY <1>14, <2>2, <2>3 DEF KInv, Accounted
<1>15. Recorded(r)'
  BY <1>3, <1>5, <1>6, <1>7 DEF Recorded
<1>16. KInv => Accounted'
  BY <1>12, <1>13, <1>14, <1>15 DEF Accounted
<1>17. ASSUME KInv, NEW s \in Judged, s # r
       PROVE  ApartFrom(q, requests[s]) /\ ApartFrom(requests[s], q)
  <2>1. SUFFICES ASSUME requests[s].client = q.client, requests[s].key = q.key, q.key # None
                 PROVE  requests[s].decision.at + VerificationRetention < q.decision.at
    BY <1>1, <1>3, <1>5, JudgedTyped DEF ApartFrom
  <2>2. Recorded(s) \/ Outlived(s)
    BY <1>2, <1>3, <1>17, <2>1 DEF KInv, Accounted, Live
  <2>3. ~Recorded(s)
    BY <1>1, <1>3, <1>8, <2>1, JudgedTyped DEF Recorded, Decision
  <2> QED
    BY <1>3, <1>5, <2>2, <2>3 DEF Outlived
<1>18. ASSUME KInv, NEW s \in Judged', NEW t \in Judged'
       PROVE  ApartFrom(requests'[s], requests'[t])
  <2>1. \A a, b \in Judged : ApartFrom(requests[a], requests[b])
    BY <1>18, PairwiseApart DEF KInv
  <2>2. CASE s # r /\ t # r
    BY <1>13, <2>1, <2>2
  <2>3. CASE s = r /\ t = r
    BY <2>3 DEF ApartFrom
  <2>4. CASE (s = r) # (t = r)
    BY <1>6, <1>13, <1>17, <1>18, <2>4
  <2> QED
    BY <2>2, <2>3, <2>4
<1>19. KInv => KeyDecisionsApart'
  BY <1>18 DEF KeyDecisionsApart, ApartFrom
<1> QED
  BY <1>9, <1>10, <1>11, <1>16, <1>19 DEF StillFiled, StillApart

(* A step after which nobody is told more than before, that keeps on file  *)
(* what it must.                                                           *)
LEMMA SettledAccounted ==
    ASSUME KInv, TypeOK', clock <= clock',
           \A s \in Request : requests'[s].decision # None =>
               SameDecision(requests'[s], requests[s]),
           \A c \in Client : c \in names => (Live(c)' => Live(c)),
           \A v \in Request : db'.verifications[v] # None /\ (\E c \in Client : c \in names /\ Live(c)') =>
               db'.verifications[v] = db.verifications[v],
           \A v \in Request :
               /\ db.verifications[v] # None
               /\ \E c \in Client : c \in names /\ Live(c)'
               => \/ db'.verifications[v] = db.verifications[v]
                  \/ /\ db'.verifications[v] = None
                     /\ db.verifications[v].decision.at + VerificationRetention < clock'
    PROVE  Accounted' /\ KeyDecisionsApart'
<1>1. TypeOK /\ clock \in Nat /\ clock' \in Nat
  BY DEF KInv, FInv, RInv, IInv, TypeOK
<1>2. ASSUME NEW s \in Judged'
      PROVE  /\ s \in Judged /\ SameDecision(requests'[s], requests[s])
             /\ requests[s].decision \in Decision
             /\ requests[s].decision.at \in Nat /\ VerificationRetention \in Nat
  BY <1>1, <1>2, JudgedTyped DEF Judged, SameDecision
<1>3. ASSUME NEW s \in Judged', requests'[s].key # None, Live(requests[s].client)'
      PROVE  Recorded(s)' \/ Outlived(s)'
  <2>1. PICK c \in Client : c = requests[s].client /\ c \in names
    <3>1. requests[s].client \in names /\ requests[s].client \in Client \cup {None}
      BY <1>1, <1>2 DEF KInv, FInv, AllFair, Fair, Judged, TypeOK, RequestState
    <3> QED
      BY <1>1, <3>1, NoneAssumption DEF TypeOK
  <2>2. requests'[s].client = c
    BY <1>2, <2>1 DEF SameDecision
  <2>3. Live(c)' /\ Live(c)
    <3>1. Live(c)'
      BY <1>3, <2>2
    <3> QED
      BY <2>1, <3>1
  <2>4. Recorded(s) \/ Outlived(s)
    BY <1>2, <1>3, <2>1, <2>3 DEF KInv, Accounted, SameDecision
  <2>5. CASE Recorded(s)
    <3>1. requests[s].decision.id \in Request
      BY <1>2 DEF Decision
    <3> DEFINE v == requests[s].decision.id
    <3>2. CASE db'.verifications[v] = db.verifications[v]
      BY <1>2, <2>5, <3>1, <3>2 DEF Recorded, SameDecision
    <3>3. CASE /\ db'.verifications[v] = None
               /\ db.verifications[v].decision.at + VerificationRetention < clock'
      <4>1. \A w \in Request : ~(/\ db'.verifications[w] # None
                                 /\ db'.verifications[w].client = requests[s].client
                                 /\ db'.verifications[w].key = requests[s].key)
        <5>1. \A w \in Request : db'.verifications[w] # None =>
                  db'.verifications[w] = db.verifications[w]
          BY <2>1, <2>3
        <5>2. requests[s].key # None
          BY <1>2, <1>3 DEF SameDecision
        <5> QED
          BY <2>5, <3>1, <3>3, <5>1, <5>2 DEF KInv, FInv, Filed, Recorded
      <4> QED
        BY <1>2, <2>5, <3>3, <4>1 DEF Recorded, Outlived, SameDecision
    <3> QED
      BY <2>1, <2>3, <2>5, <3>1, <3>2, <3>3 DEF Recorded
  <2>6. CASE Outlived(s)
    <3>1. \A v \in Request : db'.verifications[v] # None =>
              db'.verifications[v] = db.verifications[v]
      BY <2>1, <2>3
    <3>2. requests[s].decision.at + VerificationRetention < clock'
      BY <1>1, <1>2, <2>6 DEF Outlived
    <3> QED
      BY <1>2, <2>6, <3>1, <3>2 DEF Outlived, SameDecision
  <2> QED
    BY <2>4, <2>5, <2>6
<1>4. Accounted'
  BY <1>3 DEF Accounted
<1>5. \A s, t \in Judged' : ApartFrom(requests'[s], requests'[t])
  <2>1. \A a, b \in Judged : ApartFrom(requests[a], requests[b])
    BY PairwiseApart DEF KInv
  <2> QED
    BY <1>2, <2>1 DEF ApartFrom, SameDecision
<1>6. KeyDecisionsApart'
  BY <1>5 DEF KeyDecisionsApart, ApartFrom
<1> QED
  BY <1>4, <1>6

LEMMA LiveNeverReturns ==
    ASSUME RInv, [Next]_vars, UNCHANGED requests,
           NEW c \in Client, c \in names, Live(c)'
    PROVE  Live(c)
BY ClientsNeverReturn DEF Live

LEMMA IssueAccounted ==
    ASSUME FInv, NEW r \in Request, IssueProof(r), TypeOK'
    PROVE  StillFiled /\ StillApart
<1> DEFINE old == requests[r]
<1>1. /\ IInv /\ TypeOK /\ db \in Database /\ clock \in Nat /\ Fair(old, names)
      /\ old.client \in Client
  BY DEF FInv, AllFair, RInv, IInv, TypeOK, Identified, IssueProof, At
<1>2. PICK p \in Proof \ names, q \in RequestState :
             /\ requests' = [requests EXCEPT ![r] = q] /\ requests[r].step = "commit"
             /\ q.step = "reply" /\ q.receipt.proof = p
             /\ q.decision = requests[r].decision /\ q.proof = requests[r].proof
             /\ q.client = requests[r].client /\ q.binding = requests[r].binding
             /\ q.receipt.issuedAt = clock
             /\ q.receipt.expiresAt = clock + requests[r].ttl
             /\ names' = names \cup {p}
             /\ accepted' = accepted /\ backup' = backup
             /\ db'.proofs = [db.proofs EXCEPT ![p] = IssueRow(requests[r], clock)]
             /\ db'.verifications = db.verifications
  BY <1>1, IssueEffect
<1>3. \A s \in Request : requests'[s] = IF s = r THEN q ELSE requests[s]
  BY <1>1, <1>2 DEF TypeOK
<1>4. old.decision = None /\ old.client \in names
  BY <1>1, <1>2, NoneAssumption DEF Fair
<1>5. \A s \in Request : requests'[s].decision # None =>
          SameDecision(requests'[s], requests[s])
  BY <1>2, <1>3, <1>4 DEF SameDecision
<1>6. clock' = clock /\ db'.clients = db.clients /\ db'.restoreRequired = db.restoreRequired
  BY <1>1, TransactionKeeps
<1>7. \A c \in Client : c \in names => (Live(c)' => Live(c))
  BY <1>2, <1>3, <1>6 DEF Live, Serves
<1>8. StillApart
  BY <1>1, <1>2, <1>5, <1>6, <1>7, SettledAccounted DEF StillApart
<1>9. AllFair'
  BY <1>1, <1>2, <1>3, <1>4 DEF FInv, AllFair, Fair
<1>10. /\ Filed(db', names') /\ Spoken(db)'
       /\ (backup' # None => Filed(backup', names') /\ Spoken(backup)')
  BY <1>2, <1>3 DEF FInv, Filed, Spoken, Over
<1> QED
  BY <1>8, <1>9, <1>10 DEF StillFiled

LEMMA CrashAccounted ==
    ASSUME FInv, Crash, TypeOK'
    PROVE  StillFiled /\ StillApart
<1>1. /\ TypeOK /\ UNCHANGED <<clock, db, backup, names>>
      /\ \A r \in Request : requests[r] \in RequestState
  BY DEF FInv, RInv, IInv, TypeOK, Crash
<1>2. ASSUME NEW r \in Request
      PROVE  /\ requests'[r].decision # None => SameDecision(requests'[r], requests[r])
             /\ requests'[r].step # "recall"
             /\ requests[r].step \in Over => requests'[r].step \in Over
             /\ Fair(requests'[r], names)
  <2>1. requests'[r] = Lost(requests[r]) /\ Fair(requests[r], names)
    BY DEF Crash, FInv, AllFair
  <2>2. CASE requests[r].step \notin InFlight
    BY <2>1, <2>2 DEF Lost, SameDecision, InFlight
  <2>3. CASE requests[r].step = "reply"
    BY <1>1, <2>1, <2>3 DEF Lost, SameDecision, InFlight, Over, Fair, RequestState
  <2>4. CASE requests[r].step \in InFlight \ {"reply"}
    BY <1>1, <2>1, <2>4 DEF Lost, InFlight, Over, Fair, Idle
  <2> QED
    BY <2>2, <2>3, <2>4
<1>3. \A c \in Client : c \in names => (Live(c)' => Live(c))
  BY <1>1, <1>2 DEF Live, Serves
<1>4. clock <= clock'
  BY <1>1 DEF TypeOK
<1>5. StillApart
  BY <1>1, <1>2, <1>3, <1>4, SettledAccounted DEF StillApart
<1>6. StillFiled
  BY <1>1, <1>2 DEF StillFiled, FInv, AllFair, Spoken
<1> QED
  BY <1>5, <1>6

(* A cleanup deletes a decision only when it is older than the retention,  *)
(* however late it runs, and after a restore nobody is live.               *)
LEMMA AdminAccounted ==
    ASSUME FInv, Administer, TypeOK'
    PROVE  StillFiled /\ StillApart
<1>1. /\ TypeOK /\ db \in Database /\ clock \in Nat /\ RInv /\ Next
      /\ UNCHANGED <<clock, requests>> /\ names \subseteq names'
  BY AdminCommon DEF FInv, RInv, IInv, TypeOK, Next
<1>2. AllFair'
  BY <1>1 DEF FInv, AllFair, Fair
<1>3. \A s \in Request : requests'[s].decision # None =>
          SameDecision(requests'[s], requests[s])
  BY <1>1 DEF SameDecision
<1>4. \A c \in Client : c \in names => (Live(c)' => Live(c))
  BY <1>1, LiveNeverReturns
<1>5. ASSUME \A s \in Request : requests[s].step # "recall",
             \A c \in Client : ~Serves(c)'
      PROVE  StillApart
  <2>1. \A c \in Client : ~Live(c)'
    BY <1>1, <1>5 DEF Live
  <2> QED
    BY <1>1, <1>3, <2>1, SettledAccounted DEF StillApart
<1>6. ASSUME db'.verifications = db.verifications, backup' = backup
      PROVE  /\ StillApart /\ Filed(db', names') /\ Spoken(db)'
             /\ (backup' # None => Filed(backup', names') /\ Spoken(backup)')
  <2>1. StillApart
    BY <1>1, <1>3, <1>4, <1>6, SettledAccounted DEF StillApart
  <2> QED
    BY <1>1, <1>6, <2>1 DEF FInv, Filed, Spoken
<1>7. ASSUME NEW c \in Client, NEW i \in Credential, NEW v \in Credential,
             CreateClient(c, i, v)
      PROVE  db'.verifications = db.verifications /\ backup' = backup
  BY <1>1, <1>7 DEF CreateClient, Database
<1>8. ASSUME NEW now \in Sampled, NEW c \in Client, NEW role \in Role,
             NEW new \in Credential, NEW g \in Graces,
             RotateCredential(c, role, new, g, now)
      PROVE  db'.verifications = db.verifications /\ backup' = backup
  BY <1>1, <1>8 DEF RotateCredential, Database
<1>9. ASSUME NEW now \in Sampled, NEW c \in Client, RevokeClient(c, now)
      PROVE  db'.verifications = db.verifications /\ backup' = backup
  BY <1>1, <1>9 DEF RevokeClient, Database
<1>10. ASSUME NEW now \in Sampled, Cleanup(now)
       PROVE  /\ StillApart /\ Filed(db', names') /\ Spoken(db)'
              /\ (backup' # None => Filed(backup', names') /\ Spoken(backup)')
  <2>1. /\ now \in Nat /\ (StepBack = 0 => now <= clock)
        /\ backup' = backup /\ names' = names
        /\ \A v \in Request :
               db'.verifications[v] =
                   IF /\ db.verifications[v] # None
                      /\ VerificationIsStale(db.verifications[v], now)
                   THEN None ELSE db.verifications[v]
    BY <1>1, <1>10, SampledPast DEF Cleanup, Database
  <2>2. ASSUME NEW v \in Request, db.verifications[v] # None
        PROVE  \/ db'.verifications[v] = db.verifications[v]
               \/ /\ db'.verifications[v] = None
                  /\ StepBack = 0 =>
                         db.verifications[v].decision.at + VerificationRetention < clock'
    BY <1>1, <2>1, <2>2, RowTyped, BoundAssumption DEF VerificationIsStale
  <2>3. \A v \in Request : db'.verifications[v] # None =>
            db'.verifications[v] = db.verifications[v]
    BY <2>1
  <2>4. StillApart
    BY <1>1, <1>3, <1>4, <2>2, <2>3, SettledAccounted DEF StillApart
  <2> QED
    BY <1>1, <2>1, <2>3, <2>4 DEF FInv, Filed, Spoken
<1>11. ASSUME NEW now \in Sampled, ActivateRestore(now)
       PROVE  /\ StillApart /\ Filed(db', names') /\ Spoken(db)'
              /\ (backup' # None => Filed(backup', names') /\ Spoken(backup)')
  <2>1. db'.verifications = db.verifications /\ backup' = backup
    BY <1>1, <1>11 DEF ActivateRestore, Database
  <2> QED
    BY <1>6, <2>1
<1>12. CASE TakeBackup
  <2>1. /\ UNCHANGED <<db, names>> /\ backup'.verifications = db.verifications
    BY <1>1, <1>12 DEF TakeBackup, Sealed, Database
  <2>2. StillApart
    BY <1>1, <1>3, <1>4, <2>1, SettledAccounted DEF StillApart
  <2> QED
    BY <1>1, <1>2, <2>1, <2>2 DEF StillFiled, FInv, Filed, Spoken
<1>13. CASE RestoreBackup
  <2>1. /\ \A s \in Request : requests[s].step # "recall"
        /\ backup # None /\ db' = backup /\ UNCHANGED <<backup, names>>
    BY <1>13 DEF RestoreBackup, Quiet, InFlight
  <2>2. \A c \in Client : ~Serves(c)'
    BY <2>1 DEF Serves, FInv, RInv, IInv, BackupSealed
  <2>3. StillApart
    BY <1>5, <2>1, <2>2
  <2> QED
    BY <1>1, <1>2, <2>1, <2>3 DEF StillFiled, FInv, Filed, Spoken
<1> QED
  BY <1>2, <1>6, <1>7, <1>8, <1>9, <1>10, <1>11, <1>12, <1>13 DEF Administer, StillFiled

LEMMA ClockAccounted ==
    ASSUME FInv, Tick \/ ClockStepsBack \/ UNCHANGED vars, TypeOK'
    PROVE  StillFiled /\ StillApart
<1>1. /\ UNCHANGED <<db, backup, requests, names>> /\ TypeOK /\ RInv /\ [Next]_vars
  BY DEF FInv, RInv, IInv, Tick, ClockStepsBack, vars, Next
<1>2. StepBack = 0 => clock <= clock'
  BY <1>1, ClockForward
<1>3. \A s \in Request : requests'[s].decision # None =>
          SameDecision(requests'[s], requests[s])
  BY <1>1 DEF SameDecision
<1>4. \A c \in Client : c \in names => (Live(c)' => Live(c))
  BY <1>1 DEF Live, Serves
<1>5. StillApart
  BY <1>1, <1>2, <1>3, <1>4, SettledAccounted DEF StillApart
<1> QED
  BY <1>1, <1>5 DEF StillFiled, FInv, AllFair, Fair, Filed, Spoken

LEMMA NextFiled == FInv /\ [Next]_vars => FInv' /\ StillApart
<1> SUFFICES ASSUME FInv, [Next]_vars PROVE FInv' /\ StillApart
  OBVIOUS
<1>1. RInv' /\ PInv' /\ TypeOK'
  BY NextFirm, NextKeepsPromises DEF FInv, RInv, IInv
<1> DEFINE Rest == StillFiled /\ StillApart
<1>2. ASSUME NEW r \in Request, SendIssue(r) \/ SendVerify(r) \/ Handle(r)
      PROVE  Rest
  <2>1. CASE IssueProof(r)
    BY <1>1, <2>1, IssueAccounted
  <2>2. CASE Judge(r)
    BY <1>1, <2>2, JudgeAccounted
  <2>3. CASE SendIssue(r) \/ SendVerify(r) \/ Authenticate(r) \/ CheckPolicy(r)
              \/ RefuseIssue(r) \/ Lookup(r) \/ Recall(r) \/ EndVerify(r)
              \/ Reply(r) \/ StoreFails(r)
    <3>1. PICK q : requests' = [requests EXCEPT ![r] = q] /\ Moves(q, requests[r])
      BY <2>3, HandlerEffect
    <3>2. UNCHANGED <<clock, db, backup, names>>
      BY <2>3 DEF SendIssue, SendVerify, Authenticate, CheckPolicy, RefuseIssue, Lookup,
                  Recall, EndVerify, Reply, StoreFails
    <3> QED
      BY <1>1, <3>1, <3>2, HandlerAccounted
  <2> QED
    BY <1>2, <2>1, <2>2, <2>3 DEF Handle
<1>3. ASSUME Crash PROVE Rest
  BY <1>1, <1>3, CrashAccounted
<1>4. ASSUME Administer PROVE Rest
  BY <1>1, <1>4, AdminAccounted
<1>5. ASSUME Tick \/ ClockStepsBack \/ UNCHANGED vars PROVE Rest
  BY <1>1, <1>5, ClockAccounted
<1>6. Rest
  BY <1>2, <1>3, <1>4, <1>5 DEF Next
<1> QED
  BY <1>1, <1>6 DEF FInv, StillFiled

(* No statement ever meets a constraint of the schema: neither a foreign   *)
(* key nor a unique index, that of the idempotency keys included.          *)
THEOREM ConstraintsHold == Spec => []SchemaNeverTrips
<1>1. FInv => SchemaNeverTrips
  BY DEF FInv, RInv, Firm, Referenced, Staffed, CurrentOf, Filed, SchemaNeverTrips
<1> QED
  BY <1>1, InitAccounted, NextFiled, PTL DEF Spec

LEMMA NextAccounted ==
    ASSUME StepBack = 0
    PROVE  KInv /\ [Next]_vars => KInv'
BY NextFiled DEF KInv, StillApart

-----------------------------------------------------------------------------
(* Theorem *)

(* Two different decisions under one idempotency key of one client lie     *)
(* more than the retention apart, as long as the clock is not set back.    *)
THEOREM DecisionsApart ==
    ASSUME StepBack = 0
    PROVE  Spec => []KeyDecisionsApart
<1>1. KInv => KeyDecisionsApart
  BY DEF KInv
<1> QED
  BY <1>1, InitAccounted, NextAccounted, PTL DEF Spec

-----------------------------------------------------------------------------
(* The inductive invariant about receipts *)

\* What a decision may be, by the receipt that q holds.
Right(q, client, binding, decision, acceptances) ==
    LET sameClient == q.client = client
        sameBinding == q.binding = binding
    IN  CASE decision.verdict = "verified_once" ->
                 /\ sameClient /\ sameBinding
                 /\ decision.at < q.receipt.expiresAt
                 /\ StepBack = 0 => q.receipt.issuedAt <= decision.at
          [] decision.verdict = "expired" ->
                 sameClient /\ decision.at >= q.receipt.expiresAt
          [] decision.verdict = "binding_mismatch" -> sameClient /\ ~sameBinding
          [] decision.verdict = "already_consumed" ->
                 \E r \in Request : <<q.receipt.proof, r>> \in acceptances
          [] decision.verdict = "invalid" ->
                 \/ ~sameClient
                 \/ StepBack > 0
                 \/ decision.at > q.receipt.expiresAt + ProofRetention

\* The row of the proof says what the receipt says ...
Matches(q, d) ==
    LET row == d.proofs[q.receipt.proof] IN
    row # None => row.client = q.client /\ row.binding = q.binding

\* ... and, while its client serves, ends when the receipt ends and, unless the
\* clock is set back, goes only after the retention.
Stands(q) ==
    LET row == db.proofs[q.receipt.proof] IN
    Serves(q.client) =>
        IF row = None
        THEN StepBack = 0 => q.receipt.expiresAt + ProofRetention < clock
        ELSE row.expiresAt = q.receipt.expiresAt

Kept(q) ==
    /\ StepBack = 0 => q.receipt.issuedAt <= clock
    /\ Matches(q, db)
    /\ backup # None => Matches(q, backup)
    /\ Stands(q)

AllKept == \A i \in Receipts : Kept(requests[i])

\* The decisions on file in d are right by every receipt.
Consistent(d) ==
    \A i \in Receipts, v \in Request :
        LET row == d.verifications[v] IN
        row # None /\ row.proof = requests[i].receipt.proof =>
            Right(requests[i], row.client, row.binding, row.decision, accepted)

HInv ==
    /\ FInv
    /\ AllKept
    /\ Consistent(db)
    /\ backup # None => Consistent(backup)
    /\ ReceiptHonoured

LEMMA InitHonoured == Init => HInv
<1> SUFFICES ASSUME Init PROVE HInv
  OBVIOUS
<1>1. Receipts = {} /\ backup = None
  BY DEF Init, Idle, Receipts
<1> QED
  BY <1>1, InitAccounted DEF HInv, AllKept, Consistent, ReceiptHonoured

LEMMA RightGrows ==
    ASSUME NEW q, NEW client, NEW binding, NEW decision, NEW A, NEW B, A \subseteq B,
           decision.verdict \in Verdicts, Right(q, client, binding, decision, A)
    PROVE  Right(q, client, binding, decision, B)
BY DEF Right, Verdicts

LEMMA HonouredIsRight ==
    ReceiptHonoured <=>
        \A i \in Receipts, v \in Judged :
            requests[v].proof = requests[i].receipt.proof =>
                Right(requests[i], requests[v].client, requests[v].binding,
                      requests[v].decision, accepted)
BY DEF ReceiptHonoured, Right

LEMMA HolderTyped ==
    ASSUME FInv, NEW i \in Receipts
    PROVE  /\ i \in Request /\ requests[i].receipt \in Receipt
           /\ requests[i].receipt.proof \in Proof
           /\ requests[i].receipt.proof \in names
           /\ requests[i].client \in Client /\ requests[i].client \in names
<1>1. /\ i \in Request /\ requests[i] \in RequestState /\ requests[i].receipt # None
      /\ Fair(requests[i], names) /\ Truthful(requests[i], names, accepted)
      /\ names \subseteq Client \cup Credential \cup Proof
  BY DEF FInv, RInv, IInv, PInv, AllTruthful, AllFair, Receipts, TypeOK
<1>2. requests[i].receipt \in Receipt
  BY <1>1 DEF RequestState
<1>3. requests[i].client \in names /\ requests[i].client \in Client \cup {None}
  BY <1>1 DEF Fair, RequestState
<1>4. requests[i].client # None
  BY <1>1, <1>3, NoneAssumption
<1> QED
  BY <1>1, <1>2, <1>3, <1>4 DEF Truthful, Receipt

-----------------------------------------------------------------------------
(* Steps that make no receipt and no new decision *)

SameTerms(a, b) == a.client = b.client /\ a.binding = b.binding

\* The rows of d come from the ledger or from its backup.
RowsOf(d) ==
    /\ \A v \in Request : d.verifications[v] # None =>
           \/ d.verifications[v] = db.verifications[v]
           \/ backup # None /\ d.verifications[v] = backup.verifications[v]
    /\ \A p \in Proof : d.proofs[p] # None =>
           \/ db.proofs[p] # None /\ SameTerms(d.proofs[p], db.proofs[p])
           \/ /\ backup # None /\ backup.proofs[p] # None
              /\ SameTerms(d.proofs[p], backup.proofs[p])

\* A proof of client c keeps its end until it goes.
RowLasts(c, p) ==
    LET row == db.proofs[p]
        next == db'.proofs[p]
    IN  IF row = None THEN next = None
        ELSE \/ row.client # c
             \/ next # None /\ next.expiresAt = row.expiresAt
             \/ /\ next = None
                /\ StepBack = 0 => row.expiresAt + ProofRetention < clock'

RowsLast ==
    \A c \in Client, p \in Proof :
        c \in names /\ Serves(c)' => Serves(c) /\ RowLasts(c, p)

LEMMA ReceiptsStand ==
    ASSUME HInv, TypeOK', StepBack = 0 => clock <= clock',
           \A i \in Request : SameReceipt(requests'[i], requests[i]),
           RowsOf(db'), backup' # None => RowsOf(backup'), RowsLast
    PROVE  AllKept'
<1> SUFFICES ASSUME NEW i \in Receipts' PROVE Kept(requests[i])'
  BY DEF AllKept
<1>1. PICK q : q = requests[i]
  OBVIOUS
<1>2. /\ i \in Receipts /\ requests'[i].receipt = q.receipt
      /\ requests'[i].client = q.client /\ requests'[i].binding = q.binding
  BY <1>1 DEF Receipts, SameReceipt
<1>3. /\ q.receipt \in Receipt /\ q.receipt.proof \in Proof /\ q.client \in Client
      /\ q.client \in names
  BY <1>1, <1>2, HolderTyped DEF HInv
<1>4. clock \in Nat /\ clock' \in Nat /\ q.receipt.issuedAt \in Nat
      /\ q.receipt.expiresAt \in Nat /\ ProofRetention \in Nat
  BY <1>3, BoundAssumption DEF Receipt, HInv, FInv, RInv, IInv, TypeOK
<1>5. /\ (StepBack = 0 => q.receipt.issuedAt <= clock) /\ Matches(q, db)
      /\ backup # None => Matches(q, backup)
      /\ Stands(q)
  BY <1>1, <1>2 DEF HInv, AllKept, Kept
<1>6. ASSUME NEW d, RowsOf(d) PROVE Matches(q, d)
  BY <1>3, <1>5, <1>6 DEF RowsOf, SameTerms, Matches
<1>7. Matches(q, db') /\ (backup' # None => Matches(q, backup'))
  BY <1>6
<1>8. ASSUME Serves(q.client)'
      PROVE  IF db'.proofs[q.receipt.proof] = None
             THEN StepBack = 0 => q.receipt.expiresAt + ProofRetention < clock'
             ELSE db'.proofs[q.receipt.proof].expiresAt = q.receipt.expiresAt
  <2>1. Serves(q.client) /\ RowLasts(q.client, q.receipt.proof)
    BY <1>3, <1>8 DEF RowsLast
  <2> QED
    BY <1>4, <1>5, <2>1 DEF RowLasts, Stands, Matches
<1> QED
  BY <1>2, <1>4, <1>5, <1>7, <1>8 DEF Kept, Matches, Stands

LEMMA DecisionsStand ==
    ASSUME HInv, TypeOK', accepted \subseteq accepted',
           \A i \in Request : SameReceipt(requests'[i], requests[i]),
           \A v \in Request : requests'[v].decision # None =>
               \/ SameDecision(requests'[v], requests[v])
               \/ \E w \in Request : FromRow(requests'[v], w),
           RowsOf(db'), backup' # None => RowsOf(backup')
    PROVE  /\ Consistent(db)' /\ (backup' # None => Consistent(backup)')
           /\ ReceiptHonoured'
<1>1. TypeOK
  BY DEF HInv, FInv, RInv, IInv
<1>2. ASSUME NEW i \in Receipts'
      PROVE  /\ i \in Receipts /\ requests'[i].receipt = requests[i].receipt
             /\ requests'[i].client = requests[i].client
             /\ requests'[i].binding = requests[i].binding
  BY <1>2 DEF Receipts, SameReceipt
<1>3. ASSUME NEW i \in Receipts', NEW client, NEW binding, NEW decision,
             decision.verdict \in Verdicts,
             Right(requests[i], client, binding, decision, accepted)
      PROVE  Right(requests'[i], client, binding, decision, accepted')
  <2>1. Right(requests[i], client, binding, decision, accepted')
    BY <1>3, RightGrows
  <2> QED
    BY <1>2, <1>3, <2>1 DEF Right, Verdicts
<1>4. \A v \in Request :
          /\ db.verifications[v] # None =>
                 db.verifications[v].decision.verdict \in Verdicts
          /\ backup # None /\ backup.verifications[v] # None =>
                 backup.verifications[v].decision.verdict \in Verdicts
  BY <1>1 DEF TypeOK, Database, VerificationRow, Decision
<1>5. ASSUME NEW d, RowsOf(d), NEW i \in Receipts', NEW v \in Request,
             d.verifications[v] # None,
             d.verifications[v].proof = requests'[i].receipt.proof
      PROVE  Right(requests'[i], d.verifications[v].client, d.verifications[v].binding,
                   d.verifications[v].decision, accepted')
  <2>1. \/ d.verifications[v] = db.verifications[v]
        \/ backup # None /\ d.verifications[v] = backup.verifications[v]
    BY <1>5 DEF RowsOf
  <2>2. Right(requests[i], d.verifications[v].client, d.verifications[v].binding,
              d.verifications[v].decision, accepted)
    BY <1>2, <1>5, <2>1 DEF HInv, Consistent
  <2>3. d.verifications[v].decision.verdict \in Verdicts
    BY <1>4, <1>5, <2>1
  <2> QED
    BY <1>3, <1>5, <2>2, <2>3
<1>6. Consistent(db)' /\ (backup' # None => Consistent(backup)')
  BY <1>5 DEF Consistent
<1>7. ASSUME NEW i \in Receipts', NEW v \in Judged',
             requests'[v].proof = requests'[i].receipt.proof
      PROVE  Right(requests'[i], requests'[v].client, requests'[v].binding,
                   requests'[v].decision, accepted')
  <2>1. v \in Request /\ requests'[v].decision # None
    BY DEF Judged
  <2>2. CASE SameDecision(requests'[v], requests[v])
    <3>1. v \in Judged /\ requests[v].decision.verdict \in Verdicts
      BY <1>1, <2>1, <2>2 DEF SameDecision, Judged, TypeOK, RequestState, Decision
    <3>2. Right(requests[i], requests[v].client, requests[v].binding,
                requests[v].decision, accepted)
      BY <1>2, <1>7, <2>2, <3>1, HonouredIsRight DEF HInv, SameDecision
    <3> QED
      BY <1>3, <2>2, <3>1, <3>2 DEF SameDecision
  <2>3. CASE \E w \in Request : FromRow(requests'[v], w)
    <3>1. PICK w \in Request : FromRow(requests'[v], w)
      BY <2>3
    <3>2. Right(requests[i], requests'[v].client, requests'[v].binding,
                requests'[v].decision, accepted)
      BY <1>2, <1>7, <3>1 DEF HInv, Consistent, FromRow
    <3>3. requests'[v].decision.verdict \in Verdicts
      BY <1>4, <3>1 DEF FromRow
    <3> QED
      BY <1>3, <3>2, <3>3
  <2> QED
    BY <2>1, <2>2, <2>3
<1>8. ReceiptHonoured'
  BY <1>7 DEF ReceiptHonoured, Right
<1> QED
  BY <1>6, <1>8

-----------------------------------------------------------------------------
(* Preservation *)

LEMMA Alike ==
    /\ UNCHANGED <<db, backup>> => RowsOf(db') /\ (backup' # None => RowsOf(backup'))
    /\ UNCHANGED <<db, clock>> => RowsLast
    /\ UNCHANGED requests =>
           /\ \A i \in Request : SameReceipt(requests'[i], requests[i])
           /\ \A v \in Request : SameDecision(requests'[v], requests[v])
BY DEF RowsOf, SameTerms, RowsLast, RowLasts, Serves, SameReceipt, SameDecision

Honours ==
    /\ AllKept' /\ Consistent(db)' /\ (backup' # None => Consistent(backup)')
    /\ ReceiptHonoured'

LEMMA HandlerHonours ==
    ASSUME HInv, NEW r \in Request, NEW q, requests' = [requests EXCEPT ![r] = q],
           Moves(q, requests[r]), UNCHANGED <<clock, db, backup, names, accepted>>,
           TypeOK'
    PROVE  Honours
<1>1. TypeOK /\ clock \in Nat
  BY DEF HInv, FInv, RInv, IInv, TypeOK
<1>2. \A s \in Request : requests'[s] = IF s = r THEN q ELSE requests[s]
  BY <1>1 DEF TypeOK
<1>3. \A i \in Request : SameReceipt(requests'[i], requests[i])
  BY <1>2 DEF Moves, SameReceipt
<1>4. \A v \in Request : requests'[v].decision # None =>
          \/ SameDecision(requests'[v], requests[v])
          \/ \E w \in Request : FromRow(requests'[v], w)
  BY <1>2 DEF Moves, SameDecision
<1>5. RowsOf(db') /\ (backup' # None => RowsOf(backup')) /\ RowsLast
  BY Alike
<1>6. clock <= clock' /\ accepted \subseteq accepted'
  BY <1>1
<1>7. AllKept'
  BY <1>3, <1>5, <1>6, ReceiptsStand
<1> QED
  BY <1>3, <1>4, <1>5, <1>6, <1>7, DecisionsStand DEF Honours

LEMMA CrashHonours ==
    ASSUME HInv, Crash, TypeOK'
    PROVE  Honours
<1>1. /\ TypeOK /\ clock \in Nat /\ UNCHANGED <<clock, db, backup, names, accepted>>
      /\ \A r \in Request : requests'[r] = Lost(requests[r])
                            /\ requests[r] \in RequestState
  BY DEF HInv, FInv, RInv, IInv, TypeOK, Crash
<1>2. ASSUME NEW r \in Request
      PROVE  /\ SameReceipt(requests'[r], requests[r])
             /\ requests'[r].decision # None => SameDecision(requests'[r], requests[r])
  <2>1. requests'[r] = Lost(requests[r]) /\ requests[r] \in RequestState
    BY <1>1
  <2>2. CASE requests[r].step \notin InFlight
    BY <2>1, <2>2 DEF Lost, InFlight, SameReceipt, SameDecision
  <2>3. CASE requests[r].step = "reply"
    BY <2>1, <2>3 DEF Lost, InFlight, RequestState, SameReceipt, SameDecision
  <2>4. CASE requests[r].step \in InFlight \ {"reply"}
    BY <2>1, <2>4 DEF Lost, InFlight, Idle, SameReceipt
  <2> QED
    BY <2>2, <2>3, <2>4
<1>3. RowsOf(db') /\ (backup' # None => RowsOf(backup')) /\ RowsLast
  BY <1>1, Alike
<1>4. clock <= clock' /\ accepted \subseteq accepted'
  BY <1>1
<1>5. AllKept'
  BY <1>2, <1>3, <1>4, ReceiptsStand
<1> QED
  BY <1>2, <1>3, <1>4, <1>5, DecisionsStand DEF Honours

LEMMA ClockHonours ==
    ASSUME HInv, Tick \/ ClockStepsBack \/ UNCHANGED vars, TypeOK'
    PROVE  Honours
<1>1. /\ UNCHANGED <<db, backup, requests, names, accepted>> /\ RInv /\ [Next]_vars
  BY DEF HInv, FInv, RInv, IInv, Tick, ClockStepsBack, vars, Next
<1>2. StepBack = 0 => clock <= clock'
  BY <1>1, ClockForward
<1>3. RowsOf(db') /\ (backup' # None => RowsOf(backup'))
  BY <1>1, Alike
<1>4. RowsLast
  BY <1>1 DEF RowsLast, RowLasts, Serves
<1>5. /\ \A i \in Request : SameReceipt(requests'[i], requests[i])
      /\ \A v \in Request : SameDecision(requests'[v], requests[v])
  BY <1>1, Alike
<1>6. AllKept'
  BY <1>2, <1>3, <1>4, <1>5, ReceiptsStand
<1> QED
  BY <1>1, <1>3, <1>5, <1>6, DecisionsStand DEF Honours

(* Deletions wait for the retention, revocations end the service, and a    *)
(* restore leaves nobody served.                                           *)
LEMMA AdminHonours ==
    ASSUME HInv, Administer, TypeOK'
    PROVE  Honours
<1>1. /\ TypeOK /\ db \in Database /\ clock \in Nat /\ RInv /\ Next
      /\ UNCHANGED <<clock, requests>> /\ names \subseteq names'
      /\ Drawn(db) /\ (backup # None => backup \in Database /\ backup.restoreRequired)
  BY AdminCommon DEF HInv, FInv, RInv, IInv, TypeOK, Next, BackupSealed
<1>2. /\ \A i \in Request : SameReceipt(requests'[i], requests[i])
      /\ \A v \in Request : SameDecision(requests'[v], requests[v])
      /\ clock <= clock'
  BY <1>1, Alike
<1>3. accepted' = accepted
  BY DEF Administer, CreateClient, RotateCredential, RevokeClient, Cleanup,
         ActivateRestore, TakeBackup, RestoreBackup
<1>4. ASSUME RowsOf(db'), backup' # None => RowsOf(backup'), RowsLast
      PROVE  Honours
  <2>1. AllKept'
    BY <1>2, <1>4, ReceiptsStand
  <2> QED
    BY <1>2, <1>3, <1>4, <2>1, DecisionsStand DEF Honours
<1>5. RowsOf(db) /\ (backup # None => RowsOf(backup))
  BY DEF RowsOf, SameTerms
<1>6. \A c \in Client : c \in names /\ Serves(c)' => Serves(c)
  BY <1>1, ClientsNeverReturn
<1>7. ASSUME db'.proofs = db.proofs, db'.verifications = db.verifications, backup' = backup
      PROVE  Honours
  <2>1. RowsOf(db') /\ RowsLast
    BY <1>5, <1>6, <1>7 DEF RowsOf, RowsLast, RowLasts
  <2> QED
    BY <1>4, <1>5, <1>7, <2>1
<1>8. ASSUME NEW c \in Client, NEW i \in Credential, NEW v \in Credential,
             CreateClient(c, i, v)
      PROVE  Honours
  BY <1>1, <1>7, <1>8 DEF CreateClient, Database
<1>9. ASSUME NEW now \in Sampled, NEW c \in Client, NEW role \in Role,
             NEW new \in Credential, NEW g \in Graces,
             RotateCredential(c, role, new, g, now)
      PROVE  Honours
  BY <1>1, <1>7, <1>9 DEF RotateCredential, Database
<1>10. ASSUME NEW now \in Sampled, NEW c \in Client, RevokeClient(c, now)
       PROVE  Honours
  <2>1. /\ db'.clients = [db.clients EXCEPT ![c] = "revoked"]
        /\ db'.verifications = db.verifications /\ backup' = backup
        /\ \A p \in Proof :
               \/ db'.proofs[p] = db.proofs[p]
               \/ /\ db.proofs[p] # None /\ db.proofs[p].client = c
                  /\ db'.proofs[p] = CutShort(db.proofs[p], now)
    BY <1>1, <1>10 DEF RevokeClient, Database
  <2>2. \A p \in Proof : db.proofs[p] # None =>
            SameTerms(CutShort(db.proofs[p], now), db.proofs[p])
    BY <1>1 DEF Database, ProofRow, CutShort, SameTerms
  <2>3. RowsOf(db')
    BY <1>5, <2>1, <2>2 DEF RowsOf
  <2>4. ~Serves(c)'
    BY <1>1, <2>1 DEF Database, Serves
  <2>5. RowsLast
    BY <1>6, <2>1, <2>4 DEF RowsLast, RowLasts
  <2> QED
    BY <1>4, <1>5, <2>1, <2>3, <2>5
<1>11. ASSUME NEW now \in Sampled, Cleanup(now)
       PROVE  Honours
  <2>1. /\ now \in Nat /\ (StepBack = 0 => now <= clock)
        /\ backup' = backup /\ ProofRetention \in Nat
        /\ \A v \in Request : db'.verifications[v] # None =>
               db'.verifications[v] = db.verifications[v]
        /\ \A p \in Proof :
               db'.proofs[p] = IF db.proofs[p] # None /\ ProofIsStale(db.proofs[p], now)
                               THEN None ELSE db.proofs[p]
    BY <1>1, <1>11, SampledPast, BoundAssumption DEF Cleanup, Database
  <2>2. RowsOf(db')
    BY <2>1 DEF RowsOf, SameTerms
  <2>3. \A p \in Proof : db.proofs[p] # None => db.proofs[p].expiresAt \in Nat
    BY <1>1 DEF Database, ProofRow
  <2>4. RowsLast
    BY <1>1, <1>6, <2>1, <2>3 DEF RowsLast, RowLasts, ProofIsStale
  <2> QED
    BY <1>4, <1>5, <2>1, <2>2, <2>4
<1>12. ASSUME NEW now \in Sampled, ActivateRestore(now)
       PROVE  Honours
  <2>1. /\ db'.verifications = db.verifications /\ backup' = backup
        /\ \A c \in Client : db'.clients[c] = ActivatedStatus(db.clients[c])
        /\ \A p \in Proof :
               \/ db'.proofs[p] = db.proofs[p]
               \/ db.proofs[p] # None /\ db'.proofs[p] = CutShort(db.proofs[p], now)
    BY <1>1, <1>12 DEF ActivateRestore, Database
  <2>2. \A p \in Proof : db.proofs[p] # None =>
            SameTerms(CutShort(db.proofs[p], now), db.proofs[p])
    BY <1>1 DEF Database, ProofRow, CutShort, SameTerms
  <2>3. RowsOf(db')
    BY <1>5, <2>1, <2>2 DEF RowsOf
  <2>4. \A c \in Client : ~Serves(c)'
    BY <2>1 DEF ActivatedStatus, Serves
  <2>5. RowsLast
    BY <2>4 DEF RowsLast
  <2> QED
    BY <1>4, <1>5, <2>1, <2>3, <2>5
<1>13. ASSUME TakeBackup PROVE Honours
  <2>1. /\ UNCHANGED db /\ backup'.verifications = db.verifications
        /\ backup'.proofs = db.proofs
    BY <1>1, <1>13 DEF TakeBackup, Sealed, Database
  <2>2. RowsOf(db') /\ RowsOf(backup') /\ RowsLast
    BY <1>1, <1>5, <2>1, Alike DEF RowsOf
  <2> QED
    BY <1>4, <2>2
<1>14. ASSUME RestoreBackup PROVE Honours
  <2>1. backup # None /\ db' = backup /\ backup' = backup
    BY <1>14 DEF RestoreBackup
  <2>2. \A c \in Client : ~Serves(c)'
    BY <1>1, <2>1 DEF Serves
  <2>3. RowsOf(db') /\ RowsOf(backup') /\ RowsLast
    BY <1>5, <2>1, <2>2 DEF RowsLast
  <2> QED
    BY <1>4, <2>3
<1> QED
  BY <1>8, <1>9, <1>10, <1>11, <1>12, <1>13, <1>14 DEF Administer

(* The new proof is in no decision, and its row says what the receipt says. *)
LEMMA IssueHonours ==
    ASSUME HInv, NEW r \in Request, IssueProof(r), TypeOK'
    PROVE  Honours
<1> DEFINE old == requests[r]
           row == IssueRow(old, clock)
<1>1. /\ IInv /\ TypeOK /\ db \in Database /\ clock \in Nat /\ Fair(old, names)
      /\ old.client \in Client /\ old.ttl \in Nat /\ Drawn(db) /\ BackupSealed
      /\ old.credential \in Credential /\ old.binding \in Binding
      /\ old \in RequestState
  BY DEF HInv, FInv, AllFair, RInv, IInv, TypeOK, Identified, IssueProof, At, RequestState
<1>2. PICK p \in Proof \ names, q \in RequestState :
             /\ requests' = [requests EXCEPT ![r] = q] /\ requests[r].step = "commit"
             /\ q.step = "reply" /\ q.receipt.proof = p
             /\ q.decision = requests[r].decision /\ q.proof = requests[r].proof
             /\ q.client = requests[r].client /\ q.binding = requests[r].binding
             /\ q.receipt.issuedAt = clock
             /\ q.receipt.expiresAt = clock + requests[r].ttl
             /\ names' = names \cup {p}
             /\ accepted' = accepted /\ backup' = backup
             /\ db'.proofs = [db.proofs EXCEPT ![p] = IssueRow(requests[r], clock)]
             /\ db'.verifications = db.verifications
  BY <1>1, IssueEffect
<1>3. /\ \A s \in Request : requests'[s] = IF s = r THEN q ELSE requests[s]
      /\ \A n \in Proof : db'.proofs[n] = IF n = p THEN row ELSE db.proofs[n]
      /\ clock' = clock /\ db'.clients = db.clients
      /\ db'.restoreRequired = db.restoreRequired
  BY <1>1, <1>2, TransactionKeeps DEF TypeOK, Database
<1>4. /\ row.client = old.client /\ row.binding = old.binding
      /\ row.expiresAt = clock + old.ttl /\ row # None
  <2>1. row \in ProofRow
    BY <1>1, NoneAssumption DEF IssueRow, ProofRow
  <2> QED
    BY <2>1, RowAssumption DEF IssueRow
<1> HIDE DEF row
<1>5. old.decision = None /\ q.decision = None
  BY <1>1, <1>2 DEF Fair
<1>6. ASSUME NEW i \in Receipts', i # r
      PROVE  /\ i \in Receipts /\ requests'[i] = requests[i]
             /\ requests[i].receipt.proof \in Proof
             /\ requests[i].receipt.proof # p /\ Kept(requests[i])
  <2>1. i \in Receipts /\ requests'[i] = requests[i]
    BY <1>3, <1>6 DEF Receipts
  <2> QED
    BY <1>2, <2>1, HolderTyped DEF HInv, AllKept
<1>7. ASSUME NEW i \in Receipts' PROVE Kept(requests[i])'
  <2>1. CASE i # r
    BY <1>2, <1>3, <1>6, <1>7, <2>1 DEF Kept, Matches, Stands, Serves
  <2>2. CASE i = r
    <3>1. backup # None => backup.proofs[p] = None
      BY <1>1, <1>2 DEF BackupSealed, Drawn
    <3> QED
      BY <1>1, <1>2, <1>3, <1>4, <2>2, <3>1 DEF Kept, Matches, Stands
  <2> QED
    BY <2>1, <2>2
<1>8. ASSUME NEW i \in Receipts', NEW v \in Request
      PROVE  /\ requests'[v].decision # None => v # r
             /\ db.verifications[v] # None => db.verifications[v].proof # p
             /\ backup # None /\ backup.verifications[v] # None =>
                    backup.verifications[v].proof # p
             /\ requests'[v].decision # None => requests'[v].proof # p
  <2>1. p # None
    BY <1>2, NoneAssumption
  <2>2. Fair(requests[v], names)
    BY DEF HInv, FInv, AllFair
  <2>3. db.verifications[v] # None /\ db.verifications[v].proof # None =>
            db.verifications[v].proof \in names
    BY DEF HInv, FInv, Filed
  <2>4. backup # None /\ backup.verifications[v] # None
            /\ backup.verifications[v].proof # None =>
            backup.verifications[v].proof \in names
    BY DEF HInv, FInv, Filed
  <2>5. requests'[v].decision # None => v # r
    BY <1>3, <1>5
  <2> QED
    BY <1>2, <1>3, <2>1, <2>2, <2>3, <2>4, <2>5 DEF Fair
<1>9. Consistent(db)' /\ (backup' # None => Consistent(backup)')
  <2>1. ASSUME NEW i \in Receipts', NEW v \in Request, db.verifications[v] # None,
               db.verifications[v].proof = requests'[i].receipt.proof
        PROVE  Right(requests'[i], db.verifications[v].client, db.verifications[v].binding,
                     db.verifications[v].decision, accepted)
    <3>1. i # r
      BY <1>2, <1>3, <1>8, <2>1
    <3> QED
      BY <1>6, <2>1, <3>1 DEF HInv, Consistent
  <2>2. ASSUME backup # None, NEW i \in Receipts', NEW v \in Request,
               backup.verifications[v] # None,
               backup.verifications[v].proof = requests'[i].receipt.proof
        PROVE  Right(requests'[i], backup.verifications[v].client,
                     backup.verifications[v].binding,
                     backup.verifications[v].decision, accepted)
    <3>1. i # r
      BY <1>2, <1>3, <1>8, <2>2
    <3> QED
      BY <1>6, <2>2, <3>1 DEF HInv, Consistent
  <2> QED
    BY <1>2, <2>1, <2>2 DEF Consistent
<1>10. ReceiptHonoured'
  <2>1. ASSUME NEW i \in Receipts', NEW v \in Judged',
               requests'[v].proof = requests'[i].receipt.proof
        PROVE  Right(requests'[i], requests'[v].client, requests'[v].binding,
                     requests'[v].decision, accepted')
    <3>1. v \in Request /\ requests'[v].decision # None
      BY DEF Judged
    <3>2. v # r /\ i # r
      BY <1>2, <1>3, <1>8, <2>1, <3>1
    <3>3. v \in Judged /\ requests'[v] = requests[v]
      BY <1>3, <3>1, <3>2 DEF Judged
    <3> QED
      BY <1>2, <1>6, <2>1, <3>2, <3>3, HonouredIsRight DEF HInv
  <2> QED
    BY <2>1 DEF ReceiptHonoured, Right
<1> QED
  BY <1>7, <1>9, <1>10 DEF Honours, AllKept

(* A new decision is made from the row, which says what the receipt says.  *)
LEMMA JudgeHonours ==
    ASSUME HInv, NEW r \in Request, Judge(r), TypeOK'
    PROVE  Honours
<1> DEFINE old == requests[r]
           verdict == Verdict(db, old.proof, old.client, old.binding, clock)
           decision == [verdict |-> verdict, id |-> r, at |-> clock]
           row == VerificationRowOf(old, decision)
<1>1. /\ IInv /\ TypeOK /\ db \in Database /\ clock \in Nat /\ Fair(old, names)
      /\ old \in RequestState /\ clock' = clock /\ Serves(old.client)
      /\ old.client \in Client
  BY DEF HInv, FInv, AllFair, RInv, IInv, TypeOK, Identified, Judge, At, MayVerify,
         Authority, Serves
<1>2. PICK q \in RequestState :
         /\ requests' = [requests EXCEPT ![r] = q] /\ old.step = "commit"
         /\ q.step = "reply" /\ q.receipt = old.receipt
         /\ q.decision = decision /\ q.proof = old.proof
         /\ q.client = old.client /\ q.key = old.key /\ q.binding = old.binding
  BY <1>1, JudgeEffect
<1>3. /\ names' = names /\ backup' = backup /\ accepted \subseteq accepted'
      /\ db'.proofs = IF verdict = "verified_once"
                      THEN [db.proofs EXCEPT ![old.proof].consumedBy = r]
                      ELSE db.proofs
      /\ db'.verifications = [db.verifications EXCEPT ![r] = row]
  BY <1>1, JudgeEffect
<1>4. /\ row.client = old.client /\ row.proof = old.proof /\ row.binding = old.binding
      /\ row.decision = decision /\ decision.at = clock /\ decision.verdict = verdict
  BY DEF VerificationRowOf
<1>5. verdict \in Verdicts
  BY DEF Verdict, Verdicts
<1>6. \A p \in Proof : db.proofs[p] # None =>
          /\ db.proofs[p] \in ProofRow
          /\ db'.proofs[p] # None /\ db'.proofs[p].client = db.proofs[p].client
          /\ db'.proofs[p].binding = db.proofs[p].binding
          /\ db'.proofs[p].expiresAt = db.proofs[p].expiresAt
  <2>1. \A p \in Proof : db.proofs[p] # None => db.proofs[p] \in ProofRow
    BY <1>1 DEF Database
  <2>2. verdict = "verified_once" => db.proofs[old.proof] # None /\ old.proof \in Proof
    BY <1>1, NoneAssumption DEF Verdict, Found, RequestState
  <2>3. \A p \in Proof : \/ db'.proofs[p] = db.proofs[p]
                         \/ /\ p = old.proof /\ db.proofs[p] # None
                            /\ db'.proofs[p] = [db.proofs[p] EXCEPT !.consumedBy = r]
    BY <1>1, <1>3, <2>2 DEF Database
  <2>4. ASSUME NEW p \in Proof, db.proofs[p] # None
        PROVE  /\ [db.proofs[p] EXCEPT !.consumedBy = r] \in ProofRow
               /\ [db.proofs[p] EXCEPT !.consumedBy = r] # None
               /\ [db.proofs[p] EXCEPT !.consumedBy = r].client = db.proofs[p].client
               /\ [db.proofs[p] EXCEPT !.consumedBy = r].binding = db.proofs[p].binding
               /\ [db.proofs[p] EXCEPT !.consumedBy = r].expiresAt
                      = db.proofs[p].expiresAt
    <3>1. db.proofs[p] \in ProofRow
      BY <2>1, <2>4
    <3>2. [db.proofs[p] EXCEPT !.consumedBy = r] \in ProofRow
      BY <3>1 DEF ProofRow
    <3> QED
      BY <3>1, <3>2, RowAssumption DEF ProofRow
  <2> QED
    BY <2>1, <2>3, <2>4
<1>7. \A p \in Proof : db.proofs[p] = None => db'.proofs[p] = None
  <2>1. verdict = "verified_once" => db.proofs[old.proof] # None
    BY DEF Verdict, Found
  <2> QED
    BY <1>1, <1>3, <2>1 DEF Database
<1> HIDE DEF decision, row
<1>8. /\ \A s \in Request : requests'[s] = IF s = r THEN q ELSE requests[s]
      /\ \A v \in Request : db'.verifications[v] = IF v = r THEN row ELSE db.verifications[v]
  BY <1>1, <1>2, <1>3 DEF TypeOK, Database
<1>9. \A i \in Request : SameReceipt(requests'[i], requests[i])
  BY <1>2, <1>8 DEF SameReceipt
<1>10. AllKept'
  <2>1. ASSUME NEW i \in Receipts' PROVE Kept(requests[i])'
    <3>1. PICK g : g = requests[i]
      OBVIOUS
    <3>2. /\ i \in Receipts /\ requests'[i].receipt = g.receipt
          /\ requests'[i].client = g.client /\ requests'[i].binding = g.binding
      BY <1>9, <3>1 DEF Receipts, SameReceipt
    <3>3. Kept(g) /\ g.receipt.proof \in Proof /\ g.client \in Client
      BY <3>1, <3>2, HolderTyped DEF HInv, AllKept
    <3>4. Serves(g.client)' => Serves(g.client)
      BY <1>1, TransactionKeeps DEF Serves
    <3> QED
      BY <1>1, <1>3, <1>6, <1>7, <3>2, <3>3, <3>4 DEF Kept, Matches, Stands
  <2> QED
    BY <2>1 DEF AllKept
<1>11. ASSUME NEW i \in Receipts, old.proof = requests[i].receipt.proof
       PROVE  Right(requests[i], old.client, old.binding, decision, accepted')
  <2>1. PICK g : g = requests[i]
    OBVIOUS
  <2>2. /\ g.receipt \in Receipt /\ g.receipt.proof \in Proof /\ Kept(g)
        /\ old.proof = g.receipt.proof /\ old.proof # None
    BY <1>11, <2>1, HolderTyped, NoneAssumption DEF HInv, AllKept
  <2>3. /\ g.receipt.issuedAt \in Nat /\ g.receipt.expiresAt \in Nat
        /\ (StepBack = 0 => g.receipt.issuedAt <= clock)
        /\ ProofRetention \in Nat /\ StepBack \in Nat
    BY <2>2, BoundAssumption DEF Kept, Receipt
  <2>4. CASE ~Found(db, old.proof, old.client)
    <3>1. verdict = "invalid"
      BY <2>4 DEF Verdict
    <3>2. CASE db.proofs[old.proof] = None
      <4>1. g.client = old.client /\ StepBack = 0 =>
                g.receipt.expiresAt + ProofRetention < clock
        BY <1>1, <2>2, <3>2 DEF Kept, Stands
      <4> QED
        BY <1>1, <1>4, <2>1, <2>3, <3>1, <4>1 DEF Right
    <3>3. CASE db.proofs[old.proof] # None
      <4>1. g.client # old.client
        BY <2>2, <2>4, <3>3 DEF Kept, Matches, Found
      <4> QED
        BY <1>4, <2>1, <3>1, <4>1 DEF Right
    <3> QED
      BY <3>2, <3>3
  <2>5. CASE Found(db, old.proof, old.client)
    <3>1. /\ g.client = old.client /\ db.proofs[old.proof].binding = g.binding
          /\ db.proofs[old.proof].expiresAt = g.receipt.expiresAt
          /\ db.proofs[old.proof] # None
      BY <1>1, <2>2, <2>5 DEF Found, Kept, Matches, Stands
    <3>2. CASE verdict = "already_consumed"
      <4>1. db.proofs[old.proof].consumedBy # None
        BY <2>5, <3>2 DEF Verdict
      <4>2. <<g.receipt.proof, db.proofs[old.proof].consumedBy>> \in accepted
        BY <2>2, <3>1, <4>1 DEF HInv, FInv, PInv, Backed
      <4>3. db.proofs[old.proof].consumedBy \in Request
        BY <1>6, <2>2, <3>1, <4>1 DEF ProofRow
      <4> QED
        BY <1>3, <1>4, <2>1, <3>2, <4>2, <4>3 DEF Right
    <3>3. CASE verdict = "expired"
      BY <1>1, <1>4, <2>1, <2>3, <2>5, <3>1, <3>3 DEF Verdict, Right
    <3>4. CASE verdict = "binding_mismatch"
      BY <1>4, <2>1, <2>5, <3>1, <3>4 DEF Verdict, Right
    <3>5. CASE verdict = "verified_once"
      <4>1. clock < g.receipt.expiresAt /\ g.binding = old.binding
        BY <1>1, <2>3, <2>5, <3>1, <3>5 DEF Verdict
      <4> HIDE DEF verdict
      <4> QED
        BY <1>1, <1>4, <2>1, <2>3, <3>1, <3>5, <4>1 DEF Right
    <3>6. verdict # "invalid"
      BY <2>5 DEF Verdict
    <3> HIDE DEF verdict
    <3> QED
      BY <1>5, <3>2, <3>3, <3>4, <3>5, <3>6 DEF Verdicts
  <2> QED
    BY <2>4, <2>5
<1>12. ASSUME NEW i \in Receipts'
       PROVE  /\ i \in Receipts
              /\ requests'[i].receipt = requests[i].receipt
              /\ requests'[i].client = requests[i].client
              /\ requests'[i].binding = requests[i].binding
  BY <1>9, <1>12 DEF Receipts, SameReceipt
<1>13. ASSUME NEW i \in Receipts', NEW client, NEW binding, NEW d, d.verdict \in Verdicts,
              \/ Right(requests[i], client, binding, d, accepted)
              \/ Right(requests[i], client, binding, d, accepted')
       PROVE  Right(requests'[i], client, binding, d, accepted')
  <2>1. Right(requests[i], client, binding, d, accepted')
    BY <1>3, <1>13, RightGrows
  <2> QED
    BY <1>12, <1>13, <2>1 DEF Right, Verdicts
<1>14. \A v \in Request :
          /\ db.verifications[v] # None =>
                 db.verifications[v].decision.verdict \in Verdicts
          /\ backup # None /\ backup.verifications[v] # None =>
                 backup.verifications[v].decision.verdict \in Verdicts
          /\ requests[v].decision # None => requests[v].decision.verdict \in Verdicts
  BY <1>1 DEF TypeOK, Database, VerificationRow, Decision, RequestState
<1>15. Consistent(db)'
  <2>1. ASSUME NEW i \in Receipts', NEW v \in Request, db'.verifications[v] # None,
               db'.verifications[v].proof = requests'[i].receipt.proof
        PROVE  Right(requests'[i], db'.verifications[v].client,
                     db'.verifications[v].binding, db'.verifications[v].decision, accepted')
    <3>1. CASE v = r
      BY <1>4, <1>5, <1>8, <1>11, <1>12, <1>13, <2>1, <3>1
    <3>2. CASE v # r
      <4>1. Right(requests[i], db.verifications[v].client, db.verifications[v].binding,
                  db.verifications[v].decision, accepted)
        BY <1>8, <1>12, <2>1, <3>2 DEF HInv, Consistent
      <4> QED
        BY <1>8, <1>13, <1>14, <2>1, <3>2, <4>1
    <3> QED
      BY <3>1, <3>2
  <2> QED
    BY <2>1 DEF Consistent
<1>16. backup' # None => Consistent(backup)'
  <2>1. ASSUME backup # None, NEW i \in Receipts', NEW v \in Request,
               backup.verifications[v] # None,
               backup.verifications[v].proof = requests'[i].receipt.proof
        PROVE  Right(requests'[i], backup.verifications[v].client,
                     backup.verifications[v].binding, backup.verifications[v].decision,
                     accepted')
    <3>1. Right(requests[i], backup.verifications[v].client,
                backup.verifications[v].binding, backup.verifications[v].decision, accepted)
      BY <1>12, <2>1 DEF HInv, Consistent
    <3> QED
      BY <1>13, <1>14, <2>1, <3>1
  <2> QED
    BY <1>3, <2>1 DEF Consistent
<1>17. ReceiptHonoured'
  <2>1. ASSUME NEW i \in Receipts', NEW v \in Judged',
               requests'[v].proof = requests'[i].receipt.proof
        PROVE  Right(requests'[i], requests'[v].client, requests'[v].binding,
                     requests'[v].decision, accepted')
    <3>1. v \in Request /\ requests'[v].decision # None
      BY DEF Judged
    <3>2. CASE v = r
      BY <1>2, <1>4, <1>5, <1>8, <1>11, <1>12, <1>13, <2>1, <3>2
    <3>3. CASE v # r
      <4>1. v \in Judged /\ requests'[v] = requests[v]
        BY <1>8, <3>1, <3>3 DEF Judged
      <4>2. Right(requests[i], requests[v].client, requests[v].binding,
                  requests[v].decision, accepted)
        BY <1>12, <2>1, <4>1, HonouredIsRight DEF HInv
      <4> QED
        BY <1>13, <1>14, <3>1, <4>1, <4>2
    <3> QED
      BY <3>2, <3>3
  <2> QED
    BY <2>1 DEF ReceiptHonoured, Right
<1> QED
  BY <1>10, <1>15, <1>16, <1>17 DEF Honours

LEMMA NextHonours == HInv /\ [Next]_vars => HInv'
<1> SUFFICES ASSUME HInv, [Next]_vars PROVE HInv'
  OBVIOUS
<1>1. FInv' /\ TypeOK'
  BY NextFiled DEF HInv, FInv, RInv, IInv
<1>2. ASSUME NEW r \in Request, SendIssue(r) \/ SendVerify(r) \/ Handle(r)
      PROVE  Honours
  <2>1. CASE IssueProof(r)
    BY <1>1, <2>1, IssueHonours
  <2>2. CASE Judge(r)
    BY <1>1, <2>2, JudgeHonours
  <2>3. CASE SendIssue(r) \/ SendVerify(r) \/ Authenticate(r) \/ CheckPolicy(r)
              \/ RefuseIssue(r) \/ Lookup(r) \/ Recall(r) \/ EndVerify(r)
              \/ Reply(r) \/ StoreFails(r)
    <3>1. PICK q : requests' = [requests EXCEPT ![r] = q] /\ Moves(q, requests[r])
      BY <2>3, HandlerEffect DEF HInv
    <3>2. UNCHANGED <<clock, db, backup, names, accepted>>
      BY <2>3 DEF SendIssue, SendVerify, Authenticate, CheckPolicy, RefuseIssue, Lookup,
                  Recall, EndVerify, Reply, StoreFails
    <3> QED
      BY <1>1, <3>1, <3>2, HandlerHonours
  <2> QED
    BY <1>2, <2>1, <2>2, <2>3 DEF Handle
<1>3. ASSUME Crash PROVE Honours
  BY <1>1, <1>3, CrashHonours
<1>4. ASSUME Administer PROVE Honours
  BY <1>1, <1>4, AdminHonours
<1>5. ASSUME Tick \/ ClockStepsBack \/ UNCHANGED vars PROVE Honours
  BY <1>1, <1>5, ClockHonours
<1>6. Honours
  BY <1>2, <1>3, <1>4, <1>5 DEF Next
<1> QED
  BY <1>1, <1>6 DEF HInv, Honours

(* What a receipt says is what every verification does.                    *)
THEOREM ReceiptsHonoured == Spec => []ReceiptHonoured
<1>1. HInv => ReceiptHonoured
  BY DEF HInv
<1> QED
  BY <1>1, InitHonoured, NextHonours, PTL DEF Spec

-----------------------------------------------------------------------------
(* The inductive invariant about the rate limit *)

InWindow(c, operation, t) ==
    {r \in Request :
        /\ requests[r].slotAt # None
        /\ requests[r].client = c
        /\ requests[r].operation = operation
        /\ t - Window < requests[r].slotAt
        /\ requests[r].slotAt <= t}

\* The row of rate_events for the slot that q took.
EventOf(r, q) ==
    [id |-> r, client |-> q.client, operation |-> q.operation, at |-> q.slotAt]

\* Who took a slot has answered; the slot is past.
Slotted(q, drawn) ==
    q.slotAt # None =>
        /\ q.step \in Over
        /\ q.client \in Client /\ q.client \in drawn
        /\ q.slotAt <= clock

\* While its client serves, a slot that still counts is on file.
OnFile(r) ==
    /\ requests[r].slotAt # None
    /\ requests[r].slotAt > clock - Window
    /\ Serves(requests[r].client)
    => EventOf(r, requests[r]) \in db.rateEvents

AllOnFile == \A r \in Request : Slotted(requests[r], names) /\ OnFile(r)

FiniteTables ==
    IsFiniteSet(db.rateEvents) /\ (backup # None => IsFiniteSet(backup.rateEvents))

WindowsBounded ==
    \A c \in Client, operation \in Operation, t \in 0..clock :
        /\ IsFiniteSet(InWindow(c, operation, t))
        /\ Cardinality(InWindow(c, operation, t)) <= LimitOf(operation)

QInv ==
    /\ RInv
    /\ AllOnFile
    /\ FiniteTables
    /\ WindowsBounded

LEMMA InitCounted == Init => QInv
<1> SUFFICES ASSUME Init PROVE QInv
  OBVIOUS
<1>1. /\ \A r \in Request : requests[r].slotAt = None
      /\ db.rateEvents = {} /\ backup = None
  BY DEF Init, Idle, EmptyDatabase
<1>2. AllOnFile
  BY <1>1 DEF AllOnFile, Slotted, OnFile
<1>3. FiniteTables
  BY <1>1, FS_EmptySet DEF FiniteTables
<1>4. WindowsBounded
  <2>1. ASSUME NEW c, NEW operation, NEW t PROVE InWindow(c, operation, t) = {}
    BY <1>1 DEF InWindow
  <2>2. ASSUME NEW operation \in Operation PROVE 0 <= LimitOf(operation)
    BY BoundAssumption DEF LimitOf
  <2> QED
    BY <2>1, <2>2, FS_EmptySet DEF WindowsBounded
<1> QED
  BY <1>2, <1>3, <1>4, InitFirm DEF QInv

(* A serving client's window is on file: the test of the transaction sees  *)
(* every slot that counts.                                                 *)
LEMMA TableShowsWindow ==
    ASSUME QInv, NEW c \in Client, NEW operation \in Operation, Serves(c)
    PROVE  LET counted == Unexpired(Metered(db, c, operation), clock) IN
           /\ Cardinality(counted) \in Nat
           /\ IsFiniteSet(InWindow(c, operation, clock))
           /\ Cardinality(InWindow(c, operation, clock)) <= Cardinality(counted)
<1> DEFINE counted == Unexpired(Metered(db, c, operation), clock)
           window == InWindow(c, operation, clock)
           f == [r \in window |-> EventOf(r, requests[r])]
<1>1. IsFiniteSet(counted)
  <2>1. counted \in SUBSET db.rateEvents
    BY DEF Unexpired, Metered
  <2> QED
    BY <2>1, FS_Subset DEF QInv, FiniteTables
<1>2. ASSUME NEW r \in window PROVE EventOf(r, requests[r]) \in counted
  BY DEF InWindow, QInv, AllOnFile, OnFile, EventOf, Unexpired, Metered
<1>3. \A r, s \in window : f[r] = f[s] => r = s
  BY DEF EventOf
<1>4. f \in [window -> counted]
  BY <1>2
<1>5. f \in Injection(window, counted)
  <2> HIDE DEF f
  <2> QED
    BY <1>3, <1>4 DEF Injection, IsInjective
<1>6. IsFiniteSet(window) /\ Cardinality(window) <= Cardinality(counted)
  <2> HIDE DEF f, window, counted
  <2> QED
    BY <1>1, <1>5, FS_Injection
<1> QED
  BY <1>1, <1>6, FS_CardinalityType

-----------------------------------------------------------------------------
(* Steps that take no slot *)

SameSlot(q, old) ==
    q.slotAt # None =>
        /\ q.slotAt = old.slotAt /\ q.client = old.client
        /\ q.operation = old.operation /\ q.step \in Over

LEMMA QuotaStands ==
    ASSUME QInv, TypeOK', clock <= clock', names \subseteq names',
           \A r \in Request : SameSlot(requests'[r], requests[r]),
           \A c \in Client : c \in names /\ Serves(c)' =>
               /\ Serves(c)
               /\ \A e \in db.rateEvents : e.at > clock - Window => e \in db'.rateEvents
    PROVE  AllOnFile' /\ WindowsBounded'
<1>1. /\ clock \in Nat /\ clock' \in Nat /\ Window \in Nat
      /\ \A r \in Request : /\ requests[r].slotAt \in Nat \cup {None}
                            /\ requests'[r].slotAt \in Nat \cup {None}
  BY WindowAssumption DEF QInv, RInv, IInv, TypeOK, RequestState
<1>2. ASSUME NEW r \in Request, requests'[r].slotAt # None
      PROVE  /\ requests[r].slotAt \in Nat /\ requests[r].slotAt # None
             /\ requests'[r].slotAt = requests[r].slotAt
             /\ requests'[r].client = requests[r].client
             /\ requests'[r].operation = requests[r].operation
             /\ requests'[r].step \in Over
             /\ requests[r].client \in Client /\ requests[r].client \in names
             /\ requests[r].slotAt <= clock
  BY <1>1, <1>2 DEF SameSlot, QInv, AllOnFile, Slotted
<1>3. ASSUME NEW r \in Request PROVE Slotted(requests[r], names)' /\ OnFile(r)'
  <2>1. Slotted(requests[r], names)'
    BY <1>1, <1>2 DEF Slotted
  <2>2. ASSUME requests'[r].slotAt # None, requests'[r].slotAt > clock' - Window,
               Serves(requests[r].client)'
        PROVE  EventOf(r, requests'[r]) \in db'.rateEvents
    <3>1. PICK c \in Client : c = requests[r].client /\ c \in names
      BY <1>2, <2>2
    <3>2. requests'[r].client = c
      BY <1>2, <2>2, <3>1
    <3>3. Serves(c)'
      BY <2>2, <3>2
    <3>4. Serves(c) /\ \A e \in db.rateEvents : e.at > clock - Window => e \in db'.rateEvents
      BY <3>1, <3>3
    <3>5. EventOf(r, requests[r]) \in db.rateEvents /\ requests[r].slotAt > clock - Window
      BY <1>1, <1>2, <2>2, <3>1, <3>4 DEF QInv, AllOnFile, OnFile
    <3>6. EventOf(r, requests'[r]) = EventOf(r, requests[r])
      BY <1>2, <2>2 DEF EventOf
    <3> QED
      BY <3>4, <3>5, <3>6 DEF EventOf
  <2> QED
    BY <2>1, <2>2 DEF OnFile
<1>4. ASSUME NEW c \in Client, NEW operation \in Operation, NEW t \in 0..clock'
      PROVE  /\ IsFiniteSet(InWindow(c, operation, t)')
             /\ Cardinality(InWindow(c, operation, t)') <= LimitOf(operation)
  <2>1. PICK u \in 0..clock : u = IF t <= clock THEN t ELSE clock
    BY <1>1
  <2>2. InWindow(c, operation, t)' \in SUBSET InWindow(c, operation, u)
    BY <1>1, <1>2, <2>1 DEF InWindow
  <2>3. /\ IsFiniteSet(InWindow(c, operation, u))
        /\ Cardinality(InWindow(c, operation, u)) <= LimitOf(operation)
    BY DEF QInv, WindowsBounded
  <2>4. LimitOf(operation) \in Nat
    BY BoundAssumption DEF LimitOf
  <2> HIDE DEF InWindow
  <2> QED
    BY <2>2, <2>3, <2>4, FS_Subset, FS_CardinalityType
<1> QED
  BY <1>3, <1>4 DEF AllOnFile, WindowsBounded

LEMMA HandlerSlots ==
    ASSUME QInv, NEW r \in Request,
           SendIssue(r) \/ SendVerify(r) \/ Authenticate(r) \/ CheckPolicy(r)
              \/ RefuseIssue(r) \/ Lookup(r) \/ Recall(r) \/ EndVerify(r)
              \/ Reply(r) \/ StoreFails(r)
    PROVE  \E q : requests' = [requests EXCEPT ![r] = q] /\ SameSlot(q, requests[r])
<1> DEFINE old == requests[r]
           Goal == \E q : requests' = [requests EXCEPT ![r] = q] /\ SameSlot(q, old)
<1>1. /\ old \in RequestState
      /\ old.slotAt # None => old.step \in Over
  BY DEF QInv, RInv, IInv, TypeOK, AllOnFile, Slotted
<1>2. ASSUME Refuse(r) PROVE Goal
  <2>1. SameSlot([Idle EXCEPT !.step = "reply"], old)
    BY DEF Idle, SameSlot
  <2> QED
    BY <1>2, <2>1 DEF Refuse
<1>3. ASSUME NEW step, Goto(r, step), old.step = "reply" => step \in Over,
             old.step \in {"policy", "lookup", "recall", "reply"}
      PROVE  Goal
  <2>1. SameSlot([old EXCEPT !.step = step], old)
    BY <1>1, <1>3 DEF RequestState, SameSlot, Over
  <2> QED
    BY <1>3, <2>1 DEF Goto
<1>4. ASSUME NEW v \in Request, AnswerFromRow(r, v), old.step \in {"recall", "commit"}
      PROVE  Goal
  <2>1. SameSlot(Decided(old, db.verifications[v].decision), old)
    BY <1>1, <1>4 DEF Decided, Answered, RequestState, SameSlot, Over
  <2> QED
    BY <1>2, <1>4, <2>1 DEF AnswerFromRow
<1>5. CASE SendIssue(r)
  <2>1. PICK k \in (names \cap Credential) \cup {None}, b \in Binding, ttl \in Ttls :
           requests' = [requests EXCEPT ![r] =
               [Idle EXCEPT !.step = "authenticate", !.operation = "issue",
                   !.credential = k, !.binding = b, !.ttl = ttl, !.at = clock]]
    BY <1>5 DEF SendIssue
  <2>2. SameSlot([Idle EXCEPT !.step = "authenticate", !.operation = "issue",
                   !.credential = k, !.binding = b, !.ttl = ttl, !.at = clock], old)
    BY DEF Idle, SameSlot
  <2> QED
    BY <2>1, <2>2
<1>6. CASE SendVerify(r)
  <2>1. PICK k \in (names \cap Credential) \cup {None},
             p \in (names \cap Proof) \cup {None},
             b \in Binding, key \in Key \cup {None} :
           requests' = [requests EXCEPT ![r] =
               [Idle EXCEPT !.step = "authenticate", !.operation = "verify",
                   !.credential = k, !.proof = p, !.binding = b, !.key = key,
                   !.at = clock]]
    BY <1>6 DEF SendVerify
  <2>2. SameSlot([Idle EXCEPT !.step = "authenticate", !.operation = "verify",
                   !.credential = k, !.proof = p, !.binding = b, !.key = key,
                   !.at = clock], old)
    BY DEF Idle, SameSlot
  <2> QED
    BY <2>1, <2>2
<1>7. CASE Authenticate(r)
  <2>1. CASE Refuse(r)
    BY <1>2, <2>1
  <2>2. CASE ~Refuse(r)
    <3>1. PICK step, c :
             /\ requests' = [requests EXCEPT ![r].step = step, ![r].client = c]
             /\ old.step = "authenticate"
      BY <1>7, <2>2 DEF Authenticate
    <3>2. SameSlot([old EXCEPT !.step = step, !.client = c], old)
      BY <1>1, <3>1 DEF RequestState, SameSlot, Over
    <3> QED
      BY <3>1, <3>2
  <2> QED
    BY <2>1, <2>2
<1>8. CASE CheckPolicy(r)
  BY <1>2, <1>3, <1>8 DEF CheckPolicy
<1>9. CASE RefuseIssue(r)
  BY <1>2, <1>9 DEF RefuseIssue
<1>10. CASE Lookup(r)
  BY <1>2, <1>3, <1>10 DEF Lookup
<1>11. CASE Recall(r)
  BY <1>3, <1>4, <1>11 DEF Recall, KeyRows
<1>12. CASE EndVerify(r)
  BY <1>2, <1>4, <1>12 DEF EndVerify, At, KeyRows
<1>13. CASE Reply(r)
  BY <1>3, <1>13 DEF Reply, Over
<1>14. CASE StoreFails(r)
  BY <1>2, <1>14 DEF StoreFails
<1> QED
  BY <1>5, <1>6, <1>7, <1>8, <1>9, <1>10, <1>11, <1>12, <1>13, <1>14

-----------------------------------------------------------------------------
(* The two transactions take a slot *)

LEMMA SlotEffect ==
    ASSUME QInv, NEW r \in Request, IssueProof(r) \/ Judge(r)
    PROVE  LET old == requests[r] IN
           /\ old \in RequestState /\ old.client \in Client /\ old.operation \in Operation
           /\ old.slotAt = None /\ Serves(old.client) /\ old.client \in names
           /\ names \subseteq names'
           /\ HasSlot(Metered(db, old.client, old.operation), LimitOf(old.operation), clock)
           /\ db'.rateEvents = TakeSlot(db, r, old.client, old.operation, clock).rateEvents
           /\ \E q : /\ requests' = [requests EXCEPT ![r] = q]
                     /\ q.slotAt = clock /\ q.step = "reply"
                     /\ q.client = old.client /\ q.operation = old.operation
<1> DEFINE old == requests[r]
<1>1. /\ db \in Database /\ clock \in Nat /\ old \in RequestState /\ Drawn(db)
      /\ old.slotAt # None => old.step \in Over
      /\ old.step = "commit" => old.credential \in Credential /\ old.client \in Client
  BY DEF QInv, RInv, IInv, TypeOK, AllOnFile, Slotted, Identified
<1>2. CASE IssueProof(r)
  <2>1. PICK p \in Proof \ names :
         /\ db' = [TakeSlot(db, r, old.client, "issue", clock)
                      EXCEPT !.proofs[p] = IssueRow(old, clock)]
         /\ names' = names \cup {p}
         /\ requests' = [requests EXCEPT ![r] = [Answered(@) EXCEPT
                !.slotAt = clock,
                !.receipt = [proof |-> p, issuedAt |-> clock,
                             expiresAt |-> clock + old.ttl]]]
    BY <1>2, Zenon DEF IssueProof
  <2>2. /\ old.step = "commit" /\ old.operation = "issue" /\ MayIssue(db, old, clock)
        /\ HasSlot(Metered(db, old.client, "issue"), IssueLimit, clock)
    BY <1>2 DEF IssueProof, At
  <2> DEFINE q == [Answered(old) EXCEPT
                !.slotAt = clock,
                !.receipt = [proof |-> p, issuedAt |-> clock,
                             expiresAt |-> clock + old.ttl]]
  <2>3. /\ q.slotAt = clock /\ q.step = "reply"
        /\ q.client = old.client /\ q.operation = old.operation
    BY <1>1 DEF Answered, RequestState
  <2>4. requests' = [requests EXCEPT ![r] = q]
    BY <2>1
  <2>5. db'.rateEvents = TakeSlot(db, r, old.client, "issue", clock).rateEvents
    BY <1>1, <2>1 DEF TakeSlot, Database
  <2>6. Serves(old.client) /\ old.client \in names
    BY <1>1, <2>2 DEF MayIssue, Authority, Authentic, Serves, Drawn
  <2> HIDE DEF q
  <2>7. LimitOf("issue") = IssueLimit
    BY DEF LimitOf
  <2> QED
    BY <1>1, <2>1, <2>2, <2>3, <2>4, <2>5, <2>6, <2>7 DEF Over, Operation
<1>3. CASE Judge(r)
  <2> DEFINE verdict == Verdict(db, old.proof, old.client, old.binding, clock)
             decision == [verdict |-> verdict, id |-> r, at |-> clock]
             slotted == TakeSlot(db, r, old.client, "verify", clock)
             row == VerificationRowOf(old, decision)
  <2>1. /\ db' = [Consume(slotted, verdict, old.proof, r) EXCEPT !.verifications[r] = row]
        /\ requests' = [requests EXCEPT ![r] = [Decided(@, decision) EXCEPT !.slotAt = clock]]
        /\ names' = names
    BY <1>3, Zenon DEF Judge
  <2>2. /\ old.step = "commit" /\ old.operation = "verify" /\ MayVerify(db, old, clock)
        /\ HasSlot(Metered(db, old.client, "verify"), VerifyLimit, clock)
    BY <1>3 DEF Judge, At
  <2> DEFINE q == [Decided(old, decision) EXCEPT !.slotAt = clock]
  <2>3. /\ q.slotAt = clock /\ q.step = "reply"
        /\ q.client = old.client /\ q.operation = old.operation
    BY <1>1 DEF Decided, Answered, RequestState
  <2>4. requests' = [requests EXCEPT ![r] = q]
    BY <2>1
  <2>5. db'.rateEvents = slotted.rateEvents
    <3>1. slotted = [db EXCEPT !.rateEvents = slotted.rateEvents]
      BY <1>1 DEF TakeSlot, Database
    <3> HIDE DEF slotted, verdict, row
    <3> QED
      BY <1>1, <2>1, <3>1 DEF Consume, Database
  <2>6. Serves(old.client) /\ old.client \in names
    BY <1>1, <2>2 DEF MayVerify, Authority, Authentic, Serves, Drawn
  <2> HIDE DEF q, verdict, decision, row
  <2>7. LimitOf("verify") = VerifyLimit
    BY DEF LimitOf
  <2> QED
    BY <1>1, <2>1, <2>2, <2>3, <2>4, <2>5, <2>6, <2>7 DEF Over, Operation
<1> QED
  BY <1>2, <1>3

LEMMA SlotCounted ==
    ASSUME QInv, NEW r \in Request, IssueProof(r) \/ Judge(r), TypeOK'
    PROVE  AllOnFile' /\ FiniteTables' /\ WindowsBounded'
<1> DEFINE old == requests[r]
<1>1. /\ old \in RequestState /\ old.client \in Client /\ old.operation \in Operation
      /\ old.slotAt = None /\ Serves(old.client) /\ old.client \in names
      /\ names \subseteq names'
      /\ HasSlot(Metered(db, old.client, old.operation), LimitOf(old.operation), clock)
      /\ db'.rateEvents = TakeSlot(db, r, old.client, old.operation, clock).rateEvents
  BY SlotEffect
<1>2. PICK q : /\ requests' = [requests EXCEPT ![r] = q]
               /\ q.slotAt = clock /\ q.step = "reply"
               /\ q.client = old.client /\ q.operation = old.operation
  BY SlotEffect
<1>3. /\ TypeOK /\ clock \in Nat /\ Window \in Nat \ {0} /\ db \in Database
      /\ clock' = clock /\ backup' = backup /\ db'.clients = db.clients
      /\ db'.restoreRequired = db.restoreRequired
      /\ \A s \in Request : requests[s].slotAt \in Nat \cup {None}
  BY TransactionKeeps, WindowAssumption DEF QInv, RInv, IInv, TypeOK, RequestState
<1>4. /\ \A s \in Request : requests'[s] = IF s = r THEN q ELSE requests[s]
      /\ db'.rateEvents = Unexpired(db.rateEvents, clock) \cup {EventOf(r, q)}
      /\ \A c : Serves(c)' <=> Serves(c)
  <2>1. \A s \in Request : requests'[s] = IF s = r THEN q ELSE requests[s]
    BY <1>2, <1>3 DEF TypeOK
  <2>2. db'.rateEvents = Unexpired(db.rateEvents, clock) \cup {EventOf(r, q)}
    BY <1>1, <1>2, <1>3 DEF TakeSlot, Database, EventOf
  <2> QED
    BY <1>3, <2>1, <2>2 DEF Serves
<1>5. FiniteTables'
  <2>1. Unexpired(db.rateEvents, clock) \in SUBSET db.rateEvents
    BY DEF Unexpired
  <2>2. IsFiniteSet(Unexpired(db.rateEvents, clock))
    BY <2>1, FS_Subset DEF QInv, FiniteTables
  <2> QED
    BY <1>3, <1>4, <2>2, FS_AddElement DEF QInv, FiniteTables
<1>6. ASSUME NEW s \in Request PROVE Slotted(requests[s], names)' /\ OnFile(s)'
  <2>1. CASE s = r
    <3>1. Slotted(requests[s], names)'
      BY <1>1, <1>2, <1>3, <1>4, <2>1 DEF Slotted, Over
    <3>2. EventOf(r, requests'[r]) \in db'.rateEvents
      BY <1>4
    <3> QED
      BY <2>1, <3>1, <3>2 DEF OnFile
  <2>2. CASE s # r
    <3>1. requests'[s] = requests[s] /\ Slotted(requests[s], names) /\ OnFile(s)
      BY <1>4, <2>2 DEF QInv, AllOnFile
    <3>2. Slotted(requests[s], names)'
      BY <1>1, <1>3, <3>1 DEF Slotted
    <3>3. ASSUME requests[s].slotAt # None, requests[s].slotAt > clock - Window,
                 Serves(requests[s].client)
          PROVE  EventOf(s, requests[s]) \in db'.rateEvents
      <4>1. EventOf(s, requests[s]) \in db.rateEvents
        BY <3>1, <3>3 DEF OnFile
      <4>2. EventOf(s, requests[s]).at > clock - Window
        BY <3>3 DEF EventOf
      <4> QED
        BY <1>4, <4>1, <4>2 DEF Unexpired
    <3> QED
      BY <1>3, <1>4, <3>1, <3>2, <3>3 DEF OnFile
  <2> QED
    BY <2>1, <2>2
<1>7. ASSUME NEW c \in Client, NEW operation \in Operation, NEW t \in 0..clock
      PROVE  /\ IsFiniteSet(InWindow(c, operation, t)')
             /\ Cardinality(InWindow(c, operation, t)') <= LimitOf(operation)
  <2>1. /\ IsFiniteSet(InWindow(c, operation, t))
        /\ Cardinality(InWindow(c, operation, t)) <= LimitOf(operation)
    BY DEF QInv, WindowsBounded
  <2>2. CASE t # clock \/ c # old.client \/ operation # old.operation
    <3>1. InWindow(c, operation, t)' = InWindow(c, operation, t)
      BY <1>1, <1>2, <1>3, <1>4, <2>2 DEF InWindow
    <3> QED
      BY <2>1, <3>1
  <2>3. CASE t = clock /\ c = old.client /\ operation = old.operation
    <3> DEFINE counted == Unexpired(Metered(db, c, operation), clock)
               window == InWindow(c, operation, clock)
    <3>1. InWindow(c, operation, t)' = window \cup {r}
      <4>1. \A s \in Request : s # r =>
                (s \in InWindow(c, operation, t)' <=> s \in window)
        BY <1>4, <2>3 DEF InWindow
      <4>2. clock - Window < clock /\ clock <= clock
        BY <1>3
      <4>3. r \in InWindow(c, operation, t)'
        <5>1. requests'[r] = q /\ q.slotAt # None
          BY <1>2, <1>3, <1>4, NoneAssumption
        <5> QED
          BY <1>1, <1>2, <2>3, <4>2, <5>1 DEF InWindow
      <4>4. InWindow(c, operation, t)' \subseteq Request /\ window \subseteq Request
        BY DEF InWindow
      <4> HIDE DEF window
      <4> QED
        BY <4>1, <4>3, <4>4
    <3>2. /\ Cardinality(counted) \in Nat /\ IsFiniteSet(window)
          /\ Cardinality(window) <= Cardinality(counted)
      BY <1>1, <2>3, TableShowsWindow
    <3>3. Cardinality(counted) < LimitOf(operation)
      BY <1>1, <2>3 DEF HasSlot
    <3>4. r \notin window
      BY <1>1 DEF InWindow
    <3>5. LimitOf(operation) \in Nat
      BY BoundAssumption DEF LimitOf
    <3> HIDE DEF window, counted
    <3>6. /\ IsFiniteSet(window \cup {r})
          /\ Cardinality(window \cup {r}) = Cardinality(window) + 1
          /\ Cardinality(window) \in Nat
      BY <3>2, <3>4, FS_AddElement, FS_CardinalityType
    <3> QED
      BY <3>1, <3>2, <3>3, <3>5, <3>6
  <2> QED
    BY <2>2, <2>3
<1> QED
  BY <1>3, <1>5, <1>6, <1>7 DEF AllOnFile, WindowsBounded

(* Deletions take only what no longer counts, and whoever loses more no    *)
(* longer serves.                                                          *)
LEMMA AdminCounted ==
    ASSUME QInv, StepBack = 0, Administer, TypeOK'
    PROVE  AllOnFile' /\ FiniteTables' /\ WindowsBounded'
<1> DEFINE Lasts == \A c \in Client : c \in names /\ Serves(c)' =>
               /\ Serves(c)
               /\ \A e \in db.rateEvents : e.at > clock - Window => e \in db'.rateEvents
<1>1. /\ TypeOK /\ db \in Database /\ clock \in Nat /\ Window \in Nat /\ RInv /\ Next
      /\ UNCHANGED <<clock, requests>> /\ names \subseteq names' /\ clock <= clock'
      /\ backup # None => backup \in Database /\ backup.restoreRequired
  BY AdminCommon, WindowAssumption DEF QInv, RInv, IInv, TypeOK, Next, BackupSealed
<1>2. \A r \in Request : SameSlot(requests'[r], requests[r])
  BY <1>1 DEF SameSlot, QInv, AllOnFile, Slotted
<1>3. \A c \in Client : c \in names /\ Serves(c)' => Serves(c)
  BY <1>1, ClientsNeverReturn
<1>4. ASSUME Lasts PROVE AllOnFile' /\ WindowsBounded'
  BY <1>1, <1>2, <1>4, QuotaStands
<1>5. IsFiniteSet(db.rateEvents) /\ (backup # None => IsFiniteSet(backup.rateEvents))
  BY DEF QInv, FiniteTables
<1>6. ASSUME db'.rateEvents = db.rateEvents, backup' = backup
      PROVE  FiniteTables' /\ Lasts
  BY <1>3, <1>5, <1>6 DEF FiniteTables
<1>7. ASSUME NEW c \in Client, NEW i \in Credential, NEW v \in Credential,
             CreateClient(c, i, v)
      PROVE  FiniteTables' /\ Lasts
  BY <1>1, <1>6, <1>7 DEF CreateClient, Database
<1>8. ASSUME NEW now \in Sampled, NEW c \in Client, NEW role \in Role,
             NEW new \in Credential, NEW g \in Graces,
             RotateCredential(c, role, new, g, now)
      PROVE  FiniteTables' /\ Lasts
  BY <1>1, <1>6, <1>8 DEF RotateCredential, Database
<1>9. ASSUME NEW now \in Sampled, NEW c \in Client, RevokeClient(c, now)
      PROVE  FiniteTables' /\ Lasts
  BY <1>1, <1>6, <1>9 DEF RevokeClient, Database
<1>10. ASSUME NEW now \in Sampled, Cleanup(now)
       PROVE  FiniteTables' /\ Lasts
  <2>1. /\ now \in Nat /\ now <= clock /\ backup' = backup
        /\ db'.rateEvents = Unexpired(db.rateEvents, now)
    BY <1>1, <1>10, SampledPast DEF Cleanup, Database
  <2>2. db'.rateEvents \in SUBSET db.rateEvents
    BY <2>1 DEF Unexpired
  <2>3. FiniteTables'
    BY <1>5, <2>1, <2>2, FS_Subset DEF FiniteTables
  <2>4. \A e \in db.rateEvents : e.at \in Nat
    BY <1>1 DEF Database, RateRow
  <2>5. Lasts
    BY <1>1, <1>3, <2>1, <2>4 DEF Unexpired
  <2> QED
    BY <2>3, <2>5
<1>11. ASSUME NEW now \in Sampled, ActivateRestore(now)
       PROVE  FiniteTables' /\ Lasts
  <2>1. /\ db'.rateEvents = {} /\ backup' = backup
        /\ \A c \in Client : db'.clients[c] = ActivatedStatus(db.clients[c])
    BY <1>1, <1>11 DEF ActivateRestore, Database
  <2>2. FiniteTables'
    BY <1>5, <2>1, FS_EmptySet DEF FiniteTables
  <2>3. \A c \in Client : ~Serves(c)'
    BY <2>1 DEF ActivatedStatus, Serves
  <2> QED
    BY <2>2, <2>3
<1>12. ASSUME TakeBackup PROVE FiniteTables' /\ Lasts
  <2>1. UNCHANGED db /\ backup'.rateEvents = db.rateEvents
    BY <1>1, <1>12 DEF TakeBackup, Sealed, Database
  <2> QED
    BY <1>3, <1>5, <2>1 DEF FiniteTables
<1>13. ASSUME RestoreBackup PROVE FiniteTables' /\ Lasts
  <2>1. backup # None /\ db' = backup /\ backup' = backup
    BY <1>13 DEF RestoreBackup
  <2>2. \A c \in Client : ~Serves(c)'
    BY <1>1, <2>1 DEF Serves
  <2> QED
    BY <1>5, <2>1, <2>2 DEF FiniteTables
<1>14. FiniteTables' /\ Lasts
  <2> HIDE DEF Lasts
  <2> QED
    BY <1>7, <1>8, <1>9, <1>10, <1>11, <1>12, <1>13 DEF Administer
<1> QED
  BY <1>4, <1>14

LEMMA NextCounted ==
    ASSUME StepBack = 0
    PROVE  QInv /\ [Next]_vars => QInv'
<1> SUFFICES ASSUME QInv, [Next]_vars PROVE QInv'
  OBVIOUS
<1> DEFINE Rest == AllOnFile' /\ FiniteTables' /\ WindowsBounded'
<1>1. RInv' /\ TypeOK' /\ clock \in Nat /\ clock' \in Nat /\ clock <= clock'
  BY NextFirm, ClockForward DEF QInv, RInv, IInv
<1>2. ASSUME UNCHANGED <<db, backup, names>>,
             \A r \in Request : SameSlot(requests'[r], requests[r])
      PROVE  Rest
  <2>1. FiniteTables'
    BY <1>2 DEF QInv, FiniteTables
  <2>2. \A c \in Client : c \in names /\ Serves(c)' =>
               /\ Serves(c)
               /\ \A e \in db.rateEvents : e.at > clock - Window => e \in db'.rateEvents
    BY <1>2 DEF Serves
  <2> QED
    BY <1>1, <1>2, <2>1, <2>2, QuotaStands
<1>3. ASSUME NEW r \in Request, SendIssue(r) \/ SendVerify(r) \/ Handle(r)
      PROVE  Rest
  <2>1. CASE IssueProof(r) \/ Judge(r)
    BY <1>1, <2>1, SlotCounted
  <2>2. CASE SendIssue(r) \/ SendVerify(r) \/ Authenticate(r) \/ CheckPolicy(r)
              \/ RefuseIssue(r) \/ Lookup(r) \/ Recall(r) \/ EndVerify(r)
              \/ Reply(r) \/ StoreFails(r)
    <3>1. PICK q : requests' = [requests EXCEPT ![r] = q] /\ SameSlot(q, requests[r])
      BY <2>2, HandlerSlots
    <3>2. UNCHANGED <<db, backup, names>>
      BY <2>2 DEF SendIssue, SendVerify, Authenticate, CheckPolicy, RefuseIssue, Lookup,
                  Recall, EndVerify, Reply, StoreFails
    <3>3. \A s \in Request : SameSlot(requests'[s], requests[s])
      <4>1. \A s \in Request : SameSlot(requests[s], requests[s])
        BY DEF SameSlot, QInv, AllOnFile, Slotted
      <4>2. \A s \in Request : requests'[s] = IF s = r THEN q ELSE requests[s]
        BY <3>1 DEF QInv, RInv, IInv, TypeOK
      <4> QED
        BY <3>1, <4>1, <4>2
    <3> QED
      BY <1>2, <3>2, <3>3
  <2> QED
    BY <1>3, <2>1, <2>2 DEF Handle
<1>4. ASSUME Crash PROVE Rest
  <2>1. UNCHANGED <<db, backup, names>>
    BY <1>4 DEF Crash
  <2>2. ASSUME NEW r \in Request PROVE SameSlot(requests'[r], requests[r])
    <3>1. /\ requests'[r] = Lost(requests[r]) /\ requests[r] \in RequestState
          /\ requests[r].slotAt # None => requests[r].step \in Over
      BY <1>4 DEF Crash, QInv, RInv, IInv, TypeOK, AllOnFile, Slotted
    <3>2. CASE requests[r].step \notin InFlight
      BY <3>1, <3>2 DEF Lost, InFlight, SameSlot
    <3>3. CASE requests[r].step = "reply"
      BY <3>1, <3>3 DEF Lost, InFlight, RequestState, SameSlot, Over
    <3>4. CASE requests[r].step \in InFlight \ {"reply"}
      BY <3>1, <3>4 DEF Lost, InFlight, Idle, SameSlot
    <3> QED
      BY <3>2, <3>3, <3>4
  <2> QED
    BY <1>2, <2>1, <2>2
<1>5. ASSUME Administer PROVE Rest
  BY <1>1, <1>5, AdminCounted
<1>6. ASSUME Tick \/ ClockStepsBack \/ UNCHANGED vars PROVE Rest
  <2>1. UNCHANGED <<db, backup, requests, names>>
    BY <1>6 DEF Tick, ClockStepsBack, vars
  <2>2. \A s \in Request : SameSlot(requests'[s], requests[s])
    BY <2>1 DEF SameSlot, QInv, AllOnFile, Slotted
  <2> QED
    BY <1>2, <2>1, <2>2
<1>7. Rest
  BY <1>3, <1>4, <1>5, <1>6 DEF Next
<1> QED
  BY <1>1, <1>7 DEF QInv

(* No window of the past holds more decisions or issued proofs of a client *)
(* than its limit, as long as the clock is not set back.                   *)
THEOREM QuotasRespected ==
    ASSUME StepBack = 0
    PROVE  Spec => []QuotaRespected
<1>1. QInv => QuotaRespected
  BY DEF QInv, WindowsBounded, InWindow, QuotaRespected
<1> QED
  BY <1>1, InitCounted, NextCounted, PTL DEF Spec
=============================================================================
