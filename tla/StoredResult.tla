----------------------------- MODULE StoredResult -----------------------------
(***************************************************************************)
(* The answer of a verification as consume_proof stores it (result_json)   *)
(* and as the strict reader gives it back to a retry (model.py 126-230,    *)
(* store.py 147-203).  The reader refuses what does not fit together, and  *)
(* each retry under the key of a refused row fails with StoreCorruption-   *)
(* Error for as long as the row is retained; so the writer may not store   *)
(* what the reader refuses.  A tag is the proof and JSON's null is None.   *)
(***************************************************************************)
EXTENDS Ledger

\* _REJECTION_REASONS
Reasons ==
    {"credential_rejected", "invalid", "expired", "already_consumed", "binding_mismatch"}

\* Faulty form, for the mutant runs: one state for every rejection.
RejectedState(reason) == "rejected"

StateOf(reason) ==
    IF reason = "already_consumed" THEN "replay_rejected" ELSE "rejected"

Claims(row) ==
    [client |-> row.client, binding |-> row.binding,
     issuedAt |-> row.issuedAt, expiresAt |-> row.expiresAt]

RejectedResult(reason, id, tag, client, now) ==
    [verified |-> FALSE, reason |-> reason, claims |-> None,
     witness |-> [state |-> StateOf(reason), id |-> id, tag |-> tag,
                  client |-> client, at |-> now, reason |-> reason]]

AcceptedResult(row, id, tag, now) ==
    [verified |-> TRUE, reason |-> None, claims |-> Claims(row),
     witness |-> [state |-> "verified_once", id |-> id, tag |-> tag,
                  client |-> row.client, at |-> now, reason |-> None]]

\* What is stored as claims is never the absent value.
ASSUME ClaimsAssumption ==
    None \notin [client : Client, binding : Binding, issuedAt : Nat, expiresAt : Nat]

\* What consume_proof makes of the decision of q on the database d.
ResultOf(d, q, decision) ==
    IF decision.verdict = "verified_once"
    THEN AcceptedResult(d.proofs[q.proof], decision.id, q.proof, decision.at)
    ELSE RejectedResult(decision.verdict, decision.id,
             IF Found(d, q.proof, q.client) THEN q.proof ELSE None, q.client, decision.at)

-----------------------------------------------------------------------------
(* VerificationResult.from_dict: refuses with StoreCorruptionError *)

IsTime(value) == value >= 0

ReadableClaims(claims) ==
    /\ claims # None
    /\ IsTime(claims.issuedAt) /\ IsTime(claims.expiresAt)
    /\ claims.issuedAt < claims.expiresAt

ReadableWitness(witness) ==
    /\ witness.id # None /\ IsTime(witness.at)
    /\ witness.reason # None => witness.reason \in Reasons

ReadableAcceptance(result) ==
    /\ ReadableClaims(result.claims)
    /\ result.reason = None /\ result.witness.reason = None
    /\ result.witness.state = "verified_once"
    /\ result.witness.tag # None
    /\ result.witness.client = result.claims.client

ReadableRejection(result) ==
    /\ result.reason \in Reasons /\ result.witness.reason = result.reason
    /\ result.claims = None
    /\ result.witness.state =
           IF result.reason = "already_consumed" THEN "replay_rejected" ELSE "rejected"

Readable(result) ==
    /\ ReadableWitness(result.witness)
    /\ IF result.verified THEN ReadableAcceptance(result) ELSE ReadableRejection(result)

(* Whatever a verification commits, the strict reader takes back, so that    *)
(* every retry under its key gets the first answer and none is answered      *)
(* with store_unavailable until the row is forgotten (store.py 147-158).     *)
StoredResultsReadable ==
    [][ \A r \in Request :
            Judge(r) =>
                Readable(ResultOf(db, requests[r], db'.verifications[r].decision)) ]_vars

=============================================================================
