----------------------------- MODULE OneTimeProof -----------------------------
(***************************************************************************)
(* What Onceproof promises the parties who hold its answers: a proof is    *)
(* issued once and verified once, and every answer is true of the proof's  *)
(* one history.  There is no database here, no clock, no key, no retry and *)
(* no restore: Ledger, which has them all, implements this specification.  *)
(***************************************************************************)
CONSTANTS
    Proof,
    Request,        \* the requests; one that decides also names its decision
    None

VARIABLES
    life,       \* life[p]: where p stands in its one life
    witness,    \* witness[p]: the decision that accepted p
    told        \* told[r]: what the sender of r was told about a proof

vars == <<life, witness, told>>

\* An answer says one of these of a proof; every other answer is "refused".
Issued(p) == [says |-> "issued", proof |-> p, by |-> None]
VerifiedOnce(p, r) == [says |-> "verified_once", proof |-> p, by |-> r]
AlreadyConsumed(p) == [says |-> "already_consumed", proof |-> p, by |-> None]
Refused == [says |-> "refused", proof |-> None, by |-> None]

Init ==
    /\ life = [p \in Proof |-> "absent"]
    /\ witness = [p \in Proof |-> None]
    /\ told = [r \in Request |-> None]

Issue(p) ==
    /\ life[p] = "absent"
    /\ life' = [life EXCEPT ![p] = "issued"]
    /\ UNCHANGED <<witness, told>>

Accept(p, r) ==
    /\ life[p] = "issued"
    /\ life' = [life EXCEPT ![p] = "verified_once"]
    /\ witness' = [witness EXCEPT ![p] = r]
    /\ UNCHANGED told

\* A refusal is always allowed; the other answers must be true.
Truths ==
    {Refused}
        \cup {Issued(p) : p \in {q \in Proof : life[q] # "absent"}}
        \cup {VerifiedOnce(p, witness[p]) :
                 p \in {q \in Proof : life[q] = "verified_once"}}
        \cup {AlreadyConsumed(p) :
                 p \in {q \in Proof : life[q] = "verified_once"}}

Tell(r) ==
    /\ told[r] = None
    /\ \E answer \in Truths : told' = [told EXCEPT ![r] = answer]
    /\ UNCHANGED <<life, witness>>

Next ==
    \/ \E p \in Proof : Issue(p) \/ \E r \in Request : Accept(p, r)
    \/ \E r \in Request : Tell(r)

Spec == Init /\ [][Next]_vars
=============================================================================
