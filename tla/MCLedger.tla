------------------------------- MODULE MCLedger -------------------------------
(***************************************************************************)
(* Ledger for TLC.  WarmInit is the state in which the command line leaves *)
(* a new instance after "client create", so that the bounds of a run are   *)
(* spent on what follows; the run that starts from Init creates clients.   *)
(***************************************************************************)
EXTENDS StoredResult, TLC

CONSTANTS c1, i1, v1, new1, new2, p1, p2, r1, r2, r3, r4, k1, good, other

WarmDatabase ==
    [EmptyDatabase EXCEPT
        !.clients[c1] = "active",
        !.credentials[i1] = NewCredential(c1, "issuance"),
        !.credentials[v1] = NewCredential(c1, "verification")]

WarmInit ==
    /\ clock = 0
    /\ db = WarmDatabase
    /\ backup = None
    /\ requests = [r \in Request |-> Idle]
    /\ names = {c1, i1, v1}
    /\ accepted = {}

WarmSpec == WarmInit /\ [][Next]_vars

OneClient == {c1}
OnePair == {i1, v1}
ThreeCredentials == {i1, v1, new1}
FourCredentials == {i1, v1, new1, new2}
OneProof == {p1}
TwoProofs == {p1, p2}
OneRequest == {r1}
TwoRequests == {r1, r2}
ThreeRequests == {r1, r2, r3}
FourRequests == {r1, r2, r3, r4}
OneKey == {k1}
NoKey == {}
OneBinding == {good}
TwoBindings == {good, other}
TtlOne == {1}
TtlTwo == {2}
TtlOneOrThree == {1, 3}
NoGrace == {}
ZeroGrace == {0}
SomeGrace == {0, 2}
GraceTwo == {2}

RequestSymmetry == Permutations(Request)
Symmetry == Permutations(Request) \cup Permutations(Proof)
CredentialSymmetry == Permutations(Request) \cup Permutations(Credential)
=============================================================================
