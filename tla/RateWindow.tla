------------------------------ MODULE RateWindow ------------------------------
(***************************************************************************)
(* The table rate_events as a component of its own: one table shared by    *)
(* every meter (a client and an operation), written inside the write       *)
(* transaction of a request, which reads the clock after BEGIN IMMEDIATE,  *)
(* and trimmed by a cleanup whose notion of "now" was sampled before its   *)
(* own transaction began and may be late.                                  *)
(*                                                                         *)
(* The history variable admitted keeps every event ever committed, so that *)
(* the promise can be stated about all windows of the past rather than     *)
(* about the rows that survive.  The clock only moves forward here.        *)
(***************************************************************************)
EXTENDS Quota

CONSTANTS
    Meter,      \* pairs of a client and an operation
    Limit,      \* Limit[m]: the events admitted per Window for meter m
    Event,      \* identities of rate_events rows, a bound on admissions
    MaxTime,    \* bound on the clock
    None

ASSUME LimitAssumption == Limit \in [Meter -> Nat \ {0}]
ASSUME MaxTimeAssumption == MaxTime \in Nat

VARIABLES
    clock,
    rows,       \* the rows of rate_events
    admitted,   \* history: every row ever committed
    refusal     \* refusal[m]: the last refusal since m's last admission

vars == <<clock, rows, admitted, refusal>>

Row == [id : Event, meter : Meter, at : Nat]

\* A refusal, the second it was made and the second its advice points at.
Refusal == [at : Nat, until : Nat]

Of(m, events) == {e \in events : e.meter = m}

TypeOK ==
    /\ clock \in Nat
    /\ rows \in SUBSET Row
    /\ admitted \in SUBSET Row
    /\ refusal \in [Meter -> Refusal \cup {None}]

Init ==
    /\ clock = 0
    /\ rows = {}
    /\ admitted = {}
    /\ refusal = [m \in Meter |-> None]

\* Faulty form, for the mutant runs: the cutoff is stored as the time.
EventAtCutoff(id, m, now) == [id |-> id, meter |-> m, at |-> now - Window]

NewRow(id, m, now) == [id |-> id, meter |-> m, at |-> now]

\* The transaction of a request that finds a slot.
Admit(m, id) ==
    /\ id \notin {e.id : e \in admitted}
    /\ HasSlot(Of(m, rows), Limit[m], clock)
    /\ rows' = Unexpired(rows, clock) \cup {NewRow(id, m, clock)}
    /\ admitted' = admitted \cup {NewRow(id, m, clock)}
    /\ refusal' = [refusal EXCEPT ![m] = None]
    /\ UNCHANGED clock

\* The transaction of a request that finds none: RateLimitError rolls it
\* back, the deletion of expired rows included.
Refuse(m) ==
    /\ ~HasSlot(Of(m, rows), Limit[m], clock)
    /\ refusal' = [refusal EXCEPT ![m] =
           [at |-> clock, until |-> clock + RetryAfter(Of(m, rows), clock)]]
    /\ UNCHANGED <<clock, rows, admitted>>

\* Store.cleanup, with a time sampled at or before the current second.
Cleanup(now) ==
    /\ now <= clock
    /\ rows' = Unexpired(rows, now)
    /\ UNCHANGED <<clock, admitted, refusal>>

Tick ==
    /\ clock < MaxTime
    /\ clock' = clock + 1
    /\ UNCHANGED <<rows, admitted, refusal>>

Next ==
    \/ \E m \in Meter, id \in Event : Admit(m, id)
    \/ \E m \in Meter : Refuse(m)
    \/ \E now \in 0..MaxTime : Cleanup(now)
    \/ Tick

Spec == Init /\ [][Next]_vars
-----------------------------------------------------------------------------
Load(m, t) == {e \in Of(m, admitted) : t - Window < e.at /\ e.at <= t}

(* No rolling window of the past holds more admissions of one client and   *)
(* operation than its limit, whatever rows the deletions of other clients' *)
(* requests and of late cleanups have removed (store.py 884-887, 1168-1188). *)
WindowRespected ==
    \A m \in Meter, t \in 0..clock : Cardinality(Load(m, t)) <= Limit[m]

(* The Retry-After a refusal sends is exact: until that second no request  *)
(* of the refused meter would be admitted, and from that second on the     *)
(* next one is, unless another request took the slot (store.py 1182-1184). *)
RetryExact ==
    \A m \in Meter : refusal[m] # None =>
        (HasSlot(Of(m, rows), Limit[m], clock) <=> clock >= refusal[m].until)
=============================================================================
