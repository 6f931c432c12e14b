-------------------------------- MODULE Quota --------------------------------
(***************************************************************************)
(* The arithmetic of the rolling rate limit: Store._consume_rate_slot of   *)
(* store.py.  An event is a row of the table rate_events; all that counts  *)
(* is the second at which it was committed (its field "at").  The state    *)
(* machines that keep the table are RateWindow and Ledger.                 *)
(***************************************************************************)
EXTENDS Integers, FiniteSets

CONSTANT Window     \* seconds an event counts for (60 in the code)

ASSUME WindowAssumption == Window \in Nat \ {0}

\* Faulty form, for the mutant runs: an event stops counting a second early.
UnexpiredEarly(events, now) == {e \in events : e.at > now - Window + 1}

\* The events that still count at time now; the others are deleted.
Unexpired(events, now) == {e \in events : e.at > now - Window}

\* Faulty form, for the mutant runs: one admission too many.
HasSlotInclusive(events, limit, now) ==
    Cardinality(Unexpired(events, now)) <= limit

HasSlot(events, limit, now) == Cardinality(Unexpired(events, now)) < limit

Earliest(events) ==
    CHOOSE t \in {e.at : e \in events} : \A e \in events : t <= e.at

Clip(low, n, high) == IF n < low THEN low ELSE IF n > high THEN high ELSE n

\* Faulty form, for the mutant runs: the advice ignores the oldest event.
RetryAfterWindow(events, now) == Window

\* The Retry-After advice of a refusal at time now.
RetryAfter(events, now) ==
    Clip(1, Earliest(Unexpired(events, now)) + Window - now, Window)
=============================================================================
