--------------------------- MODULE RateWindowProofs ---------------------------
(***************************************************************************)
(* RateWindow keeps its promises for every Window, Limit, set of meters    *)
(* and number of events.  The difficulty is that the table forgets: a row  *)
(* is deleted by any meter's request and by a late cleanup.  The inductive *)
(* invariant says that what was forgotten no longer counts, and pins each  *)
(* refusal to the full window it met.                                      *)
(***************************************************************************)
EXTENDS RateWindow, FiniteSetTheorems, WellFoundedInduction, TLAPS

Recent(m, t) == {e \in Of(m, admitted) : e.at > t - Window}

HistoryKept ==
    /\ IsFiniteSet(admitted)
    /\ rows \subseteq admitted
    /\ \A e \in admitted : e.at <= clock

ForgottenExpired == \A e \in admitted \ rows : e.at <= clock - Window

\* A refusal met exactly Limit events, the oldest of which ends its wait.
RefusalFull(m) ==
    /\ refusal[m].at <= clock
    /\ Cardinality(Recent(m, refusal[m].at)) = Limit[m]
    /\ \A e \in Recent(m, refusal[m].at) : e.at >= refusal[m].until - Window
    /\ \E e \in Recent(m, refusal[m].at) : e.at = refusal[m].until - Window

RefusalsFull == \A m \in Meter : refusal[m] # None => RefusalFull(m)

IInv ==
    /\ TypeOK
    /\ HistoryKept
    /\ ForgottenExpired
    /\ WindowRespected
    /\ RefusalsFull

(* A nonempty set of natural numbers has a least element. *)
LEMMA LeastElement ==
    ASSUME NEW T \in SUBSET Nat, T # {}
    PROVE  \E t \in T : \A u \in T : t <= u
<1> DEFINE less == {pair \in Nat \X Nat : pair[1] < pair[2]}
<1>1. IsWellFoundedOn(less, Nat)
  <2>1. OpToRel(<, Nat) = less
    BY Zenon DEF OpToRel
  <2> QED
    BY Zenon, <2>1, NatLessThanWellFounded
<1>2. \E t \in T : \A u \in T : <<u, t>> \notin less
  <2> HIDE DEF less
  <2> QED
    BY <1>1, WFMin
<1>3. PICK t \in T : \A u \in T : <<u, t>> \notin less
  BY <1>2
<1>4. ASSUME NEW u \in T PROVE t <= u
  <2>1. u \in Nat /\ t \in Nat
    OBVIOUS
  <2>2. ~(u < t)
    <3>1. u < t => <<u, t>> \in less
      BY <2>1
    <3> QED
      BY <1>3, <3>1
  <2> QED
    BY <2>1, <2>2
<1> QED
  BY <1>4

(* The event that Earliest names is one of them, and none is older. *)
LEMMA EarliestIsLeast ==
    ASSUME NEW events \in SUBSET Row, events # {}
    PROVE  /\ \E e \in events : e.at = Earliest(events)
           /\ \A e \in events : Earliest(events) <= e.at
           /\ Earliest(events) \in Nat
<1> DEFINE times == {e.at : e \in events}
<1>1. times \in SUBSET Nat /\ times # {}
  BY DEF Row
<1>2. PICK t \in times : \A u \in times : t <= u
  BY <1>1, LeastElement
<1>3. /\ Earliest(events) \in times
      /\ \A e \in events : Earliest(events) <= e.at
  BY <1>2 DEF Earliest
<1> QED
  BY <1>1, <1>3

(* What the table shows a request is what the history says: the events of  *)
(* the window that ends now.                                               *)
LEMMA TableShowsWindow ==
    ASSUME TypeOK, HistoryKept, ForgottenExpired, NEW m \in Meter
    PROVE  /\ Unexpired(Of(m, rows), clock) = Load(m, clock)
           /\ Recent(m, clock) = Load(m, clock)
           /\ IsFiniteSet(Load(m, clock))
<1>1. Recent(m, clock) = Load(m, clock)
  BY DEF Recent, Load, Of, HistoryKept, TypeOK, Row
<1>2. Unexpired(Of(m, rows), clock) = Load(m, clock)
  BY WindowAssumption
  DEF Unexpired, Load, Of, HistoryKept, ForgottenExpired, TypeOK, Row
<1>3. IsFiniteSet(Load(m, clock))
  <2>1. Load(m, clock) \in SUBSET admitted
    BY DEF Load, Of
  <2> QED
    BY <2>1, FS_Subset DEF HistoryKept
<1> QED
  BY <1>1, <1>2, <1>3

(* A refused meter has Limit events in the window, and the advice is the   *)
(* second in which the oldest of them leaves it.                           *)
LEMMA RefusalMeetsFullWindow ==
    ASSUME IInv, NEW m \in Meter,
           ~HasSlot(Of(m, rows), Limit[m], clock)
    PROVE  LET advice == clock + RetryAfter(Of(m, rows), clock) IN
           /\ Cardinality(Recent(m, clock)) = Limit[m]
           /\ \A e \in Recent(m, clock) : e.at >= advice - Window
           /\ \E e \in Recent(m, clock) : e.at = advice - Window
           /\ advice \in Nat
<1> DEFINE seen == Unexpired(Of(m, rows), clock)
           oldest == Earliest(seen)
<1>1. /\ seen = Recent(m, clock)
      /\ seen = Load(m, clock)
      /\ IsFiniteSet(seen)
  BY TableShowsWindow DEF IInv
<1>2. /\ Limit[m] \in Nat \ {0}
      /\ Cardinality(seen) \in Nat
      /\ clock \in Nat
      /\ Window \in Nat \ {0}
  BY <1>1, LimitAssumption, WindowAssumption, FS_CardinalityType DEF IInv, TypeOK
<1>3. Cardinality(seen) <= Limit[m]
  BY <1>1, <1>2 DEF IInv, WindowRespected
<1>4. Cardinality(seen) = Limit[m]
  BY <1>2, <1>3 DEF HasSlot
<1>5. seen # {} /\ seen \in SUBSET Row
  BY <1>2, <1>4, FS_EmptySet DEF Unexpired, Of, IInv, TypeOK
<1>6. /\ \E e \in seen : e.at = oldest
      /\ \A e \in seen : oldest <= e.at
      /\ oldest \in Nat
  BY <1>5, EarliestIsLeast
<1>7. clock - Window < oldest /\ oldest <= clock
  BY <1>1, <1>6 DEF Load
<1>8. RetryAfter(Of(m, rows), clock) = oldest + Window - clock
  BY <1>2, <1>6, <1>7 DEF RetryAfter, Clip
<1> QED
  BY <1>1, <1>2, <1>4, <1>6, <1>8

LEMMA InitEstablishes == Init => IInv
<1> SUFFICES ASSUME Init PROVE IInv
  OBVIOUS
<1>1. TypeOK /\ HistoryKept /\ ForgottenExpired /\ RefusalsFull
  BY FS_EmptySet DEF Init, TypeOK, HistoryKept, ForgottenExpired, RefusalsFull
<1>2. WindowRespected
  <2> SUFFICES ASSUME NEW m \in Meter, NEW t \in 0..clock
               PROVE  Cardinality(Load(m, t)) <= Limit[m]
    BY DEF WindowRespected
  <2>1. Load(m, t) = {}
    BY DEF Init, Load, Of
  <2> QED
    BY <2>1, FS_EmptySet, LimitAssumption
<1> QED
  BY <1>1, <1>2 DEF IInv

LEMMA AdmitPreserves ==
    ASSUME IInv, NEW m \in Meter, NEW id \in Event, Admit(m, id)
    PROVE  IInv'
<1> DEFINE row == NewRow(id, m, clock)
<1>1. /\ row \in Row /\ row.at = clock /\ row.meter = m /\ row \notin admitted
      /\ admitted' = admitted \cup {row}
      /\ rows' = Unexpired(rows, clock) \cup {row}
      /\ clock' = clock /\ clock \in Nat
      /\ Window \in Nat \ {0}
  BY WindowAssumption DEF IInv, TypeOK, Admit, NewRow, Row
<1>2. TypeOK'
  BY <1>1 DEF IInv, TypeOK, Admit, Unexpired
<1>3. HistoryKept'
  <2>1. IsFiniteSet(admitted')
    BY <1>1, FS_AddElement DEF IInv, HistoryKept
  <2> QED
    BY <1>1, <2>1 DEF IInv, HistoryKept, Unexpired
<1>4. ForgottenExpired'
  BY <1>1 DEF IInv, TypeOK, HistoryKept, ForgottenExpired, Unexpired, Row
<1>5. WindowRespected'
  <2> SUFFICES ASSUME NEW n \in Meter, NEW t \in 0..clock
               PROVE  Cardinality(Load(n, t)') <= Limit[n]
    BY <1>1 DEF WindowRespected, Load, Of
  <2>1. CASE n # m \/ t # clock
    <3>1. Load(n, t)' = Load(n, t)
      BY <1>1, <2>1 DEF Load, Of
    <3> QED
      BY <3>1 DEF IInv, WindowRespected
  <2>2. CASE n = m /\ t = clock
    <3>1. Load(n, t)' = Load(m, clock) \cup {row}
      BY <1>1, <2>2 DEF Load, Of
    <3>2. /\ IsFiniteSet(Load(m, clock))
          /\ Cardinality(Load(m, clock)) < Limit[m]
      BY TableShowsWindow DEF IInv, Admit, HasSlot
    <3>3. /\ Cardinality(Load(m, clock) \cup {row}) <= Cardinality(Load(m, clock)) + 1
          /\ Cardinality(Load(m, clock)) \in Nat
      <4> DEFINE before == Load(m, clock)
      <4> HIDE DEF before, row
      <4>1. IsFiniteSet(before)
        BY <3>2 DEF before
      <4>2. Cardinality(before) \in Nat
        BY <4>1, FS_CardinalityType
      <4>3. Cardinality(before \cup {row}) =
              IF row \in before THEN Cardinality(before) ELSE Cardinality(before) + 1
        BY <4>1, FS_AddElement
      <4> QED
        BY <4>2, <4>3 DEF before
    <3>4. Cardinality(Load(m, clock) \cup {row}) \in Nat
      BY <3>2, FS_AddElement, FS_CardinalityType
    <3> QED
      BY <2>2, <3>1, <3>2, <3>3, <3>4, LimitAssumption
  <2> QED
    BY <2>1, <2>2
<1>6. RefusalsFull'
  <2> SUFFICES ASSUME NEW n \in Meter, refusal'[n] # None
               PROVE  RefusalFull(n)'
    BY DEF RefusalsFull
  <2>1. n # m /\ refusal'[n] = refusal[n]
    BY DEF Admit, IInv, TypeOK
  <2>2. RefusalFull(n)
    BY <2>1 DEF IInv, RefusalsFull
  <2>3. Of(n, admitted') = Of(n, admitted)
    BY <1>1, <2>1 DEF Of
  <2> QED
    BY <1>1, <2>1, <2>2, <2>3 DEF RefusalFull, Recent
<1> QED
  BY <1>2, <1>3, <1>4, <1>5, <1>6 DEF IInv

LEMMA RefusePreserves ==
    ASSUME IInv, NEW m \in Meter, Refuse(m)
    PROVE  IInv'
<1> DEFINE advice == clock + RetryAfter(Of(m, rows), clock)
<1>1. /\ Cardinality(Recent(m, clock)) = Limit[m]
      /\ \A e \in Recent(m, clock) : e.at >= advice - Window
      /\ \E e \in Recent(m, clock) : e.at = advice - Window
      /\ advice \in Nat
  BY RefusalMeetsFullWindow DEF Refuse
<1>2. /\ clock' = clock /\ rows' = rows /\ admitted' = admitted
      /\ refusal' = [refusal EXCEPT ![m] = [at |-> clock, until |-> advice]]
  BY DEF Refuse
<1>3. TypeOK'
  <2> HIDE DEF advice
  <2> QED
    BY <1>1, <1>2 DEF IInv, TypeOK, Refusal
<1>4. HistoryKept' /\ ForgottenExpired' /\ WindowRespected'
  BY <1>2 DEF IInv, HistoryKept, ForgottenExpired, WindowRespected, Load, Of
<1>5. RefusalsFull'
  <2> SUFFICES ASSUME NEW n \in Meter, refusal'[n] # None
               PROVE  RefusalFull(n)'
    BY DEF RefusalsFull
  <2> HIDE DEF advice
  <2>1. CASE n = m
    <3>1. refusal'[n] = [at |-> clock, until |-> advice]
      BY <1>2, <2>1 DEF IInv, TypeOK
    <3> QED
      BY <1>1, <1>2, <2>1, <3>1 DEF RefusalFull, Recent, IInv, TypeOK
  <2>2. CASE n # m
    BY <1>2, <2>2 DEF RefusalFull, RefusalsFull, Recent, IInv, TypeOK
  <2> QED
    BY <2>1, <2>2
<1> QED
  BY <1>3, <1>4, <1>5 DEF IInv

LEMMA CleanupPreserves ==
    ASSUME IInv, NEW now \in 0..MaxTime, Cleanup(now)
    PROVE  IInv'
<1>1. /\ clock' = clock /\ admitted' = admitted /\ refusal' = refusal
      /\ rows' = Unexpired(rows, now) /\ now <= clock
  BY DEF Cleanup
<1>2. TypeOK' /\ HistoryKept' /\ WindowRespected' /\ RefusalsFull'
  BY <1>1
  DEF IInv, TypeOK, HistoryKept, WindowRespected, RefusalsFull, RefusalFull,
      Recent, Load, Of, Unexpired
<1>3. ForgottenExpired'
  BY <1>1, WindowAssumption, MaxTimeAssumption
  DEF IInv, TypeOK, HistoryKept, ForgottenExpired, Unexpired, Row
<1> QED
  BY <1>2, <1>3 DEF IInv

LEMMA TickPreserves ==
    ASSUME IInv, Tick
    PROVE  IInv'
<1>1. /\ clock' = clock + 1 /\ clock \in Nat
      /\ rows' = rows /\ admitted' = admitted /\ refusal' = refusal
  BY DEF Tick, IInv, TypeOK
<1>2. TypeOK' /\ HistoryKept' /\ ForgottenExpired'
  BY <1>1, WindowAssumption
  DEF IInv, TypeOK, HistoryKept, ForgottenExpired, Row
<1>3. WindowRespected'
  <2> SUFFICES ASSUME NEW m \in Meter, NEW t \in 0..(clock + 1)
               PROVE  Cardinality(Load(m, t)) <= Limit[m]
    BY <1>1 DEF WindowRespected, Load, Of
  <2>1. CASE t \in 0..clock
    BY <2>1 DEF IInv, WindowRespected
  <2>2. CASE t = clock + 1
    <3>1. Load(m, t) \in SUBSET Load(m, clock)
      BY <1>1, <2>2, WindowAssumption DEF Load, Of, IInv, TypeOK, HistoryKept, Row
    <3>2. IsFiniteSet(Load(m, clock))
      BY TableShowsWindow DEF IInv
    <3>3. Cardinality(Load(m, clock)) <= Limit[m]
      BY <1>1 DEF IInv, WindowRespected
    <3>4. /\ Cardinality(Load(m, t)) <= Cardinality(Load(m, clock))
          /\ IsFiniteSet(Load(m, t))
      BY <3>1, <3>2, FS_Subset
    <3> QED
      BY <3>2, <3>3, <3>4, FS_CardinalityType, LimitAssumption
  <2> QED
    BY <1>1, <2>1, <2>2
<1>4. RefusalsFull'
  BY <1>1 DEF IInv, TypeOK, Refusal, RefusalsFull, RefusalFull, Recent
<1> QED
  BY <1>2, <1>3, <1>4 DEF IInv

LEMMA NextPreserves == IInv /\ [Next]_vars => IInv'
<1> SUFFICES ASSUME IInv, [Next]_vars PROVE IInv'
  OBVIOUS
<1>1. CASE \E m \in Meter, id \in Event : Admit(m, id)
  BY <1>1, AdmitPreserves
<1>2. CASE \E m \in Meter : Refuse(m)
  BY <1>2, RefusePreserves
<1>3. CASE \E now \in 0..MaxTime : Cleanup(now)
  BY <1>3, CleanupPreserves
<1>4. CASE Tick
  BY <1>4, TickPreserves
<1>5. CASE UNCHANGED vars
  BY <1>5
  DEF vars, IInv, TypeOK, HistoryKept, ForgottenExpired, WindowRespected,
      RefusalsFull, RefusalFull, Recent, Load, Of
<1> QED
  BY <1>1, <1>2, <1>3, <1>4, <1>5 DEF Next

(* IInv implies that advice is exact: before that second the full window   *)
(* of the refusal is still there, after it at least one event has left.    *)
LEMMA RetryExactFollows == IInv => RetryExact
<1> SUFFICES ASSUME IInv, NEW m \in Meter, refusal[m] # None
             PROVE  HasSlot(Of(m, rows), Limit[m], clock) <=> clock >= refusal[m].until
  BY DEF RetryExact
<1> DEFINE met == Recent(m, refusal[m].at)
           now == Recent(m, clock)
<1>1. /\ refusal[m].at <= clock
      /\ Cardinality(met) = Limit[m]
      /\ \A e \in met : e.at >= refusal[m].until - Window
      /\ \E e \in met : e.at = refusal[m].until - Window
  BY DEF IInv, RefusalsFull, RefusalFull
<1>2. /\ refusal[m].at \in Nat /\ refusal[m].until \in Nat
      /\ clock \in Nat /\ Window \in Nat /\ Limit[m] \in Nat
      /\ \A e \in admitted : e.at \in Nat
  BY WindowAssumption, LimitAssumption DEF IInv, TypeOK, Refusal, Row
<1>3. HasSlot(Of(m, rows), Limit[m], clock) <=> Cardinality(now) < Limit[m]
  BY TableShowsWindow DEF IInv, HasSlot
<1>4. now \in SUBSET met
  BY <1>1, <1>2 DEF Recent, Of
<1>5. IsFiniteSet(met)
  <2>1. met \in SUBSET admitted
    BY DEF Recent, Of
  <2> QED
    BY <2>1, FS_Subset DEF IInv, HistoryKept
<1>6. CASE clock < refusal[m].until
  <2>1. now = met
    BY <1>1, <1>2, <1>4, <1>6 DEF Recent, Of
  <2> QED
    BY <1>1, <1>2, <1>3, <1>6, <2>1
<1>7. CASE clock >= refusal[m].until
  <2>1. now # met
    BY <1>1, <1>2, <1>7 DEF Recent, Of
  <2>2. /\ Cardinality(now) <= Cardinality(met)
        /\ Cardinality(now) # Cardinality(met)
        /\ Cardinality(now) \in Nat
    BY <1>4, <1>5, <2>1, FS_Subset, FS_CardinalityType
  <2> QED
    BY <1>1, <1>2, <1>3, <1>7, <2>2
<1> QED
  BY <1>2, <1>6, <1>7

THEOREM Invariance == Spec => []IInv
<1>1. Init => IInv
  BY InitEstablishes
<1>2. IInv /\ [Next]_vars => IInv'
  BY NextPreserves
<1> QED
  BY <1>1, <1>2, PTL DEF Spec

(* The variables keep their types. *)
THEOREM TypeCorrect == Spec => []TypeOK
<1>1. IInv => TypeOK
  BY DEF IInv
<1> QED
  BY <1>1, Invariance, PTL

(* Every rolling window of every meter stays within its limit, whatever    *)
(* the deletions of other requests and of late cleanups.                   *)
THEOREM WindowsRespected == Spec => []WindowRespected
<1>1. IInv => WindowRespected
  BY DEF IInv
<1> QED
  BY <1>1, Invariance, PTL

(* The Retry-After advice is neither a second early nor a second late.     *)
THEOREM AdviceExact == Spec => []RetryExact
<1>1. IInv => RetryExact
  BY RetryExactFollows
<1> QED
  BY <1>1, Invariance, PTL
=============================================================================
