-------------------------- MODULE HttpServerProofs --------------------------
(***************************************************************************)
(* What the server process promises of its slots, its lock and its cleanup *)
(* for any number of connections, threads and slots and any interval.      *)
(***************************************************************************)
EXTENDS HttpServer, FiniteSetTheorems, TLAPS

-----------------------------------------------------------------------------
(* The inductive invariant *)

\* The task for which a call is made waits for it, in the slot that it needs.
Awaited(call) ==
    /\ call.client \in Client
    /\ request[call.client] # None
    /\ request[call.client].at = IF call.call = "auth" THEN "auth" ELSE "call"
    /\ call.call # "ready" => request[call.client].slot

\* ... and waits for no other call; it reads the body in its slot.
Calls ==
    /\ \A c \in Client :
          request[c] # None /\ request[c].at = "body" => request[c].slot
    /\ \A i \in 1 .. Len(queue) : Awaited(queue[i])
    /\ \A w \in Worker :
          job[w] # None => job[w].client = None \/ Awaited(job[w])
    /\ \A i, j \in 1 .. Len(queue) : i # j => queue[i].client # queue[j].client
    /\ \A i \in 1 .. Len(queue), w \in Worker :
          job[w] # None => queue[i].client # job[w].client
    /\ \A v, w \in Worker :
          /\ v # w /\ job[v] # None /\ job[w] # None
          /\ job[v].client = job[w].client
          => job[v].client = None

Busy == {c \in Client : request[c] # None}
Slots == {c \in Client : request[c] # None /\ request[c].slot}

Counted == IsFiniteSet(Busy) /\ IsFiniteSet(Slots) /\ active = Cardinality(Slots)

\* What is over on the way down.
Down ==
    /\ phase \in {"starting", "stopped", "released"} =>
           queue = <<>> /\ \A c \in Client : request[c] = None
    /\ phase = "starting" => \A w \in Worker : job[w] = None

\* Only the holder of the lock cleans, and does nothing else; what its second
\* look has found stays true until it sets the next time, and the time it sets
\* is the one it has cleaned for.
Clean ==
    /\ swept <= clock
    /\ \A i \in 1 .. Len(queue) : queue[i].at = "queued" /\ queue[i].now = 0
    /\ \A w \in Worker : job[w] # None =>
          /\ job[w].now <= clock
          /\ job[w].at \in {"check", "sweep", "set"} => maintenance = w
          /\ job[w].at \in {"due", "check", "sweep", "set"} => job[w].call \in Operation
          /\ job[w].at = "sweep" => job[w].now >= nextCleanup
          /\ job[w].at = "set" => job[w].now = swept
    /\ maintenance # None =>
          job[maintenance] # None /\ job[maintenance].at \in {"check", "sweep", "set"}
    /\ \/ phase = "released" /\ \A w \in Worker : job[w] = None
       \/ nextCleanup >= swept + Interval
       \/ \E w \in Worker : job[w] # None /\ job[w].at = "set"

IInv == TypeOK /\ Calls /\ Counted /\ Down /\ Clean

-----------------------------------------------------------------------------
(* Initial states *)

LEMMA InitEstablishes == Init => IInv
<1> SUFFICES ASSUME Init PROVE IInv
  OBVIOUS
<1>1. TypeOK
  BY BoundAssumption DEF Init, TypeOK, Time
<1>2. Calls /\ Down
  BY DEF Init, Calls, Down
<1>3. Counted
  <2>1. Busy = {} /\ Slots = {}
    BY DEF Init, Busy, Slots
  <2> QED
    BY <2>1, FS_EmptySet DEF Init, Counted
<1>4. Clean
  BY BoundAssumption DEF Init, Clean
<1> QED
  BY <1>1, <1>2, <1>3, <1>4 DEF IInv

-----------------------------------------------------------------------------
(* Counting *)

(* A request that keeps its slot changes no count.                         *)
LEMMA SlotKept ==
    ASSUME Counted, NEW c \in Client,
           request \in [Client -> Request \cup {None}],
           NEW q \in Request, request[c] # None, q.slot = request[c].slot,
           request' = [request EXCEPT ![c] = q], active' = active
    PROVE  Counted'
<1>1. q # None
  BY NoneAssumption
<1>2. Busy' = Busy /\ Slots' = Slots
  BY <1>1 DEF Busy, Slots
<1> QED
  BY <1>2 DEF Counted

LEMMA SlotTaken ==
    ASSUME Counted, NEW c \in Client, active \in Nat,
           request \in [Client -> Request \cup {None}],
           NEW q \in Request, request[c] = None,
           request' = [request EXCEPT ![c] = q],
           active' = IF q.slot THEN active + 1 ELSE active
    PROVE  Counted'
<1>1. q # None
  BY NoneAssumption
<1>2. Busy' = Busy \cup {c}
  BY <1>1 DEF Busy
<1>3. Slots' = IF q.slot THEN Slots \cup {c} ELSE Slots
  BY <1>1 DEF Slots
<1>4. c \notin Slots
  BY DEF Slots
<1> QED
  BY <1>2, <1>3, <1>4, FS_AddElement DEF Counted

LEMMA SlotGiven ==
    ASSUME Counted, NEW c \in Client, active \in Nat,
           request \in [Client -> Request \cup {None}],
           request[c] # None,
           request' = [request EXCEPT ![c] = None],
           active' = IF request[c].slot THEN active - 1 ELSE active
    PROVE  Counted' /\ (request[c].slot => active > 0)
<1>1. Busy' = Busy \ {c}
  BY DEF Busy
<1>2. Slots' = IF request[c].slot THEN Slots \ {c} ELSE Slots
  BY DEF Slots
<1>3. request[c].slot <=> c \in Slots
  BY DEF Slots
<1>4. request[c].slot => active > 0
  BY <1>3, FS_EmptySet DEF Counted
<1> QED
  BY <1>1, <1>2, <1>3, <1>4, FS_RemoveElement DEF Counted

-----------------------------------------------------------------------------
(* The tasks *)

(* An answer, or the wait for the body, awaits no call.                    *)
LEMMA NotAwaited ==
    ASSUME TypeOK, Calls, NEW c \in Client,
           request[c] = None \/ request[c].at \in {"body", "reply"}
    PROVE  /\ \A i \in 1 .. Len(queue) : queue[i].client # c
           /\ \A w \in Worker : job[w] # None => job[w].client # c
<1>1. \A i \in 1 .. Len(queue) : queue[i].client # c
  BY DEF Calls, Awaited
<1>2. \A w \in Worker : job[w] # None => job[w].client # c
  BY NoneAssumption DEF Calls, Awaited
<1> QED
  BY <1>1, <1>2

LEMMA QueueTyped ==
    ASSUME TypeOK
    PROVE  /\ Len(queue) \in Nat
           /\ \A i \in 1 .. Len(queue) : queue[i] \in Job
BY DEF TypeOK

(* A task that is waited for by no call goes on, and makes none.           *)
LEMMA TaskMoves ==
    ASSUME IInv, NEW c \in Client, NEW q \in Request \cup {None},
           request' = [request EXCEPT ![c] = q],
           request[c] = None \/ request[c].at \in {"body", "reply"},
           q # None /\ q.at = "body" => q.slot,
           UNCHANGED <<queue, job>>
    PROVE  Calls'
<1>1. /\ \A i \in 1 .. Len(queue) : queue[i].client # c
      /\ \A w \in Worker : job[w] # None => job[w].client # c
  BY NotAwaited DEF IInv
<1>2. request \in [Client -> Request \cup {None}]
  BY DEF IInv, TypeOK
<1>3. ASSUME NEW call, Awaited(call), call.client # c
      PROVE  Awaited(call)'
  BY <1>2, <1>3 DEF Awaited
<1>4. \A d \in Client :
          request'[d] # None /\ request'[d].at = "body" => request'[d].slot
  BY <1>2 DEF IInv, Calls
<1> QED
  BY <1>1, <1>3,<1>4 DEF IInv, Calls

(* A task that is waited for by no call makes one.                         *)
LEMMA TaskCalls ==
    ASSUME IInv, NEW c \in Client, NEW call \in Call, NEW q \in Request,
           request' = [request EXCEPT ![c] = q],
           request[c] = None \/ request[c].at \in {"body", "reply"},
           q.at = IF call = "auth" THEN "auth" ELSE "call",
           call # "ready" => q.slot,
           Submit(c, call), job' = job
    PROVE  Calls' /\ queue' \in Seq(Job)
<1> DEFINE new == [client |-> c, call |-> call, at |-> "queued", now |-> 0]
<1>1. /\ \A i \in 1 .. Len(queue) : queue[i].client # c
      /\ \A w \in Worker : job[w] # None => job[w].client # c
  BY NotAwaited DEF IInv
<1>2. request \in [Client -> Request \cup {None}] /\ queue \in Seq(Job)
  BY DEF IInv, TypeOK
<1>3. ASSUME NEW e, Awaited(e), e.client # c
      PROVE  Awaited(e)'
  BY <1>2, <1>3 DEF Awaited
<1>4. Awaited(new)'
  BY <1>2, NoneAssumption DEF Awaited
<1>5. new \in Job /\ new.client = c
  BY BoundAssumption DEF Job, Time
<1> HIDE DEF new
<1>6. queue' = Append(queue, new)
  BY DEF Submit, new
<1>7. /\ queue' \in Seq(Job) /\ Len(queue') = Len(queue) + 1
      /\ \A i \in 1 .. Len(queue) : queue'[i] = queue[i]
      /\ queue'[Len(queue) + 1] = new
  BY <1>2, <1>5, <1>6
<1>8. \A i \in 1 .. Len(queue') : i \in 1 .. Len(queue) \/ i = Len(queue) + 1
  BY <1>2, <1>7
<1>9. \A i \in 1 .. Len(queue') : Awaited(queue[i])'
  BY <1>1, <1>3, <1>4, <1>7, <1>8 DEF IInv, Calls
<1>10. \A w \in Worker : job[w] # None => job[w].client = None \/ Awaited(job[w])'
  BY <1>1, <1>3 DEF IInv, Calls
<1>13. \A d \in Client :
          request'[d] # None /\ request'[d].at = "body" => request'[d].slot
  BY <1>2 DEF IInv, Calls
<1>11. \A i, j \in 1 .. Len(queue') : i # j => queue'[i].client # queue'[j].client
  BY <1>1, <1>5, <1>7, <1>8 DEF IInv, Calls
<1>12. \A i \in 1 .. Len(queue'), w \in Worker :
          job[w] # None => queue'[i].client # job[w].client
  BY <1>1, <1>5, <1>7, <1>8 DEF IInv, Calls
<1> QED
  BY <1>7, <1>9, <1>10, <1>11, <1>12, <1>13 DEF IInv, Calls

(* The cleanup takes no notice of the tasks.                               *)
LEMMA TaskLeavesClean ==
    ASSUME IInv, UNCHANGED <<job, serviceVars, clock>>,
           phase' = phase \/ (phase # "released" /\ phase' # "released"),
           \/ queue' = queue
           \/ \E c \in Client, call \in Call : Submit(c, call)
    PROVE  Clean'
<1>1. \A i \in 1 .. Len(queue') : queue'[i].at = "queued" /\ queue'[i].now = 0
  <2>1. CASE queue' = queue
    BY <2>1 DEF IInv, Clean
  <2>2. CASE \E c \in Client, call \in Call : Submit(c, call)
    <3>1. PICK c \in Client, call \in Call :
             queue' = Append(queue,
                 [client |-> c, call |-> call, at |-> "queued", now |-> 0])
      BY <2>2 DEF Submit
    <3>2. queue \in Seq(Job)
      BY DEF IInv, TypeOK
    <3>3. [client |-> c, call |-> call, at |-> "queued", now |-> 0] \in Job
      BY BoundAssumption DEF Job, Time
    <3>4. /\ Len(queue') = Len(queue) + 1
          /\ \A i \in 1 .. Len(queue) : queue'[i] = queue[i]
          /\ queue'[Len(queue) + 1] =
                 [client |-> c, call |-> call, at |-> "queued", now |-> 0]
      BY <3>1, <3>2, <3>3
    <3> QED
      BY <3>2, <3>4 DEF IInv, Clean
  <2> QED
    BY <2>1, <2>2
<1> QED
  BY <1>1 DEF IInv, Clean, serviceVars

LEMMA TaskPreserves ==
    ASSUME IInv, NEW c \in Client,
           Admit(c) \/ Probe(c) \/ BodyComplete(c) \/ BodyRefused(c) \/ LoopStep(c)
    PROVE  IInv'
<1> USE DEF loopVars
<1>1. /\ TypeOK /\ Calls /\ Counted /\ Down /\ Clean
      /\ request \in [Client -> Request \cup {None}]
      /\ active \in 0 .. MaxInFlight /\ active \in Nat /\ MaxInFlight \in Nat
  BY BoundAssumption DEF IInv, TypeOK
<1>2. CASE Admit(c)
  <2>1. /\ phase = "open" /\ request[c] = None
        /\ UNCHANGED <<phase, job, serviceVars, clock>>
    BY <1>2 DEF Admit
  <2>2. PICK q \in Request :
           /\ request' = [request EXCEPT ![c] = q]
           /\ active' = IF q.slot THEN active + 1 ELSE active
           /\ q.slot => active < MaxInFlight
           /\ q.at # "body"
           /\ \/ queue' = queue
              \/ Submit(c, "auth") /\ q.at = "auth" /\ q.slot
    <3>1. CASE active >= MaxInFlight
      <4> DEFINE busy == [at |-> "reply", slot |-> FALSE]
      <4>1. busy \in Request /\ busy.slot = FALSE /\ busy.at = "reply"
        BY DEF Request
      <4>2. request' = [request EXCEPT ![c] = busy] /\ UNCHANGED <<active, queue>>
        BY <1>1, <1>2, <3>1 DEF Admit
      <4> HIDE DEF busy
      <4> QED
        BY <4>1, <4>2
    <3>2. CASE active < MaxInFlight
      <4>1. PICK at \in {"auth", "reply"} :
               /\ request' = [request EXCEPT ![c] = [at |-> at, slot |-> TRUE]]
               /\ IF at = "auth" THEN Submit(c, "auth") ELSE UNCHANGED queue
               /\ active' = active + 1
        BY <1>1, <1>2, <3>2 DEF Admit
      <4> DEFINE q == [at |-> at, slot |-> TRUE]
      <4>2. q \in Request /\ q.slot = TRUE /\ q.at = at
        BY DEF Request
      <4> HIDE DEF q
      <4> QED
        BY <3>2, <4>1, <4>2 DEF q
    <3> QED
      BY <1>1, <3>1, <3>2
  <2>3. Calls' /\ queue' \in Seq(Job)
    <3>1. CASE queue' = queue
      BY <1>1, <2>1, <2>2, <3>1, TaskMoves DEF TypeOK
    <3>2. CASE Submit(c, "auth") /\ q.at = "auth" /\ q.slot
      BY <2>1, <2>2, <3>2, TaskCalls DEF Call
    <3> QED
      BY <2>2, <3>1, <3>2
  <2>4. Counted'
    BY <1>1, <2>1, <2>2, SlotTaken
  <2>5. Clean'
    BY <2>1, <2>2, TaskLeavesClean DEF Call
  <2>6. Down'
    BY <2>1 DEF Down
  <2>7. TypeOK'
    BY <1>1, <2>1, <2>2, <2>3 DEF TypeOK, serviceVars
  <2> QED
    BY <2>3, <2>4, <2>5, <2>6, <2>7 DEF IInv
<1>3. CASE Probe(c)
  <2> DEFINE q == [at |-> "call", slot |-> FALSE]
  <2>1. /\ phase = "open" /\ request[c] = None
        /\ request' = [request EXCEPT ![c] = q] /\ Submit(c, "ready")
        /\ UNCHANGED <<phase, active, job, serviceVars, clock>>
    BY <1>3 DEF Probe
  <2>2. q \in Request /\ q.at = "call" /\ q.slot = FALSE
    BY DEF Request
  <2> HIDE DEF q
  <2>3. Calls' /\ queue' \in Seq(Job)
    BY <2>1, <2>2, TaskCalls DEF Call
  <2>4. Counted'
    BY <1>1, <2>1, <2>2, SlotTaken
  <2>5. Clean'
    BY <2>1, TaskLeavesClean DEF Call
  <2>6. Down' /\ TypeOK'
    BY <1>1, <2>1, <2>2, <2>3 DEF Down, TypeOK, serviceVars
  <2> QED
    BY <2>3, <2>4, <2>5, <2>6 DEF IInv
<1>4. ASSUME NEW at \in {"body", "reply"}, InProgress(c, at)
      PROVE  /\ request[c] \in Request /\ request[c].at = at
             /\ phase \in {"open", "closing"}
             /\ \A to \in {"call", "reply"} :
                    /\ [request[c] EXCEPT !.at = to] \in Request
                    /\ [request[c] EXCEPT !.at = to].at = to
                    /\ [request[c] EXCEPT !.at = to].slot = request[c].slot
  BY <1>1, <1>4 DEF InProgress, Down, Request, TypeOK
<1>5. CASE BodyComplete(c)
  <2>1. PICK op \in Operation : Submit(c, op)
    BY <1>5 DEF BodyComplete
  <2> DEFINE q == [request[c] EXCEPT !.at = "call"]
  <2>2. /\ InProgress(c, "body") /\ request[c] # None
        /\ request' = [request EXCEPT ![c] = q]
        /\ UNCHANGED <<phase, active, job, serviceVars, clock>>
    BY <1>5 DEF BodyComplete, InProgress, Moved
  <2>3. /\ q \in Request /\ q.at = "call" /\ q.slot = request[c].slot
        /\ request[c].at = "body" /\ phase \in {"open", "closing"}
    BY <1>4, <2>2
  <2> HIDE DEF q
  <2>4. request[c].slot
    BY <1>1, <2>2, <2>3 DEF Calls
  <2>5. Calls' /\ queue' \in Seq(Job)
    BY <2>1, <2>2, <2>3, <2>4, TaskCalls DEF Call, Operation
  <2>6. Counted'
    BY <1>1, <2>2, <2>3, SlotKept
  <2>7. Clean'
    BY <2>1, <2>2, TaskLeavesClean DEF Call
  <2>8. Down' /\ TypeOK'
    BY <1>1, <2>2, <2>3, <2>5 DEF Down, TypeOK, serviceVars
  <2> QED
    BY <2>5, <2>6, <2>7, <2>8 DEF IInv
<1>6. CASE BodyRefused(c) \/ BodyTimeout(c)
  <2> DEFINE q == [request[c] EXCEPT !.at = "reply"]
  <2>1. /\ InProgress(c, "body") /\ request[c] # None
        /\ request' = [request EXCEPT ![c] = q]
        /\ UNCHANGED <<phase, active, queue, job, serviceVars, clock>>
    BY <1>6 DEF BodyRefused, BodyTimeout, InProgress, Moved
  <2>2. /\ q \in Request /\ q.slot = request[c].slot /\ q.at = "reply"
        /\ request[c].at = "body" /\ phase \in {"open", "closing"}
    BY <1>4, <2>1
  <2> HIDE DEF q
  <2>3. Calls' /\ Clean'
    BY <2>1, <2>2, TaskMoves, TaskLeavesClean
  <2>4. Counted'
    BY <1>1, <2>1, <2>2, SlotKept
  <2>5. Down' /\ TypeOK'
    BY <1>1, <2>1, <2>2 DEF Down, TypeOK, serviceVars
  <2> QED
    BY <2>3, <2>4, <2>5 DEF IInv
<1>7. CASE Reply(c)
  <2>1. /\ InProgress(c, "reply") /\ request[c] # None
        /\ request' = [request EXCEPT ![c] = None]
        /\ active' = IF request[c].slot THEN active - 1 ELSE active
        /\ UNCHANGED <<phase, queue, job, serviceVars, clock>>
    BY <1>7 DEF Reply, InProgress
  <2>2. request[c].at = "reply" /\ phase \in {"open", "closing"}
    BY <1>4, <2>1
  <2>3. Calls' /\ Clean'
    BY <2>1, <2>2, TaskMoves, TaskLeavesClean
  <2>4. Counted' /\ (request[c].slot => active > 0)
    BY <1>1, <2>1, SlotGiven
  <2>5. Down' /\ TypeOK'
    BY <1>1, <2>1, <2>2, <2>4 DEF Down, TypeOK, serviceVars
  <2> QED
    BY <2>3, <2>4, <2>5 DEF IInv
<1> QED
  BY <1>2, <1>3, <1>5, <1>6, <1>7 DEF LoopStep

-----------------------------------------------------------------------------
(* The threads *)

(* A thread that goes on with its call disturbs no task.                   *)
LEMMA ThreadMoves ==
    ASSUME IInv, NEW w \in Worker, job[w] # None, NEW j \in Job,
           j.client = job[w].client, j.call = job[w].call,
           job' = [job EXCEPT ![w] = j], UNCHANGED <<loopVars, queue>>
    PROVE  Calls' /\ Counted' /\ Down'
<1>1. job \in [Worker -> Job \cup {None}] /\ j # None
  BY NoneAssumption DEF IInv, TypeOK
<1>2. /\ \A v \in Worker : job'[v] # None <=> job[v] # None
      /\ \A v \in Worker :
            job'[v].client = job[v].client /\ job'[v].call = job[v].call
  BY <1>1
<1>3. ASSUME NEW e, NEW f, Awaited(e), f.client = e.client, f.call = e.call
      PROVE  Awaited(f)'
  BY <1>3 DEF Awaited, loopVars
<1>4. \A v \in Worker : job'[v] # None => job'[v].client = None \/ Awaited(job[v])'
  <2> SUFFICES ASSUME NEW v \in Worker, job'[v] # None, job'[v].client # None
               PROVE  Awaited(job[v])'
    OBVIOUS
  <2>1. Awaited(job[v])
    BY <1>2 DEF IInv, Calls
  <2> QED
    BY <1>2, <2>1 DEF Awaited, loopVars
<1>5. \A i \in 1 .. Len(queue) : Awaited(queue[i])'
  BY DEF IInv, Calls, Awaited, loopVars
<1>6. Calls'
  BY <1>2, <1>4, <1>5 DEF IInv, Calls, loopVars
<1>7. Counted'
  BY DEF IInv, Counted, Busy, Slots, loopVars
<1>8. Down'
  BY <1>2 DEF IInv, Down, loopVars
<1> QED
  BY <1>6, <1>7, <1>8

(* The steps of _maybe_cleanup and the entry into _key_lock.               *)
LEMMA GoingOnPreserves ==
    ASSUME IInv, NEW w \in Worker,
           \/ LookWhetherDue(w) \/ TryMaintenance(w) \/ LookAgain(w)
           \/ SetNext(w) \/ TakeKeyLock(w)
           \/ /\ Runs(w, Operation, "sweep")
              /\ swept' = job[w].now
              /\ Goes(w, "set")
              /\ UNCHANGED <<loopVars, queue, keyLock, maintenance, nextCleanup, clock>>
    PROVE  IInv'
<1>1. /\ TypeOK /\ Clean /\ job[w] # None /\ job[w].call \in Operation
      /\ UNCHANGED <<phase, request, active, queue, clock>>
  BY DEF IInv, LookWhetherDue, TryMaintenance, LookAgain, SetNext, TakeKeyLock, Runs,
         loopVars, serviceVars, Operation
<1>2. /\ job[w] \in Job /\ job \in [Worker -> Job \cup {None}]
      /\ clock \in Int /\ 0 <= clock /\ nextCleanup \in Nat /\ swept \in Nat
      /\ job[w].now \in Int /\ 0 <= job[w].now /\ job[w].now <= clock
      /\ Interval \in Nat /\ 0 \in Time /\ MaxTime \in Nat
  BY <1>1, BoundAssumption DEF TypeOK, Clean, Job, Time
<1> DEFINE J(at, now) == [job[w] EXCEPT !.at = at, !.now = now]
<1>3. PICK at \in {"due", "check", "sweep", "set", "work", "store"},
           now \in {0, job[w].now} :
         job' = [job EXCEPT ![w] = J(at, now)]
  <2>1. Goes(w, "due") \/ Goes(w, "check") \/ Goes(w, "sweep") \/ Goes(w, "set")
        \/ Goes(w, "store") \/ GoesToWork(w)
    BY DEF LookWhetherDue, TryMaintenance, LookAgain, SetNext, TakeKeyLock
  <2>2. ASSUME NEW at \in {"due", "check", "sweep", "set", "store"}, Goes(w, at)
        PROVE  job' = [job EXCEPT ![w] = J(at, job[w].now)]
    BY <1>2, <2>2 DEF Goes, Job
  <2>3. GoesToWork(w) => job' = [job EXCEPT ![w] = J("work", 0)]
    BY <1>2 DEF GoesToWork, Job
  <2> QED
    BY <2>1, <2>2, <2>3
<1> DEFINE j == J(at, now)
<1>4. /\ j \in Job /\ j.client = job[w].client /\ j.call = job[w].call
      /\ j.at = at /\ j.now = now
  BY <1>2 DEF Job, Time
<1> HIDE DEF j
<1>5. job' = [job EXCEPT ![w] = j]
  BY <1>3 DEF j
<1>6. /\ job'[w] = j /\ j # None /\ now <= clock
      /\ \A v \in Worker \ {w} : job'[v] = job[v]
  BY <1>2, <1>4, <1>5, NoneAssumption
<1>7. Calls' /\ Counted' /\ Down'
  BY <1>1, <1>4, <1>5, ThreadMoves DEF loopVars
<1>8. None # w /\ \A v \in Worker : None # v
  BY NoneAssumption
<1>9. Clean' /\ keyLock' \in Worker \cup {None} /\ maintenance' \in Worker \cup {None}
      /\ nextCleanup' \in Nat /\ swept' \in Time
  <2>0. /\ keyLock \in Worker \cup {None} /\ maintenance \in Worker \cup {None}
        /\ swept \in Time /\ job[w].now \in Time
    BY <1>1, <1>2 DEF TypeOK, Job
  <2>1. CASE LookWhetherDue(w)
    <3>1. /\ at \in {"due", "work"} /\ job[w].at = "start" /\ UNCHANGED serviceVars
      <4>1. Goes(w, "due") \/ GoesToWork(w)
        BY <2>1 DEF LookWhetherDue
      <4>2. job'[w].at \in {"due", "work"}
        BY <1>2, <4>1 DEF Goes, GoesToWork, Job
      <4> QED
        BY <1>4, <1>6, <2>1, <4>2 DEF LookWhetherDue, Runs
    <3> QED
      BY <1>1, <1>4, <1>6, <2>0, <3>1, <1>2 DEF Clean, serviceVars
  <2>2. CASE TryMaintenance(w)
    <3>1. /\ job[w].at = "due" /\ UNCHANGED <<keyLock, nextCleanup, swept>>
          /\ \/ maintenance = None /\ maintenance' = w /\ at = "check"
             \/ maintenance' = maintenance /\ at = "work"
      <4>1. Goes(w, "check") => job'[w].at = "check"
        BY <1>2 DEF Goes, Job
      <4>2. GoesToWork(w) => job'[w].at = "work"
        BY <1>2 DEF GoesToWork, Job
      <4> QED
        BY <1>4, <1>6, <2>2, <4>1, <4>2 DEF TryMaintenance, Runs
    <3> QED
      BY <1>1, <1>2, <1>4, <1>6, <1>8, <2>0, <3>1 DEF Clean
  <2>3. CASE LookAgain(w)
    <3>1. /\ job[w].at = "check" /\ UNCHANGED <<keyLock, nextCleanup, swept>>
          /\ \/ StillDue(w) /\ maintenance' = maintenance /\ at = "sweep"
                /\ now = job[w].now
             \/ maintenance' = None /\ at = "work"
      <4>1. Goes(w, "sweep") => job'[w].at = "sweep" /\ job'[w].now = job[w].now
        BY <1>2 DEF Goes, Job
      <4>2. GoesToWork(w) => job'[w].at = "work"
        BY <1>2 DEF GoesToWork, Job
      <4> QED
        BY <1>4, <1>6, <2>3, <4>1, <4>2 DEF LookAgain, Runs
    <3> QED
      BY <1>1, <1>2, <1>4, <1>6, <1>8, <2>0, <3>1 DEF Clean, StillDue
  <2>4. CASE SetNext(w)
    <3>1. /\ job[w].at = "set" /\ UNCHANGED <<keyLock, swept>> /\ at = "work"
          /\ nextCleanup' = job[w].now + Interval /\ maintenance' = None
      <4>1. GoesToWork(w) => job'[w].at = "work"
        BY <1>2 DEF GoesToWork, Job
      <4> QED
        BY <1>4, <1>6, <2>4, <4>1 DEF SetNext, Runs
    <3> QED
      BY <1>1, <1>2, <1>4, <1>6, <1>8, <2>0, <3>1 DEF Clean
  <2>5. CASE TakeKeyLock(w)
    <3>1. /\ job[w].at = "work" /\ UNCHANGED <<maintenance, nextCleanup, swept>>
          /\ at = "store" /\ keyLock' = w
      <4>1. Goes(w, "store") => job'[w].at = "store"
        BY <1>2 DEF Goes, Job
      <4> QED
        BY <1>4, <1>6, <2>5, <4>1 DEF TakeKeyLock, Runs
    <3> QED
      BY <1>1, <1>2, <1>4, <1>6, <2>0, <3>1 DEF Clean
  <2>6. CASE /\ Runs(w, Operation, "sweep")
             /\ swept' = job[w].now
             /\ Goes(w, "set")
             /\ UNCHANGED <<loopVars, queue, keyLock, maintenance, nextCleanup, clock>>
    <3>1. /\ job[w].at = "sweep" /\ UNCHANGED <<keyLock, maintenance, nextCleanup>>
          /\ at = "set" /\ now = job[w].now /\ swept' = job[w].now
      <4>1. Goes(w, "set") => job'[w].at = "set" /\ job'[w].now = job[w].now
        BY <1>2 DEF Goes, Job
      <4> QED
        BY <1>4, <1>6, <2>6, <4>1 DEF Runs
    <3> QED
      BY <1>1, <1>2, <1>4, <1>6, <1>8, <2>0, <3>1 DEF Clean
  <2> QED
    BY <2>1, <2>2, <2>3, <2>4, <2>5, <2>6
<1>10. TypeOK'
  BY <1>1, <1>2, <1>4, <1>5, <1>9 DEF TypeOK
<1> QED
  BY <1>7, <1>9, <1>10 DEF IInv

(* A call that ends frees its thread and the locks, and its task goes on.  *)
LEMMA FinishPreserves ==
    ASSUME IInv, NEW w \in Worker, NEW ok \in BOOLEAN, Finish(w, ok),
           job[w] # None, job[w].at # "set", UNCHANGED <<nextCleanup, swept>>
    PROVE  IInv'
<1> DEFINE c == job[w].client
           q == [request[c] EXCEPT
                     !.at = IF job[w].call = "auth" /\ ok THEN "body" ELSE "reply"]
<1>1. /\ TypeOK /\ Calls /\ Counted /\ Down /\ Clean
      /\ job[w] \in Job /\ job \in [Worker -> Job \cup {None}]
      /\ request \in [Client -> Request \cup {None}]
      /\ UNCHANGED <<phase, active, queue, clock>>
      /\ job' = [job EXCEPT ![w] = None]
  BY DEF IInv, TypeOK, Finish
<1>2. /\ job'[w] = None /\ \A v \in Worker \ {w} : job'[v] = job[v]
      /\ \A v \in Worker : job'[v] # None => v # w /\ job[v] # None
  BY <1>1
<1>3. ASSUME c = None
      PROVE  Calls' /\ Counted' /\ Down' /\ request' \in [Client -> Request \cup {None}]
  <2>1. request' = request
    BY <1>3 DEF Finish
  <2>2. \A i \in 1 .. Len(queue) : Awaited(queue[i])'
    BY <1>1, <2>1 DEF Calls, Awaited
  <2>3. \A v \in Worker \ {w} :
           job[v] # None => job[v].client = None \/ Awaited(job[v])'
    BY <1>1, <2>1 DEF Calls, Awaited
  <2>4. Calls'
    BY <1>1, <1>2, <2>1, <2>2, <2>3 DEF Calls
  <2>5. Counted' /\ Down' /\ request' \in [Client -> Request \cup {None}]
    BY <1>1, <1>2, <2>1 DEF Counted, Busy, Slots, Down
  <2> QED
    BY <2>4, <2>5
<1>4. ASSUME c # None
      PROVE  Calls' /\ Counted' /\ Down' /\ request' \in [Client -> Request \cup {None}]
  <2>1. /\ c \in Client /\ Awaited(job[w]) /\ request[c] # None
        /\ request[c] \in Request /\ request' = [request EXCEPT ![c] = q]
        /\ phase \in {"open", "closing"}
    BY <1>1, <1>4 DEF Calls, Awaited, Finish, Moved, Down, Job, TypeOK
  <2>2. /\ q \in Request /\ q.slot = request[c].slot
        /\ q.at = IF job[w].call = "auth" /\ ok THEN "body" ELSE "reply"
    BY <2>1 DEF Request
  <2>3. job[w].call = "auth" => request[c].slot
    BY <2>1 DEF Awaited
  <2>4. /\ \A i \in 1 .. Len(queue) : queue[i].client # c
        /\ \A v \in Worker \ {w} : job[v] # None => job[v].client # c
    BY <1>1, <1>4 DEF Calls
  <2>9. c = job[w].client
    OBVIOUS
  <2> HIDE DEF q, c
  <2>5. ASSUME NEW e, Awaited(e), e.client # c
        PROVE  Awaited(e)'
    BY <1>1, <2>1, <2>5 DEF Awaited
  <2>6. \A d \in Client :
           request'[d] # None /\ request'[d].at = "body" => request'[d].slot
    BY <1>1, <2>1, <2>2, <2>3 DEF Calls
  <2>7. Calls'
    <3>1. \A i \in 1 .. Len(queue) : Awaited(queue[i])'
      BY <1>1, <2>4, <2>5 DEF Calls
    <3>2. \A v \in Worker \ {w} :
             job[v] # None => job[v].client = None \/ Awaited(job[v])'
      BY <1>1, <2>4, <2>5 DEF Calls
    <3> QED
      BY <1>1, <1>2, <2>6, <3>1, <3>2 DEF Calls
  <2>8. Counted'
    BY <1>1, <2>1, <2>2, SlotKept
  <2>10. Down' /\ request' \in [Client -> Request \cup {None}]
    BY <1>1, <2>1, <2>2 DEF Down
  <2> QED
    BY <2>7, <2>8, <2>10
<1>5. /\ keyLock' \in Worker \cup {None}
      /\ maintenance' = IF maintenance = w THEN None ELSE maintenance
      /\ maintenance' \in Worker \cup {None}
  BY <1>1 DEF Finish, Released, TypeOK
<1>6. Clean'
  BY <1>1, <1>2, <1>5 DEF Clean
<1>7. request' \in [Client -> Request \cup {None}]
  BY <1>3, <1>4
<1>8. TypeOK'
  BY <1>1, <1>5, <1>7 DEF TypeOK
<1> QED
  BY <1>3, <1>4, <1>6, <1>8 DEF IInv

(* A thread takes the call that has waited longest.                        *)
LEMMA TakePreserves ==
    ASSUME IInv, NEW w \in Worker, Take(w)
    PROVE  IInv'
<1> DEFINE j == [Head(queue) EXCEPT !.at = "start",
                     !.now = IF Head(queue).call \in Operation THEN clock ELSE 0]
<1>1. /\ TypeOK /\ Calls /\ Counted /\ Down /\ Clean
      /\ job \in [Worker -> Job \cup {None}] /\ job[w] = None
      /\ queue \in Seq(Job) /\ queue # <<>> /\ queue' = Tail(queue)
      /\ job' = [job EXCEPT ![w] = j]
      /\ clock \in Time /\ clock \in Nat /\ 0 \in Time
      /\ UNCHANGED <<loopVars, serviceVars, clock>>
  BY BoundAssumption DEF IInv, TypeOK, Take, Time
<1>2. /\ Len(queue) \in Nat /\ 1 \in 1 .. Len(queue) /\ Head(queue) = queue[1]
      /\ queue[1] \in Job /\ queue' \in Seq(Job)
      /\ Len(queue') = Len(queue) - 1
      /\ \A i \in 1 .. Len(queue') :
            i + 1 \in 1 .. Len(queue) /\ i + 1 # 1 /\ queue'[i] = queue[i + 1]
  BY <1>1
<1>3. /\ j \in Job /\ j.client = queue[1].client /\ j.call = queue[1].call
      /\ j.at = "start" /\ j.now <= clock
  <2>1. PICK n \in {0, clock} : j = [queue[1] EXCEPT !.at = "start", !.now = n]
    BY <1>2
  <2>2. n \in Time /\ n <= clock
    BY <1>1
  <2> HIDE DEF j
  <2> QED
    BY <1>2, <2>1, <2>2 DEF Job
<1> HIDE DEF j
<1>4. /\ job'[w] = j /\ j # None /\ \A v \in Worker \ {w} : job'[v] = job[v]
      /\ phase \notin {"starting", "stopped", "released"}
  BY <1>1, <1>3, NoneAssumption DEF Down
<1>5. request' = request
  BY <1>1 DEF loopVars
<1>6. \A i \in 1 .. Len(queue') : Awaited(queue[i])'
  <2> TAKE i \in 1 .. Len(queue')
  <2>1. Awaited(queue[i + 1])
    BY <1>1, <1>2 DEF Calls
  <2> QED
    BY <1>2, <1>5, <2>1 DEF Awaited
<1>7. \A v \in Worker : job'[v] # None => job'[v].client = None \/ Awaited(job[v])'
  <2> TAKE v \in Worker
  <2>1. CASE v = w
    <3>1. Awaited(queue[1])
      BY <1>1, <1>2 DEF Calls
    <3> QED
      BY <1>3, <1>4, <1>5, <2>1, <3>1 DEF Awaited
  <2>2. CASE v # w
    <3>1. job[v] # None => job[v].client = None \/ Awaited(job[v])
      BY <1>1 DEF Calls
    <3> QED
      BY <1>4, <1>5, <2>2, <3>1 DEF Awaited
  <2> QED
    BY <2>1, <2>2
<1>8. \A i, k \in 1 .. Len(queue') : i # k => queue'[i].client # queue'[k].client
  <2> TAKE i, k \in 1 .. Len(queue')
  <2> HAVE i # k
  <2>1. i + 1 # k + 1 /\ i + 1 \in 1 .. Len(queue) /\ k + 1 \in 1 .. Len(queue)
    BY <1>2
  <2> QED
    BY <1>1, <1>2, <2>1 DEF Calls
<1>9. \A i \in 1 .. Len(queue'), v \in Worker :
         job'[v] # None => queue'[i].client # job'[v].client
  <2> TAKE i \in 1 .. Len(queue'), v \in Worker
  <2>1. queue[i + 1].client # queue[1].client
    BY <1>1, <1>2 DEF Calls
  <2> QED
    BY <1>1, <1>2, <1>3, <1>4, <2>1 DEF Calls
<1>10. \A u, v \in Worker :
          /\ u # v /\ job'[u] # None /\ job'[v] # None
          /\ job'[u].client = job'[v].client
          => job'[u].client = None
  BY <1>1, <1>2, <1>3, <1>4 DEF Calls
<1>13. Calls'
  BY <1>1, <1>5, <1>6, <1>7, <1>8, <1>9, <1>10 DEF Calls
<1>14. Counted' /\ Down'
  BY <1>1, <1>4 DEF Counted, Busy, Slots, Down, loopVars
<1>15. Clean'
  BY <1>1, <1>2, <1>3, <1>4 DEF Clean, serviceVars
<1>16. TypeOK'
  BY <1>1, <1>2, <1>3 DEF TypeOK, loopVars, serviceVars
<1> QED
  BY <1>13, <1>14, <1>15, <1>16 DEF IInv

LEMMA ThreadPreserves ==
    ASSUME IInv, NEW w \in Worker, ThreadStep(w) \/ TakeKeyLock(w)
    PROVE  IInv'
<1>1. CASE Take(w)
  BY <1>1, TakePreserves
<1>2. CASE Read(w) \/ Invalid(w) \/ Work(w)
  <2>1. PICK ok \in BOOLEAN : Finish(w, ok)
    BY <1>2 DEF Read, Invalid, Work
  <2>2. job[w] # None /\ job[w].at # "set" /\ UNCHANGED <<nextCleanup, swept>>
    BY <1>2 DEF Read, Invalid, Work, Runs
  <2> QED
    BY <2>1, <2>2, FinishPreserves
<1>3. CASE Sweep(w)
  <2>1. CASE Finish(w, FALSE) /\ UNCHANGED <<nextCleanup, swept>>
    <3>1. job[w] # None /\ job[w].at # "set"
      BY <1>3 DEF Sweep, Runs
    <3> QED
      BY <2>1, <3>1, FinishPreserves
  <2> QED
    BY <1>3, <2>1, GoingOnPreserves DEF Sweep
<1> QED
  BY <1>1, <1>2, <1>3, GoingOnPreserves DEF ThreadStep

-----------------------------------------------------------------------------
(* The process *)

LEMMA ProcessPreserves ==
    ASSUME IInv,
           StartUp \/ Shutdown \/ EndLoop \/ Release \/ GiveUp \/ Die \/ Restart \/ Tick
    PROVE  IInv'
<1> USE DEF loopVars, serviceVars
<1>1. /\ TypeOK /\ Calls /\ Counted /\ Down /\ Clean
      /\ clock \in Int /\ swept \in Int /\ nextCleanup \in Nat
      /\ Interval \in Nat /\ MaxTime \in Nat
      /\ \A w \in Worker : job[w] # None => job[w] \in Job /\ job[w].now \in Int
  BY BoundAssumption DEF IInv, TypeOK, Job, Time
<1>2. CASE StartUp \/ Shutdown \/ Release \/ GiveUp \/ Restart \/ Tick
  <2>1. UNCHANGED <<request, active, queue, job>>
    BY <1>2 DEF StartUp, Shutdown, Release, GiveUp, Restart, Tick
  <2>2. Calls'
    <3>1. /\ \A i \in 1 .. Len(queue) : Awaited(queue[i])'
          /\ \A w \in Worker :
                job[w] # None => job[w].client = None \/ Awaited(job[w])'
      BY <1>1, <2>1 DEF Calls, Awaited
    <3> QED
      BY <1>1, <2>1, <3>1 DEF Calls
  <2>3. Counted'
    BY <1>1, <2>1 DEF Counted, Busy, Slots
  <2>4. Down'
    <3>1. CASE StartUp \/ Shutdown \/ Release \/ GiveUp \/ Tick
      BY <1>1, <2>1, <3>1
      DEF Down, StartUp, Shutdown, Release, GiveUp, Tick, ServeReturns
    <3>2. CASE Restart
      BY <1>1, <2>1, <3>2 DEF Down, Restart, Idle
    <3> QED
      BY <1>2, <3>1, <3>2
  <2>5. Clean'
    <3>1. CASE StartUp \/ Shutdown \/ Release \/ GiveUp \/ Tick
      BY <1>1, <2>1, <3>1
      DEF Clean, StartUp, Shutdown, Release, GiveUp, Tick, ServeReturns, Idle
    <3>2. CASE Restart
      BY <1>1, <2>1, <3>2 DEF Clean, Restart, Idle
    <3> QED
      BY <1>2, <3>1, <3>2
  <2>6. TypeOK'
    <3>1. CASE StartUp \/ Shutdown \/ Release \/ GiveUp
      BY <1>1, <3>1 DEF TypeOK, StartUp, Shutdown, Release, GiveUp
    <3>2. CASE Restart
      BY <1>1, <3>2 DEF TypeOK, Restart, Time
    <3>3. CASE Tick
      BY <1>1, <3>3 DEF TypeOK, Tick, Time
    <3> QED
      BY <1>2, <3>1, <3>2, <3>3
  <2> QED
    BY <2>2, <2>3, <2>4, <2>5, <2>6 DEF IInv
<1>3. CASE EndLoop \/ Die
  <2>1. /\ request' = [c \in Client |-> None] /\ active' = 0 /\ queue' = <<>>
        /\ phase' \in {"stopped", "released"} /\ UNCHANGED <<nextCleanup, swept, clock>>
    BY <1>3 DEF EndLoop, Die
  <2>2. /\ job' \in [Worker -> Job \cup {None}]
        /\ \A w \in Worker : job'[w] # None =>
              /\ job[w] # None /\ job'[w].client = None
              /\ job'[w].at = job[w].at /\ job'[w].now = job[w].now
              /\ job'[w].call = job[w].call
        /\ phase' = "released" => \A w \in Worker : job'[w] = None
    <3>1. CASE EndLoop
      <4>1. ASSUME NEW w \in Worker, job[w] # None
            PROVE  /\ [job[w] EXCEPT !.client = None] \in Job
                   /\ [job[w] EXCEPT !.client = None].client = None
                   /\ [job[w] EXCEPT !.client = None].at = job[w].at
                   /\ [job[w] EXCEPT !.client = None].now = job[w].now
                   /\ [job[w] EXCEPT !.client = None].call = job[w].call
        BY <1>1, <4>1 DEF Job
      <4> QED
        BY <3>1, <4>1 DEF EndLoop
    <3>2. CASE Die
      BY <3>2 DEF Die
    <3> QED
      BY <1>3, <3>1, <3>2
  <2>3. /\ keyLock' \in Worker \cup {None} /\ maintenance' \in Worker \cup {None}
        /\ maintenance' = maintenance \/ \A w \in Worker : job'[w] = None
    BY <1>1, <1>3 DEF EndLoop, Die, TypeOK
  <2>4. Calls' /\ Down'
    BY <2>1, <2>2 DEF Calls, Down
  <2>5. Counted'
    <3>1. Busy' = {} /\ Slots' = {}
      BY <2>1 DEF Busy, Slots
    <3> QED
      BY <2>1, <3>1, FS_EmptySet DEF Counted
  <2>6. Clean'
    <3>1. CASE Die
      BY <1>1, <2>1, <2>2, <3>1 DEF Clean, Die
    <3>2. CASE EndLoop
      <4>1. \A w \in Worker : job[w] # None => job'[w] # None
        <5> TAKE w \in Worker
        <5> HAVE job[w] # None
        <5>1. [job[w] EXCEPT !.client = None] \in Job
          BY <1>1 DEF Job
        <5> QED
          BY <3>2, <5>1, NoneAssumption DEF EndLoop
      <4>2. phase # "released" /\ UNCHANGED maintenance
        BY <3>2 DEF EndLoop
      <4>3. maintenance # None =>
               job'[maintenance] # None /\ job'[maintenance].at \in {"check", "sweep", "set"}
        BY <1>1, <2>2, <4>1 DEF Clean, TypeOK
      <4>4. \/ nextCleanup >= swept + Interval
            \/ \E w \in Worker : job'[w] # None /\ job'[w].at = "set"
        BY <1>1, <2>2, <4>1, <4>2 DEF Clean
      <4> QED
        BY <1>1, <2>1, <2>2, <4>2, <4>3, <4>4 DEF Clean
    <3> QED
      BY <1>3, <3>1, <3>2
  <2>7. TypeOK'
    BY <1>1, <2>1, <2>2, <2>3, BoundAssumption DEF TypeOK
  <2> QED
    BY <2>4, <2>5, <2>6, <2>7 DEF IInv
<1> QED
  BY <1>2, <1>3

LEMMA NextPreserves == IInv /\ [Next]_vars => IInv'
<1> SUFFICES ASSUME IInv, [Next]_vars PROVE IInv'
  OBVIOUS
<1>1. CASE StartUp \/ Shutdown \/ EndLoop \/ Release \/ GiveUp \/ Die \/ Restart \/ Tick
  BY <1>1, ProcessPreserves
<1>2. CASE \E c \in Client :
              Admit(c) \/ Probe(c) \/ BodyComplete(c) \/ BodyRefused(c) \/ LoopStep(c)
  BY <1>2, TaskPreserves
<1>3. CASE \E w \in Worker : ThreadStep(w) \/ TakeKeyLock(w)
  BY <1>3, ThreadPreserves
<1>4. CASE UNCHANGED vars
  BY <1>4 DEF IInv, TypeOK, Calls, Awaited, Counted, Busy, Slots, Down, Clean,
              vars, loopVars, serviceVars
<1> QED
  BY <1>1, <1>2, <1>3, <1>4 DEF Next

THEOREM Invariance == Spec => []IInv
BY InitEstablishes, NextPreserves, PTL DEF Spec

-----------------------------------------------------------------------------
(* The results *)

(* Every state of the server has the types of TypeOK; active, the count of *)
(* taken slots, is in 0 .. MaxInFlight.                                    *)
THEOREM TypeCorrect == Spec => []TypeOK
<1>1. IInv => TypeOK
  BY DEF IInv
<1> QED
  BY <1>1, Invariance, PTL

(* A call leaves a due cleanup only to a thread that is at it, and only a   *)
(* cleanup that was run puts off the next.                                 *)
THEOREM CleanupIsNotMissed == Spec => CleanupNotMissed
<1> DEFINE At == {"check", "sweep", "set"}
           Left(w) == Runs(w, Operation, "due") /\ Runs(w, Operation, "work")' =>
                          \E v \in Worker, at \in At : Runs(v, Operation, at)
           PutOff == nextCleanup' # nextCleanup /\ phase' # "starting" =>
                         nextCleanup' = swept + Interval
<1>1. ASSUME IInv, Next, NEW w \in Worker
      PROVE  Left(w)
  <2> SUFFICES ASSUME Runs(w, Operation, "due"), Runs(w, Operation, "work")'
               PROVE  \E v \in Worker, at \in At : Runs(v, Operation, at)
    OBVIOUS
  <2>0. /\ job \in [Worker -> Job \cup {None}] /\ job[w] # None /\ job[w].at = "due"
        /\ job'[w] # None /\ job'[w].at = "work" /\ job' # job
    BY <1>1 DEF IInv, TypeOK, Runs
  <2>1. TryMaintenance(w)
    <3>1. ASSUME NEW v \in Worker, ThreadStep(v) \/ TakeKeyLock(v)
          PROVE  v = w
      <4> SUFFICES ASSUME v # w PROVE job'[w] = job[w]
        BY <2>0
      <4> QED
        BY <2>0, <3>1
        DEF ThreadStep, Take, Read, Invalid, LookWhetherDue, TryMaintenance, LookAgain,
            Sweep, SetNext, Work, TakeKeyLock, Goes, GoesToWork, Finish
    <3>2. ~(Take(w) \/ Read(w) \/ Invalid(w) \/ LookWhetherDue(w) \/ LookAgain(w)
            \/ Sweep(w) \/ SetNext(w) \/ Work(w) \/ TakeKeyLock(w))
      BY <2>0 DEF Take, Read, Invalid, LookWhetherDue, LookAgain, Sweep, SetNext, Work,
                  TakeKeyLock, Runs
    <3>3. ~\E c \in Client :
              Admit(c) \/ Probe(c) \/ BodyComplete(c) \/ BodyRefused(c) \/ LoopStep(c)
      BY <2>0 DEF Admit, Probe, BodyComplete, BodyRefused, LoopStep, BodyTimeout, Reply
    <3>4. ~(StartUp \/ Shutdown \/ Release \/ GiveUp \/ Die \/ Restart \/ Tick)
      BY <2>0 DEF StartUp, Shutdown, Release, GiveUp, Die, Restart, Tick
    <3>5. ~EndLoop
      <4>1. job[w] \in Job /\ [job[w] EXCEPT !.client = None].at = job[w].at
        BY <2>0 DEF Job
      <4> QED
        BY <2>0, <4>1 DEF EndLoop
    <3> QED
      BY <1>1, <3>1, <3>2, <3>3, <3>4, <3>5 DEF Next, ThreadStep
  <2>2. maintenance # None
    <3>1. Goes(w, "check") => job'[w].at = "check"
      BY <2>0 DEF Goes, Job
    <3> QED
      BY <2>0, <2>1, <3>1 DEF TryMaintenance
  <2>3. /\ maintenance \in Worker /\ job[maintenance] # None
        /\ job[maintenance].at \in At /\ job[maintenance].call \in Operation
    BY <1>1, <2>2 DEF IInv, TypeOK, Clean
  <2> QED
    BY <2>3 DEF Runs
<1>2. ASSUME IInv, Next
      PROVE  PutOff
  <2>1. ASSUME NEW w \in Worker, SetNext(w)
        PROVE  nextCleanup' = swept + Interval
    BY <1>2, <2>1 DEF SetNext, Runs, IInv, Clean
  <2>2. ASSUME NEW w \in Worker, ThreadStep(w) \/ TakeKeyLock(w), ~SetNext(w)
        PROVE  nextCleanup' = nextCleanup
    BY <2>2 DEF ThreadStep, Take, Read, Invalid, LookWhetherDue, TryMaintenance, LookAgain,
                Sweep, Work, TakeKeyLock, serviceVars
  <2>3. ASSUME NEW c \in Client,
               Admit(c) \/ Probe(c) \/ BodyComplete(c) \/ BodyRefused(c) \/ LoopStep(c)
        PROVE  nextCleanup' = nextCleanup
    BY <2>3 DEF Admit, Probe, BodyComplete, BodyRefused, LoopStep, BodyTimeout, Reply,
                serviceVars
  <2>4. ASSUME StartUp \/ Shutdown \/ EndLoop \/ Release \/ GiveUp \/ Die \/ Tick
        PROVE  nextCleanup' = nextCleanup
    BY <2>4 DEF StartUp, Shutdown, EndLoop, Release, GiveUp, Die, Tick, serviceVars
  <2>5. Restart => phase' = "starting"
    BY DEF Restart
  <2> QED
    BY <1>2, <2>1, <2>2, <2>3, <2>4, <2>5 DEF Next
<1>3. IInv /\ [Next]_vars => [(\A w \in Worker : Left(w)) /\ PutOff]_vars
  BY <1>1, <1>2
<1> QED
  BY <1>3, Invariance, PTL DEF Spec, CleanupNotMissed

(* Two cleanups are at least Interval apart, in the times they are run for. *)
THEOREM CleanupsStayApart == Spec => []CleanupsApart
<1>1. IInv => CleanupsApart
  <2> SUFFICES ASSUME IInv, NEW w \in Worker, Runs(w, Operation, "sweep")
               PROVE  job[w].now >= swept + Interval
    BY DEF CleanupsApart
  <2>1. /\ job[w] # None /\ job[w].at = "sweep" /\ maintenance = w
        /\ job[w].now >= nextCleanup
    BY DEF IInv, Clean, Runs
  <2>3. \A v \in Worker : job[v] # None => job[v].at # "set"
    BY <2>1 DEF IInv, Clean
  <2>4. nextCleanup >= swept + Interval
    BY <2>1, <2>3 DEF IInv, Clean
  <2>5. /\ nextCleanup \in Int /\ swept \in Int /\ Interval \in Int
        /\ job[w].now \in Int
    BY <2>1, BoundAssumption DEF IInv, TypeOK, Job, Time
  <2> QED
    BY <2>1, <2>4, <2>5
<1> QED
  BY <1>1, Invariance, PTL

(* The calls for the API never outnumber the taken slots, active is their  *)
(* number, and no more calls wait than requests are in progress.           *)
THEOREM WorkStaysWithinSlots == Spec => []WorkWithinSlots
<1>1. IInv => WorkWithinSlots
  <2> SUFFICES ASSUME IInv PROVE WorkWithinSlots
    OBVIOUS
  <2>1. /\ Calls /\ Counted /\ queue \in Seq(Job) /\ DOMAIN queue = 1 .. Len(queue)
        /\ Len(queue) \in Nat
    BY DEF IInv, TypeOK
  <2>2. ApiCalls \subseteq Slots
    BY <2>1, NoneAssumption DEF ApiCalls, Slots, Calls, Awaited
  <2>3. Cardinality(ApiCalls) <= active
    BY <2>1, <2>2, FS_Subset DEF Counted
  <2>4. Len(queue) <= Cardinality(Busy)
    <3> DEFINE f == [i \in 1 .. Len(queue) |-> queue[i].client]
    <3>1. f \in Injection(1 .. Len(queue), Busy)
      <4>1. f \in [1 .. Len(queue) -> Busy]
        BY <2>1 DEF Calls, Awaited, Busy
      <4>2. \A a, b \in 1 .. Len(queue) : f[a] = f[b] => a = b
        BY <2>1 DEF Calls
      <4> HIDE DEF f
      <4> QED
        BY <4>1, <4>2 DEF Injection, IsInjective
    <3>2. Cardinality(1 .. Len(queue)) = Len(queue)
      BY <2>1, FS_Interval
    <3> QED
      BY <2>1, <3>1, <3>2, FS_Injection DEF Counted
  <2> QED
    BY <2>1, <2>3, <2>4 DEF WorkWithinSlots, Counted, Busy, Slots
<1> QED
  BY <1>1, Invariance, PTL

=============================================================================
