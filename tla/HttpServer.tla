----------------------------- MODULE HttpServer -----------------------------
(***************************************************************************)
(* The server process (http.py, serve): one event loop that admits         *)
(* requests into MaxInFlight slots, a pool of threads that runs the calls  *)
(* of the service for it, the periodic cleanup that those calls share      *)
(* (service.py 429-437) and the way down to the release of the instance    *)
(* lock.  What a call does to the database is in Ledger; here it succeeds  *)
(* or fails.                                                               *)
(*                                                                         *)
(* A request is run by one task.  It waits for a thread in "auth" and in   *)
(* "call", for the client in "body", and ends with an answer in "reply".   *)
(* asyncio.to_thread queues the call; cancelling the task removes a queued *)
(* call and cannot stop a running one, which then works for nobody.        *)
(***************************************************************************)
EXTENDS Integers, Sequences, FiniteSets

CONSTANTS
    Client,         \* connections, with one request at a time
    Worker,         \* threads of the default executor
    MaxInFlight,    \* _MAX_IN_FLIGHT_API_REQUESTS, 64
    Interval,       \* _CLEANUP_INTERVAL_SECONDS
    MaxTime,        \* bound: the last second
    None

ASSUME BoundAssumption ==
    MaxInFlight \in Nat \ {0} /\ Interval \in Nat \ {0} /\ MaxTime \in Nat

VARIABLES
    phase,          \* of the process; it holds the instance lock until "released"
    request,        \* request[c]: the request of c in progress
    active,         \* _active_api_requests
    queue,          \* calls that wait for a thread, first come first served
    job,            \* job[w]: the call that w runs
    keyLock,        \* the thread that holds _key_lock
    maintenance,    \* the thread that holds _maintenance_lock
    nextCleanup,    \* _next_cleanup_at
    clock,
    swept           \* history: the time for which the last cleanup was run

loopVars == <<phase, request, active>>
serviceVars == <<keyLock, maintenance, nextCleanup, swept>>
vars == <<loopVars, queue, job, serviceVars, clock>>

Operation == {"issue", "verify"}
Call == {"auth", "ready"} \cup Operation
Time == 0 .. MaxTime

\* "slot" tells whether the request counts in active, which is whether its path
\* begins with /v1/.
Request == [at : {"auth", "body", "call", "reply"}, slot : BOOLEAN]

\* A call for None is one whose task has been cancelled.  "now" is the time
\* that a call which may clean has read.
Job == [client : Client \cup {None}, call : Call,
        at : {"queued", "start", "due", "check", "sweep", "set", "work", "store"},
        now : Time]

ASSUME NoneAssumption == None \notin Client \cup Worker \cup Request \cup Job

TypeOK ==
    /\ phase \in {"starting", "open", "closing", "stopped", "released"}
    /\ request \in [Client -> Request \cup {None}]
    /\ active \in 0 .. MaxInFlight
    /\ queue \in Seq(Job)
    /\ job \in [Worker -> Job \cup {None}]
    /\ keyLock \in Worker \cup {None} /\ maintenance \in Worker \cup {None}
    /\ nextCleanup \in Nat /\ clock \in Time /\ swept \in Time

Init ==
    /\ phase = "starting"
    /\ request = [c \in Client |-> None]
    /\ active = 0
    /\ queue = <<>> /\ job = [w \in Worker |-> None]
    /\ keyLock = None /\ maintenance = None
    /\ nextCleanup = Interval /\ clock = 0 /\ swept = 0

-----------------------------------------------------------------------------
(* The event loop: one request *)

\* lifespan.startup: the server opens only if the service is ready.
StartUp ==
    /\ phase = "starting"
    /\ phase' \in {"open", "stopped"}
    /\ UNCHANGED <<request, active, queue, job, serviceVars, clock>>

InProgress(c, at) == request[c] # None /\ request[c].at = at

Moved(c, at) == request' = [request EXCEPT ![c].at = at]

Submit(c, call) ==
    queue' = Append(queue, [client |-> c, call |-> call, at |-> "queued", now |-> 0])

\* Without a free slot the answer is server_busy.  With one, a request that
\* names no credential, or a path or method that there is not, is refused
\* before any call.  The two operations differ once the body is there.
Admit(c) ==
    /\ phase = "open" /\ request[c] = None
    /\ \/ /\ active >= MaxInFlight
          /\ request' = [request EXCEPT ![c] = [at |-> "reply", slot |-> FALSE]]
          /\ UNCHANGED <<active, queue>>
       \/ /\ active < MaxInFlight
          /\ active' = active + 1
          /\ \E at \in {"auth", "reply"} :
                /\ request' = [request EXCEPT ![c] = [at |-> at, slot |-> TRUE]]
                /\ IF at = "auth" THEN Submit(c, "auth") ELSE UNCHANGED queue
    /\ UNCHANGED <<phase, job, serviceVars, clock>>

\* GET /readyz takes no slot.
Probe(c) ==
    /\ phase = "open" /\ request[c] = None
    /\ request' = [request EXCEPT ![c] = [at |-> "call", slot |-> FALSE]]
    /\ Submit(c, "ready")
    /\ UNCHANGED <<phase, active, job, serviceVars, clock>>

\* The last part of an acceptable body arrives ...
BodyComplete(c) ==
    /\ InProgress(c, "body")
    /\ Moved(c, "call") /\ \E op \in Operation : Submit(c, op)
    /\ UNCHANGED <<phase, active, job, serviceVars, clock>>

\* ... or the body is refused: its type, its length, its content, or the
\* client is gone ...
BodyRefused(c) ==
    /\ InProgress(c, "body")
    /\ Moved(c, "reply")
    /\ UNCHANGED <<phase, active, queue, job, serviceVars, clock>>

\* Faulty forms, for the mutant runs: the timeout covers the call too; there is
\* no timeout.
TimeoutOfRequest(c) ==
    /\ InProgress(c, "body") \/ InProgress(c, "call")
    /\ Moved(c, "reply")
    /\ UNCHANGED <<phase, active, queue, job, serviceVars, clock>>

NoTimeout(c) == FALSE /\ UNCHANGED vars

\* ... or it does not come within _REQUEST_BODY_TIMEOUT_SECONDS.
BodyTimeout(c) ==
    /\ InProgress(c, "body")
    /\ Moved(c, "reply")
    /\ UNCHANGED <<phase, active, queue, job, serviceVars, clock>>

\* Faulty form, for the mutant runs: every answer gives a slot back, also that
\* of server_busy.
ReplyAlwaysReleases(c) ==
    /\ InProgress(c, "reply")
    /\ request' = [request EXCEPT ![c] = None]
    /\ active' = active - 1
    /\ UNCHANGED <<phase, queue, job, serviceVars, clock>>

Reply(c) ==
    /\ InProgress(c, "reply")
    /\ request' = [request EXCEPT ![c] = None]
    /\ active' = IF request[c].slot THEN active - 1 ELSE active
    /\ UNCHANGED <<phase, queue, job, serviceVars, clock>>

-----------------------------------------------------------------------------
(* The threads: one call *)

Runs(w, calls, at) == job[w] # None /\ job[w].call \in calls /\ job[w].at = at

Goes(w, at) == job' = [job EXCEPT ![w].at = at]

\* The time that it read does not matter to the rest of the call.
GoesToWork(w) == job' = [job EXCEPT ![w].at = "work", ![w].now = 0]

\* issue_proof and verify_proof read the clock for the cleanup when they start.
Take(w) ==
    /\ job[w] = None /\ queue # <<>>
    /\ LET call == Head(queue)
           now == IF call.call \in Operation THEN clock ELSE 0
       IN  job' = [job EXCEPT ![w] = [call EXCEPT !.at = "start", !.now = now]]
    /\ queue' = Tail(queue)
    /\ UNCHANGED <<loopVars, serviceVars, clock>>

\* Faulty form, for the mutant runs: a lock is not released by an exception.
ReleasedOnSuccess(lock, w, ok) == IF lock = w /\ ok THEN None ELSE lock

\* Leaving the with and finally blocks releases what the thread holds.
Released(lock, w, ok) == IF lock = w THEN None ELSE lock

\* The call ends, with a result or an exception, and its task goes on, if
\* there still is one: an accepted credential leads to the body, everything
\* else to an answer.
Finish(w, ok) ==
    /\ job' = [job EXCEPT ![w] = None]
    /\ LET c == job[w].client
       IN  IF c = None THEN UNCHANGED request
           ELSE Moved(c, IF job[w].call = "auth" /\ ok THEN "body" ELSE "reply")
    /\ keyLock' = Released(keyLock, w, ok)
    /\ maintenance' = Released(maintenance, w, ok)
    /\ UNCHANGED <<phase, active, queue, clock>>

\* credential_is_accepted and ready only read.
Read(w) ==
    /\ Runs(w, {"auth", "ready"}, "start")
    /\ \E ok \in BOOLEAN : Finish(w, ok)
    /\ UNCHANGED <<nextCleanup, swept>>

\* issue_proof and verify_proof refuse an ill-formed field before all else.
Invalid(w) ==
    /\ Runs(w, Operation, "start")
    /\ Finish(w, FALSE)
    /\ UNCHANGED <<nextCleanup, swept>>

\* _maybe_cleanup: the first look at _next_cleanup_at is without the lock ...
LookWhetherDue(w) ==
    /\ Runs(w, Operation, "start")
    /\ IF job[w].now < nextCleanup THEN GoesToWork(w) ELSE Goes(w, "due")
    /\ UNCHANGED <<loopVars, queue, serviceVars, clock>>

\* ... a call that finds the lock taken leaves the cleanup to its holder ...
TryMaintenance(w) ==
    /\ Runs(w, Operation, "due")
    /\ IF maintenance = None
       THEN maintenance' = w /\ Goes(w, "check")
       ELSE UNCHANGED maintenance /\ GoesToWork(w)
    /\ UNCHANGED <<loopVars, queue, keyLock, nextCleanup, swept, clock>>

\* Faulty form, for the mutant runs: without the second look.
DueAtOnce(w) == TRUE

\* ... which looks again: another cleanup may have ended in between ...
StillDue(w) == job[w].now >= nextCleanup

LookAgain(w) ==
    /\ Runs(w, Operation, "check")
    /\ IF StillDue(w)
       THEN UNCHANGED maintenance /\ Goes(w, "sweep")
       ELSE maintenance' = None /\ GoesToWork(w)
    /\ UNCHANGED <<loopVars, queue, keyLock, nextCleanup, swept, clock>>

\* ... runs Store.cleanup, whose failure is the failure of the request ...
Sweep(w) ==
    /\ Runs(w, Operation, "sweep")
    /\ \/ /\ swept' = job[w].now
          /\ Goes(w, "set")
          /\ UNCHANGED <<loopVars, queue, keyLock, maintenance, nextCleanup, clock>>
       \/ /\ Finish(w, FALSE)
          /\ UNCHANGED <<nextCleanup, swept>>

\* ... and only then sets the time of the next.
SetNext(w) ==
    /\ Runs(w, Operation, "set")
    /\ nextCleanup' = job[w].now + Interval
    /\ maintenance' = None
    /\ GoesToWork(w)
    /\ UNCHANGED <<loopVars, queue, keyLock, swept, clock>>

\* issue_proof reads and writes the store under _key_lock ...
TakeKeyLock(w) ==
    /\ Runs(w, {"issue"}, "work") /\ keyLock = None
    /\ keyLock' = w
    /\ Goes(w, "store")
    /\ UNCHANGED <<loopVars, queue, maintenance, nextCleanup, swept, clock>>

\* ... and verify_proof without it.
Work(w) ==
    /\ Runs(w, {"issue"}, "store") \/ Runs(w, {"verify"}, "work")
    /\ \E ok \in BOOLEAN : Finish(w, ok)
    /\ UNCHANGED <<nextCleanup, swept>>

Tick ==
    /\ clock < MaxTime
    /\ clock' = clock + 1
    /\ UNCHANGED <<loopVars, queue, job, serviceVars>>

-----------------------------------------------------------------------------
(* The way down *)

\* A signal: no request is accepted any more.
Shutdown ==
    /\ phase = "open" /\ phase' = "closing"
    /\ UNCHANGED <<request, active, queue, job, serviceVars, clock>>

\* All requests have ended, or timeout_graceful_shutdown is over and the rest
\* of the tasks are cancelled: their finally clauses free the slots, their
\* queued calls are dropped, the running ones go on.
EndLoop ==
    /\ phase = "closing" /\ phase' = "stopped"
    /\ request' = [c \in Client |-> None]
    /\ active' = 0
    /\ queue' = <<>>
    /\ job' = [w \in Worker |->
                  IF job[w] = None THEN None ELSE [job[w] EXCEPT !.client = None]]
    /\ UNCHANGED <<serviceVars, clock>>

Idle == queue = <<>> /\ \A w \in Worker : job[w] = None

\* asyncio.run joins the threads before it returns to the with block of _serve ...
ServeReturns == phase = "stopped" /\ Idle

Release ==
    /\ ServeReturns /\ phase' = "released"
    /\ UNCHANGED <<request, active, queue, job, serviceVars, clock>>

\* ... for 300 seconds at most, from Python 3.12 on.  The threads go on without
\* the lock.
GiveUp ==
    /\ phase = "stopped" /\ ~Idle /\ phase' = "released"
    /\ UNCHANGED <<request, active, queue, job, serviceVars, clock>>

\* The process is killed, also by the signal that uvicorn raises again after
\* the loop: its threads end with it and the kernel frees the lock.
Die ==
    /\ phase' = "released"
    /\ request' = [c \in Client |-> None] /\ active' = 0
    /\ queue' = <<>> /\ job' = [w \in Worker |-> None]
    /\ keyLock' = None /\ maintenance' = None
    /\ UNCHANGED <<nextCleanup, swept, clock>>

\* A new process, once the old one has ended, builds a new service.
Restart ==
    /\ phase = "released" /\ Idle /\ phase' = "starting"
    /\ nextCleanup' = clock + Interval
    /\ UNCHANGED <<request, active, queue, job, keyLock, maintenance, swept, clock>>

LoopStep(c) == BodyTimeout(c) \/ Reply(c)

ThreadStep(w) ==
    \/ Take(w) \/ Read(w) \/ Invalid(w)
    \/ LookWhetherDue(w) \/ TryMaintenance(w) \/ LookAgain(w) \/ Sweep(w) \/ SetNext(w)
    \/ Work(w)

Next ==
    \/ StartUp \/ Shutdown \/ EndLoop \/ Release \/ GiveUp \/ Die \/ Restart \/ Tick
    \/ \E c \in Client :
          \/ Admit(c) \/ Probe(c) \/ BodyComplete(c) \/ BodyRefused(c) \/ LoopStep(c)
    \/ \E w \in Worker : ThreadStep(w) \/ TakeKeyLock(w)

\* Timers expire, the loop and the threads are scheduled, and the operating
\* system passes a lock that is free again and again to each that waits.
\* Nothing is assumed of the clients, of the signals and of GiveUp, of which
\* Python 3.11 has none.
Fairness ==
    /\ \A c \in Client : WF_vars(LoopStep(c))
    /\ \A w \in Worker : WF_vars(ThreadStep(w)) /\ SF_vars(TakeKeyLock(w))
    /\ WF_vars(EndLoop \/ Release)

Spec == Init /\ [][Next]_vars /\ Fairness

-----------------------------------------------------------------------------
(* Properties *)

(* docs/THREAT_MODEL.md:118: at most 64 requests are in flight.  The calls   *)
(* of the API that wait for a thread or run in one are never more than the   *)
(* slots that are taken, so the limit bounds the work and not only the       *)
(* tasks, until the cancellation at the end leaves calls without a request   *)
(* (http.py 126-139).                                                        *)
ApiCalls ==
    {c \in Client :
        \/ \E i \in DOMAIN queue : queue[i].client = c /\ queue[i].call # "ready"
        \/ \E w \in Worker : job[w] # None /\ job[w].client = c /\ job[w].call # "ready"}

WorkWithinSlots ==
    /\ Cardinality(ApiCalls) <= active
    /\ active = Cardinality({c \in Client : request[c] # None /\ request[c].slot})
    /\ Len(queue) <= Cardinality({c \in Client : request[c] # None})

(* docs/PROTOCOL.md:116: a cleanup "at most once every five minutes".  A     *)
(* thread that is about to run one has read a time at least Interval after   *)
(* the one for which the last was run, whatever the threads do between the   *)
(* unlocked look, the locked one and the assignment (service.py 429-437).    *)
CleanupsApart ==
    \A w \in Worker :
        Runs(w, Operation, "sweep") => job[w].now >= swept + Interval

(* docs/PROTOCOL.md:116: "Active request traffic triggers bounded cleanup".  *)
(* A call that has found a cleanup due goes on without one only while        *)
(* another thread is at it, and nothing but a cleanup that was run puts off  *)
(* the next: also after cleanups that failed (service.py 429-437).           *)
CleanupNotMissed ==
    [][ /\ \A w \in Worker :
              Runs(w, Operation, "due") /\ Runs(w, Operation, "work")' =>
                  \E v \in Worker, at \in {"check", "sweep", "set"} :
                      Runs(v, Operation, at)
        /\ nextCleanup' # nextCleanup /\ phase' # "starting" =>
              nextCleanup' = swept + Interval ]_vars

(* Every request in progress ends, and with it its task (http.py 172-246).   *)
RequestsEnd == \A c \in Client : request[c] # None ~> request[c] = None

(* A server that is told to stop releases the instance lock, whatever its    *)
(* clients and its threads are at (http.py 354-367), although its join of    *)
(* the threads may have no limit.                                            *)
ShutdownEnds == phase = "closing" ~> phase = "released"

=============================================================================
