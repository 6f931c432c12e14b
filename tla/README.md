# Onceproof in TLA+

This directory is a verification development of Onceproof, a small service
that issues opaque one-time proofs and verifies each at most once. It holds TLA+
modules translated from the Python sources, TLC configurations that check them
on small instances, and proofs that TLAPS checks for every instance. Line
numbers refer to `src/onceproof/`. `PROJECT.json` says, definition by
definition, which lines a module stands for.

## 1. The system

| component | state it keeps | operations |
|---|---|---|
| **Ledger**, `store.py` | tables `clients`, `credentials`, `proofs`, `verifications`, `rate_events`, `audit_events`, `hash_keys`, `maintenance` of one SQLite file | `create_client`, `issue_proof`, `consume_proof`, `rotate_credential`, `revoke_client`, `cleanup`, `backup`, `cached_verification`, `activate_restored_backup`, `hash_key_is_in_use` and reports |
| **Rate limiter**, `Store._consume_rate_slot` | `rate_events`, shared by all clients | admit or refuse with Retry-After, trim |
| **Service**, `service.py` | `_key_lock`, `_next_cleanup_at` | validation, authentication, the order of the ledger calls, periodic cleanup |
| **Keyring**, `keyring.py` | `keyring.json`, a copy in each process, a file lock | `stable`, `rotate`, `retire`, `backup_with` |
| **Instance lock**, `locking.py` | one host lock per database | taken by a server for life, by `key rotate`, `key retire` and `db activate-restore`; never waited for |
| **Command line**, `cli.py` | credential files, backup directories | one process per command |
| **HTTP surface**, `http.py` | number of requests in flight | admission (64), authentication before the body, body timeout (5 s), error mapping |
| **Configuration**, `config.py` | `onceproof.toml`, the instance directory | `initialize_instance`, `load_config` |
| **Result model**, `model.py` | none | JSON round trip of stored results |
| **Digests**, `crypto.py` | none | HMAC of secrets and proofs |

How they interact. An HTTP request runs in a worker thread of the one server
process: authentication in one read, for issuing the client policy in another,
for verifying a lookup of the idempotency key in further reads, and then one
write transaction that asks everything again. Commands are other processes on
the same file; they share SQLite's write lock with the server, and the file
lock of the keyring with one another. The server reads the keyring once, at
start. A backup is a pair of files, written while everything goes on. A restore
is done by the operator, by hand, with the server stopped.

What is hard in it:

* reads made before the write lock, and a time sampled before it, are old when
  the transaction runs;
* an answer can be lost after its commit, so clients retry, concurrently too;
* a restored ledger is older than what its clients have been told;
* deletions (retention, rate events, credentials) decide what a later request
  is told;
* rows and the keys they need live in two files, changed by different
  processes;
* two host locks and SQLite's lock are held in several combinations.

What makes each part correct:

* ledger: one acceptance per proof, for ever; true receipts; idempotent
  retries; graces kept; revocation final; no constraint ever trips;
* limiter: no window of the past is overfull; exact advice;
* keyring: every row has its key, on disk, in the running server and in every
  backup; every command ends;
* HTTP surface: slots bound the work and never leak, every request ends, a
  due cleanup is run and not run twice, and a shutdown ends;
* stored results: what is stored can be read back;
* command line: what is published, reported or active is whole and durable, and
  nobody touches the file of another.

`PROJECT.json` lists the hazards one by one, at the line where each bites, with
the properties that would catch it.

## 2. The modules

| module | what it is |
|---|---|
| `Quota` | the arithmetic of the rolling limit, as operators |
| `RateWindow` | the table `rate_events` as a state machine of its own |
| `RateWindowProofs` | its three properties, proved |
| `OneTimeProof` | the abstract promise: issue once, accept once, tell the truth |
| `Ledger` | store and request pipelines; implements `OneTimeProof` |
| `LedgerProofs` | type correctness, at most one acceptance, and that `Ledger` implements `OneTimeProof`, proved |
| `LedgerRowsProofs` | stored results, authority and grace, proved |
| `LedgerRetentionProofs` | constraints, receipts, idempotency and the rate limit over deletions, proved |
| `StoredResult` | the writer and the strict reader of a stored decision |
| `KeyLifecycle` | keyring, both host locks, commands, backup pair, power loss |
| `KeyLifecycleProofs` | its four invariants, proved |
| `AtomicBackup` | the abstract promise of `db backup`: a whole backup appears in one step and stays |
| `BackupDirectory` | its output directory, change by change; implements `AtomicBackup` |
| `BackupDirectoryProofs` | its four invariants and properties and the refinement, proved |
| `InstanceFiles` | `init` and the credential files, change by change |
| `InstanceFilesProofs` | its five properties, proved |
| `HttpServer` | event loop, slots, threads, periodic cleanup, shutdown |
| `HttpServerProofs` | its three invariants and its action property, proved |
| `MCRateWindow`, `MCLedger`, `MCKeyLifecycle`, `MCHttpServer` | values of constants for TLC |

`Quota` is extended by `RateWindow` and by `Ledger`, so the limiter that is
proved alone is the one that the ledger uses.

### RateWindow

`rows` is the table, `admitted` remembers all rows ever committed, and `clock`
moves forward. `Admit` and `Refuse` are the two ways a transaction goes through
`_consume_rate_slot`; a refusal raises and so rolls its deletion back. `Cleanup`
uses a time sampled at or before the present second. `refusal[m]` holds the last
advice given to meter `m`, to compare it with what happens next.

### Ledger

`db` is the committed content of the database, `backup` the latest sealed copy of it,
and `requests[r]` a request with the step its handler has reached:

    authenticate -> policy -> commit -> reply -> done            issuing
    authenticate -> lookup -> recall -> commit -> reply -> done  verifying

* One write transaction (`Store._write`) is one action. `BEGIN IMMEDIATE` takes
  the write lock before anything is read, and `issue_proof` and `consume_proof`
  read the clock after that, so nothing can come between. `Judge` is
  `consume_proof` when it decides on the merits; `EndVerify` is each of its
  other ends; `IssueProof` and `RefuseIssue` are `issue_proof`.
* A read outside a transaction is an action of its own. `cached_verification`
  runs without `BEGIN`: each of its statements sees its own snapshot. `Lookup`
  is the first two, `Recall` the last. Seal and credential are read in one
  action because nothing depends on their order: the transaction asks for both
  again, and `Recall` only returns a decision committed before.
* `_key_lock` lets one issuing request at a time pass from `authenticate` to the
  end of its transaction. Verification takes no lock.
* Administration uses a time sampled before its transaction: `Sampled` is every
  second not older than `MaxLag` and not ahead of the clock by more than
  `StepBack`. A clock that is set back several times between the sample and its
  transaction is beyond that bound.
* `StoreFails` is a timeout or an I/O error of SQLite: the handler ends with an
  error and the transaction leaves nothing. `Crash` ends all handlers; a
  request whose answer had not left is `lost`.
* `RestoreBackup` is the operator's procedure, between requests.
  `ActivateRestore` is the command. `TakeBackup` may copy any ledger, also a
  restored one that is still sealed, and replaces the copy kept.
* `ClockStepsBack` sets the host clock back by at most `StepBack` seconds.

Abstracted: a proof or a secret is its identity, drawn fresh; a binding stands
for subject, purpose and audience; validation of texts is the choice of inputs;
all clients have the same policy. Left out: the digest key of a row (that is
`KeyLifecycle`), audit rows and `last_cleanup_at`, which nothing reads to decide,
and `verification_id`, whose place is taken by the request that decided.

`names` and `accepted` are histories: the identities ever drawn and the
acceptances ever committed. They are not restored with a backup, which is what
makes the properties say something about restores.

### StoredResult

`consume_proof` stores each decision as JSON, and a retry under the idempotency
key is answered by reading it back with `VerificationResult.from_dict`, which
refuses whatever does not fit together (model.py 126-231). A row that the reader
refuses would answer every retry with an error for as long as it is retained.
`ResultOf` is what the store writes for a decision of `Ledger`, `Readable` is the
reader as a predicate, and `StoredResultsReadable` says of every transaction that
records a decision that the reader takes it. The formats of identifiers, tags and
dates are left out; that a time is not negative and that a claim ends after it
begins are not.

### KeyLifecycle

A table is the set of the key identifiers its rows depend on. `keyring` is the
file as processes see it and `settled` the set of contents that a power loss may
leave: `Replace` adds to it and `Sync` leaves only the present content. A process runs
one command after the other: `serve`, `enroll` (`client create` and `client
rotate`), `rotate`, `retire` or `backup`. Its step says how far it is, from
taking the instance lock (`Own`) and loading the keyring (`Load`) to waiting for
the file lock (`Lock`) and the work under it. `hash_key_is_in_use` is two
actions because it reads two snapshots. `Replace` is `os.replace` and `Sync` the
two `fsync` calls after it, still under the lock. A process may be stopped at
any step, which releases its locks: between `Replace` and `Sync` that is a kill or
a failed `fsync` (`KeyringCommitUncertain`). `Cleanup` removes any rows: which are
due is the ledger's business.

A keyring whose command ended before its `fsync` is in use all the same: others
load it and commit rows under its new key. If a later power loss takes it back,
those rows have lost their key. After a failed `fsync` the command says
`keyring_commit_uncertain`, after a kill nobody does. `takenBack` remembers that
this has happened (`PowerLoss` of a content that was not `Unseen`). A power loss
that undoes a replacement which nobody but its command has seen, because the
command still held the file lock, does not count. `NoOrphan` and `BackupComplete`
speak of the time before; `ServerCanAnswer` also of the time after.

### BackupDirectory

`dir` gives each entry of the output directory its content, `"none"` where it is
not there; `"self"` is the directory's own entry. One action is one change: an
`unlink`, a `link`, an `fsync`. `step` says which comes next. `settled` is the set
of states in which a power loss may leave the directory: every change adds to
it, `_fsync_parent` reduces it to the present state. `Fail` is an exception at
any step together with what its handlers remove; `Kill` removes nothing.
`AddForeign` puts a stray file into the directory at any time, also between the
listing of `Prepare` and the last `Unlink`.

`AtomicBackup` has neither files nor interruptions: `content` is "nothing" or
"backup", `reported` is the printed success. The refinement mapping reads them from
the manifest and the members (`Shown`) and from `backedUp`. All steps before the
manifest is linked are stutters and the link is `Publish`. Of a backup that was not
yet reported nothing is promised (`LoseUnreported`): in `BackupDirectory` a power
loss may take it, and a retry then publishes another. `KeyLifecycle` publishes a backup in one step,
which this refinement justifies.

Assumed: one command at a time uses the directory, and the `fsync` of a new
directory makes its own entry durable, as journalling file systems do (the code
never syncs the parent). The journal of the copy is SQLite's: it appears beside
the database with the first page written and goes with the commit.

### InstanceFiles

`seen[f]` is what processes find at a path and `kept[f]` the set of contents that
a power loss may leave there: a change of an entry adds to it, `fsync` of the
file turns its data whole wherever the entry survives, and `fsync` of the
directory leaves only the present entry (`SyncEntries`). Entries survive one by
one, the members of an instance within the directory in which they were made.
A file carries the process that created it, which is how a property can say
whose file was touched.

An installer runs `initialize_instance` from `Mkdir` to `Return`. `FailInit` is a
failure at any step. After `Mkdir` and `Chmod` (config.py 154-159), which come
before the `try`, it ends the command; after any later one it enters the handler,
which `Drop` runs file by file. The handler may fail too: always at its `rmdir` if
the directory holds the file of the keyring's lock, which `OpenLock` creates
there and nobody removes. An enroller runs `client create` or
`client rotate`: `StartEnrol` refuses a target that exists, `LinkTarget` is the
`os.link` that fails if one has come since, `SyncTarget` makes it durable, and only
then `Commit` writes the rows. Any step may fail, the process may be killed and
the power may go between any two. SQLite with `synchronous = EXTRA` syncs data
and directory within its commit. Temporary files have names of their own and
are left out.

### HttpServer

One task per request and one event loop: `request[c]` says what the task of the
connection `c` waits for (a thread for authentication, the body, a thread for
the operation, or the client that takes the answer), `queue` and `job` are the
executor behind `asyncio.to_thread`: first come, first served, with a fixed number
of threads. The code never names that pool; it is modelled as what Python
documents of it. `Admit` takes a slot before anything else and `Reply` is the end
of the task, whose `finally` gives it back.

A thread's call is split where the code takes or leaves a lock: the look at
`_next_cleanup_at` without the lock (`LookWhetherDue`), the attempt to get
`_maintenance_lock` (`TryMaintenance`), the second look (`LookAgain`), the cleanup
(`Sweep`), the assignment (`SetNext`), `_key_lock` (`TakeKeyLock`) and the work. Each
call may fail, which runs the `with` and `finally` blocks (`Released`).

`Shutdown` is a signal. `EndLoop` is the end of the event loop, with the tasks
that the graceful timeout cancels: their slots are freed and their queued calls
dropped, but a call that runs in a thread goes on, for nobody, and may still
commit. `asyncio.run` joins the threads before the `with` block of the instance lock
ends (`ServeReturns`), without limit on Python 3.11 and for five minutes from 3.12
on: `GiveUp` is the end of that time, after which threads may still be in a
call, under no lock, until they end or the process dies. A new server process
starts only then. `Die` is a kill at any moment, also the signal that uvicorn
raises again after it has ended.

### Faulty forms

Definitions marked "Faulty form, for the mutant runs" are plausible bugs of the
code (a dropped condition, a boundary off by one, a lock not released). No
specification uses them. Each property fails when one of them takes the place
of the definition it imitates: see "mutants" in `PROJECT.json`.

## 3. The properties and the runs

| run | module | checks | instance |
|---|---|---|---|
| `rate_window` | `MCRateWindow` | `TypeOK`, `WindowRespected`, `RetryExact` | 2 meters of limits 1 and 2, 4 events, window 3, clock 0..8 |
| `ledger_replay` | `MCLedger` | `AtMostOneWitness`, `ReceiptHonoured`, `PromiseKept`, `StoredResultsReadable` | 3 requests, 1 proof, 1 key, clock 0..1 |
| `ledger_restore` | `MCLedger` | `AtMostOneWitness`, `ReceiptHonoured`, `PromiseKept` | 3 requests, 1 proof, backups, clock 0..1 set back by 1 |
| `ledger_retention` | `MCLedger` | `KeyDecisionsApart`, `ReceiptHonoured`, `QuotaRespected`, `SchemaNeverTrips` | 2 requests, 2 bindings, limits of 1, late cleanups, backups, clock 0..3 |
| `ledger_credentials` | `MCLedger` | `TypeOK`, `SchemaNeverTrips`, `GraceKept`, `AuthorityNeverReturns` | from an empty database; 4 credentials, grace 2, backups, clock 0..3 set back by 1 |
| `key_lifecycle` | `MCKeyLifecycle` | `TypeOK`, `NoOrphan`, `ServerCanAnswer`, `BackupComplete` | 2 processes, 2 keys, all commands |
| `key_locks` | `MCKeyLifecycle` | `CommandsEnd` | 3 processes, 2 keys; `client create`, `key rotate`, `key retire` |
| `backup_directory` | `BackupDirectory` | `TypeOK`, `PublishedIsWhole`, `BackedUpStays`, `ForeignKept`, `PublishedAtOnce` | no constants, no bound |
| `instance_files` | `InstanceFiles` | `TypeOK`, `ConfigStandsForInstance`, `ReportedInstanceLasts`, `ActiveIsDelivered`, `OnlyAuthorChanges` | 2 installers, 2 enrollers, 1 target, no bound |
| `http_server` | `MCHttpServer` | `TypeOK`, `WorkWithinSlots`, `CleanupsApart`, `CleanupNotMissed`, `RequestsEnd`, `ShutdownEnds` | 3 connections, 2 slots, 2 threads, clock 0..1 |
| `backup_retry` | `BackupDirectory` | `InterruptedIsReconciled`, expected to fail | see section 6 |
| `zero_grace` | `MCLedger` | `ZeroGraceEndsLeak`, expected to fail | see section 6 |

What they say:

* `AtMostOneWitness`: no proof is accepted by two decisions, with retries,
  deletions, revocations, crashes, restores and clock changes in between.
* `PromiseKept`: every answer that leaves the system is true of the one life of
  its proof. It is the refinement `Ledger => OneTimeProof`. `life` and `witness`
  come from the histories, `told` from the answers that left. An answer that
  was lost is no statement; its retry is.
* `ReceiptHonoured`: each verdict agrees with the receipt of the proof. It is
  `expired` only from the receipt's second on, `invalid` for its own client only
  after the retention, `already_consumed` only after an acceptance. Where the
  clock may be set back, a proof may be forgotten early or be accepted in a second
  before its issue; everything else is asked there too.
* `KeyDecisionsApart`: two decisions under one idempotency key are more than the
  retention apart, with cleanups that run late.
* `QuotaRespected`, `WindowRespected`, `RetryExact`: no window of the past is
  overfull, not even over a restore that empties the table, and the advice of
  a refusal is exact.
* `SchemaNeverTrips`: no sequence of operations meets a foreign key or a
  unique index, that of the idempotency keys included. A trip in `cleanup` would
  come back each time it is tried.
* `GraceKept`, `AuthorityNeverReturns`: a demoted credential works to the end of
  its grace; what has stopped working never works again, in a credential's
  case as long as the clock does not run backwards in the step. A cleanup may have
  read a clock that was then set back by `StepBack`, so the last `StepBack` seconds of
  a grace are not promised.
* `NoOrphan`: every row's key is in the keyring, whatever power losses, failed
  syncs and kills, until a keyring in use is taken back. `ServerCanAnswer`: and in
  the memory of the server that runs; a server that would lack one does not come
  up. `BackupComplete`: and in the keyring of every published backup, under the
  same condition. `CommandsEnd`: every command ends.
* `PublishedIsWhole`: wherever a manifest can be seen, after any interruption and
  power loss, both members are whole and no journal waits to be rolled back.
* `BackedUpStays`: a reported backup survives power losses and later commands.
* `ForeignKept`: no file but the command's own is ever removed.
* `PublishedAtOnce`: the refinement `BackupDirectory => AtomicBackup`. A backup is
  never seen half and, once reported, neither replaced nor lost.
* `StoredResultsReadable`: whatever a verification stores, the strict reader gives
  back to a retry.
* `ConfigStandsForInstance`: where a configuration can be seen, keyring and
  database are whole and of the same `init`. `ReportedInstanceLasts`: what an `init`
  that reported success has made is neither lost nor replaced, whatever other
  commands do and wherever they fail; only the configuration, whose entry is not
  synced, may be missing after a power loss (see section 6).
* `OnlyAuthorChanges`: no command changes or removes the file of another, whoever
  wins the race. `ActiveIsDelivered`: a credential that is committed has its file,
  and no power loss takes it, until the operator does.
* `WorkWithinSlots`: the calls of the API in queue and threads, and the requests
  with a slot, agree with `_active_api_requests`, so the limit bounds the work.
* `CleanupsApart`: between two cleanups lies the interval. `CleanupNotMissed`: a call
  that finds one due goes on without it only while another thread is at it, and
  only a cleanup that was run puts off the next, also after one that failed.
* `RequestsEnd`: every request in progress ends. `ShutdownEnds`: a server that was
  told to stop lets go of the instance lock.

Bounds and why they are enough. All ledger runs but one begin after `client
create` (`WarmInit`), so that the bounds are spent on what follows;
`ledger_credentials` and `zero_grace` begin from the empty database. One client
is enough for the properties checked there: the rows of two clients meet only in
`rate_events`, where `rate_window` has two meters, and in the lookup of a proof by
another client, which the proofs cover. The times are scaled: window 1 to 3
for 60 s, retention 1, time to live 1, grace 2, so that each of them ends inside
the clock's range with a second to spare. Windows of more than one second are
the business of `rate_window` and of its proofs; `ledger_retention` asks what a
restore does to them. Three requests are an
issue, a verification and a competitor; two acceptances need no more. Two
processes that run any number of commands give every pair of lock holders and
every order of rotation, retirement, enrolment and restart; two keys are one
before and one after a rotation, and retired keys are not drawn again, so
longer histories repeat these. `key_locks` asks who waits for whom, so it has three
processes and the commands that differ in the locks they take: `client create`
the file lock only, `key rotate` and `key retire` the instance lock first. `db
backup` takes the same lock as `client create` and then goes a fixed number of steps
under it; `serve` holds the instance lock for life and never waits.

`instance_files` has two of each kind of process, each runs once: a race needs
two, and a third finds what the second found. `http_server` has more
connections than slots and as many slots as threads, so that the queue fills,
a probe waits behind two calls and a request is refused; the threads repeat for
ever. Its interval is one second and its clock stops at the first, which is
when a cleanup falls due and two calls race for it; with two seconds, and so
two cleanups in one life of the process, the invariants hold too (232 000
states, without the liveness properties that make the run long).

Requests are interchangeable and so are keys,
processes and, from the empty database, credentials: they are symmetry sets,
except in the runs with liveness. `CHECK_DEADLOCK` is off where the clock's bound
or the finite supply of requests or commands ends a behaviour. `key_lifecycle`,
`key_locks`, `backup_directory` and `http_server` check deadlock.

Fairness. `CommandsEnd` needs that a running process is scheduled (`WF`
of what it does next) and that the kernel wakes the waiters of `flock` (`SF` of taking
the lock, as others may take it again and again). Nobody has to start a command
or stop a server. `RequestsEnd` and `ShutdownEnds` need that timers expire and
the loop is scheduled (`WF` of `LoopStep`), that each thread is (`WF` of
`ThreadStep`), that a thread that waits for `_key_lock` gets it if it is free again
and again (`SF`), and that a loop that is closing ends (`WF`; its graceful timeout
is given to uvicorn, http.py 354-367). `GiveUp` is not fair, as Python 3.11 has none:
`ShutdownEnds` holds because the threads end. Nothing is assumed of clients: no body
has to come and no answer to be asked for, and no signal has to be sent. The
other properties are safety properties and assume none.

## 4. What is proved

For every value of the constants that satisfies the modules' assumptions, so
for any number of clients, requests, processes, files, keys and slots, and any
retention, lifetime, window, limit, lag and interval. Every safety property and
both refinements that the passing runs check are proved.

The assumptions are of two kinds. Some say what the code's configuration says: a
window, an interval and the limits are at least one, times are natural numbers. The
others say that names mean what they say: the value "absent" is no identity, no
row and no set of claims (`NoneAssumption`, `RowAssumption`, `ClaimsAssumption`), and
no proof is also a client (`NameAssumption`). TLC evaluates each of them in the runs.
One fact is the assumption of two theorems, `DecisionsApart` and `QuotasRespected`:
`StepBack = 0`, the host clock is not set back. Both properties are about distances
in time, and the code measures them with that clock. Every other theorem of the
ledger holds for a clock that is set back, too. In `RateWindow` and `HttpServer` the
clock only moves forward.

**`RateWindowProofs`**: `TypeCorrect`, `WindowsRespected`, `AdviceExact`. The invariant
says that a row of the past that still counts is still in the table (deletions,
however late, take only what no longer counts) and that a refusal's advice is the
second in which the oldest row ends. The cardinality of a window then follows
from the admission test at its last event.

**`LedgerProofs`**: `TypeCorrect`, `OneWitness` and `Implements`. `AtMostOneWitness` is not
inductive: nothing in it speaks of a restored row that says "not consumed". The
strengthening adds `Spent` (an accepted proof whose row looks unconsumed belongs
to a sealed ledger or to a client that is no longer active), `BackupSealed` (so a
restore seals), `Drawn` and `AcceptedDrawn` (identities are never drawn twice, so no
new client serves an old row) and `Identified` (what a handler at its transaction
holds). There is one lemma per group of actions that can disturb it. `Judge` is
the heart: a verdict `verified_once` needs an active client in an unsealed ledger
and an unconsumed row, so by `Spent` the proof was never accepted. The clock plays
no part in the argument.

For the refinement, `Backed` says that whatever a row of the ledger, or of its
backup, says of an acceptance has happened; without it a restore could bring back a
row that answers `already_consumed` for nothing. `Truthful` says the same of an answer
that is on its way. Each step then maps: an issue to `Issue`, a decision
`verified_once` to `Accept` (by `OneWitness` of a proof that nobody had accepted),
`Reply` to the abstract answer, and all others, restores among them, to a stutter.

**`LedgerRowsProofs`**: `ResultsReadable`, `AuthorityStaysGone` and `GraceLasts`. `Firm`
is asked of the ledger and of its backup, as a restore makes one the other: foreign keys hold (`Referenced`), an active client has
one current credential per role (`Staffed`), a credential that is no longer current has
an end (`Dated`), and only the proofs of revoked clients are cut short (`Lasting`, by
which claims end after they begin). `Prepared` carries the validated lifetime
from `CheckPolicy` to the transaction. For authority, every action that activates a
client or credential takes it from outside `names`. For the grace, a cleanup reads
a clock that is at most `StepBack` ahead of the present one (`Sampled`).

**`LedgerRetentionProofs`**: `ConstraintsHold`, `ReceiptsHonoured` and, with `StepBack = 0`,
`DecisionsApart` and `QuotasRespected`. Their common difficulty is that rows disappear:
by cleanups of any lag and, many at once, by a restore. Each invariant therefore
speaks of clients that are still served. Two need no clock:

* `FInv` has `Filed` and `Spoken`: one row on file per client and key, which is the
  unique index, under the request that decided and has nothing left to decide. The
  same holds of the backup.
* `HInv` has `AllKept`: the row of a proof says of client and binding what its receipt
  says, in the backup too. While its client is served, it ends when the receipt ends
  and, unless the clock is set back, goes only after the retention. `Consistent`:
  every decision on file is right by every receipt, so that a replay of it is right.

The other two need one that is not set back:

* `Accounted`: while a client may still be told a decision (`Live`), each decision it
  was told is on file (`Recorded`) or older than the retention and older, by more than
  it, than any now on file under the key (`Outlived`).
* `AllOnFile`: while a client is served, each slot it took that still counts has its row.
  The slots of its window inject into what the transaction counts, and the
  transaction admits only below the limit.

**`KeyLifecycleProofs`**: `TypeCorrect`, `NothingOrphaned`, `ServerAlwaysCan`,
`BackupsComplete` and `SyncedKeysStay`. `Locked` says which process holds which lock at
which step, and that a keyring read under a lock is the one in the file. `Learnt` says
that what a retirement found out about its key, a server about all rows or a
backup copied still holds: the file lock keeps enrolment away, the instance lock the
server. Its clause for the step between `os.replace` and the `fsync` is what a power
loss needs there: the old keyring still has all keys, for nobody else could
commit a row. `SyncedKeysStay` says when `takenBack` stays FALSE: in the behaviours in
which no command ends between `os.replace` and its `fsync`, no keyring is taken back
and every row has its key, by any number of power losses. Its invariant `SInv`
bounds `settled` by the file and the memory of the one process that syncs.

**`HttpServerProofs`**: `TypeCorrect`, `WorkStaysWithinSlots`, `CleanupsStayApart`,
`CleanupIsNotMissed`. `Calls` pairs each queued or running call with one waiting request
in the slot it needs, or with nobody when the request was cancelled. `Counted`
says that the counter is the number of slots held, `Down` what is over in each phase
of the shutdown, and `Clean` that only the holder of `_maintenance_lock` cleans, that
it does nothing else, and that what its second look found stays true until it sets
the next time.

**`InstanceFilesProofs`**: `TypeCorrect`, `ConfigStands`, `InstanceLasts`,
`ActiveStaysDelivered`, `FilesBelongToAuthors`. `Owned`, `Made`, `Built` and `Dropped` say how
far an `init` has come or been undone and that every member is of the process
that made the directory; `Built` includes what no power loss can take back.
`Named` and `Delivered` say the same of a credential file and of the command
that commits over it.

**`BackupDirectoryProofs`**: `TypeCorrect`, `PublishedWhole`, `BackupsStay`,
`ForeignFilesStay` and `BackupIsAtomic`, the refinement. The module has no constants
and TLC visits every state; the proofs say why it holds. The invariant `DInv` speaks
of every state a power loss may leave, not only of the one that is seen. `Progress`
gives, for each step, the members that are done there, on disk too once they are
synced. `Unpublished`: no manifest exists before its step. `AllWhole`: every directory
with a manifest has whole members, whatever survives. `Apart` is the one that a
retry needs: while a power loss could bring back a published directory in place of
the unpublished one that is seen, the latter has no members, so that nothing done
to them reaches the former. `Reported` is `BackedUpStays` on disk.

Only model-checked: `CommandsEnd`, `RequestsEnd` and `ShutdownEnds`. Liveness under
fairness is out of the prover's reach. What becomes of the distance between two
decisions and of the limits when the clock is set back is neither checked nor
proved: the code makes no promise about it.

## 5. What is not modelled

* The inside of a transaction: rollback journal, SQLite's locks and pragmas. A
  transaction commits as a whole or not at all.
* Schema creation and its check, integrity check, status and inspect reports.
* Two `db backup` commands on one output directory. Nothing in the code keeps
  them apart: the second may clear what the first has just published.
* JSON as text: canonical encoding, duplicate keys, formats of identifiers.
* The parsing of headers and bodies: a request is accepted or refused.
* Temporary files that a kill leaves beside a credential file or a keyring.
* Digests: no two secrets or proofs collide, as with 256 random bits.
* Configuration and file permissions, container, release scripts: no state that
  the properties depend on.

## 6. Findings

`docs/OPERATIONS.md:147` advises: "For one leaked role, rotate that role with zero
grace." `rotate_credential` demotes the current credential only (store.py
777-784). A credential of that role which an earlier rotation demoted with a
longer grace stays accepted to the end of that grace. The run `zero_grace`
shows it: a rotation with grace 2, then one with grace 0, and the first
credential still works. Revoking the client is the only command that ends it.

`README.md:169` says: "The manifest is published last; an interrupted directory is
reconciled on retry." The first half holds (`PublishedIsWhole`), the second not
always. The run `backup_retry` kills the command while SQLite copies: the
rollback journal `onceproof.sqlite3-journal` stays, is none of the names that
`_prepare_backup_directory` allows (cli.py 290-315), and every later attempt ends
with `incomplete_backup_not_reconcilable`. There is a second way: a retry that
is killed while it clears the directory may have removed the marker first,
since it unlinks in the order of the listing (cli.py 316-319); the members left
without a marker are refused too. Both are safe, nothing is lost that was
published; an operator has to remove the directory by hand.

Two observations without a run of their own; `InstanceFiles` has the steps that lead
there.

`config.py:47` calls `init` "an all-or-nothing local initialization". The handler that
undoes a failed one covers lines 160 to 167 only. Setting the mode of the new
directory comes before (156): if that is refused, as a file system without modes
may, or the operator interrupts there, `init` ends with an error and leaves the
directory: `Mkdir`, then `FailInit`. There is a second way, through the handler:
a client command that has found the finished files creates `.keyring.json.lock` beside
them (keyring.py 145-147), and if `init` is interrupted before it returns, its handler
removes the files and its `rmdir` (173) is refused. Nothing of the leftover passes
for an instance (`ConfigStandsForInstance`), but every later `init` of that directory
ends with `instance_exists`; an operator has to remove it by hand.

`initialize_instance` syncs the directory after
the keyring and, through SQLite, with the database, but not after the
configuration, which it writes last (config.py 160-166). In `InstanceFiles` a power
loss after a reported `init`, or a kill inside it, may leave keyring and database
without a configuration. A later `init` then ends with `instance_exists`, and the
container's entry point, which runs `init` whenever there is no configuration,
does so at each start. `ReportedInstanceLasts` therefore allows it. Nothing passes
for an instance that is none (`ConfigStandsForInstance`), so this is an
inconvenience; no document promises
that `init` survives a power loss.

## 7. Plan

Done: every module of section 2, and proofs of every safety property and
refinement that a passing run checks.

What would come next, in this order:

1. `WriteTransaction`: `Store._write` step by step with a rollback journal, busy
   waits and crashes, shown to implement the atomic step that `Ledger` takes.
2. Two commands in one backup directory, once the code decides what it promises
   there.
3. Schema creation and the check of an existing database (`_create_schema`, store.py 206, and its caller at 439), with
   two processes that open an empty file at once.
4. The rate limit after the clock was set back: how long a client may have to
   wait when rows lie in the future.

## 8. Running it

    tlc -workers 2 -config ledger_replay.cfg MCLedger.tla
    tlapm LedgerProofs.tla

Each run ends within three and a half minutes on two cores. The proof modules are
`RateWindowProofs`, `LedgerProofs`, `LedgerRowsProofs`, `LedgerRetentionProofs`,
`KeyLifecycleProofs`, `HttpServerProofs`, `InstanceFilesProofs` and
`BackupDirectoryProofs`, together more than 8000 obligations. Each of the three of the
ledger extends the one before it and can be checked alone.
