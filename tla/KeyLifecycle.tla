----------------------------- MODULE KeyLifecycle -----------------------------
(***************************************************************************)
(* The root keyring and the processes that share it with the ledger:       *)
(* keyring.py, locking.py and the commands of cli.py.                      *)
(*                                                                         *)
(* A row of the tables credentials and proofs can only be recognised with  *)
(* the key it was digested under, named by its hash_kid, and keys live in  *)
(* a file of their own, so a row and its key are never changed by one      *)
(* transaction.  What keeps them together is two host locks: the instance  *)
(* lock, which a server holds for life and which the commands that change  *)
(* the keyring refuse to wait for, and the lock of the keyring file.       *)
(*                                                                         *)
(* A table is the set of the kids its rows depend on; which rows a cleanup *)
(* finds due, and everything else about them, is Ledger's.  The table      *)
(* hash_keys only ever grows with those rows and is left out.  A kid       *)
(* stands for its random key and is fresh when drawn.                      *)
(***************************************************************************)
EXTENDS FiniteSets

CONSTANTS
    Kid,            \* key identifiers that may be drawn
    Process,        \* processes of the host; one is reused when it ends
    Commands,       \* the commands that are run
    None

ASSUME NoneAssumption == None \notin Process \cup Kid

VARIABLES
    keyring,        \* the content of keyring.json
    settled,        \* the contents that a power loss may leave
    drawn,          \* history: the kids drawn so far
    credentials, proofs,    \* the kids that rows of these tables depend on
    sealed,         \* restore_required
    takenBack,      \* history: a keyring that others could use was lost
    backup,         \* the last published backup directory, or None
    instance,       \* the owner of the instance lock, or None
    fileLock,       \* the owner of the keyring file's lock, or None
    procs           \* procs[p]: the command p runs and how far it is

vars == <<keyring, settled, drawn, credentials, proofs, sealed, takenBack,
          backup, instance, fileLock, procs>>
rows == <<credentials, proofs, sealed>>
files == <<keyring, settled, drawn, takenBack, backup>>

KeyRing == {k \in [current : Kid, keys : SUBSET Kid] : k.current \in k.keys}

Snapshot == [credentials : SUBSET Kid, proofs : SUBSET Kid]
Backup == [credentials : SUBSET Kid, proofs : SUBSET Kid, keyring : KeyRing]

Command == {"serve", "enroll", "rotate", "retire", "backup"}
ASSUME CommandsAssumption == Commands \subseteq Command

ProcessState ==
    [command : Command \cup {None},
     step : {"idle", "own", "load", "ready", "up", "lock", "commit", "credentials",
             "proofs", "replace", "sync", "snapshot", "copy", "publish"},
     ring : KeyRing \cup {None},        \* the keyring in its memory
     target : Kid \cup {None},          \* of a retirement
     seen : BOOLEAN,                    \* a credential needs the target
     copy : Snapshot \cup {None}]       \* the database member written

Idle ==
    [command |-> None, step |-> "idle", ring |-> None, target |-> None,
     seen |-> FALSE, copy |-> None]

TypeOK ==
    /\ keyring \in settled /\ settled \in SUBSET KeyRing
    /\ drawn \in SUBSET Kid
    /\ credentials \in SUBSET Kid /\ proofs \in SUBSET Kid
    /\ sealed \in BOOLEAN /\ takenBack \in BOOLEAN
    /\ backup \in Backup \cup {None}
    /\ instance \in Process \cup {None} /\ fileLock \in Process \cup {None}
    /\ procs \in [Process -> ProcessState]

\* initialize_instance: a keyring of one key and an empty database.
Init ==
    /\ \E k \in Kid : keyring = [current |-> k, keys |-> {k}] /\ drawn = {k}
    /\ settled = {keyring}
    /\ credentials = {} /\ proofs = {} /\ sealed = FALSE /\ takenBack = FALSE
    /\ backup = None
    /\ instance = None /\ fileLock = None
    /\ procs = [p \in Process |-> Idle]

At(p, step) == procs[p].step = step
Goto(p, step) == procs' = [procs EXCEPT ![p].step = step]

\* Faulty form, for the mutant runs: the lock is not released.
StillHeld(lock, p) == lock

Released(lock, p) == IF lock = p THEN None ELSE lock

\* The process ends, in good order or not: both locks go with it.
End(p) ==
    /\ procs' = [procs EXCEPT ![p] = Idle]
    /\ instance' = Released(instance, p)
    /\ fileLock' = Released(fileLock, p)

-----------------------------------------------------------------------------
(* What every command begins with *)

\* Faulty form, for the mutant runs: "key rotate" runs beside a server.
OwnsUnlessRotate(command) == command \in {"serve", "retire"}

OwnsInstance(command) == command \in {"serve", "rotate", "retire"}

Start(p, command) ==
    /\ At(p, "idle")
    /\ command \in Commands
    /\ \E target \in IF command = "retire" THEN drawn ELSE {None} :
         procs' = [procs EXCEPT ![p] = [Idle EXCEPT
             !.command = command,
             !.step = IF OwnsInstance(command) THEN "own" ELSE "load",
             !.target = target]]
    /\ UNCHANGED <<rows, files, instance, fileLock>>

\* instance_lock never waits: instance_busy ends the command.
Own(p) ==
    /\ At(p, "own")
    /\ \/ instance = None /\ instance' = p /\ Goto(p, "load") /\ UNCHANGED fileLock
       \/ instance # None /\ End(p)
    /\ UNCHANGED <<rows, files>>

\* KeyRing.load
Load(p) ==
    /\ At(p, "load")
    /\ procs' = [procs EXCEPT ![p].ring = keyring,
           ![p].step = IF procs[p].command = "serve" THEN "ready" ELSE "lock"]
    /\ UNCHANGED <<rows, files, instance, fileLock>>

\* Faulty form, for the mutant runs: a backup does not wait.
FreeForBackup(p) == fileLock = None \/ procs[p].command = "backup"

FileLockFree(p) == fileLock = None

\* Faulty form, for the mutant runs: the current key may be retired.
AnyRetirable(ring, kid) == kid \in ring.keys

Retirable(ring, kid) == kid # ring.current /\ kid \in ring.keys

FirstStep(command) ==
    CASE command = "enroll" -> "commit"
      [] command = "rotate" -> "replace"
      [] command = "retire" -> "credentials"
      [] command = "backup" -> "snapshot"

\* _exclusive_file_lock waits; the file must still be what was loaded.
Lock(p) ==
    LET q == procs[p]
        goesOn == /\ keyring = q.ring
                  /\ q.command = "retire" => Retirable(q.ring, q.target)
                  /\ q.command = "rotate" => drawn # Kid   \* the model's bound
    IN  /\ At(p, "lock")
        /\ FileLockFree(p)
        /\ \/ goesOn /\ fileLock' = p /\ Goto(p, FirstStep(q.command))
              /\ UNCHANGED instance
           \/ ~goesOn /\ End(p)
        /\ UNCHANGED <<rows, files>>

-----------------------------------------------------------------------------
(* client create and client rotate: a row under the current key *)

CommitCredential(p) ==
    /\ At(p, "commit")
    /\ credentials' = IF sealed THEN credentials
                      ELSE credentials \cup {procs[p].ring.current}
    /\ End(p)
    /\ UNCHANGED <<proofs, sealed, files>>

-----------------------------------------------------------------------------
(* key rotate and key retire *)

\* hash_key_is_in_use reads the two tables in two snapshots.
ReadCredentials(p) ==
    /\ At(p, "credentials")
    /\ procs' = [procs EXCEPT ![p].step = "proofs",
                              ![p].seen = procs[p].target \in credentials]
    /\ UNCHANGED <<rows, files, instance, fileLock>>

\* Faulty form, for the mutant runs: retained proofs are forgotten.
InUseByCredential(seen, kid) == seen

InUse(seen, kid) == seen \/ kid \in proofs

ReadProofs(p) ==
    /\ At(p, "proofs")
    /\ \/ InUse(procs[p].seen, procs[p].target) /\ End(p)  \* key_still_in_use
       \/ /\ ~InUse(procs[p].seen, procs[p].target)
          /\ Goto(p, "replace")
          /\ UNCHANGED <<instance, fileLock>>
    /\ UNCHANGED <<rows, files>>

\* os.replace, which a power loss may undo until file and directory are synced
Replace(p) ==
    LET ring == procs[p].ring IN
    /\ At(p, "replace")
    /\ \/ /\ procs[p].command = "rotate"
          /\ \E new \in Kid \ drawn :
               /\ keyring' = [current |-> new, keys |-> ring.keys \cup {new}]
               /\ drawn' = drawn \cup {new}
       \/ /\ procs[p].command = "retire"
          /\ keyring' = [ring EXCEPT !.keys = @ \ {procs[p].target}]
          /\ UNCHANGED drawn
    /\ settled' = settled \cup {keyring'}
    /\ Goto(p, "sync")
    /\ UNCHANGED <<rows, takenBack, backup, instance, fileLock>>

\* Where an fsync fails (KeyringCommitUncertain), the command stops instead.
Sync(p) ==
    /\ At(p, "sync")
    /\ settled' = {keyring}
    /\ End(p)
    /\ UNCHANGED <<rows, keyring, drawn, takenBack, backup>>

-----------------------------------------------------------------------------
(* db backup *)

CopyDatabase(p) ==
    /\ At(p, "snapshot")
    /\ procs' = [procs EXCEPT ![p].step = "copy",
           ![p].copy = [credentials |-> credentials, proofs |-> proofs]]
    /\ UNCHANGED <<rows, files, instance, fileLock>>

\* The keyring read under the lock is written, then the lock is released.
CopyKeyring(p) ==
    /\ At(p, "copy")
    /\ Goto(p, "publish")
    /\ fileLock' = Released(fileLock, p)
    /\ UNCHANGED <<rows, files, instance>>

\* The manifest: without it a directory is no backup.
Publish(p) ==
    /\ At(p, "publish")
    /\ backup' = [credentials |-> procs[p].copy.credentials,
                  proofs |-> procs[p].copy.proofs, keyring |-> procs[p].ring]
    /\ End(p)
    /\ UNCHANGED <<rows, keyring, settled, drawn, takenBack>>

-----------------------------------------------------------------------------
(* serve *)

Ready(p) ==
    LET ready == ~sealed /\ credentials \cup proofs \subseteq procs[p].ring.keys
    IN  /\ At(p, "ready")
        /\ \/ ready /\ Goto(p, "up") /\ UNCHANGED <<instance, fileLock>>
           \/ ~ready /\ End(p)
        /\ UNCHANGED <<rows, files>>

\* The server digests under the current key of its memory.
IssueProof(p) ==
    /\ At(p, "up")
    /\ ~sealed
    /\ credentials \cap procs[p].ring.keys # {}
    /\ proofs' = proofs \cup {procs[p].ring.current}
    /\ UNCHANGED <<credentials, sealed, files, instance, fileLock, procs>>

-----------------------------------------------------------------------------
(* Cleanup, restore and the host *)

Cleanup ==
    /\ proofs' \in SUBSET proofs
    /\ credentials' \in SUBSET credentials
    /\ UNCHANGED <<sealed, files, instance, fileLock, procs>>

\* The operator stops everything and copies both members back.
Restore ==
    /\ backup # None
    /\ \A p \in Process : At(p, "idle")
    /\ credentials' = backup.credentials /\ proofs' = backup.proofs
    /\ keyring' = backup.keyring /\ settled' = {backup.keyring}
    /\ sealed' = TRUE
    /\ UNCHANGED <<drawn, takenBack, backup, instance, fileLock, procs>>

ActivateRestore ==
    /\ sealed
    /\ instance = None
    /\ sealed' = FALSE
    /\ UNCHANGED <<credentials, proofs, files, instance, fileLock, procs>>

\* A process is killed, fails or, being a server, is stopped.
Stop(p) ==
    /\ ~At(p, "idle")
    /\ End(p)
    /\ UNCHANGED <<rows, files>>

\* Only the command that syncs a replacement has seen it, as long as its lock
\* is not let go.
Unseen(ring) ==
    ring = keyring \/ \E p \in Process : At(p, "sync") /\ procs[p].ring = ring

PowerLoss ==
    /\ keyring' \in settled
    /\ settled' = {keyring'}
    /\ takenBack' = (takenBack \/ ~Unseen(keyring'))
    /\ instance' = None /\ fileLock' = None
    /\ procs' = [p \in Process |-> Idle]
    /\ UNCHANGED <<rows, drawn, backup>>

-----------------------------------------------------------------------------

\* What a running process does next, the wait for the file lock apart.
Proceed(p) ==
    \/ Own(p) \/ Load(p)
    \/ CommitCredential(p)
    \/ ReadCredentials(p) \/ ReadProofs(p) \/ Replace(p) \/ Sync(p)
    \/ CopyDatabase(p) \/ CopyKeyring(p) \/ Publish(p)
    \/ Ready(p)

Next ==
    \/ \E p \in Process :
         \/ \E command \in Command : Start(p, command)
         \/ Proceed(p) \/ Lock(p) \/ IssueProof(p) \/ Stop(p)
    \/ Cleanup \/ Restore \/ ActivateRestore \/ PowerLoss

Spec == Init /\ [][Next]_vars

(***************************************************************************)
(* A running process is scheduled, and the kernel hands the file lock to a *)
(* process that waits for it each time others let go of it for ever: flock *)
(* wakes its waiters.  Nobody has to start a command, stop a server or     *)
(* send it a request.                                                      *)
(***************************************************************************)
FairSpec ==
    Spec /\ \A p \in Process : WF_vars(Proceed(p)) /\ SF_vars(Lock(p))
-----------------------------------------------------------------------------
(* No row is orphaned: the keyring on disk holds the key of every           *)
(* credential and every retained proof, whatever rotations, retirements,    *)
(* enrolments, cleanups, restores and power losses lie between              *)
(* (keyring.py 226-280, store.py 904-914), unless a power loss took back a  *)
(* keyring whose command had ended before its fsync (keyring.py 102-106).   *)
NoOrphan == takenBack \/ credentials \cup proofs \subseteq keyring.keys

(* A running server never meets a row it has no key for and never digests   *)
(* under a key that is not current: its memory is the file, although it     *)
(* reads the file only once. After a keyring was taken back, an instance    *)
(* with orphaned rows does not come up (cli.py 127-137, 225-238).           *)
ServerCanAnswer ==
    \A p \in Process : At(p, "up") =>
        /\ procs[p].ring = keyring
        /\ credentials \cup proofs \subseteq procs[p].ring.keys

(* The two members of a published backup belong together, although the      *)
(* server and the commands go on while they are written one after the       *)
(* other (keyring.py 282-306, cli.py 400-428).                              *)
BackupComplete ==
    backup # None /\ ~takenBack =>
        backup.credentials \cup backup.proofs \subseteq backup.keyring.keys

(* Every command ends: no order of the two host locks makes processes wait  *)
(* for one another for ever (locking.py 19-52, keyring.py 144-170).         *)
CommandsEnd ==
    \A p \in Process :
        procs[p].command \in Command \ {"serve"} ~> procs[p].command = None
=============================================================================
