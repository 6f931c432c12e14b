------------------------- MODULE KeyLifecycleProofs -------------------------
(***************************************************************************)
(* Rows and their keys stay together, for any number of keys, processes    *)
(* and commands: what the two host locks are for.  The argument is which   *)
(* process holds which lock at which step, and that under a lock the       *)
(* keyring in memory is the one in the file.                               *)
(***************************************************************************)
EXTENDS KeyLifecycle, TLAPS

-----------------------------------------------------------------------------
(* The inductive invariant *)

Holding == {"commit", "credentials", "proofs", "replace", "sync", "snapshot", "copy"}

\* A step is one of the process's command.
OnItsWay(q) ==
    /\ q.step # "idle" => q.command \in Command
    /\ q.step = "lock" => q.command # "serve"
    /\ q.step \in {"ready", "up"} => q.command = "serve"
    /\ q.step = "commit" => q.command = "enroll"
    /\ q.step \in {"credentials", "proofs"} => q.command = "retire"
    /\ q.step \in {"replace", "sync"} => q.command \in {"rotate", "retire"}
    /\ q.step \in {"snapshot", "copy", "publish"} => q.command = "backup"
    /\ q.step \notin {"idle", "own", "load"} => q.ring \in KeyRing
    /\ q.command = "retire" /\ q.step \in {"credentials", "proofs", "replace"} =>
           Retirable(q.ring, q.target)
    /\ q.step \in {"copy", "publish"} => q.copy \in Snapshot

Typed == TypeOK /\ \A p \in Process : OnItsWay(procs[p])

\* Who is past "own" or under the file lock has the lock, and a keyring read
\* under a lock is the one in the file.
Locked(p) ==
    /\ procs[p].step \notin {"idle", "own"} /\ OwnsInstance(procs[p].command) =>
           instance = p
    /\ procs[p].step \in Holding => fileLock = p
    /\ procs[p].step \in (Holding \ {"sync"}) \cup {"ready", "up"} =>
           procs[p].ring = keyring

\* What a retirement has found out about its key, a server about all rows and
\* a backup copied still holds, and a keyring replaced but not yet synced
\* would do as well as the new one.
Learnt(p) ==
    LET q == procs[p]
    IN  /\ q.step = "proofs" /\ ~q.seen => q.target \notin credentials
        /\ q.command = "retire" /\ q.step = "replace" =>
               q.target \notin credentials \cup proofs
        /\ q.step = "up" => credentials \cup proofs \subseteq q.ring.keys
        /\ q.step = "sync" /\ ~takenBack =>
               credentials \cup proofs \subseteq q.ring.keys
        /\ q.step \in {"copy", "publish"} /\ ~takenBack =>
               q.copy.credentials \cup q.copy.proofs \subseteq q.ring.keys

IInv ==
    /\ Typed
    /\ \A p \in Process : Locked(p) /\ Learnt(p)
    /\ NoOrphan /\ BackupComplete

-----------------------------------------------------------------------------
(* Types *)

LEMMA IdleTyped == Idle \in ProcessState /\ OnItsWay(Idle)
BY DEF Idle, ProcessState, OnItsWay

(* A process whose record is replaced by a typed one.                      *)
LEMMA OneProcTyped ==
    ASSUME Typed, NEW p \in Process, NEW q,
           q \in ProcessState, OnItsWay(q),
           procs' = [procs EXCEPT ![p] = q]
    PROVE  /\ procs' \in [Process -> ProcessState]
           /\ \A o \in Process : OnItsWay(procs'[o])
BY DEF Typed, TypeOK

LEMMA EndTyped ==
    ASSUME Typed, NEW p \in Process, End(p)
    PROVE  /\ procs' \in [Process -> ProcessState]
           /\ \A o \in Process : OnItsWay(procs'[o])
           /\ instance' \in Process \cup {None} /\ fileLock' \in Process \cup {None}
BY IdleTyped, OneProcTyped DEF End, Released, Typed, TypeOK

LEMMA InitTyped == Init => Typed
<1> SUFFICES ASSUME Init PROVE Typed
  OBVIOUS
<1>1. keyring \in KeyRing /\ drawn \in SUBSET Kid
  BY DEF Init, KeyRing
<1> QED
  BY <1>1, IdleTyped DEF Init, Typed, TypeOK

(* A step that moves one process on.                                       *)
LEMMA GotoTyped ==
    ASSUME Typed, NEW p \in Process, NEW step, Goto(p, step),
           [procs[p] EXCEPT !.step = step] \in ProcessState,
           OnItsWay([procs[p] EXCEPT !.step = step])
    PROVE  /\ procs' \in [Process -> ProcessState]
           /\ \A o \in Process : OnItsWay(procs'[o])
BY OneProcTyped DEF Goto

LEMMA SeenTyped ==
    ASSUME NEW q \in ProcessState, NEW seen \in BOOLEAN
    PROVE  [q EXCEPT !.step = "proofs", !.seen = seen] \in ProcessState
BY DEF ProcessState

LEMMA ProcStepTyped ==
    ASSUME Typed, NEW p \in Process,
           \/ \E command \in Command : Start(p, command)
           \/ Proceed(p) \/ Lock(p) \/ IssueProof(p) \/ Stop(p)
    PROVE  Typed'
<1>1. procs[p] \in ProcessState /\ OnItsWay(procs[p])
  BY DEF Typed, TypeOK
<1>2. ASSUME NEW command \in Command, Start(p, command)
      PROVE  Typed'
  <2>1. PICK target \in Kid \cup {None} :
           procs' = [procs EXCEPT ![p] = [Idle EXCEPT
             !.command = command,
             !.step = IF OwnsInstance(command) THEN "own" ELSE "load",
             !.target = target]]
    BY <1>2 DEF Start, Typed, TypeOK
  <2>2. [Idle EXCEPT !.command = command,
             !.step = IF OwnsInstance(command) THEN "own" ELSE "load",
             !.target = target] \in ProcessState
    BY DEF Idle, ProcessState
  <2>3. OnItsWay([Idle EXCEPT !.command = command,
             !.step = IF OwnsInstance(command) THEN "own" ELSE "load",
             !.target = target])
    BY DEF Idle, OnItsWay
  <2> QED
    BY <1>2, <2>1, <2>2, <2>3, OneProcTyped DEF Start, rows, files, Typed, TypeOK
<1>3. CASE Own(p)
  <2>1. [procs[p] EXCEPT !.step = "load"] \in ProcessState
    BY <1>1 DEF ProcessState
  <2>2. At(p, "own") => OnItsWay([procs[p] EXCEPT !.step = "load"])
    BY <1>1 DEF At, OnItsWay, ProcessState
  <2> QED
    BY <1>3, <2>1, <2>2, GotoTyped, EndTyped DEF Own, rows, files, Typed, TypeOK
<1>4. CASE Load(p)
  <2> DEFINE q == [procs[p] EXCEPT !.ring = keyring,
                 !.step = IF procs[p].command = "serve" THEN "ready" ELSE "lock"]
  <2>1. keyring \in KeyRing /\ procs[p].step = "load"
    BY <1>4 DEF Load, At, Typed, TypeOK
  <2>2. q \in ProcessState
    BY <1>1, <2>1 DEF ProcessState
  <2>3. OnItsWay(q)
    BY <1>1, <2>1 DEF OnItsWay, ProcessState
  <2>4. procs' = [procs EXCEPT ![p] = q]
    BY <1>4 DEF Load
  <2> HIDE DEF q
  <2> QED
    BY <1>4, <2>2, <2>3, <2>4, OneProcTyped DEF Load, rows, files, Typed, TypeOK
<1>5. CASE Lock(p)
  <2>1. CASE End(p)
    BY <1>5, <2>1, EndTyped DEF Lock, rows, files, Typed, TypeOK
  <2>2. CASE ~End(p)
    <3>1. /\ procs[p].step = "lock" /\ fileLock' = p
          /\ Goto(p, FirstStep(procs[p].command))
          /\ instance' = instance
      BY <1>5, <2>2 DEF Lock, At
    <3>2. procs[p].command \in Command \ {"serve"}
      BY <1>1, <3>1 DEF OnItsWay
    <3>3. [procs[p] EXCEPT !.step = FirstStep(procs[p].command)] \in ProcessState
      BY <1>1, <3>2 DEF FirstStep, Command, ProcessState
    <3>5. procs[p].command = "retire" => Retirable(procs[p].ring, procs[p].target)
      BY <1>5, <2>2 DEF Lock
    <3>4. OnItsWay([procs[p] EXCEPT !.step = FirstStep(procs[p].command)])
      BY <1>1, <3>1, <3>2, <3>5 DEF FirstStep, Command, ProcessState, OnItsWay
    <3> QED
      BY <1>5, <3>1, <3>3, <3>4, GotoTyped DEF Lock, rows, files, Typed, TypeOK
  <2> QED
    BY <2>1, <2>2
<1>6. CASE CommitCredential(p)
  <2>1. procs[p].ring.current \in Kid
    BY <1>1, <1>6 DEF CommitCredential, At, OnItsWay, KeyRing
  <2> QED
    BY <1>6, <2>1, EndTyped DEF CommitCredential, files, Typed, TypeOK
<1>7. CASE ReadCredentials(p)
  <2> DEFINE q == [procs[p] EXCEPT !.step = "proofs",
                                   !.seen = procs[p].target \in credentials]
  <2>1. q \in ProcessState
    <3>1. (procs[p].target \in credentials) \in BOOLEAN
      OBVIOUS
    <3> QED
      BY <1>1, <3>1, SeenTyped
  <2>2. OnItsWay(q)
    BY <1>1, <1>7 DEF ReadCredentials, At, OnItsWay, ProcessState
  <2>3. procs' = [procs EXCEPT ![p] = q]
    BY <1>7 DEF ReadCredentials
  <2> HIDE DEF q
  <2> QED
    BY <1>7, <2>1, <2>2, <2>3, OneProcTyped DEF ReadCredentials, rows, files, Typed, TypeOK
<1>8. CASE ReadProofs(p)
  <2>1. [procs[p] EXCEPT !.step = "replace"] \in ProcessState
    BY <1>1 DEF ProcessState
  <2>2. OnItsWay([procs[p] EXCEPT !.step = "replace"])
    BY <1>1, <1>8 DEF ReadProofs, At, OnItsWay, ProcessState
  <2> QED
    BY <1>8, <2>1, <2>2, GotoTyped, EndTyped DEF ReadProofs, rows, files, Typed, TypeOK
<1>9. CASE Replace(p)
  <2>1. [procs[p] EXCEPT !.step = "sync"] \in ProcessState
    BY <1>1 DEF ProcessState
  <2>2. OnItsWay([procs[p] EXCEPT !.step = "sync"])
    BY <1>1, <1>9 DEF Replace, At, OnItsWay, ProcessState
  <2>3. procs[p].ring \in KeyRing
    BY <1>1, <1>9 DEF Replace, At, OnItsWay
  <2>4. CASE procs[p].command = "rotate"
    <3>1. PICK new \in Kid \ drawn :
             /\ keyring' = [current |-> new, keys |-> procs[p].ring.keys \cup {new}]
             /\ drawn' = drawn \cup {new}
      BY <1>9, <2>4 DEF Replace
    <3>2. keyring' \in KeyRing
      BY <2>3, <3>1 DEF KeyRing
    <3> QED
      BY <1>9, <2>1, <2>2, <3>1, <3>2, GotoTyped DEF Replace, rows, Typed, TypeOK
  <2>5. CASE procs[p].command = "retire"
    <3>1. keyring' = [procs[p].ring EXCEPT !.keys = @ \ {procs[p].target}] /\ drawn' = drawn
      BY <1>9, <2>5 DEF Replace
    <3>2. Retirable(procs[p].ring, procs[p].target)
      BY <1>1, <1>9, <2>5 DEF Replace, At, OnItsWay
    <3>3. keyring' \in KeyRing
      BY <2>3, <3>1, <3>2 DEF KeyRing, Retirable
    <3> QED
      BY <1>9, <2>1, <2>2, <3>1, <3>3, GotoTyped DEF Replace, rows, Typed, TypeOK
  <2> QED
    BY <1>9, <2>4, <2>5 DEF Replace
<1>10. CASE Sync(p)
  BY <1>10, EndTyped DEF Sync, rows, Typed, TypeOK
<1>11. CASE CopyDatabase(p)
  <2> DEFINE copy == [credentials |-> credentials, proofs |-> proofs]
             q == [procs[p] EXCEPT !.step = "copy", !.copy = copy]
  <2>1. copy \in Snapshot
    BY DEF Typed, TypeOK, Snapshot
  <2> HIDE DEF copy
  <2>2. q \in ProcessState
    BY <1>1, <2>1 DEF ProcessState
  <2>3. OnItsWay(q)
    BY <1>1, <1>11, <2>1 DEF CopyDatabase, At, OnItsWay, ProcessState
  <2>4. procs' = [procs EXCEPT ![p] = q]
    BY <1>11 DEF CopyDatabase, copy
  <2> HIDE DEF q
  <2> QED
    BY <1>11, <2>2, <2>3, <2>4, OneProcTyped DEF CopyDatabase, rows, files, Typed, TypeOK
<1>12. CASE CopyKeyring(p)
  <2>1. [procs[p] EXCEPT !.step = "publish"] \in ProcessState
    BY <1>1 DEF ProcessState
  <2>2. OnItsWay([procs[p] EXCEPT !.step = "publish"])
    BY <1>1, <1>12 DEF CopyKeyring, At, OnItsWay, ProcessState
  <2> QED
    BY <1>12, <2>1, <2>2, GotoTyped DEF CopyKeyring, Released, rows, files, Typed, TypeOK
<1>13. CASE Publish(p)
  <2>1. procs[p].ring \in KeyRing /\ procs[p].copy \in Snapshot
    BY <1>1, <1>13 DEF Publish, At, OnItsWay
  <2>2. backup' \in Backup
    BY <1>13, <2>1 DEF Publish, Snapshot, Backup
  <2> QED
    BY <1>13, <2>2, EndTyped DEF Publish, rows, Typed, TypeOK
<1>14. CASE Ready(p)
  <2>1. [procs[p] EXCEPT !.step = "up"] \in ProcessState
    BY <1>1 DEF ProcessState
  <2>2. At(p, "ready") => OnItsWay([procs[p] EXCEPT !.step = "up"])
    BY <1>1 DEF At, OnItsWay, ProcessState
  <2> QED
    BY <1>14, <2>1, <2>2, GotoTyped, EndTyped DEF Ready, rows, files, Typed, TypeOK
<1>15. CASE IssueProof(p)
  <2>1. procs[p].ring.current \in Kid
    BY <1>1, <1>15 DEF IssueProof, At, OnItsWay, KeyRing
  <2> QED
    BY <1>15, <2>1 DEF IssueProof, files, Typed, TypeOK
<1>16. CASE Stop(p)
  BY <1>16, EndTyped DEF Stop, rows, files, Typed, TypeOK
<1> QED
  BY <1>2, <1>3, <1>4, <1>5, <1>6, <1>7, <1>8, <1>9, <1>10, <1>11, <1>12, <1>13,
     <1>14, <1>15, <1>16 DEF Proceed

LEMMA HostStepTyped ==
    ASSUME Typed, Cleanup \/ Restore \/ ActivateRestore \/ PowerLoss
    PROVE  Typed'
<1>1. CASE Cleanup
  BY <1>1 DEF Cleanup, files, Typed, TypeOK
<1>2. CASE Restore
  BY <1>2 DEF Restore, Typed, TypeOK, Backup
<1>3. CASE ActivateRestore
  BY <1>3 DEF ActivateRestore, files, Typed, TypeOK
<1>4. CASE PowerLoss
  BY <1>4, IdleTyped DEF PowerLoss, rows, Typed, TypeOK
<1> QED
  BY <1>1, <1>2, <1>3, <1>4

LEMMA NextTyped == Typed /\ [Next]_vars => Typed'
<1>1. CASE UNCHANGED vars
  BY <1>1 DEF vars, Typed, TypeOK
<1> QED
  BY <1>1, ProcStepTyped, HostStepTyped DEF Next

(* The files, the tables, the locks and every process keep their types.    *)
THEOREM TypeCorrect == Spec => []TypeOK
<1>1. Typed => TypeOK
  BY DEF Typed
<1> QED
  BY <1>1, InitTyped, NextTyped, PTL DEF Spec

-----------------------------------------------------------------------------
(* The locks and what is known under them *)

LEMMA InitEstablishes == Init => IInv
<1> SUFFICES ASSUME Init PROVE IInv
  OBVIOUS
<1>1. Typed
  BY InitTyped
<1>2. \A p \in Process : Locked(p) /\ Learnt(p)
  BY DEF Init, Idle, Locked, Learnt, Holding
<1>3. NoOrphan /\ BackupComplete
  BY DEF Init, NoOrphan, BackupComplete
<1> QED
  BY <1>1, <1>2, <1>3 DEF IInv

(* A process that ends gives up its locks and nobody else's.               *)
LEMMA EndLocked ==
    ASSUME IInv, NEW p \in Process, End(p), keyring' = keyring
    PROVE  \A o \in Process : Locked(o)'
BY NoneAssumption DEF IInv, Typed, TypeOK, End, Released, Idle, Locked, Holding

(* A step of the process alone, by which it comes to hold no other lock    *)
(* than it has.                                                            *)
LEMMA MoveLocked ==
    ASSUME IInv, NEW p \in Process, NEW q,
           procs' = [procs EXCEPT ![p] = q],
           UNCHANGED <<instance, fileLock, keyring>>,
           q.command = procs[p].command,
           procs[p].step \notin {"idle", "own"},
           q.step \in Holding => procs[p].step \in Holding,
           q.step \in (Holding \ {"sync"}) \cup {"ready", "up"} => q.ring = keyring
    PROVE  \A o \in Process : Locked(o)'
BY DEF IInv, Typed, TypeOK, Locked

LEMMA NoRowsLearnt ==
    ASSUME IInv, NEW p \in Process, NEW q,
           procs' = [procs EXCEPT ![p] = q],
           q.step \notin {"proofs", "replace", "up", "sync", "copy", "publish"},
           UNCHANGED <<credentials, proofs, takenBack>>
    PROVE  \A o \in Process : Learnt(o)'
BY DEF IInv, Typed, TypeOK, Learnt

LEMMA FilesStay ==
    ASSUME IInv, UNCHANGED <<credentials, proofs, keyring, takenBack, backup>>
    PROVE  NoOrphan' /\ BackupComplete'
BY DEF IInv, NoOrphan, BackupComplete

(* Under the file lock, and in a server, the memory is the file.           *)
LEMMA LoadedUnderLock ==
    ASSUME IInv, NEW p \in Process,
           procs[p].step \in (Holding \ {"sync"}) \cup {"ready", "up"}
    PROVE  procs[p].ring = keyring /\ keyring \in KeyRing
BY DEF IInv, Typed, TypeOK, Locked

(* While somebody else has the instance lock, no process is a server, and  *)
(* none but the owner of the file lock is a command at work.               *)
LEMMA OthersOut ==
    ASSUME IInv, NEW p \in Process, NEW o \in Process, o # p
    PROVE  /\ instance = p => procs[o].step \notin {"ready", "up", "sync", "replace"}
           /\ fileLock = p => procs[o].step \notin Holding
BY DEF IInv, Typed, Locked, OnItsWay, OwnsInstance

(* Every step of a process, one by one.                                    *)
LEMMA ProcStepPreserves ==
    ASSUME IInv, NEW p \in Process,
           \/ \E command \in Command : Start(p, command)
           \/ Proceed(p) \/ Lock(p) \/ IssueProof(p) \/ Stop(p)
    PROVE  IInv'
<1>1. Typed /\ Typed' /\ procs \in [Process -> ProcessState]
  BY ProcStepTyped DEF IInv, Typed, TypeOK
<1>2. procs[p] \in ProcessState /\ OnItsWay(procs[p]) /\ Locked(p) /\ Learnt(p)
  BY <1>1 DEF IInv, Typed
<1> SUFFICES /\ \A o \in Process : Locked(o)'
             /\ \A o \in Process : Learnt(o)'
             /\ NoOrphan' /\ BackupComplete'
  BY <1>1 DEF IInv
<1>3. ASSUME End(p)
      PROVE  procs' = [procs EXCEPT ![p] = Idle] /\ Idle.step = "idle"
  BY <1>3 DEF End, Idle
<1>4. ASSUME NEW command \in Command, Start(p, command)
      PROVE  /\ \A o \in Process : Locked(o)'
             /\ \A o \in Process : Learnt(o)'
             /\ NoOrphan' /\ BackupComplete'
  <2>0. PICK target : procs' = [procs EXCEPT ![p] = [Idle EXCEPT
             !.command = command,
             !.step = IF OwnsInstance(command) THEN "own" ELSE "load",
             !.target = target]]
    BY <1>4, Zenon DEF Start
  <2> DEFINE q == [Idle EXCEPT !.command = command,
                      !.step = IF OwnsInstance(command) THEN "own" ELSE "load",
                      !.target = target]
  <2>1. /\ procs' = [procs EXCEPT ![p] = q]
        /\ q.command = command
        /\ q.step = IF OwnsInstance(command) THEN "own" ELSE "load"
    BY <2>0 DEF Idle
  <2> HIDE DEF q
  <2>2. /\ procs[p].step = "idle"
        /\ UNCHANGED <<credentials, proofs, keyring, takenBack, backup, instance, fileLock>>
    BY <1>4 DEF Start, At, rows, files
  <2>3. \A o \in Process : Locked(o)'
    BY <1>1, <2>1, <2>2 DEF IInv, Locked, Holding
  <2> QED
    BY <2>1, <2>2, <2>3, NoRowsLearnt, FilesStay
<1>5. CASE Own(p)
  <2>1. /\ procs[p].step = "own"
        /\ UNCHANGED <<credentials, proofs, keyring, takenBack, backup>>
    BY <1>5 DEF Own, At, rows, files
  <2>2. CASE End(p)
    BY <1>3, <2>1, <2>2, EndLocked, NoRowsLearnt, FilesStay
  <2>3. CASE instance = None /\ instance' = p /\ Goto(p, "load") /\ fileLock' = fileLock
    <3>1. \A o \in Process : Locked(o)'
      BY <1>1, <2>1, <2>3, NoneAssumption DEF IInv, Goto, ProcessState, Locked, Holding
    <3> DEFINE q == [procs[p] EXCEPT !.step = "load"]
    <3>2. procs' = [procs EXCEPT ![p] = q] /\ q.step = "load"
      BY <1>2, <2>3 DEF Goto, ProcessState
    <3> HIDE DEF q
    <3> QED
      BY <2>1, <3>1, <3>2, NoRowsLearnt, FilesStay
  <2> QED
    BY <1>5, <2>2, <2>3 DEF Own
<1>6. CASE Load(p)
  <2> DEFINE q == [procs[p] EXCEPT !.ring = keyring,
                 !.step = IF procs[p].command = "serve" THEN "ready" ELSE "lock"]
  <2>1. /\ procs[p].step = "load"
        /\ UNCHANGED <<credentials, proofs, keyring, takenBack, backup, instance, fileLock>>
    BY <1>6 DEF Load, At, rows, files
  <2>2. /\ procs' = [procs EXCEPT ![p] = q] /\ q.command = procs[p].command
        /\ q.step \in {"ready", "lock"} /\ q.ring = keyring
    BY <1>2, <1>6 DEF Load, ProcessState
  <2> HIDE DEF q
  <2> QED
    BY <2>1, <2>2, MoveLocked, NoRowsLearnt, FilesStay DEF Holding
<1>7. CASE Lock(p)
  <2>1. /\ procs[p].step = "lock" /\ fileLock = None
        /\ UNCHANGED <<credentials, proofs, keyring, takenBack, backup>>
    BY <1>7 DEF Lock, At, FileLockFree, rows, files
  <2>2. CASE End(p)
    BY <1>3, <2>1, <2>2, EndLocked, NoRowsLearnt, FilesStay
  <2>3. CASE ~End(p)
    <3>1. /\ keyring = procs[p].ring /\ fileLock' = p /\ instance' = instance
          /\ Goto(p, FirstStep(procs[p].command))
      BY <1>7, <2>3 DEF Lock
    <3> DEFINE q == [procs[p] EXCEPT !.step = FirstStep(procs[p].command)]
    <3>2. /\ procs' = [procs EXCEPT ![p] = q]
          /\ q.command = procs[p].command /\ q.ring = keyring
          /\ q.step \in {"commit", "replace", "credentials", "snapshot"}
          /\ q.step = "replace" => q.command # "retire"
      BY <1>2, <2>1, <3>1 DEF Goto, FirstStep, Command, ProcessState, OnItsWay
    <3> HIDE DEF q
    <3>3. \A o \in Process : Locked(o)'
      BY <1>1, <2>1, <3>1, <3>2, NoneAssumption DEF IInv, Locked, Holding
    <3>4. \A o \in Process : Learnt(o)'
      BY <1>1, <2>1, <3>2 DEF IInv, Learnt
    <3> QED
      BY <2>1, <3>2, <3>3, <3>4, FilesStay
  <2> QED
    BY <2>2, <2>3
<1>8. CASE CommitCredential(p)
  <2>1. /\ procs[p].step = "commit"
        /\ UNCHANGED <<proofs, keyring, takenBack, backup>>
    BY <1>8 DEF CommitCredential, At, files
  <2>2. /\ procs[p].ring = keyring /\ keyring \in KeyRing
        /\ fileLock = p
    BY <1>2, <2>1, LoadedUnderLock DEF Holding, Locked
  <2>3. credentials' \subseteq credentials \cup {keyring.current}
    BY <1>8, <2>2 DEF CommitCredential
  <2>4. \A o \in Process : Locked(o)'
    BY <1>8, <2>1, EndLocked DEF CommitCredential
  <2>5. \A o \in Process : Learnt(o)'
    <3>1. ASSUME NEW o \in Process, o # p
          PROVE  /\ procs'[o] = procs[o] /\ procs[o].step \notin Holding
                 /\ procs[o].step = "up" => procs[o].ring = keyring
      BY <1>1, <1>8, <2>2, <3>1 DEF CommitCredential, End, IInv, Locked
    <3>2. procs'[p].step = "idle"
      BY <1>1, <1>8 DEF CommitCredential, End, Idle
    <3>3. ASSUME NEW o \in Process, o # p
          PROVE  Learnt(o)'
      BY <2>1, <2>2, <2>3, <3>1, <3>3 DEF IInv, Learnt, Holding, KeyRing
    <3>4. Learnt(p)'
      BY <3>2 DEF Learnt
    <3> QED
      BY <3>3, <3>4
  <2>6. NoOrphan' /\ BackupComplete'
    BY <2>1, <2>2, <2>3 DEF IInv, NoOrphan, BackupComplete, KeyRing
  <2> QED
    BY <2>4, <2>5, <2>6
<1>9. CASE ReadCredentials(p)
  <2> DEFINE q == [procs[p] EXCEPT !.step = "proofs",
                                   !.seen = procs[p].target \in credentials]
  <2>1. /\ procs[p].step = "credentials" /\ procs[p].ring = keyring
        /\ UNCHANGED <<credentials, proofs, keyring, takenBack, backup, instance, fileLock>>
    BY <1>2, <1>9 DEF ReadCredentials, At, rows, files, Locked, Holding
  <2>2. /\ procs' = [procs EXCEPT ![p] = q]
        /\ q.command = procs[p].command /\ q.ring = keyring
        /\ q.step = "proofs" /\ q.target = procs[p].target
        /\ ~q.seen => q.target \notin credentials
    BY <1>2, <1>9, <2>1 DEF ReadCredentials, ProcessState
  <2> HIDE DEF q
  <2>3. \A o \in Process : Learnt(o)'
    BY <1>1, <2>1, <2>2 DEF IInv, Learnt
  <2> QED
    BY <2>1, <2>2, <2>3, MoveLocked, FilesStay DEF Holding
<1>10. CASE ReadProofs(p)
  <2>1. /\ procs[p].step = "proofs" /\ procs[p].ring = keyring
        /\ UNCHANGED <<credentials, proofs, keyring, takenBack, backup>>
    BY <1>2, <1>10 DEF ReadProofs, At, rows, files, Locked, Holding
  <2>2. CASE End(p)
    BY <1>3, <2>1, <2>2, EndLocked, NoRowsLearnt, FilesStay
  <2>3. CASE ~End(p)
    <3>1. /\ Goto(p, "replace") /\ UNCHANGED <<instance, fileLock>>
          /\ procs[p].target \notin credentials \cup proofs
      BY <1>2, <1>10, <2>1, <2>3 DEF ReadProofs, InUse, Learnt
    <3> DEFINE q == [procs[p] EXCEPT !.step = "replace"]
    <3>2. /\ procs' = [procs EXCEPT ![p] = q]
          /\ q.command = procs[p].command /\ q.ring = keyring
          /\ q.step = "replace" /\ q.target = procs[p].target
      BY <1>2, <2>1, <3>1 DEF Goto, ProcessState
    <3> HIDE DEF q
    <3>3. \A o \in Process : Learnt(o)'
      BY <1>1, <2>1, <3>1, <3>2 DEF IInv, Learnt
    <3> QED
      BY <2>1, <3>1, <3>2, <3>3, MoveLocked, FilesStay DEF Holding
  <2> QED
    BY <2>2, <2>3
<1>11. CASE Replace(p)
  <2>1. /\ procs[p].step = "replace"
        /\ UNCHANGED <<credentials, proofs, takenBack, backup, instance, fileLock>>
    BY <1>11 DEF Replace, At, rows
  <2>2. /\ procs[p].ring = keyring /\ keyring \in KeyRing
        /\ fileLock = p /\ instance = p
    BY <1>2, <2>1, LoadedUnderLock DEF Holding, Locked, OnItsWay, OwnsInstance
  <2> DEFINE q == [procs[p] EXCEPT !.step = "sync"]
  <2>3. /\ procs' = [procs EXCEPT ![p] = q]
        /\ q.command = procs[p].command /\ q.step = "sync" /\ q.ring = keyring
    BY <1>2, <1>11, <2>2 DEF Replace, Goto, ProcessState
  <2> HIDE DEF q
  <2>4. \A o \in Process : o # p =>
            procs[o].step \notin Holding \cup {"ready", "up"}
    BY <2>2, OthersOut
  <2>5. \A o \in Process : Locked(o)'
    BY <1>1, <1>2, <2>1, <2>2, <2>3, <2>4 DEF IInv, Locked, Holding
  <2>6. NoOrphan'
    <3>1. CASE procs[p].command = "rotate"
      BY <1>11, <2>1, <2>2, <3>1 DEF Replace, IInv, NoOrphan
    <3>2. CASE procs[p].command = "retire"
      <4>1. keyring' = [keyring EXCEPT !.keys = @ \ {procs[p].target}]
        BY <1>11, <2>2, <3>2 DEF Replace
      <4> QED
        BY <1>2, <2>1, <2>2, <3>2, <4>1 DEF Learnt, IInv, NoOrphan, KeyRing
    <3> QED
      BY <1>11, <3>1, <3>2 DEF Replace
  <2>7. BackupComplete'
    BY <2>1 DEF IInv, BackupComplete
  <2>8. \A o \in Process : Learnt(o)'
    BY <1>1, <2>1, <2>3 DEF IInv, NoOrphan, Learnt
  <2> QED
    BY <2>5, <2>6, <2>7, <2>8
<1>12. CASE Sync(p)
  <2>1. End(p) /\ UNCHANGED <<credentials, proofs, keyring, takenBack, backup>>
    BY <1>12 DEF Sync, rows
  <2> QED
    BY <1>3, <2>1, EndLocked, NoRowsLearnt, FilesStay
<1>13. CASE CopyDatabase(p)
  <2> DEFINE copy == [credentials |-> credentials, proofs |-> proofs]
             q == [procs[p] EXCEPT !.step = "copy", !.copy = copy]
  <2>1. /\ procs[p].step = "snapshot" /\ procs[p].ring = keyring
        /\ UNCHANGED <<credentials, proofs, keyring, takenBack, backup, instance, fileLock>>
    BY <1>2, <1>13 DEF CopyDatabase, At, rows, files, Locked, Holding
  <2>2. /\ procs' = [procs EXCEPT ![p] = q]
        /\ q.command = procs[p].command /\ q.ring = keyring /\ q.step = "copy"
        /\ q.copy.credentials = credentials /\ q.copy.proofs = proofs
    BY <1>2, <1>13, <2>1 DEF CopyDatabase, ProcessState
  <2> HIDE DEF q
  <2>3. \A o \in Process : Learnt(o)'
    BY <1>1, <2>1, <2>2 DEF IInv, NoOrphan, Learnt
  <2> QED
    BY <2>1, <2>2, <2>3, MoveLocked, FilesStay DEF Holding
<1>14. CASE CopyKeyring(p)
  <2>1. /\ procs[p].step = "copy" /\ fileLock = p
        /\ UNCHANGED <<credentials, proofs, keyring, takenBack, backup, instance>>
    BY <1>2, <1>14 DEF CopyKeyring, At, rows, files, Locked, Holding
  <2> DEFINE q == [procs[p] EXCEPT !.step = "publish"]
  <2>2. /\ procs' = [procs EXCEPT ![p] = q]
        /\ q.command = procs[p].command /\ q.ring = procs[p].ring
        /\ q.step = "publish" /\ q.copy = procs[p].copy
    BY <1>2, <1>14 DEF CopyKeyring, Goto, ProcessState
  <2> HIDE DEF q
  <2>3. \A o \in Process : o # p => procs[o].step \notin Holding
    BY <2>1 DEF IInv, Locked
  <2>4. \A o \in Process : Locked(o)'
    BY <1>1, <1>2, <2>1, <2>2, <2>3 DEF IInv, Locked, Holding
  <2>5. \A o \in Process : Learnt(o)'
    BY <1>1, <2>1, <2>2 DEF IInv, Learnt
  <2> QED
    BY <2>1, <2>2, <2>4, <2>5, FilesStay
<1>15. CASE Publish(p)
  <2>1. /\ procs[p].step = "publish" /\ End(p)
        /\ UNCHANGED <<credentials, proofs, keyring, takenBack>>
    BY <1>15 DEF Publish, At, rows
  <2>2. BackupComplete'
    BY <1>2, <1>15, <2>1 DEF Publish, Learnt, BackupComplete
  <2>3. NoOrphan'
    BY <2>1 DEF IInv, NoOrphan
  <2> QED
    BY <1>3, <2>1, <2>2, <2>3, EndLocked, NoRowsLearnt
<1>16. CASE Ready(p)
  <2>1. /\ procs[p].step = "ready" /\ procs[p].ring = keyring
        /\ UNCHANGED <<credentials, proofs, keyring, takenBack, backup>>
    BY <1>2, <1>16 DEF Ready, At, rows, files, Locked
  <2>2. CASE End(p)
    BY <1>3, <2>1, <2>2, EndLocked, NoRowsLearnt, FilesStay
  <2>3. CASE ~End(p)
    <3>1. /\ Goto(p, "up") /\ UNCHANGED <<instance, fileLock>>
          /\ credentials \cup proofs \subseteq procs[p].ring.keys
      BY <1>16, <2>3 DEF Ready
    <3> DEFINE q == [procs[p] EXCEPT !.step = "up"]
    <3>2. /\ procs' = [procs EXCEPT ![p] = q]
          /\ q.command = procs[p].command /\ q.ring = keyring /\ q.step = "up"
      BY <1>2, <2>1, <3>1 DEF Goto, ProcessState
    <3> HIDE DEF q
    <3>3. \A o \in Process : Learnt(o)'
      BY <1>1, <2>1, <3>1, <3>2 DEF IInv, Learnt
    <3> QED
      BY <2>1, <3>1, <3>2, <3>3, MoveLocked, FilesStay DEF Holding
  <2> QED
    BY <2>2, <2>3
<1>17. CASE IssueProof(p)
  <2>1. /\ procs[p].step = "up"
        /\ UNCHANGED <<credentials, keyring, takenBack, backup, instance, fileLock, procs>>
    BY <1>17 DEF IssueProof, At, files
  <2>2. procs[p].ring = keyring /\ keyring \in KeyRing
    BY <2>1, LoadedUnderLock
  <2>3. proofs' = proofs \cup {keyring.current}
    BY <1>17, <2>2 DEF IssueProof
  <2>4. instance = p
    BY <1>2, <2>1 DEF Locked, OnItsWay, OwnsInstance
  <2>5. \A o \in Process : Learnt(o)'
    <3>1. ASSUME NEW o \in Process, o # p
          PROVE  procs[o].step \notin {"replace", "sync", "up"}
      BY <2>4, <3>1, OthersOut
    <3>2. ASSUME NEW o \in Process, o # p
          PROVE  Learnt(o)'
      BY <2>1, <3>1, <3>2 DEF IInv, Learnt
    <3>3. Learnt(p)'
      BY <1>2, <2>1, <2>2, <2>3 DEF Learnt, KeyRing
    <3> QED
      BY <3>2, <3>3
  <2>6. \A o \in Process : Locked(o)'
    BY <2>1 DEF IInv, Locked
  <2>7. NoOrphan' /\ BackupComplete'
    BY <2>1, <2>2, <2>3 DEF IInv, NoOrphan, BackupComplete, KeyRing
  <2> QED
    BY <2>5, <2>6, <2>7
<1>18. CASE Stop(p)
  <2>1. End(p) /\ UNCHANGED <<credentials, proofs, keyring, takenBack, backup>>
    BY <1>18 DEF Stop, rows, files
  <2> QED
    BY <1>3, <2>1, EndLocked, NoRowsLearnt, FilesStay
<1> QED
  BY <1>4, <1>5, <1>6, <1>7, <1>8, <1>9, <1>10, <1>11, <1>12, <1>13, <1>14, <1>15,
     <1>16, <1>17, <1>18 DEF Proceed

LEMMA HostStepPreserves ==
    ASSUME IInv, Cleanup \/ Restore \/ ActivateRestore \/ PowerLoss
    PROVE  IInv'
<1>1. Typed /\ Typed'
  BY HostStepTyped DEF IInv
<1>2. CASE Cleanup
  BY <1>1, <1>2 DEF Cleanup, files, IInv, Locked, Learnt, NoOrphan, BackupComplete
<1>3. CASE Restore
  <2>1. \A p \in Process : Locked(p)' /\ Learnt(p)'
    BY <1>3 DEF Restore, At, Locked, Learnt, Holding
  <2>2. NoOrphan' /\ BackupComplete'
    BY <1>3 DEF Restore, IInv, NoOrphan, BackupComplete
  <2> QED
    BY <1>1, <2>1, <2>2 DEF IInv
<1>4. CASE ActivateRestore
  BY <1>1, <1>4 DEF ActivateRestore, files, IInv, Locked, Learnt, NoOrphan, BackupComplete
<1>5. CASE PowerLoss
  <2>1. \A p \in Process : Locked(p)' /\ Learnt(p)'
    BY <1>5 DEF PowerLoss, Idle, Locked, Learnt, Holding
  <2>2. NoOrphan'
    <3>1. CASE keyring' = keyring \/ takenBack'
      BY <1>5, <3>1 DEF PowerLoss, rows, IInv, NoOrphan
    <3>2. CASE keyring' # keyring /\ ~takenBack'
      <4>1. PICK p \in Process : procs[p].step = "sync" /\ procs[p].ring = keyring'
        BY <1>5, <3>2 DEF PowerLoss, Unseen, At
      <4> QED
        BY <1>5, <3>2, <4>1 DEF PowerLoss, rows, IInv, Learnt, NoOrphan
    <3> QED
      BY <1>1, <1>5, <3>1, <3>2 DEF Typed, TypeOK
  <2>3. BackupComplete'
    BY <1>1, <1>5 DEF PowerLoss, IInv, BackupComplete, Typed, TypeOK
  <2> QED
    BY <1>1, <2>1, <2>2, <2>3 DEF IInv
<1> QED
  BY <1>2, <1>3, <1>4, <1>5

LEMMA NextPreserves == IInv /\ [Next]_vars => IInv'
<1>1. CASE UNCHANGED vars
  BY <1>1 DEF vars, IInv, Typed, TypeOK, Locked, Learnt, NoOrphan, BackupComplete
<1> QED
  BY <1>1, ProcStepPreserves, HostStepPreserves DEF Next

THEOREM Invariance == Spec => []IInv
BY InitEstablishes, NextPreserves, PTL DEF Spec

(* Every row's key is in the keyring file, whatever commands, servers,     *)
(* restores and power losses have come, until a power loss takes back a    *)
(* keyring that others could use.                                          *)
THEOREM NothingOrphaned == Spec => []NoOrphan
<1>1. IInv => NoOrphan
  BY DEF IInv
<1> QED
  BY <1>1, Invariance, PTL

(* A running server has the keys of all rows, although it has read the     *)
(* keyring only once; also after a keyring was taken back.                 *)
THEOREM ServerAlwaysCan == Spec => []ServerCanAnswer
<1>1. IInv => ServerCanAnswer
  BY DEF IInv, Locked, Learnt, ServerCanAnswer, At
<1> QED
  BY <1>1, Invariance, PTL

(* A published backup has the keys of all its rows.                        *)
THEOREM BackupsComplete == Spec => []BackupComplete
<1>1. IInv => BackupComplete
  BY DEF IInv
<1> QED
  BY <1>1, Invariance, PTL

-----------------------------------------------------------------------------
(* When a keyring is taken back *)

\* No command ends between os.replace and its fsync: no fsync fails and no
\* kill comes in between; power losses may.
Synced(p) == ~(At(p, "sync") /\ Stop(p))

\* A power loss may only undo the replacement that is being synced.
SInv ==
    /\ IInv
    /\ ~takenBack
    /\ \/ settled = {keyring}
       \/ \E p \in Process : At(p, "sync") /\ settled = {keyring, procs[p].ring}

LEMMA SyncedPreserves ==
    ASSUME SInv, [Next]_vars, [\A p \in Process : Synced(p)]_vars
    PROVE  SInv'
<1>1. IInv' /\ procs \in [Process -> ProcessState]
  BY NextPreserves DEF SInv, IInv, Typed, TypeOK
<1>2. CASE UNCHANGED vars
  BY <1>1, <1>2 DEF vars, SInv, At
<1>3. ASSUME NEW p \in Process, Replace(p)
      PROVE  SInv'
  <2>1. At(p, "replace") /\ procs[p].ring = keyring /\ fileLock = p
    BY <1>3, LoadedUnderLock DEF SInv, IInv, Locked, Holding, Replace, At
  <2>2. settled = {keyring}
    BY <2>1, OthersOut DEF SInv, At, Holding
  <2>3. At(p, "sync")' /\ procs'[p].ring = keyring
    BY <1>1, <1>3, <2>1 DEF Replace, Goto, At, ProcessState
  <2>4. settled' = {keyring', keyring} /\ takenBack' = takenBack
    BY <1>3, <2>2 DEF Replace
  <2> QED
    BY <1>1, <2>3, <2>4 DEF SInv, At
<1>4. ASSUME NEW p \in Process, Sync(p)
      PROVE  SInv'
  BY <1>1, <1>4 DEF SInv, Sync
<1>5. ASSUME NEW p \in Process, ~At(p, "sync"),
             UNCHANGED <<keyring, settled, takenBack>>,
             \A o \in Process : o # p => procs'[o] = procs[o]
      PROVE  SInv'
  BY <1>1, <1>5 DEF SInv, At
<1>6. ASSUME UNCHANGED <<keyring, settled, takenBack, procs>>
      PROVE  SInv'
  BY <1>1, <1>6 DEF SInv, At
<1>7. ASSUME NEW p \in Process,
             \/ \E command \in Command : Start(p, command)
             \/ Proceed(p) \/ Lock(p) \/ IssueProof(p) \/ Stop(p)
      PROVE  SInv'
  <2>1. ASSUME NEW command \in Command, Start(p, command)
        PROVE  SInv'
    BY <1>1, <1>5, <2>1 DEF Start, At, files
  <2>2. CASE Own(p) \/ Load(p) \/ Lock(p) \/ CommitCredential(p)
    BY <1>1, <1>5, <2>2
    DEF Own, Load, Lock, CommitCredential, End, Goto, At, files
  <2>3. CASE ReadCredentials(p) \/ ReadProofs(p)
    BY <1>1, <1>5, <2>3 DEF ReadCredentials, ReadProofs, End, Goto, At, files
  <2>4. CASE CopyDatabase(p) \/ CopyKeyring(p) \/ Publish(p) \/ Ready(p)
    BY <1>1, <1>5, <2>4
    DEF CopyDatabase, CopyKeyring, Publish, Ready, End, Goto, At, files
  <2>5. CASE IssueProof(p)
    BY <1>6, <2>5 DEF IssueProof, files
  <2>6. CASE Stop(p)
    <3>1. ~At(p, "sync") \/ UNCHANGED vars
      BY <2>6 DEF Synced
    <3> QED
      BY <1>1, <1>2, <1>5, <2>6, <3>1 DEF Stop, End, files
  <2> QED
    BY <1>3, <1>4, <1>7, <2>1, <2>2, <2>3, <2>4, <2>5, <2>6 DEF Proceed
<1>8. CASE Cleanup \/ ActivateRestore
  BY <1>6, <1>8 DEF Cleanup, ActivateRestore, files
<1>9. CASE Restore
  BY <1>1, <1>9 DEF Restore, SInv
<1>10. CASE PowerLoss
  BY <1>1, <1>10 DEF PowerLoss, SInv, Unseen
<1> QED
  BY <1>2, <1>7, <1>8, <1>9, <1>10 DEF Next

(* Where every replaced keyring reaches its fsync, no power loss takes one *)
(* back and the keyring file holds the key of every row.                   *)
THEOREM SyncedKeysStay ==
    Spec /\ [][\A p \in Process : Synced(p)]_vars =>
        [](~takenBack /\ credentials \cup proofs \subseteq keyring.keys)
<1>1. Init => SInv
  BY InitEstablishes DEF Init, SInv
<1>2. SInv => ~takenBack /\ credentials \cup proofs \subseteq keyring.keys
  BY DEF SInv, IInv, NoOrphan
<1> QED
  BY <1>1, <1>2, SyncedPreserves, PTL DEF Spec
=============================================================================
