---------------------------- MODULE InstanceFiles ----------------------------
(***************************************************************************)
(* The files that commands create once: those of a new instance            *)
(* (config.py 142-180, "init") and the credential file of "client create"  *)
(* and "client rotate" (cli.py 47-60, 141-183), with commands that race,   *)
(* fail or are killed between any two changes, and power losses.           *)
(*                                                                         *)
(* "seen" is what processes find at a path and "kept" what a power loss    *)
(* may leave there.  The entries of a directory survive one by one, and    *)
(* its fsync settles them together; the fsync of an instance directory is  *)
(* taken to settle its own creation too.                                   *)
(***************************************************************************)
EXTENDS Naturals

CONSTANTS
    Installer,      \* processes that run "init" for the one instance directory
    Enroller,       \* processes that run "client create" or "client rotate"
    Target,         \* paths that are given as --credentials-out
    None

VARIABLES
    seen, kept,
    pc,             \* pc[p]: how far the command of p is, or how it ended
    target,         \* target[p]: its --credentials-out
    loaded,         \* loaded[p]: the init whose keyring p has loaded
    lock,           \* who holds the file lock of the keyring
    lockFile,       \* its file, .keyring.json.lock, is in the instance directory
    active,         \* the processes whose credential rows are committed
    collected       \* those whose credential file the operator has taken away

vars == <<seen, kept, pc, target, loaded, lock, lockFile, active, collected>>

Process == Installer \cup Enroller
Member == {"keyring", "database", "config"}
InstanceFile == {"self"} \cup Member    \* "self" is the directory's entry in its parent
File == InstanceFile \cup Target

ASSUME NameAssumption ==
    /\ Installer \cap Enroller = {} /\ None \notin Process
    /\ Target \cap InstanceFile = {}

\* A file is known by the process that created it.
Nothing == [by |-> None, data |-> "none"]
Content == {Nothing} \cup [by : Process, data : {"partial", "whole"}]
Of(p, data) == [by |-> p, data |-> data]

\* An init is "undone" when it has been interrupted in its handler or after it.
Ended == {"ok", "failed", "killed", "undone"}
Undoing == {"dropConfig", "dropKeyring", "dropDatabase", "rmdir"}
InitStep == {"mkdir", "chmod", "createKeyring", "writeKeyring", "syncKeyring",
             "createDatabase", "commitDatabase", "createConfig", "writeConfig",
             "return"}
EnrolStep == {"load", "open", "lock", "link", "syncTarget", "commit", "unlock"}

TypeOK ==
    /\ seen \in [File -> Content]
    /\ kept \in [File -> SUBSET Content] /\ \A f \in File : seen[f] \in kept[f]
    /\ pc \in [Process -> {"start"} \cup InitStep \cup Undoing \cup EnrolStep \cup Ended]
    /\ target \in [Enroller -> Target \cup {None}]
    /\ loaded \in [Enroller -> Process \cup {None}]
    /\ lock \in Enroller \cup {None} /\ lockFile \in BOOLEAN
    /\ active \subseteq Enroller /\ collected \subseteq Enroller

Init ==
    /\ seen = [f \in File |-> Nothing] /\ kept = [f \in File |-> {Nothing}]
    /\ pc = [p \in Process |-> "start"]
    /\ target = [p \in Enroller |-> None] /\ loaded = [p \in Enroller |-> None]
    /\ lock = None /\ lockFile = FALSE /\ active = {} /\ collected = {}

-----------------------------------------------------------------------------
(* Changes of files *)

Exists(f) == seen[f] # Nothing

\* A created, linked or removed entry: the disk may or may not follow.
Set(f, content) ==
    /\ seen' = [seen EXCEPT ![f] = content]
    /\ kept' = [kept EXCEPT ![f] = @ \cup {content}]

Filled(content) == IF content = Nothing THEN Nothing ELSE [content EXCEPT !.data = "whole"]

\* Faulty form, for the mutant runs: a flush without fsync, of which the disk
\* has nothing yet.
FlushData(f) == seen' = [seen EXCEPT ![f] = Filled(@)] /\ UNCHANGED kept

\* os.fsync of the data of f, wherever its entry survives.
WriteData(f) ==
    /\ seen' = [seen EXCEPT ![f] = Filled(@)]
    /\ kept' = [kept EXCEPT ![f] = {Filled(c) : c \in @}]

SettledFor(files) == [f \in File |-> IF f \in files THEN {seen[f]} ELSE kept[f]]

SyncEntries(files) == kept' = SettledFor(files) /\ UNCHANGED seen

Goes(p, step) == pc' = [pc EXCEPT ![p] = step]

Runs(p) == pc[p] \notin Ended \cup {"start"}

-----------------------------------------------------------------------------
(* initialize_instance *)

StartInit(p) ==
    /\ pc[p] = "start" /\ Goes(p, "mkdir")
    /\ UNCHANGED <<seen, kept, target, loaded, lock, lockFile, active, collected>>

\* Faulty form, for the mutant runs: mkdir with exist_ok.
MkdirShared(p) ==
    /\ pc[p] = "mkdir" /\ Goes(p, "chmod")
    /\ IF Exists("self") THEN UNCHANGED <<seen, kept>> ELSE Set("self", Of(p, "whole"))
    /\ UNCHANGED <<target, loaded, lock, lockFile, active, collected>>

\* Faulty form, for the mutant runs: mkdir within the try.
MkdirHandled(p) ==
    /\ pc[p] = "mkdir"
    /\ IF Exists("self")
       THEN Goes(p, "dropConfig") /\ UNCHANGED <<seen, kept>>
       ELSE Goes(p, "chmod") /\ Set("self", Of(p, "whole"))
    /\ UNCHANGED <<target, loaded, lock, lockFile, active, collected>>

\* Before the handler: whoever finds the directory removes nothing.  The parents
\* that it makes are left out.
Mkdir(p) ==
    /\ pc[p] = "mkdir"
    /\ IF Exists("self")
       THEN Goes(p, "failed") /\ UNCHANGED <<seen, kept>>
       ELSE Goes(p, "chmod") /\ Set("self", Of(p, "whole"))
    /\ UNCHANGED <<target, loaded, lock, lockFile, active, collected>>

NextInitStep ==
    [chmod |-> "createKeyring", createKeyring |-> "writeKeyring",
     writeKeyring |-> "syncKeyring", syncKeyring |-> "createDatabase",
     createDatabase |-> "commitDatabase", commitDatabase |-> "createConfig",
     createConfig |-> "writeConfig", writeConfig |-> "return", return |-> "ok"]

Reaches(p, step) == pc[p] = step /\ Goes(p, NextInitStep[step])

\* os.chmod of the directory and the names of its members, before the handler too.
Chmod(p) ==
    /\ Reaches(p, "chmod")
    /\ UNCHANGED <<seen, kept, target, loaded, lock, lockFile, active, collected>>

\* O_CREAT | O_EXCL
CreateMember(p) ==
    /\ \E f \in Member :
          /\ Reaches(p, [keyring |-> "createKeyring", database |-> "createDatabase",
                         config |-> "createConfig"][f])
          /\ ~Exists(f) /\ Set(f, Of(p, "partial"))
    /\ UNCHANGED <<target, loaded, lock, lockFile, active, collected>>

WriteMember(p) ==
    /\ \/ Reaches(p, "writeKeyring") /\ WriteData("keyring")
       \/ Reaches(p, "writeConfig") /\ WriteData("config")
    /\ UNCHANGED <<target, loaded, lock, lockFile, active, collected>>

\* _fsync_parent, of which there is none for the configuration.
SyncKeyring(p) ==
    /\ Reaches(p, "syncKeyring") /\ SyncEntries(InstanceFile)
    /\ UNCHANGED <<target, loaded, lock, lockFile, active, collected>>

\* Faulty form, for the mutant runs: a commit with synchronous = NORMAL.
CommitUnsynced(p) ==
    /\ Reaches(p, "commitDatabase")
    /\ seen' = [seen EXCEPT !["database"] = Filled(@)]
    /\ kept' = [kept EXCEPT !["database"] = @ \cup {Filled(c) : c \in @}]
    /\ UNCHANGED <<target, loaded, lock, lockFile, active, collected>>

\* The schema is one transaction.  With synchronous = EXTRA its commit syncs
\* the data and, for the journal, the directory.
CommitDatabase(p) ==
    /\ Reaches(p, "commitDatabase")
    /\ seen' = [seen EXCEPT !["database"] = Filled(@)]
    /\ kept' = [SettledFor(InstanceFile) EXCEPT !["database"] = {Filled(seen["database"])}]
    /\ UNCHANGED <<target, loaded, lock, lockFile, active, collected>>

Return(p) ==
    /\ Reaches(p, "return")
    /\ UNCHANGED <<seen, kept, target, loaded, lock, lockFile, active, collected>>

\* An exception, an interrupt of the keyboard included: there is no handler until
\* the directory has been made and its mode set, and none in the handler.  An
\* interrupt once the configuration is written leaves everything, as Kill does.
FailInit(p) ==
    /\ \/ pc[p] \in {"mkdir", "chmod"} \cup Undoing /\ Goes(p, "failed")
       \/ pc[p] \in DOMAIN NextInitStep \ {"chmod"} /\ Goes(p, "dropConfig")
    /\ UNCHANGED <<seen, kept, target, loaded, lock, lockFile, active, collected>>

\* The handler.  A directory that is not empty is not removed: FailInit.
Drop(p) ==
    /\ \/ pc[p] = "dropConfig" /\ Set("config", Nothing) /\ Goes(p, "dropKeyring")
       \/ pc[p] = "dropKeyring" /\ Set("keyring", Nothing) /\ Goes(p, "dropDatabase")
       \/ pc[p] = "dropDatabase" /\ Set("database", Nothing) /\ Goes(p, "rmdir")
       \/ pc[p] = "rmdir" /\ ~lockFile /\ Set("self", Nothing) /\ Goes(p, "failed")
    /\ UNCHANGED <<target, loaded, lock, lockFile, active, collected>>

-----------------------------------------------------------------------------
(* client create and client rotate *)

\* _credentials_target
StartEnrol(p) ==
    /\ pc[p] = "start"
    /\ \E t \in Target :
          /\ target' = [target EXCEPT ![p] = t]
          /\ Goes(p, IF Exists(t) THEN "failed" ELSE "load")
    /\ UNCHANGED <<seen, kept, loaded, lock, lockFile, active, collected>>

WholeInstance == \A f \in Member : seen[f].data = "whole"

\* load_config, KeyRing.load and Store refuse what is missing or unfinished.
Load(p) ==
    /\ pc[p] = "load"
    /\ IF WholeInstance
       THEN Goes(p, "open") /\ loaded' = [loaded EXCEPT ![p] = seen["keyring"].by]
       ELSE Goes(p, "failed") /\ UNCHANGED loaded
    /\ UNCHANGED <<seen, kept, target, lock, lockFile, active, collected>>

\* KeyRing.stable, around the delivery of the file and the commit, creates the
\* file that it locks, which nobody removes ...
OpenLock(p) ==
    /\ pc[p] = "open"
    /\ IF Exists("self") THEN Goes(p, "lock") /\ lockFile' = TRUE
       ELSE Goes(p, "failed") /\ UNCHANGED lockFile
    /\ UNCHANGED <<seen, kept, target, loaded, lock, active, collected>>

\* ... and goes on if the keyring, read again under the lock, is the loaded one.
Lock(p) ==
    /\ pc[p] = "lock" /\ lock = None
    /\ IF seen["keyring"] = Of(loaded[p], "whole") THEN Goes(p, "link") /\ lock' = p
       ELSE Goes(p, "failed") /\ UNCHANGED lock
    /\ UNCHANGED <<seen, kept, target, loaded, lockFile, active, collected>>

\* Faulty form, for the mutant runs: os.replace instead of os.link.
ReplaceTarget(p) ==
    /\ pc[p] = "link"
    /\ Goes(p, "syncTarget") /\ Set(target[p], Of(p, "whole"))
    /\ UNCHANGED <<target, loaded, lock, lockFile, active, collected>>

\* _write_secret_json: a temporary, written and synced, is linked to the
\* target, which fails if there is one.  The temporary has a name of its own
\* and is removed in any case; its remains after a kill are left out.
LinkTarget(p) ==
    /\ pc[p] = "link"
    /\ IF Exists(target[p])
       THEN Goes(p, "failed") /\ lock' = None /\ UNCHANGED <<seen, kept>>
       ELSE Goes(p, "syncTarget") /\ Set(target[p], Of(p, "whole")) /\ UNCHANGED lock
    /\ UNCHANGED <<target, loaded, lockFile, active, collected>>

\* Faulty form, for the mutant runs: without _fsync_parent.
TargetNotSynced(p) ==
    /\ pc[p] = "syncTarget" /\ Goes(p, "commit")
    /\ UNCHANGED <<seen, kept, target, loaded, lock, lockFile, active, collected>>

SyncTarget(p) ==
    /\ pc[p] = "syncTarget" /\ Goes(p, "commit")
    /\ SyncEntries(Target)
    /\ UNCHANGED <<target, loaded, lock, lockFile, active, collected>>

\* Store.create_client or Store.rotate_credential, which opens a database that
\* must be there.
Commit(p) ==
    /\ pc[p] = "commit" /\ seen["database"].data = "whole"
    /\ Goes(p, "unlock")
    /\ active' = active \cup {p}
    /\ UNCHANGED <<seen, kept, target, loaded, lock, lockFile, collected>>

Unlock(p) ==
    /\ pc[p] = "unlock" /\ Goes(p, "ok")
    /\ lock' = None
    /\ UNCHANGED <<seen, kept, target, loaded, lockFile, active, collected>>

FreedBy(p) == lock' = IF lock = p THEN None ELSE lock

\* Any exception of the system, SQLite or the keyboard; nothing is undone.
FailEnrol(p) ==
    /\ pc[p] \in EnrolStep /\ Goes(p, "failed")
    /\ FreedBy(p)
    /\ UNCHANGED <<seen, kept, target, loaded, lockFile, active, collected>>

-----------------------------------------------------------------------------
(* The surroundings *)

Interrupted(p) == IF pc[p] \in Undoing THEN "undone" ELSE "killed"

Kill(p) ==
    /\ Runs(p) /\ Goes(p, Interrupted(p))
    /\ FreedBy(p)
    /\ UNCHANGED <<seen, kept, target, loaded, lockFile, active, collected>>

\* Each entry is left as it was at some time since its last sync; the members
\* of an instance are found in the directory that their process created.
Remains(self, keyring, database, config, files) ==
    [f \in File |-> CASE f = "self" -> self
                      [] f = "keyring" -> keyring
                      [] f = "database" -> database
                      [] f = "config" -> config
                      [] OTHER -> files[f]]

Left ==
    {left \in {Remains(s, k, d, c, files) :
                  s \in kept["self"], k \in kept["keyring"], d \in kept["database"],
                  c \in kept["config"],
                  files \in [Target -> UNION {kept[t] : t \in Target}]} :
        /\ \A t \in Target : left[t] \in kept[t]
        /\ \A f \in Member : left[f] # Nothing => left[f].by = left["self"].by}

\* What a failed init has removed may be back, and the file of the lock, whose
\* entry is not synced, may be gone.
PowerLoss ==
    /\ seen' \in Left
    /\ kept' = [f \in File |-> {seen'[f]}]
    /\ pc' = [p \in Process |->
                 IF p \in Installer /\ pc[p] = "failed" THEN "undone"
                 ELSE IF Runs(p) THEN Interrupted(p) ELSE pc[p]]
    /\ lock' = None
    /\ lockFile' \in {FALSE, lockFile /\ seen'["self"] # Nothing}
    /\ UNCHANGED <<target, loaded, active, collected>>

\* The operator takes a credential file away: to deploy the secret, or because
\* its command has failed.
Collect(t) ==
    /\ Exists(t) /\ ~Runs(seen[t].by)
    /\ Set(t, Nothing)
    /\ collected' = collected \cup {seen[t].by}
    /\ UNCHANGED <<pc, target, loaded, lock, lockFile, active>>

InitDoes(p) ==
    \/ StartInit(p) \/ Mkdir(p) \/ Chmod(p) \/ CreateMember(p) \/ WriteMember(p)
    \/ SyncKeyring(p) \/ CommitDatabase(p) \/ Return(p) \/ FailInit(p) \/ Drop(p)

EnrolDoes(p) ==
    \/ StartEnrol(p) \/ Load(p) \/ OpenLock(p) \/ Lock(p) \/ LinkTarget(p)
    \/ SyncTarget(p) \/ Commit(p) \/ Unlock(p) \/ FailEnrol(p)

Next ==
    \/ \E p \in Installer : InitDoes(p)
    \/ \E p \in Enroller : EnrolDoes(p)
    \/ \E p \in Process : Kill(p)
    \/ \E t \in Target : Collect(t)
    \/ PowerLoss

Spec == Init /\ [][Next]_vars

-----------------------------------------------------------------------------
(* Properties *)

(* A configuration, which is written last, stands for an instance that is    *)
(* whole, the work of one init, also after a power loss: what the container  *)
(* takes "-f onceproof.toml" for (config.py 158-166, container-entrypoint.sh *)
(* 15-20).  Only the configuration of an init that has failed, brought back  *)
(* by a power loss, may be without the others.                               *)
ConfigStandsForInstance ==
    LET p == seen["config"].by
    IN  seen["config"].data = "whole" /\ pc[p] \notin Undoing \cup {"undone"} =>
            \A f \in Member : seen[f] = Of(p, "whole")

(* What an init that has reported success has made stays, through every      *)
(* power loss and whatever other commands do, fail at or are killed in: the  *)
(* directory, the keyring and the database.  Only the configuration, whose   *)
(* entry is not synced (config.py 55-65), may be missing after a power loss, *)
(* and nothing else is in its place (config.py 142-180).                     *)
ReportedInstanceLasts ==
    \A p \in Installer : pc[p] = "ok" =>
        /\ \A f \in {"self", "keyring", "database"} : kept[f] = {Of(p, "whole")}
        /\ kept["config"] \subseteq {Nothing, Of(p, "whole")}

(* A file belongs to the command that created it: no command, losing a race  *)
(* or undoing its own steps, changes or removes the file of another.         *)
(* README.md:48 says of a credential file that it "is created once, and is   *)
(* never overwritten" (config.py 154, cli.py 56).                            *)
OnlyAuthorChanges ==
    [][ \A f \in File :
            seen[f] # Nothing /\ seen'[f] # seen[f] =>
                \/ pc'[seen[f].by] # pc[seen[f].by]
                \/ PowerLoss \/ \E t \in Target : Collect(t) ]_vars

(* docs/THREAT_MODEL.md:84-87: no command "can commit a replacement whose    *)
(* only raw secret was never made durable".  The file of an active           *)
(* credential survives every power loss until the operator takes it away.    *)
ActiveIsDelivered ==
    \A p \in active \ collected : kept[target[p]] = {Of(p, "whole")}

=============================================================================
