--------------------------- MODULE BackupDirectory ---------------------------
(***************************************************************************)
(* "db backup" (cli.py 282-327 and 400-428, Store.backup,                  *)
(* KeyRing.backup_with) as the sequence of changes that it makes to its    *)
(* output directory, with a kill, a failure or a power loss between any    *)
(* two of them and a retry after each.                                     *)
(*                                                                         *)
(* One command at a time uses the directory; what the members say is in    *)
(* KeyLifecycle.  A member is "partial" from its creation to the fsync of  *)
(* its data.  "settled" is the set of states in which a power loss may     *)
(* leave the directory: a change adds states to it and the fsync of the    *)
(* directory, which is taken to commit its own creation too, leaves one.   *)
(***************************************************************************)
VARIABLES
    dir,            \* the output directory as processes see it
    settled,        \* the states a power loss may leave
    step,           \* how far the command is, or "idle"
    todo,           \* clearing: the entries it listed and has not removed
    backedUp        \* history: "backed_up" was printed for this directory

vars == <<dir, settled, step, todo, backedUp>>

\* Temporaries (".pending") are one entry: they come and go one at a time.
Temporary == "pending"
Entry == {"marker", Temporary, "database", "journal", "keyring", "manifest",
          "foreign"}
Content == {"none", "partial", "whole"}

\* "self" is the entry of the directory in its parent.
Directory == [Entry \cup {"self"} -> Content]
Absent == [e \in Entry \cup {"self"} |-> "none"]
Empty == [Absent EXCEPT !["self"] = "whole"]

Exists(d) == d["self"] # "none"
Entries(d) == {e \in Entry : d[e] # "none"}
Published(d) == d["manifest"] # "none"
Whole(d) ==
    d["database"] = "whole" /\ d["keyring"] = "whole" /\ d["journal"] = "none"

Step ==
    {"idle", "prepare", "clear", "make",
     "marker", "linkMarker", "syncMarker", "dropMarker",
     "create", "copy", "commit", "syncDatabase",
     "createKeyring", "writeKeyring", "syncKeyring",
     "manifest", "linkManifest", "syncManifest", "dropManifest",
     "unmark", "syncAll", "verify"}

TypeOK ==
    /\ dir \in Directory
    /\ settled \in SUBSET Directory /\ dir \in settled
    /\ step \in Step
    /\ todo \in SUBSET Entry
    /\ backedUp \in BOOLEAN

Init ==
    /\ dir = Absent /\ settled = {Absent}
    /\ step = "idle" /\ todo = {} /\ backedUp = FALSE

-----------------------------------------------------------------------------
(* Changes of the directory *)

\* The entry e becomes c for processes; the disk may or may not follow.  States
\* from before the last mkdir are changed too, which only adds outcomes.
Set(e, c) ==
    /\ dir' = [dir EXCEPT ![e] = c]
    /\ settled' = settled \cup {[d EXCEPT ![e] = c] : d \in {x \in settled : Exists(x)}}

Filled(d, e) == [d EXCEPT ![e] = IF @ = "partial" THEN "whole" ELSE @]

\* Faulty form, for the mutant runs: a flush without fsync, of which the disk
\* has nothing yet.
FlushData(e) == dir' = Filled(dir, e) /\ UNCHANGED settled

\* os.fsync of the data of e, in whichever states the entry is there.
SyncData(e) == dir' = Filled(dir, e) /\ settled' = {Filled(d, e) : d \in settled}

\* Faulty form, for the mutant runs: the directory is not synced.
NothingSynced(states, d) == states

\* _fsync_parent: of all the states, the present one is left.
Synced(states, d) == {d}

SyncDirectory == settled' = Synced(settled, dir) /\ UNCHANGED dir

Then(s) == step' = s /\ UNCHANGED <<todo, backedUp>>
End == step' = "idle" /\ todo' = {} /\ UNCHANGED backedUp

-----------------------------------------------------------------------------
(* _prepare_backup_directory *)

Members == {"database", "keyring", "marker", Temporary}

\* Faulty form, for the mutant runs: unknown entries do not stop it.
ReconcilableByMarker(entries) ==
    entries = {} \/ "marker" \in entries \/ entries \subseteq {Temporary}

Reconcilable(entries) ==
    /\ entries = {} \/ "marker" \in entries \/ entries \subseteq {Temporary}
    /\ entries \subseteq Members

\* Faulty form, for the mutant runs: the next backup replaces the last one.
MayReplace(d) == ~Exists(d) \/ Reconcilable(Entries(d) \ {"manifest"})

MayPrepare(d) == ~Exists(d) \/ (~Published(d) /\ Reconcilable(Entries(d)))

Start ==
    /\ step = "idle"
    /\ Then("prepare") /\ UNCHANGED <<dir, settled>>

Prepare ==
    /\ step = "prepare"
    /\ \/ /\ ~MayPrepare(dir)
          /\ End
       \/ /\ MayPrepare(dir)
          /\ step' = IF Exists(dir) THEN "clear" ELSE "make"
          /\ todo' = Entries(dir)
          /\ UNCHANGED backedUp
    /\ UNCHANGED <<dir, settled>>

\* The entries go in the order in which the directory lists them: any.
Unlink(e) ==
    /\ step = "clear" /\ e \in todo
    /\ Set(e, "none")
    /\ todo' = todo \ {e}
    /\ UNCHANGED <<step, backedUp>>

\* rmdir fails when something has come since the listing.
Rmdir ==
    /\ step = "clear" /\ todo = {}
    /\ \/ /\ Entries(dir) # {}
          /\ End /\ UNCHANGED <<dir, settled>>
       \/ /\ Entries(dir) = {}
          /\ dir' = Absent /\ settled' = settled \cup {Absent}
          /\ Then("make")

Mkdir ==
    /\ step = "make"
    /\ dir' = Empty /\ settled' = settled \cup {Empty}
    /\ Then("marker")

-----------------------------------------------------------------------------
(* _write_secret_json: a synced temporary, a link, an fsync, an unlink *)

WriteTemporary ==
    /\ \/ step = "marker" /\ Then("linkMarker")
       \/ step = "manifest" /\ Then("linkManifest")
    /\ Set(Temporary, "whole")

LinkTarget ==
    \/ step = "linkMarker" /\ Set("marker", "whole") /\ Then("syncMarker")
    \/ step = "linkManifest" /\ Set("manifest", "whole") /\ Then("syncManifest")

SyncTarget ==
    /\ \/ step = "syncMarker" /\ Then("dropMarker")
       \/ step = "syncManifest" /\ Then("dropManifest")
    /\ SyncDirectory

DropTemporary ==
    /\ \/ step = "dropMarker" /\ Then("create")
       \/ step = "dropManifest" /\ Then("unmark")
    /\ Set(Temporary, "none")

-----------------------------------------------------------------------------
(* Store.backup and KeyRing.backup_with *)

Create ==
    \/ step = "create" /\ Set("database", "partial") /\ Then("copy")
    \/ step = "createKeyring" /\ Set("keyring", "partial") /\ Then("writeKeyring")

\* SQLite opens its rollback journal beside the copy before it writes there.
Copy == step = "copy" /\ Set("journal", "partial") /\ Then("commit")

\* The commit syncs the data and then removes the journal.
Commit ==
    /\ step = "commit"
    /\ LET states == {Filled(d, "database") : d \in settled}
       IN  /\ dir' = [Filled(dir, "database") EXCEPT !["journal"] = "none"]
           /\ settled' = states \cup {[d EXCEPT !["journal"] = "none"] : d \in states}
    /\ Then("syncDatabase")

WriteKeyring == step = "writeKeyring" /\ SyncData("keyring") /\ Then("syncKeyring")

SyncMember ==
    /\ \/ step = "syncDatabase" /\ Then("createKeyring")
       \/ step = "syncKeyring" /\ Then("manifest")
    /\ SyncDirectory

-----------------------------------------------------------------------------
(* The end of _db_backup *)

Unmark == step = "unmark" /\ Set("marker", "none") /\ Then("syncAll")

\* Faulty form, for the mutant runs: success is reported without the fsync.
NotSyncedAtEnd == UNCHANGED <<dir, settled>>

SyncedAtEnd == SyncDirectory

SyncAll == step = "syncAll" /\ SyncedAtEnd /\ Then("verify")

\* _verify_backup_directory reads the manifest and both members again.
Verify ==
    /\ step = "verify"
    /\ backedUp' = (Published(dir) /\ Whole(dir))
    /\ step' = "idle" /\ todo' = {}
    /\ UNCHANGED <<dir, settled>>

-----------------------------------------------------------------------------
(* Interruptions *)

\* What the handlers of an exception remove on their way out, SQLite's own
\* rollback of its journal included.
Undone ==
    IF step \in {"linkMarker", "syncMarker", "linkManifest", "syncManifest"}
    THEN {Temporary}
    ELSE IF step \in {"copy", "commit", "syncDatabase", "createKeyring"}
    THEN {"database", "journal"}
    ELSE IF step \in {"writeKeyring", "syncKeyring"} THEN {"keyring", "database"}
    ELSE {}

Without(d, es) == [e \in DOMAIN d |-> IF e \in es THEN "none" ELSE d[e]]

\* A call of the system fails.  Unless the marker is there, the new directory
\* goes again, which rmdir refuses if something else has come.
Fail ==
    /\ step # "idle"
    /\ LET left == Without(dir, Undone)
           undone == {Without(d, es) : d \in settled, es \in SUBSET Undone}
       IN  IF step \in {"marker", "linkMarker"} /\ Entries(left) = {}
           THEN dir' = Absent /\ settled' = settled \cup undone \cup {Absent}
           ELSE dir' = left /\ settled' = settled \cup undone
    /\ End

Kill == step # "idle" /\ End /\ UNCHANGED <<dir, settled>>

PowerLoss ==
    /\ dir' \in settled /\ settled' = {dir'}
    /\ End

\* The operator puts a file of another name into the directory ...
AddForeign ==
    /\ Exists(dir) /\ dir["foreign"] = "none"
    /\ Set("foreign", "whole")
    /\ UNCHANGED <<step, todo, backedUp>>

\* ... or moves the directory away, to keep it elsewhere or to start anew.
MoveAway ==
    /\ step = "idle" /\ Exists(dir)
    /\ dir' = Absent /\ settled' = settled \cup {Absent}
    /\ backedUp' = FALSE /\ UNCHANGED <<step, todo>>

Next ==
    \/ Start \/ Prepare \/ (\E e \in Entry : Unlink(e)) \/ Rmdir \/ Mkdir
    \/ WriteTemporary \/ LinkTarget \/ SyncTarget \/ DropTemporary
    \/ Create \/ Copy \/ Commit \/ WriteKeyring \/ SyncMember
    \/ Unmark \/ SyncAll \/ Verify
    \/ Fail \/ Kill \/ PowerLoss
    \/ AddForeign \/ MoveAway

Spec == Init /\ [][Next]_vars

-----------------------------------------------------------------------------
(* Properties *)

(* Whenever a manifest can be seen, also after a power loss at any moment,  *)
(* both members are whole and no journal is left that SQLite would roll     *)
(* back into the copy: the manifest is published last (cli.py 400-428).     *)
PublishedIsWhole == Published(dir) => Whole(dir)

(* What was reported as backed up survives: no power loss, retry or later   *)
(* failure takes a member from it or brings the marker of an incomplete     *)
(* backup back (cli.py 287-288, 426-427).                                   *)
BackedUpStays ==
    backedUp => Published(dir) /\ Whole(dir) /\ dir["marker"] = "none"

(* docs/OPERATIONS.md:62, "Unknown files stop reconciliation": no file but  *)
(* the command's own is ever removed, even one that comes while a retry     *)
(* clears the directory (cli.py 289-320).                                   *)
ForeignKept ==
    [][ dir["foreign"] # "none" =>
            dir'["foreign"] # "none" \/ PowerLoss \/ MoveAway ]_vars

\* What the directory is to whoever looks at its manifest.
Shown ==
    IF ~Published(dir) THEN "nothing" ELSE IF Whole(dir) THEN "backup" ELSE "torn"

Atomic == INSTANCE AtomicBackup WITH content <- Shown, reported <- backedUp

(* However a command is interrupted, a backup appears in one step, is never *)
(* seen torn and, once reported, goes only when the operator takes it away  *)
(* (cli.py 400-428): the directory implements AtomicBackup.                 *)
PublishedAtOnce == Atomic!Spec

(* README.md:169, "an interrupted directory is reconciled on retry": a      *)
(* directory that the command has left unpublished, and that nobody else    *)
(* wrote to, is accepted by the next one (cli.py 282-327).                  *)
InterruptedIsReconciled ==
    step = "idle" /\ ~Published(dir) /\ dir["foreign"] = "none" => MayPrepare(dir)

=============================================================================
