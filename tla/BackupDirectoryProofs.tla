------------------------ MODULE BackupDirectoryProofs ------------------------
(***************************************************************************)
(* The output directory of "db backup" implements AtomicBackup.  The       *)
(* inductive invariant speaks of every state that a power loss may leave,  *)
(* and not only of the one that processes see: a manifest is linked only   *)
(* when all of them have whole members, and the members of a directory     *)
(* that may come back published are never touched.                         *)
(***************************************************************************)
EXTENDS BackupDirectory, TLAPS

-----------------------------------------------------------------------------
(* The inductive invariant *)

Member == {"database", "keyring", "journal"}

\* Nothing of a directory that does not exist.
Grounded == \A d \in settled : ~Exists(d) => d = Absent

\* What a retry removes is what it has listed, and its own; later there is a
\* directory to write to.
Listed ==
    /\ todo \subseteq Members \cap Entries(dir)
    /\ step # "clear" => todo = {}
    /\ step = "make" => dir = Absent
    /\ step \notin {"idle", "prepare", "make"} => Exists(dir)

BeforeMarker == {"clear", "make", "marker", "linkMarker", "syncMarker"}

BeforeManifest ==
    {"dropMarker", "create", "copy", "commit", "syncDatabase", "createKeyring",
     "writeKeyring", "syncKeyring", "manifest", "linkManifest"}

DatabaseDone ==
    {"createKeyring", "writeKeyring", "syncKeyring", "manifest", "linkManifest"}

AfterManifest == {"syncManifest", "dropManifest", "unmark", "syncAll", "verify"}

\* No manifest before its time, on disk neither once the marker is synced.
Unpublished ==
    /\ step \in BeforeMarker => ~Published(dir)
    /\ step \in BeforeManifest => \A d \in settled : ~Published(d)

\* What is done of the members; on disk too once each is synced.
Progress ==
    /\ step \in {"copy", "commit"} => dir["database"] = "partial"
    /\ step = "syncDatabase" =>
          dir["database"] = "whole" /\ dir["journal"] = "none"
    /\ step \in DatabaseDone =>
          \A d \in settled : d["database"] = "whole" /\ d["journal"] = "none"
    /\ step = "writeKeyring" => dir["keyring"] = "partial"
    /\ step = "syncKeyring" => dir["keyring"] = "whole"
    /\ step \in {"manifest", "linkManifest"} \cup AfterManifest =>
          \A d \in settled : Whole(d)
    /\ step = "syncManifest" => Published(dir)
    /\ step \in AfterManifest \ {"syncManifest"} => \A d \in settled : Published(d)
    /\ step = "syncAll" => dir["marker"] = "none"
    /\ step = "verify" => \A d \in settled : d["marker"] = "none"

AllWhole == \A d \in settled : Published(d) => Whole(d)

\* While a power loss may bring a published directory back in place of one
\* that is not, this one has no members that could be changed in both.
Apart ==
    ~Published(dir) /\ (\E d \in settled : Published(d)) =>
        \A e \in Member : dir[e] = "none"

Reported ==
    backedUp =>
        /\ step \in {"idle", "prepare"}
        /\ \A d \in settled : Published(d) /\ Whole(d) /\ d["marker"] = "none"

DInv ==
    /\ TypeOK
    /\ Grounded
    /\ Listed
    /\ Unpublished
    /\ Progress
    /\ AllWhole
    /\ Apart
    /\ Reported

-----------------------------------------------------------------------------
(* What the changes of the directory do *)

LEMMA InitStands == Init => DInv
  BY DEF Init, DInv, TypeOK, Grounded, Listed, Unpublished, Progress, AllWhole,
     Apart, Reported, BeforeMarker, BeforeManifest, DatabaseDone, AfterManifest,
     Member, Members, Entries, Entry, Temporary, Directory, Content, Absent,
     Exists, Published, Whole, Step

(* A change of an entry leaves the old states and the changed ones.        *)
LEMMA SetEffect ==
    ASSUME DInv, Exists(dir), NEW e \in Entry, NEW c \in Content, Set(e, c)
    PROVE  /\ dir' = [dir EXCEPT ![e] = c] /\ dir' \in Directory
           /\ settled' \in SUBSET Directory /\ dir' \in settled'
           /\ Grounded'
           /\ \A y \in settled' :
                 y \in settled \/ \E d \in settled : y = [d EXCEPT ![e] = c]
<1>1. dir' = [dir EXCEPT ![e] = c]
  BY DEF Set
<1>2. settled' = settled \cup {[d EXCEPT ![e] = c] : d \in {x \in settled : Exists(x)}}
  BY DEF Set
<1>3. dir \in Directory /\ settled \subseteq Directory /\ dir \in settled
  BY DEF DInv, TypeOK
<1>4. \A d \in Directory : [d EXCEPT ![e] = c] \in Directory
  BY DEF Directory
<1>5. dir' \in Directory /\ settled' \in SUBSET Directory /\ dir' \in settled'
  BY <1>1, <1>2, <1>3, <1>4
<1>6. \A d \in Directory : [d EXCEPT ![e] = c]["self"] = d["self"]
  BY DEF Directory, Entry, Temporary
<1>7. Grounded'
  BY <1>2, <1>3, <1>6 DEF Grounded, Exists, DInv
<1> QED
  BY <1>1, <1>2, <1>5, <1>7

(* The fsync of the directory leaves one state.                            *)
LEMMA SyncEffect ==
    ASSUME DInv, SyncDirectory
    PROVE  dir' = dir /\ settled' = {dir} /\ Grounded'
  BY DEF SyncDirectory, Synced, DInv, Grounded, TypeOK

(* An entry that no property looks at disturbs none of them.               *)
LEMMA OtherSet ==
    ASSUME DInv, Exists(dir), NEW e \in Entry, NEW c \in Content, Set(e, c),
           e \notin Member \cup {"manifest"}
    PROVE  AllWhole' /\ Apart'
<1> USE DEF Published, Whole, Member
<1>1. /\ dir' = [dir EXCEPT ![e] = c]
      /\ \A y \in settled' :
            y \in settled \/ \E d \in settled : y = [d EXCEPT ![e] = c]
  BY SetEffect
<1>2. AllWhole'
  BY <1>1 DEF DInv, TypeOK, Directory, Entry, Temporary, AllWhole
<1>3. Apart'
  BY <1>1 DEF DInv, TypeOK, Directory, Entry, Temporary, Apart
<1> QED
  BY <1>2, <1>3

(* Without a manifest on disk, members may be written.                     *)
LEMMA UnpublishedSet ==
    ASSUME DInv, Exists(dir), NEW e \in Entry, NEW c \in Content, Set(e, c),
           e # "manifest", \A d \in settled : ~Published(d)
    PROVE  AllWhole' /\ Apart' /\ \A d \in settled' : ~Published(d)
<1>1. \A y \in settled' :
            y \in settled \/ \E d \in settled : y = [d EXCEPT ![e] = c]
  BY SetEffect
<1>2. \A d \in settled' : ~Published(d)
  BY <1>1 DEF DInv, TypeOK, Directory, Entry, Temporary, Published
<1> QED
  BY <1>2 DEF AllWhole, Apart

(* One state is left: what is true of the directory is true on disk.       *)
LEMMA SyncedKeeps ==
    ASSUME DInv, SyncDirectory
    PROVE  AllWhole' /\ Apart'
  BY SyncEffect DEF DInv, TypeOK, AllWhole, Apart, Published

-----------------------------------------------------------------------------
(* The steps of a command *)

LEMMA UnlinkKeeps ==
    ASSUME DInv, NEW e \in Entry, Unlink(e)
    PROVE  DInv'
<1> USE DEF Exists, Published, Whole, Content, Member, Members, Entries, Temporary
<1>1. /\ step = "clear" /\ step' = "clear" /\ e \in todo /\ todo' = todo \ {e}
      /\ backedUp' = backedUp /\ Set(e, "none")
  BY DEF Unlink
<1>2. Exists(dir) /\ e \in Members /\ dir[e] # "none" /\ ~Published(dir)
  BY <1>1 DEF DInv, Listed, Unpublished, BeforeMarker
<1>3. /\ dir' = [dir EXCEPT ![e] = "none"] /\ dir' \in Directory
      /\ settled' \in SUBSET Directory /\ dir' \in settled'
      /\ Grounded'
      /\ \A y \in settled' :
            y \in settled \/ \E d \in settled : y = [d EXCEPT ![e] = "none"]
  BY <1>1, <1>2, SetEffect
<1>4. TypeOK'
  BY <1>1, <1>3 DEF DInv, TypeOK
<1>5. Listed'
  BY <1>1, <1>2, <1>3 DEF DInv, Listed, TypeOK, Directory, Entry
<1>6. Unpublished'
  BY <1>1, <1>2, <1>3 DEF DInv, TypeOK, Unpublished, BeforeMarker, BeforeManifest, Directory, Entry
<1>7. Progress'
  BY <1>1 DEF Progress, DatabaseDone, AfterManifest
<1>8. ~\E d \in settled : Published(d) /\ e \in Member
  BY <1>2 DEF DInv, Apart
<1>9. AllWhole'
  BY <1>2, <1>3, <1>8 DEF DInv, AllWhole, TypeOK, Directory, Entry
<1>10. Apart'
  BY <1>2, <1>3 DEF DInv, Apart, TypeOK, Directory, Entry
<1>11. Reported'
  BY <1>1 DEF DInv, Reported
<1> QED
  BY <1>3, <1>4, <1>5, <1>6, <1>7, <1>9, <1>10, <1>11 DEF DInv

(* What a step that touches no file needs, the next one apart.             *)
LEMMA QuietKeeps ==
    ASSUME DInv, UNCHANGED <<dir, settled>>
    PROVE  Grounded' /\ AllWhole' /\ Apart'
  BY DEF DInv, Grounded, AllWhole, Apart

LEMMA PrepareKeeps ==
    ASSUME DInv, Start \/ Prepare
    PROVE  DInv'
<1> USE DEF Exists, Published, Whole
<1>1. UNCHANGED <<dir, settled, backedUp>> /\ Grounded' /\ AllWhole' /\ Apart'
  BY QuietKeeps DEF Start, Prepare, Then, End
<1>2. CASE Start
  <2>1. step' = "prepare" /\ step = "idle" /\ todo' = todo
    BY <1>2 DEF Start, Then
  <2>2. TypeOK' /\ Listed' /\ Unpublished' /\ Progress' /\ Reported'
    BY <1>1, <2>1 DEF DInv, TypeOK, Listed, Unpublished, Progress, Reported, Step,
       BeforeMarker, BeforeManifest, DatabaseDone, AfterManifest
  <2> QED
    BY <1>1, <2>2 DEF DInv
<1>3. CASE Prepare /\ ~MayPrepare(dir)
  <2>1. step' = "idle" /\ todo' = {}
    BY <1>3 DEF Prepare, End
  <2>2. TypeOK' /\ Listed' /\ Unpublished' /\ Progress' /\ Reported'
    BY <1>1, <2>1 DEF DInv, TypeOK, Listed, Unpublished, Progress, Reported, Step,
       BeforeMarker, BeforeManifest, DatabaseDone, AfterManifest
  <2> QED
    BY <1>1, <2>2 DEF DInv
<1>4. CASE Prepare /\ MayPrepare(dir)
  <2>1. /\ step' = IF Exists(dir) THEN "clear" ELSE "make"
        /\ todo' = Entries(dir)
    BY <1>4 DEF Prepare
  <2>2. ~Exists(dir) => dir = Absent /\ Entries(dir) = {}
    BY DEF DInv, TypeOK, Grounded, Entries, Absent, Entry
  <2>3. Exists(dir) => Entries(dir) \subseteq Members /\ ~Published(dir)
    BY <1>4 DEF MayPrepare, Reconcilable
  <2>4. ~Published(dir)
    BY <2>2, <2>3 DEF Absent, Entry
  <2>5. TypeOK'
    BY <1>1, <2>1 DEF DInv, TypeOK, Step, Entries
  <2>6. Listed' /\ Unpublished' /\ Progress'
    BY <1>1, <2>1, <2>2, <2>3, <2>4 DEF Listed, Unpublished, Progress, Entries,
       BeforeMarker, BeforeManifest, DatabaseDone, AfterManifest
  <2>7. Reported'
    BY <1>1, <2>4 DEF DInv, TypeOK, Reported
  <2> QED
    BY <1>1, <2>5, <2>6, <2>7 DEF DInv
<1> QED
  BY <1>2, <1>3, <1>4

LEMMA DirectoryKeeps ==
    ASSUME DInv, Rmdir \/ Mkdir
    PROVE  DInv'
<1> USE DEF Exists, Published, Whole, Entries
<1>a. Absent \in Directory /\ Empty \in Directory
  BY DEF Absent, Empty, Directory, Content
<1>b. ~backedUp /\ backedUp' = backedUp /\ (Rmdir => step = "clear" /\ todo = {})
  BY DEF Rmdir, Mkdir, Then, End, DInv, Reported
<1>1. CASE Rmdir /\ Entries(dir) # {}
  <2>1. UNCHANGED <<dir, settled>> /\ step' = "idle" /\ todo' = {}
    BY <1>1 DEF Rmdir, End
  <2>2. Grounded' /\ AllWhole' /\ Apart'
    BY <2>1, QuietKeeps
  <2>3. TypeOK' /\ Listed' /\ Unpublished' /\ Progress' /\ Reported'
    BY <1>b, <2>1 DEF DInv, TypeOK, Listed, Unpublished, Progress, Reported, Step,
       BeforeMarker, BeforeManifest, DatabaseDone, AfterManifest
  <2> QED
    BY <2>2, <2>3 DEF DInv
<1>2. CASE Rmdir /\ Entries(dir) = {}
  <2>1. /\ dir' = Absent /\ settled' = settled \cup {Absent}
        /\ step' = "make" /\ todo' = {}
    BY <1>2, <1>b DEF Rmdir, Then
  <2>2. TypeOK' /\ Grounded'
    BY <1>a, <1>b, <2>1 DEF DInv, TypeOK, Grounded, Step
  <2>3. AllWhole' /\ Apart'
    BY <2>1 DEF DInv, AllWhole, Apart, Absent, Entry, Member
  <2>4. Listed' /\ Unpublished' /\ Progress' /\ Reported'
    BY <1>b, <2>1 DEF Listed, Unpublished, Progress, Reported, Absent, Entry,
       BeforeMarker, BeforeManifest, DatabaseDone, AfterManifest
  <2> QED
    BY <2>2, <2>3, <2>4 DEF DInv
<1>3. CASE Mkdir
  <2>1. /\ dir' = Empty /\ settled' = settled \cup {Empty}
        /\ step = "make" /\ step' = "marker" /\ todo' = {}
    BY <1>3 DEF Mkdir, Then, DInv, Listed
  <2>2. TypeOK' /\ Grounded'
    BY <1>a, <1>b, <2>1 DEF DInv, TypeOK, Grounded, Step, Empty, Absent, Entry
  <2>3. AllWhole' /\ Apart'
    BY <2>1 DEF DInv, AllWhole, Apart, Empty, Absent, Entry, Member
  <2>4. Listed' /\ Unpublished' /\ Progress' /\ Reported'
    BY <1>b, <2>1 DEF Listed, Unpublished, Progress, Reported, Empty, Absent, Entry,
       BeforeMarker, BeforeManifest, DatabaseDone, AfterManifest
  <2> QED
    BY <2>2, <2>3, <2>4 DEF DInv
<1> QED
  BY <1>1, <1>2, <1>3

(* A temporary comes and goes beside whatever else is there.               *)
LEMMA TemporaryKeeps ==
    ASSUME DInv, WriteTemporary \/ DropTemporary
    PROVE  DInv'
<1> USE DEF Exists, Published, Whole, Content, Temporary
<1>1. PICK c \in Content : Set(Temporary, c)
  BY DEF WriteTemporary, DropTemporary
<1>2. /\ \/ step = "marker" /\ step' = "linkMarker"
         \/ step = "manifest" /\ step' = "linkManifest"
         \/ step = "dropMarker" /\ step' = "create"
         \/ step = "dropManifest" /\ step' = "unmark"
      /\ UNCHANGED <<todo, backedUp>>
  BY DEF WriteTemporary, DropTemporary, Then
<1>3. Exists(dir) /\ Temporary \in Entry
  BY <1>2 DEF DInv, Listed, Entry
<1>4. /\ dir' = [dir EXCEPT ![Temporary] = c] /\ dir' \in Directory
      /\ settled' \in SUBSET Directory /\ dir' \in settled'
      /\ Grounded'
      /\ \A y \in settled' :
            y \in settled \/ \E d \in settled : y = [d EXCEPT ![Temporary] = c]
  BY <1>1, <1>3, SetEffect, Zenon
<1>5. AllWhole' /\ Apart'
  BY <1>1, <1>3, OtherSet DEF Member
<1>6. TypeOK'
  BY <1>2, <1>4 DEF DInv, TypeOK, Step
<1>7. Listed'
  BY <1>2, <1>3, <1>4 DEF DInv, TypeOK, Listed, Directory, Entry
<1>8. Unpublished'
  BY <1>2, <1>4 DEF DInv, TypeOK, Unpublished, Directory, Entry, BeforeMarker, BeforeManifest
<1>9. Progress'
  BY <1>2, <1>4 DEF DInv, TypeOK, Progress, Directory, Entry, DatabaseDone, AfterManifest
<1>10. Reported'
  BY <1>2 DEF DInv, Reported
<1> QED
  BY <1>4, <1>5, <1>6, <1>7, <1>8, <1>9, <1>10 DEF DInv

LEMMA LinkMarkerKeeps ==
    ASSUME DInv, step = "linkMarker", LinkTarget
    PROVE  DInv'
<1> USE DEF Exists, Published, Whole, Content
<1>1. Set("marker", "whole") /\ step' = "syncMarker" /\ UNCHANGED <<todo, backedUp>>
  BY DEF LinkTarget, Then
<1>2. Exists(dir) /\ "marker" \in Entry
  BY DEF DInv, Listed, Entry
<1>3. /\ dir' = [dir EXCEPT !["marker"] = "whole"] /\ dir' \in Directory
      /\ settled' \in SUBSET Directory /\ dir' \in settled'
      /\ Grounded'
  BY <1>1, <1>2, SetEffect
<1>4. AllWhole' /\ Apart'
  BY <1>1, <1>2, OtherSet DEF Member
<1>5. TypeOK' /\ Listed' /\ Unpublished' /\ Progress' /\ Reported'
  BY <1>1, <1>2, <1>3 DEF DInv, TypeOK, Listed, Unpublished, Progress, Reported, Step,
     Directory, Entry, Temporary, BeforeMarker, BeforeManifest, DatabaseDone, AfterManifest
<1> QED
  BY <1>3, <1>4, <1>5 DEF DInv

(* The manifest is linked when every state on disk has whole members.      *)
LEMMA LinkManifestKeeps ==
    ASSUME DInv, step = "linkManifest", LinkTarget
    PROVE  DInv'
<1> USE DEF Exists, Published, Whole, Content
<1>1. Set("manifest", "whole") /\ step' = "syncManifest" /\ UNCHANGED <<todo, backedUp>>
  BY DEF LinkTarget, Then
<1>2. Exists(dir) /\ "manifest" \in Entry
  BY DEF DInv, Listed, Entry
<1>3. /\ dir' = [dir EXCEPT !["manifest"] = "whole"] /\ dir' \in Directory
      /\ settled' \in SUBSET Directory /\ dir' \in settled'
      /\ Grounded'
      /\ \A y \in settled' :
            y \in settled \/ \E d \in settled : y = [d EXCEPT !["manifest"] = "whole"]
  BY <1>1, <1>2, SetEffect
<1>4. \A d \in settled : Whole(d)
  BY DEF DInv, Progress
<1>5. \A d \in settled' : Whole(d)
  BY <1>3, <1>4 DEF DInv, TypeOK, Directory, Entry
<1>6. dir'["manifest"] = "whole"
  BY <1>3 DEF DInv, TypeOK, Directory, Entry
<1>7. AllWhole' /\ Apart'
  BY <1>5, <1>6 DEF AllWhole, Apart
<1>8. TypeOK' /\ Listed' /\ Unpublished' /\ Progress' /\ Reported'
  BY <1>1, <1>2, <1>3, <1>5, <1>6 DEF DInv, TypeOK, Listed, Unpublished, Progress,
     Reported, Step, Directory, Entry, Temporary, BeforeMarker, BeforeManifest,
     DatabaseDone, AfterManifest
<1> QED
  BY <1>3, <1>7, <1>8 DEF DInv

(* After the fsync of the directory, the disk has what processes see.      *)
LEMMA SyncKeeps ==
    ASSUME DInv, SyncTarget \/ SyncMember \/ SyncAll
    PROVE  DInv'
<1> USE DEF Exists, Published, Whole
<1>1. SyncDirectory /\ UNCHANGED <<todo, backedUp>>
  BY DEF SyncTarget, SyncMember, SyncAll, SyncedAtEnd, Then
<1>2. dir' = dir /\ settled' = {dir} /\ Grounded' /\ AllWhole' /\ Apart'
  BY <1>1, SyncEffect, SyncedKeeps
<1>3. \/ step = "syncMarker" /\ step' = "dropMarker"
      \/ step = "syncManifest" /\ step' = "dropManifest"
      \/ step = "syncDatabase" /\ step' = "createKeyring"
      \/ step = "syncKeyring" /\ step' = "manifest"
      \/ step = "syncAll" /\ step' = "verify"
  BY DEF SyncTarget, SyncMember, SyncAll, Then
<1>4. TypeOK'
  BY <1>1, <1>2, <1>3 DEF DInv, TypeOK, Step
<1>5. Listed' /\ Unpublished'
  BY <1>1, <1>2, <1>3 DEF DInv, TypeOK, Listed, Unpublished, BeforeMarker, BeforeManifest
<1>6. Progress' /\ Reported'
  BY <1>1, <1>2, <1>3 DEF DInv, TypeOK, Progress, Reported, DatabaseDone, AfterManifest
<1> QED
  BY <1>2, <1>4, <1>5, <1>6 DEF DInv

(* Members are created, and SQLite opens its journal, before any manifest. *)
LEMMA CreateKeeps ==
    ASSUME DInv, Create \/ Copy
    PROVE  DInv'
<1> USE DEF Exists, Published, Whole, Content
<1>1. PICK e \in Member :
        /\ Set(e, "partial")
        /\ \/ step = "create" /\ step' = "copy" /\ e = "database"
           \/ step = "createKeyring" /\ step' = "writeKeyring" /\ e = "keyring"
           \/ step = "copy" /\ step' = "commit" /\ e = "journal"
  BY DEF Create, Copy, Then, Member
<1>2. UNCHANGED <<todo, backedUp>>
  BY DEF Create, Copy, Then
<1>3. Exists(dir) /\ e \in Entry /\ e # "manifest"
  BY <1>1 DEF DInv, Listed, Entry
<1>4. \A d \in settled : ~Published(d)
  BY <1>1 DEF DInv, Unpublished, BeforeManifest
<1>5. /\ dir' = [dir EXCEPT ![e] = "partial"] /\ dir' \in Directory
      /\ settled' \in SUBSET Directory /\ dir' \in settled'
      /\ Grounded'
      /\ \A y \in settled' :
            y \in settled \/ \E d \in settled : y = [d EXCEPT ![e] = "partial"]
  BY <1>1, <1>3, SetEffect
<1>6. AllWhole' /\ Apart' /\ \A d \in settled' : ~Published(d)
  BY <1>1, <1>3, <1>4, UnpublishedSet
<1>7. TypeOK' /\ Listed' /\ Unpublished' /\ Reported'
  BY <1>1, <1>2, <1>3, <1>5, <1>6 DEF DInv, TypeOK, Listed, Unpublished, Reported, Step,
     Directory, Entry, BeforeMarker, BeforeManifest
<1>8. Progress'
  BY <1>1, <1>5 DEF DInv, TypeOK, Progress, Directory, Entry, DatabaseDone, AfterManifest
<1> QED
  BY <1>5, <1>6, <1>7, <1>8 DEF DInv

LEMMA FilledTyped ==
    ASSUME NEW d \in Directory, NEW e \in {"database", "keyring"}
    PROVE  /\ Filled(d, e) \in Directory
           /\ \A x \in Entry \cup {"self"} : x # e => Filled(d, e)[x] = d[x]
           /\ d[e] = "partial" => Filled(d, e)[e] = "whole"
           /\ d[e] = "whole" => Filled(d, e)[e] = "whole"
  BY DEF Filled, Directory, Content, Entry

LEMMA CommitKeeps ==
    ASSUME DInv, Commit
    PROVE  DInv'
<1> USE DEF Exists, Published, Whole, Content
<1> DEFINE states == {Filled(d, "database") : d \in settled}
<1>1. /\ step = "commit" /\ step' = "syncDatabase" /\ UNCHANGED <<todo, backedUp>>
      /\ dir' = [Filled(dir, "database") EXCEPT !["journal"] = "none"]
      /\ settled' = states \cup {[d EXCEPT !["journal"] = "none"] : d \in states}
  BY DEF Commit, Then
<1>2. states \subseteq Directory /\ Filled(dir, "database") \in states
  BY FilledTyped DEF DInv, TypeOK
<1>3. /\ dir' \in Directory /\ settled' \subseteq Directory /\ dir' \in settled'
      /\ dir'["database"] = "whole" /\ dir'["journal"] = "none"
      /\ dir'["self"] = dir["self"] /\ dir'["manifest"] = dir["manifest"]
  <2>1. dir \in Directory /\ dir["database"] = "partial"
    BY <1>1 DEF DInv, TypeOK, Progress
  <2>2. /\ Filled(dir, "database") \in Directory
        /\ Filled(dir, "database")["database"] = "whole"
        /\ Filled(dir, "database")["self"] = dir["self"]
        /\ Filled(dir, "database")["manifest"] = dir["manifest"]
    BY <2>1, FilledTyped DEF Entry
  <2>3. \A d \in Directory : [d EXCEPT !["journal"] = "none"] \in Directory
    BY DEF Directory
  <2>4. settled' \subseteq Directory /\ dir' \in settled'
    BY <1>1, <1>2, <2>3
  <2>5. /\ dir'["database"] = "whole" /\ dir'["journal"] = "none"
        /\ dir'["self"] = dir["self"] /\ dir'["manifest"] = dir["manifest"]
    BY <1>1, <2>2 DEF Directory, Entry
  <2> QED
    BY <2>4, <2>5
<1>4. \A y \in settled' : \E d \in settled :
        /\ y["manifest"] = d["manifest"] /\ y["self"] = d["self"]
        /\ y = Filled(d, "database") \/ y = [Filled(d, "database") EXCEPT !["journal"] = "none"]
  <2> SUFFICES ASSUME NEW y \in settled'
               PROVE  \E d \in settled :
                        /\ y["manifest"] = d["manifest"] /\ y["self"] = d["self"]
                        /\ \/ y = Filled(d, "database")
                           \/ y = [Filled(d, "database") EXCEPT !["journal"] = "none"]
    OBVIOUS
  <2>1. PICK d \in settled : \/ y = Filled(d, "database")
                             \/ y = [Filled(d, "database") EXCEPT !["journal"] = "none"]
    BY <1>1
  <2>2. d \in Directory
    BY DEF DInv, TypeOK
  <2>3. /\ Filled(d, "database") \in Directory
        /\ Filled(d, "database")["manifest"] = d["manifest"]
        /\ Filled(d, "database")["self"] = d["self"]
    BY <2>2, FilledTyped DEF Entry
  <2> QED
    BY <2>1, <2>3 DEF Directory, Entry
<1>5. \A d \in settled' : ~Published(d)
  BY <1>1, <1>4 DEF DInv, Unpublished, BeforeManifest
<1>6. Grounded'
  <2>1. Filled(Absent, "database") = Absent /\ [Absent EXCEPT !["journal"] = "none"] = Absent
    BY DEF Filled, Absent, Entry
  <2>2. \A d \in settled : d["self"] = "none" => d = Absent
    BY DEF DInv, Grounded
  <2> QED
    BY <1>4, <2>1, <2>2 DEF Grounded
<1>7. AllWhole' /\ Apart'
  BY <1>5 DEF AllWhole, Apart
<1>8. TypeOK' /\ Listed' /\ Unpublished' /\ Progress' /\ Reported'
  BY <1>1, <1>3, <1>5 DEF DInv, TypeOK, Listed, Unpublished, Progress, Reported, Step,
     BeforeMarker, BeforeManifest, DatabaseDone, AfterManifest
<1> QED
  BY <1>6, <1>7, <1>8 DEF DInv

LEMMA WriteKeyringKeeps ==
    ASSUME DInv, WriteKeyring
    PROVE  DInv'
<1> USE DEF Exists, Published, Whole
<1>1. /\ step = "writeKeyring" /\ step' = "syncKeyring" /\ UNCHANGED <<todo, backedUp>>
      /\ dir' = Filled(dir, "keyring")
      /\ settled' = {Filled(d, "keyring") : d \in settled}
  BY DEF WriteKeyring, SyncData, Then
<1>2. /\ dir \in Directory /\ settled \subseteq Directory /\ dir \in settled
      /\ dir["keyring"] = "partial"
      /\ \A d \in settled : /\ ~Published(d)
                            /\ d["database"] = "whole" /\ d["journal"] = "none"
  BY <1>1 DEF DInv, TypeOK, Progress, Unpublished, BeforeManifest, DatabaseDone
<1>3. /\ dir' \in settled' /\ settled' \subseteq Directory
      /\ dir'["keyring"] = "whole" /\ dir'["self"] = dir["self"]
  BY <1>1, <1>2, FilledTyped DEF Entry
<1>4. \A y \in settled' :
        /\ ~Published(y) /\ y["database"] = "whole" /\ y["journal"] = "none"
  BY <1>1, <1>2, FilledTyped DEF Entry
<1>5. Grounded'
  <2>1. Filled(Absent, "keyring") = Absent
    BY DEF Filled, Absent, Entry
  <2>2. \A d \in settled : Filled(d, "keyring")["self"] = d["self"]
    BY <1>2, FilledTyped DEF Entry
  <2> QED
    BY <1>1, <2>1, <2>2 DEF Grounded, DInv
<1>6. AllWhole' /\ Apart'
  BY <1>4 DEF AllWhole, Apart
<1>7. TypeOK' /\ Listed' /\ Unpublished' /\ Progress' /\ Reported'
  BY <1>1, <1>3, <1>4 DEF DInv, TypeOK, Listed, Unpublished, Progress, Reported, Step,
     BeforeMarker, BeforeManifest, DatabaseDone, AfterManifest
<1> QED
  BY <1>5, <1>6, <1>7 DEF DInv

LEMMA UnmarkKeeps ==
    ASSUME DInv, Unmark
    PROVE  DInv'
<1> USE DEF Exists, Published, Whole, Content
<1>1. /\ step = "unmark" /\ step' = "syncAll" /\ UNCHANGED <<todo, backedUp>>
      /\ Set("marker", "none")
  BY DEF Unmark, Then
<1>2. Exists(dir) /\ "marker" \in Entry
  BY <1>1 DEF DInv, Listed, Entry
<1>3. /\ dir' = [dir EXCEPT !["marker"] = "none"] /\ dir' \in Directory
      /\ settled' \in SUBSET Directory /\ dir' \in settled'
      /\ Grounded'
      /\ \A y \in settled' :
            y \in settled \/ \E d \in settled : y = [d EXCEPT !["marker"] = "none"]
  BY <1>1, <1>2, SetEffect
<1>4. AllWhole' /\ Apart'
  BY <1>1, <1>2, OtherSet DEF Member
<1>5. \A d \in settled : Published(d) /\ Whole(d)
  BY <1>1 DEF DInv, Progress, AfterManifest
<1>6. \A y \in settled' : Published(y) /\ Whole(y)
  BY <1>3, <1>5 DEF DInv, TypeOK, Directory, Entry
<1>7. TypeOK' /\ Listed' /\ Unpublished' /\ Progress' /\ Reported'
  BY <1>1, <1>2, <1>3, <1>6 DEF DInv, TypeOK, Listed, Unpublished, Progress, Reported,
     Step, Directory, Entry, Temporary, BeforeMarker, BeforeManifest, DatabaseDone,
     AfterManifest
<1> QED
  BY <1>3, <1>4, <1>7 DEF DInv

(* What is reported is published, whole and unmarked in every state on disk. *)
LEMMA VerifyKeeps ==
    ASSUME DInv, Verify
    PROVE  DInv'
<1>1. /\ step = "verify" /\ step' = "idle" /\ todo' = {} /\ backedUp' \in BOOLEAN
      /\ UNCHANGED <<dir, settled>>
  BY DEF Verify, Published, Whole
<1>2. Grounded' /\ AllWhole' /\ Apart'
  BY <1>1, QuietKeeps
<1>3. \A d \in settled : Published(d) /\ Whole(d) /\ d["marker"] = "none"
  BY <1>1 DEF DInv, Progress, AfterManifest
<1>4. TypeOK' /\ Listed' /\ Unpublished' /\ Progress' /\ Reported'
  BY <1>1, <1>3 DEF DInv, TypeOK, Listed, Unpublished, Progress, Reported, Step,
     BeforeMarker, BeforeManifest, DatabaseDone, AfterManifest
<1> QED
  BY <1>2, <1>4 DEF DInv

-----------------------------------------------------------------------------
(* Interruptions *)

(* What a handler removes is no member of a directory that is, or that a   *)
(* power loss may make, published.                                         *)
LEMMA UndoneApart ==
    ASSUME DInv
    PROVE  /\ Undone \subseteq Entry /\ "manifest" \notin Undone
           /\ "foreign" \notin Undone /\ "marker" \notin Undone
           /\ \/ Undone \cap Member = {}
              \/ \A d \in settled : ~Published(d)
  BY DEF Undone, Entry, Temporary, Member, DInv, Unpublished, BeforeManifest

LEMMA WithoutTyped ==
    ASSUME NEW d \in Directory, NEW es \in SUBSET Entry
    PROVE  /\ Without(d, es) \in Directory
           /\ \A x \in Entry \cup {"self"} :
                Without(d, es)[x] = IF x \in es THEN "none" ELSE d[x]
  BY DEF Without, Directory, Content

LEMMA FailKeeps ==
    ASSUME DInv, Fail
    PROVE  DInv'
<1> USE DEF Exists, Published, Whole
<1> DEFINE left == Without(dir, Undone)
           undone == {Without(d, es) : d \in settled, es \in SUBSET Undone}
<1>1. /\ step # "idle" /\ step' = "idle" /\ todo' = {} /\ UNCHANGED backedUp
      /\ \/ dir' = Absent /\ settled' = settled \cup undone \cup {Absent}
         \/ dir' = left /\ settled' = settled \cup undone
  BY DEF Fail, End
<1>2. dir \in Directory /\ settled \subseteq Directory /\ dir \in settled
  BY DEF DInv, TypeOK
<1>3. /\ Undone \in SUBSET Entry /\ "manifest" \notin Undone /\ "self" \notin Undone
      /\ "marker" \notin Undone
      /\ Undone \cap Member = {} \/ \A d \in settled : ~Published(d)
  BY UndoneApart DEF Entry, Temporary
<1>4. Absent \in Directory
  BY DEF Absent, Directory, Content
<1>5. undone \subseteq Directory /\ left \in undone
  BY <1>2, <1>3, WithoutTyped
<1>6. \A y \in undone : \E d \in settled :
        /\ y["self"] = d["self"] /\ y["manifest"] = d["manifest"]
        /\ y["marker"] = d["marker"]
        /\ \A x \in Member : y[x] = d[x] \/ (y[x] = "none" /\ x \in Undone)
        /\ d = Absent => y = Absent
  <2> SUFFICES ASSUME NEW d \in settled, NEW es \in SUBSET Undone
               PROVE  LET y == Without(d, es) IN
                      /\ y["self"] = d["self"] /\ y["manifest"] = d["manifest"]
                      /\ y["marker"] = d["marker"]
                      /\ \A x \in Member : y[x] = d[x] \/ (y[x] = "none" /\ x \in Undone)
                      /\ d = Absent => y = Absent
    OBVIOUS
  <2>1. d \in Directory /\ es \in SUBSET Entry
    BY <1>2, <1>3
  <2>2. \A x \in Entry \cup {"self"} :
           Without(d, es)[x] = IF x \in es THEN "none" ELSE d[x]
    BY <2>1, WithoutTyped
  <2>3. Without(Absent, es) = Absent
    BY DEF Without, Absent
  <2> QED
    BY <1>3, <2>2, <2>3 DEF Entry, Member
<1>7. dir' \in settled' /\ settled' \subseteq Directory
  BY <1>1, <1>2, <1>4, <1>5
<1>8. Grounded'
  BY <1>1, <1>6 DEF Grounded, DInv
<1>9. ~Published(Absent) /\ \A x \in Member : Absent[x] = "none"
  BY DEF Absent, Entry, Member
<1>10. AllWhole'
  <2>1. \A y \in undone : Published(y) => Whole(y)
    BY <1>3, <1>6 DEF DInv, AllWhole, Member
  <2> QED
    BY <1>1, <1>9, <2>1 DEF DInv, AllWhole
<1>11. Apart'
  <2>1. (\E y \in settled' : Published(y)) => \E d \in settled : Published(d)
    BY <1>1, <1>6, <1>9
  <2>2. CASE dir' = left
    <3>1. /\ left["manifest"] = dir["manifest"]
          /\ \A x \in Member : left[x] = dir[x] \/ left[x] = "none"
      BY <1>2, <1>3, WithoutTyped DEF Entry, Member
    <3> QED
      BY <2>1, <2>2, <3>1 DEF DInv, Apart
  <2> QED
    BY <1>1, <1>9, <2>2 DEF Apart
<1>12. Reported'
  <2>1. CASE backedUp
    <3>1. step = "prepare" /\ \A d \in settled : Published(d) /\ Whole(d) /\ d["marker"] = "none"
      BY <1>1, <2>1 DEF DInv, Reported
    <3>2. Undone = {}
      BY <3>1 DEF Undone
    <3>3. \A y \in undone : Published(y) /\ Whole(y) /\ y["marker"] = "none"
      BY <1>6, <3>1, <3>2 DEF Member
    <3>4. settled' = settled \cup undone
      BY <3>1 DEF Fail
    <3> QED
      BY <1>1, <3>1, <3>3, <3>4 DEF Reported
  <2> QED
    BY <1>1, <2>1 DEF Reported
<1>13. TypeOK' /\ Listed' /\ Unpublished' /\ Progress'
  BY <1>1, <1>7 DEF DInv, TypeOK, Listed, Unpublished, Progress, Step, BeforeMarker,
     BeforeManifest, DatabaseDone, AfterManifest
<1> QED
  BY <1>8, <1>10, <1>11, <1>12, <1>13 DEF DInv

LEMMA KillKeeps ==
    ASSUME DInv, Kill
    PROVE  DInv'
<1>1. /\ step' = "idle" /\ todo' = {} /\ UNCHANGED <<dir, settled, backedUp>>
  BY DEF Kill, End
<1>2. Grounded' /\ AllWhole' /\ Apart'
  BY <1>1, QuietKeeps
<1>3. TypeOK' /\ Listed' /\ Unpublished' /\ Progress' /\ Reported'
  BY <1>1 DEF DInv, TypeOK, Listed, Unpublished, Progress, Reported, Step,
     BeforeMarker, BeforeManifest, DatabaseDone, AfterManifest
<1> QED
  BY <1>2, <1>3 DEF DInv

LEMMA PowerLossKeeps ==
    ASSUME DInv, PowerLoss
    PROVE  DInv'
<1>1. /\ step' = "idle" /\ todo' = {} /\ UNCHANGED backedUp
      /\ dir' \in settled /\ settled' = {dir'}
  BY DEF PowerLoss, End
<1>2. Grounded' /\ AllWhole' /\ Apart'
  BY <1>1 DEF DInv, Grounded, AllWhole, Apart
<1>3. TypeOK' /\ Listed' /\ Unpublished' /\ Progress' /\ Reported'
  BY <1>1 DEF DInv, TypeOK, Listed, Unpublished, Progress, Reported, Step,
     BeforeMarker, BeforeManifest, DatabaseDone, AfterManifest
<1> QED
  BY <1>2, <1>3 DEF DInv

LEMMA AddForeignKeeps ==
    ASSUME DInv, AddForeign
    PROVE  DInv'
<1> USE DEF Exists, Published, Whole, Content
<1>1. Exists(dir) /\ "foreign" \in Entry /\ UNCHANGED <<step, todo, backedUp>>
      /\ Set("foreign", "whole")
  BY DEF AddForeign, Entry
<1>2. /\ dir' = [dir EXCEPT !["foreign"] = "whole"] /\ dir' \in Directory
      /\ settled' \in SUBSET Directory /\ dir' \in settled'
      /\ Grounded'
      /\ \A y \in settled' :
            y \in settled \/ \E d \in settled : y = [d EXCEPT !["foreign"] = "whole"]
  BY <1>1, SetEffect
<1>3. AllWhole' /\ Apart'
  BY <1>1, OtherSet DEF Member
<1>4. \A y \in settled' : \E d \in settled :
        /\ y["manifest"] = d["manifest"] /\ y["marker"] = d["marker"]
        /\ \A x \in Member : y[x] = d[x]
  BY <1>2 DEF DInv, TypeOK, Directory, Entry, Member, Temporary
<1>5. /\ \A x \in Entry \cup {"self"} : x # "foreign" => dir'[x] = dir[x]
  BY <1>2 DEF DInv, TypeOK, Directory
<1>6. TypeOK'
  BY <1>1, <1>2 DEF DInv, TypeOK
<1>7. Listed'
  <2>1. Entries(dir) \subseteq Entries(dir)'
    BY <1>2 DEF DInv, TypeOK, Directory, Entries
  <2>2. Exists(dir)' /\ step # "make"
    BY <1>1, <1>5 DEF DInv, Listed, Absent, Entry
  <2> QED
    BY <1>1, <2>1, <2>2 DEF DInv, Listed
<1>8. Unpublished'
  BY <1>1, <1>4, <1>5 DEF DInv, Unpublished, Entry
<1>9. Progress'
  BY <1>1, <1>4, <1>5 DEF DInv, Progress, Entry, Member
<1>10. Reported'
  BY <1>1, <1>4 DEF DInv, Reported, Member
<1> QED
  BY <1>2, <1>3, <1>6, <1>7, <1>8, <1>9, <1>10 DEF DInv

LEMMA MoveAwayKeeps ==
    ASSUME DInv, MoveAway
    PROVE  DInv'
<1>1. /\ step = "idle" /\ dir' = Absent /\ settled' = settled \cup {Absent}
      /\ backedUp' = FALSE /\ UNCHANGED <<step, todo>>
  BY DEF MoveAway
<1>2. Absent \in Directory /\ \A x \in Entry : Absent[x] = "none"
  BY DEF Absent, Directory, Content
<1>3. Grounded' /\ AllWhole' /\ Apart'
  BY <1>1, <1>2 DEF DInv, Grounded, AllWhole, Apart, Published, Entry, Member
<1>4. TypeOK' /\ Listed' /\ Unpublished' /\ Progress' /\ Reported'
  BY <1>1, <1>2 DEF DInv, TypeOK, Listed, Unpublished, Progress, Reported, Step,
     BeforeMarker, BeforeManifest, DatabaseDone, AfterManifest
<1> QED
  BY <1>3, <1>4 DEF DInv

LEMMA NextKeeps == DInv /\ [Next]_vars => DInv'
<1> SUFFICES ASSUME DInv, [Next]_vars
             PROVE  DInv'
  OBVIOUS
<1>1. CASE UNCHANGED vars
  BY <1>1 DEF vars, DInv, TypeOK, Grounded, Listed, Unpublished, Progress, AllWhole,
     Apart, Reported
<1>2. CASE Start \/ Prepare
  BY <1>2, PrepareKeeps
<1>3. CASE \E e \in Entry : Unlink(e)
  BY <1>3, UnlinkKeeps
<1>4. CASE Rmdir \/ Mkdir
  BY <1>4, DirectoryKeeps
<1>5. CASE WriteTemporary \/ DropTemporary
  BY <1>5, TemporaryKeeps
<1>6. CASE LinkTarget
  BY <1>6, LinkMarkerKeeps, LinkManifestKeeps DEF LinkTarget
<1>7. CASE SyncTarget \/ SyncMember \/ SyncAll
  BY <1>7, SyncKeeps
<1>8. CASE Create \/ Copy
  BY <1>8, CreateKeeps
<1>9. CASE Commit \/ WriteKeyring
  BY <1>9, CommitKeeps, WriteKeyringKeeps
<1>10. CASE Unmark \/ Verify
  BY <1>10, UnmarkKeeps, VerifyKeeps
<1>11. CASE Fail \/ Kill \/ PowerLoss
  BY <1>11, FailKeeps, KillKeeps, PowerLossKeeps
<1>12. CASE AddForeign \/ MoveAway
  BY <1>12, AddForeignKeeps, MoveAwayKeeps
<1> QED
  BY <1>1, <1>2, <1>3, <1>4, <1>5, <1>6, <1>7, <1>8, <1>9, <1>10, <1>11, <1>12 DEF Next

(* The invariant holds in every state of every behaviour.                  *)
THEOREM Standing == Spec => []DInv
  BY InitStands, NextKeeps, PTL DEF Spec

(* The variables of the model of "db backup" keep their types.             *)
THEOREM TypeCorrect == Spec => []TypeOK
<1>1. DInv => TypeOK
  BY DEF DInv
<1> QED
  BY <1>1, Standing, PTL

(* Whenever a manifest can be seen, the members are whole (cli.py 400-428). *)
THEOREM PublishedWhole == Spec => []PublishedIsWhole
<1>1. DInv => PublishedIsWhole
  BY DEF DInv, TypeOK, AllWhole, PublishedIsWhole
<1> QED
  BY <1>1, Standing, PTL

(* What was reported as backed up stays, whole and unmarked, until the     *)
(* operator moves it away (cli.py 287-288, 426-427).                       *)
THEOREM BackupsStay == Spec => []BackedUpStays
<1>1. DInv => BackedUpStays
  BY DEF DInv, TypeOK, Reported, BackedUpStays
<1> QED
  BY <1>1, Standing, PTL

-----------------------------------------------------------------------------
(* Action properties *)

(* Besides a power loss and the operator, nobody removes a foreign file.   *)
LEMMA ForeignStep ==
    ASSUME DInv, [Next]_vars, dir["foreign"] # "none"
    PROVE  dir'["foreign"] # "none" \/ PowerLoss \/ MoveAway
<1> USE DEF Content
<1>0. dir \in Directory /\ "foreign" \in Entry /\ Exists(dir)
  BY DEF DInv, TypeOK, Grounded, Absent, Entry
<1>1. CASE UNCHANGED dir
  BY <1>1
<1>2. ASSUME NEW e \in Entry, NEW c \in Content, Set(e, c),
             e # "foreign" \/ c # "none"
      PROVE  dir'["foreign"] # "none"
  BY <1>0, <1>2 DEF Set, Directory
<1>3. CASE \E e \in Entry : Unlink(e)
  <2>1. PICK e \in Entry : Unlink(e)
    BY <1>3
  <2>2. e # "foreign"
    BY <2>1 DEF Unlink, DInv, Listed, Members, Temporary
  <2> QED
    BY <1>2, <2>1, <2>2 DEF Unlink
<1>4. CASE Rmdir \/ Mkdir
  BY <1>0, <1>1, <1>4 DEF Rmdir, Mkdir, Entries, DInv, Listed, Absent, Exists, Entry
<1>5. CASE WriteTemporary \/ DropTemporary \/ LinkTarget \/ Create \/ Copy \/ Unmark
           \/ AddForeign
  BY <1>2, <1>5 DEF WriteTemporary, DropTemporary, LinkTarget, Create, Copy, Unmark,
     AddForeign, Entry, Temporary
<1>6. CASE Commit \/ WriteKeyring
  <2>1. Filled(dir, "database")["foreign"] = dir["foreign"]
        /\ Filled(dir, "keyring")["foreign"] = dir["foreign"]
        /\ Filled(dir, "database") \in Directory
    BY <1>0, FilledTyped
  <2>2. CASE Commit
    BY <1>0, <2>1, <2>2 DEF Commit, Directory
  <2>3. CASE WriteKeyring
    BY <2>1, <2>3 DEF WriteKeyring, SyncData
  <2> QED
    BY <1>6, <2>2, <2>3
<1>7. CASE Fail
  <2>1. "foreign" \notin Undone /\ Undone \in SUBSET Entry
    BY UndoneApart
  <2>2. Without(dir, Undone)["foreign"] = dir["foreign"]
    BY <1>0, <2>1, WithoutTyped
  <2> QED
    BY <1>0, <1>7, <2>2 DEF Fail, Entries
<1>8. CASE \/ Start \/ Prepare \/ SyncTarget \/ SyncMember \/ SyncAll \/ Verify \/ Kill
  BY <1>1, <1>8 DEF Start, Prepare, SyncTarget, SyncMember, SyncAll, SyncedAtEnd,
     SyncDirectory, Verify, Kill
<1> QED
  BY <1>1, <1>3, <1>4, <1>5, <1>6, <1>7, <1>8 DEF Next, vars

(* No file but the command's own is ever removed (cli.py 289-320).         *)
THEOREM ForeignFilesStay == Spec => ForeignKept
<1>1. DInv /\ [Next]_vars =>
        [dir["foreign"] # "none" =>
            dir'["foreign"] # "none" \/ PowerLoss \/ MoveAway]_vars
  BY ForeignStep
<1> QED
  BY <1>1, Standing, PTL DEF Spec, ForeignKept

-----------------------------------------------------------------------------
(* The refinement *)

LEMMA ShownWhole ==
    ASSUME DInv
    PROVE  Shown = IF Published(dir) THEN "backup" ELSE "nothing"
  BY DEF DInv, TypeOK, AllWhole, Shown

LEMMA InitMaps == Init => Atomic!Init
  BY DEF Init, Atomic!Init, Shown, Published, Absent, Entry

(* Only the link of the manifest, a power loss and the operator change     *)
(* whether there is a manifest, and only the last check what was reported. *)
LEMMA ManifestStays ==
    ASSUME DInv, Next, ~Verify, ~PowerLoss, ~MoveAway,
           ~(step = "linkManifest" /\ LinkTarget)
    PROVE  (Published(dir') <=> Published(dir)) /\ UNCHANGED backedUp
<1> USE DEF Published
<1>0. dir \in Directory /\ "manifest" \in Entry
  BY DEF DInv, TypeOK, Entry
<1>1. CASE UNCHANGED <<dir, backedUp>>
  BY <1>1
<1>2. ASSUME NEW e \in Entry, NEW c \in Content, Set(e, c), e # "manifest"
      PROVE  dir'["manifest"] = dir["manifest"]
  BY <1>0, <1>2 DEF Set, Directory
<1>3. CASE \E e \in Entry : Unlink(e)
  <2>1. PICK e \in Entry : Unlink(e)
    BY <1>3
  <2>2. e # "manifest"
    BY <2>1 DEF Unlink, DInv, Listed, Members, Temporary
  <2> QED
    BY <1>2, <2>1, <2>2 DEF Unlink, Content
<1>4. CASE Rmdir \/ Mkdir
  <2>1. backedUp' = backedUp
    BY <1>4 DEF Rmdir, Mkdir, Then, End
  <2> QED
    BY <1>0, <1>4, <2>1 DEF Rmdir, Mkdir, Entries, DInv, Listed, Absent, Empty, Entry
<1>5. CASE \/ WriteTemporary \/ DropTemporary \/ LinkTarget \/ Create \/ Copy \/ Unmark
           \/ AddForeign
  <2>1. backedUp' = backedUp
    BY <1>5 DEF WriteTemporary, DropTemporary, LinkTarget, Create, Copy, Unmark,
       AddForeign, Then
  <2>2. PICK e \in Entry \ {"manifest"}, c \in Content : Set(e, c)
    BY <1>5 DEF WriteTemporary, DropTemporary, LinkTarget, Create, Copy, Unmark,
       AddForeign, Entry, Temporary, Content
  <2> QED
    BY <1>2, <2>1, <2>2
<1>6. CASE Commit
  <2>1. /\ Filled(dir, "database")["manifest"] = dir["manifest"]
        /\ Filled(dir, "database") \in Directory
    BY <1>0, FilledTyped
  <2> QED
    BY <1>0, <1>6, <2>1 DEF Commit, Then, Directory
<1>7. CASE WriteKeyring
  <2>1. Filled(dir, "keyring")["manifest"] = dir["manifest"]
    BY <1>0, FilledTyped
  <2> QED
    BY <1>7, <2>1 DEF WriteKeyring, SyncData, Then
<1>8. CASE Fail
  <2>1. "manifest" \notin Undone /\ Undone \in SUBSET Entry
    BY UndoneApart
  <2>2. Without(dir, Undone)["manifest"] = dir["manifest"]
    BY <1>0, <2>1, WithoutTyped
  <2>3. Absent["manifest"] = "none"
    BY <1>0 DEF Absent
  <2>4. \/ dir' = Without(dir, Undone)
        \/ dir' = Absent /\ Entries(Without(dir, Undone)) = {}
    BY <1>8 DEF Fail
  <2>5. backedUp' = backedUp
    BY <1>8 DEF Fail, End
  <2> QED
    BY <1>0, <2>2, <2>3, <2>4, <2>5 DEF Entries
<1>9. CASE Start \/ Prepare \/ SyncTarget \/ SyncMember \/ SyncAll \/ Kill
  BY <1>1, <1>9 DEF Start, Prepare, SyncTarget, SyncMember, SyncAll, SyncedAtEnd,
     SyncDirectory, Kill, Then, End
<1> QED
  BY <1>3, <1>4, <1>5, <1>6, <1>7, <1>8, <1>9 DEF Next

(* Every step is one of AtomicBackup or changes nothing that it shows.     *)
LEMMA StepMaps ==
    ASSUME DInv, DInv', [Next]_vars
    PROVE  [Atomic!Next]_(Atomic!vars)
<1> USE DEF Published
<1>1. /\ Shown = IF Published(dir) THEN "backup" ELSE "nothing"
      /\ Shown' = IF Published(dir') THEN "backup" ELSE "nothing"
      /\ backedUp \in BOOLEAN
  <2>1. Shown = IF Published(dir) THEN "backup" ELSE "nothing"
    BY ShownWhole
  <2>2. Shown' = IF Published(dir') THEN "backup" ELSE "nothing"
    BY DEF DInv, TypeOK, AllWhole, Shown, Whole
  <2> QED
    BY <2>1, <2>2 DEF DInv, TypeOK
<1>2. CASE UNCHANGED vars
  BY <1>1, <1>2 DEF vars, Atomic!vars
<1>3. CASE step = "linkManifest" /\ LinkTarget
  <2>1. ~Published(dir) /\ backedUp' = backedUp
    BY <1>3 DEF DInv, TypeOK, Unpublished, BeforeManifest, LinkTarget, Then
  <2>2. dir' = [dir EXCEPT !["manifest"] = "whole"]
    BY <1>3 DEF LinkTarget, Set
  <2>3. Published(dir')
    BY <2>2 DEF DInv, TypeOK, Directory, Entry
  <2> QED
    BY <1>1, <2>1, <2>3 DEF Atomic!Next, Atomic!Publish
<1>4. CASE Verify
  <2>1. Published(dir) /\ Whole(dir) /\ dir' = dir /\ backedUp' = TRUE
    BY <1>4 DEF Verify, DInv, TypeOK, Progress, AfterManifest
  <2> QED
    BY <1>1, <2>1 DEF Atomic!Next, Atomic!Report
<1>5. CASE PowerLoss
  <2>1. dir' \in settled /\ backedUp' = backedUp
    BY <1>5 DEF PowerLoss, End
  <2>2. backedUp => Published(dir) /\ Published(dir')
    BY <2>1 DEF DInv, TypeOK, Reported
  <2> QED
    BY <1>1, <2>1, <2>2 DEF Atomic!Next, Atomic!Publish, Atomic!LoseUnreported, Atomic!vars
<1>6. CASE MoveAway
  <2>1. dir' = Absent /\ backedUp' = FALSE /\ ~Published(Absent)
    BY <1>6 DEF MoveAway, Absent, Entry
  <2> QED
    BY <1>1, <2>1 DEF Atomic!Next, Atomic!TakeAway
<1>7. CASE /\ Next /\ ~Verify /\ ~PowerLoss /\ ~MoveAway
           /\ ~(step = "linkManifest" /\ LinkTarget)
  <2>1. (Published(dir') <=> Published(dir)) /\ backedUp' = backedUp
    BY <1>7, ManifestStays
  <2> QED
    BY <1>1, <2>1 DEF Atomic!vars
<1> QED
  BY <1>2, <1>3, <1>4, <1>5, <1>6, <1>7

(* However it is interrupted, "db backup" implements AtomicBackup: a       *)
(* backup appears in one step and, once reported, stays until the operator *)
(* takes it away (cli.py 400-428).                                         *)
THEOREM BackupIsAtomic == Spec => PublishedAtOnce
<1>1. DInv /\ DInv' /\ [Next]_vars => [Atomic!Next]_(Atomic!vars)
  BY StepMaps
<1> QED
  BY <1>1, InitMaps, Standing, PTL DEF Spec, PublishedAtOnce, Atomic!Spec
=============================================================================
