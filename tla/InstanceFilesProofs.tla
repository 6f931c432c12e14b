------------------------- MODULE InstanceFilesProofs -------------------------
(***************************************************************************)
(* What is promised of an instance directory and of credential files, for  *)
(* any number of commands that race for them and any number of failures,   *)
(* kills and power losses.                                                 *)
(***************************************************************************)
EXTENDS InstanceFiles, TLAPS

-----------------------------------------------------------------------------
(* The inductive invariant *)

\* The steps of an init that has made the directory and not left it.
Inside == (InitStep \ {"mkdir"}) \cup Undoing

Settled(f, p) == kept[f] = {Of(p, "whole")}

\* A process that works in the directory has made it, and every member is of
\* the process that has made the directory.
Owned ==
    /\ \A p \in Installer : pc[p] \in Inside => seen["self"] = Of(p, "whole")
    /\ \A f \in Member : seen[f] # Nothing => seen[f].by = seen["self"].by

\* What may be found of an init is of a step that it has reached.
Made ==
    /\ \A f \in InstanceFile : \A c \in kept[f] :
          c # Nothing => c.by \in Installer /\ pc[c.by] \notin {"start", "mkdir"}
    /\ \A c \in kept["config"] :
          c # Nothing =>
              pc[c.by] \notin {"chmod", "createKeyring", "writeKeyring", "syncKeyring",
                               "createDatabase", "commitDatabase", "createConfig"}

\* How far an init has come, and what of it no power loss can take back.  That
\* is so too of one that was killed, or failed, after it created the
\* configuration and did not remove it.
BuiltOf(p) ==
    /\ pc[p] \notin EnrolStep
    /\ pc[p] = "writeKeyring" => seen["keyring"] = Of(p, "partial")
    /\ pc[p] \in {"syncKeyring", "createDatabase", "commitDatabase"} =>
          seen["keyring"] = Of(p, "whole")
    /\ pc[p] = "commitDatabase" => seen["database"] = Of(p, "partial")
    /\ \/ pc[p] \in {"createConfig", "writeConfig", "return", "ok"}
       \/ pc[p] \in {"killed", "dropConfig"} /\ \E c \in kept["config"] : c.by = p
       \/ pc[p] = "failed" /\ seen["config"].by = p
       => Settled("self", p) /\ Settled("keyring", p) /\ Settled("database", p)
    /\ pc[p] = "createConfig" => kept["config"] = {Nothing}
    /\ pc[p] = "writeConfig" => kept["config"] \subseteq {Nothing, Of(p, "partial")}
    /\ pc[p] \in {"return", "ok"} => kept["config"] \subseteq {Nothing, Of(p, "whole")}

Built == \A p \in Installer : BuiltOf(p)

\* How far a failed init has been undone.
DroppedOf(p) ==
    /\ pc[p] \in {"dropKeyring", "dropDatabase", "rmdir"} => seen["config"].by # p
    /\ pc[p] \in {"dropDatabase", "rmdir"} => seen["keyring"].by # p
    /\ pc[p] = "rmdir" => seen["database"].by # p

Dropped == \A p \in Installer : DroppedOf(p)

Instance == Owned /\ Made /\ Built /\ Dropped

\* What may be found at a target is the file of a command with that target.
Named ==
    \A t \in Target : \A c \in kept[t] :
        c # Nothing => c.by \in Enroller /\ target[c.by] = t /\ pc[c.by] # "start"

\* A command commits over a file that no power loss can take back; only an
\* operator takes it, from a command that has ended.
Delivered ==
    \A p \in Enroller :
        /\ pc[p] \in EnrolStep \ {"unlock"} => target[p] \in Target
        /\ pc[p] = "syncTarget" => seen[target[p]] = Of(p, "whole")
        /\ pc[p] = "commit" \/ p \in active \ collected =>
              target[p] \in Target /\ Settled(target[p], p)
        /\ p \in collected => pc[p] \in Ended
        /\ p \in active => pc[p] \in Ended \cup {"unlock"}

Delivery == Named /\ Delivered

IInv == TypeOK /\ Instance /\ Delivery

-----------------------------------------------------------------------------
(* Files *)

(* A file of a process is never mistaken for none.                         *)
LEMMA Contents ==
    /\ Nothing \in Content /\ Nothing.by = None
    /\ \A p \in Process, d \in {"partial", "whole"} :
          /\ Of(p, d) \in Content /\ Of(p, d) # Nothing
          /\ Of(p, d).by = p /\ Of(p, d).data = d
    /\ \A c \in Content : c # Nothing =>
          c.by \in Process /\ c.by # None /\ c = Of(c.by, c.data)
    /\ \A c \in Content :
          /\ Filled(c) \in Content /\ Filled(c).by = c.by
          /\ Filled(c) # Nothing <=> c # Nothing
    /\ \A p \in Process : Filled(Of(p, "partial")) = Of(p, "whole")
    /\ Filled(Nothing) = Nothing
<1>1. Nothing \in Content /\ Nothing.by = None
  BY DEF Nothing, Content
<1>2. \A p \in Process, d \in {"partial", "whole"} :
          /\ Of(p, d) \in Content /\ Of(p, d) # Nothing
          /\ Of(p, d).by = p /\ Of(p, d).data = d
  BY NameAssumption DEF Nothing, Content, Of
<1>3. \A c \in Content : c # Nothing =>
          c.by \in Process /\ c.by # None /\ c = Of(c.by, c.data)
  BY NameAssumption DEF Content, Of
<1>4. \A c \in Content :
          /\ Filled(c) \in Content /\ Filled(c).by = c.by
          /\ Filled(c) # Nothing <=> c # Nothing
  BY NameAssumption DEF Content, Nothing, Filled
<1>5. \A p \in Process : Filled(Of(p, "partial")) = Of(p, "whole")
  BY NameAssumption DEF Nothing, Of, Filled
<1>6. Filled(Nothing) = Nothing
  BY DEF Filled
<1> QED
  BY <1>1, <1>2, <1>3, <1>4, <1>5, <1>6

LEMMA Names ==
    /\ InstanceFile \subseteq File /\ Target \subseteq File /\ Member \subseteq InstanceFile
    /\ "self" \in InstanceFile /\ "self" \notin Member
    /\ \A f \in InstanceFile : f \notin Target
    /\ \A f \in File : f \in InstanceFile \/ f \in Target
    /\ \A p \in Installer : p \notin Enroller /\ p \in Process /\ p # None
    /\ \A p \in Enroller : p \notin Installer /\ p \in Process /\ p # None
BY NameAssumption DEF InstanceFile, Member, File, Process

LEMMA Files ==
    /\ {"self", "keyring", "database", "config"} = InstanceFile
    /\ {"keyring", "database", "config"} = Member
    /\ \A t \in Target : t \in File /\ t \notin InstanceFile
    /\ \A f \in InstanceFile : f \in File
BY NameAssumption DEF InstanceFile, Member, File

LEMMA Setting ==
    ASSUME TypeOK, NEW f \in File, NEW content \in Content, Set(f, content)
    PROVE  /\ seen' \in [File -> Content] /\ kept' \in [File -> SUBSET Content]
           /\ seen'[f] = content /\ kept'[f] = kept[f] \cup {content}
           /\ \A g \in File \ {f} : seen'[g] = seen[g] /\ kept'[g] = kept[g]
           /\ \A g \in File : seen'[g] \in kept'[g]
BY DEF TypeOK, Set

LEMMA Writing ==
    ASSUME TypeOK, NEW f \in File, WriteData(f)
    PROVE  /\ seen' \in [File -> Content] /\ kept' \in [File -> SUBSET Content]
           /\ seen'[f] = Filled(seen[f]) /\ kept'[f] = {Filled(c) : c \in kept[f]}
           /\ \A g \in File \ {f} : seen'[g] = seen[g] /\ kept'[g] = kept[g]
           /\ \A g \in File : seen'[g] \in kept'[g]
BY Contents DEF TypeOK, WriteData

LEMMA Syncing ==
    ASSUME TypeOK, NEW files \in SUBSET File
    PROVE  /\ SettledFor(files) \in [File -> SUBSET Content]
           /\ \A g \in files : SettledFor(files)[g] = {seen[g]}
           /\ \A g \in File \ files : SettledFor(files)[g] = kept[g]
           /\ \A g \in File : seen[g] \in SettledFor(files)[g]
BY DEF TypeOK, SettledFor

-----------------------------------------------------------------------------
(* The two halves do not disturb each other *)

LEMMA InstanceUntouched ==
    ASSUME Instance,
           \A f \in InstanceFile : seen'[f] = seen[f] /\ kept'[f] = kept[f],
           \A p \in Installer : pc'[p] = pc[p]
    PROVE  Instance'
<1>1. Owned'
  BY Names DEF Instance, Owned
<1>2. Made'
  BY DEF Instance, Made, InstanceFile, Member
<1>3. Built'
  BY DEF Instance, Built, BuiltOf, Settled, InstanceFile, Member
<1>4. Dropped'
  BY DEF Instance, Dropped, DroppedOf, InstanceFile, Member
<1> QED
  BY <1>1, <1>2, <1>3, <1>4 DEF Instance

LEMMA DeliveryUntouched ==
    ASSUME Delivery,
           \A t \in Target : seen'[t] = seen[t] /\ kept'[t] = kept[t],
           \A p \in Enroller : pc'[p] = pc[p],
           UNCHANGED <<target, active, collected>>
    PROVE  Delivery'
<1>1. Named'
  BY DEF Delivery, Named
<1>2. Delivered'
  <2> SUFFICES ASSUME NEW p \in Enroller
               PROVE  /\ pc'[p] \in EnrolStep \ {"unlock"} => target[p] \in Target
                      /\ pc'[p] = "syncTarget" => seen'[target[p]] = Of(p, "whole")
                      /\ pc'[p] = "commit" \/ p \in active \ collected =>
                            target[p] \in Target /\ Settled(target[p], p)'
                      /\ p \in collected => pc'[p] \in Ended
                      /\ p \in active => pc'[p] \in Ended \cup {"unlock"}
    BY DEF Delivered
  <2> QED
    BY DEF Delivery, Delivered, Settled, EnrolStep
<1> QED
  BY <1>1, <1>2 DEF Delivery

LEMMA InitEstablishes == Init => IInv
<1> SUFFICES ASSUME Init PROVE IInv
  OBVIOUS
<1>1. TypeOK
  BY Contents DEF Init, TypeOK
<1>2. Owned /\ Made /\ Built /\ Dropped
  BY Names, Contents
  DEF Init, Owned, Made, Built, BuiltOf, Dropped, DroppedOf, Inside, InitStep, Undoing,
      EnrolStep, InstanceFile, Member
<1>3. Named /\ Delivered
  BY Names DEF Init, Named, Delivered, EnrolStep
<1> QED
  BY <1>1, <1>2, <1>3 DEF IInv, Instance, Delivery

-----------------------------------------------------------------------------
(* init *)

(* Where the directory is not the work of q, nothing is required of q.     *)
LEMMA NotTheOwner ==
    ASSUME IInv, NEW q \in Installer, seen["self"] # Of(q, "whole")
    PROVE  /\ pc[q] \notin Inside \cup {"ok"}
           /\ pc[q] = "killed" => \A c \in kept["config"] : c.by # q
           /\ pc[q] = "failed" => seen["config"].by # q
<1>1. pc[q] \notin Inside
  BY DEF IInv, Instance, Owned
<1>2. ~Settled("self", q)
  BY Names DEF IInv, TypeOK, Settled
<1> QED
  BY <1>1, <1>2 DEF IInv, Instance, Built, BuiltOf

(* So a step of p leaves what is required of the others.                   *)
LEMMA OthersKept ==
    ASSUME IInv, NEW p \in Installer,
           \A q \in Installer \ {p} : seen["self"] # Of(q, "whole") /\ pc'[q] = pc[q],
           \A c \in kept'["config"] :
               c.by \in {None, p} \/ \E d \in kept["config"] : c.by = d.by,
           \A f \in InstanceFile : seen'[f].by \in {None, p, seen[f].by},
           seen'["self"] = Of(p, "whole") \/ pc'[p] \notin Inside,
           \A f \in Member : seen'[f] # Nothing => seen'[f].by = seen'["self"].by,
           BuiltOf(p)', DroppedOf(p)'
    PROVE  Owned' /\ Built' /\ Dropped'
<1>1. \A q \in Installer \ {p} :
         /\ pc'[q] = pc[q] /\ q # None /\ pc[q] \notin Inside \cup {"ok"}
         /\ pc[q] = "killed" => \A c \in kept["config"] : c.by # q
         /\ pc[q] = "failed" => seen["config"].by # q
         /\ pc[q] \notin EnrolStep
  BY NotTheOwner, Names DEF IInv, Instance, Built, BuiltOf
<1>2. Owned'
  BY <1>1 DEF Owned
<1>3. \A q \in Installer \ {p} : BuiltOf(q)'
  <2> TAKE q \in Installer \ {p}
  <2>1. /\ pc'[q] = "killed" => \A c \in kept'["config"] : c.by # q
        /\ pc'[q] = "failed" => seen'["config"].by # q
    BY <1>1, Files
  <2> QED
    BY <1>1, <2>1 DEF BuiltOf, Inside, InitStep, Undoing
<1>4. \A q \in Installer \ {p} : DroppedOf(q)'
  <2> TAKE q \in Installer \ {p}
  <2> QED
    BY <1>1 DEF DroppedOf, Inside, Undoing
<1> QED
  BY <1>2, <1>3, <1>4 DEF Built, Dropped

LEMMA NextSteps ==
    /\ NextInitStep["chmod"] = "createKeyring"
    /\ NextInitStep["createKeyring"] = "writeKeyring"
    /\ NextInitStep["writeKeyring"] = "syncKeyring"
    /\ NextInitStep["syncKeyring"] = "createDatabase"
    /\ NextInitStep["createDatabase"] = "commitDatabase"
    /\ NextInitStep["commitDatabase"] = "createConfig"
    /\ NextInitStep["createConfig"] = "writeConfig"
    /\ NextInitStep["writeConfig"] = "return"
    /\ NextInitStep["return"] = "ok"
    /\ DOMAIN NextInitStep = InitStep \ {"mkdir"}
BY DEF NextInitStep, InitStep

LEMMA GoesTyped ==
    ASSUME TypeOK, NEW p \in Process, NEW step, Goes(p, step),
           step \in {"start"} \cup InitStep \cup Undoing \cup EnrolStep \cup Ended
    PROVE  /\ pc' \in [Process -> {"start"} \cup InitStep \cup Undoing \cup EnrolStep
                                      \cup Ended]
           /\ pc'[p] = step /\ \A q \in Process \ {p} : pc'[q] = pc[q]
BY DEF TypeOK, Goes

(* A step of init is known by what it does to the files and to its own pc. *)
LEMMA OwnerPreserves ==
    ASSUME IInv, NEW p \in Installer, NEW step \in InitStep \cup Undoing \cup Ended,
           Goes(p, step), UNCHANGED <<target, loaded, lock, lockFile, active, collected>>,
           \A q \in Installer \ {p} : seen["self"] # Of(q, "whole"),
           seen' \in [File -> Content], kept' \in [File -> SUBSET Content],
           \A f \in File : seen'[f] \in kept'[f],
           \A t \in Target : seen'[t] = seen[t] /\ kept'[t] = kept[t],
           \A f \in InstanceFile : \A c \in kept'[f] :
               c.by \in {None, p} \/ \E d \in kept[f] : c.by = d.by,
           \A f \in InstanceFile : seen'[f].by \in {None, p, seen[f].by},
           seen'["self"] = Of(p, "whole") \/ step \notin Inside,
           \A f \in Member : seen'[f] # Nothing => seen'[f].by = seen'["self"].by,
           \/ \A f \in InstanceFile : \A c \in kept'[f] : c.by # p
           \/ step \notin {"mkdir"},
           \/ \A c \in kept'["config"] : c.by # p
           \/ step \notin {"chmod", "createKeyring", "writeKeyring", "syncKeyring",
                           "createDatabase", "commitDatabase", "createConfig"},
           BuiltOf(p)', DroppedOf(p)'
    PROVE  IInv'
<1>1. /\ pc' \in [Process -> {"start"} \cup InitStep \cup Undoing \cup EnrolStep
                                 \cup Ended]
      /\ pc'[p] = step /\ \A q \in Process \ {p} : pc'[q] = pc[q]
      /\ p \in Process
  BY GoesTyped, Names DEF IInv
<1>2. TypeOK'
  BY <1>1 DEF IInv, TypeOK
<1>3. Owned' /\ Built' /\ Dropped'
  BY <1>1, OthersKept, Names DEF InstanceFile, Member
<1>4. Made'
  <2>1. \A f \in InstanceFile : \A c \in kept'[f] :
           c # Nothing => c.by \in Installer /\ pc'[c.by] \notin {"start", "mkdir"}
    <3> SUFFICES ASSUME NEW f \in InstanceFile, NEW c \in kept'[f], c # Nothing
                 PROVE  c.by \in Installer /\ pc'[c.by] \notin {"start", "mkdir"}
      OBVIOUS
    <3>1. c \in Content /\ c.by # None /\ f \in File
      BY Names, Contents
    <3>2. CASE c.by = p
      BY <1>1, <3>2 DEF InitStep, Undoing, Ended
    <3>3. CASE c.by # p
      <4>1. PICK d \in kept[f] : c.by = d.by
        BY <3>1, <3>3
      <4>2. d # Nothing
        BY <3>1, <4>1, Contents
      <4> QED
        BY <1>1, <3>3, <4>1, <4>2, Names DEF IInv, Instance, Made
    <3> QED
      BY <3>2, <3>3
  <2>2. \A c \in kept'["config"] :
           c # Nothing =>
               pc'[c.by] \notin {"chmod", "createKeyring", "writeKeyring", "syncKeyring",
                                 "createDatabase", "commitDatabase", "createConfig"}
    <3> SUFFICES ASSUME NEW c \in kept'["config"], c # Nothing, c.by # p
                 PROVE  pc'[c.by] \notin {"chmod", "createKeyring", "writeKeyring", "syncKeyring",
                                 "createDatabase", "commitDatabase", "createConfig"}
      BY <1>1
    <3>1. c \in Content /\ c.by # None /\ "config" \in InstanceFile
      BY Names, Contents DEF InstanceFile, Member
    <3>2. PICK d \in kept["config"] : c.by = d.by
      BY <3>1
    <3>3. d # Nothing
      BY <3>1, <3>2, Contents
    <3> QED
      BY <1>1, <3>1, <3>2, <3>3, Names DEF IInv, Instance, Made
  <2> QED
    BY <2>1, <2>2 DEF Made
<1>5. Delivery'
  <2>1. \A q \in Enroller : pc'[q] = pc[q]
    BY <1>1, Names
  <2> QED
    BY <2>1, DeliveryUntouched DEF IInv
<1> QED
  BY <1>2, <1>3, <1>4, <1>5 DEF IInv, Instance

(* What is known of the one process that is in the directory.              *)
LEMMA Owner ==
    ASSUME IInv, NEW p \in Installer, pc[p] \in Inside
    PROVE  /\ seen["self"] = Of(p, "whole") /\ Of(p, "whole").by = p
           /\ \A q \in Installer \ {p} : seen["self"] # Of(q, "whole")
           /\ \A f \in InstanceFile : seen[f].by \in {None, p}
<1>1. seen["self"] = Of(p, "whole") /\ Of(p, "whole").by = p
  BY Names, Contents DEF IInv, Instance, Owned
<1>2. \A q \in Installer \ {p} : seen["self"] # Of(q, "whole")
  BY <1>1, Names, Contents
<1>3. \A f \in InstanceFile : seen[f].by \in {None, p}
  BY <1>1, Contents DEF IInv, Instance, Owned, InstanceFile
<1> QED
  BY <1>1, <1>2, <1>3

(* The steps that change no file.                                          *)
LEMMA QuietInitPreserves ==
    ASSUME IInv, NEW p \in Installer,
           \/ StartInit(p) \/ Chmod(p) \/ Return(p) \/ FailInit(p)
           \/ Mkdir(p) /\ Exists("self")
    PROVE  IInv'
<1>1. PICK step \in {"mkdir", "createKeyring", "ok", "dropConfig", "failed"} :
         /\ Goes(p, step)
         /\ UNCHANGED <<seen, kept, target, loaded, lock, lockFile, active, collected>>
         /\ step = "mkdir" => pc[p] = "start"
         /\ step = "createKeyring" => pc[p] = "chmod"
         /\ step = "ok" => pc[p] = "return"
         /\ step = "dropConfig" => pc[p] \in InitStep \ {"mkdir", "chmod"}
         /\ step = "failed" => pc[p] \in {"mkdir", "chmod"} \cup Undoing
  BY NextSteps DEF StartInit, Chmod, Return, FailInit, Mkdir, Reaches
<1>2. /\ pc'[p] = step /\ \A q \in Process \ {p} : pc'[q] = pc[q]
      /\ p \in Process
  BY <1>1, GoesTyped, Names DEF IInv, InitStep, Undoing, Ended
<1>3. pc[p] \in {"start", "mkdir"} =>
         /\ \A f \in InstanceFile : \A c \in kept[f] : c.by # p
         /\ \A f \in InstanceFile : seen[f].by # p
  BY Contents, Names, Files DEF IInv, TypeOK, Instance, Made
<1>4. BuiltOf(p)' /\ DroppedOf(p)'
  <2>1. seen["config"] \in kept["config"]
    BY Files DEF IInv, TypeOK
  <2>2. ASSUME NEW c \in kept["config"], c.by = p, step \in {"dropConfig", "failed"},
               pc[p] \in InitStep \cup {"dropConfig"}
        PROVE  Settled("self", p) /\ Settled("keyring", p) /\ Settled("database", p)
    <3>1. c # Nothing
      BY <2>2, Contents, Names
    <3>2. pc[p] \notin {"start", "mkdir", "chmod", "createKeyring", "writeKeyring",
                        "syncKeyring", "createDatabase", "commitDatabase", "createConfig"}
      BY <2>2, <3>1, Files DEF IInv, Instance, Made
    <3>3. pc[p] \in {"writeConfig", "return", "dropConfig"}
      BY <2>2, <3>2 DEF InitStep
    <3> QED
      BY <2>2, <3>3 DEF IInv, Instance, Built, BuiltOf
  <2>3. step = "failed" /\ seen["config"].by = p => pc[p] \in InitStep \cup {"dropConfig"}
    BY <1>1 DEF IInv, Instance, Dropped, DroppedOf, Undoing, InitStep
  <2>4. step \in {"dropConfig", "failed"} => BuiltOf(p)'
    BY <1>1, <1>2, <2>1, <2>2, <2>3 DEF BuiltOf, Settled, EnrolStep
  <2>5. step \notin {"dropConfig", "failed"} => BuiltOf(p)'
    BY <1>1, <1>2 DEF IInv, Instance, Built, BuiltOf, Settled, EnrolStep
  <2> QED
    BY <1>2, <2>4, <2>5 DEF DroppedOf
<1>5. Owned'
  BY <1>1, <1>2, Names DEF IInv, Instance, Owned, Inside, InitStep, Undoing
<1>6. \A q \in Installer \ {p} : BuiltOf(q)' /\ DroppedOf(q)'
  BY <1>1, <1>2, Names DEF IInv, Instance, Built, BuiltOf, Dropped, DroppedOf, Settled
<1>7. Made'
  BY <1>1, <1>2, <1>3, Files, Names DEF IInv, Instance, Made
<1>8. Delivery'
  BY <1>1, <1>2, Names, DeliveryUntouched DEF IInv
<1>9. TypeOK'
  BY <1>1, GoesTyped, Names DEF IInv, TypeOK, InitStep, Undoing, Ended
<1> QED
  BY <1>4, <1>5, <1>6, <1>7, <1>8, <1>9 DEF IInv, Instance, Built, Dropped

LEMMA MkdirPreserves ==
    ASSUME IInv, NEW p \in Installer, Mkdir(p), ~Exists("self")
    PROVE  IInv'
<1>1. /\ Goes(p, "chmod") /\ Set("self", Of(p, "whole"))
      /\ seen["self"] = Nothing /\ pc[p] = "mkdir"
      /\ UNCHANGED <<target, loaded, lock, lockFile, active, collected>>
  BY DEF Mkdir, Exists
<1>2. \A q \in Installer : seen["self"] # Of(q, "whole")
  BY <1>1, Contents, Names
<1>3. \A f \in Member : seen[f] = Nothing
  BY <1>1, Contents, Names DEF IInv, TypeOK, Instance, Owned
<1>4. \A f \in InstanceFile : \A c \in kept[f] : c.by # p
  BY <1>1, Contents, Names, Files DEF IInv, TypeOK, Instance, Made
<1>5. /\ seen' \in [File -> Content] /\ kept' \in [File -> SUBSET Content]
      /\ seen'["self"] = Of(p, "whole") /\ kept'["self"] = kept["self"] \cup {Of(p, "whole")}
      /\ \A g \in File \ {"self"} : seen'[g] = seen[g] /\ kept'[g] = kept[g]
      /\ \A g \in File : seen'[g] \in kept'[g]
      /\ Of(p, "whole").by = p
  BY <1>1, Setting, Contents, Names DEF IInv
<1>6. pc'[p] = "chmod"
  BY <1>1, GoesTyped, Names DEF IInv, InitStep
<1>7. BuiltOf(p)' /\ DroppedOf(p)'
  BY <1>6 DEF BuiltOf, DroppedOf, EnrolStep
<1> QED
  BY <1>1, <1>2, <1>3, <1>4, <1>5, <1>7, OwnerPreserves, Files DEF InitStep

(* A member, or the directory, is created or removed.                      *)
LEMMA SetPreserves ==
    ASSUME IInv, NEW p \in Installer, pc[p] \in Inside,
           NEW step \in InitStep \cup Undoing \cup Ended, step # "mkdir",
           NEW f \in InstanceFile, NEW content \in {Nothing, Of(p, "partial")},
           Goes(p, step), Set(f, content), UNCHANGED <<target, loaded, lock, lockFile, active, collected>>,
           f = "self" => content = Nothing /\ step \notin Inside
                            /\ \A g \in Member : seen[g] = Nothing,
           \/ content = Nothing /\ step \in Undoing \cup Ended
           \/ f # "config"
           \/ step = "writeConfig",
           f # "config" /\ step \in InitStep => pc[p] \in InitStep
               /\ \A c \in kept["config"] : c # Nothing => c.by # p,
           BuiltOf(p)', DroppedOf(p)'
    PROVE  IInv'
<1>1. /\ seen["self"] = Of(p, "whole") /\ Of(p, "whole").by = p
      /\ \A q \in Installer \ {p} : seen["self"] # Of(q, "whole")
      /\ \A g \in InstanceFile : seen[g].by \in {None, p}
  BY Owner
<1>2. content \in Content /\ content.by \in {None, p} /\ f \in File
  BY Contents, Names, Files
<1>3. /\ seen' \in [File -> Content] /\ kept' \in [File -> SUBSET Content]
      /\ seen'[f] = content /\ kept'[f] = kept[f] \cup {content}
      /\ \A g \in File \ {f} : seen'[g] = seen[g] /\ kept'[g] = kept[g]
      /\ \A g \in File : seen'[g] \in kept'[g]
  BY <1>2, Setting DEF IInv
<1>4. \A g \in Member : seen'[g] # Nothing => seen'[g].by = seen'["self"].by
  <2>1. CASE f = "self"
    BY <1>3, <2>1, Names
  <2>2. CASE f # "self"
    <3>1. seen'["self"].by = p
      BY <1>1, <1>3, <2>2, Names
    <3>2. \A g \in Member : seen[g] # Nothing => seen[g].by = p
      BY <1>1 DEF IInv, Instance, Owned
    <3>3. content # Nothing => content.by = p
      BY Contents, Names
    <3> QED
      BY <1>3, <3>1, <3>2, <3>3, Names
  <2> QED
    BY <2>1, <2>2
<1>5. \A g \in InstanceFile : \A c \in kept'[g] :
         c.by \in {None, p} \/ \E d \in kept[g] : c.by = d.by
  BY <1>2, <1>3, Files
<1>6. \A g \in InstanceFile : seen'[g].by \in {None, p, seen[g].by}
  BY <1>2, <1>3, Files
<1>7. seen'["self"] = Of(p, "whole") \/ step \notin Inside
  BY <1>1, <1>3, Names
<1>8. \/ \A c \in kept'["config"] : c.by # p
      \/ step \notin {"chmod", "createKeyring", "writeKeyring", "syncKeyring",
                      "createDatabase", "commitDatabase", "createConfig"}
  <2> SUFFICES ASSUME step \in {"chmod", "createKeyring", "writeKeyring", "syncKeyring",
                                "createDatabase", "commitDatabase", "createConfig"}
               PROVE  \A c \in kept'["config"] : c.by # p
    OBVIOUS
  <2>1. step \in InitStep /\ step \notin Undoing \cup Ended /\ step # "writeConfig"
    BY DEF InitStep, Undoing, Ended
  <2>2. f # "config"
    BY <2>1
  <2>3. kept'["config"] = kept["config"] /\ \A c \in kept["config"] : c # Nothing => c.by # p
    BY <1>3, <2>1, <2>2, Files
  <2> QED
    BY <2>3, Contents, Names
<1>9. \A t \in Target : seen'[t] = seen[t] /\ kept'[t] = kept[t]
  BY <1>3, Files
<1> QED
  BY <1>1, <1>3, <1>4, <1>5, <1>6, <1>7, <1>8, <1>9, OwnerPreserves

LEMMA CreatePreserves ==
    ASSUME IInv, NEW p \in Installer, CreateMember(p)
    PROVE  IInv'
<1>1. PICK f \in Member :
         /\ Reaches(p, [keyring |-> "createKeyring", database |-> "createDatabase",
                        config |-> "createConfig"][f])
         /\ seen[f] = Nothing /\ Set(f, Of(p, "partial"))
         /\ UNCHANGED <<target, loaded, lock, lockFile, active, collected>>
  BY DEF CreateMember, Exists
<1>2. \/ /\ f = "keyring" /\ pc[p] = "createKeyring" /\ Goes(p, "writeKeyring")
      \/ /\ f = "database" /\ pc[p] = "createDatabase" /\ Goes(p, "commitDatabase")
      \/ /\ f = "config" /\ pc[p] = "createConfig" /\ Goes(p, "writeConfig")
  BY <1>1, NextSteps DEF Reaches, Member
<1>3. PICK step \in {"writeKeyring", "commitDatabase", "writeConfig"} :
         /\ Goes(p, step)
         /\ step = "writeKeyring" => f = "keyring" /\ pc[p] = "createKeyring"
         /\ step = "commitDatabase" => f = "database" /\ pc[p] = "createDatabase"
         /\ step = "writeConfig" => f = "config" /\ pc[p] = "createConfig"
  BY <1>2
<1>4. pc'[p] = step /\ pc[p] \in Inside /\ pc[p] \in InitStep
  BY <1>3, GoesTyped, Names DEF IInv, InitStep, Inside
<1>5. /\ seen'[f] = Of(p, "partial") /\ kept'[f] = kept[f] \cup {Of(p, "partial")}
      /\ \A g \in File \ {f} : seen'[g] = seen[g] /\ kept'[g] = kept[g]
  BY <1>1, Setting, Contents, Names DEF IInv
<1>6. BuiltOf(p)' /\ DroppedOf(p)'
  BY <1>3, <1>4, <1>5, Files
  DEF IInv, Instance, Built, BuiltOf, DroppedOf, Settled, EnrolStep
<1>7. f # "config" => \A c \in kept["config"] : c # Nothing => c.by # p
  BY <1>3 DEF IInv, Instance, Made
<1> QED
  BY <1>1, <1>3, <1>4, <1>6, <1>7, SetPreserves, Names DEF InitStep

LEMMA DropPreserves ==
    ASSUME IInv, NEW p \in Installer, Drop(p)
    PROVE  IInv'
<1>1. PICK f \in InstanceFile, step \in {"dropKeyring", "dropDatabase", "rmdir", "failed"} :
         /\ Goes(p, step) /\ Set(f, Nothing)
         /\ UNCHANGED <<target, loaded, lock, lockFile, active, collected>>
         /\ pc[p] \in Undoing
         /\ step = "dropKeyring" => f = "config" /\ pc[p] = "dropConfig"
         /\ step = "dropDatabase" => f = "keyring" /\ pc[p] = "dropKeyring"
         /\ step = "rmdir" => f = "database" /\ pc[p] = "dropDatabase"
         /\ step = "failed" => f = "self" /\ pc[p] = "rmdir"
  BY Files DEF Drop, Undoing
<1>2. pc'[p] = step /\ pc[p] \in Inside
  BY <1>1, GoesTyped, Names DEF IInv, Undoing, Ended, Inside
<1>3. /\ seen'[f].by # p
      /\ \A g \in File \ {f} : seen'[g] = seen[g] /\ kept'[g] = kept[g]
  BY <1>1, Setting, Contents, Names DEF IInv
<1>4. BuiltOf(p)' /\ DroppedOf(p)'
  BY <1>1, <1>2, <1>3, Files
  DEF IInv, Instance, Dropped, BuiltOf, DroppedOf, EnrolStep
<1>5. f = "self" => step \notin Inside /\ \A g \in Member : seen[g] = Nothing
  <2> SUFFICES ASSUME f = "self"
               PROVE  step \notin Inside /\ \A g \in Member : seen[g] = Nothing
    OBVIOUS
  <2>1. step = "failed" /\ pc[p] = "rmdir"
    BY <1>1
  <2>2. \A g \in Member : seen[g].by # p
    BY <2>1, Files DEF IInv, Instance, Dropped, DroppedOf
  <2>3. \A g \in Member : seen[g].by = None
    BY <1>2, <2>2, Owner, Names
  <2> QED
    BY <2>1, <2>3, Contents, Names DEF IInv, TypeOK, Inside, InitStep, Undoing
<1> QED
  BY <1>1, <1>2, <1>4, <1>5, SetPreserves DEF Undoing, Ended, InitStep

LEMMA WritePreserves ==
    ASSUME IInv, NEW p \in Installer, WriteMember(p)
    PROVE  IInv'
<1>1. PICK f \in Member, step \in {"syncKeyring", "return"} :
         /\ Goes(p, step) /\ WriteData(f)
         /\ UNCHANGED <<target, loaded, lock, lockFile, active, collected>>
         /\ step = "syncKeyring" => f = "keyring" /\ pc[p] = "writeKeyring"
         /\ step = "return" => f = "config" /\ pc[p] = "writeConfig"
  BY NextSteps, Files DEF WriteMember, Reaches
<1>2. pc'[p] = step /\ pc[p] \in Inside /\ step \in InitStep
  BY <1>1, GoesTyped, Names DEF IInv, InitStep, Inside
<1>3. /\ seen["self"] = Of(p, "whole") /\ Of(p, "whole").by = p
      /\ \A q \in Installer \ {p} : seen["self"] # Of(q, "whole")
  BY <1>2, Owner
<1>4. /\ seen' \in [File -> Content] /\ kept' \in [File -> SUBSET Content]
      /\ seen'[f] = Filled(seen[f]) /\ kept'[f] = {Filled(c) : c \in kept[f]}
      /\ \A g \in File \ {f} : seen'[g] = seen[g] /\ kept'[g] = kept[g]
      /\ \A g \in File : seen'[g] \in kept'[g]
  BY <1>1, Writing, Names DEF IInv
<1>5. /\ seen[f] \in Content /\ Filled(seen[f]).by = seen[f].by
      /\ Filled(seen[f]) # Nothing => seen[f] # Nothing
      /\ \A c \in kept[f] : c \in Content /\ Filled(c).by = c.by
  BY Contents, Names DEF IInv, TypeOK
<1>6. BuiltOf(p)' /\ DroppedOf(p)'
  BY <1>1, <1>2, <1>4, Files, Contents, Names
  DEF IInv, Instance, Built, BuiltOf, DroppedOf, Settled, EnrolStep
<1>7. /\ \A g \in InstanceFile : \A c \in kept'[g] :
            c.by \in {None, p} \/ \E d \in kept[g] : c.by = d.by
      /\ \A g \in InstanceFile : seen'[g].by \in {None, p, seen[g].by}
  BY <1>4, <1>5, Names
<1>8. \A g \in Member : seen'[g] # Nothing => seen'[g].by = seen'["self"].by
  BY <1>4, <1>5, Names DEF IInv, Instance, Owned
<1>9. \/ \A c \in kept'["config"] : c.by # p
      \/ step \notin {"chmod", "createKeyring", "writeKeyring", "syncKeyring",
                      "createDatabase", "commitDatabase", "createConfig"}
  <2>1. CASE step = "syncKeyring"
    <3>1. kept'["config"] = kept["config"]
      BY <1>1, <1>4, <2>1, Files
    <3>2. \A c \in kept["config"] : c # Nothing => c.by # p
      BY <1>1, <2>1 DEF IInv, Instance, Made
    <3> QED
      BY <3>1, <3>2, Contents, Names
  <2> QED
    BY <1>1, <2>1
<1>10. /\ seen'["self"] = Of(p, "whole")
       /\ \A t \in Target : seen'[t] = seen[t] /\ kept'[t] = kept[t]
  BY <1>3, <1>4, Files, Names
<1> QED
  BY <1>1, <1>2, <1>3, <1>4, <1>6, <1>7, <1>8, <1>9, <1>10, OwnerPreserves

(* The two syncs of the directory.                                         *)
LEMMA SyncPreserves ==
    ASSUME IInv, NEW p \in Installer, SyncKeyring(p) \/ CommitDatabase(p)
    PROVE  IInv'
<1>1. PICK step \in {"createDatabase", "createConfig"} :
         /\ Goes(p, step) /\ UNCHANGED <<target, loaded, lock, lockFile, active, collected>>
         /\ step = "createDatabase" => pc[p] = "syncKeyring" /\ SyncKeyring(p)
         /\ step = "createConfig" => pc[p] = "commitDatabase" /\ CommitDatabase(p)
  BY NextSteps DEF SyncKeyring, CommitDatabase, Reaches
<1>2. pc'[p] = step /\ pc[p] \in Inside /\ step \in InitStep /\ p \in Process
  BY <1>1, GoesTyped, Names DEF IInv, InitStep, Inside
<1>3. /\ seen["self"] = Of(p, "whole") /\ Of(p, "whole").by = p
      /\ \A q \in Installer \ {p} : seen["self"] # Of(q, "whole")
  BY <1>2, Owner
<1>4. seen["keyring"] = Of(p, "whole")
  BY <1>1 DEF IInv, Instance, Built, BuiltOf
<1>5. /\ seen' \in [File -> Content] /\ kept' \in [File -> SUBSET Content]
      /\ \A g \in InstanceFile : kept'[g] = {seen'[g]} /\ seen'[g].by = seen[g].by
      /\ \A g \in InstanceFile : seen'[g] # Nothing => seen[g] # Nothing
      /\ \A g \in Target : seen'[g] = seen[g] /\ kept'[g] = kept[g]
      /\ seen'["self"] = seen["self"] /\ seen'["keyring"] = seen["keyring"]
      /\ step = "createConfig" => seen'["database"] = Of(p, "whole")
  <2>0. /\ seen \in [File -> Content] /\ kept \in [File -> SUBSET Content]
        /\ SettledFor(InstanceFile) \in [File -> SUBSET Content]
        /\ \A g \in InstanceFile : SettledFor(InstanceFile)[g] = {seen[g]}
        /\ \A g \in Target : SettledFor(InstanceFile)[g] = kept[g]
    BY Syncing, Names, Files DEF IInv, TypeOK
  <2>1. CASE step = "createDatabase"
    BY <1>1, <2>0, <2>1 DEF SyncKeyring, SyncEntries
  <2>2. CASE step = "createConfig"
    <3>1. /\ seen' = [seen EXCEPT !["database"] = Filled(seen["database"])]
          /\ kept' = [SettledFor(InstanceFile) EXCEPT
                          !["database"] = {Filled(seen["database"])}]
      BY <1>1, <2>2 DEF CommitDatabase
    <3>2. /\ Filled(seen["database"]) = Of(p, "whole")
          /\ Filled(seen["database"]).by = seen["database"].by
          /\ Filled(seen["database"]) \in Content /\ seen["database"] # Nothing
      BY <1>1, <1>2, <2>0, <2>2, Contents, Files
      DEF IInv, Instance, Built, BuiltOf
    <3> QED
      BY <2>0, <2>2, <3>1, <3>2, Files
  <2> QED
    BY <2>1, <2>2
<1>7. \A g \in InstanceFile : seen[g] \in kept[g]
  BY Files DEF IInv, TypeOK
<1>8. \A g \in Member : seen'[g] # Nothing => seen'[g].by = seen'["self"].by
  BY <1>5, Names DEF IInv, Instance, Owned
<1>9. \A c \in kept'["config"] : c.by # p
  <2>1. \A c \in kept["config"] : c # Nothing => c.by # p
    BY <1>1 DEF IInv, Instance, Made
  <2>2. seen["config"].by # p
    BY <1>7, <2>1, Contents, Names, Files
  <2> QED
    BY <1>5, <2>2, Files
<1>6. BuiltOf(p)' /\ DroppedOf(p)'
  <2>1. kept'["config"] = {Nothing}
    <3>1. kept'["config"] = {seen'["config"]} /\ seen'["config"].by # p
      BY <1>5, <1>9, Files
    <3>2. seen'["config"] \in Content /\ seen'["self"].by = p
      BY <1>3, <1>5, Files, Names
    <3>3. seen'["config"] = Nothing
      BY <1>8, <3>1, <3>2, Files
    <3> QED
      BY <3>1, <3>3
  <2> QED
    BY <1>2, <1>3, <1>4, <1>5, <2>1, Files DEF BuiltOf, DroppedOf, Settled, EnrolStep
<1>10. \A f \in File : seen'[f] \in kept'[f]
  BY <1>5, Names DEF IInv, TypeOK
<1> QED
  BY <1>1, <1>2, <1>3, <1>5, <1>6, <1>7, <1>8, <1>9, <1>10, OwnerPreserves

LEMMA InitPreserves ==
    ASSUME IInv, NEW p \in Installer, InitDoes(p)
    PROVE  IInv'
BY QuietInitPreserves, MkdirPreserves, CreatePreserves, WritePreserves, SyncPreserves,
   DropPreserves
DEF InitDoes

-----------------------------------------------------------------------------
(* client create and client rotate *)

(* The steps that change no file.                                          *)
LEMMA QuietEnrolPreserves ==
    ASSUME IInv, NEW p \in Enroller,
           \/ StartEnrol(p) \/ Load(p) \/ OpenLock(p) \/ Lock(p) \/ Commit(p)
           \/ Unlock(p) \/ FailEnrol(p)
           \/ LinkTarget(p) /\ Exists(target[p])
    PROVE  IInv'
<1>1. /\ TypeOK /\ Instance /\ Named /\ Delivered /\ p \in Process
      /\ \A q \in Enroller : q \in Process
      /\ target \in [Enroller -> Target \cup {None}]
      /\ UNCHANGED <<seen, kept, collected>>
  BY Names DEF IInv, Delivery, TypeOK, StartEnrol, Load, OpenLock, Lock, Commit, Unlock, FailEnrol,
               LinkTarget
<1>2. PICK step \in {"load", "open", "lock", "link", "unlock", "ok", "failed"} :
         /\ Goes(p, step)
         /\ \/ target' = target /\ pc[p] # "start"
            \/ /\ pc[p] = "start" /\ step \in {"failed", "load"}
               /\ \E t \in Target : target' = [target EXCEPT ![p] = t]
         /\ \/ active' = active /\ step # "unlock"
            \/ active' = active \cup {p} /\ step = "unlock"
         /\ step = "load" => pc[p] = "start"
         /\ step = "open" => pc[p] = "load"
         /\ step = "lock" => pc[p] = "open"
         /\ step = "link" => pc[p] = "lock"
         /\ step = "unlock" => pc[p] = "commit"
         /\ step = "ok" => pc[p] = "unlock"
  <2>1. CASE StartEnrol(p)
    BY <2>1 DEF StartEnrol
  <2>2. CASE Load(p)
    BY <2>2 DEF Load
  <2>8. CASE OpenLock(p)
    BY <2>8 DEF OpenLock
  <2>3. CASE Lock(p)
    BY <2>3 DEF Lock
  <2>4. CASE Commit(p)
    BY <2>4 DEF Commit
  <2>5. CASE Unlock(p)
    BY <2>5 DEF Unlock
  <2>6. CASE FailEnrol(p)
    BY <2>6 DEF FailEnrol, EnrolStep
  <2>7. CASE LinkTarget(p) /\ Exists(target[p])
    BY <2>7 DEF LinkTarget
  <2> QED
    BY <2>1, <2>2, <2>3, <2>4, <2>5, <2>6, <2>7, <2>8
<1>3. /\ pc' \in [Process -> {"start"} \cup InitStep \cup Undoing \cup EnrolStep
                                 \cup Ended]
      /\ pc'[p] = step /\ \A q \in Process \ {p} : pc'[q] = pc[q]
      /\ \A q \in Installer : pc'[q] = pc[q]
  BY <1>1, <1>2, GoesTyped, Names DEF EnrolStep, Ended
<1>4. lock' \in Enroller \cup {None} /\ lockFile' \in BOOLEAN
  BY <1>1
  DEF StartEnrol, Load, OpenLock, Lock, LinkTarget, Commit, Unlock, FailEnrol, FreedBy,
      TypeOK
<1>12. loaded' \in [Enroller -> Process \cup {None}]
  <2>1. seen["keyring"].by \in Process \cup {None}
    BY <1>1, Files, Contents DEF TypeOK
  <2> QED
    BY <1>1, <2>1
    DEF StartEnrol, Load, OpenLock, Lock, LinkTarget, Commit, Unlock, FailEnrol, TypeOK
<1>5. Instance'
  BY <1>1, <1>3, InstanceUntouched
<1>6. Named'
  BY <1>1, <1>2, <1>3 DEF Named
<1>7. \A q \in Enroller \ {p} : target'[q] = target[q] /\ pc'[q] = pc[q]
                                 /\ (q \in active' <=> q \in active)
  BY <1>1, <1>2, <1>3
<1>8. \A q \in Enroller \ {p} :
         /\ pc'[q] \in EnrolStep \ {"unlock"} => target'[q] \in Target
         /\ pc'[q] = "syncTarget" => seen'[target'[q]] = Of(q, "whole")
         /\ pc'[q] = "commit" \/ q \in active' \ collected' =>
               target'[q] \in Target /\ kept'[target'[q]] = {Of(q, "whole")}
         /\ q \in collected' => pc'[q] \in Ended
         /\ q \in active' => pc'[q] \in Ended \cup {"unlock"}
  BY <1>1, <1>7 DEF Delivered, Settled
<1>9. /\ pc'[p] \in EnrolStep \ {"unlock"} => target'[p] \in Target
      /\ pc'[p] \notin {"commit", "syncTarget"}
      /\ p \in active' \ collected' =>
            target'[p] \in Target /\ kept'[target'[p]] = {Of(p, "whole")}
      /\ p \in collected' => pc'[p] \in Ended
      /\ p \in active' => pc'[p] \in Ended \cup {"unlock"}
  <2>1. /\ pc[p] \in EnrolStep \ {"unlock"} => target[p] \in Target
        /\ pc[p] = "commit" \/ p \in active \ collected =>
              target[p] \in Target /\ kept[target[p]] = {Of(p, "whole")}
        /\ p \in collected => pc[p] \in Ended
        /\ p \in active => pc[p] \in Ended \cup {"unlock"}
    BY <1>1 DEF Delivered, Settled
  <2>2. pc[p] = "start" => p \notin active /\ p \notin collected
    BY <2>1 DEF Ended
  <2>3. step \in {"load", "failed"} /\ pc[p] = "start" => target'[p] \in Target
    BY <1>1, <1>2
  <2> QED
    BY <1>1, <1>2, <1>3, <2>1, <2>2, <2>3 DEF EnrolStep, Ended
<1>10. Delivered'
  BY <1>8, <1>9 DEF Delivered, Settled
<1>11. TypeOK'
  BY <1>1, <1>2, <1>3, <1>4, <1>12 DEF TypeOK
<1> QED
  BY <1>5, <1>6, <1>10, <1>11 DEF IInv, Delivery

(* The file of a credential is created and settled.                        *)
LEMMA DeliverPreserves ==
    ASSUME IInv, NEW p \in Enroller,
           (LinkTarget(p) /\ ~Exists(target[p])) \/ SyncTarget(p)
    PROVE  IInv'
<1>1. /\ TypeOK /\ Instance /\ Named /\ Delivered /\ p \in Process
      /\ \A q \in Enroller : q \in Process
      /\ UNCHANGED <<target, loaded, lock, lockFile, active, collected>>
      /\ seen \in [File -> Content] /\ kept \in [File -> SUBSET Content]
      /\ \A f \in File : seen[f] \in kept[f]
  BY Names DEF IInv, Delivery, TypeOK, LinkTarget, SyncTarget
<1>2. /\ pc[p] \in {"link", "syncTarget"} /\ target[p] \in Target /\ target[p] \in File
      /\ p \notin active /\ p \notin collected
  BY <1>1, Names DEF LinkTarget, SyncTarget, Delivered, EnrolStep, Ended
<1>3. CASE LinkTarget(p) /\ ~Exists(target[p])
  <2>1. /\ Goes(p, "syncTarget") /\ Set(target[p], Of(p, "whole"))
        /\ seen[target[p]] = Nothing
    BY <1>3 DEF LinkTarget, Exists
  <2>2. /\ pc' \in [Process -> {"start"} \cup InitStep \cup Undoing \cup EnrolStep
                                   \cup Ended]
        /\ pc'[p] = "syncTarget" /\ \A q \in Process \ {p} : pc'[q] = pc[q]
        /\ \A q \in Installer : pc'[q] = pc[q]
    BY <1>1, <2>1, GoesTyped, Names DEF EnrolStep
  <2>3. /\ seen' \in [File -> Content] /\ kept' \in [File -> SUBSET Content]
        /\ seen'[target[p]] = Of(p, "whole")
        /\ kept'[target[p]] = kept[target[p]] \cup {Of(p, "whole")}
        /\ \A g \in File \ {target[p]} : seen'[g] = seen[g] /\ kept'[g] = kept[g]
        /\ \A g \in File : seen'[g] \in kept'[g]
        /\ Of(p, "whole").by = p
    BY <1>1, <1>2, <2>1, Setting, Contents
  <2>4. Instance'
    BY <1>1, <1>2, <2>2, <2>3, InstanceUntouched, Files
  <2>5. Named'
    BY <1>1, <1>2, <2>2, <2>3, Names DEF Named
  <2>6. \A q \in Enroller \ {p} :
           pc[q] \in {"syncTarget", "commit"} \/ q \in active \ collected =>
               target[q] \in File \ {target[p]}
    BY <1>1, <2>1, Contents, Names DEF Delivered, Settled, EnrolStep
  <2>7. Delivered'
    BY <1>1, <1>2, <2>2, <2>3, <2>6 DEF Delivered, Settled, EnrolStep
  <2>8. TypeOK'
    BY <1>1, <2>2, <2>3 DEF TypeOK
  <2> QED
    BY <2>4, <2>5, <2>7, <2>8 DEF IInv, Delivery
<1>4. CASE SyncTarget(p)
  <2>1. /\ Goes(p, "commit") /\ pc[p] = "syncTarget" /\ seen' = seen
        /\ kept' = SettledFor(Target)
    BY <1>4 DEF SyncTarget, SyncEntries
  <2>2. /\ pc' \in [Process -> {"start"} \cup InitStep \cup Undoing \cup EnrolStep
                                   \cup Ended]
        /\ pc'[p] = "commit" /\ \A q \in Process \ {p} : pc'[q] = pc[q]
        /\ \A q \in Installer : pc'[q] = pc[q]
    BY <1>1, <2>1, GoesTyped, Names DEF EnrolStep
  <2>3. /\ kept' \in [File -> SUBSET Content]
        /\ \A g \in Target : kept'[g] = {seen[g]}
        /\ \A g \in InstanceFile : kept'[g] = kept[g]
        /\ \A g \in File : seen'[g] \in kept'[g]
    BY <1>1, <2>1, Syncing, Names
  <2>4. Instance'
    BY <1>1, <2>1, <2>2, <2>3, InstanceUntouched
  <2>5. Named'
    BY <1>1, <2>1, <2>2, <2>3, Names DEF Named
  <2>6. \A q \in Enroller :
           pc[q] = "commit" \/ q \in active \ collected => seen[target[q]] = Of(q, "whole")
    BY <1>1, Names DEF Delivered, Settled
  <2>7. seen[target[p]] = Of(p, "whole")
    BY <1>1, <2>1 DEF Delivered
  <2>8. Delivered'
    BY <1>1, <1>2, <2>1, <2>2, <2>3, <2>6, <2>7 DEF Delivered, Settled, EnrolStep
  <2>9. TypeOK'
    BY <1>1, <2>1, <2>2, <2>3 DEF TypeOK
  <2> QED
    BY <2>4, <2>5, <2>8, <2>9 DEF IInv, Delivery
<1> QED
  BY <1>3, <1>4

LEMMA EnrolPreserves ==
    ASSUME IInv, NEW p \in Enroller, EnrolDoes(p)
    PROVE  IInv'
BY QuietEnrolPreserves, DeliverPreserves DEF EnrolDoes

-----------------------------------------------------------------------------
(* The surroundings *)

LEMMA KillPreserves ==
    ASSUME IInv, NEW p \in Process, Kill(p)
    PROVE  IInv'
<1>1. /\ TypeOK /\ Instance /\ Named /\ Delivered
      /\ UNCHANGED <<seen, kept, target, loaded, lockFile, active, collected>>
      /\ pc[p] \notin Ended \cup {"start"}
      /\ \A q \in Enroller \cup Installer : q \in Process
  BY Names DEF IInv, Delivery, Kill, Runs, Process
<1>2. PICK step \in {"undone", "killed"} :
         Goes(p, step) /\ (step = "killed" => pc[p] \notin Undoing)
  BY DEF Kill, Interrupted
<1>3. /\ pc' \in [Process -> {"start"} \cup InitStep \cup Undoing \cup EnrolStep
                                 \cup Ended]
      /\ pc'[p] = step /\ \A q \in Process \ {p} : pc'[q] = pc[q]
  BY <1>1, <1>2, GoesTyped DEF Ended
<1>4. Owned'
  BY <1>1, <1>2, <1>3 DEF Instance, Owned, Inside, InitStep, Undoing
<1>5. Made'
  <2>1. \A q \in Installer :
           /\ pc[q] \notin {"start", "mkdir"} => pc'[q] \notin {"start", "mkdir"}
           /\ pc'[q] = pc[q] \/ pc'[q] \in {"undone", "killed"}
    BY <1>1, <1>2, <1>3
  <2> QED
    BY <1>1, <2>1, Files DEF Instance, Made
<1>6. Built'
  <2>1. \A q \in Installer : q # p => BuiltOf(q)'
    BY <1>1, <1>3 DEF Instance, Built, BuiltOf, Settled
  <2>2. p \in Installer => BuiltOf(p)'
    <3> SUFFICES ASSUME p \in Installer PROVE BuiltOf(p)'
      OBVIOUS
    <3>1. ASSUME step = "killed", NEW c \in kept["config"], c.by = p
          PROVE  Settled("self", p) /\ Settled("keyring", p) /\ Settled("database", p)
      <4>1. c # Nothing
        BY <3>1, Contents, Names
      <4>2. pc[p] \in {"writeConfig", "return"}
        <5>1. pc[p] \notin Undoing \cup EnrolStep
          BY <1>1, <1>2, <3>1 DEF Instance, Built, BuiltOf
        <5>2. pc[p] \notin {"start", "mkdir", "chmod", "createKeyring", "writeKeyring",
                            "syncKeyring", "createDatabase", "commitDatabase",
                            "createConfig"}
          BY <1>1, <3>1, <4>1, Files DEF Instance, Made
        <5> QED
          BY <1>1, <5>1, <5>2 DEF TypeOK, InitStep
      <4> QED
        BY <1>1, <4>2 DEF Instance, Built, BuiltOf
    <3> QED
      BY <1>1, <1>2, <1>3, <3>1 DEF BuiltOf, Settled, EnrolStep
  <2> QED
    BY <2>1, <2>2 DEF Built
<1>7. Dropped'
  BY <1>1, <1>2, <1>3 DEF Instance, Dropped, DroppedOf
<1>8. Delivery'
  <2>1. Named'
    BY <1>1, <1>2, <1>3 DEF Named
  <2>2. Delivered'
    BY <1>1, <1>2, <1>3 DEF Delivered, Settled, EnrolStep, Ended
  <2> QED
    BY <2>1, <2>2 DEF Delivery
<1>9. TypeOK'
  <2>1. lock' \in Enroller \cup {None}
    BY <1>1 DEF Kill, FreedBy, TypeOK
  <2> QED
    BY <1>1, <1>3, <2>1 DEF TypeOK
<1> QED
  BY <1>4, <1>5, <1>6, <1>7, <1>8, <1>9 DEF IInv, Instance

LEMMA LeftIsKept ==
    ASSUME TypeOK, NEW left \in Left
    PROVE  /\ left \in [File -> Content] /\ \A f \in File : left[f] \in kept[f]
           /\ \A f \in Member : left[f] # Nothing => left[f].by = left["self"].by
<1>1. PICK s \in kept["self"], k \in kept["keyring"], d \in kept["database"],
           c \in kept["config"], files \in [Target -> UNION {kept[t] : t \in Target}] :
         left = Remains(s, k, d, c, files)
  BY DEF Left
<1>2. \A t \in Target : left[t] \in kept[t]
  BY DEF Left
<1>3. /\ left["self"] = s /\ left["keyring"] = k /\ left["database"] = d
      /\ left["config"] = c /\ DOMAIN left = File
      /\ left = [f \in File |-> left[f]]
  BY <1>1, Files DEF Remains
<1>4. \A f \in File : left[f] \in kept[f]
  BY <1>2, <1>3, Files, Names
<1>5. left \in [File -> Content]
  BY <1>3, <1>4 DEF TypeOK
<1>6. \A f \in Member : left[f] # Nothing => left[f].by = left["self"].by
  BY DEF Left
<1> QED
  BY <1>4, <1>5, <1>6

LEMMA PowerLossPreserves ==
    ASSUME IInv, PowerLoss
    PROVE  IInv'
<1>1. /\ TypeOK /\ Instance /\ Named /\ Delivered
      /\ seen' \in [File -> Content] /\ \A f \in File : seen'[f] \in kept[f]
      /\ \A f \in Member : seen'[f] # Nothing => seen'[f].by = seen'["self"].by
      /\ kept' = [f \in File |-> {seen'[f]}]
      /\ lock' = None /\ lockFile' \in BOOLEAN
      /\ UNCHANGED <<target, loaded, active, collected>>
      /\ \A p \in Enroller \cup Installer : p \in Process
  BY LeftIsKept, Names DEF IInv, TypeOK, Delivery, PowerLoss
<1>2. \A p \in Process :
         \/ pc'[p] = pc[p] /\ pc[p] \in Ended \cup {"start"}
         \/ pc'[p] = "undone" /\ pc[p] # "start"
         \/ pc'[p] = "killed" /\ pc[p] \notin Ended \cup {"start"} \cup Undoing
  BY DEF PowerLoss, Interrupted, Runs, Ended
<1>3. \A p \in Installer : pc'[p] # "failed"
  BY <1>1, <1>2 DEF PowerLoss, Runs, Interrupted, Ended
<1>4. pc' \in [Process -> {"start"} \cup InitStep \cup Undoing \cup EnrolStep \cup Ended]
  BY <1>1 DEF PowerLoss, Interrupted, TypeOK, Ended
<1>5. TypeOK'
  BY <1>1, <1>4 DEF TypeOK
<1>6. Owned'
  BY <1>1, <1>2 DEF Owned, Inside, InitStep, Undoing, Ended
<1>7. Made'
  <2>1. \A f \in InstanceFile : \A c \in kept'[f] : c \in kept[f]
    BY <1>1, Files
  <2>2. \A p \in Installer :
           /\ pc[p] \notin {"start", "mkdir"} => pc'[p] \notin {"start", "mkdir"}
           /\ pc'[p] \notin {"chmod", "createKeyring", "writeKeyring", "syncKeyring",
                             "createDatabase", "commitDatabase", "createConfig"}
    BY <1>1, <1>2 DEF Ended
  <2> QED
    BY <1>1, <2>1, <2>2, Files DEF Instance, Made
<1>8. Built'
  <2> SUFFICES ASSUME NEW p \in Installer PROVE BuiltOf(p)'
    BY DEF Built
  <2>1. ASSUME NEW c \in kept["config"], c.by = p, pc'[p] = "killed"
        PROVE  Settled("self", p) /\ Settled("keyring", p) /\ Settled("database", p)
    <3>1. CASE pc[p] = "killed"
      BY <1>1, <2>1, <3>1 DEF Instance, Built, BuiltOf
    <3>2. CASE pc[p] # "killed"
      <4>1. c # Nothing
        BY <2>1, Contents, Names
      <4>2. pc[p] \notin Ended \cup {"start"} \cup Undoing \cup EnrolStep
        BY <1>1, <1>2, <2>1, <3>2 DEF Instance, Built, BuiltOf
      <4>3. pc[p] \notin {"mkdir", "chmod", "createKeyring", "writeKeyring", "syncKeyring",
                          "createDatabase", "commitDatabase", "createConfig"}
        BY <1>1, <2>1, <4>1, Files DEF Instance, Made
      <4>4. pc[p] \in {"writeConfig", "return"}
        BY <1>1, <4>2, <4>3 DEF TypeOK, InitStep
      <4> QED
        BY <1>1, <4>4 DEF Instance, Built, BuiltOf
    <3> QED
      BY <3>1, <3>2
  <2>2. pc'[p] = "ok" =>
           /\ Settled("self", p) /\ Settled("keyring", p) /\ Settled("database", p)
           /\ kept["config"] \subseteq {Nothing, Of(p, "whole")}
    BY <1>1, <1>2 DEF Instance, Built, BuiltOf
  <2>3. \A f \in {"self", "keyring", "database"} : Settled(f, p) => Settled(f, p)'
    BY <1>1, Files DEF Settled
  <2>4. \A c \in kept'["config"] : c \in kept["config"]
    BY <1>1, Files
  <2>5. pc'[p] \in Ended \cup {"start"}
    BY <1>1, <1>2 DEF Ended
  <2> QED
    BY <1>3, <2>1, <2>2, <2>3, <2>4, <2>5 DEF BuiltOf, EnrolStep, Ended
<1>9. Dropped'
  BY <1>1, <1>2, <1>3 DEF Dropped, DroppedOf, Ended
<1>10. Named'
  BY <1>1, <1>2, Files DEF Named, Ended
<1>11. Delivered'
  BY <1>1, <1>2, Files DEF Delivered, Settled, EnrolStep, Ended
<1> QED
  BY <1>5, <1>6, <1>7, <1>8, <1>9, <1>10, <1>11 DEF IInv, Instance, Delivery

LEMMA CollectPreserves ==
    ASSUME IInv, NEW t \in Target, Collect(t)
    PROVE  IInv'
<1> DEFINE a == seen[t].by
<1>1. /\ TypeOK /\ Instance /\ Named /\ Delivered
      /\ seen[t] # Nothing /\ seen[t] \in kept[t] /\ t \in File
      /\ pc[a] \in Ended \cup {"start"} /\ Set(t, Nothing)
      /\ collected' = collected \cup {a}
      /\ UNCHANGED <<pc, target, loaded, lock, lockFile, active>>
  BY Names DEF IInv, Delivery, Collect, Exists, Runs, TypeOK
<1>2. a \in Enroller /\ target[a] = t /\ pc[a] \in Ended
  BY <1>1 DEF Named
<1>3. /\ seen' \in [File -> Content] /\ kept' \in [File -> SUBSET Content]
      /\ seen'[t] = Nothing /\ kept'[t] = kept[t] \cup {Nothing}
      /\ \A g \in File \ {t} : seen'[g] = seen[g] /\ kept'[g] = kept[g]
      /\ \A g \in File : seen'[g] \in kept'[g]
  BY <1>1, Setting, Contents
<1>4. Instance'
  BY <1>1, <1>3, InstanceUntouched, Files
<1>5. Named'
  BY <1>1, <1>3, Names DEF Named
<1>6. \A q \in Enroller : q # a =>
         (pc[q] \in {"syncTarget", "commit"} \/ q \in active \ collected =>
             target[q] \in File \ {t})
  BY <1>1, Contents, Names DEF Delivered, Settled, EnrolStep
<1> HIDE DEF a
<1>7. Delivered'
  BY <1>1, <1>2, <1>3, <1>6 DEF Delivered, Settled, Ended, EnrolStep
<1>8. TypeOK'
  BY <1>1, <1>2, <1>3 DEF TypeOK
<1> QED
  BY <1>4, <1>5, <1>7, <1>8 DEF IInv, Delivery

LEMMA NextPreserves == IInv /\ [Next]_vars => IInv'
<1> SUFFICES ASSUME IInv, [Next]_vars PROVE IInv'
  OBVIOUS
<1>1. CASE UNCHANGED vars
  BY <1>1 DEF vars, IInv, TypeOK, Instance, Owned, Made, Built, BuiltOf, Dropped, DroppedOf,
              Delivery, Named, Delivered, Settled
<1> QED
  BY <1>1, InitPreserves, EnrolPreserves, KillPreserves, PowerLossPreserves,
     CollectPreserves
  DEF Next

THEOREM Invariance == Spec => []IInv
BY InitEstablishes, NextPreserves, PTL DEF Spec

-----------------------------------------------------------------------------
(* The results *)

(* The files, the processes and the lock always have their types.          *)
THEOREM TypeCorrect == Spec => []TypeOK
<1>1. IInv => TypeOK
  BY DEF IInv
<1> QED
  BY <1>1, Invariance, PTL

(* A configuration stands for an instance that is whole and of one init.   *)
THEOREM ConfigStands == Spec => []ConfigStandsForInstance
<1>1. IInv => ConfigStandsForInstance
  <2> DEFINE p == seen["config"].by
  <2> SUFFICES ASSUME IInv, seen["config"].data = "whole",
                      pc[p] \notin Undoing \cup {"undone"}
               PROVE  \A f \in Member : seen[f] = Of(p, "whole")
    BY DEF ConfigStandsForInstance
  <2>1. /\ seen["config"] \in kept["config"] /\ seen["config"] \in Content
        /\ "config" \in InstanceFile
    BY Files DEF IInv, TypeOK
  <2>2. seen["config"] # Nothing
    BY DEF Nothing
  <2>3. /\ p \in Installer /\ seen["config"] = Of(p, "whole")
        /\ pc[p] \notin {"start", "mkdir", "chmod", "createKeyring", "writeKeyring", "syncKeyring",
                         "createDatabase", "commitDatabase", "createConfig"}
    BY <2>1, <2>2, Contents DEF IInv, Instance, Made
  <2>5. pc[p] \in {"writeConfig", "return", "ok", "killed", "failed"}
    BY <2>3, Names
    DEF IInv, TypeOK, Instance, Built, BuiltOf, InitStep, Ended
  <2>6. Settled("keyring", p) /\ Settled("database", p)
    BY <2>1, <2>3, <2>5 DEF IInv, Instance, Built, BuiltOf
  <2>7. seen["keyring"] = Of(p, "whole") /\ seen["database"] = Of(p, "whole")
    BY <2>6, Files DEF IInv, TypeOK, Settled
  <2> QED
    BY <2>3, <2>7, Files
<1> QED
  BY <1>1, Invariance, PTL

(* What a reported init has made outlasts every power loss and every other *)
(* command.                                                                *)
THEOREM InstanceLasts == Spec => []ReportedInstanceLasts
<1>1. IInv => ReportedInstanceLasts
  BY DEF IInv, Instance, Built, BuiltOf, Settled, ReportedInstanceLasts
<1> QED
  BY <1>1, Invariance, PTL

(* No power loss takes the file of an active credential away.              *)
THEOREM ActiveStaysDelivered == Spec => []ActiveIsDelivered
<1>1. IInv => ActiveIsDelivered
  BY DEF IInv, TypeOK, Delivery, Delivered, Settled, ActiveIsDelivered
<1> QED
  BY <1>1, Invariance, PTL

(* No command changes or removes the file of another.                      *)
THEOREM FilesBelongToAuthors == Spec => OnlyAuthorChanges
<1> DEFINE Kept(f) == seen[f] # Nothing /\ seen'[f] # seen[f] =>
                          \/ pc'[seen[f].by] # pc[seen[f].by]
                          \/ PowerLoss \/ \E t \in Target : Collect(t)
<1>1. ASSUME IInv, Next, NEW f \in File
      PROVE  Kept(f)
  <2>0. TypeOK /\ pc \in [Process -> {"start"} \cup InitStep \cup Undoing \cup EnrolStep \cup Ended]
    BY <1>1 DEF IInv, TypeOK
  <2>1. ASSUME NEW p \in Installer, InitDoes(p)
        PROVE  Kept(f)
    <3>1. CASE seen' = seen
      BY <3>1
    <3>2. CASE pc[p] \in Inside
      <4>1. f \in InstanceFile /\ seen[f] # Nothing => seen[f].by = p
        BY <1>1, <3>2, Owner, Contents, Names DEF IInv, TypeOK
      <4>3. pc'[p] # pc[p]
        <5>0. ASSUME NEW step, Goes(p, step), step # pc[p]
              PROVE  pc'[p] # pc[p]
          BY <2>0, <5>0, Names DEF Goes
        <5>1. CASE StartInit(p) \/ Mkdir(p)
          BY <3>2, <5>1 DEF StartInit, Mkdir, Inside, InitStep, Undoing
        <5>2. CASE \/ Chmod(p) \/ CreateMember(p) \/ WriteMember(p) \/ SyncKeyring(p)
                   \/ CommitDatabase(p) \/ Return(p)
          <6>1. PICK step \in InitStep \ {"mkdir"} : Reaches(p, step)
            BY <5>2 DEF Chmod, CreateMember, WriteMember, SyncKeyring, CommitDatabase, Return,
                        Member, InitStep
          <6>2. NextInitStep[step] # step
            BY NextSteps DEF InitStep
          <6> QED
            BY <5>0, <6>1, <6>2 DEF Reaches
        <5>3. CASE FailInit(p)
          BY <5>0, <5>3, NextSteps DEF FailInit, InitStep, Undoing
        <5>4. CASE Drop(p)
          BY <5>0, <5>4 DEF Drop
        <5> QED
          BY <2>1, <5>1, <5>2, <5>3, <5>4 DEF InitDoes
      <4>4. f \in Target => seen'[f] = seen[f]
        BY <2>1, Files, <2>0
        DEF InitDoes, StartInit, Mkdir, Chmod, CreateMember, WriteMember, SyncKeyring,
            CommitDatabase, Return, FailInit, Drop, Set, WriteData, SyncEntries, TypeOK
      <4> QED
        BY <4>1, <4>3, <4>4, Names
    <3>3. CASE Mkdir(p) /\ ~Exists("self")
      BY <2>0, <3>3, Names DEF Mkdir, Exists, Set, TypeOK
    <3>4. CASE StartInit(p) \/ Chmod(p) \/ Return(p) \/ FailInit(p)
               \/ (Mkdir(p) /\ Exists("self"))
      BY <3>1, <3>4 DEF StartInit, Chmod, Return, FailInit, Mkdir
    <3>5. CASE \/ CreateMember(p) \/ WriteMember(p) \/ SyncKeyring(p)
               \/ CommitDatabase(p) \/ Drop(p)
      <4>1. pc[p] \in Inside
        BY <3>5
        DEF CreateMember, WriteMember, SyncKeyring, CommitDatabase, Drop, Reaches, Inside,
            InitStep, Undoing, Member
      <4> QED
        BY <3>2, <4>1
    <3> QED
      BY <2>1, <3>3, <3>4, <3>5 DEF InitDoes
  <2>2. ASSUME NEW p \in Enroller, EnrolDoes(p)
        PROVE  Kept(f)
    <3>1. seen' = seen \/ (LinkTarget(p) /\ ~Exists(target[p]))
      BY <2>2 DEF EnrolDoes, StartEnrol, Load, OpenLock, Lock, LinkTarget, SyncTarget, Commit, Unlock,
                  FailEnrol, SyncEntries
    <3>2. CASE LinkTarget(p) /\ ~Exists(target[p])
      <4>1. Set(target[p], Of(p, "whole")) /\ seen[target[p]] = Nothing
        BY <3>2 DEF LinkTarget, Exists
      <4>2. seen[f] # Nothing => f # target[p]
        BY <4>1
      <4> QED
        BY <2>0, <4>1, <4>2 DEF Set, TypeOK
    <3> QED
      BY <3>1, <3>2
  <2>3. ASSUME NEW p \in Process, Kill(p)
        PROVE  Kept(f)
    BY <2>3 DEF Kill
  <2> QED
    BY <1>1, <2>1, <2>2, <2>3 DEF Next
<1>2. IInv /\ [Next]_vars => [\A f \in File : Kept(f)]_vars
  BY <1>1
<1> QED
  BY <1>2, Invariance, PTL DEF Spec, OnlyAuthorChanges
=============================================================================
