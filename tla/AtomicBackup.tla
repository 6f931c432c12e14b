----------------------------- MODULE AtomicBackup -----------------------------
(***************************************************************************)
(* What "db backup" promises the operator of its output directory: a       *)
(* backup is there as a whole or not at all, it appears in one step, and   *)
(* once the command has reported it nothing but the operator takes it      *)
(* away.  There are no files here, no fsync and no interruptions.  Of a    *)
(* backup that was never reported nothing is promised: it may be lost, and *)
(* another be published in its place.                                      *)
(* BackupDirectory, which has them all, implements this specification, and *)
(* KeyLifecycle publishes a backup in the one step that is Publish here.   *)
(***************************************************************************)
VARIABLES
    content,    \* what the directory is, to whoever looks at its manifest
    reported    \* "backed_up" was printed for it

vars == <<content, reported>>

Init == content = "nothing" /\ reported = FALSE

Publish == content = "nothing" /\ content' = "backup" /\ UNCHANGED reported

Report == content = "backup" /\ reported' = TRUE /\ UNCHANGED content

LoseUnreported ==
    /\ content = "backup" /\ ~reported
    /\ content' = "nothing" /\ UNCHANGED reported

TakeAway == content' = "nothing" /\ reported' = FALSE

Next == Publish \/ Report \/ LoseUnreported \/ TakeAway

Spec == Init /\ [][Next]_vars
=============================================================================
