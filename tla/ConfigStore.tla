----------------------------- MODULE ConfigStore -----------------------------
(***************************************************************************)
(* The canonical configuration store (config/store.rs): one document, its  *)
(* last-good copy and the activation journal, three files of one directory.*)
(* An operation is a list of atomic_replace and remove_sidecar calls, each *)
(* a rename or unlink that is visible at once and durable after the        *)
(* directory is synced.  Between any two of those the process may be       *)
(* killed, or the machine lose power and with it the latest changes of the *)
(* directory that were not synced.  A revision is the hash of a document,  *)
(* so documents stand for both.                                            *)
(***************************************************************************)
EXTENDS Integers, Sequences

CONSTANT Documents   \* valid configuration documents

NoFile == [kind |-> "none"]
Journal(a, d) == [kind |-> "journal", active |-> a, desired |-> d]
Journals == {Journal(a, d) : a, d \in Documents}

ASSUME StoreInputs == Documents # {} /\ NoFile \notin Documents

VARIABLES
  directory,                   \* the three files
  unsynced,                    \* the directories that a power loss may bring back
  op,                          \* the operation in progress, "idle" or "down"
  todo,                        \* the calls it has left
  renamed,                     \* the first of them is done but for its sync
  document, active, pending,   \* StoreState
  legit,    \* history: what a restart may load
  manual    \* history: the document on disk is an edit that nobody has loaded

memory == <<document, active, pending>>
disk == <<directory, unsynced>>
vars == <<disk, op, todo, renamed, memory, legit, manual>>

Files == {"path", "last_good", "pending"}

atomic_replace(file, content) == [file |-> file, content |-> content]
remove_sidecar == [file |-> "pending", content |-> NoFile]

\* The directory after a call.
After(call) == [directory EXCEPT ![call.file] = call.content]

\* A file that the program did not write itself.
Init ==
  \E d \in Documents :
    /\ directory = [f \in Files |-> IF f = "path" THEN d ELSE NoFile]
    /\ unsynced = {}
    /\ op = "down" /\ todo = <<>> /\ renamed = FALSE
    /\ document = NoFile /\ active = NoFile /\ pending = NoFile
    /\ legit = {d} /\ manual = FALSE

Start(name, calls) ==
  /\ op' = name /\ todo' = calls
  /\ UNCHANGED <<disk, renamed, memory, legit, manual>>

-----------------------------------------------------------------------------
(* The operations, up to their first call *)

\* Mutant of OnDisk: the file is not compared.
NotCompared == document \in Documents

\* verify_disk_document, and the same comparison in `replace`.
OnDisk == directory["path"] = document

\* Mutant of replace: the journal is written after the document.
ReplaceThenJournal(candidate) ==
  /\ op = "idle"
  /\ OnDisk /\ candidate # document /\ pending = NoFile
  /\ Start("replace", <<atomic_replace("last_good", active),
                        atomic_replace("path", candidate),
                        atomic_replace("pending", Journal(active, candidate))>>)

\* Mutant of replace: the active document is not saved first.
ReplaceUnsaved(candidate) ==
  /\ op = "idle"
  /\ OnDisk /\ candidate # document /\ pending = NoFile
  /\ Start("replace", <<atomic_replace("pending", Journal(active, candidate)),
                        atomic_replace("path", candidate)>>)

replace(candidate) ==
  /\ op = "idle"
  /\ OnDisk /\ candidate # document /\ pending = NoFile
  /\ Start("replace", <<atomic_replace("last_good", active),
                        atomic_replace("pending", Journal(active, candidate)),
                        atomic_replace("path", candidate)>>)

\* The generation of the desired document is ready, or needs no restart.  The
\* callers do not activate a document that is active.
activate_desired ==
  /\ op = "idle"
  /\ pending # NoFile /\ OnDisk
  /\ Start("activate", <<atomic_replace("last_good", document), remove_sidecar>>)

\* The generation failed, its activation did, or the process shuts down.
rollback_pending ==
  /\ op \in {"idle", "activate_failed"}
  /\ pending # NoFile /\ OnDisk
  /\ Start("rollback", <<atomic_replace("path", active), remove_sidecar>>)

\* What open decides from the files it finds.
Recovery ==
  LET journal == directory["pending"]
      current == directory["path"]
      last_good == directory["last_good"]
  IN CASE journal = NoFile -> "current"
       [] journal # NoFile /\ current = journal.active -> "clear"
       [] journal # NoFile /\ current \notin {journal.active, journal.desired} -> "conflict"
       [] journal # NoFile /\ current = journal.desired /\ current # journal.active ->
            CASE last_good = NoFile -> "conflict"
              [] last_good = journal.desired -> "clear"
              [] last_good = journal.active -> "restore"
              [] OTHER -> "conflict"

recover_interrupted_activation ==
  /\ op = "down"
  /\ \/ Recovery = "conflict" /\ Start("refused", <<>>)
     \/ Recovery = "clear" /\ Start("open", <<remove_sidecar>>)
     \/ /\ Recovery = "restore"
        /\ Start("open", <<atomic_replace("path", directory["last_good"]), remove_sidecar>>)
     \/ Recovery = "current" /\ Start("open", <<>>)

-----------------------------------------------------------------------------
(* The calls *)

NothingToRemove == Head(todo) = remove_sidecar /\ directory["pending"] = NoFile

\* A sidecar that is not there needs no unlink, and no sync.
RemoveNothing ==
  /\ todo # <<>> /\ ~renamed /\ NothingToRemove
  /\ todo' = Tail(todo)
  /\ UNCHANGED <<disk, op, renamed, memory, legit, manual>>

\* The rename, or the unlink.
Rename ==
  /\ todo # <<>> /\ ~renamed /\ ~NothingToRemove
  /\ directory' = After(Head(todo))
  /\ unsynced' = unsynced \cup {directory}
  /\ renamed' = TRUE
  /\ legit' = IF op = "activate" /\ Head(todo).file = "last_good"
              THEN legit \cup {document} ELSE legit
  /\ UNCHANGED <<op, todo, memory, manual>>

SyncParentDirectory ==
  /\ renamed
  /\ unsynced' = {}
  /\ todo' = Tail(todo) /\ renamed' = FALSE
  /\ UNCHANGED <<directory, op, memory, legit, manual>>

\* What an error leads to: the last call of `replace` is followed by clearing
\* the journal, whose own error is ignored; open fails as a whole.
AfterError ==
  CASE op = "replace" /\ Len(todo) = 1 -> [op |-> "unjournal", todo |-> <<remove_sidecar>>]
    [] op = "activate" -> [op |-> "activate_failed", todo |-> <<>>]
    [] op = "open" -> [op |-> "down", todo |-> <<>>]
    [] OTHER -> [op |-> "idle", todo |-> <<>>]

\* The call fails, before it has changed anything or in its sync: a change that
\* is visible and not durable, of which nothing is promised until the next
\* operation that succeeds.
Fail ==
  /\ todo # <<>>
  /\ op' = AfterError.op /\ todo' = AfterError.todo
  /\ renamed' = FALSE
  /\ legit' = IF renamed THEN Documents ELSE legit
  /\ UNCHANGED <<disk, memory, manual>>

\* Every call succeeded: the new state of the store.
Finish ==
  /\ todo = <<>>
  /\ op \in {"replace", "activate", "rollback", "unjournal", "open"}
  /\ op' = "idle"
  /\ \/ /\ op = "replace"
        /\ document' = directory["path"] /\ pending' = directory["pending"]
        /\ legit' = {active}
        /\ UNCHANGED <<active, manual>>
     \/ /\ op = "activate"
        /\ active' = document /\ pending' = NoFile
        /\ legit' = {document}
        /\ UNCHANGED <<document, manual>>
     \/ /\ op = "rollback"
        /\ document' = active /\ pending' = NoFile
        /\ legit' = {active}
        /\ UNCHANGED <<active, manual>>
     \/ /\ op = "unjournal"
        /\ UNCHANGED <<memory, legit, manual>>
     \/ /\ op = "open"
        /\ document' = directory["path"] /\ active' = directory["path"] /\ pending' = NoFile
        /\ legit' = IF unsynced = {} THEN {directory["path"]} ELSE legit
        /\ manual' = FALSE
  /\ UNCHANGED <<disk, todo, renamed>>

-----------------------------------------------------------------------------
(* The world around it *)

Down ==
  /\ op' = "down" /\ todo' = <<>> /\ renamed' = FALSE
  /\ document' = NoFile /\ active' = NoFile /\ pending' = NoFile

\* The process is killed or exits, or is started again after a refusal.
Kill ==
  /\ op # "down"
  /\ Down
  /\ UNCHANGED <<disk, legit, manual>>

\* The file system keeps its changes in order, so the last ones may be gone.
PowerLoss ==
  /\ directory' \in unsynced \cup {directory}
  /\ unsynced' = {}
  /\ Down
  /\ UNCHANGED <<legit, manual>>

\* The revisions that the store and a journal on disk know: a document that is
\* one of them cannot be told from the program's own.
Known ==
  {document, directory["path"]}
    \cup (IF directory["pending"] = NoFile THEN {}
          ELSE {directory["pending"].active, directory["pending"].desired})

\* An operator replaces the document, between two operations of the program.
Edit(d) ==
  /\ op \in {"idle", "down"} /\ d \notin Known
  /\ directory' = [directory EXCEPT !["path"] = d] /\ unsynced' = {}
  /\ legit' = {d} /\ manual' = TRUE
  /\ UNCHANGED <<op, todo, renamed, memory>>

Next ==
  \/ \E d \in Documents : replace(d) \/ Edit(d)
  \/ activate_desired
  \/ rollback_pending
  \/ recover_interrupted_activation
  \/ RemoveNothing \/ Rename \/ SyncParentDirectory \/ Fail \/ Finish
  \/ Kill \/ PowerLoss

Spec == Init /\ [][Next]_vars

-----------------------------------------------------------------------------
(* Properties *)

TypeOK ==
  /\ \A dir \in {directory} \cup unsynced :
       /\ dir["path"] \in Documents
       /\ dir["last_good"] \in Documents \cup {NoFile}
       /\ dir["pending"] \in {NoFile} \cup Journals
  /\ op \in {"idle", "down", "refused", "open", "replace", "unjournal", "activate",
             "activate_failed", "rollback"}
  /\ {document, active} \subseteq Documents \cup {NoFile}
  /\ pending \in {NoFile} \cup Journals
  /\ legit \subseteq Documents

\* "Until then, an interrupted process start restores the prior active
\* document" (activate_desired): whenever the process or the machine stops, the
\* next start loads the document that was active, the one whose activation had
\* begun to commit, or an operator's edit, and never an unproven candidate; a
\* failed directory sync suspends this until an operation has succeeded again.
RestartLoadsActive ==
  [][op = "open" /\ op' = "idle" => document' \in legit]_vars

\* "A manual edit observed after this process opened the store is never
\* overwritten" (replace), neither by an operation that had not started when it
\* was made, nor by a recovery from the journal of an earlier one.
ManualEditKept ==
  [][manual => directory'["path"] = directory["path"] \/ \E d \in Documents : Edit(d)]_vars

\* Recovery refuses to start (RecoveryConflict, LastGoodMissing) only over an
\* operator's edit: the files are written in an order that leaves no crash and
\* no failed call in a state that it cannot decide.
NoConflictWithoutEdit == TypeOK /\ (op = "refused" => manual)

\* "The canonical document is still the active one" when the last call of
\* replace failed (the comment on its error branch).
FailedReplaceKeepsActive ==
  [][op = "replace" /\ op' = "unjournal" => directory["path"] = active]_vars
=============================================================================
