--------------------------- MODULE ConfigStoreProofs ---------------------------
(***************************************************************************)
(* Crash safety of the configuration store, for every set of documents and *)
(* however many changes of the directory are not durable: what a restart   *)
(* loads, that it always can, and that an operator's edit stays.           *)
(***************************************************************************)
EXTENDS ConfigStore, TLAPS

-----------------------------------------------------------------------------
(* Types *)

Contents == Documents \cup {NoFile} \cup Journals

Fits(file, content) ==
  /\ file = "path" => content \in Documents
  /\ file = "last_good" => content \in Documents \cup {NoFile}
  /\ file = "pending" => content \in {NoFile} \cup Journals

Directories == {dir \in [Files -> Contents] : \A f \in Files : Fits(f, dir[f])}
Calls == {c \in [file : Files, content : Contents] : Fits(c.file, c.content)}

Operations ==
  {"idle", "down", "refused", "open", "replace", "unjournal", "activate", "activate_failed",
   "rollback"}

Types ==
  /\ directory \in Directories /\ unsynced \subseteq Directories
  /\ op \in Operations /\ todo \in Seq(Calls) /\ renamed \in BOOLEAN
  /\ document \in Documents \cup {NoFile} /\ active \in Documents \cup {NoFile}
  /\ pending \in {NoFile} \cup Journals
  /\ legit \subseteq Documents /\ manual \in BOOLEAN

-----------------------------------------------------------------------------
(* What recovery makes of a directory *)

Decided(dir) ==
  LET j == dir["pending"]
  IN \/ j = NoFile
     \/ dir["path"] = j.active
     \/ dir["path"] = j.desired /\ dir["last_good"] \in {j.active, j.desired}

Loads(dir) ==
  LET j == dir["pending"]
  IN IF j # NoFile /\ dir["path"] # j.active /\ dir["last_good"] = j.active
     THEN dir["last_good"] ELSE dir["path"]

\* A directory from which the process may start.
Safe(dir) == (Decided(dir) => Loads(dir) \in legit) /\ (~manual => Decided(dir))

AlwaysSafe == \A dir \in {directory} \cup unsynced : Safe(dir)

-----------------------------------------------------------------------------
(* Where an operation is *)

\* The calls that have not taken effect.
Left == IF renamed THEN Tail(todo) ELSE todo

Save == atomic_replace("last_good", active)
Announce(c) == atomic_replace("pending", Journal(active, c))
Put(c) == atomic_replace("path", c)
Prove == atomic_replace("last_good", document)

\* The store runs its document, and a journal on disk is one of a replacement
\* that failed.
Clean ==
  /\ pending = NoFile /\ document = active /\ active \in Documents
  /\ directory["pending"] = NoFile \/ directory["pending"].active = active

\* A candidate is on trial.
Trial ==
  /\ active \in Documents /\ document \in Documents /\ pending = Journal(active, document)
  /\ directory["pending"] = NoFile \/ directory["pending"] = pending
  /\ ~manual => active \in legit

Replacing(c) ==
  \/ Left = <<Save, Announce(c), Put(c)>> /\ directory["path"] = active
  \/ /\ Left = <<Announce(c), Put(c)>> /\ directory["path"] = active
     /\ directory["last_good"] = active
  \/ /\ Left = <<Put(c)>> /\ directory["path"] = active
     /\ directory["last_good"] = active /\ directory["pending"] = Journal(active, c)
  \/ /\ Left = <<>> /\ directory["path"] = c
     /\ directory["last_good"] = active /\ directory["pending"] = Journal(active, c)

Activating ==
  /\ directory["path"] = document
  /\ \/ Left = <<Prove, remove_sidecar>>
     \/ Left = <<remove_sidecar>> /\ document \in legit
     \/ Left = <<>> /\ directory["pending"] = NoFile

RollingBack ==
  \/ Left = <<Put(active), remove_sidecar>>
  \/ Left = <<remove_sidecar>> /\ directory["path"] = active
  \/ Left = <<>> /\ directory["path"] = active /\ directory["pending"] = NoFile

Recovering ==
  \/ /\ Left = <<Put(Loads(directory)), remove_sidecar>>
     /\ directory["pending"] # NoFile /\ Loads(directory) = directory["pending"].active
  \/ Left = <<remove_sidecar>> /\ Loads(directory) = directory["path"]
  \/ Left = <<>> /\ directory["pending"] = NoFile

Stage ==
  /\ op \in {"idle", "down", "refused", "activate_failed"} => todo = <<>>
  /\ op = "idle" => Clean \/ Trial
  /\ op = "activate_failed" => Trial
  /\ op = "replace" => Clean /\ \E c \in Documents : Replacing(c)
  /\ op = "unjournal" =>
       Clean /\ directory["path"] \in legit
         /\ (Left = <<remove_sidecar>> \/ Left = <<>>)
  /\ op = "activate" => Trial /\ Activating
  /\ op = "rollback" => Trial /\ RollingBack
  /\ op = "open" => Recovering

\* An operation that ends well is durable: each of its calls was.
Synced ==
  /\ op \in {"activate", "rollback"} /\ ~renamed
       /\ (todo = <<>> \/ todo = <<remove_sidecar>>) => unsynced = {}
  /\ op = "replace" /\ todo = <<>> => unsynced = {}

\* Nothing is in progress over an edit, and the store does not know it.
Untouched ==
  manual =>
    /\ unsynced = {} /\ todo = <<>>
    /\ op \in {"idle", "down", "refused", "open"}
    /\ directory["pending"] = NoFile \/ ~Decided(directory)
    /\ op = "idle" => directory["path"] # document

IInv ==
  /\ Types
  /\ AlwaysSafe
  /\ renamed => todo # <<>>
  /\ Stage
  /\ Synced
  /\ Untouched
  /\ op = "refused" => manual

-----------------------------------------------------------------------------
(* Facts about the data *)

\* The calls of an operation, taken one by one.
LEMMA Taken ==
  ASSUME NEW a, NEW b, NEW c
  PROVE  /\ Head(<<a, b, c>>) = a /\ Tail(<<a, b, c>>) = <<b, c>> /\ <<a, b, c>> # <<>>
         /\ Head(<<a, b>>) = a /\ Tail(<<a, b>>) = <<b>> /\ <<a, b>> # <<>>
         /\ Head(<<a>>) = a /\ Tail(<<a>>) = <<>> /\ <<a>> # <<>>
OBVIOUS

\* A journal tells both of its documents, and is a file.
LEMMA JournalTells ==
  \A a, d : Journal(a, d).active = a /\ Journal(a, d).desired = d /\ Journal(a, d) # NoFile
BY DEF Journal, NoFile

\* A document is a file.
LEMMA DocumentIsFile == \A d \in Documents : d # NoFile
BY StoreInputs

\* A call changes its file and no other.
LEMMA CallChanges ==
  ASSUME directory \in Directories, NEW c \in Calls
  PROVE  /\ After(c) \in Directories
         /\ \A f \in Files : After(c)[f] = IF f = c.file THEN c.content ELSE directory[f]
BY DEF Directories, Calls, After, Contents, Fits, Files

\* The calls of the operations.
LEMMA CallTypes ==
  /\ \A d \in Documents : atomic_replace("path", d) \in Calls /\ atomic_replace("last_good", d) \in Calls
  /\ \A a, d \in Documents : atomic_replace("pending", Journal(a, d)) \in Calls
  /\ remove_sidecar \in Calls
  /\ <<remove_sidecar>> \in Seq(Calls) /\ <<>> \in Seq(Calls)
<1>1. remove_sidecar \in Calls
  BY DEF remove_sidecar, Calls, Contents, Fits, Files
<1> QED
  BY <1>1 DEF atomic_replace, remove_sidecar, Calls, Contents, Fits, Files, Journals

\* What the files of a directory hold.
LEMMA DirectoryTypes ==
  ASSUME NEW dir \in Directories
  PROVE  /\ dir["path"] \in Documents /\ dir["last_good"] \in Documents \cup {NoFile}
         /\ dir["pending"] # NoFile =>
              \E a, d \in Documents : dir["pending"] = Journal(a, d)
BY DEF Directories, Fits, Files, Journals
-----------------------------------------------------------------------------
(* The operations up to their first call *)

\* Between two operations nothing is left to do.
LEMMA AtRest ==
  ASSUME IInv, op \in {"idle", "down", "refused", "activate_failed"}
  PROVE  todo = <<>> /\ ~renamed /\ Left = <<>>
BY DEF IInv, Stage, Left, Types

\* An operation that compares the document does not start over an edit.
LEMMA ComparedIsOwn ==
  ASSUME IInv, OnDisk, op \in {"idle", "activate_failed"}
  PROVE  ~manual
BY DEF IInv, Untouched, OnDisk

\* Starting an operation changes no file.
LEMMA StartKeeps ==
  ASSUME IInv, NEW name \in Operations, NEW calls \in Seq(Calls), Start(name, calls)
  PROVE  Types' /\ AlwaysSafe'
BY DEF IInv, Types, AlwaysSafe, Safe, Start, disk, memory

\* A replacement starts from a store that runs its document.
LEMMA ReplaceStarts ==
  ASSUME IInv, NEW c \in Documents, replace(c)
  PROVE  IInv'
<1> DEFINE calls == <<Save, Announce(c), Put(c)>>
<1>1. ~manual /\ ~renamed /\ todo = <<>>
  BY AtRest, ComparedIsOwn DEF replace
<1>2. Clean
  BY JournalTells DEF IInv, Stage, Trial, replace
<1>3. calls \in Seq(Calls) /\ calls # <<>> /\ Start("replace", calls)
  BY <1>2, CallTypes DEF Clean, Save, Announce, Put, replace
<1>4. directory["path"] = active
  BY <1>2 DEF Clean, OnDisk, replace
<1>5. Types' /\ AlwaysSafe'
  BY <1>3, StartKeeps DEF Operations
<1>6. Clean' /\ Replacing(c)'
  BY <1>1, <1>2, <1>3, <1>4
     DEF Clean, Replacing, Left, Save, Announce, Put, Start, disk, memory
<1>7. Stage'
  BY <1>3, <1>6 DEF Stage, Start
<1> QED
  BY <1>1, <1>3, <1>5, <1>7 DEF IInv, Synced, Untouched, Start

\* An activation starts from a candidate on trial.
LEMMA ActivateStarts ==
  ASSUME IInv, activate_desired
  PROVE  IInv'
<1> DEFINE calls == <<Prove, remove_sidecar>>
<1>1. ~manual /\ ~renamed /\ todo = <<>>
  BY AtRest, ComparedIsOwn DEF activate_desired
<1>2. Trial
  BY DEF IInv, Stage, Clean, activate_desired
<1>3. calls \in Seq(Calls) /\ calls # <<>> /\ calls # <<remove_sidecar>> /\ Start("activate", calls)
  BY <1>2, CallTypes DEF Trial, Prove, activate_desired
<1>4. Types' /\ AlwaysSafe'
  BY <1>3, StartKeeps DEF Operations
<1>5. Trial' /\ Activating'
  BY <1>1, <1>2, <1>3 DEF Trial, Activating, Left, Prove, OnDisk, activate_desired, Start, disk, memory
<1>6. Stage'
  BY <1>3, <1>5 DEF Stage, Start
<1> QED
  BY <1>1, <1>3, <1>4, <1>6 DEF IInv, Synced, Untouched, Start

\* So does a rollback.
LEMMA RollbackStarts ==
  ASSUME IInv, rollback_pending
  PROVE  IInv'
<1> DEFINE calls == <<Put(active), remove_sidecar>>
<1>1. ~manual /\ ~renamed /\ todo = <<>>
  BY AtRest, ComparedIsOwn DEF rollback_pending
<1>2. Trial
  BY DEF IInv, Stage, Clean, rollback_pending
<1>3. calls \in Seq(Calls) /\ calls # <<>> /\ calls # <<remove_sidecar>> /\ Start("rollback", calls)
  BY <1>2, CallTypes DEF Trial, Put, rollback_pending
<1>4. Types' /\ AlwaysSafe'
  BY <1>3, StartKeeps DEF Operations
<1>5. Trial' /\ RollingBack'
  BY <1>1, <1>2, <1>3 DEF Trial, RollingBack, Left, Put, Start, disk, memory
<1>6. Stage'
  BY <1>3, <1>5 DEF Stage, Start
<1> QED
  BY <1>1, <1>3, <1>4, <1>6 DEF IInv, Synced, Untouched, Start
\* What recovery decides, and that it loads the document that Loads names.
LEMMA RecoveryDecides ==
  ASSUME directory \in Directories
  PROVE  /\ Recovery = "conflict" => directory["pending"] # NoFile /\ ~Decided(directory)
         /\ Recovery = "clear" => /\ directory["pending"] # NoFile /\ Decided(directory)
                                  /\ Loads(directory) = directory["path"]
         /\ Recovery = "restore" => /\ directory["pending"] # NoFile /\ Decided(directory)
                                    /\ Loads(directory) = directory["last_good"]
                                    /\ Loads(directory) = directory["pending"].active
         /\ Recovery = "current" => directory["pending"] = NoFile
<1>1. CASE directory["pending"] = NoFile
  BY <1>1 DEF Recovery
<1>2. CASE directory["pending"] # NoFile
  <2>1. PICK a \in Documents, d \in Documents : directory["pending"] = Journal(a, d)
    BY <1>2, DirectoryTypes
  <2> DEFINE p == directory["path"]
             g == directory["last_good"]
  <2>2. directory["pending"].active = a /\ directory["pending"].desired = d
    BY <2>1, JournalTells
  <2>3. CASE p = a
    <3>1. Recovery = "clear"
      BY <1>2, <2>2, <2>3 DEF Recovery
    <3> QED
      BY <1>2, <2>2, <2>3, <3>1 DEF Decided, Loads
  <2>4. CASE p \notin {a, d}
    <3>1. Recovery = "conflict"
      BY <1>2, <2>2, <2>4 DEF Recovery
    <3> QED
      BY <1>2, <2>2, <2>4, <3>1 DEF Decided
  <2>5. CASE p = d /\ p # a
    <3>1. Recovery = CASE g = NoFile -> "conflict" [] g = d -> "clear" [] g = a -> "restore"
                       [] OTHER -> "conflict"
      BY <1>2, <2>2, <2>5 DEF Recovery
    <3>2. a # NoFile /\ d # NoFile /\ a # d
      BY <2>5, DocumentIsFile
    <3>3. CASE g = d
      BY <1>2, <2>2, <2>5, <3>1, <3>2, <3>3 DEF Decided, Loads
    <3>4. CASE g = a
      BY <1>2, <2>2, <2>5, <3>1, <3>2, <3>4 DEF Decided, Loads
    <3>5. CASE g \notin {a, d}
      <4>1. Recovery = "conflict"
        BY <3>1, <3>5
      <4> QED
        BY <1>2, <2>2, <2>5, <3>5, <4>1 DEF Decided
    <3> QED
      BY <3>3, <3>4, <3>5
  <2> QED
    BY <2>3, <2>4, <2>5
<1> QED
  BY <1>1, <1>2

\* A start refuses only over an edit; otherwise it undoes what is left.
LEMMA RecoverStarts ==
  ASSUME IInv, recover_interrupted_activation
  PROVE  IInv'
<1>1. ~renamed /\ todo = <<>> /\ op = "down"
  BY AtRest DEF recover_interrupted_activation
<1>2. directory \in Directories /\ Safe(directory)
  BY DEF IInv, Types, AlwaysSafe
<1>3. CASE Recovery = "conflict" /\ Start("refused", <<>>)
  <2>1. manual
    BY <1>2, <1>3, RecoveryDecides DEF Safe
  <2>2. Types' /\ AlwaysSafe'
    BY <1>3, StartKeeps, CallTypes DEF Operations
  <2> QED
    BY <1>1, <1>3, <2>1, <2>2 DEF IInv, Stage, Synced, Untouched, Start, disk, memory, Decided
<1>4. ASSUME NEW calls \in Seq(Calls), Start("open", calls), ~manual \/ calls = <<>>, Recovering'
      PROVE  IInv'
  <2>1. Types' /\ AlwaysSafe'
    BY <1>4, StartKeeps DEF Operations
  <2>2. Stage' /\ Synced'
    BY <1>4 DEF Stage, Synced, Start
  <2> QED
    BY <1>1, <1>4, <2>1, <2>2 DEF IInv, Untouched, Start, disk, memory, Decided
<1>5. CASE Recovery = "clear" /\ Start("open", <<remove_sidecar>>)
  <2>1. Loads(directory) = directory["path"] /\ ~manual
    BY <1>2, <1>5, RecoveryDecides DEF IInv, Untouched
  <2>2. Recovering'
    BY <1>1, <1>5, <2>1 DEF Recovering, Left, Start, disk, Loads
  <2> QED
    BY <1>4, <1>5, <2>1, <2>2, CallTypes
<1>6. CASE Recovery = "restore"
           /\ Start("open", <<atomic_replace("path", directory["last_good"]), remove_sidecar>>)
  <2>1. /\ directory["pending"] # NoFile /\ Loads(directory) = directory["last_good"]
        /\ Loads(directory) = directory["pending"].active /\ ~manual
    BY <1>2, <1>6, RecoveryDecides DEF IInv, Untouched
  <2>2. directory["last_good"] \in Documents
    <3>1. PICK a \in Documents, d \in Documents : directory["pending"] = Journal(a, d)
      BY <1>2, <2>1, DirectoryTypes
    <3> QED
      BY <2>1, <3>1, JournalTells
  <2>3. Recovering'
    BY <1>1, <1>6, <2>1 DEF Recovering, Left, Put, Start, disk, Loads
  <2> QED
    BY <1>4, <1>6, <2>1, <2>2, <2>3, CallTypes
<1>7. CASE Recovery = "current" /\ Start("open", <<>>)
  <2>1. Recovering'
    BY <1>1, <1>2, <1>7, RecoveryDecides DEF Recovering, Left, Start, disk
  <2> QED
    BY <1>4, <1>7, <2>1, CallTypes
<1> QED
  BY <1>3, <1>5, <1>6, <1>7 DEF recover_interrupted_activation
-----------------------------------------------------------------------------
(* The calls *)

\* The effect of the next call: its rename or unlink, or nothing to unlink.
Effect ==
  /\ ~renamed /\ todo # <<>>
  /\ directory' = After(Head(todo)) /\ Left' = Tail(todo)
  /\ legit' = IF op = "activate" /\ Head(todo).file = "last_good"
              THEN legit \cup {document} ELSE legit
  /\ UNCHANGED <<op, memory, manual>>

\* The files after a call.
LEMMA FilesAfter ==
  ASSUME IInv, Effect, NEW f \in Files, NEW x, f = Head(todo).file, x = Head(todo).content
  PROVE  /\ directory' \in Directories /\ directory'[f] = x
         /\ \A g \in Files : g # f => directory'[g] = directory[g]
<1>1. Head(todo) \in Calls /\ directory \in Directories
  BY DEF IInv, Types, Effect
<1> QED
  BY <1>1, CallChanges DEF Effect

\* A replacement is safe after each of its calls: until the last one the active
\* document is in place, and after it the journal names the way back.
LEMMA ReplaceEffect ==
  ASSUME IInv, Effect, op = "replace"
  PROVE  Safe(directory)' /\ Stage'
<1>1. ~manual /\ ~manual' /\ legit' = legit /\ Left = todo
  BY DEF IInv, Untouched, Effect, Left
<1>2. PICK c \in Documents : Replacing(c)
  BY DEF IInv, Stage
<1>3. Clean /\ active \in legit
  <2>1. directory["path"] = active /\ Clean
    BY <1>1, <1>2 DEF Replacing, IInv, Stage, Effect
  <2>2. Loads(directory) = active /\ Decided(directory)
    BY <2>1 DEF Clean, Loads, Decided
  <2> QED
    BY <1>1, <2>1, <2>2 DEF IInv, AlwaysSafe, Safe
<1>4. CASE todo = <<Save, Announce(c), Put(c)>> /\ directory["path"] = active
  <2>1. /\ Left' = <<Announce(c), Put(c)>>
        /\ Head(todo).file = "last_good" /\ Head(todo).content = active
    BY <1>4, Taken DEF Effect, Save, atomic_replace
  <2>2. /\ directory'["path"] = active /\ directory'["last_good"] = active
        /\ directory'["pending"] = directory["pending"]
    BY <1>4, <2>1, FilesAfter DEF Files
  <2>3. Clean' /\ Replacing(c)' /\ Loads(directory)' = active /\ Decided(directory)'
    BY <1>3, <2>1, <2>2 DEF Clean, Replacing, Loads, Decided, Effect, memory, Announce, Put
  <2> QED
    BY <1>1, <1>3, <2>3 DEF Safe, Stage, Effect
<1>5. CASE /\ todo = <<Announce(c), Put(c)>> /\ directory["path"] = active
           /\ directory["last_good"] = active
  <2>1. /\ Left' = <<Put(c)>>
        /\ Head(todo).file = "pending" /\ Head(todo).content = Journal(active, c)
    BY <1>5, Taken DEF Effect, Announce, atomic_replace
  <2>2. /\ directory'["path"] = active /\ directory'["last_good"] = active
        /\ directory'["pending"] = Journal(active, c)
    BY <1>5, <2>1, FilesAfter DEF Files
  <2>3. directory'["pending"].active = active
    BY <2>2, JournalTells
  <2>4. Clean' /\ Loads(directory)' = active /\ Decided(directory)'
    BY <1>3, <2>2, <2>3 DEF Clean, Loads, Decided, Effect, memory
  <2>5. Replacing(c)'
    BY <2>1, <2>2 DEF Replacing, Effect, memory, Put
  <2> QED
    BY <1>1, <1>3, <2>4, <2>5 DEF Safe, Stage, Effect
<1>6. CASE /\ todo = <<Put(c)>> /\ directory["path"] = active
           /\ directory["last_good"] = active /\ directory["pending"] = Journal(active, c)
  <2>1. /\ Left' = <<>>
        /\ Head(todo).file = "path" /\ Head(todo).content = c
    BY <1>6, Taken DEF Effect, Put, atomic_replace
  <2>2. /\ directory'["path"] = c /\ directory'["last_good"] = active
        /\ directory'["pending"] = Journal(active, c)
    BY <1>6, <2>1, FilesAfter DEF Files
  <2>3. Clean' /\ Replacing(c)' /\ Loads(directory)' = active /\ Decided(directory)'
    BY <1>3, <2>1, <2>2, JournalTells DEF Clean, Replacing, Loads, Decided, Effect, memory
  <2> QED
    BY <1>1, <1>3, <2>3 DEF Safe, Stage, Effect
<1> QED
  BY <1>1, <1>2, <1>4, <1>5, <1>6 DEF Replacing, Effect
\* The candidate in place is proven from the moment it is the last good one.
LEMMA ActivateEffect ==
  ASSUME IInv, Effect, op = "activate"
  PROVE  Safe(directory)' /\ Stage'
<1>1. ~manual /\ ~manual' /\ Left = todo
  BY DEF IInv, Untouched, Effect, Left
<1>2. Trial /\ Activating /\ directory["path"] = document /\ active \in legit
  BY <1>1 DEF IInv, Stage, Activating, Trial
<1>3. CASE todo = <<Prove, remove_sidecar>>
  <2>1. /\ Left' = <<remove_sidecar>> /\ legit' = legit \cup {document}
        /\ Head(todo).file = "last_good" /\ Head(todo).content = document
    BY <1>3, Taken DEF Effect, Prove, atomic_replace
  <2>2. /\ directory'["path"] = document /\ directory'["last_good"] = document
        /\ directory'["pending"] = directory["pending"]
    BY <1>2, <2>1, FilesAfter DEF Files
  <2>3. Trial' /\ Activating'
    BY <1>2, <2>1, <2>2 DEF Trial, Activating, Effect, memory
  <2>4. Loads(directory)' = document /\ Decided(directory)'
    BY <1>2, <2>2, JournalTells DEF Trial, Loads, Decided
  <2> QED
    BY <2>1, <2>3, <2>4 DEF Safe, Stage, Effect
<1>4. CASE todo = <<remove_sidecar>> /\ document \in legit
  <2>1. /\ Left' = <<>> /\ legit' = legit
        /\ Head(todo).file = "pending" /\ Head(todo).content = NoFile
    BY <1>4, Taken DEF Effect, remove_sidecar
  <2>2. directory'["path"] = document /\ directory'["pending"] = NoFile
    BY <1>2, <2>1, FilesAfter DEF Files
  <2>3. Trial' /\ Activating'
    BY <1>2, <2>1, <2>2 DEF Trial, Activating, Effect, memory
  <2>4. Loads(directory)' = document /\ Decided(directory)'
    BY <2>2 DEF Loads, Decided
  <2> QED
    BY <1>4, <2>1, <2>3, <2>4 DEF Safe, Stage, Effect
<1> QED
  BY <1>1, <1>2, <1>3, <1>4 DEF Activating, Effect

\* A rollback leaves the active document in place.
LEMMA RollbackEffect ==
  ASSUME IInv, Effect, op = "rollback"
  PROVE  Safe(directory)' /\ Stage'
<1>1. ~manual /\ ~manual' /\ Left = todo /\ legit' = legit
  BY DEF IInv, Untouched, Effect, Left
<1>2. Trial /\ RollingBack /\ active \in legit
  BY <1>1 DEF IInv, Stage, Trial
<1>3. CASE todo = <<Put(active), remove_sidecar>>
  <2>1. /\ Left' = <<remove_sidecar>>
        /\ Head(todo).file = "path" /\ Head(todo).content = active
    BY <1>3, Taken DEF Effect, Put, atomic_replace
  <2>2. directory'["path"] = active /\ directory'["pending"] = directory["pending"]
    BY <2>1, FilesAfter DEF Files
  <2>3. Trial' /\ RollingBack'
    BY <1>1, <1>2, <2>1, <2>2 DEF Trial, RollingBack, Effect, memory
  <2>4. Loads(directory)' = active /\ Decided(directory)'
    BY <1>2, <2>2, JournalTells DEF Trial, Loads, Decided
  <2> QED
    BY <1>1, <1>2, <2>3, <2>4 DEF Safe, Stage, Effect
<1>4. CASE todo = <<remove_sidecar>> /\ directory["path"] = active
  <2>1. /\ Left' = <<>>
        /\ Head(todo).file = "pending" /\ Head(todo).content = NoFile
    BY <1>4, Taken DEF Effect, remove_sidecar
  <2>2. directory'["path"] = active /\ directory'["pending"] = NoFile
    BY <1>4, <2>1, FilesAfter DEF Files
  <2>3. Trial' /\ RollingBack'
    BY <1>1, <1>2, <2>1, <2>2 DEF Trial, RollingBack, Effect, memory
  <2>4. Loads(directory)' = active /\ Decided(directory)'
    BY <2>2 DEF Loads, Decided
  <2> QED
    BY <1>1, <1>2, <2>3, <2>4 DEF Safe, Stage, Effect
<1> QED
  BY <1>1, <1>2, <1>3, <1>4 DEF RollingBack, Effect

\* Without its journal a directory loads the document in place.
LEMMA UnjournalEffect ==
  ASSUME IInv, Effect, op = "unjournal"
  PROVE  Safe(directory)' /\ Stage'
<1>1. ~manual /\ ~manual' /\ Left = todo /\ legit' = legit
  BY DEF IInv, Untouched, Effect, Left
<1>2. Clean /\ directory["path"] \in legit /\ todo = <<remove_sidecar>>
  BY <1>1 DEF IInv, Stage, Effect
<1>3. /\ Left' = <<>>
      /\ Head(todo).file = "pending" /\ Head(todo).content = NoFile
  BY <1>2, Taken DEF Effect, remove_sidecar
<1>4. directory'["path"] = directory["path"] /\ directory'["pending"] = NoFile
  BY <1>3, FilesAfter DEF Files
<1>5. Clean' /\ Loads(directory)' = directory["path"] /\ Decided(directory)'
  BY <1>2, <1>4 DEF Clean, Loads, Decided, Effect, memory
<1> QED
  BY <1>1, <1>2, <1>3, <1>4, <1>5 DEF Safe, Stage, Effect

\* Recovery goes on to load the same document, however often it is interrupted.
LEMMA RecoveryEffect ==
  ASSUME IInv, Effect, op = "open"
  PROVE  Safe(directory)' /\ Stage'
<1>1. ~manual /\ ~manual' /\ Left = todo /\ legit' = legit
  BY DEF IInv, Untouched, Effect, Left
<1>2. Recovering /\ Loads(directory) \in legit
  BY <1>1 DEF IInv, Stage, AlwaysSafe, Safe
<1> DEFINE kept == Loads(directory)
<1>3. CASE /\ todo = <<Put(kept), remove_sidecar>>
           /\ directory["pending"] # NoFile /\ kept = directory["pending"].active
  <2>1. /\ Left' = <<remove_sidecar>>
        /\ Head(todo).file = "path" /\ Head(todo).content = kept
    BY <1>3, Taken DEF Effect, Put, atomic_replace
  <2> HIDE DEF kept
  <2>2. directory'["path"] = kept /\ directory'["pending"] = directory["pending"]
    BY <2>1, FilesAfter DEF Files
  <2>3. Loads(directory)' = kept /\ Decided(directory)' /\ Loads(directory)' = directory'["path"]
    BY <1>3, <2>2 DEF Loads, Decided
  <2>4. Recovering'
    BY <2>1, <2>3 DEF Recovering
  <2> QED
    BY <1>1, <1>2, <2>3, <2>4 DEF Safe, Stage, Effect, kept
<1>4. CASE todo = <<remove_sidecar>> /\ kept = directory["path"]
  <2>1. /\ Left' = <<>>
        /\ Head(todo).file = "pending" /\ Head(todo).content = NoFile
    BY <1>4, Taken DEF Effect, remove_sidecar
  <2>2. directory'["path"] = directory["path"] /\ directory'["pending"] = NoFile
    BY <2>1, FilesAfter DEF Files
  <2>3. Loads(directory)' = directory["path"] /\ Decided(directory)' /\ Recovering'
    BY <2>1, <2>2 DEF Loads, Decided, Recovering
  <2> QED
    BY <1>1, <1>2, <1>4, <2>3 DEF Safe, Stage, Effect
<1> QED
  BY <1>1, <1>2, <1>3, <1>4 DEF Recovering, Effect
\* Every call leaves a directory from which the process may start.
LEMMA EffectSafe ==
  ASSUME IInv, Effect
  PROVE  Safe(directory)' /\ Stage' /\ directory' \in Directories /\ ~manual
<1>1. op \in {"replace", "unjournal", "activate", "rollback", "open"} /\ ~manual
  BY DEF IInv, Types, Operations, Stage, Untouched, Effect
<1>2. Head(todo) \in Calls /\ directory \in Directories
  BY DEF IInv, Types, Effect
<1>3. directory' \in Directories
  BY <1>2, CallChanges DEF Effect
<1> QED
  BY <1>1, <1>3, ReplaceEffect, UnjournalEffect, ActivateEffect, RollbackEffect, RecoveryEffect

\* A rename is safe, and so is losing it.
LEMMA RenameSafe ==
  ASSUME IInv, Rename
  PROVE  IInv'
<1>1. Effect
  BY DEF Rename, Effect, Left
<1>2. Safe(directory)' /\ Stage' /\ directory' \in Directories /\ ~manual
  BY <1>1, EffectSafe
<1>3. legit \subseteq legit' /\ legit' \subseteq Documents
  <2>1. op = "activate" => document \in Documents
    BY DEF IInv, Stage, Trial
  <2> QED
    BY <2>1 DEF IInv, Types, Rename
<1>4. Types'
  BY <1>2, <1>3 DEF IInv, Types, Rename, memory
<1>5. AlwaysSafe'
  BY <1>2, <1>3 DEF IInv, AlwaysSafe, Safe, Rename
<1>6. Synced' /\ Untouched'
  BY <1>2 DEF Synced, Untouched, Rename
<1> QED
  BY <1>2, <1>4, <1>5, <1>6 DEF IInv, Rename

\* Which operations end in the removal of the journal.
LEMMA RemovesLast ==
  ASSUME IInv, ~renamed, todo # <<>>, Head(todo) = remove_sidecar
  PROVE  op # "replace" /\ todo = <<remove_sidecar>>
<1>1. op \in {"replace", "unjournal", "activate", "rollback", "open"} /\ Left = todo
  BY DEF IInv, Types, Operations, Stage, Left
<1>2. /\ \A x : atomic_replace("path", x) # remove_sidecar
      /\ \A x : atomic_replace("last_good", x) # remove_sidecar
      /\ \A a, d : atomic_replace("pending", Journal(a, d)) # remove_sidecar
  BY JournalTells DEF atomic_replace, remove_sidecar
<1>3. op # "replace"
  <2> SUFFICES ASSUME op = "replace" PROVE FALSE
    OBVIOUS
  <2>1. PICK c \in Documents : Replacing(c)
    BY DEF IInv, Stage
  <2> QED
    BY <1>1, <1>2, <2>1, Taken DEF Replacing, Save, Announce, Put
<1>4. CASE op = "unjournal"
  BY <1>1, <1>4 DEF IInv, Stage
<1>5. CASE op = "activate"
  <2>1. Activating
    BY <1>5 DEF IInv, Stage
  <2>2. Prove # remove_sidecar
    BY <1>2 DEF Prove
  <2>3. todo # <<Prove, remove_sidecar>>
    BY <2>2, Taken
  <2> QED
    BY <1>1, <1>3, <2>1, <2>3 DEF Activating
<1>6. CASE op = "rollback"
  <2>1. RollingBack
    BY <1>6 DEF IInv, Stage
  <2>2. Put(active) # remove_sidecar
    BY <1>2 DEF Put
  <2>3. todo # <<Put(active), remove_sidecar>>
    BY <2>2, Taken
  <2> QED
    BY <1>1, <1>3, <2>1, <2>3 DEF RollingBack
<1>7. CASE op = "open"
  <2>1. Recovering
    BY <1>7 DEF IInv, Stage
  <2>2. Put(Loads(directory)) # remove_sidecar
    BY <1>2 DEF Put
  <2>3. todo # <<Put(Loads(directory)), remove_sidecar>>
    BY <2>2, Taken
  <2> QED
    BY <1>1, <1>3, <2>1, <2>3 DEF Recovering
<1> QED
  BY <1>1, <1>3, <1>4, <1>5, <1>6, <1>7

\* A journal that is not there is removed.
LEMMA RemoveNothingSafe ==
  ASSUME IInv, RemoveNothing
  PROVE  IInv'
<1>1. Head(todo) = remove_sidecar /\ directory["pending"] = NoFile
  BY DEF RemoveNothing, NothingToRemove
<1>2. directory' = After(Head(todo))
  <2>1. directory \in [Files -> Contents]
    BY DEF IInv, Types, Directories
  <2> QED
    BY <1>1, <2>1 DEF After, remove_sidecar, RemoveNothing, disk, Files
<1>3. Effect
  BY <1>1, <1>2 DEF RemoveNothing, Effect, Left, remove_sidecar, disk, memory
<1>4. Stage' /\ ~manual
  BY <1>3, EffectSafe
<1>5. op # "replace" /\ todo = <<remove_sidecar>>
  BY <1>1, RemovesLast DEF RemoveNothing
<1>6. Types' /\ AlwaysSafe'
  BY DEF IInv, Types, AlwaysSafe, Safe, RemoveNothing, disk, memory
<1>7. Synced' /\ Untouched'
  BY <1>4, <1>5 DEF IInv, Synced, Untouched, RemoveNothing, disk
<1> QED
  BY <1>4, <1>6, <1>7 DEF IInv, RemoveNothing

\* A sync makes the directory as it is the only one.
LEMMA SyncSafe ==
  ASSUME IInv, SyncParentDirectory
  PROVE  IInv'
<1>1. Left' = Left /\ ~manual /\ todo # <<>>
  BY DEF IInv, Untouched, Left, SyncParentDirectory
<1>2. Types' /\ AlwaysSafe'
  <2>1. Tail(todo) \in Seq(Calls)
    BY <1>1 DEF IInv, Types
  <2> QED
    BY <2>1 DEF IInv, Types, AlwaysSafe, Safe, SyncParentDirectory, memory
<1>3. Stage'
  <2>1. op \notin {"idle", "down", "refused", "activate_failed"}
    BY <1>1 DEF IInv, Stage
  <2>2. Clean' = Clean /\ Trial' = Trial /\ Activating' = Activating /\ RollingBack' = RollingBack
    BY <1>1 DEF Clean, Trial, Activating, RollingBack, Prove, Put, SyncParentDirectory, memory
  <2>3. Recovering' = Recovering /\ \A c : Replacing(c)' = Replacing(c)
    BY <1>1 DEF Recovering, Replacing, Loads, Save, Announce, Put, SyncParentDirectory, memory
  <2> QED
    BY <1>1, <2>1, <2>2, <2>3 DEF IInv, Stage, SyncParentDirectory
<1> QED
  BY <1>1, <1>2, <1>3 DEF IInv, Synced, Untouched, SyncParentDirectory
\* A call that fails leaves what the calls before it have left; one whose sync
\* failed leaves its effect too.
LEMMA FailSafe ==
  ASSUME IInv, Fail
  PROVE  IInv'
<1>1. /\ ~manual /\ legit \subseteq legit' /\ legit' \subseteq Documents
      /\ op \in {"replace", "unjournal", "activate", "rollback", "open"}
  BY DEF IInv, Types, Operations, Stage, Untouched, Fail
<1>2. /\ AfterError.op \in {"unjournal", "activate_failed", "down", "idle"}
      /\ AfterError.op = "unjournal" => op = "replace" /\ AfterError.todo = <<remove_sidecar>>
      /\ AfterError.op # "unjournal" => AfterError.todo = <<>>
      /\ AfterError.op = "activate_failed" => op = "activate"
      /\ AfterError.op = "idle" => op \in {"replace", "unjournal", "rollback"}
  BY <1>1 DEF AfterError
<1>3. op' = AfterError.op /\ todo' = AfterError.todo /\ ~renamed' /\ Left' = AfterError.todo
  BY DEF Fail, Left
<1>4. Types' /\ AlwaysSafe'
  <2>1. AfterError.op \in Operations /\ AfterError.todo \in Seq(Calls)
    BY <1>2, CallTypes DEF Operations
  <2>2. Types'
    BY <1>1, <1>3, <2>1 DEF IInv, Types, Fail, disk, memory
  <2> QED
    BY <1>1, <2>2 DEF IInv, AlwaysSafe, Safe, Fail, disk
<1>5. (Clean => Clean') /\ (Trial => Trial')
  BY <1>1 DEF Clean, Trial, Fail, disk, memory
<1>6. op = "replace" => Clean /\ directory["path"] \in legit'
  <2> SUFFICES ASSUME op = "replace" PROVE Clean /\ directory["path"] \in legit'
    OBVIOUS
  <2>1. Clean
    BY DEF IInv, Stage
  <2>2. CASE renamed
    BY <2>1, <2>2, DirectoryTypes DEF IInv, Types, Fail
  <2>3. CASE ~renamed
    <3>1. PICK c \in Documents : Replacing(c)
      BY DEF IInv, Stage
    <3>2. directory["path"] = active
      BY <2>3, <3>1 DEF Replacing, Left, Fail
    <3>3. Loads(directory) = directory["path"] /\ Decided(directory)
      BY <2>1, <3>2 DEF Clean, Loads, Decided
    <3> QED
      BY <1>1, <2>1, <3>3 DEF IInv, AlwaysSafe, Safe
  <2> QED
    BY <2>1, <2>2, <2>3
<1>7. Stage'
  <2>1. CASE op' = "unjournal"
    BY <1>2, <1>3, <1>5, <1>6, <2>1 DEF Stage, Fail, disk
  <2>2. CASE op' = "activate_failed"
    BY <1>2, <1>3, <1>5, <2>2 DEF IInv, Stage
  <2>3. CASE op' = "idle"
    BY <1>2, <1>3, <1>5, <2>3 DEF IInv, Stage
  <2>4. CASE op' = "down"
    BY <1>2, <1>3, <2>4 DEF Stage
  <2> QED
    BY <1>2, <1>3, <2>1, <2>2, <2>3, <2>4
<1>8. Synced' /\ Untouched'
  BY <1>1, <1>2, <1>3 DEF Synced, Untouched, Fail
<1> QED
  BY <1>2, <1>3, <1>4, <1>7, <1>8 DEF IInv

\* An operation whose calls all succeeded is durable, so that a restart loads
\* what it has decided and nothing else.
LEMMA FinishSafe ==
  ASSUME IInv, Finish
  PROVE  IInv'
<1>1. /\ ~renamed /\ Left = <<>> /\ directory \in Directories /\ Safe(directory)
      /\ op' = "idle" /\ todo' = <<>> /\ renamed' = FALSE /\ UNCHANGED disk
  BY DEF IInv, Types, AlwaysSafe, Left, Finish
<1>2. directory["path"] \in Documents
  BY <1>1, DirectoryTypes
<1>3. ASSUME document' \in Documents \cup {NoFile}, active' \in Documents \cup {NoFile},
             pending' \in {NoFile} \cup Journals, legit' \subseteq Documents,
             AlwaysSafe', Clean' \/ Trial', ~manual'
      PROVE  IInv'
  <2>1. manual' = FALSE
    BY <1>3 DEF IInv, Types, Finish
  <2>2. Types'
    BY <1>1, <1>3, <2>1, CallTypes DEF IInv, Types, Operations, disk
  <2> QED
    BY <1>1, <1>3, <2>2 DEF IInv, Stage, Synced, Untouched
<1>4. CASE op = "replace"
  <2>1. Clean /\ ~manual /\ unsynced = {}
    BY <1>4 DEF IInv, Stage, Synced, Untouched, Finish
  <2>2. PICK c \in Documents : Replacing(c)
    BY <1>4 DEF IInv, Stage
  <2>3. /\ directory["path"] = c /\ directory["last_good"] = active
        /\ directory["pending"] = Journal(active, c)
    BY <1>1, <2>2 DEF Replacing
  <2>4. /\ document' = c /\ pending' = Journal(active, c) /\ active' = active /\ legit' = {active}
        /\ ~manual'
    BY <1>4, <2>1, <2>3 DEF Finish
  <2>5. Loads(directory) = active /\ Decided(directory)
    BY <2>3, JournalTells DEF Loads, Decided
  <2>6. AlwaysSafe'
    BY <1>1, <2>1, <2>4, <2>5 DEF AlwaysSafe, Safe, disk, Loads, Decided
  <2>7. Trial'
    BY <1>1, <2>1, <2>3, <2>4 DEF Clean, Trial, disk
  <2>8. Journal(active, c) \in Journals
    BY <2>1 DEF Clean, Journals
  <2> QED
    BY <1>3, <2>1, <2>4, <2>6, <2>7, <2>8 DEF Clean
<1>5. CASE op = "activate"
  <2>1. /\ Trial /\ ~manual /\ unsynced = {}
        /\ directory["path"] = document /\ directory["pending"] = NoFile
    BY <1>1, <1>5 DEF IInv, Stage, Activating, Synced, Untouched, Finish
  <2>2. document' = document /\ active' = document /\ pending' = NoFile /\ legit' = {document} /\ ~manual'
    BY <1>5, <2>1 DEF Finish
  <2>3. AlwaysSafe'
    BY <1>1, <2>1, <2>2 DEF AlwaysSafe, Safe, Loads, Decided, disk
  <2>4. Clean'
    BY <1>1, <2>1, <2>2 DEF Trial, Clean, disk
  <2> QED
    BY <1>3, <2>1, <2>2, <2>3, <2>4 DEF Trial
<1>6. CASE op = "rollback"
  <2>1. /\ Trial /\ ~manual /\ unsynced = {}
        /\ directory["path"] = active /\ directory["pending"] = NoFile
    BY <1>1, <1>6 DEF IInv, Stage, RollingBack, Synced, Untouched, Finish
  <2>2. document' = active /\ active' = active /\ pending' = NoFile /\ legit' = {active} /\ ~manual'
    BY <1>6, <2>1 DEF Finish
  <2>3. AlwaysSafe'
    BY <1>1, <2>1, <2>2 DEF AlwaysSafe, Safe, Loads, Decided, disk
  <2>4. Clean'
    BY <1>1, <2>1, <2>2 DEF Trial, Clean, disk
  <2> QED
    BY <1>3, <2>1, <2>2, <2>3, <2>4 DEF Trial
<1>7. CASE op = "unjournal"
  <2>1. Clean /\ ~manual
    BY <1>7 DEF IInv, Stage, Untouched
  <2>2. UNCHANGED <<memory, legit, manual>>
    BY <1>7 DEF Finish
  <2>3. AlwaysSafe' /\ Clean'
    BY <1>1, <2>1, <2>2 DEF IInv, AlwaysSafe, Safe, Clean, disk, memory
  <2> QED
    BY <1>3, <2>1, <2>2, <2>3 DEF IInv, Types, memory
<1>8. CASE op = "open"
  <2>1. directory["pending"] = NoFile
    BY <1>1, <1>8 DEF IInv, Stage, Recovering
  <2>2. /\ document' = directory["path"] /\ active' = directory["path"] /\ pending' = NoFile
        /\ legit' = IF unsynced = {} THEN {directory["path"]} ELSE legit
        /\ ~manual'
    BY <1>8 DEF Finish
  <2>3. Loads(directory) = directory["path"] /\ Decided(directory)
    BY <2>1 DEF Loads, Decided
  <2>4. manual => unsynced = {}
    BY DEF IInv, Untouched
  <2>5. AlwaysSafe'
    BY <1>1, <2>2, <2>3, <2>4 DEF IInv, AlwaysSafe, Safe, disk, Loads, Decided
  <2>6. Clean'
    BY <1>1, <1>2, <2>1, <2>2 DEF Clean, disk
  <2>7. legit' \subseteq Documents
    BY <1>2, <2>2 DEF IInv, Types
  <2> QED
    BY <1>2, <1>3, <2>2, <2>5, <2>6, <2>7
<1> QED
  BY <1>4, <1>5, <1>6, <1>7, <1>8 DEF Finish
-----------------------------------------------------------------------------
(* The world around it *)

\* A process that has gone keeps nothing but the files.
LEMMA DownSafe ==
  ASSUME IInv, Down, directory' \in {directory} \cup unsynced, unsynced' \subseteq unsynced,
         UNCHANGED <<legit, manual>>
  PROVE  IInv'
<1>1. directory' \in Directories /\ unsynced' \subseteq Directories
  BY DEF IInv, Types
<1>2. Types'
  BY <1>1, CallTypes DEF IInv, Types, Operations, Down
<1>3. AlwaysSafe'
  BY DEF IInv, AlwaysSafe, Safe
<1>4. manual => directory' = directory
  BY DEF IInv, Untouched
<1>5. Untouched'
  BY <1>4 DEF IInv, Untouched, Decided, Down
<1> QED
  BY <1>2, <1>3, <1>5 DEF IInv, Stage, Synced, Down

\* An edit is taken for a document of its own.
LEMMA EditSafe ==
  ASSUME IInv, NEW d \in Documents, Edit(d)
  PROVE  IInv'
<1>1. todo = <<>> /\ ~renamed
  BY AtRest DEF Edit
<1>2. /\ directory' \in Directories /\ directory'["path"] = d
      /\ directory'["pending"] = directory["pending"] /\ directory'["last_good"] = directory["last_good"]
  <2>1. atomic_replace("path", d) \in Calls /\ directory \in Directories
    BY CallTypes DEF IInv, Types
  <2>2. directory' = After(atomic_replace("path", d))
    BY DEF Edit, After, atomic_replace
  <2> QED
    BY <2>1, <2>2, CallChanges DEF atomic_replace, Files
<1>3. Types'
  BY <1>2 DEF IInv, Types, Edit, memory
<1>4. d # document /\ (directory["pending"] # NoFile =>
        d # directory["pending"].active /\ d # directory["pending"].desired)
  BY DEF Edit, Known
<1>5. directory'["pending"] = NoFile \/ ~Decided(directory)'
  BY <1>2, <1>4 DEF Decided
<1>6. AlwaysSafe'
  <2>1. Decided(directory)' => Loads(directory)' = d
    BY <1>2, <1>5 DEF Loads
  <2> QED
    BY <2>1 DEF AlwaysSafe, Safe, Edit
<1>7. Stage'
  BY <1>1, <1>2 DEF IInv, Stage, Clean, Trial, Edit, memory
<1> QED
  BY <1>1, <1>2, <1>3, <1>4, <1>5, <1>6, <1>7 DEF IInv, Synced, Untouched, Edit, memory

-----------------------------------------------------------------------------
(* The theorems *)

\* The file that the program finds first.
LEMMA InitSafe == Init => IInv
<1> SUFFICES ASSUME Init PROVE IInv
  OBVIOUS
<1>1. PICK d \in Documents :
        /\ directory = [f \in Files |-> IF f = "path" THEN d ELSE NoFile]
        /\ unsynced = {} /\ legit = {d} /\ manual = FALSE
  BY DEF Init
<1>2. /\ op = "down" /\ todo = <<>> /\ renamed = FALSE
      /\ document = NoFile /\ active = NoFile /\ pending = NoFile
  BY DEF Init
<1>3. /\ directory \in Directories /\ directory["path"] = d
      /\ directory["pending"] = NoFile
  BY <1>1 DEF Directories, Contents, Fits, Files
<1>4. Types
  BY <1>1, <1>2, <1>3, CallTypes DEF Types, Operations
<1>5. AlwaysSafe
  BY <1>1, <1>3 DEF AlwaysSafe, Safe, Decided, Loads
<1> QED
  BY <1>1, <1>2, <1>4, <1>5 DEF IInv, Stage, Synced, Untouched

\* Every step of the program, of an operator and of the machine keeps IInv.
LEMMA NextSafe == IInv /\ [Next]_vars => IInv'
<1> SUFFICES ASSUME IInv, [Next]_vars PROVE IInv'
  OBVIOUS
<1>1. CASE \E d \in Documents : replace(d) \/ Edit(d)
  BY <1>1, ReplaceStarts, EditSafe
<1>2. CASE activate_desired \/ rollback_pending \/ recover_interrupted_activation
  BY <1>2, ActivateStarts, RollbackStarts, RecoverStarts
<1>3. CASE RemoveNothing \/ Rename \/ SyncParentDirectory \/ Fail \/ Finish
  BY <1>3, RemoveNothingSafe, RenameSafe, SyncSafe, FailSafe, FinishSafe
<1>4. CASE Kill
  BY <1>4, DownSafe DEF Kill, disk
<1>5. CASE PowerLoss
  BY <1>5, DownSafe DEF PowerLoss
<1>6. CASE UNCHANGED vars
  <2>1. UNCHANGED <<directory, unsynced, op, todo, renamed, document, active, pending, legit, manual>>
    BY <1>6 DEF vars, disk, memory
  <2>2. Types' = Types /\ AlwaysSafe' = AlwaysSafe
    BY <2>1 DEF Types, AlwaysSafe, Safe
  <2>3. Left' = Left
    BY <2>1 DEF Left
  <2>4. Clean' = Clean /\ Trial' = Trial /\ Activating' = Activating /\ RollingBack' = RollingBack
    BY <2>1, <2>3 DEF Clean, Trial, Activating, RollingBack, Prove, Put
  <2>5. Recovering' = Recovering /\ \A c : Replacing(c)' = Replacing(c)
    BY <2>1, <2>3 DEF Recovering, Replacing, Loads, Save, Announce, Put
  <2>6. Stage'
    BY <2>1, <2>3, <2>4, <2>5 DEF IInv, Stage
  <2>7. Synced' /\ Untouched'
    BY <2>1 DEF IInv, Synced, Untouched, Decided
  <2> QED
    BY <2>1, <2>2, <2>6, <2>7 DEF IInv
<1> QED
  BY <1>1, <1>2, <1>3, <1>4, <1>5, <1>6 DEF Next

\* The inductive invariant: every directory that a crash may leave is one from
\* which recover_interrupted_activation loads what it should.
THEOREM CrashSafe == Spec => []IInv
BY InitSafe, NextSafe, PTL DEF Spec

\* Whenever the process or the machine stops, the next start loads the active
\* document, one whose activation had begun to commit, or an edit.
THEOREM RestartLoadsActiveHolds == Spec => RestartLoadsActive
<1>1. IInv /\ [Next]_vars => [op = "open" /\ op' = "idle" => document' \in legit]_vars
  <2> SUFFICES ASSUME IInv, Next, op = "open", op' = "idle" PROVE document' \in legit
    OBVIOUS
  <2>1. Finish
    BY DEF Next, replace, Edit, activate_desired, rollback_pending, recover_interrupted_activation,
           RemoveNothing, Rename, SyncParentDirectory, Fail, AfterError, Kill, PowerLoss, Down, Start
  <2>2. directory["pending"] = NoFile /\ document' = directory["path"]
    BY <2>1 DEF IInv, Stage, Recovering, Left, Finish
  <2> QED
    BY <2>2 DEF IInv, AlwaysSafe, Safe, Decided, Loads
<1> QED
  BY <1>1, CrashSafe, PTL DEF Spec, RestartLoadsActive

\* No operation and no recovery overwrites an operator's edit that it has not
\* loaded.
THEOREM ManualEditKeptHolds == Spec => ManualEditKept
<1>1. IInv /\ [Next]_vars
        => [manual => directory'["path"] = directory["path"] \/ \E d \in Documents : Edit(d)]_vars
  <2> SUFFICES ASSUME IInv, Next, manual, ~ \E d \in Documents : Edit(d)
               PROVE  directory' = directory
    OBVIOUS
  <2>1. todo = <<>> /\ unsynced = {}
    BY DEF IInv, Untouched
  <2> QED
    BY <2>1 DEF Next, replace, activate_desired, rollback_pending, recover_interrupted_activation,
                RemoveNothing, Rename, SyncParentDirectory, Fail, Finish, Kill, PowerLoss, Start, disk
<1> QED
  BY <1>1, CrashSafe, PTL DEF Spec, ManualEditKept

\* Recovery refuses to start only over an edit, and every variable keeps its
\* type.
THEOREM NoConflictWithoutEditHolds == Spec => []NoConflictWithoutEdit
<1>1. IInv => NoConflictWithoutEdit
  <2> SUFFICES ASSUME IInv PROVE TypeOK /\ (op = "refused" => manual)
    BY DEF NoConflictWithoutEdit
  <2>1. \A dir \in {directory} \cup unsynced :
          /\ dir["path"] \in Documents /\ dir["last_good"] \in Documents \cup {NoFile}
          /\ dir["pending"] \in {NoFile} \cup Journals
    BY DEF IInv, Types, Directories, Fits, Files
  <2> QED
    BY <2>1 DEF IInv, Types, Operations, TypeOK
<1> QED
  BY <1>1, CrashSafe, PTL
=============================================================================
