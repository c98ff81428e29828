--------------------------- MODULE RootNodeProofs ---------------------------
(***************************************************************************)
(* What RootNode guarantees for every set of documents and trees, every    *)
(* number of retries and every bound: types, the two safety invariants     *)
(* that protect a write from QML, and the silence of partial writes.       *)
(***************************************************************************)
EXTENDS RootNode, TLAPS

\* Nothing has happened yet when RootNode::load() runs.
Fresh ==
  phase = "constructed" =>
    /\ lastData = NoDoc
    /\ pending = NoDoc
    /\ ~dirty
    /\ ~loadTimer

\* A pending retry follows that many malformed reads in a row.
RetriesCounted == loadTimer => retries <= badReads

\* While nobody removes the file, a document once read or saved is there.
FileStays == lastData # NoDoc => Exists

WriteInv == TypeOK /\ Fresh /\ FileStays /\ NoStaleSave /\ NoForgottenWrite

-----------------------------------------------------------------------------
(***************************************************************************)
(* syncJson ends in a tree, whatever the root of the document is.          *)
(***************************************************************************)
LEMMA SyncType ==
  ASSUME NEW t \in Trees, NEW d \in Docs
  PROVE  Sync(t, d) \in Trees
<1>1. CASE d \in Rejected
  BY <1>1, TreesAssumption DEF Sync
<1>2. CASE d \notin Rejected
  BY <1>2, TreesAssumption DEF Sync, ObjectDocs
<1> QED BY <1>1, <1>2

(***************************************************************************)
(* The special contents of the path are no documents, and no document is   *)
(* the absent one.                                                         *)
(***************************************************************************)
LEMMA DocFacts ==
  /\ EmptyDoc \in Docs /\ EmptyDoc \in ObjectDocs /\ EmptyDoc \notin Rejected
  /\ NoDoc \notin Docs /\ NoDoc \notin ObjectDocs
  /\ ObjectDocs \subseteq Docs
  /\ \A d \in ObjectDocs : d \notin Rejected
  /\ NoFile \notin Docs /\ Malformed \notin Docs /\ Unreadable \notin Docs
  /\ {NoFile, Malformed, Unreadable} = Bad
BY DocsAssumption DEF ObjectDocs, Bad

\* What toJson returns is an object document, so writing it is never mistaken
\* for having nothing to write.
LEMMA SerialiseFacts ==
  ASSUME NEW t \in Trees
  PROVE  /\ Serialise[t] \in ObjectDocs
         /\ Serialise[t] # NoDoc
BY TreesAssumption, DocFacts

(***************************************************************************)
(* load() leaves the tree, m_lastData, the pending write and the signals   *)
(* well typed, whichever of its four ends it takes.                        *)
(***************************************************************************)
LEMMA FileLoadType ==
  ASSUME TypeOK, NEW report \in BOOLEAN, FileLoad(report)
  PROVE  /\ tree' \in Trees
         /\ lastData' \in Docs \cup {NoDoc}
         /\ pending' \in ObjectDocs \cup {NoDoc}
         /\ signals' \subseteq {"loaded", "loadFailed", "saveFailed"}
         /\ saveFailed' \in BOOLEAN
         /\ badReads' \in Nat
<1> USE DEF TypeOK
<1>1. badReads' \in Nat
  BY DEF FileLoad
<1>2. CASE LoadGone
  BY <1>1, <1>2, SyncType, DocFacts DEF LoadGone, ReloadFromFile
<1>3. CASE LoadChanged
  BY <1>1, <1>3, SyncType, DocFacts DEF LoadChanged, ReloadFromFile
<1>4. CASE LoadUnchanged
  BY <1>1, <1>4 DEF LoadUnchanged
<1>5. CASE LoadFails(report)
  BY <1>1, <1>5 DEF LoadFails
<1> QED BY <1>2, <1>3, <1>4, <1>5 DEF FileLoad

(***************************************************************************)
(* An attempt to save, and a debounced load, keep the types.               *)
(***************************************************************************)
LEMMA SaveNowType ==
  ASSUME TypeOK, NEW doc \in ObjectDocs, SaveNow(doc)
  PROVE  /\ disk' \in Docs \cup Bad
         /\ lastData' \in Docs \cup {NoDoc}
         /\ pending' \in ObjectDocs \cup {NoDoc}
         /\ signals' \subseteq {"loaded", "loadFailed", "saveFailed"}
         /\ {saveTimer', dirExists', dirWatched', fileWatched', dirEvent', fileEvent',
             saveFailed'} \subseteq BOOLEAN
<1> USE DEF TypeOK
<1>1. PICK outcome \in SaveOutcomes :
        IF outcome = "ok" THEN SaveCommits(doc) ELSE SaveFails(outcome)
  BY DEF SaveNow
<1>2. CASE outcome = "ok"
  BY <1>1, <1>2, DocFacts DEF SaveNow, SaveCommits
<1>3. CASE outcome # "ok"
  BY <1>1, <1>3 DEF SaveNow, SaveFails
<1> QED BY <1>2, <1>3

(***************************************************************************)
(* scheduleLoad resets the retries or leaves them to the running debounce. *)
(***************************************************************************)
LEMMA ScheduleLoadType ==
  ASSUME TypeOK, ScheduleLoad
  PROVE  loadTimer' \in BOOLEAN /\ retries' \in 0..MaxRetries
BY BoundsAssumption DEF TypeOK, ScheduleLoad

(***************************************************************************)
(* Every handler of the shell, the editor's steps and a write from QML     *)
(* keep the variables well typed.                                          *)
(***************************************************************************)
LEMMA TypeStep ==
  ASSUME TypeOK, [Next]_vars
  PROVE  TypeOK'
<1> USE DEF TypeOK
<1>1. CASE Load
  <2> USE <1>1 DEF Load, timers, file, watcher, budget
  <2>1. CASE disk \in Docs
    BY <2>1, SyncType, DocFacts DEF LoadChanged, ReloadFromFile
  <2>2. CASE disk \notin Docs
    BY <2>2, SyncType, DocFacts, ZenonT(30) DEF ReloadFromFile
  <2> QED BY <2>1, <2>2
<1>2. CASE OnFileChanged
  <2>1. loadTimer' \in BOOLEAN /\ retries' \in 0..MaxRetries
    BY <1>2, ScheduleLoadType DEF OnFileChanged
  <2>2. fileWatched' \in BOOLEAN /\ dirWatched' \in BOOLEAN
    BY <1>2 DEF OnFileChanged, Exists
  <2> QED BY <1>2, <2>1, <2>2 DEF OnFileChanged, memory, file, history, budget
<1>3. CASE OnDirChanged
  <2> USE <1>3, BoundsAssumption DEF OnDirChanged, memory, file, history, budget
  <2>1. CASE fileWatched
    BY <2>1
  <2>2. CASE ~fileWatched
    <3>1. /\ dirWatched' \in BOOLEAN
          /\ fileWatched' \in BOOLEAN
      BY <2>2 DEF InitWatcher, Exists
    <3>2. CASE Exists
      BY <2>2, <3>1, <3>2, ScheduleLoadType
    <3>3. CASE ~Exists
      BY <2>2, <3>1, <3>3
    <3> QED BY <3>2, <3>3
  <2> QED BY <2>1, <2>2
<1>4. CASE OnLoadDebounced
  <2> DEFINE final == retries >= MaxRetries
             retry == disk = Malformed /\ ~final
  <2>0. final \in BOOLEAN
    OBVIOUS
  <2>1. LoadAfterDebounce(final, final)
    BY <1>4 DEF OnLoadDebounced
  <2> HIDE DEF final
  <2>2. FileLoad(final)
    BY <2>1 DEF LoadAfterDebounce
  <2>3. /\ tree' \in Trees
        /\ lastData' \in Docs \cup {NoDoc}
        /\ pending' \in ObjectDocs \cup {NoDoc}
        /\ signals' \subseteq {"loaded", "loadFailed", "saveFailed"}
        /\ saveFailed' \in BOOLEAN
        /\ badReads' \in Nat
    BY <2>0, <2>2, FileLoadType
  <2>4. loadTimer' \in BOOLEAN
    BY <2>1 DEF LoadAfterDebounce
  <2>5. retries' \in 0..MaxRetries
    <3>1. CASE retry
      BY <2>1, <3>1, BoundsAssumption DEF LoadAfterDebounce, final
    <3>2. CASE ~retry
      BY <2>1, <3>2 DEF LoadAfterDebounce
    <3> QED BY <3>1, <3>2
  <2> QED BY <2>1, <2>3, <2>4, <2>5 DEF LoadAfterDebounce, file, watcher, budget
<1>5. CASE Flush
  <2> USE <1>5 DEF Flush, FlushOnto, budget
  <2>1. Serialise[tree] \in ObjectDocs
    BY SerialiseFacts
  <2>2. CASE saveTimer
    BY <2>1, <2>2 DEF file, watcher
  <2>3. CASE ~saveTimer
    <3>1. SaveNow(Serialise[tree])
      BY <2>3
    <3> QED BY <2>1, <2>3, <3>1, SaveNowType
  <2> QED BY <2>2, <2>3
<1>6. CASE SaveTimeout
  <2> USE <1>6 DEF SaveTimeout, budget
  <2>1. CASE saveQueued /\ pending # NoDoc
    <3>1. SaveNow(pending) /\ pending \in ObjectDocs
      BY <2>1
    <3> QED BY <3>1, SaveNowType
  <2>2. CASE ~(saveQueued /\ pending # NoDoc)
    BY <2>2 DEF file, watcher
  <2> QED BY <2>1, <2>2
<1>7. CASE \E t \in Trees : QmlWrite(t)
  BY <1>7, BoundsAssumption DEF QmlWrite, timers, file, watcher, history
<1>8. CASE Editor
  <2> USE BoundsAssumption, DocFacts
      DEF Edit, memory, timers, history
  <2>1. CASE \E content \in Docs \cup {Malformed, Unreadable} : EditInPlace(content)
    BY <2>1 DEF EditInPlace
  <2>2. CASE \E content \in Docs \cup {Malformed, Unreadable} : Replace(content)
    BY <2>2 DEF Replace
  <2>3. CASE Remove
    BY <2>3 DEF Remove
  <2>4. CASE MakeDir
    BY <2>4 DEF MakeDir
  <2> QED BY <1>8, <2>1, <2>2, <2>3, <2>4 DEF Editor
<1>9. CASE UNCHANGED vars
  BY <1>9 DEF vars, memory, timers, file, watcher, history, budget
<1> QED BY <1>1, <1>2, <1>3, <1>4, <1>5, <1>6, <1>7, <1>8, <1>9 DEF Next, Shell

\* A layer is constructed well typed.
LEMMA TypeInit ==
  ASSUME Init
  PROVE  TypeOK
<1>1. tree \in Trees
  BY TreesAssumption, DocFacts DEF Init
<1>2. disk \in Docs \cup Bad
  BY DocFacts DEF Init
<1>3. {dirty, saveTimer, saveQueued, loadTimer, dirExists, dirWatched, fileWatched,
       dirEvent, fileEvent, saveFailed} \subseteq BOOLEAN
  BY DEF Init
<1> QED BY <1>1, <1>2, <1>3, BoundsAssumption DEF Init, TypeOK

(***************************************************************************)
(* The variables of a layer and its file keep their types: in particular   *)
(* the retries never pass k_maxLoadRetries.                                *)
(***************************************************************************)
THEOREM TypeCorrect == Spec => []TypeOK
<1>1. Init => TypeOK
  BY TypeInit
<1>2. TypeOK /\ [Next]_vars => TypeOK'
  BY TypeStep
<1> QED BY <1>1, <1>2, PTL DEF Spec
-----------------------------------------------------------------------------
(***************************************************************************)
(* The writes of QML, while nobody removes the file.                       *)
(***************************************************************************)
LoadInv == TypeOK /\ FileStays /\ NoStaleSave /\ NoForgottenWrite

\* What load() promises whenever the shell runs: it takes the file's side.
LEMMA LoadKeepsWrites ==
  ASSUME LoadInv, phase = "running", NEW report \in BOOLEAN, FileLoad(report),
         UNCHANGED <<phase, dirty, file>>
  PROVE  FileStays' /\ NoStaleSave' /\ NoForgottenWrite'
<1> USE DEF LoadInv, file
<1>1. CASE LoadGone
  BY <1>1 DEF LoadGone, FileStays, Exists
<1>2. CASE LoadChanged
  <2>1. pending' = NoDoc /\ lastData' = disk /\ tree' = Sync(tree, disk)
    BY <1>2, DocFacts DEF LoadChanged, ReloadFromFile
  <2>2. FileStays'
    BY <1>2, <2>1, DocFacts DEF LoadChanged, FileStays, Exists
  <2>3. NoStaleSave'
    BY <2>1 DEF NoStaleSave
  <2>4. NoForgottenWrite'
    BY <1>2, <2>1, DocFacts DEF LoadChanged, NoForgottenWrite, InSync, Sync
  <2> QED BY <2>2, <2>3, <2>4
<1>3. CASE LoadUnchanged
  BY <1>3 DEF LoadUnchanged, FileStays, Exists, NoStaleSave, NoForgottenWrite, InSync, Saving
<1>4. CASE LoadFails(report)
  BY <1>4 DEF LoadFails, FileStays, Exists, NoStaleSave, NoForgottenWrite, InSync, Saving
<1> QED BY <1>1, <1>2, <1>3, <1>4 DEF FileLoad

\* What save() promises when the document is the tree's, or the tree is dirty.
LEMMA SaveKeepsWrites ==
  ASSUME LoadInv, NEW doc \in ObjectDocs, SaveNow(doc), UNCHANGED <<tree, phase>>,
         ~dirty' => doc = Serialise[tree]
  PROVE  FileStays' /\ NoStaleSave' /\ NoForgottenWrite'
<1> USE DEF LoadInv
<1>1. PICK outcome \in SaveOutcomes :
        IF outcome = "ok" THEN SaveCommits(doc) ELSE SaveFails(outcome)
  BY DEF SaveNow
<1>2. NoStaleSave'
  BY DEF SaveNow, NoStaleSave
<1>3. CASE outcome = "ok"
  <2>1. disk' = doc /\ lastData' = doc
    BY <1>1, <1>3 DEF SaveCommits
  <2>2. FileStays'
    BY <2>1, DocFacts DEF FileStays, Exists
  <2>3. NoForgottenWrite'
    BY <2>1, DocFacts, SerialiseFacts DEF NoForgottenWrite, InSync, Saving, TypeOK
  <2> QED BY <1>2, <2>2, <2>3
<1>4. CASE outcome # "ok"
  BY <1>1, <1>2, <1>4 DEF SaveFails, FileStays, Exists, NoForgottenWrite
<1> QED BY <1>3, <1>4

\* No handler of the layer and no edit but a removal loses or outdates a write.
LEMMA WriteStep ==
  ASSUME AllowDelete = FALSE, WriteInv, [Next]_vars
  PROVE  WriteInv'
<1>0. TypeOK' /\ LoadInv
  BY TypeStep DEF WriteInv, LoadInv
<1>1. CASE Load
  <2> USE <1>1 DEF Load, file
  <2>1. Fresh'
    BY DEF Fresh
  <2>2. pending' = NoDoc
    BY DEF WriteInv, Fresh, LoadChanged
  <2>3. NoStaleSave'
    BY <2>2 DEF NoStaleSave
  <2>4. CASE disk \in Docs
    <3>1. lastData' = disk /\ tree' = Sync(tree, disk)
      BY <2>4, DocFacts DEF LoadChanged, ReloadFromFile
    <3> QED BY <1>0, <2>1, <2>3, <2>4, <3>1, DocFacts
            DEF WriteInv, FileStays, Exists, NoForgottenWrite, InSync, Sync
  <2>5. CASE disk \notin Docs
    <3>1. lastData' = NoDoc /\ tree' = Parse[EmptyDoc]
      BY <2>5, DocFacts DEF WriteInv, Fresh, ReloadFromFile, Sync
    <3> QED BY <1>0, <2>1, <2>3, <3>1
            DEF WriteInv, FileStays, NoForgottenWrite, InSync
  <2> QED BY <2>4, <2>5
<1>2. CASE OnFileChanged \/ OnDirChanged
  <2>1. UNCHANGED <<phase, memory, file, saveFailed>> /\ phase = "running"
    BY <1>2 DEF OnFileChanged, OnDirChanged, history
  <2> QED BY <1>0, <2>1
          DEF WriteInv, memory, file, Fresh, FileStays, Exists, NoStaleSave,
              NoForgottenWrite, InSync, Saving
<1>3. CASE OnLoadDebounced
  <2> DEFINE final == retries >= MaxRetries
  <2>1. final \in BOOLEAN /\ LoadAfterDebounce(final, final)
    BY <1>3 DEF OnLoadDebounced
  <2> HIDE DEF final
  <2>2. FileLoad(final) /\ phase = "running" /\ UNCHANGED <<phase, dirty, file>>
    BY <2>1 DEF LoadAfterDebounce
  <2>3. FileStays' /\ NoStaleSave' /\ NoForgottenWrite'
    BY <1>0, <2>1, <2>2, LoadKeepsWrites
  <2> QED BY <1>0, <2>2, <2>3 DEF WriteInv, Fresh
<1>4. CASE Flush
  <2>1. phase = "running" /\ UNCHANGED <<phase, tree>> /\ tree \in Trees
    BY <1>0, <1>4 DEF Flush, FlushOnto, LoadInv, TypeOK
  <2>2. CASE saveTimer
    <3>1. pending' = Serialise[tree] /\ UNCHANGED <<lastData, file, tree>>
      BY <1>4, <2>2 DEF Flush, FlushOnto
    <3>2. pending' # NoDoc
      BY <2>1, <3>1, SerialiseFacts
    <3> QED BY <1>0, <2>1, <3>1, <3>2
            DEF WriteInv, file, Fresh, FileStays, Exists, NoStaleSave,
                NoForgottenWrite, InSync, Saving
  <2>3. CASE ~saveTimer
    <3>1. SaveNow(Serialise[tree]) /\ Serialise[tree] \in ObjectDocs
      BY <1>4, <2>1, <2>3, SerialiseFacts DEF Flush, FlushOnto
    <3>2. FileStays' /\ NoStaleSave' /\ NoForgottenWrite'
      BY <1>0, <2>1, <3>1, SaveKeepsWrites
    <3> QED BY <1>0, <2>1, <3>2 DEF WriteInv, Fresh
  <2> QED BY <2>2, <2>3
<1>5. CASE SaveTimeout
  <2>1. phase = "running" /\ UNCHANGED <<phase, tree, dirty>>
    BY <1>5 DEF SaveTimeout
  <2>2. CASE saveQueued /\ pending # NoDoc
    <3>1. SaveNow(pending) /\ pending \in ObjectDocs
      BY <1>0, <1>5, <2>2 DEF SaveTimeout, LoadInv, TypeOK
    <3>2. ~dirty' => pending = Serialise[tree]
      BY <1>0, <2>1, <2>2 DEF LoadInv, NoStaleSave
    <3>3. FileStays' /\ NoStaleSave' /\ NoForgottenWrite'
      BY <1>0, <2>1, <3>1, <3>2, SaveKeepsWrites
    <3> QED BY <1>0, <2>1, <3>3 DEF WriteInv, Fresh
  <2>3. CASE ~(saveQueued /\ pending # NoDoc)
    <3>1. UNCHANGED <<lastData, pending, file, saveFailed>>
      BY <1>5, <2>3 DEF SaveTimeout
    <3> QED BY <1>0, <2>1, <3>1
            DEF WriteInv, file, Fresh, FileStays, Exists, NoStaleSave,
                NoForgottenWrite, InSync, Saving
  <2> QED BY <2>2, <2>3
<1>6. CASE \E t \in Trees : QmlWrite(t)
  <2>1. /\ phase = "running"
        /\ dirty'
        /\ UNCHANGED <<phase, lastData, pending, file>>
    BY <1>6 DEF QmlWrite
  <2> QED BY <1>0, <2>1
          DEF WriteInv, file, Fresh, FileStays, Exists, NoStaleSave,
              NoForgottenWrite, InSync, Saving
<1>7. CASE Editor
  <2>1. UNCHANGED <<phase, memory, loadTimer, saveFailed>>
    BY <1>7 DEF Editor, EditInPlace, Replace, Remove, MakeDir, Edit, timers, history
  <2>2. disk' = disk \/ disk' # NoFile
    BY <1>7, DocFacts
       DEF Editor, EditInPlace, Replace, Remove, MakeDir, NoFile, Malformed, Unreadable
  <2> QED BY <1>0, <2>1, <2>2
          DEF WriteInv, memory, Fresh, FileStays, Exists, NoStaleSave,
              NoForgottenWrite, InSync, Saving
<1>8. CASE UNCHANGED vars
  BY <1>0, <1>8
     DEF vars, memory, timers, file, watcher, history, budget, WriteInv, Fresh,
         FileStays, Exists, NoStaleSave, NoForgottenWrite, InSync, Saving
<1> QED BY <1>1, <1>2, <1>3, <1>4, <1>5, <1>6, <1>7, <1>8 DEF Next, Shell

\* At construction there is nothing to lose.
LEMMA WriteInit ==
  ASSUME Init
  PROVE  WriteInv
BY TypeInit DEF Init, WriteInv, Fresh, FileStays, NoStaleSave, NoForgottenWrite

(***************************************************************************)
(* While nobody removes the file, a write from QML is on its way to the    *)
(* file, was refused with an error, or was replaced by what the file said. *)
(***************************************************************************)
THEOREM WritesAreNotForgotten ==
  ASSUME AllowDelete = FALSE
  PROVE  Spec => []NoForgottenWrite
<1>1. Init => WriteInv
  BY WriteInit
<1>2. WriteInv /\ [Next]_vars => WriteInv'
  BY WriteStep
<1>3. WriteInv => NoForgottenWrite
  BY DEF WriteInv
<1> QED BY <1>1, <1>2, <1>3, PTL DEF Spec

(***************************************************************************)
(* While nobody removes the file, the save debounce never holds a document *)
(* older than the tree, so a load is not undone by a late save.            *)
(***************************************************************************)
THEOREM SavesAreNotStale ==
  ASSUME AllowDelete = FALSE
  PROVE  Spec => []NoStaleSave
<1>1. Init => WriteInv
  BY WriteInit
<1>2. WriteInv /\ [Next]_vars => WriteInv'
  BY WriteStep
<1>3. WriteInv => NoStaleSave
  BY DEF WriteInv
<1> QED BY <1>1, <1>2, <1>3, PTL DEF Spec
-----------------------------------------------------------------------------
(***************************************************************************)
(* Retries.                                                                *)
(***************************************************************************)
RetryInv == TypeOK /\ (phase = "constructed" => ~loadTimer) /\ RetriesCounted

\* Every pending retry of onLoadDebounced has been preceded by as many bad reads.
LEMMA RetryStep ==
  ASSUME RetryInv, [Next]_vars
  PROVE  RetryInv'
<1>0. TypeOK /\ TypeOK'
  BY TypeStep DEF RetryInv
<1>1. CASE Load
  BY <1>0, <1>1 DEF Load, timers, RetryInv, RetriesCounted
<1>2. CASE OnFileChanged \/ OnDirChanged
  <2>1. /\ phase = "running" /\ phase' = phase /\ badReads' = badReads
        /\ ScheduleLoad \/ UNCHANGED <<loadTimer, retries>>
    BY <1>2 DEF OnFileChanged, OnDirChanged, history
  <2> QED BY <1>0, <2>1 DEF RetryInv, RetriesCounted, ScheduleLoad, TypeOK
<1>3. CASE OnLoadDebounced
  <2> DEFINE final == retries >= MaxRetries
             retry == disk = Malformed /\ ~final
  <2>1. LoadAfterDebounce(final, final)
    BY <1>3 DEF OnLoadDebounced
  <2> HIDE DEF final
  <2>2. CASE retry
    <3>1. badReads' = badReads + 1 /\ retries' = retries + 1 /\ loadTimer
      BY <2>1, <2>2 DEF LoadAfterDebounce, FileLoad
    <3> QED BY <1>0, <2>1, <3>1 DEF RetryInv, RetriesCounted, LoadAfterDebounce, TypeOK
  <2>3. CASE ~retry
    BY <1>0, <2>1, <2>3 DEF RetryInv, RetriesCounted, LoadAfterDebounce
  <2> QED BY <2>2, <2>3
<1>4. CASE Flush \/ SaveTimeout \/ \E t \in Trees : QmlWrite(t)
  BY <1>0, <1>4
     DEF Flush, FlushOnto, SaveTimeout, QmlWrite, timers, history, RetryInv,
         RetriesCounted
<1>5. CASE Editor
  BY <1>0, <1>5
     DEF Editor, EditInPlace, Replace, Remove, MakeDir, Edit, timers, history,
         RetryInv, RetriesCounted
<1>6. CASE UNCHANGED vars
  BY <1>0, <1>6 DEF vars, timers, history, RetryInv, RetriesCounted
<1> QED BY <1>1, <1>2, <1>3, <1>4, <1>5, <1>6 DEF Next, Shell

(***************************************************************************)
(* A parse error is reported only after MaxRetries retries in a row have   *)
(* read a malformed file, whoever writes it and whenever events arrive.    *)
(***************************************************************************)
THEOREM PartialWritesStaySilent == Spec => PartialWritesAreSilent
<1> DEFINE Silent == phase = "running" /\ disk = Malformed /\ "loadFailed" \in signals'
                       => badReads' > MaxRetries
<1>1. Init => RetryInv
  BY TypeInit DEF Init, RetryInv, RetriesCounted
<1>2. RetryInv /\ [Next]_vars => RetryInv'
  BY RetryStep
<1>3. RetryInv /\ [Next]_vars => [Silent]_vars
  <2> SUFFICES ASSUME RetryInv, Next, phase = "running", disk = Malformed,
                      "loadFailed" \in signals'
               PROVE  badReads' > MaxRetries
    OBVIOUS
  <2>1. OnLoadDebounced
    <3>1. ~Load
      BY DEF Load
    <3>2. ~OnFileChanged /\ ~OnDirChanged /\ ~(\E t \in Trees : QmlWrite(t))
      BY DEF OnFileChanged, OnDirChanged, QmlWrite
    <3>3. ~Flush /\ ~SaveTimeout
      BY DEF Flush, FlushOnto, SaveTimeout, SaveNow, SaveCommits, SaveFails
    <3>4. ~Editor
      BY DEF Editor, EditInPlace, Replace, Remove, MakeDir, Edit
    <3> QED BY <3>1, <3>2, <3>3, <3>4 DEF Next, Shell
  <2> DEFINE final == retries >= MaxRetries
  <2>2. LoadAfterDebounce(final, final)
    BY <2>1 DEF OnLoadDebounced
  <2>3. final
    BY <2>2, DocFacts
       DEF LoadAfterDebounce, FileLoad, LoadGone, LoadChanged, LoadUnchanged,
           LoadFails, ReadError, NoFile, Malformed, Unreadable, Exists
  <2>4. badReads' = badReads + 1 /\ retries <= badReads
    BY <2>2 DEF LoadAfterDebounce, FileLoad, RetryInv, RetriesCounted
  <2> QED BY <2>3, <2>4, BoundsAssumption DEF RetryInv, TypeOK
<1> QED BY <1>1, <1>2, <1>3, PTL DEF Spec, PartialWritesAreSilent
=============================================================================
