------------------------------ MODULE RootNode ------------------------------
(***************************************************************************)
(* One layer of the configuration and the JSON file behind it: RootNode,   *)
(* its SettingsFile (watcher, load and save debouncing, parse retries) and *)
(* its ChangeBatcher.  Another program edits the file while QML writes the *)
(* options of the layer.                                                   *)
(*                                                                         *)
(* The option tree is abstract here: Trees are the contents toJson depends *)
(* on, Parse is syncJson on an object document and Serialise is toJson.    *)
(* Every handler runs to completion on the GUI thread; the file can change *)
(* between any two handlers.  Timers carry no durations: a running timer   *)
(* may fire at any moment.                                                 *)
(***************************************************************************)
EXTENDS Naturals

CONSTANTS
  Docs,          \* well-formed JSON documents
  Rejected,      \* those whose root is not an object: syncJson refuses them
  EmptyDoc,      \* the document {}
  Trees,         \* contents of the option tree
  Parse,         \* Parse[d]: the tree syncJson builds from document d
  Strip,         \* Strip[t]: t without its root quarantine
  Serialise,     \* Serialise[t]: the sparse toJson of t
  NoDoc,         \* std::nullopt
  MaxRetries,    \* k_maxLoadRetries
  SaveOutcomes,  \* how an attempt to save may end
  AllowDelete,   \* whether the other program may remove the file
  MaxWrites,     \* bound: QML writes in a behaviour
  MaxEdits       \* bound: edits of the file by the other program

NoFile     == "absent"
Malformed  == "malformed"      \* a partial write, or not JSON at all
Unreadable == "unreadable"     \* open() fails

ObjectDocs == Docs \ Rejected
Bad        == {NoFile, Malformed, Unreadable}

ASSUME DocsAssumption ==
  /\ Rejected \subseteq Docs
  /\ EmptyDoc \in ObjectDocs
  /\ NoDoc \notin Docs
  /\ Docs \cap Bad = {}

\* Reading back what toJson wrote need not give the same tree: see SettingsTree.
ASSUME TreesAssumption ==
  /\ Parse \in [ObjectDocs -> Trees]
  /\ Strip \in [Trees -> Trees]
  /\ Serialise \in [Trees -> ObjectDocs]

ASSUME BoundsAssumption ==
  /\ MaxRetries \in Nat
  /\ MaxWrites \in Nat
  /\ MaxEdits \in Nat
  /\ AllowDelete \in BOOLEAN
  /\ SaveOutcomes \subseteq {"ok", "mkpath", "open", "commit"}

VARIABLES
  phase,       \* "constructed" until RootNode::load() has run
  tree,        \* content of the option tree
  dirty,       \* ChangeBatcher::m_dirty, a flush is queued
  lastData,    \* m_lastData
  pending,     \* m_pendingWrite
  saveTimer,   \* m_saveDebounce->isActive()
  saveQueued,  \* save() is connected to the timeout of m_saveDebounce
  loadTimer,   \* m_loadDebounce->isActive()
  retries,     \* m_loadRetries
  disk,        \* what is at m_path
  dirExists,   \* the parent directory exists
  dirWatched,  \* it is in m_watcher->directories()
  fileWatched, \* m_path is in m_watcher->files()
  dirEvent,    \* an undelivered directoryChanged
  fileEvent,   \* an undelivered fileChanged
  signals,     \* what RootNode emitted in the last step
  saveFailed,  \* history: the last attempt to save failed
  badReads,    \* history: malformed reads since the last other outcome
  writes,      \* QML writes so far
  edits        \* edits of the file so far

memory  == <<tree, dirty, lastData, pending>>
timers  == <<saveTimer, saveQueued, loadTimer, retries>>
file    == <<disk, dirExists>>
watcher == <<dirWatched, fileWatched, dirEvent, fileEvent>>
history == <<saveFailed, badReads>>
budget  == <<writes, edits>>
vars    == <<phase, memory, timers, file, watcher, signals, history, budget>>

Exists == disk # NoFile

(***************************************************************************)
(* syncJson replaces the whole tree, except that a document whose root is  *)
(* no object is refused after the quarantine has been cleared.             *)
(***************************************************************************)
Sync(t, d) == IF d \in Rejected THEN Strip[t] ELSE Parse[d]

ReloadFromFile(data) == tree' = Sync(tree, IF data = NoDoc THEN EmptyDoc ELSE data)

(***************************************************************************)
(* SettingsFile::load.  `changed' runs RootNode::reloadFromFile in place.  *)
(***************************************************************************)
LoadGone ==
  /\ ~Exists
  /\ lastData # NoDoc
  /\ lastData' = NoDoc
  /\ ReloadFromFile(NoDoc)
  /\ signals' = {"loaded"}
  /\ saveFailed' = FALSE
  /\ UNCHANGED pending

\* Mutant: the pending write survives what was loaded from the file.
LoadKeepsPending ==
  /\ disk \in Docs
  /\ disk # lastData
  /\ lastData' = disk
  /\ ReloadFromFile(disk)
  /\ signals' = {"loaded"}
  /\ saveFailed' = FALSE
  /\ UNCHANGED pending

LoadChanged ==
  /\ disk \in Docs
  /\ disk # lastData
  /\ pending' = NoDoc
  /\ lastData' = disk
  /\ ReloadFromFile(disk)
  /\ signals' = {"loaded"}
  /\ saveFailed' = FALSE

LoadUnchanged ==
  /\ disk = IF lastData = NoDoc THEN NoFile ELSE lastData
  /\ signals' = {}
  /\ UNCHANGED <<tree, lastData, pending, saveFailed>>

ReadError(report) == disk = Unreadable \/ (disk = Malformed /\ report)

LoadFails(report) ==
  /\ disk \in {Malformed, Unreadable}
  /\ signals' = IF ReadError(report) THEN {"loadFailed"} ELSE {}
  /\ UNCHANGED <<tree, lastData, pending, saveFailed>>

FileLoad(report) ==
  /\ LoadGone \/ LoadChanged \/ LoadUnchanged \/ LoadFails(report)
  /\ badReads' = IF disk = Malformed THEN badReads + 1 ELSE 0

(***************************************************************************)
(* RootNode::load, once, right after construction: the tree is synced with *)
(* m_lastData even when nothing could be read.                             *)
(***************************************************************************)
Load ==
  /\ phase = "constructed"
  /\ phase' = "running"
  /\ IF disk \in Docs
       THEN LoadChanged
       ELSE /\ ReloadFromFile(lastData)
            /\ signals' = {"loaded"} \cup (IF ReadError(TRUE) THEN {"loadFailed"} ELSE {})
            /\ UNCHANGED <<lastData, pending, saveFailed>>
  /\ badReads' = IF disk = Malformed THEN 1 ELSE 0
  /\ UNCHANGED <<dirty, timers, file, watcher, budget>>

ScheduleLoad ==
  /\ loadTimer' = TRUE
  /\ retries' = IF loadTimer THEN retries ELSE 0

InitWatcher ==
  /\ dirWatched' = (dirWatched \/ dirExists)
  /\ fileWatched' = (fileWatched \/ Exists)

(***************************************************************************)
(* A delivered fileChanged has already dropped m_path from the watcher if  *)
(* the file was removed or replaced; onFileChanged re-adds it.             *)
(***************************************************************************)
OnFileChanged ==
  /\ phase = "running"
  /\ fileEvent
  /\ fileEvent' = FALSE
  /\ signals' = {}
  /\ fileWatched' = Exists
  /\ dirWatched' = (dirWatched \/ dirExists)
  /\ ScheduleLoad
  /\ UNCHANGED <<phase, memory, saveTimer, saveQueued, file, dirEvent, history,
                 budget>>

\* Mutant: the file that appeared is watched but not loaded.
DirChangeOnlyWatches ==
  /\ phase = "running"
  /\ dirEvent
  /\ dirEvent' = FALSE
  /\ signals' = {}
  /\ IF fileWatched THEN UNCHANGED <<dirWatched, fileWatched>> ELSE InitWatcher
  /\ UNCHANGED <<phase, memory, timers, file, fileEvent, history, budget>>

OnDirChanged ==
  /\ phase = "running"
  /\ dirEvent
  /\ dirEvent' = FALSE
  /\ signals' = {}
  /\ IF fileWatched
       THEN UNCHANGED <<dirWatched, fileWatched, loadTimer, retries>>
       ELSE /\ InitWatcher
            /\ IF Exists THEN ScheduleLoad ELSE UNCHANGED <<loadTimer, retries>>
  /\ UNCHANGED <<phase, memory, saveTimer, saveQueued, file, fileEvent, history,
                 budget>>

\* The body of onLoadDebounced, given which try is final and what load reports.
LoadAfterDebounce(final, report) ==
  LET retry == disk = Malformed /\ ~final IN
  /\ phase = "running"
  /\ loadTimer
  /\ FileLoad(report)
  /\ loadTimer' = retry
  /\ retries' = IF retry THEN retries + 1 ELSE retries
  /\ UNCHANGED <<phase, dirty, saveTimer, saveQueued, file, watcher, budget>>

\* Mutants: one retry too many, one too few, errors never reported.
RetryOnceMore == LoadAfterDebounce(retries > MaxRetries, retries > MaxRetries)
RetryOnceLess == LoadAfterDebounce(retries >= MaxRetries - 1, retries >= MaxRetries - 1)
RetrySilently == LoadAfterDebounce(retries >= MaxRetries, FALSE)

OnLoadDebounced ==
  LET final == retries >= MaxRetries IN LoadAfterDebounce(final, final)

(***************************************************************************)
(* SettingsFile::save once the debounce lets it through.  The commit of    *)
(* QSaveFile is a rename over m_path.                                      *)
(***************************************************************************)
SaveCommits(doc) ==
  /\ disk' = doc
  /\ dirExists' = TRUE
  /\ lastData' = doc
  /\ fileEvent' = (fileEvent \/ (fileWatched /\ Exists))
  /\ dirEvent' = (dirEvent \/ dirWatched)
  /\ dirWatched' = TRUE
  /\ fileWatched' = TRUE
  /\ saveFailed' = FALSE
  /\ signals' = {}

SaveFails(outcome) ==
  /\ outcome = "mkpath" => ~dirExists
  /\ dirExists' = (dirExists \/ outcome # "mkpath")
  /\ dirEvent' = (dirEvent \/ (outcome = "commit" /\ dirWatched))
  /\ signals' = {"saveFailed"}
  /\ saveFailed' = TRUE
  /\ UNCHANGED <<disk, lastData, dirWatched, fileWatched, fileEvent>>

SaveNow(doc) ==
  /\ saveTimer' = TRUE
  /\ pending' = NoDoc
  /\ \E outcome \in SaveOutcomes :
       IF outcome = "ok" THEN SaveCommits(doc) ELSE SaveFails(outcome)

(***************************************************************************)
(* ChangeBatcher::flush, RootNode::saveToFile and SettingsFile::write.     *)
(***************************************************************************)
FlushOnto(queue) ==
  /\ phase = "running"
  /\ dirty
  /\ dirty' = FALSE
  /\ IF saveTimer
       THEN /\ pending' = queue
            /\ saveQueued' = TRUE
            /\ signals' = {}
            /\ UNCHANGED <<saveTimer, lastData, file, watcher, saveFailed>>
       ELSE /\ SaveNow(Serialise[tree])
            /\ UNCHANGED saveQueued
  /\ UNCHANGED <<phase, tree, loadTimer, retries, badReads, budget>>

\* Mutant: the write made during the debounce is dropped.
FlushDropsWrite == FlushOnto(NoDoc)

Flush == FlushOnto(Serialise[tree])

SaveTimeout ==
  /\ phase = "running"
  /\ saveTimer
  /\ saveQueued' = FALSE
  /\ IF saveQueued /\ pending # NoDoc
       THEN SaveNow(pending)
       ELSE /\ saveTimer' = FALSE
            /\ signals' = {}
            /\ UNCHANGED <<lastData, pending, file, watcher, saveFailed>>
  /\ UNCHANGED <<phase, tree, dirty, loadTimer, retries, badReads, budget>>

\* A write or a reset from QML that reaches recordWrite and dirties the layer.
QmlWrite(t) ==
  /\ phase = "running"
  /\ writes < MaxWrites
  /\ writes' = writes + 1
  /\ t # tree
  /\ tree' = t
  /\ dirty' = TRUE
  /\ signals' = {}
  /\ UNCHANGED <<phase, lastData, pending, timers, file, watcher, history, edits>>

(***************************************************************************)
(* The other program: it rewrites the file in place, renames a new file    *)
(* over it, removes it, or creates the missing directory.                  *)
(***************************************************************************)
Edit ==
  /\ edits < MaxEdits
  /\ edits' = edits + 1
  /\ signals' = {}
  /\ UNCHANGED <<phase, memory, timers, dirWatched, fileWatched, history, writes>>

EditInPlace(content) ==
  /\ Edit
  /\ Exists
  /\ disk' = content
  /\ fileEvent' = (fileEvent \/ fileWatched)
  /\ UNCHANGED <<dirExists, dirEvent>>

Replace(content) ==
  /\ Edit
  /\ dirExists
  /\ disk' = content
  /\ fileEvent' = (fileEvent \/ (fileWatched /\ Exists))
  /\ dirEvent' = (dirEvent \/ dirWatched)
  /\ UNCHANGED dirExists

Remove ==
  /\ Edit
  /\ AllowDelete
  /\ Exists
  /\ disk' = NoFile
  /\ fileEvent' = (fileEvent \/ fileWatched)
  /\ dirEvent' = (dirEvent \/ dirWatched)
  /\ UNCHANGED dirExists

MakeDir ==
  /\ Edit
  /\ ~dirExists
  /\ dirExists' = TRUE
  /\ UNCHANGED <<disk, dirEvent, fileEvent>>

\* SettingsFile::SettingsFile: initWatcher runs in the constructor.
Init ==
  /\ phase = "constructed"
  /\ tree = Parse[EmptyDoc]
  /\ dirty = FALSE
  /\ lastData = NoDoc
  /\ pending = NoDoc
  /\ saveTimer = FALSE
  /\ saveQueued = FALSE
  /\ loadTimer = FALSE
  /\ retries = 0
  /\ dirExists \in BOOLEAN
  /\ disk \in IF dirExists THEN Docs \cup Bad ELSE {NoFile}
  /\ dirWatched = dirExists
  /\ fileWatched = (disk # NoFile)
  /\ dirEvent = FALSE
  /\ fileEvent = FALSE
  /\ signals = {}
  /\ saveFailed = FALSE
  /\ badReads = 0
  /\ writes = 0
  /\ edits = 0

Shell == Load \/ OnFileChanged \/ OnDirChanged \/ OnLoadDebounced \/ Flush \/ SaveTimeout

Editor ==
  \/ \E content \in Docs \cup {Malformed, Unreadable} :
       EditInPlace(content) \/ Replace(content)
  \/ Remove
  \/ MakeDir

Next == Shell \/ Editor \/ \E t \in Trees : QmlWrite(t)

Spec == Init /\ [][Next]_vars

\* The event loop delivers what is queued and fires the timers that run.
Fairness ==
  /\ WF_vars(Load)
  /\ WF_vars(OnFileChanged)
  /\ WF_vars(OnDirChanged)
  /\ WF_vars(OnLoadDebounced)
  /\ WF_vars(Flush)
  /\ WF_vars(SaveTimeout)

FairSpec == Spec /\ Fairness
-----------------------------------------------------------------------------
(***************************************************************************)
(* Types of the variables.                                                 *)
(***************************************************************************)
TypeOK ==
  /\ phase \in {"constructed", "running"}
  /\ tree \in Trees
  /\ lastData \in Docs \cup {NoDoc}
  /\ pending \in ObjectDocs \cup {NoDoc}
  /\ disk \in Docs \cup Bad
  /\ signals \subseteq {"loaded", "loadFailed", "saveFailed"}
  /\ {dirty, saveTimer, saveQueued, loadTimer, dirExists, dirWatched, fileWatched,
      dirEvent, fileEvent, saveFailed} \subseteq BOOLEAN
  /\ retries \in 0..MaxRetries
  /\ badReads \in Nat
  /\ writes \in 0..MaxWrites
  /\ edits \in 0..MaxEdits

\* The tree is what was read from the document, or was saved as it.
InSync(doc) == tree = Parse[doc] \/ doc = Serialise[tree]

Saving == dirty \/ pending # NoDoc

(***************************************************************************)
(* No write from QML is forgotten: whenever the tree is not what the file  *)
(* last held, a flush is queued, a document waits for the save debounce,   *)
(* or the save failed and the user was told.  The tree and m_lastData are  *)
(* written by load, save and flush in every order.                         *)
(***************************************************************************)
NoForgottenWrite ==
  phase = "running" /\ lastData \notin Rejected /\ ~Saving /\ ~saveFailed
    => InSync(IF lastData = NoDoc THEN EmptyDoc ELSE lastData)

(***************************************************************************)
(* What waits for the save debounce is never older than the tree: unless a *)
(* newer flush is queued, it is the tree's own content.  A load from the   *)
(* file therefore cannot be undone by a save of what QML wrote before it.  *)
(***************************************************************************)
NoStaleSave ==
  pending # NoDoc /\ ~dirty => pending = Serialise[tree]

(***************************************************************************)
(* Once the other program and QML stop, the watcher and the debounces end  *)
(* with the options showing what the file says, whatever the interleaving  *)
(* of edits, saves and events - if the directory existed to be watched and *)
(* no save failed.                                                         *)
(***************************************************************************)
Reconciles ==
  <>[](disk \in ObjectDocs /\ dirWatched /\ ~saveFailed => InSync(disk))

(***************************************************************************)
(* A parse error is reported only when MaxRetries retries in a row have    *)
(* read a malformed file: a write that is merely still going on is silent. *)
(***************************************************************************)
PartialWritesAreSilent ==
  [][ phase = "running" /\ disk = Malformed /\ "loadFailed" \in signals'
        => badReads' > MaxRetries ]_vars

(***************************************************************************)
(* A watched file that stays malformed is reported in the end, and one     *)
(* that stays unreadable too: the retries do not go on forever in silence. *)
(***************************************************************************)
BrokenFileIsReported ==
  <>[](disk \in {Malformed, Unreadable} /\ fileWatched) => <>("loadFailed" \in signals)

(***************************************************************************)
(* rootnodes.cpp announces "Config loaded successfully!" on treeLoaded.    *)
(* It should not do so in the very call that could not read the file.      *)
(***************************************************************************)
SuccessMeansRead == "loaded" \in signals => "loadFailed" \notin signals
=============================================================================
