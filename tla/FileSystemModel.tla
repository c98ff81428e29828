--------------------------- MODULE FileSystemModel ---------------------------
(***************************************************************************)
(* caelestia::models::FileSystemModel: the rows of a directory, kept up to *)
(* date by scans that run on worker threads.  A scan compares what it      *)
(* reads with the rows of the moment it was started and hands a difference *)
(* to the GUI thread, which applies it to the rows of the moment it comes. *)
(* m_futures remembers the scan in flight of every directory, so that a    *)
(* newer one can cancel it.                                                *)
(***************************************************************************)
EXTENDS Naturals, Sequences, FiniteSets, SequencesExt

CONSTANTS Dirs,        \* directories, those a subdirectory of another included
          Files,       \* files
          Parent,      \* the directory of a file or of a subdirectory
          Rank,        \* per directory: the place of a path, told from there, in the
                       \* order of the locale; no two share one
          HiddenDirs,  \* directories whose name starts with a dot
          Filters,     \* sets of paths a filter and its name patterns let pass
          NoPath,      \* the empty path
          Disks,       \* what may exist when the model is created
          MaxScans,    \* bound: scans started
          MaxEdits,    \* bound: files created or removed
          MaxChanges   \* bound: properties written by QML

AllPaths == Dirs \cup Files

VARIABLES opt,       \* the properties of the model
          entries,   \* m_entries
          scans,     \* every scan started: arguments, progress, result
          futures,   \* m_futures: directory -> scan
          watched,   \* directories m_watcher watches
          listings,  \* lists of subdirectories to watch, on their way
          notices,   \* directoryChanged signals not yet delivered
          disk,      \* the paths that exist
          edits, changes,
          blame      \* history: what keeps the rows from being right, see below

vars == <<opt, entries, scans, futures, watched, listings, notices, disk,
          edits, changes, blame>>

\* overlap   two scans were in flight, neither cancelled by the other
\* unseen    a file changed in a directory that nothing watches yet
\* watch     subdirectories are watched that the options no longer ask for
\* order     the rows are not in the order of a new path or of its reverse, and
\*           no scan has left them in order since
Blames == {"overlap", "unseen", "watch", "order"}

Note(cause, cond) == IF cond THEN {cause} ELSE {}

----------------------------------------------------------------------------
(* d is above p: it is in every set that holds the directory of p and, of  *)
(* each directory in it, the one that is in.                               *)
Below(p, d) ==
    /\ p \in DOMAIN Parent
    /\ \A S \in SUBSET Dirs :
          /\ Parent[p] \in S
          /\ \A e \in S \cap DOMAIN Parent : Parent[e] \in S
          => d \in S

(* QDirIterator neither shows nor enters hidden directories.               *)
Reached(p, d, hidden) ==
    /\ Below(p, d)
    /\ hidden \/ (p \notin HiddenDirs /\ \A e \in HiddenDirs : ~(Below(p, e) /\ Below(e, d)))

(* What a scan of d reads.                                                 *)
Scanned(d, o) ==
    {p \in disk \cap o.filter : Reached(p, d, o.hidden) /\ (o.recursive \/ Parent[p] = d)}

(* compareEntries: directories first, then by the path told from the path  *)
(* of the model, all of it reversible.  Every row is told from there:      *)
(* setPath tells the rows there are anew, applyChanges the ones it makes.  *)
Precedes(p, q, o) ==
    LET rank == Rank[o.path]
        ahead(a, b) == \/ a \in Dirs /\ b \notin Dirs
                       \/ (a \in Dirs <=> b \in Dirs) /\ rank[a] < rank[b]
    IN  IF o.reverse THEN ahead(q, p) ELSE ahead(p, q)

Before(p, q) == Precedes(p, q, opt)

InOrder(s, o) == \A i, j \in DOMAIN s : i < j => Precedes(s[i], s[j], o)

Sorted(S) == CHOOSE s \in [1 .. Cardinality(S) -> S] :
                \A i, j \in DOMAIN s : i < j => Before(s[i], s[j])

(* std::ranges::lower_bound: a binary search, whatever the order of s is.  *)
(* n places from first on are left; after Len(s) steps none is.            *)
Halve(s, p, at) ==
    LET half == at.n \div 2
    IN  IF at.n = 0 THEN at
        ELSE IF Before(s[at.first + half], p)
             THEN [first |-> at.first + half + 1, n |-> at.n - half - 1]
             ELSE [first |-> at.first, n |-> half]

LowerBound(s, p) ==
    LET search[k \in 0 .. Len(s)] ==
            IF k = 0 THEN [first |-> 1, n |-> Len(s)] ELSE Halve(s, p, search[k - 1])
    IN  search[Len(s)].first

(* Mutant: a run goes on whatever the next path is. *)
InsertRowJoining(acc, p) ==
    LET row == IF acc.at # 0 THEN acc.at ELSE LowerBound(acc.rows, p)
    IN  [rows |-> InsertAt(acc.rows, row, p), at |-> row + 1]

(* New rows come in runs: a path that still sorts before the row at the    *)
(* end of the run joins it, another one looks for a row of its own.        *)
InsertRow(acc, p) ==
    LET joins == acc.at # 0 /\ (acc.at > Len(acc.rows) \/ Before(p, acc.rows[acc.at]))
        row   == IF joins THEN acc.at ELSE LowerBound(acc.rows, p)
    IN  [rows |-> InsertAt(acc.rows, row, p), at |-> row + 1]

Without(s, removed) ==
    LET kept[n \in 0 .. Len(s)] ==
            IF n = 0 THEN <<>>
            ELSE IF s[n] \in removed THEN kept[n - 1] ELSE Append(kept[n - 1], s[n])
    IN  kept[Len(s)]

With(s, new) ==
    LET done[n \in 0 .. Len(new)] ==
            IF n = 0 THEN [rows |-> s, at |-> 0] ELSE InsertRow(done[n - 1], new[n])
    IN  done[Len(new)].rows

(* applyChanges: what another scan has added meanwhile is not added again. *)
Applied(removed, added) ==
    LET kept == Without(entries, removed)
    IN  With(kept, Sorted(added \ ToSet(kept)))

----------------------------------------------------------------------------
Live(i)  == scans[i].phase \in {"running", "ended"} /\ ~scans[i].cancelled

Cancel(ids) == [i \in DOMAIN scans |->
                  IF i \in ids THEN [scans[i] EXCEPT !.cancelled = TRUE] ELSE scans[i]]

(* updateEntriesForDir, over the scans as `known' leaves them and the map  *)
(* as `map' does; the scan of the same directory is cancelled.             *)
StartScan(d, known, map, o) ==
    LET known2 == IF d \in DOMAIN map
                  THEN [known EXCEPT ![map[d]].cancelled = TRUE] ELSE known
        old    == {p \in ToSet(entries) : d = o.path \/ Below(p, d)}
        new    == [dir |-> d, old |-> old, phase |-> "running",
                   opt |-> [recursive |-> o.recursive, hidden |-> o.hidden, filter |-> o.filter],
                   cancelled |-> FALSE, removed |-> {}, added |-> {}]
    IN  /\ Len(scans) < MaxScans
        /\ scans' = Append(known2, new)
        /\ futures' = [e \in DOMAIN map \cup {d} |->
                         IF e = d THEN Len(scans) + 1 ELSE map[e]]
        /\ blame' = (blame \ IF d = o.path THEN {"overlap", "unseen"} ELSE {})
                    \cup Note("overlap", \E i \in DOMAIN scans : Live(i) /\ ~known2[i].cancelled)
                    \cup Note("order", o # opt /\ ~InOrder(entries, o))

(* watchDirIfRecursive: list the subdirectories on a worker thread. *)
ListSubdirs(d, o) ==
    IF o.recursive /\ o.watch
    THEN {[path |-> o.path, hidden |-> o.hidden,
           dirs |-> {e \in Dirs : Reached(e, d, o.hidden)}]}
    ELSE {}

(* update: watch the path, forget every scan and read the path again.  An  *)
(* empty path drops the rows and leaves the scans alone.  The watcher says *)
(* nothing of a directory whose watch was taken away in the meantime.      *)
Update(o) ==
    /\ changes < MaxChanges
    /\ changes' = changes + 1
    /\ opt' = o
    /\ watched' = IF o.watch /\ o.path # NoPath THEN {o.path} ELSE {}
    /\ listings' = listings \cup
         (IF o.path # NoPath THEN ListSubdirs(o.path, o) ELSE {})
    /\ \/ /\ o.path = NoPath
          /\ entries' = <<>>
          /\ blame' = Note("overlap", \E i \in DOMAIN scans : Live(i))
          /\ UNCHANGED <<scans, futures>>
       \/ /\ o.path # NoPath
          /\ StartScan(o.path, Cancel({futures[d] : d \in DOMAIN futures}), <<>>, o)
          /\ UNCHANGED entries
    /\ notices' = {}
    /\ UNCHANGED <<disk, edits>>

----------------------------------------------------------------------------
Init ==
    /\ opt = [path |-> NoPath, recursive |-> FALSE, watch |-> TRUE,
              hidden |-> FALSE, filter |-> AllPaths, reverse |-> FALSE]
    /\ entries = <<>> /\ scans = <<>> /\ futures = <<>>
    /\ watched = {} /\ listings = {} /\ notices = {}
    /\ disk \in Disks
    /\ edits = 0 /\ changes = 0 /\ blame = {}

(* The rows are told from the new path before it is read, and stay where   *)
(* they stand (Note "order").                                              *)
SetPath(d)       == opt.path # d /\ Update([opt EXCEPT !.path = d])
SetRecursive     == Update([opt EXCEPT !.recursive = ~@])
SetWatchChanges  == Update([opt EXCEPT !.watch = ~@])
SetShowHidden    == Update([opt EXCEPT !.hidden = ~@])
SetSortReverse   == Update([opt EXCEPT !.reverse = ~@])
SetFilter(f)     == opt.filter # f /\ Update([opt EXCEPT !.filter = f])

(* The worker reads the directory; a cancelled scan gives up. *)
ScanDir(i) ==
    /\ scans[i].phase = "running"
    /\ LET job == scans[i]
           now == Scanned(job.dir, job.opt)
       IN  scans' = [scans EXCEPT
             ![i].phase   = "ended",
             ![i].removed = IF job.cancelled THEN {} ELSE job.old \ now,
             ![i].added   = IF job.cancelled THEN {} ELSE now \ job.old]
    /\ UNCHANGED <<opt, entries, futures, watched, listings, notices, disk, edits, changes, blame>>

Finished(i) == [scans EXCEPT ![i] = [@ EXCEPT !.phase = "done", !.old = {},
                                               !.removed = {}, !.added = {}]]

(* m_futures.remove(dir), whichever scan it now names. *)
Forget(i) ==
    LET d == scans[i].dir
    IN  futures' = [e \in DOMAIN futures \ {d} |-> futures[e]]

(* The continuation of a scan on the GUI thread: the difference is applied *)
(* if the scan was not cancelled until now.                                *)
Deliver(i) ==
    /\ scans[i].phase = "ended"
    /\ IF scans[i].cancelled
       THEN /\ scans' = [scans EXCEPT ![i].phase = "refused"]
            /\ UNCHANGED <<futures, entries, blame>>
       ELSE /\ scans' = Finished(i)
            /\ Forget(i)
            /\ entries' = Applied(scans[i].removed, scans[i].added)
            /\ blame' = blame \ Note("order", InOrder(Without(entries, scans[i].removed), opt))
    /\ UNCHANGED <<opt, watched, listings, notices, disk, edits, changes>>

(* onCanceled, one event later. *)
OnCanceled(i) ==
    /\ scans[i].phase = "refused"
    /\ scans' = Finished(i)
    /\ Forget(i)
    /\ UNCHANGED <<opt, entries, watched, listings, notices, disk, edits, changes, blame>>

(* The subdirectories arrive; those of another path are ignored. *)
AddWatches(l) ==
    /\ listings' = listings \ {l}
    /\ watched' = IF l.path = opt.path /\ l.hidden = opt.hidden
                  THEN watched \cup l.dirs ELSE watched
    /\ blame' = blame \cup Note("watch", watched' # watched /\ ~(opt.recursive /\ opt.watch))
    /\ UNCHANGED <<opt, entries, scans, futures, notices, disk, edits, changes>>

(* Both slots of directoryChanged: look for subdirectories, and scan. *)
DirectoryChanged(d) ==
    /\ notices' = notices \ {d}
    /\ listings' = listings \cup ListSubdirs(d, opt)
    /\ StartScan(d, scans, futures, opt)
    /\ UNCHANGED <<opt, entries, watched, disk, edits, changes>>

(* A program creates or removes a file; only watched directories tell. *)
EditDisk(f) ==
    /\ edits < MaxEdits
    /\ edits' = edits + 1
    /\ disk' = IF f \in disk THEN disk \ {f} ELSE disk \cup {f}
    /\ notices' = IF Parent[f] \in watched THEN notices \cup {Parent[f]} ELSE notices
    /\ blame' = blame \cup Note("unseen", Parent[f] \notin watched /\ Below(f, opt.path))
    /\ UNCHANGED <<opt, entries, scans, futures, watched, listings, changes>>

Qml ==
    \/ \E d \in Dirs \cup {NoPath} : SetPath(d)
    \/ SetRecursive \/ SetWatchChanges \/ SetShowHidden \/ SetSortReverse
    \/ \E f \in Filters : SetFilter(f)

Next ==
    \/ Qml
    \/ \E i \in DOMAIN scans : ScanDir(i) \/ Deliver(i) \/ OnCanceled(i)
    \/ \E l \in listings : AddWatches(l)
    \/ \E d \in notices : DirectoryChanged(d)
    \/ \E f \in Files : EditDisk(f)

Spec == Init /\ [][Next]_vars

----------------------------------------------------------------------------
TypeOK ==
    /\ opt \in [path : Dirs \cup {NoPath}, recursive : BOOLEAN, watch : BOOLEAN,
                hidden : BOOLEAN, filter : Filters, reverse : BOOLEAN]
    /\ entries \in Seq(AllPaths)
    /\ \A i \in DOMAIN scans : scans[i].phase \in {"running", "ended", "refused", "done"}
    /\ DOMAIN futures \subseteq Dirs
    /\ watched \cup notices \subseteq Dirs
    /\ blame \subseteq Blames

Quiet == /\ \A i \in DOMAIN scans : scans[i].phase = "done"
         /\ notices = {} /\ listings = {}

(* No path has two rows, whichever differences were applied in whichever   *)
(* order: two scans that found the same new file would both add it.        *)
NoRowTwice == \A i, j \in DOMAIN entries : entries[i] = entries[j] => i = j

(* The rows stay in the order compareEntries asks for through every batch  *)
(* of removals and insertions, until the order itself changes: a path told *)
(* from another directory may sort elsewhere, and reversing finds no       *)
(* difference to apply; both leave the rows as they stand.  The claim is   *)
(* back with the first scan that leaves in order what it does not remove.  *)
RowsSorted == "order" \notin blame => InOrder(entries, opt)

(* When nothing is in flight the rows are the files of the directory, if   *)
(* no two scans overlapped, no change happened unwatched, and no watch     *)
(* outlived its options.                                                   *)
RowsSettle ==
    Quiet /\ blame \subseteq {"order"} =>
       ToSet(entries) = IF opt.path = NoPath THEN {} ELSE Scanned(opt.path, opt)
=============================================================================
