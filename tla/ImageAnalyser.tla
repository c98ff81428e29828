---------------------------- MODULE ImageAnalyser ----------------------------
(***************************************************************************)
(* caelestia::images::ImageAnalyser: the dominant colour of a file or of a *)
(* visual item.  A file is analysed on a worker thread at once; an item is *)
(* first grabbed by the renderer, and the analysis starts when the grab    *)
(* arrives.  The watcher reports the analysis it was given last.           *)
(***************************************************************************)
EXTENDS Naturals

CONSTANTS Sources,    \* image files
          Unreadable, \* those that do not decode
          Items,      \* visual items
          Sizes,      \* rescale sizes
          None,
          MaxChanges  \* bound: properties written and items shown or hidden

VARIABLES source, item, size,   \* m_source, m_sourceItem, m_rescaleSize
          visible,   \* items with a visible window and an extent
          armed,     \* items whose next change asks for an update
          grabs,     \* grabs on their way
          future,    \* what the watcher watches
          result,    \* m_dominantColour and m_luminance: whose, at which size
          changes,
          overtaken  \* history: a grab arrived after its item was replaced

vars == <<source, item, size, visible, armed, grabs, future, result, changes, overtaken>>

----------------------------------------------------------------------------
NoFuture == [at |-> "none", what |-> None, size |-> None, cancelled |-> FALSE]
NoResult == [what |-> None, size |-> None]

Init ==
    /\ source = None /\ item = None /\ size \in Sizes
    /\ visible \in SUBSET Items
    /\ armed = {} /\ grabs = {}
    /\ future = NoFuture /\ result = NoResult
    /\ changes = 0 /\ overtaken = FALSE

(* requestUpdate and update: start on the file; grab a visible item, which *)
(* the renderer may refuse; wait for an item that cannot be grabbed yet.   *)
(* `vis' are the visible items, `waiting' those already waited for.        *)
RequestUpdate(s, i, vis, waiting) ==
    \/ /\ s = None /\ i = None
       /\ armed' = waiting
       /\ UNCHANGED <<future, grabs, overtaken>>
    \/ /\ s # None
       /\ future' = [NoFuture EXCEPT !.at = "queued"]
       /\ armed' = waiting /\ overtaken' = FALSE
       /\ UNCHANGED grabs
    \/ /\ i \in vis
       /\ future' = [future EXCEPT !.cancelled = future.at \in {"queued", "running"} \/ @]
       /\ \/ grabs' = grabs \cup {i} /\ armed' = waiting
          \/ grabs' = grabs /\ armed' = waiting \cup {i}
       /\ UNCHANGED overtaken
    \/ /\ i # None /\ i \notin vis
       /\ armed' = waiting \cup {i}
       /\ UNCHANGED <<future, grabs, overtaken>>

Change == changes < MaxChanges /\ changes' = changes + 1

SetSource(s) ==
    /\ Change /\ source # s
    /\ source' = s /\ item' = None
    /\ RequestUpdate(s, None, visible, armed)
    /\ UNCHANGED <<size, visible, result>>

SetSourceItem(i) ==
    /\ Change /\ item # i
    /\ item' = i /\ source' = None
    /\ RequestUpdate(None, i, visible, armed)
    /\ UNCHANGED <<size, visible, result>>

(* Mutant: a new size does not ask for a new analysis. *)
SetRescaleSizeQuietly(n) ==
    /\ Change /\ size # n
    /\ size' = n
    /\ UNCHANGED <<source, item, visible, armed, grabs, future, result, overtaken>>

SetRescaleSize(n) ==
    /\ Change /\ size # n
    /\ size' = n
    /\ RequestUpdate(source, item, visible, armed)
    /\ UNCHANGED <<source, item, visible, result>>

(* The window, the visibility or the extent of an item changes: a          *)
(* connection that waits for it fires once, for whatever is set by then.   *)
ItemChanges(i) ==
    /\ Change
    /\ visible' = IF i \in visible THEN visible \ {i} ELSE visible \cup {i}
    /\ IF i \in armed THEN RequestUpdate(source, item, visible', armed \ {i})
                      ELSE UNCHANGED <<armed, future, grabs, overtaken>>
    /\ UNCHANGED <<source, item, size, result>>

(* The grab of an item is there: it becomes the analysis to watch, whatever *)
(* was set since.                                                          *)
GrabReady(i) ==
    /\ i \in grabs
    /\ grabs' = grabs \ {i}
    /\ future' = [at |-> "running", what |-> i, size |-> size, cancelled |-> FALSE]
    /\ overtaken' = (i # item)
    /\ UNCHANGED <<source, item, size, visible, armed, result, changes>>

(* The worker reads m_source when it starts, and m_rescaleSize when it has *)
(* loaded the file: both belong to the GUI thread.                         *)
LoadFile ==
    /\ future.at = "queued"
    /\ future' = IF future.cancelled THEN [future EXCEPT !.at = "finished"]
                 ELSE [future EXCEPT !.at = "running", !.what = source]
    /\ UNCHANGED <<source, item, size, visible, armed, grabs, result, changes, overtaken>>

(* analyse: a file that does not decode has no result, a cancelled one has *)
(* none unless it was cancelled at the very end.                           *)
Analyse ==
    /\ future.at = "running"
    /\ LET read == [future EXCEPT !.at = "finished",
                                  !.size = IF future.what \in Items THEN @ ELSE size]
           nothing == [read EXCEPT !.what = None]
       IN  \/ /\ future.what \notin Unreadable \cup {None}
              /\ future' = read
           \/ /\ future.what \in Unreadable \cup {None} \/ future.cancelled
              /\ future' = nothing
    /\ UNCHANGED <<source, item, size, visible, armed, grabs, result, changes, overtaken>>

(* The finished signal. *)
Finished ==
    /\ future.at = "finished"
    /\ result' = IF future.what = None THEN result
                 ELSE [what |-> future.what, size |-> future.size]
    /\ future' = NoFuture
    /\ UNCHANGED <<source, item, size, visible, armed, grabs, changes, overtaken>>

Next ==
    \/ \E s \in Sources \cup {None} : SetSource(s)
    \/ \E i \in Items \cup {None} : SetSourceItem(i)
    \/ \E n \in Sizes : SetRescaleSize(n)
    \/ \E i \in Items : ItemChanges(i) \/ GrabReady(i)
    \/ LoadFile \/ Analyse \/ Finished

Spec == Init /\ [][Next]_vars

----------------------------------------------------------------------------
TypeOK ==
    /\ source \in Sources \cup {None} /\ item \in Items \cup {None} /\ size \in Sizes
    /\ visible \in SUBSET Items /\ armed \in SUBSET Items /\ grabs \in SUBSET Items
    /\ future \in [at : {"none", "queued", "running", "finished"},
                   what : Sources \cup Items \cup {None}, size : Sizes \cup {None},
                   cancelled : BOOLEAN]
    /\ result \in [what : Sources \cup Items \cup {None}, size : Sizes \cup {None}]
    /\ overtaken \in BOOLEAN

Target == IF item # None THEN item ELSE source

(* When nothing is on its way the colour is that of the image now set, at  *)
(* the size now set, however the changes and the analyses interleaved.     *)
(* Only a grab that arrives after its item was replaced breaks this.       *)
ResultIsCurrent ==
    /\ future.at = "none" /\ grabs = {} /\ ~overtaken
    /\ Target \notin Unreadable \cup {None} /\ item \notin armed
    => result = [what |-> Target, size |-> size]
=============================================================================
