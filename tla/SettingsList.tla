----------------------------- MODULE SettingsList -----------------------------
(***************************************************************************)
(* ListNode: a list option of the global layer and of one overlay.  A list *)
(* is one option, "values", but its elements are nodes with options of     *)
(* their own, here one each.  The list of an overlay that is not overridden*)
(* mirrors the global list element by element (elementsChanged), and each  *)
(* of its elements falls back to its counterpart; once overridden, the     *)
(* list and its elements are detached.  Lists that are global only, and    *)
(* lists of lists, are left out.                                           *)
(***************************************************************************)
EXTENDS Naturals, SequencesExt

CONSTANTS Values,        \* of an element's option
          NoValue,       \* an element of a file whose object lacks the option, or that is no object
          ElementDefault,\* the option's default
          DefaultList,   \* default of the list: props of its elements
          Docs,          \* arrays another program may write
          NoDoc,         \* the file does not have the list
          Ids,           \* identities of the global elements
          NoNode,        \* nullptr
          MaxLen,        \* bound: length of a list
          MaxChanges     \* bound: what QML and another program do

Layers == {"global", "overlay"}

VARIABLES global,  \* m_elements of the global layer: [id, val, set], set: the option is overridden
          overlay, \* m_elements of the overlay: [fb, val, set], fb: the fallback node
          over,    \* isOverride("values") of each layer
          dirty,   \* the batcher of each root node
          file,    \* the list in each file
          changes,
          blame    \* history: layers whose memory left their file without becoming dirty
vars == <<global, overlay, over, dirty, file, changes, blame>>

----------------------------------------------------------------------------
Vals(list) == [i \in DOMAIN list |-> list[i].val]
Moved(list, from, to) == InsertAt(RemoveAt(list, from), to, list[from])

(* n identities for new elements: those of no element, not even of one     *)
(* that is about to go.                                                    *)
Used == {global[i].id : i \in DOMAIN global} \cup {overlay[i].fb : i \in DOMAIN overlay}
Fresh(n) == CHOOSE new \in [1 .. n -> Ids \ Used] : IsInjective(new)

Copy(g) == [fb |-> g.id, val |-> g.val, set |-> FALSE]   \* insertNode(index, node)
Copies(g) == [i \in DOMAIN g |-> Copy(g[i])]

Decoded(d) == IF d = NoValue THEN ElementDefault ELSE d

(* insertNode of props, which are no override, and of JSON, which is. *)
FromProps(list) ==
    LET new == Fresh(Len(list))
    IN  [i \in DOMAIN list |-> [id |-> new[i], val |-> list[i], set |-> FALSE]]
FromJson(list) ==
    LET new == Fresh(Len(list))
    IN  [i \in DOMAIN list |-> [id |-> new[i], val |-> Decoded(list[i]), set |-> list[i] # NoValue]]

(* Mutant: elements keep the fallback they had. *)
StillAttached(list) == list

(* detachFallback of all elements. *)
Detached(list) == [i \in DOMAIN list |-> [list[i] EXCEPT !.fb = NoNode]]
FromJsonDetached(list) ==
    [i \in DOMAIN list |-> [fb |-> NoNode, val |-> Decoded(list[i]), set |-> list[i] # NoValue]]

(* elementsChanged tells of one run of removed and one of added places, or *)
(* of one move.                                                            *)
NoRun == <<1, 0>>
All(list) == <<1, Len(list)>>

(* takeAt of every place of a run, insertNode at every place of one. *)
CutOut(list, run) == SubSeq(list, 1, run[1] - 1) \o SubSeq(list, run[2] + 1, Len(list))
Filled(list, run, g) ==
    SubSeq(list, 1, run[1] - 1)
      \o [k \in 1 .. run[2] - run[1] + 1 |-> Copy(g[run[1] + k - 1])]
      \o SubSeq(list, run[1], Len(list))

(* Mutant: new elements are appended. *)
MirroredAppending(g, removed, added, moved) ==
    LET filled == CutOut(overlay, removed)
                    \o [k \in 1 .. added[2] - added[1] + 1 |-> Copy(g[added[1] + k - 1])]
    IN  IF moved = <<>> THEN filled ELSE Moved(filled, moved[1], moved[2])

(* onFallbackListNotify: the change of the global list, to g, is repeated. *)
Mirrored(g, removed, added, moved) ==
    LET filled == Filled(CutOut(overlay, removed), added, g)
    IN  IF moved = <<>> THEN filled ELSE Moved(filled, moved[1], moved[2])

(* A change of the global list.  The overlay follows in the same call. *)
ChangeGlobal(g, removed, added, moved) ==
    /\ global' = g
    /\ overlay' = IF over["overlay"] THEN overlay ELSE Mirrored(g, removed, added, moved)

(* The file of an overlay some of whose elements are overridden holds the  *)
(* whole array: it does not follow the global list as memory does.         *)
Partial == ~over["overlay"] /\ \E i \in DOMAIN overlay : overlay[i].set
FileStaysBehind == IF Partial THEN {"overlay"} ELSE {}

(* recordWrite by QML: the list becomes an override; the first time, its   *)
(* elements are detached.                                                  *)
Override(L) == over' = [over EXCEPT ![L] = TRUE]
MarkDirty(L, if) == dirty' = [dirty EXCEPT ![L] = @ \/ if]

----------------------------------------------------------------------------
Change == changes < MaxChanges /\ changes' = changes + 1

FirstIds == CHOOSE new \in [DOMAIN DefaultList -> Ids] : IsInjective(new)

Init ==
    /\ global = [i \in DOMAIN DefaultList |->
                   [id |-> FirstIds[i], val |-> DefaultList[i], set |-> FALSE]]
    /\ overlay = Copies(global)
    /\ over = [L \in Layers |-> FALSE] /\ dirty = [L \in Layers |-> FALSE]
    /\ file = [L \in Layers |-> NoDoc]
    /\ changes = 0 /\ blame = {}

(* insertElement, remove, move and clear of the global list by QML. *)
InsertElement(i, v) ==
    /\ Len(global) < MaxLen
    /\ ChangeGlobal(InsertAt(global, i, [id |-> Fresh(1)[1], val |-> v, set |-> FALSE]),
                    NoRun, <<i, i>>, <<>>)

RemoveElement(i) == ChangeGlobal(RemoveAt(global, i), <<i, i>>, NoRun, <<>>)

MoveElement(from, to) == ChangeGlobal(Moved(global, from, to), NoRun, NoRun, <<from, to>>)

ClearList == global # <<>> /\ ChangeGlobal(<<>>, All(global), NoRun, <<>>)

EditGlobal ==
    /\ Change
    /\ \/ \E i \in 1 .. Len(global) + 1, v \in Values : InsertElement(i, v)
       \/ \E i \in DOMAIN global : RemoveElement(i)
       \/ \E from, to \in DOMAIN global : MoveElement(from, to)
       \/ ClearList
    /\ Override("global") /\ MarkDirty("global", TRUE)
    /\ blame' = blame \cup FileStaysBehind
    /\ UNCHANGED file

(* The same of the overlay's list, which leaves the global one alone. *)
EditOverlay ==
    /\ Change
    /\ \/ \E i \in 1 .. Len(overlay) + 1, v \in Values :
             /\ Len(overlay) < MaxLen
             /\ overlay' = Detached(InsertAt(overlay, i, [fb |-> NoNode, val |-> v, set |-> FALSE]))
       \/ \E i \in DOMAIN overlay : overlay' = Detached(RemoveAt(overlay, i))
       \/ \E from, to \in DOMAIN overlay : overlay' = Detached(Moved(overlay, from, to))
       \/ overlay # <<>> /\ overlay' = <<>>
    /\ Override("overlay") /\ MarkDirty("overlay", TRUE)
    /\ UNCHANGED <<global, file, blame>>

(* remove or move with an invalid index, clear of an empty list: nothing   *)
(* changes, but the list is an override now.                               *)
EditNothing(L) ==
    /\ Change
    /\ Override(L) /\ MarkDirty(L, ~over[L])
    /\ overlay' = IF L = "overlay" THEN Detached(overlay) ELSE overlay
    /\ UNCHANGED <<global, file, blame>>

(* QML writes the option of an element.  Node::recordWrite overrides it;   *)
(* the elements that fall back to it follow unless they are overridden.    *)
WriteGlobalElement(i, v) ==
    /\ Change
    /\ global' = [global EXCEPT ![i].val = v, ![i].set = TRUE]
    /\ overlay' = [j \in DOMAIN overlay |->
          IF overlay[j].fb = global[i].id /\ ~overlay[j].set
          THEN [overlay[j] EXCEPT !.val = v] ELSE overlay[j]]
    /\ MarkDirty("global", v # global[i].val \/ ~global[i].set)
    /\ blame' = IF v = global[i].val THEN blame ELSE blame \cup FileStaysBehind
    /\ UNCHANGED <<over, file>>

WriteOverlayElement(i, v) ==
    /\ Change
    /\ overlay' = [overlay EXCEPT ![i].val = v, ![i].set = TRUE]
    /\ MarkDirty("overlay", v # overlay[i].val \/ ~overlay[i].set)
    /\ UNCHANGED <<global, over, file, blame>>

(* resetOption of the list by QML, and resetUnvisited when a file lacks it.*)
(* ListNode::resetToDefaults records a reset from the file in both cases:  *)
(* the layer does not become dirty.                                        *)
ResetGlobal ==
    /\ ChangeGlobal(FromProps(DefaultList), All(global), All(DefaultList), <<>>)
    /\ over' = [over EXCEPT !["global"] = FALSE]

ResetOverlay ==
    /\ overlay' = Copies(global)
    /\ over' = [over EXCEPT !["overlay"] = FALSE]
    /\ UNCHANGED global

ResetByQml(L) ==
    /\ Change
    /\ IF L = "global" THEN ResetGlobal ELSE ResetOverlay
    /\ blame' = blame \cup (IF file[L] = NoDoc THEN {} ELSE {L})
                      \cup (IF L = "global" THEN FileStaysBehind ELSE {})
    /\ UNCHANGED <<dirty, file>>

(* syncJson of an array. *)
LoadGlobal(doc) ==
    /\ ChangeGlobal(FromJson(doc), All(global), All(doc), <<>>)
    /\ Override("global")

LoadOverlay(doc) ==
    /\ overlay' = FromJsonDetached(doc)
    /\ Override("overlay")
    /\ UNCHANGED global

(* Another program writes a file that the layer is not about to save, and  *)
(* the layer loads it.                                                     *)
Edited(L, doc) ==
    /\ Change /\ ~dirty[L]
    /\ CASE L = "global"  /\ doc = NoDoc -> ResetGlobal
         [] L = "global"  /\ doc # NoDoc -> LoadGlobal(doc)
         [] L = "overlay" /\ doc = NoDoc -> ResetOverlay
         [] OTHER -> LoadOverlay(doc)
    /\ file' = [file EXCEPT ![L] = doc]
    /\ blame' = (blame \ {L}) \cup (IF L = "global" THEN FileStaysBehind ELSE {})
    /\ UNCHANGED dirty

(* Mutant: a list without an override of its own is not written. *)
HasContentShallow(L) == over[L]

(* hasContent, and toJson: a list is written whole or not at all. *)
HasContent(L) ==
    over[L] \/ IF L = "global" THEN \E i \in DOMAIN global : global[i].set
                               ELSE \E i \in DOMAIN overlay : overlay[i].set

Serialised(L) ==
    IF ~HasContent(L) THEN NoDoc ELSE IF L = "global" THEN Vals(global) ELSE Vals(overlay)

Save(L) ==
    /\ dirty[L]
    /\ file' = [file EXCEPT ![L] = Serialised(L)]
    /\ dirty' = [dirty EXCEPT ![L] = FALSE]
    /\ blame' = blame \ {L}
    /\ UNCHANGED <<global, overlay, over, changes>>

(* The shell starts again: the global layer is loaded, then the overlay is *)
(* made and loaded.  Writes that were not saved are gone.                  *)
StartedGlobal == IF file["global"] = NoDoc THEN FromProps(DefaultList) ELSE FromJson(file["global"])
StartedOverlay ==
    IF file["overlay"] = NoDoc THEN Copies(StartedGlobal) ELSE FromJsonDetached(file["overlay"])

Restart ==
    /\ global' = StartedGlobal /\ overlay' = StartedOverlay
    /\ over' = [L \in Layers |-> file[L] # NoDoc]
    /\ dirty' = [L \in Layers |-> FALSE]
    /\ blame' = {}
    /\ UNCHANGED <<file, changes>>

Next ==
    \/ EditGlobal
    \/ EditOverlay
    \/ \E i \in DOMAIN global, v \in Values : WriteGlobalElement(i, v)
    \/ \E i \in DOMAIN overlay, v \in Values : WriteOverlayElement(i, v)
    \/ \E L \in Layers :
          \/ EditNothing(L)
          \/ ResetByQml(L)
          \/ \E doc \in Docs \cup {NoDoc} : Edited(L, doc)
          \/ Save(L)
    \/ Restart

Spec == Init /\ [][Next]_vars

----------------------------------------------------------------------------
GlobalElements == [id : Ids, val : Values, set : BOOLEAN]
OverlayElements == [fb : Ids \cup {NoNode}, val : Values, set : BOOLEAN]

(* Types of the variables. *)
TypeOK ==
    /\ global \in Seq(GlobalElements) /\ overlay \in Seq(OverlayElements)
    /\ over \in [Layers -> BOOLEAN] /\ dirty \in [Layers -> BOOLEAN]
    /\ DOMAIN file = Layers
    /\ changes \in 0 .. MaxChanges /\ blame \subseteq Layers

(* However the global list is changed, the list of an overlay that does    *)
(* not override it has the same elements in the same order, each falls     *)
(* back to its counterpart, and shows its value unless it is overridden.   *)
MirrorsGlobal ==
    ~over["overlay"] =>
        /\ Len(overlay) = Len(global)
        /\ \A i \in DOMAIN overlay :
              /\ overlay[i].fb = global[i].id
              /\ ~overlay[i].set => overlay[i].val = global[i].val

(* An element of an overlay never falls back to a node that is gone, and   *)
(* the elements of an overridden list fall back to none: what happens to   *)
(* the global list does not reach them.                                    *)
OverriddenIsDetached ==
    /\ over["overlay"] => \A i \in DOMAIN overlay : overlay[i].fb = NoNode
    /\ \A i \in DOMAIN overlay :
          overlay[i].fb # NoNode => \E j \in DOMAIN global : global[j].id = overlay[i].fb

(* When nothing waits to be saved, a restart shows the lists of before.    *)
(* Except for a reset from QML, which is not saved, and for an overlay of  *)
(* which only elements were written and whose global list then changed.    *)
RestartShowsTheSame ==
    (\A L \in Layers : ~dirty[L]) /\ blame = {} =>
        Vals(StartedGlobal) = Vals(global) /\ Vals(StartedOverlay) = Vals(overlay)

=============================================================================
