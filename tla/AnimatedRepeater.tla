--------------------------- MODULE AnimatedRepeater ---------------------------
(***************************************************************************)
(* AnimatedRepeater: one item per row of a number, a list or an item       *)
(* model.  A change of a model or of a number inserts and removes items    *)
(* that animate; removed items stay in the parent until a timer destroys   *)
(* them, and new ones are `adding' until the next pass of the event loop.  *)
(* The delegate is set and creates an item, as in every use in the shell.  *)
(***************************************************************************)
EXTENDS Integers, SequencesExt, FiniteSetsExt

CONSTANTS Rows,           \* what rows may hold
          MaxRows,        \* bound: rows of a model
          MaxItems,       \* bound: items created
          MaxRepeats,     \* bound: changes from outside
          Animated        \* removeDuration > 0

VARIABLES mode,      \* m_mode
          rows,      \* what the model has: the number's indices, the list, the rows
          complete,  \* m_componentComplete
          items,     \* m_items
          leaving,   \* m_dyingItems
          fresh,     \* m_pendingAdds
          adding,    \* items whose attached property adding is true
          flush,     \* m_addFlushPending
          stack,     \* the children of the parent, the repeater among them
          created, repeats

vars == <<mode, rows, complete, items, leaving, fresh, adding, flush, stack, created, repeats>>

Self == 0   \* the repeater among the children
----------------------------------------------------------------------------
Ids(its) == [i \in DOMAIN its |-> its[i].id]
Counted(n) == [i \in 1 .. n |-> i - 1]

(* The children that are left when those of ids are gone. *)
Without(children, ids) ==
    LET left[k \in 0 .. Len(children)] ==
            IF k = 0 THEN <<>>
            ELSE IF children[k] \in ids THEN left[k - 1] ELSE Append(left[k - 1], children[k])
    IN  left[Len(children)]

(* stackBefore *)
StackBefore(children, id, next) ==
    LET others == Without(children, {id})
        at     == CHOOSE k \in DOMAIN others : others[k] = next
    IN  SubSeq(others, 1, at - 1) \o <<id>> \o SubSeq(others, at, Len(others))

(* restack: from the last item on, each before the next one; `on' is what  *)
(* the children are after so many rounds of the loop.                      *)
Restacked(children, its) ==
    LET Id(i) == IF i > Len(its) THEN Self ELSE its[i].id
        on[k \in 0 .. Len(its)] ==
            IF k = 0 THEN children
            ELSE StackBefore(on[k - 1], Id(Len(its) - k + 1), Id(Len(its) - k + 2))
    IN  on[Len(its)]

(* updateIndices *)
Reindexed(its, from) ==
    [i \in DOMAIN its |-> IF i >= from THEN [its[i] EXCEPT !.index = i - 1] ELSE its[i]]

(* createItem for the rows first..last of `now', and insertItems *)
InsertItems(its, children, first, last, now, adds) ==
    LET new == [k \in 1 .. last - first + 1 |->
                  [id |-> created + k, row |-> now[first + k - 1], index |-> first + k - 2]]
        all == SubSeq(its, 1, first - 1) \o new \o SubSeq(its, first, Len(its))
        ids == ToSet(Ids(new))
    IN  /\ created + Len(new) <= MaxItems
        /\ created' = created + Len(new)
        /\ items' = Reindexed(all, last + 1)
        /\ stack' = Restacked(children \o Ids(new), all)
        /\ adding' = IF adds THEN adding \cup ids ELSE adding
        /\ fresh' = IF adds THEN fresh \cup ids ELSE fresh \ (ToSet(Ids(items)) \ ToSet(Ids(its)))
        /\ flush' = (flush \/ (adds /\ new # <<>>))

(* Mutant: items on their way out are still to be told they were added. *)
RemoveItemsKeepsAdds(first, last) ==
    LET gone == ToSet(Ids(SubSeq(items, first, last)))
    IN  /\ items' = Reindexed(SubSeq(items, 1, first - 1) \o SubSeq(items, last + 1, Len(items)), first)
        /\ leaving' = IF Animated THEN leaving \cup gone ELSE leaving
        /\ stack' = IF Animated THEN stack ELSE Without(stack, gone)
        /\ UNCHANGED <<fresh, adding, flush, created>>

(* removeItems, animated if the duration is not 0 *)
RemoveItems(first, last) ==
    LET gone == ToSet(Ids(SubSeq(items, first, last)))
    IN  /\ items' = Reindexed(SubSeq(items, 1, first - 1) \o SubSeq(items, last + 1, Len(items)), first)
        /\ leaving' = IF Animated THEN leaving \cup gone ELSE leaving
        /\ stack' = IF Animated THEN stack ELSE Without(stack, gone)
        /\ fresh' = fresh \ gone
        /\ UNCHANGED <<adding, flush, created>>

(* regenerate: drop the items without an animation, make new ones *)
Regenerate(now, done) ==
    LET bare == Without(stack, ToSet(Ids(items)))
    IN  IF done THEN InsertItems(<<>>, bare, 1, Len(now), now, FALSE) /\ UNCHANGED leaving
        ELSE /\ items' = <<>> /\ stack' = bare /\ fresh' = fresh \ ToSet(Ids(items))
             /\ UNCHANGED <<leaving, adding, flush, created>>

----------------------------------------------------------------------------
Init ==
    /\ mode = "none" /\ rows = <<>> /\ complete = FALSE
    /\ items = <<>> /\ leaving = {} /\ fresh = {} /\ adding = {} /\ flush = FALSE
    /\ stack = <<Self>> /\ created = 0 /\ repeats = 0

Repeat == repeats < MaxRepeats /\ repeats' = repeats + 1

(* setModel: from number to number the difference is animated. *)
SetModel(m, now) ==
    /\ Repeat
    /\ m = "model" \/ <<m, now>> # <<mode, rows>>
    /\ mode' = m /\ rows' = now
    /\ CASE ~(complete /\ mode = "count" /\ m = "count") -> Regenerate(now, complete)
         [] complete /\ mode = "count" /\ m = "count" /\ Len(now) > Len(rows) ->
              InsertItems(items, stack, Len(rows) + 1, Len(now), now, TRUE) /\ UNCHANGED leaving
         [] OTHER -> RemoveItems(Len(now) + 1, Len(rows))
    /\ UNCHANGED complete

ComponentComplete ==
    /\ ~complete /\ complete' = TRUE
    /\ Regenerate(rows, TRUE)
    /\ UNCHANGED <<mode, rows, repeats>>

(* The slots of the model; until the component is complete they do nothing *)
(* but for the reset, which makes no items then either.                    *)
RowsInserted(first, new) ==
    /\ Repeat /\ mode = "model" /\ Len(rows) + Len(new) <= MaxRows
    /\ LET now == SubSeq(rows, 1, first - 1) \o new \o SubSeq(rows, first, Len(rows))
       IN  /\ rows' = now
           /\ IF complete THEN InsertItems(items, stack, first, first + Len(new) - 1, now, TRUE)
              ELSE UNCHANGED <<items, stack, fresh, adding, flush, created>>
    /\ UNCHANGED <<mode, complete, leaving>>

RowsRemoved(first, last) ==
    /\ Repeat /\ mode = "model" /\ first <= last
    /\ rows' = SubSeq(rows, 1, first - 1) \o SubSeq(rows, last + 1, Len(rows))
    /\ IF complete THEN RemoveItems(first, last)
       ELSE UNCHANGED <<items, stack, fresh, adding, flush, created, leaving>>
    /\ UNCHANGED <<mode, complete>>

(* Mutant: the indices in front of the source are not written. *)
MovedWrongIndices(s, start, end, row) ==
    LET count == end - start + 1
        dest  == IF row > start THEN row - count ELSE row
        rest  == SubSeq(s, 1, start - 1) \o SubSeq(s, end + 1, Len(s))
    IN  [all |-> SubSeq(rest, 1, dest - 1) \o SubSeq(s, start, end) \o SubSeq(rest, dest, Len(rest)),
         from |-> start]

(* onRowsMoved: start..end go before row, in the old numbering. *)
Moved(s, start, end, row) ==
    LET count == end - start + 1
        dest  == IF row > start THEN row - count ELSE row
        rest  == SubSeq(s, 1, start - 1) \o SubSeq(s, end + 1, Len(s))
    IN  [all |-> SubSeq(rest, 1, dest - 1) \o SubSeq(s, start, end) \o SubSeq(rest, dest, Len(rest)),
         from |-> Min({start, dest})]

RowsMoved(start, end, row) ==
    /\ Repeat /\ mode = "model" /\ start <= end /\ row \notin start .. end + 1
    /\ LET Part(i, j) == SubSeq(rows, i, j)
           moved == Moved(items, start, end, row)
       IN  /\ rows' = IF row > end
                      THEN Part(1, start - 1) \o Part(end + 1, row - 1) \o Part(start, end)
                           \o Part(row, Len(rows))
                      ELSE Part(1, row - 1) \o Part(start, end) \o Part(row, start - 1)
                           \o Part(end + 1, Len(rows))
           /\ IF complete
              THEN /\ items' = Reindexed(moved.all, moved.from)
                   /\ stack' = Restacked(stack, moved.all)
              ELSE UNCHANGED <<items, stack>>
    /\ UNCHANGED <<mode, complete, leaving, fresh, adding, flush, created>>

(* dataChanged, and layoutChanged, after which every item is written anew *)
RowsChanged(now) ==
    /\ Repeat /\ mode = "model" /\ Len(now) = Len(rows) /\ now # rows
    /\ rows' = now
    /\ items' = [i \in DOMAIN items |-> [items[i] EXCEPT !.row = now[i], !.index = i - 1]]
    /\ UNCHANGED <<mode, complete, leaving, fresh, adding, flush, stack, created>>

ModelReset(now) ==
    /\ Repeat /\ mode = "model"
    /\ rows' = now
    /\ Regenerate(now, complete)
    /\ UNCHANGED <<mode, complete>>

ModelDestroyed ==
    /\ Repeat /\ mode = "model"
    /\ mode' = "none" /\ rows' = <<>>
    /\ Regenerate(<<>>, complete)
    /\ UNCHANGED complete

(* itemChange: the items follow the repeater to another parent. *)
Reparent ==
    /\ Repeat
    /\ LET children == <<Self>> \o Ids(items) \o SetToSeq(leaving)
       IN  stack' = Restacked(children, items)
    /\ UNCHANGED <<mode, rows, complete, items, leaving, fresh, adding, flush, created>>

(* flushPendingAdds *)
FlushAdds ==
    /\ flush /\ flush' = FALSE
    /\ adding' = adding \ fresh /\ fresh' = {}
    /\ UNCHANGED <<mode, rows, complete, items, leaving, stack, created, repeats>>

(* The timer of a removed item *)
Destroy(id) ==
    /\ leaving' = leaving \ {id} /\ stack' = Without(stack, {id})
    /\ UNCHANGED <<mode, rows, complete, items, fresh, adding, flush, created, repeats>>

Models == {s \in BoundedSeq(Rows, MaxRows) : IsInjective(s)}

ModelChanges ==
    \/ \E first \in 1 .. Len(rows) + 1, r \in Rows \ ToSet(rows) : RowsInserted(first, <<r>>)
    \/ \E first, last \in DOMAIN rows : RowsRemoved(first, last)
    \/ \E start, end \in DOMAIN rows, row \in 1 .. Len(rows) + 1 : RowsMoved(start, end, row)
    \/ \E now \in Models : RowsChanged(now) \/ ModelReset(now)
    \/ ModelDestroyed

Next ==
    \/ SetModel("none", <<>>)
    \/ \E now \in Models : SetModel("list", now) \/ SetModel("model", now)
    \/ \E n \in 0 .. MaxRows : SetModel("count", Counted(n))
    \/ ComponentComplete \/ ModelChanges \/ Reparent \/ FlushAdds
    \/ \E id \in leaving : Destroy(id)

Spec == Init /\ [][Next]_vars

----------------------------------------------------------------------------
(* Through any sequence of insertions, removals, moves, resets and changes *)
(* of the model the items are those of the rows, in their order, each with *)
(* its own index and data.                                                 *)
ItemsMirrorModel ==
    complete => /\ Len(items) = Len(rows)
                /\ \A i \in DOMAIN items : items[i].index = i - 1 /\ items[i].row = rows[i]

(* The children of the parent are the items in the order of the rows, just *)
(* before the repeater, and those that still leave; and no timer or queue  *)
(* holds an item that was destroyed: both would touch freed memory.        *)
StackMirrorsItems ==
    /\ Without(stack, leaving) = Ids(items) \o <<Self>>
    /\ IsInjective(stack) /\ leaving \subseteq ToSet(stack)
    /\ fresh \subseteq ToSet(Ids(items)) /\ fresh \subseteq adding
    /\ fresh # {} => flush
=============================================================================
