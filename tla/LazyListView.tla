----------------------------- MODULE LazyListView -----------------------------
(***************************************************************************)
(* LazyListView: a list that instantiates delegates only for the rows near *)
(* the viewport.  Rows have records in m_layout, which outlive delegates;  *)
(* heights are estimated until a delegate was ready once.  Model signals   *)
(* re-key the records and the delegates, updatePolish creates and destroys *)
(* delegates, in batches when asynchronous.  Positions are those at the    *)
(* end of the animations; the cache buffer is part of the viewport, and    *)
(* contentY is 0, as in every use of the view in the shell.  The flags of  *)
(* the add and remove animations (isNew, adding, removing) are left out.   *)
(***************************************************************************)
EXTENDS Sums, Sequences, SequencesExt, FiniteSetsExt

CONSTANTS Rows,
          Heights,       \* delegates may have
          Fallback,      \* k_fallbackHeight, while no height is known
          Spacing,
          Viewports,     \* pairs of a top and a bottom
          Cull,          \* cullDelegates
          Creates, Destroys, \* most delegates made and destroyed by one polish
          ReadyDelay,    \* readyDelay > 0
          MaxRows,       \* bound: rows at first and after a reset
          MaxChanges     \* bound: changes of the model, the heights and the viewport

VARIABLES model,    \* its rows
          tall,     \* height of each row's delegate, if there is one
          viewport,
          animated, \* removeDuration > 0, as it was set at first
          layout,   \* m_layout
          average,  \* m_knownHeightSum and m_knownHeightCount
          extent,   \* m_layoutHeight
          content,  \* m_contentHeight
          live,     \* m_delegates, and m_itemToIndex
          dying,    \* m_dyingDelegates
          polish,   \* updatePolish is scheduled
          relayout, \* m_relayoutPending
          changes
vars == <<model, tall, viewport, animated, layout, average, extent, content, live, dying,
          polish, relayout, changes>>

----------------------------------------------------------------------------
(* Where the next row ends if it has height h and the rows before it end   *)
(* at end.  Rows without a height take no spacing.                         *)
NextEnd(end, h) == CASE h = 0 -> end
                     [] h > 0 /\ end = 0 -> h
                     [] OTHER -> end + Spacing + h

(* Where rows of these heights end, with 0 at first. *)
Ends(heights) ==
    LET ends[i \in 0 .. Len(heights)] ==
            IF i = 0 THEN 0 ELSE NextEnd(ends[i - 1], heights[i])
    IN  ends

Total(heights) == Ends(heights)[Len(heights)]

(* effectiveEstimatedHeight *)
Estimate(avg) == IF avg.count > 0 THEN avg.sum \div avg.count ELSE Fallback

(* layoutHeightAt *)
LayoutHeight(record, avg) == IF record.known THEN record.height ELSE Estimate(avg)
LayoutHeights(lay, avg) == [i \in DOMAIN lay |-> LayoutHeight(lay[i], avg)]

(* updateLayoutPositions, given the ends *)
Positioned(lay, avg, ends) ==
    [i \in DOMAIN lay |-> LET h == LayoutHeight(lay[i], avg)
                          IN  [lay[i] EXCEPT !.at = IF h = 0 THEN ends[i - 1] ELSE ends[i] - h]]

(* updateContentHeight, with visibleHeightAt: the delegates as they are. *)
ContentHeight(lay, avg, del) ==
    LET heights == [i \in DOMAIN lay |-> IF i \in DOMAIN del THEN tall[del[i].row]
                                         ELSE LayoutHeight(lay[i], avg)]
    IN  Max({Total(heights)} \cup {d.y + d.height : d \in {x \in dying : x.height > 0}})

(* delegateHeight of the delegates at the indices I *)
Measured(del, I) == [i \in I |-> tall[del[i].row]]

(* setKnownHeight of the rows that new has a height of *)
Learned(lay, new) ==
    [i \in DOMAIN lay |-> IF i \in DOMAIN new
       THEN [lay[i] EXCEPT !.height = new[i], !.known = TRUE] ELSE lay[i]]

(* trackHeight for them, and untrackHeight for those that had one *)
Tracked(avg, lay, new) ==
    LET again == {i \in DOMAIN new : lay[i].known}
    IN  [sum |-> avg.sum - SumOf([i \in again |-> lay[i].height]) + SumOf(new),
         count |-> avg.count - Cardinality(again) + Cardinality(DOMAIN new)]

Unknown == [at |-> 0, height |-> 0, known |-> FALSE]

(* resetContent *)
ResetContent(rows) ==
    /\ layout' = [i \in DOMAIN rows |-> Unknown]
    /\ average' = [sum |-> 0, count |-> 0]
    /\ live' = <<>> /\ dying' = {}
    /\ polish' = TRUE

(* remapDelegates; to is one to one on the indices of delegates *)
Remapped(del, to) ==
    [k \in {to[i] : i \in DOMAIN del} |-> del[CHOOSE i \in DOMAIN del : to[i] = k]]

(* QList::insert and QList::remove, of r before first and of first .. last *)
Spread(s, first, r) == SubSeq(s, 1, first - 1) \o r \o SubSeq(s, first, Len(s))
Cut(s, first, last) == SubSeq(s, 1, first - 1) \o SubSeq(s, last + 1, Len(s))

----------------------------------------------------------------------------
Init ==
    /\ model \in {s \in BoundedSeq(Rows, MaxRows) : IsInjective(s)}
    /\ tall \in [Rows -> Heights] /\ viewport \in Viewports /\ animated \in BOOLEAN
    /\ layout = [i \in DOMAIN model |-> Unknown]
    /\ average = [sum |-> 0, count |-> 0] /\ extent = 0 /\ content = 0
    /\ live = <<>> /\ dying = {} /\ polish = TRUE /\ relayout = FALSE /\ changes = 0

Changed == changes < MaxChanges /\ changes' = changes + 1

(* onRowsInserted; first is the index of the first new row. *)
InsertRows(first, rows) ==
    /\ Changed
    /\ first \in 1 .. Len(model) + 1 /\ IsInjective(model \o rows)
    /\ LET n == Len(rows)
       IN  /\ model' = Spread(model, first, rows)
           /\ layout' = Spread(layout, first, [i \in 1 .. n |-> Unknown])
           /\ live' = Remapped(live, [i \in DOMAIN live |-> IF i >= first THEN i + n ELSE i])
    /\ polish' = TRUE
    /\ UNCHANGED <<tall, viewport, animated, average, extent, content, dying, relayout>>

(* onRowsAboutToBeRemoved: delegates that were never shown just go. *)
Dying(del, I) ==
    IF ~animated THEN {}
    ELSE {[row |-> del[i].row, y |-> del[i].y, height |-> tall[del[i].row]] :
            i \in {k \in I \cap DOMAIN del : ~del[k].pending}}

(* onRowsAboutToBeRemoved and onRowsRemoved *)
RemoveRows(first, last) ==
    /\ Changed
    /\ 1 <= first /\ first <= last /\ last <= Len(model)
    /\ LET n == last - first + 1
           gone == first .. last
           known == {i \in gone : layout[i].known}
       IN  /\ model' = Cut(model, first, last) /\ layout' = Cut(layout, first, last)
           /\ dying' = dying \cup Dying(live, gone)
           /\ average' = [sum |-> average.sum - SumOf([i \in known |-> layout[i].height]),
                          count |-> average.count - Cardinality(known)]
           /\ live' = Remapped([i \in DOMAIN live \ gone |-> live[i]],
                               [i \in DOMAIN live \ gone |-> IF i > last THEN i - n ELSE i])
    /\ polish' = TRUE
    /\ UNCHANGED <<tall, viewport, animated, extent, content, relayout>>

(* Rows start .. end go before row, in the old numbering: in the model,    *)
ModelMoved(s, start, end, row) ==
    IF row < start
    THEN SubSeq(s, 1, row - 1) \o SubSeq(s, start, end) \o SubSeq(s, row, start - 1)
           \o SubSeq(s, end + 1, Len(s))
    ELSE SubSeq(s, 1, start - 1) \o SubSeq(s, end + 1, row - 1) \o SubSeq(s, start, end)
           \o SubSeq(s, row, Len(s))

(* and, by onRowsMoved, in the records and in the indices of delegates.    *)
Dest(start, end, row) == IF row > start THEN row - (end - start + 1) ELSE row

MovedIndex(start, end, row, i) ==
    LET count == end - start + 1
        rest  == IF i > end THEN i - count ELSE i
    IN  CASE i \in start .. end -> Dest(start, end, row) + (i - start)
          [] i \notin start .. end /\ rest >= Dest(start, end, row) -> rest + count
          [] OTHER -> rest

MoveRows(start, end, row) ==
    /\ Changed
    /\ 1 <= start /\ start <= end /\ end <= Len(model)
    /\ row \in (1 .. Len(model) + 1) \ (start .. end + 1)
    /\ model' = ModelMoved(model, start, end, row)
    /\ layout' = Spread(Cut(layout, start, end), Dest(start, end, row), SubSeq(layout, start, end))
    /\ live' = Remapped(live, [i \in DOMAIN live |-> MovedIndex(start, end, row, i)])
    /\ polish' = TRUE
    /\ UNCHANGED <<tall, viewport, animated, average, extent, content, dying, relayout>>

(* onModelReset: nothing is rebuilt if the count is the same and the data  *)
(* of every delegate is.                                                   *)
Reset(rows) ==
    /\ Changed /\ rows # model
    /\ model' = rows
    /\ IF Len(rows) = Len(layout) /\ \A i \in DOMAIN live : live[i].row = rows[i]
       THEN UNCHANGED <<layout, average, live, dying, polish>>
       ELSE ResetContent(rows)
    /\ UNCHANGED <<tall, viewport, animated, extent, content, relayout>>

(* Mutant: nothing is scheduled. *)
SetViewportQuietly(v) ==
    /\ Changed
    /\ viewport' = v
    /\ UNCHANGED <<model, tall, animated, layout, average, extent, content, live, dying, polish,
                   relayout>>

(* A new viewport, a new geometry. *)
SetViewport(v) ==
    /\ Changed
    /\ viewport' = v /\ polish' = TRUE
    /\ UNCHANGED <<model, tall, animated, layout, average, extent, content, live, dying, relayout>>

(* onDelegateHeightChanged; only a delegate that is there and ready is     *)
(* measured.                                                               *)
HeightChanges(r, h) ==
    /\ Changed /\ tall[r] # h
    /\ tall' = [tall EXCEPT ![r] = h]
    /\ LET hit == {i \in DOMAIN live : live[i].row = r /\ ~live[i].pending /\ layout[i].height # h}
           new == [i \in hit |-> h]
       IN  /\ layout' = Learned(layout, new)
           /\ average' = Tracked(average, layout, new)
           /\ relayout' = (relayout \/ hit # {})
    /\ UNCHANGED <<model, viewport, animated, extent, content, live, dying, polish>>

(* effectiveViewport, empty if the top is not above the bottom *)
Effective(ext) ==
    IF ext > 0 THEN [top |-> Max({viewport[1], 0}), bottom |-> Min({viewport[2], ext})]
    ELSE [top |-> viewport[1], bottom |-> viewport[2]]

(* computeVisibleRange, as a set of indices *)
VisibleRange(lay, avg, ext) ==
    LET view == Effective(ext)
        bottom(i) == lay[i].at + LayoutHeight(lay[i], avg)
        reach == {i \in DOMAIN lay : bottom(i) >= view.top}
    IN  CASE ~Cull -> DOMAIN lay
          [] Cull /\ (view.top >= view.bottom \/ reach = {}) -> {}
          [] OTHER -> {i \in DOMAIN lay : i >= Min(reach)
                         /\ \A j \in Min(reach) .. i : j = Min(reach) \/ lay[j].at <= view.bottom}

(* delegatesOutsideViewport *)
Outside(del, keep, ext) ==
    LET view == Effective(ext)
    IN  {i \in DOMAIN del \ keep :
           \/ view.top >= view.bottom
           \/ del[i].y + tall[del[i].row] < view.top
           \/ del[i].y > view.bottom}

(* Mutant: the budget is used up one too early. *)
FirstMissingLess(missing, n) == {i \in missing : Cardinality({j \in missing : j < i}) < n - 1}

(* The first n indices that miss a delegate, in order. *)
FirstMissing(missing, n) == {i \in missing : Cardinality({j \in missing : j < i}) < n}

(* positionDelegates: delegates that are shown and not collapsed *)
Placed(d, record) ==
    IF d.pending \/ (record.known /\ record.height = 0) THEN d ELSE [d EXCEPT !.y = record.at]

(* updatePolish: flushPendingInserts, which reveals or starts a timer,     *)
(* then relayout, syncDelegates and positionDelegates.  Whatever it reveals*)
(* or makes calls for another polish.                                      *)
Polish ==
    /\ polish
    /\ LET pending  == {i \in DOMAIN live : live[i].pending}
           revealed == IF ReadyDelay THEN {} ELSE pending
           flushed(i) == [live[i] EXCEPT !.pending = @ /\ ReadyDelay,
                                         !.waiting = live[i].pending /\ ReadyDelay]
           made(i)  == [row |-> model[i], y |-> 0, pending |-> TRUE, waiting |-> FALSE]
       IN  \E learned \in {Learned(layout, Measured(live, revealed))} :
           \E avg \in {Tracked(average, layout, Measured(live, revealed))} :
           \E ends \in {Ends(LayoutHeights(learned, avg))} :
           \E lay \in {Positioned(learned, avg, ends)} :
           \E visible \in {VisibleRange(lay, avg, ends[Len(lay)])} :
               LET outside == Outside(live, visible, ends[Len(lay)])
                   missing == visible \ DOMAIN live
                   new     == FirstMissing(missing, Creates)
               IN  \E gone \in kSubset(Min({Destroys, Cardinality(outside)}), outside) :
                     /\ live' = [i \in (DOMAIN live \ gone) \cup new |->
                                   IF i \in new THEN [made(i) EXCEPT !.y = lay[i].at]
                                   ELSE Placed(flushed(i), lay[i])]
                     /\ layout' = lay
                     /\ average' = avg /\ extent' = ends[Len(lay)]
                     /\ content' = ContentHeight(learned, avg, live)
                     /\ polish' = (revealed # {} \/ new # {} \/ gone # outside \/ new # missing)
    /\ UNCHANGED <<model, tall, viewport, animated, dying, relayout, changes>>

(* The timer of scheduleRelayout *)
Relayout ==
    /\ relayout /\ relayout' = FALSE
    /\ \E ends \in {Ends(LayoutHeights(layout, average))} :
          layout' = Positioned(layout, average, ends) /\ extent' = ends[Len(layout)]
    /\ content' = ContentHeight(layout, average, live)
    /\ polish' = TRUE
    /\ UNCHANGED <<model, tall, viewport, animated, average, live, dying, changes>>

(* finishDelayedInsert, which reveals a delegate: its height is measured.  *)
(* The timer of a delegate that is gone finds nothing.                     *)
Reveal(i) ==
    /\ live[i].waiting
    /\ live' = [live EXCEPT ![i].pending = FALSE, ![i].waiting = FALSE, ![i].y = layout[i].at]
    /\ layout' = Learned(layout, Measured(live, {i}))
    /\ average' = Tracked(average, layout, Measured(live, {i}))
    /\ polish' = TRUE
    /\ UNCHANGED <<model, tall, viewport, animated, extent, content, dying, relayout, changes>>

(* The remove animation of a delegate is over. *)
Die(d) ==
    /\ dying' = dying \ {d}
    /\ UNCHANGED <<model, tall, viewport, animated, layout, average, extent, content, live,
                   polish, relayout, changes>>

Change ==
    \/ \E first \in 1 .. Len(model) + 1, r \in Rows : InsertRows(first, <<r>>)
    \/ \E first, last \in DOMAIN model : RemoveRows(first, last)
    \/ \E start, end \in DOMAIN model, row \in 1 .. Len(model) + 1 : MoveRows(start, end, row)
    \/ \E rows \in {s \in BoundedSeq(Rows, MaxRows) : IsInjective(s)} : Reset(rows)
    \/ \E v \in Viewports : SetViewport(v)
    \/ \E r \in Rows, h \in Heights : HeightChanges(r, h)

Step ==
    \/ Polish
    \/ Relayout
    \/ \E i \in DOMAIN live : Reveal(i)
    \/ \E d \in dying : Die(d)

Next == Change \/ Step

Spec == Init /\ [][Next]_vars

(* The render loop polishes and timers fire: something that can go on does. *)
Fairness == WF_vars(Step)

FairSpec == Spec /\ Fairness

----------------------------------------------------------------------------
Records == [at : Int, height : Heights \cup {0}, known : BOOLEAN]
Delegates == [row : Rows, y : Int, pending : BOOLEAN, waiting : BOOLEAN]
Leaving == [row : Rows, y : Int, height : Heights]

(* Types of the variables; a record per row, and delegates only of rows. *)
TypeOK ==
    /\ model \in Seq(Rows) /\ tall \in [Rows -> Heights] /\ viewport \in Viewports
    /\ animated \in BOOLEAN
    /\ layout \in Seq(Records) /\ Len(layout) = Len(model)
    /\ DOMAIN live \subseteq DOMAIN model /\ \A i \in DOMAIN live : live[i] \in Delegates
    /\ average.sum \in Nat /\ average.count \in Nat /\ extent \in Nat /\ content \in Nat
    /\ dying \subseteq Leaving /\ polish \in BOOLEAN /\ relayout \in BOOLEAN /\ changes \in 0 .. MaxChanges

(* Through any sequence of insertions, removals, moves and resets, each    *)
(* delegate stays with its row, and the record of a row whose delegate is  *)
(* ready has the height that the delegate has.                             *)
DelegatesFollowRows ==
    \A i \in DOMAIN live :
        /\ live[i].row = model[i]
        /\ ~live[i].pending => layout[i].known /\ layout[i].height = tall[model[i]]

(* The running average is that of the records, however they are measured,  *)
(* measured again, dropped and moved.                                      *)
AverageIsTrue ==
    LET known == {i \in DOMAIN layout : layout[i].known}
    IN  /\ average.count = Cardinality(known)
        /\ average.sum = SumOf([i \in known |-> layout[i].height])

Settled == ~polish /\ ~relayout /\ \A i \in DOMAIN live : ~live[i].waiting

(* When no work is left, every row in sight has a delegate that is shown,  *)
(* at its place, and the rows are as far apart as the layout says.         *)
NoHoles ==
    LET ends == Ends(LayoutHeights(layout, average))
    IN  Settled =>
          /\ extent = ends[Len(layout)] /\ layout = Positioned(layout, average, ends)
          /\ \A i \in VisibleRange(layout, average, extent) :
                /\ i \in DOMAIN live /\ ~live[i].pending
                /\ layout[i].height > 0 => live[i].y = layout[i].at

(* The view comes to rest: no polish calls for another one forever.        *)
Settles == <>[]Settled

(* At rest, when all rows have delegates and removals are not animated,    *)
(* the content is as high as the rows.  (The end of a removal's animation  *)
(* asks for no update of the height.)                                      *)
ContentIsRows ==
    ~animated /\ Settled /\ DOMAIN live = DOMAIN model => content = extent

=============================================================================
