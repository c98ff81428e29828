------------------------------ MODULE RingBuffer ------------------------------
(***************************************************************************)
(* util::RingBuffer, and CircularBuffer, which keeps the maximum of one.   *)
(* A ring is an array with the next place to write and a count; what it    *)
(* holds is the newest values, and AudioCollector takes that for granted.  *)
(***************************************************************************)
EXTENDS Integers, Sequences, SequencesExt, FiniteSetsExt

CONSTANTS Values,      \* not negative: uses and rates
          Capacities,
          Spans        \* longest span that is pushed

VARIABLES ring,    \* m_data, an array from 0, m_head and m_count
          maximum, \* CircularBuffer::m_max
          latest   \* history: what was pushed, the newest of it that has room
vars == <<ring, maximum, latest>>

----------------------------------------------------------------------------
(* RingBuffer(capacity) *)
Empty(cap) == [data |-> [k \in 0 .. cap - 1 |-> 0], head |-> 0, count |-> 0]
Cap(r) == Cardinality(DOMAIN r.data)

(* push of one value *)
Push(r, v) ==
    IF Cap(r) = 0 THEN r
    ELSE [data  |-> [r.data EXCEPT ![r.head] = v],
          head  |-> (r.head + 1) % Cap(r),
          count |-> Min({r.count + 1, Cap(r)})]

(* Mutant: what does not fit behind the head is written over its own start. *)
PushSpanNoWrap(r, span) ==
    IF Cap(r) = 0 THEN r
    ELSE LET values == SubSeq(span, Max({1, Len(span) - Cap(r) + 1}), Len(span))
             n      == Len(values)
         IN  [data  |-> [k \in DOMAIN r.data |-> IF k \in r.head .. r.head + n - 1
                                                 THEN values[k - r.head + 1] ELSE r.data[k]],
              head  |-> (r.head + n) % Cap(r),
              count |-> Min({r.count + n, Cap(r)})]

(* push of a span: the newest that have room, in two runs *)
PushSpan(r, span) ==
    IF Cap(r) = 0 THEN r
    ELSE LET values == SubSeq(span, Max({1, Len(span) - Cap(r) + 1}), Len(span))
             n      == Len(values)
             first  == Min({n, Cap(r) - r.head})
         IN  [data  |-> [k \in DOMAIN r.data |->
                           CASE k \in r.head .. r.head + first - 1 -> values[k - r.head + 1]
                             [] k \in 0 .. n - first - 1 -> values[first + k + 1]
                             [] OTHER -> r.data[k]],
              head  |-> (r.head + n) % Cap(r),
              count |-> Min({r.count + n, Cap(r)})]

(* copyLatest into a span of a length: from start, and the rest from 0 *)
CopyLatest(r, length) ==
    LET n     == Min({length, r.count})
        start == (r.head - n + Cap(r)) % Cap(r)
        first == Min({n, Cap(r) - start})
    IN  IF n = 0 THEN <<>>
        ELSE [k \in 1 .. first |-> r.data[start + k - 1]]
               \o [k \in 1 .. n - first |-> r.data[k - 1]]

(* pushTo: two spans of the array *)
PushTo(r, other) ==
    LET start == (r.head - r.count + Cap(r)) % Cap(r)
        first == Min({r.count, Cap(r) - start})
        run(from, n) == [k \in 1 .. n |-> r.data[from + k - 1]]
    IN  IF r.count = 0 THEN other
        ELSE PushSpan(PushSpan(other, run(start, first)), run(0, r.count - first))

(* at *)
At(r, index) == r.data[(r.head - r.count + index + Cap(r)) % Cap(r)]

(* clear *)
Cleared(r) == [r EXCEPT !.head = 0, !.count = 0]

(* computeMaximum *)
Maximum(r) == IF r.count = 0 THEN 0 ELSE Max({At(r, i) : i \in 0 .. r.count - 1})

----------------------------------------------------------------------------
Newest(s, n) == SubSeq(s, Max({1, Len(s) - n + 1}), Len(s))

Init ==
    /\ \E cap \in Capacities : ring = Empty(cap)
    /\ maximum = 0 /\ latest = <<>>

(* CircularBuffer::push *)
PushValue(v) ==
    /\ Cap(ring) > 0
    /\ ring' = Push(ring, v)
    /\ maximum' = Maximum(ring')
    /\ latest' = Newest(Append(latest, v), Cap(ring))

(* What AudioCollector and PipeWireWorker do: the maximum is not theirs. *)
PushValues(span) ==
    /\ ring' = PushSpan(ring, span)
    /\ maximum' = Maximum(ring')
    /\ latest' = Newest(latest \o span, Cap(ring))

(* CircularBuffer::clear *)
Clear ==
    /\ ring.count > 0
    /\ ring' = Cleared(ring)
    /\ maximum' = IF maximum > 0 THEN 0 ELSE maximum
    /\ latest' = <<>>

(* CircularBuffer::setCapacity *)
SetCapacity(cap) ==
    /\ cap # Cap(ring)
    /\ ring' = Empty(cap) /\ maximum' = 0 /\ latest' = <<>>

Next ==
    \/ \E v \in Values : PushValue(v)
    \/ \E span \in BoundedSeq(Values, Spans) : PushValues(span)
    \/ Clear
    \/ \E cap \in Capacities : SetCapacity(cap)

Spec == Init /\ [][Next]_vars

----------------------------------------------------------------------------
(* However the head has gone round and whatever was pushed at once, the    *)
(* ring holds the newest values, oldest first, for every way to read it,   *)
(* and the maximum is theirs.                                              *)
HoldsTheLatest ==
    /\ ring.count = Len(latest)
    /\ \A i \in DOMAIN latest : At(ring, i - 1) = latest[i]
    /\ \A n \in 0 .. Cap(ring) + 1 : CopyLatest(ring, n) = Newest(latest, n)
    /\ \A cap \in Capacities : \A span \in BoundedSeq(Values, 2) :
          LET other == PushTo(ring, PushSpan(Empty(cap), span))
          IN  CopyLatest(other, cap) = Newest(Newest(span, cap) \o latest, cap)
    /\ maximum = Max({0} \cup ToSet(latest))
=============================================================================
