------------------------------ MODULE ListProofs ------------------------------
(***************************************************************************)
(* Proofs about the list options and the repeater of MCData: a list of an  *)
(* overlay follows the one of the file below until it is detached, both    *)
(* survive a restart, and the items of a repeater are those of its model,  *)
(* for every value of the constants that keeps its assumptions.  Lists and *)
(* repeater are parts of MCData, one of which runs.                        *)
(***************************************************************************)
EXTENDS MCData, Integers, SequenceTheorems, FiniteSetTheorems, WellFoundedInduction, TLAPS

(* A run of DataSpec is a run of the lists.                                *)
LEMMA ListsKeepTheirSpec == DataSpec => Lists!Spec
<1>1. DataInit => Lists!Init
  BY DEF DataInit
<1>2. [DataNext]_dataVars => [Lists!Next]_Lists!vars
  <2>1. DataNext => Lists!Next \/ UNCHANGED listVars
    BY DEF DataNext
  <2>2. UNCHANGED dataVars => UNCHANGED listVars
    BY DEF dataVars
  <2>3. UNCHANGED listVars => UNCHANGED Lists!vars
    BY DEF listVars, Lists!vars
  <2> QED BY <2>1, <2>2, <2>3
<1> QED BY <1>1, <1>2, PTL DEF DataSpec, Lists!Spec

-----------------------------------------------------------------------------
(* Sequences, place by place: what is left when a run is cut out, and what *)
(* is there when a run is put in.                                          *)
LEMMA CutOutPlaces ==
  ASSUME NEW S, NEW s \in Seq(S), NEW a \in 1 .. Len(s) + 1, NEW b \in (a - 1) .. Len(s)
  PROVE  LET r == SubSeq(s, 1, a - 1) \o SubSeq(s, b + 1, Len(s))
         IN  /\ r \in Seq(S) /\ Len(r) = Len(s) - (b - a + 1)
             /\ \A k \in 1 .. Len(r) : r[k] = IF k < a THEN s[k] ELSE s[k + (b - a + 1)]
<1> DEFINE front == SubSeq(s, 1, a - 1)
           back  == SubSeq(s, b + 1, Len(s))
           r     == front \o back
           m     == Len(s) - b
<1>1. Len(s) \in Nat /\ m \in Nat
  OBVIOUS
<1>2. /\ front \in Seq(S) /\ Len(front) = a - 1
      /\ \A k \in 1 .. a - 1 : front[k] = s[k]
  BY SubSeqProperties
<1>3. /\ back \in Seq(S) /\ Len(back) = m
      /\ \A k \in 1 .. m : back[k] = s[b + k]
  BY SubSeqProperties
<1> SUFFICES /\ r \in Seq(S) /\ Len(r) = Len(s) - (b - a + 1)
             /\ \A k \in 1 .. Len(r) : r[k] = IF k < a THEN s[k] ELSE s[k + (b - a + 1)]
  OBVIOUS
<1> HIDE DEF front, back
<1>4. /\ r \in Seq(S) /\ Len(r) = Len(front) + Len(back)
      /\ \A k \in 1 .. Len(front) + Len(back) :
            r[k] = IF k <= Len(front) THEN front[k] ELSE back[k - Len(front)]
  BY <1>2, <1>3, ConcatProperties
<1> HIDE DEF r
<1>5. Len(r) = Len(s) - (b - a + 1)
  BY <1>1, <1>2, <1>3, <1>4
<1>6. ASSUME NEW k \in 1 .. Len(r) PROVE r[k] = IF k < a THEN s[k] ELSE s[k + (b - a + 1)]
  <2>1. CASE k < a
    BY <1>1, <1>2, <1>3, <1>4, <1>5, <2>1
  <2>2. CASE ~(k < a)
    <3>1. r[k] = back[k - (a - 1)] /\ k - (a - 1) \in 1 .. m
      BY <1>1, <1>2, <1>3, <1>4, <1>5, <2>2
    <3>2. back[k - (a - 1)] = s[b + (k - (a - 1))]
      BY <1>3, <3>1
    <3>3. b + (k - (a - 1)) = k + (b - a + 1)
      OBVIOUS
    <3> QED BY <2>2, <3>1, <3>2, <3>3
  <2> QED BY <2>1, <2>2
<1> QED BY <1>4, <1>5, <1>6

(* What is where after a run is put in.                                    *)
LEMMA FilledPlaces ==
  ASSUME NEW S, NEW s \in Seq(S), NEW a \in 1 .. Len(s) + 1, NEW new \in Seq(S)
  PROVE  LET r == SubSeq(s, 1, a - 1) \o new \o SubSeq(s, a, Len(s))
         IN  /\ r \in Seq(S) /\ Len(r) = Len(s) + Len(new)
             /\ \A k \in 1 .. Len(r) : r[k] = IF k < a THEN s[k]
                                             ELSE IF k < a + Len(new) THEN new[k - a + 1]
                                             ELSE s[k - Len(new)]
<1> DEFINE front == SubSeq(s, 1, a - 1)
           back  == SubSeq(s, a, Len(s))
           left  == front \o new
           r     == left \o back
           m     == Len(s) - a + 1
           n     == Len(new)
<1>1. Len(s) \in Nat /\ m \in Nat /\ n \in Nat
  OBVIOUS
<1>2. /\ front \in Seq(S) /\ Len(front) = a - 1
      /\ \A k \in 1 .. a - 1 : front[k] = s[k]
  BY SubSeqProperties
<1>3. /\ back \in Seq(S) /\ Len(back) = m
      /\ \A k \in 1 .. m : back[k] = s[a - 1 + k]
  BY SubSeqProperties
<1> SUFFICES /\ r \in Seq(S) /\ Len(r) = Len(s) + n
             /\ \A k \in 1 .. Len(r) : r[k] = IF k < a THEN s[k]
                                             ELSE IF k < a + n THEN new[k - a + 1]
                                             ELSE s[k - n]
  OBVIOUS
<1> HIDE DEF front, back
<1>4. /\ left \in Seq(S) /\ Len(left) = a - 1 + n
      /\ \A k \in 1 .. a - 1 + n : left[k] = IF k <= a - 1 THEN front[k] ELSE new[k - (a - 1)]
  <2>1. /\ left \in Seq(S) /\ Len(left) = Len(front) + Len(new)
        /\ \A k \in 1 .. Len(front) + Len(new) :
              left[k] = IF k <= Len(front) THEN front[k] ELSE new[k - Len(front)]
    BY <1>2, ConcatProperties
  <2> QED BY <1>2, <2>1
<1> HIDE DEF left
<1>5. /\ r \in Seq(S) /\ Len(r) = Len(left) + Len(back)
      /\ \A k \in 1 .. Len(left) + Len(back) :
            r[k] = IF k <= Len(left) THEN left[k] ELSE back[k - Len(left)]
  BY <1>3, <1>4, ConcatProperties
<1> HIDE DEF r
<1>6. Len(r) = Len(s) + n
  BY <1>1, <1>3, <1>4, <1>5
<1> HIDE DEF n
<1>7. ASSUME NEW k \in 1 .. Len(r)
      PROVE  r[k] = IF k < a THEN s[k] ELSE IF k < a + n THEN new[k - a + 1] ELSE s[k - n]
  <2>1. CASE k < a
    <3>1. r[k] = left[k] /\ left[k] = front[k] /\ front[k] = s[k]
      BY <1>1, <1>2, <1>3, <1>4, <1>5, <1>6, <2>1
    <3> QED BY <2>1, <3>1
  <2>2. CASE ~(k < a) /\ k < a + n
    <3>1. r[k] = left[k] /\ left[k] = new[k - (a - 1)]
      BY <1>1, <1>3, <1>4, <1>5, <1>6, <2>2
    <3>2. k - (a - 1) = k - a + 1
      OBVIOUS
    <3> QED BY <2>2, <3>1, <3>2
  <2>3. CASE ~(k < a) /\ ~(k < a + n)
    <3>1. r[k] = back[k - (a - 1 + n)] /\ k - (a - 1 + n) \in 1 .. m
      BY <1>1, <1>3, <1>4, <1>5, <1>6, <2>3
    <3>2. back[k - (a - 1 + n)] = s[a - 1 + (k - (a - 1 + n))]
      BY <1>3, <3>1
    <3>3. a - 1 + (k - (a - 1 + n)) = k - n
      BY <1>1
    <3> QED BY <2>3, <3>1, <3>2, <3>3
  <2> QED BY <2>1, <2>2, <2>3
<1> QED BY <1>5, <1>6, <1>7 DEF n

-----------------------------------------------------------------------------
(***************************************************************************)
(* The lists.  The invariant relates the two lists to each other, the list *)
(* of each layer to its file, and a list without content to its default.   *)
(***************************************************************************)
GlobalElement == Lists!GlobalElements
OverlayElement == Lists!OverlayElements

(* List o is that of an overlay that mirrors the list g element by element. *)
Mirrors(o, g) ==
  /\ Len(o) = Len(g)
  /\ \A i \in 1 .. Len(o) : o[i].fb = g[i].id /\ (~o[i].set => o[i].val = g[i].val)

NoneSet(list) == \A i \in 1 .. Len(list) : ~list[i].set
Distinct(g) == \A i, j \in 1 .. Len(g) : g[i].id = g[j].id => i = j

\* The overlay's list o follows a change of the global list to g.
Follows(o, g) ==
  /\ o \in Seq(OverlayElement) /\ Mirrors(o, g)
  /\ NoneSet(listOverlay) => NoneSet(o)

\* Where the element comes from that is at place k after a move.
CameFrom(from, to, k) ==
  IF k = to THEN from
  ELSE LET j == IF k < to THEN k ELSE k - 1 IN IF j < from THEN j ELSE j + 1

(* A copy falls back to what it copies and shows its value.                *)
LEMMA CopyOfAnElement ==
  ASSUME NEW e \in GlobalElement
  PROVE  /\ Lists!Copy(e) \in OverlayElement
         /\ Lists!Copy(e).fb = e.id /\ Lists!Copy(e).val = e.val /\ ~Lists!Copy(e).set
BY DEF GlobalElement, OverlayElement, Lists!GlobalElements, Lists!OverlayElements, Lists!Copy

(* What is where after one element is removed, inserted or moved.          *)
LEMMA RemovedPlaces ==
  ASSUME NEW S, NEW s \in Seq(S), NEW i \in 1 .. Len(s)
  PROVE  LET r == Lists!RemoveAt(s, i)
         IN  /\ r \in Seq(S) /\ Len(r) = Len(s) - 1
             /\ \A k \in 1 .. Len(r) : r[k] = IF k < i THEN s[k] ELSE s[k + 1]
<1> DEFINE r == Lists!RemoveAt(s, i)
<1>1. /\ r \in Seq(S) /\ Len(r) = Len(s) - (i - i + 1)
      /\ \A k \in 1 .. Len(r) : r[k] = IF k < i THEN s[k] ELSE s[k + (i - i + 1)]
  <2>1. i \in 1 .. Len(s) + 1 /\ i \in (i - 1) .. Len(s)
    OBVIOUS
  <2> QED BY <2>1, CutOutPlaces DEF Lists!RemoveAt
<1> HIDE DEF r
<1>2. i - i + 1 = 1
  OBVIOUS
<1>3. /\ r \in Seq(S) /\ Len(r) = Len(s) - 1
      /\ \A k \in 1 .. Len(r) : r[k] = IF k < i THEN s[k] ELSE s[k + 1]
  BY <1>1, <1>2
<1> QED BY <1>3 DEF r

(* What is where after one element is inserted.                            *)
LEMMA InsertedPlaces ==
  ASSUME NEW S, NEW s \in Seq(S), NEW i \in 1 .. Len(s) + 1, NEW e \in S
  PROVE  LET r == Lists!InsertAt(s, i, e)
         IN  /\ r \in Seq(S) /\ Len(r) = Len(s) + 1
             /\ \A k \in 1 .. Len(r) :
                   r[k] = IF k < i THEN s[k] ELSE IF k = i THEN e ELSE s[k - 1]
<1> DEFINE r == Lists!InsertAt(s, i, e)
           one == <<e>>
<1>1. one \in Seq(S) /\ Len(one) = 1 /\ one[1] = e
  OBVIOUS
<1>2. r = SubSeq(s, 1, i - 1) \o one \o SubSeq(s, i, Len(s))
  BY DEF Lists!InsertAt
<1> HIDE DEF r, one
<1>3. /\ r \in Seq(S) /\ Len(r) = Len(s) + Len(one)
      /\ \A k \in 1 .. Len(r) : r[k] = IF k < i THEN s[k]
                                      ELSE IF k < i + Len(one) THEN one[k - i + 1]
                                      ELSE s[k - Len(one)]
  BY <1>1, <1>2, FilledPlaces
<1>4. ASSUME NEW k \in 1 .. Len(r)
      PROVE  r[k] = IF k < i THEN s[k] ELSE IF k = i THEN e ELSE s[k - 1]
  <2>1. k = i => k - i + 1 = 1
    OBVIOUS
  <2> QED BY <1>1, <1>3, <2>1
<1>5. /\ r \in Seq(S) /\ Len(r) = Len(s) + 1
      /\ \A k \in 1 .. Len(r) :
            r[k] = IF k < i THEN s[k] ELSE IF k = i THEN e ELSE s[k - 1]
  BY <1>1, <1>3, <1>4
<1> QED BY <1>5 DEF r

(* What is where after one element is moved.                               *)
LEMMA MovedPlaces ==
  ASSUME NEW S, NEW s \in Seq(S), NEW from \in 1 .. Len(s), NEW to \in 1 .. Len(s)
  PROVE  LET r == Lists!Moved(s, from, to)
         IN  /\ r \in Seq(S) /\ Len(r) = Len(s)
             /\ \A k \in 1 .. Len(s) : /\ CameFrom(from, to, k) \in 1 .. Len(s)
                                       /\ r[k] = s[CameFrom(from, to, k)]
<1> DEFINE left == Lists!RemoveAt(s, from)
           r    == Lists!Moved(s, from, to)
           e    == s[from]
<1>1. /\ left \in Seq(S) /\ Len(left) = Len(s) - 1
      /\ \A k \in 1 .. Len(left) : left[k] = IF k < from THEN s[k] ELSE s[k + 1]
  BY RemovedPlaces
<1>2. r = Lists!InsertAt(left, to, e) /\ e \in S
  BY DEF Lists!Moved
<1> HIDE DEF left, r, e
<1>3. to \in 1 .. Len(left) + 1
  BY <1>1
<1>4. /\ r \in Seq(S) /\ Len(r) = Len(left) + 1
      /\ \A k \in 1 .. Len(r) :
            r[k] = IF k < to THEN left[k] ELSE IF k = to THEN e ELSE left[k - 1]
  <2>1. left \in Seq(S) /\ to \in 1 .. Len(left) + 1 /\ e \in S
    BY <1>1, <1>2, <1>3
  <2> DEFINE put == Lists!InsertAt(left, to, e)
  <2>2. /\ put \in Seq(S) /\ Len(put) = Len(left) + 1
        /\ \A k \in 1 .. Len(put) :
              put[k] = IF k < to THEN left[k] ELSE IF k = to THEN e ELSE left[k - 1]
    BY ONLY <2>1, InsertedPlaces
  <2> HIDE DEF put
  <2>3. r = put
    BY <1>2 DEF put
  <2> QED BY <2>2, <2>3
<1>5. Len(r) = Len(s)
  BY <1>1, <1>4
<1>6. ASSUME NEW k \in 1 .. Len(s)
      PROVE  CameFrom(from, to, k) \in 1 .. Len(s) /\ r[k] = s[CameFrom(from, to, k)]
  <2>1. CASE k = to
    BY <1>4, <1>5, <2>1 DEF CameFrom, e
  <2>2. CASE k < to
    <3>1. r[k] = left[k] /\ k \in 1 .. Len(left)
      BY <1>1, <1>4, <1>5, <2>2
    <3> QED BY <1>1, <2>2, <3>1 DEF CameFrom
  <2>3. CASE k > to
    <3>1. r[k] = left[k - 1] /\ k - 1 \in 1 .. Len(left)
      BY <1>1, <1>4, <1>5, <2>3
    <3>2. left[k - 1] = IF k - 1 < from THEN s[k - 1] ELSE s[k - 1 + 1]
      BY <1>1, <3>1
    <3> QED BY <2>3, <3>1, <3>2 DEF CameFrom
  <2> QED BY <2>1, <2>2, <2>3
<1>7. /\ r \in Seq(S) /\ Len(r) = Len(s)
      /\ \A k \in 1 .. Len(s) : /\ CameFrom(from, to, k) \in 1 .. Len(s)
                                /\ r[k] = s[CameFrom(from, to, k)]
  BY <1>4, <1>5, <1>6
<1> QED BY <1>7 DEF r

(* No two places get the same element.                                     *)
LEMMA CameFromIsInjective ==
  ASSUME NEW from \in Nat, NEW to \in Nat, NEW i \in Nat, NEW j \in Nat,
         CameFrom(from, to, i) = CameFrom(from, to, j)
  PROVE  i = j
BY DEF CameFrom

(* Where nothing is removed or added the list stays.                       *)
LEMMA NoRunIsNothing ==
  ASSUME NEW s \in Seq(OverlayElement), NEW g
  PROVE  Lists!CutOut(s, Lists!NoRun) = s /\ Lists!Filled(s, Lists!NoRun, g) = s
<1> DEFINE cut  == SubSeq(s, 1, 1 - 1) \o SubSeq(s, 0 + 1, Len(s))
           none == [k \in 1 .. 0 - 1 + 1 |-> Lists!Copy(g[1 + k - 1])]
           kept == SubSeq(s, 1, 1 - 1) \o none \o SubSeq(s, 1, Len(s))
<1>1. Lists!CutOut(s, Lists!NoRun) = cut /\ Lists!Filled(s, Lists!NoRun, g) = kept
  BY DEF Lists!CutOut, Lists!Filled, Lists!NoRun
<1>2. 1 \in 1 .. Len(s) + 1 /\ 0 \in (1 - 1) .. Len(s) /\ Len(s) \in Nat
  OBVIOUS
<1>3. /\ cut \in Seq(OverlayElement) /\ Len(cut) = Len(s) - (0 - 1 + 1)
      /\ \A k \in 1 .. Len(cut) : cut[k] = IF k < 1 THEN s[k] ELSE s[k + (0 - 1 + 1)]
  BY <1>2, CutOutPlaces
<1>4. none \in Seq(OverlayElement) /\ Len(none) = 0
  OBVIOUS
<1> HIDE DEF none
<1>5. /\ kept \in Seq(OverlayElement) /\ Len(kept) = Len(s) + Len(none)
      /\ \A k \in 1 .. Len(kept) : kept[k] = IF k < 1 THEN s[k]
                                            ELSE IF k < 1 + Len(none) THEN none[k - 1 + 1]
                                            ELSE s[k - Len(none)]
  BY <1>2, <1>4, FilledPlaces
<1> HIDE DEF cut, kept
<1>6. cut = s
  <2>1. Len(cut) = Len(s) /\ \A k \in 1 .. Len(cut) : cut[k] = s[k]
    BY <1>2, <1>3
  <2> QED BY <1>3, <2>1, SeqEqual
<1>7. kept = s
  <2>1. Len(kept) = Len(s) /\ \A k \in 1 .. Len(kept) : kept[k] = s[k]
    BY <1>2, <1>4, <1>5
  <2> QED BY <1>5, <2>1, SeqEqual
<1> QED BY <1>1, <1>6, <1>7

(* An element is put into both lists at the same place.                    *)
LEMMA InsertFollows ==
  ASSUME listGlobal \in Seq(GlobalElement), NEW i \in 1 .. Len(listGlobal) + 1,
         NEW e \in GlobalElement
  PROVE  LET g == Lists!InsertAt(listGlobal, i, e)
         IN  /\ g \in Seq(GlobalElement) /\ Len(g) = Len(listGlobal) + 1
             /\ /\ Distinct(listGlobal)
                /\ \A k \in 1 .. Len(listGlobal) : listGlobal[k].id # e.id
                => Distinct(g)
             /\ listOverlay \in Seq(OverlayElement) /\ Mirrors(listOverlay, listGlobal)
                => Follows(Lists!Mirrored(g, Lists!NoRun, <<i, i>>, <<>>), g)
<1> DEFINE g == Lists!InsertAt(listGlobal, i, e)
           o == Lists!Mirrored(g, Lists!NoRun, <<i, i>>, <<>>)
<1>1. /\ g \in Seq(GlobalElement) /\ Len(g) = Len(listGlobal) + 1
      /\ \A k \in 1 .. Len(g) :
            g[k] = IF k < i THEN listGlobal[k] ELSE IF k = i THEN e ELSE listGlobal[k - 1]
  BY InsertedPlaces
<1>2. o = Lists!Filled(Lists!CutOut(listOverlay, Lists!NoRun), <<i, i>>, g)
  BY DEF Lists!Mirrored
<1> SUFFICES /\ g \in Seq(GlobalElement) /\ Len(g) = Len(listGlobal) + 1
             /\ /\ Distinct(listGlobal)
                /\ \A k \in 1 .. Len(listGlobal) : listGlobal[k].id # e.id
                => Distinct(g)
             /\ listOverlay \in Seq(OverlayElement) /\ Mirrors(listOverlay, listGlobal)
                => Follows(o, g)
  OBVIOUS
<1> HIDE DEF g, o
<1>3. ASSUME Distinct(listGlobal), \A k \in 1 .. Len(listGlobal) : listGlobal[k].id # e.id
      PROVE  Distinct(g)
  <2> SUFFICES ASSUME NEW k \in 1 .. Len(g), NEW m \in 1 .. Len(g), g[k].id = g[m].id
               PROVE  k = m
    BY DEF Distinct
  <2>1. \A n \in 1 .. Len(g) :
          /\ n < i => n \in 1 .. Len(listGlobal) /\ g[n] = listGlobal[n]
          /\ n = i => g[n] = e
          /\ n > i => n - 1 \in 1 .. Len(listGlobal) /\ g[n] = listGlobal[n - 1]
    BY <1>1
  <2>2. k = i <=> m = i
    <3>1. ASSUME NEW a \in 1 .. Len(g), NEW b \in 1 .. Len(g), a = i, b # i, g[a].id = g[b].id
          PROVE  FALSE
      <4>1. PICK n \in 1 .. Len(listGlobal) : g[b] = listGlobal[n]
        BY <1>1, <2>1, <3>1
      <4> QED BY <1>3, <2>1, <3>1, <4>1
    <3> QED BY <3>1
  <2> DEFINE was(n) == IF n < i THEN n ELSE n - 1
  <2>3. CASE k # i /\ m # i
    <3>1. /\ was(k) \in 1 .. Len(listGlobal) /\ g[k] = listGlobal[was(k)]
          /\ was(m) \in 1 .. Len(listGlobal) /\ g[m] = listGlobal[was(m)]
      BY <1>1, <2>1, <2>3
    <3>2. was(k) = was(m)
      <4> HIDE DEF was
      <4> QED BY <1>3, <3>1 DEF Distinct
    <3> QED BY <1>1, <2>3, <3>2
  <2> QED BY <2>2, <2>3
<1>4. ASSUME listOverlay \in Seq(OverlayElement), Mirrors(listOverlay, listGlobal)
      PROVE  Follows(o, g)
  <2> DEFINE new == [k \in 1 .. i - i + 1 |-> Lists!Copy(g[i + k - 1])]
  <2>1. g[i] = e /\ i \in 1 .. Len(listOverlay) + 1
    BY <1>1, <1>4 DEF Mirrors
  <2>2. new \in Seq(OverlayElement) /\ Len(new) = 1 /\ new[1] = Lists!Copy(e)
    <3>1. i - i + 1 = 1 /\ i + 1 - 1 = i
      OBVIOUS
    <3>2. new = [k \in 1 .. 1 |-> Lists!Copy(g[i + k - 1])]
      BY <3>1
    <3>3. \A k \in 1 .. 1 : Lists!Copy(g[i + k - 1]) = Lists!Copy(e)
      BY <2>1, <3>1
    <3>4. Lists!Copy(e) \in OverlayElement
      BY CopyOfAnElement
    <3> HIDE DEF new
    <3>5. new \in [1 .. 1 -> OverlayElement] /\ new[1] = Lists!Copy(e)
      BY <3>2, <3>3, <3>4
    <3>6. new \in Seq(OverlayElement)
      BY <3>5, SeqDef
    <3> QED BY <3>5, <3>6, LenProperties
  <2>3. o = SubSeq(listOverlay, 1, i - 1) \o new \o SubSeq(listOverlay, i, Len(listOverlay))
    BY <1>2, <1>4, NoRunIsNothing DEF Lists!Filled
  <2> HIDE DEF new
  <2>4. /\ o \in Seq(OverlayElement) /\ Len(o) = Len(listOverlay) + Len(new)
        /\ \A k \in 1 .. Len(o) : o[k] = IF k < i THEN listOverlay[k]
                                        ELSE IF k < i + Len(new) THEN new[k - i + 1]
                                        ELSE listOverlay[k - Len(new)]
    BY <1>4, <2>1, <2>2, <2>3, FilledPlaces
  <2>5. Len(o) = Len(g)
    BY <1>1, <1>4, <2>2, <2>4 DEF Mirrors
  <2>6. ASSUME NEW k \in 1 .. Len(o)
        PROVE  /\ o[k].fb = g[k].id /\ (~o[k].set => o[k].val = g[k].val)
               /\ NoneSet(listOverlay) => ~o[k].set
    <3>1. CASE k < i
      <4>1. o[k] = listOverlay[k] /\ g[k] = listGlobal[k] /\ k \in 1 .. Len(listOverlay)
        BY <1>1, <1>4, <2>1, <2>4, <2>5, <3>1
      <4> QED BY <1>4, <4>1 DEF Mirrors, NoneSet
    <3>2. CASE k = i
      <4>1. k - i + 1 = 1
        BY <3>2
      <4>2. o[k] = Lists!Copy(e) /\ g[k] = e
        BY <1>1, <2>2, <2>4, <2>5, <3>2, <4>1
      <4> QED BY <4>2, CopyOfAnElement
    <3>3. CASE k > i
      <4>1. o[k] = listOverlay[k - 1] /\ g[k] = listGlobal[k - 1] /\ k - 1 \in 1 .. Len(listOverlay)
        BY <1>1, <1>4, <2>2, <2>4, <2>5, <3>3
      <4> QED BY <1>4, <4>1 DEF Mirrors, NoneSet
    <3> QED BY <3>1, <3>2, <3>3
  <2> QED BY <2>4, <2>5, <2>6 DEF Follows, Mirrors, NoneSet
<1> QED BY <1>1, <1>3, <1>4

(* An element is taken out of both lists at the same place.                *)
LEMMA RemoveFollows ==
  ASSUME listGlobal \in Seq(GlobalElement), NEW i \in 1 .. Len(listGlobal)
  PROVE  LET g == Lists!RemoveAt(listGlobal, i)
         IN  /\ g \in Seq(GlobalElement) /\ Len(g) = Len(listGlobal) - 1
             /\ Distinct(listGlobal) => Distinct(g)
             /\ listOverlay \in Seq(OverlayElement) /\ Mirrors(listOverlay, listGlobal)
                => Follows(Lists!Mirrored(g, <<i, i>>, Lists!NoRun, <<>>), g)
<1> DEFINE g == Lists!RemoveAt(listGlobal, i)
           o == Lists!Mirrored(g, <<i, i>>, Lists!NoRun, <<>>)
<1>1. /\ g \in Seq(GlobalElement) /\ Len(g) = Len(listGlobal) - 1
      /\ \A k \in 1 .. Len(g) : g[k] = IF k < i THEN listGlobal[k] ELSE listGlobal[k + 1]
  BY RemovedPlaces
<1>2. o = Lists!Filled(Lists!RemoveAt(listOverlay, i), Lists!NoRun, g)
  BY DEF Lists!Mirrored, Lists!CutOut, Lists!RemoveAt
<1> SUFFICES /\ g \in Seq(GlobalElement) /\ Len(g) = Len(listGlobal) - 1
             /\ Distinct(listGlobal) => Distinct(g)
             /\ listOverlay \in Seq(OverlayElement) /\ Mirrors(listOverlay, listGlobal)
                => Follows(o, g)
  OBVIOUS
<1> HIDE DEF g, o
<1>3. ASSUME Distinct(listGlobal) PROVE Distinct(g)
  <2> SUFFICES ASSUME NEW k \in 1 .. Len(g), NEW m \in 1 .. Len(g), g[k].id = g[m].id
               PROVE  k = m
    BY DEF Distinct
  <2> DEFINE was(n) == IF n < i THEN n ELSE n + 1
  <2>1. \A n \in 1 .. Len(g) : was(n) \in 1 .. Len(listGlobal) /\ g[n] = listGlobal[was(n)]
    BY <1>1
  <2>2. was(k) = was(m)
    <3> HIDE DEF was
    <3> QED BY <1>3, <2>1 DEF Distinct
  <2> QED BY <1>1, <2>2
<1>4. ASSUME listOverlay \in Seq(OverlayElement), Mirrors(listOverlay, listGlobal)
      PROVE  Follows(o, g)
  <2>1. i \in 1 .. Len(listOverlay)
    BY <1>4 DEF Mirrors
  <2> DEFINE left == Lists!RemoveAt(listOverlay, i)
  <2>2. /\ left \in Seq(OverlayElement) /\ Len(left) = Len(listOverlay) - 1
        /\ \A k \in 1 .. Len(left) : left[k] = IF k < i THEN listOverlay[k] ELSE listOverlay[k + 1]
    BY <1>4, <2>1, RemovedPlaces
  <2> HIDE DEF left
  <2>3. o = left
    BY <1>2, <2>2, NoRunIsNothing DEF left
  <2>4. Len(o) = Len(g) /\ Len(listOverlay) \in Nat
    BY <1>1, <1>4, <2>2, <2>3 DEF Mirrors
  <2>5. ASSUME NEW k \in 1 .. Len(o)
        PROVE  /\ o[k].fb = g[k].id /\ (~o[k].set => o[k].val = g[k].val)
               /\ NoneSet(listOverlay) => ~o[k].set
    <3>1. CASE k < i
      <4>1. o[k] = listOverlay[k] /\ g[k] = listGlobal[k] /\ k \in 1 .. Len(listOverlay)
        BY <1>1, <2>1, <2>2, <2>3, <2>4, <3>1
      <4> QED BY <1>4, <4>1 DEF Mirrors, NoneSet
    <3>2. CASE ~(k < i)
      <4>1. o[k] = listOverlay[k + 1] /\ g[k] = listGlobal[k + 1] /\ k + 1 \in 1 .. Len(listOverlay)
        BY <1>1, <2>1, <2>2, <2>3, <2>4, <3>2
      <4> QED BY <1>4, <4>1 DEF Mirrors, NoneSet
    <3> QED BY <3>1, <3>2
  <2> QED BY <2>2, <2>3, <2>4, <2>5 DEF Follows, Mirrors, NoneSet
<1> QED BY <1>1, <1>3, <1>4

(* An element moves in both lists from the same place to the same place.   *)
LEMMA MoveFollows ==
  ASSUME listGlobal \in Seq(GlobalElement),
         NEW from \in 1 .. Len(listGlobal), NEW to \in 1 .. Len(listGlobal)
  PROVE  LET g == Lists!Moved(listGlobal, from, to)
         IN  /\ g \in Seq(GlobalElement) /\ Len(g) = Len(listGlobal)
             /\ Distinct(listGlobal) => Distinct(g)
             /\ listOverlay \in Seq(OverlayElement) /\ Mirrors(listOverlay, listGlobal)
                => Follows(Lists!Mirrored(g, Lists!NoRun, Lists!NoRun, <<from, to>>), g)
<1> DEFINE g == Lists!Moved(listGlobal, from, to)
           o == Lists!Mirrored(g, Lists!NoRun, Lists!NoRun, <<from, to>>)
<1>1. /\ g \in Seq(GlobalElement) /\ Len(g) = Len(listGlobal)
      /\ \A k \in 1 .. Len(listGlobal) : /\ CameFrom(from, to, k) \in 1 .. Len(listGlobal)
                                         /\ g[k] = listGlobal[CameFrom(from, to, k)]
  BY MovedPlaces
<1>2. o = Lists!Moved(Lists!Filled(Lists!CutOut(listOverlay, Lists!NoRun), Lists!NoRun, g), from, to)
  BY DEF Lists!Mirrored
<1> SUFFICES /\ g \in Seq(GlobalElement) /\ Len(g) = Len(listGlobal)
             /\ Distinct(listGlobal) => Distinct(g)
             /\ listOverlay \in Seq(OverlayElement) /\ Mirrors(listOverlay, listGlobal)
                => Follows(o, g)
  OBVIOUS
<1> HIDE DEF g, o
<1>3. ASSUME Distinct(listGlobal) PROVE Distinct(g)
  <2> SUFFICES ASSUME NEW k \in 1 .. Len(g), NEW m \in 1 .. Len(g), g[k].id = g[m].id
               PROVE  k = m
    BY DEF Distinct
  <2>1. CameFrom(from, to, k) = CameFrom(from, to, m)
    <3> DEFINE a == CameFrom(from, to, k)
               b == CameFrom(from, to, m)
    <3>1. /\ a \in 1 .. Len(listGlobal) /\ g[k] = listGlobal[a]
          /\ b \in 1 .. Len(listGlobal) /\ g[m] = listGlobal[b]
      BY <1>1
    <3> HIDE DEF a, b
    <3>2. a = b
      BY <1>3, <3>1 DEF Distinct
    <3> QED BY <3>2 DEF a, b
  <2>2. k \in Nat /\ m \in Nat /\ from \in Nat /\ to \in Nat
    BY <1>1
  <2> QED BY <2>1, <2>2, CameFromIsInjective
<1>4. ASSUME listOverlay \in Seq(OverlayElement), Mirrors(listOverlay, listGlobal)
      PROVE  Follows(o, g)
  <2>1. o = Lists!Moved(listOverlay, from, to)
    BY <1>2, <1>4, NoRunIsNothing
  <2>2. from \in 1 .. Len(listOverlay) /\ to \in 1 .. Len(listOverlay)
    BY <1>4 DEF Mirrors
  <2>3. /\ o \in Seq(OverlayElement) /\ Len(o) = Len(listOverlay)
        /\ \A k \in 1 .. Len(listOverlay) : /\ CameFrom(from, to, k) \in 1 .. Len(listOverlay)
                                            /\ o[k] = listOverlay[CameFrom(from, to, k)]
    BY <1>4, <2>1, <2>2, MovedPlaces
  <2>4. ASSUME NEW k \in 1 .. Len(o)
        PROVE  /\ o[k].fb = g[k].id /\ (~o[k].set => o[k].val = g[k].val)
               /\ NoneSet(listOverlay) => ~o[k].set
    <3>1. PICK b \in 1 .. Len(listOverlay) : o[k] = listOverlay[b] /\ g[k] = listGlobal[b]
      BY <1>1, <1>4, <2>3 DEF Mirrors
    <3> QED BY <1>4, <3>1 DEF Mirrors, NoneSet
  <2> QED BY <1>1, <1>4, <2>3, <2>4 DEF Follows, Mirrors, NoneSet
<1> QED BY <1>1, <1>3, <1>4

(* The whole list is replaced.                                             *)
LEMMA ReplaceFollows ==
  ASSUME listOverlay \in Seq(OverlayElement), Mirrors(listOverlay, listGlobal),
         NEW g \in Seq(GlobalElement)
  PROVE  Follows(Lists!Mirrored(g, <<1, Len(listGlobal)>>, <<1, Len(g)>>, <<>>), g)
<1> DEFINE n   == Len(g)
           cut == SubSeq(listOverlay, 1, 1 - 1) \o SubSeq(listOverlay, Len(listGlobal) + 1, Len(listOverlay))
           new == [k \in 1 .. n - 1 + 1 |-> Lists!Copy(g[1 + k - 1])]
           o   == SubSeq(cut, 1, 1 - 1) \o new \o SubSeq(cut, 1, Len(cut))
<1>1. Lists!Mirrored(g, <<1, Len(listGlobal)>>, <<1, Len(g)>>, <<>>) = o
  BY DEF Lists!Mirrored, Lists!CutOut, Lists!Filled
<1>2. cut \in Seq(OverlayElement) /\ Len(cut) = 0
  <2>1. /\ Len(listGlobal) = Len(listOverlay) /\ 1 \in 1 .. Len(listOverlay) + 1
        /\ Len(listOverlay) \in (1 - 1) .. Len(listOverlay) /\ Len(listOverlay) \in Nat
    BY DEF Mirrors
  <2> DEFINE rest == SubSeq(listOverlay, 1, 1 - 1)
                       \o SubSeq(listOverlay, Len(listOverlay) + 1, Len(listOverlay))
  <2>2. rest \in Seq(OverlayElement) /\ Len(rest) = Len(listOverlay) - (Len(listOverlay) - 1 + 1)
    BY <2>1, CutOutPlaces
  <2>3. cut = rest
    BY <2>1
  <2> HIDE DEF rest, cut
  <2> QED BY <2>1, <2>2, <2>3
<1>3. n \in Nat /\ n - 1 + 1 = n
  OBVIOUS
<1>4. /\ new \in Seq(OverlayElement) /\ Len(new) = n
      /\ \A k \in 1 .. n : new[k] = Lists!Copy(g[k])
  <2>1. new = [k \in 1 .. n |-> Lists!Copy(g[1 + k - 1])]
    BY <1>3
  <2>2. \A k \in 1 .. n : 1 + k - 1 = k /\ g[k] \in GlobalElement
    BY <1>3
  <2>3. \A k \in 1 .. n : Lists!Copy(g[k]) \in OverlayElement
    BY <2>2, CopyOfAnElement
  <2> HIDE DEF new, n
  <2>4. \A k \in 1 .. n : new[k] = Lists!Copy(g[k])
    BY <2>1, <2>2
  <2>5. new \in [1 .. n -> OverlayElement]
    BY <2>1, <2>3, <2>4
  <2>6. new \in Seq(OverlayElement)
    BY <1>3, <2>5, SeqDef
  <2> QED BY <1>3, <2>4, <2>5, <2>6, LenProperties
<1> HIDE DEF cut, new
<1>5. /\ o \in Seq(OverlayElement) /\ Len(o) = Len(cut) + Len(new)
      /\ \A k \in 1 .. Len(o) : o[k] = IF k < 1 THEN cut[k]
                                      ELSE IF k < 1 + Len(new) THEN new[k - 1 + 1]
                                      ELSE cut[k - Len(new)]
  <2>1. 1 \in 1 .. Len(cut) + 1
    BY <1>2
  <2> QED BY <1>2, <1>4, <2>1, FilledPlaces
<1> HIDE DEF o
<1>6. Len(o) = n /\ \A k \in 1 .. n : o[k] = Lists!Copy(g[k])
  BY <1>2, <1>3, <1>4, <1>5
<1>7. \A k \in 1 .. n : o[k].fb = g[k].id /\ o[k].val = g[k].val /\ ~o[k].set
  <2>1. \A k \in 1 .. n : g[k] \in GlobalElement
    OBVIOUS
  <2> QED BY <1>6, <2>1, CopyOfAnElement
<1>8. Follows(o, g)
  BY <1>5, <1>6, <1>7 DEF Follows, Mirrors, NoneSet
<1> QED BY <1>1, <1>8

-----------------------------------------------------------------------------
(* Bounded sequences are the sequences that are not longer than the bound. *)
LEMMA BoundedSeqIs ==
  ASSUME NEW S
  PROVE  \A s : s \in BoundedSeq(S, MaxLen) <=> s \in Seq(S) /\ Len(s) <= MaxLen
<1>1. MaxLen \in Nat
  BY ListsAssumption
<1>2. ASSUME NEW s \in BoundedSeq(S, MaxLen) PROVE s \in Seq(S) /\ Len(s) <= MaxLen
  <2>1. PICK m \in 0 .. MaxLen : s \in [1 .. m -> S]
    BY DEF BoundedSeq, SeqOf
  <2>2. m \in Nat /\ s \in Seq(S)
    BY <1>1, <2>1, SeqDef
  <2> QED BY <1>1, <2>1, <2>2, LenProperties
<1>3. ASSUME NEW s \in Seq(S), Len(s) <= MaxLen PROVE s \in BoundedSeq(S, MaxLen)
  <2>1. Len(s) \in 0 .. MaxLen /\ s \in [1 .. Len(s) -> S]
    BY <1>1, <1>3, LenProperties
  <2> QED BY <2>1 DEF BoundedSeq, SeqOf
<1> QED BY <1>2, <1>3

\* No element of the overlay falls back to a node that is gone.
FallbacksExist ==
  \A i \in 1 .. Len(listOverlay) :
     listOverlay[i].fb = None \/ \E j \in 1 .. Len(listGlobal) : listGlobal[j].id = listOverlay[i].fb

(* New elements get identities of their own that no element has.           *)
LEMMA FreshIds ==
  ASSUME listGlobal \in Seq(GlobalElement), Len(listGlobal) <= MaxLen,
         listOverlay \in Seq(OverlayElement), FallbacksExist, NEW n \in 0 .. MaxLen
  PROVE  /\ Lists!Fresh(n) \in [1 .. n -> ListIds]
         /\ \A i, j \in 1 .. n : Lists!Fresh(n)[i] = Lists!Fresh(n)[j] => i = j
         /\ \A i \in 1 .. n, j \in 1 .. Len(listGlobal) : Lists!Fresh(n)[i] # listGlobal[j].id
<1> DEFINE old == [i \in 1 .. Len(listGlobal) |-> listGlobal[i].id]
<1>1. old \in [1 .. Len(listGlobal) -> ListIds] /\ Len(listGlobal) \in 0 .. MaxLen
  <2>1. \A i \in 1 .. Len(listGlobal) : listGlobal[i] \in GlobalElement
    OBVIOUS
  <2>2. \A i \in 1 .. Len(listGlobal) : listGlobal[i].id \in ListIds
    BY <2>1 DEF GlobalElement, Lists!GlobalElements
  <2>3. Len(listGlobal) \in Nat /\ MaxLen \in Nat
    BY ListsAssumption
  <2> QED BY <2>2, <2>3
<1>2. old \in BoundedSeq(ListIds, MaxLen)
  BY <1>1 DEF BoundedSeq, SeqOf
<1>3. Range(old) = {listGlobal[i].id : i \in 1 .. Len(listGlobal)}
  BY <1>1 DEF Range
<1>4. DOMAIN listGlobal = 1 .. Len(listGlobal) /\ DOMAIN listOverlay = 1 .. Len(listOverlay)
  BY LenProperties
<1>5. ListIds \ Lists!Used = ListIds \ Range(old)
  BY <1>3, <1>4, ListsAssumption DEF FallbacksExist, Lists!Used
<1>6. \E new \in [1 .. n -> ListIds \ Range(old)] : IsInjective(new)
  BY <1>2, RoomAssumption
<1> HIDE DEF old
<1>7. \E new \in [1 .. n -> ListIds \ Lists!Used] : Lists!IsInjective(new)
  BY <1>5, <1>6 DEF IsInjective, Lists!IsInjective
<1>8. Lists!Fresh(n) \in [1 .. n -> ListIds \ Lists!Used] /\ Lists!IsInjective(Lists!Fresh(n))
  BY <1>7 DEF Lists!Fresh
<1>9. Lists!Fresh(n) \in [1 .. n -> ListIds \ Range(old)]
  BY <1>5, <1>8
<1> QED BY <1>3, <1>8, <1>9 DEF Lists!IsInjective

-----------------------------------------------------------------------------
(* Types, and that the lists and the files fit into the bound.             *)
ListTypes ==
  /\ listGlobal \in Seq(GlobalElement) /\ Len(listGlobal) <= MaxLen
  /\ listOverlay \in Seq(OverlayElement) /\ Len(listOverlay) <= MaxLen
  /\ listOver \in [Lists!Layers -> BOOLEAN] /\ listDirty \in [Lists!Layers -> BOOLEAN]
  /\ listFile \in [Lists!Layers -> {None} \cup BoundedSeq(ListValues \cup {NoValue}, MaxLen)]
  /\ listChanges \in 0 .. MaxListChanges /\ listBlame \subseteq Lists!Layers

(* The overlay mirrors the global list or is detached from it.             *)
ListsAreRelated ==
  /\ Distinct(listGlobal)
  /\ ~listOver["overlay"] => Mirrors(listOverlay, listGlobal)
  /\ listOver["overlay"] => \A i \in 1 .. Len(listOverlay) : listOverlay[i].fb = None

\* The values of a list are those of a document.
Shows(list, doc) ==
  /\ Len(list) = Len(doc)
  /\ \A i \in 1 .. Len(list) : list[i].val = Lists!Decoded(doc[i])

\* The layer waits for nothing, and nothing was left out of its file.
Clean(L) == ~listDirty[L] /\ L \notin listBlame

(* hasContent is false: the layer has no override of the list or in it.    *)
NoContent(L) ==
  ~listOver[L] /\ IF L = "global" THEN NoneSet(listGlobal) ELSE NoneSet(listOverlay)

(* A global list without overrides is the default.                         *)
DefaultIsKept == NoContent("global") => Shows(listGlobal, DefaultList)

(* A file that nothing was left out of has the list, or none if there is   *)
(* nothing to write.                                                       *)
GlobalIsFiled ==
  Clean("global") => IF listFile["global"] = None THEN NoContent("global")
                     ELSE Shows(listGlobal, listFile["global"])

OverlayIsFiled ==
  Clean("overlay") => IF listFile["overlay"] = None THEN NoContent("overlay")
                      ELSE ~NoContent("overlay") /\ Shows(listOverlay, listFile["overlay"])

ListInv == ListTypes /\ ListsAreRelated /\ DefaultIsKept /\ GlobalIsFiled /\ OverlayIsFiled

(* There are two layers.                                                   *)
LEMMA LayersAre == Lists!Layers = {"global", "overlay"}
BY DEF Lists!Layers

(* What elements are made of: of the values of properties or of a file.    *)
LEMMA NewElements ==
  ASSUME ListTypes, ListsAreRelated, NEW doc \in BoundedSeq(ListValues \cup {NoValue}, MaxLen)
  PROVE  /\ Lists!FromJson(doc) \in Seq(GlobalElement) /\ Len(Lists!FromJson(doc)) = Len(doc)
         /\ Distinct(Lists!FromJson(doc)) /\ Shows(Lists!FromJson(doc), doc)
         /\ Lists!FromJsonDetached(doc) \in Seq(OverlayElement)
         /\ Len(Lists!FromJsonDetached(doc)) = Len(doc)
         /\ Shows(Lists!FromJsonDetached(doc), doc)
         /\ \A i \in 1 .. Len(doc) : Lists!FromJsonDetached(doc)[i].fb = None
<1>1. /\ doc \in Seq(ListValues \cup {NoValue}) /\ Len(doc) \in 0 .. MaxLen
      /\ DOMAIN doc = 1 .. Len(doc)
  BY BoundedSeqIs, ListsAssumption, LenProperties
<1>2. FallbacksExist
  BY LayersAre DEF ListTypes, ListsAreRelated, Mirrors, FallbacksExist
<1> DEFINE new == Lists!Fresh(Len(doc))
           n   == Len(doc)
           g   == Lists!FromJson(doc)
           o   == Lists!FromJsonDetached(doc)
<1>3. new \in [1 .. n -> ListIds] /\ \A i, j \in 1 .. n : new[i] = new[j] => i = j
  BY <1>1, <1>2, FreshIds DEF ListTypes
<1>4. /\ g = [i \in 1 .. n |-> [id |-> new[i], val |-> Lists!Decoded(doc[i]), set |-> doc[i] # NoValue]]
      /\ o = [i \in 1 .. n |-> [fb |-> None, val |-> Lists!Decoded(doc[i]), set |-> doc[i] # NoValue]]
  BY <1>1 DEF Lists!FromJson, Lists!FromJsonDetached
<1>5. \A i \in 1 .. n : Lists!Decoded(doc[i]) \in ListValues /\ (doc[i] # NoValue) \in BOOLEAN
  BY <1>1, ListsAssumption DEF Lists!Decoded
<1> SUFFICES /\ g \in Seq(GlobalElement) /\ Len(g) = n /\ Distinct(g) /\ Shows(g, doc)
             /\ o \in Seq(OverlayElement) /\ Len(o) = n /\ Shows(o, doc)
             /\ \A i \in 1 .. n : o[i].fb = None
  OBVIOUS
<1> HIDE DEF new, n, g, o
<1>6. \A i \in 1 .. n : /\ g[i] \in GlobalElement /\ o[i] \in OverlayElement
                        /\ g[i].id = new[i] /\ o[i].fb = None
                        /\ g[i].val = Lists!Decoded(doc[i]) /\ o[i].val = Lists!Decoded(doc[i])
  BY <1>3, <1>4, <1>5 DEF GlobalElement, OverlayElement, Lists!GlobalElements, Lists!OverlayElements
<1>7. g \in [1 .. n -> GlobalElement] /\ o \in [1 .. n -> OverlayElement] /\ n \in Nat
  BY <1>1, <1>4, <1>6 DEF n
<1>8. g \in Seq(GlobalElement) /\ o \in Seq(OverlayElement)
  BY <1>7, SeqDef
<1>9. Len(g) = n /\ Len(o) = n
  BY <1>7, <1>8, LenProperties
<1>10. Distinct(g)
  BY <1>3, <1>6, <1>9 DEF Distinct
<1>11. Shows(g, doc) /\ Shows(o, doc)
  BY <1>6, <1>9 DEF Shows, n
<1> QED BY <1>6, <1>8, <1>9, <1>10, <1>11

(* The elements of the default are not overridden.                         *)
LEMMA DefaultElements ==
  ASSUME ListTypes, ListsAreRelated
  PROVE  /\ Lists!FromProps(DefaultList) \in Seq(GlobalElement)
         /\ Len(Lists!FromProps(DefaultList)) = Len(DefaultList)
         /\ Distinct(Lists!FromProps(DefaultList)) /\ Shows(Lists!FromProps(DefaultList), DefaultList)
         /\ NoneSet(Lists!FromProps(DefaultList))
<1>1. /\ DefaultList \in Seq(ListValues) /\ Len(DefaultList) \in 0 .. MaxLen
      /\ DOMAIN DefaultList = 1 .. Len(DefaultList)
  BY BoundedSeqIs, ListsAssumption, LenProperties
<1>2. FallbacksExist
  BY LayersAre DEF ListTypes, ListsAreRelated, Mirrors, FallbacksExist
<1> DEFINE new == Lists!Fresh(Len(DefaultList))
           n   == Len(DefaultList)
           g   == Lists!FromProps(DefaultList)
<1>3. new \in [1 .. n -> ListIds] /\ \A i, j \in 1 .. n : new[i] = new[j] => i = j
  BY <1>1, <1>2, FreshIds DEF ListTypes
<1>4. g = [i \in 1 .. n |-> [id |-> new[i], val |-> DefaultList[i], set |-> FALSE]]
  BY <1>1 DEF Lists!FromProps
<1>5. \A i \in 1 .. n : DefaultList[i] \in ListValues /\ Lists!Decoded(DefaultList[i]) = DefaultList[i]
  BY <1>1, ListsAssumption DEF Lists!Decoded
<1> SUFFICES g \in Seq(GlobalElement) /\ Len(g) = n /\ Distinct(g) /\ Shows(g, DefaultList) /\ NoneSet(g)
  OBVIOUS
<1> HIDE DEF new, n, g
<1>6. \A i \in 1 .. n : /\ g[i] \in GlobalElement /\ g[i].id = new[i]
                        /\ g[i].val = Lists!Decoded(DefaultList[i]) /\ ~g[i].set
  BY <1>3, <1>4, <1>5 DEF GlobalElement, Lists!GlobalElements
<1>7. g \in [1 .. n -> GlobalElement] /\ n \in Nat
  BY <1>1, <1>4, <1>6 DEF n
<1>8. g \in Seq(GlobalElement)
  BY <1>7, SeqDef
<1>9. Len(g) = n
  BY <1>7, <1>8, LenProperties
<1> QED BY <1>3, <1>6, <1>8, <1>9 DEF Distinct, Shows, NoneSet, n

(* A new list of copies mirrors the list it copies.                        *)
LEMMA CopiesMirror ==
  ASSUME NEW g \in Seq(GlobalElement)
  PROVE  /\ Lists!Copies(g) \in Seq(OverlayElement) /\ Len(Lists!Copies(g)) = Len(g)
         /\ Mirrors(Lists!Copies(g), g) /\ NoneSet(Lists!Copies(g))
         /\ \A i \in 1 .. Len(g) : Lists!Copies(g)[i].val = g[i].val
<1> DEFINE n == Len(g)
           o == Lists!Copies(g)
<1>1. n \in Nat /\ DOMAIN g = 1 .. n /\ \A i \in 1 .. n : g[i] \in GlobalElement
  BY LenProperties
<1>2. o = [i \in 1 .. n |-> Lists!Copy(g[i])]
  BY <1>1 DEF Lists!Copies
<1> HIDE DEF o
<1>3. \A i \in 1 .. n : /\ o[i] \in OverlayElement
                        /\ o[i].fb = g[i].id /\ o[i].val = g[i].val /\ ~o[i].set
  BY <1>1, <1>2, CopyOfAnElement
<1>4. o \in [1 .. n -> OverlayElement]
  BY <1>2, <1>3
<1>5. o \in Seq(OverlayElement)
  BY <1>1, <1>4, SeqDef
<1>6. Len(o) = n
  BY <1>1, <1>4, <1>5, LenProperties
<1> QED BY <1>3, <1>5, <1>6 DEF Mirrors, NoneSet, o

(* Detached elements keep their values.                                    *)
LEMMA DetachedKeep ==
  ASSUME NEW s \in Seq(OverlayElement)
  PROVE  /\ Lists!Detached(s) \in Seq(OverlayElement) /\ Len(Lists!Detached(s)) = Len(s)
         /\ \A i \in 1 .. Len(s) : /\ Lists!Detached(s)[i].fb = None
                                   /\ Lists!Detached(s)[i].val = s[i].val
                                   /\ Lists!Detached(s)[i].set = s[i].set
<1> DEFINE n == Len(s)
           o == Lists!Detached(s)
<1>1. n \in Nat /\ DOMAIN s = 1 .. n /\ \A i \in 1 .. n : s[i] \in OverlayElement
  BY LenProperties
<1>2. o = [i \in 1 .. n |-> [s[i] EXCEPT !.fb = None]]
  BY <1>1 DEF Lists!Detached
<1> HIDE DEF o, n
<1>3. \A i \in 1 .. n : /\ o[i] \in OverlayElement
                        /\ o[i].fb = None /\ o[i].val = s[i].val /\ o[i].set = s[i].set
  BY <1>1, <1>2 DEF OverlayElement, Lists!OverlayElements
<1>4. o \in [1 .. n -> OverlayElement]
  BY <1>2, <1>3
<1>5. o \in Seq(OverlayElement)
  BY <1>1, <1>4, SeqDef
<1>6. Len(o) = n
  BY <1>1, <1>4, <1>5, LenProperties
<1> QED BY <1>3, <1>5, <1>6 DEF o, n

-----------------------------------------------------------------------------
\* A change of the global list that the overlay can follow.
GoodChange(g, removed, added, moved) ==
  /\ g \in Seq(GlobalElement) /\ Len(g) <= MaxLen /\ Distinct(g)
  /\ Mirrors(listOverlay, listGlobal) => Follows(Lists!Mirrored(g, removed, added, moved), g)

(* The overlay stays related to a global list that changes.                *)
LEMMA ChangeGlobalKeeps ==
  ASSUME ListInv, NEW g, NEW removed, NEW added, NEW moved, GoodChange(g, removed, added, moved),
         Lists!ChangeGlobal(g, removed, added, moved), listOver'["overlay"] = listOver["overlay"]
  PROVE  /\ listGlobal' = g
         /\ listGlobal' \in Seq(GlobalElement) /\ Len(listGlobal') <= MaxLen
         /\ listOverlay' \in Seq(OverlayElement) /\ Len(listOverlay') <= MaxLen
         /\ ListsAreRelated'
         /\ listOver["overlay"] => listOverlay' = listOverlay
         /\ NoContent("overlay") => NoContent("overlay")'
<1> DEFINE o == Lists!Mirrored(g, removed, added, moved)
<1>1. /\ listGlobal' = g /\ listOverlay' = IF listOver["overlay"] THEN listOverlay ELSE o
  BY DEF Lists!ChangeGlobal
<1> HIDE DEF o
<1>2. g \in Seq(GlobalElement) /\ Len(g) <= MaxLen /\ Distinct(g)
  BY DEF GoodChange
<1>3. CASE listOver["overlay"]
  <2>1. listOverlay' = listOverlay /\ listOver'["overlay"]
    BY <1>1, <1>3
  <2>2. ListsAreRelated'
    BY <1>1, <1>2, <1>3, <2>1 DEF ListInv, ListsAreRelated, Distinct
  <2> QED BY <1>1, <1>2, <1>3, <2>1, <2>2 DEF ListInv, ListTypes, NoContent
<1>4. CASE ~listOver["overlay"]
  <2>1. Follows(o, g)
    BY <1>4 DEF ListInv, ListsAreRelated, GoodChange, o
  <2>2. listOverlay' = o /\ ~listOver'["overlay"]
    BY <1>1, <1>4
  <2>3. /\ listOverlay' \in Seq(OverlayElement) /\ Mirrors(o, g)
        /\ NoneSet(listOverlay) => NoneSet(o)
    BY <2>1, <2>2 DEF Follows
  <2>4. ListsAreRelated'
    BY <1>1, <1>2, <2>2, <2>3 DEF ListsAreRelated, Distinct, Mirrors
  <2>5. NoContent("overlay") => NoContent("overlay")'
    BY <2>2, <2>3 DEF NoContent, NoneSet
  <2>6. Len(listOverlay') <= MaxLen
    BY <1>2, <2>2, <2>3 DEF Mirrors
  <2> QED BY <1>1, <1>2, <1>4, <2>3, <2>4, <2>5, <2>6
<1> QED BY <1>3, <1>4

(* An overlay that is written but in parts is the only one whose file      *)
(* does not follow.                                                        *)
LEMMA OverlayStaysFiled ==
  ASSUME ListInv,
         listOver'["overlay"] = listOver["overlay"], listFile'["overlay"] = listFile["overlay"],
         listDirty'["overlay"] = listDirty["overlay"],
         listOver["overlay"] => listOverlay' = listOverlay,
         NoContent("overlay") => NoContent("overlay")',
         "overlay" \in listBlame \cup Lists!FileStaysBehind => "overlay" \in listBlame'
  PROVE  OverlayIsFiled'
<1> SUFFICES ASSUME Clean("overlay")' PROVE OverlayIsFiled'
  BY DEF OverlayIsFiled
<1>1. Clean("overlay") /\ ~Lists!Partial
  BY DEF Clean, Lists!FileStaysBehind
<1>2. /\ listFile["overlay"] = None => NoContent("overlay")
      /\ listFile["overlay"] # None => ~NoContent("overlay") /\ Shows(listOverlay, listFile["overlay"])
  BY <1>1 DEF ListInv, OverlayIsFiled
<1>3. listOver["overlay"] \/ NoContent("overlay")
  <2>1. DOMAIN listOverlay = 1 .. Len(listOverlay)
    BY LenProperties DEF ListInv, ListTypes
  <2> QED BY <1>1, <2>1 DEF Lists!Partial, NoContent, NoneSet
<1>4. CASE NoContent("overlay")
  <2>1. NoContent("overlay")' /\ listFile'["overlay"] = None
    BY <1>2, <1>4
  <2> QED BY <2>1 DEF OverlayIsFiled
<1>5. CASE listOver["overlay"]
  <2>1. listOverlay' = listOverlay /\ listOver'["overlay"]
    BY <1>5
  <2>2. listFile["overlay"] # None /\ Shows(listOverlay, listFile["overlay"])
    BY <1>2, <1>5 DEF NoContent
  <2> QED BY <2>1, <2>2 DEF OverlayIsFiled, NoContent, Shows
<1> QED BY <1>3, <1>4, <1>5

(* What QML does to the global list, the overlay can follow.               *)
LEMMA EditsAreGood ==
  ASSUME ListInv,
         \/ \E i \in 1 .. Len(listGlobal) + 1, v \in ListValues : Lists!InsertElement(i, v)
         \/ \E i \in DOMAIN listGlobal : Lists!RemoveElement(i)
         \/ \E from, to \in DOMAIN listGlobal : Lists!MoveElement(from, to)
         \/ Lists!ClearList
  PROVE  \E g, removed, added, moved : /\ GoodChange(g, removed, added, moved)
                                       /\ Lists!ChangeGlobal(g, removed, added, moved)
<1>1. /\ listGlobal \in Seq(GlobalElement) /\ Len(listGlobal) <= MaxLen /\ Distinct(listGlobal)
      /\ listOverlay \in Seq(OverlayElement) /\ MaxLen \in Nat
      /\ DOMAIN listGlobal = 1 .. Len(listGlobal) /\ Len(listGlobal) \in Nat
  BY ListsAssumption, LenProperties DEF ListInv, ListTypes, ListsAreRelated
<1>2. ASSUME NEW i \in 1 .. Len(listGlobal) + 1, NEW v \in ListValues, Lists!InsertElement(i, v)
      PROVE  \E g, removed, added, moved : /\ GoodChange(g, removed, added, moved)
                                           /\ Lists!ChangeGlobal(g, removed, added, moved)
  <2> DEFINE e == [id |-> Lists!Fresh(1)[1], val |-> v, set |-> FALSE]
             g == Lists!InsertAt(listGlobal, i, e)
  <2>1. Len(listGlobal) < MaxLen /\ Lists!ChangeGlobal(g, Lists!NoRun, <<i, i>>, <<>>)
    BY <1>2 DEF Lists!InsertElement
  <2>2. FallbacksExist
    BY LayersAre DEF ListInv, ListTypes, ListsAreRelated, Mirrors, FallbacksExist
  <2>3. 1 \in 0 .. MaxLen
    BY <1>1, <2>1
  <2>4. /\ Lists!Fresh(1)[1] \in ListIds
        /\ \A j \in 1 .. Len(listGlobal) : Lists!Fresh(1)[1] # listGlobal[j].id
    BY <1>1, <2>2, <2>3, FreshIds
  <2>5. e \in GlobalElement /\ \A j \in 1 .. Len(listGlobal) : listGlobal[j].id # e.id
    BY <2>4 DEF GlobalElement, Lists!GlobalElements
  <2> HIDE DEF e
  <2>6. /\ g \in Seq(GlobalElement) /\ Len(g) = Len(listGlobal) + 1 /\ Distinct(g)
        /\ Mirrors(listOverlay, listGlobal)
             => Follows(Lists!Mirrored(g, Lists!NoRun, <<i, i>>, <<>>), g)
    BY <1>1, <2>5, InsertFollows
  <2> HIDE DEF g
  <2>7. GoodChange(g, Lists!NoRun, <<i, i>>, <<>>)
    BY <1>1, <2>1, <2>6 DEF GoodChange
  <2> QED BY <2>1, <2>7
<1>3. ASSUME NEW i \in DOMAIN listGlobal, Lists!RemoveElement(i)
      PROVE  \E g, removed, added, moved : /\ GoodChange(g, removed, added, moved)
                                           /\ Lists!ChangeGlobal(g, removed, added, moved)
  <2> DEFINE g == Lists!RemoveAt(listGlobal, i)
  <2>1. Lists!ChangeGlobal(g, <<i, i>>, Lists!NoRun, <<>>) /\ i \in 1 .. Len(listGlobal)
    BY <1>1, <1>3 DEF Lists!RemoveElement
  <2>2. /\ g \in Seq(GlobalElement) /\ Len(g) = Len(listGlobal) - 1 /\ Distinct(g)
        /\ Mirrors(listOverlay, listGlobal)
             => Follows(Lists!Mirrored(g, <<i, i>>, Lists!NoRun, <<>>), g)
    BY <1>1, <2>1, RemoveFollows
  <2> HIDE DEF g
  <2>3. GoodChange(g, <<i, i>>, Lists!NoRun, <<>>)
    BY <1>1, <2>2 DEF GoodChange
  <2> QED BY <2>1, <2>3
<1>4. ASSUME NEW from \in DOMAIN listGlobal, NEW to \in DOMAIN listGlobal, Lists!MoveElement(from, to)
      PROVE  \E g, removed, added, moved : /\ GoodChange(g, removed, added, moved)
                                           /\ Lists!ChangeGlobal(g, removed, added, moved)
  <2> DEFINE g == Lists!Moved(listGlobal, from, to)
  <2>1. /\ Lists!ChangeGlobal(g, Lists!NoRun, Lists!NoRun, <<from, to>>)
        /\ from \in 1 .. Len(listGlobal) /\ to \in 1 .. Len(listGlobal)
    BY <1>1, <1>4 DEF Lists!MoveElement
  <2>2. /\ g \in Seq(GlobalElement) /\ Len(g) = Len(listGlobal) /\ Distinct(g)
        /\ Mirrors(listOverlay, listGlobal)
             => Follows(Lists!Mirrored(g, Lists!NoRun, Lists!NoRun, <<from, to>>), g)
    BY <1>1, <2>1, MoveFollows
  <2> HIDE DEF g
  <2>3. GoodChange(g, Lists!NoRun, Lists!NoRun, <<from, to>>)
    BY <1>1, <2>2 DEF GoodChange
  <2> QED BY <2>1, <2>3
<1>5. ASSUME Lists!ClearList
      PROVE  \E g, removed, added, moved : /\ GoodChange(g, removed, added, moved)
                                           /\ Lists!ChangeGlobal(g, removed, added, moved)
  <2>1. Lists!ChangeGlobal(<<>>, Lists!All(listGlobal), Lists!NoRun, <<>>)
    BY <1>5 DEF Lists!ClearList
  <2>2. <<>> \in Seq(GlobalElement) /\ Len(<<>>) = 0
    OBVIOUS
  <2>3. Mirrors(listOverlay, listGlobal)
          => Follows(Lists!Mirrored(<<>>, <<1, Len(listGlobal)>>, <<1, Len(<<>>)>>, <<>>), <<>>)
    BY <1>1, <2>2, ReplaceFollows
  <2>4. Lists!All(listGlobal) = <<1, Len(listGlobal)>> /\ Lists!NoRun = <<1, Len(<<>>)>>
    BY <2>2 DEF Lists!All, Lists!NoRun
  <2>5. GoodChange(<<>>, Lists!All(listGlobal), Lists!NoRun, <<>>)
    BY <1>1, <2>2, <2>3, <2>4 DEF GoodChange, Distinct
  <2> QED BY <2>1, <2>5
<1> QED BY <1>2, <1>3, <1>4, <1>5

(* What QML does to the global list makes it an override that is dirty.    *)
LEMMA EditGlobalKeeps == ListInv /\ Lists!EditGlobal => ListInv'
<1> SUFFICES ASSUME ListInv, Lists!EditGlobal PROVE ListInv'
  OBVIOUS
<1>1. /\ listChanges < MaxListChanges /\ listChanges' = listChanges + 1
      /\ listOver' = [listOver EXCEPT !["global"] = TRUE]
      /\ listDirty' = [listDirty EXCEPT !["global"] = @ \/ TRUE]
      /\ listBlame' = listBlame \cup Lists!FileStaysBehind
      /\ listFile' = listFile
  BY DEF Lists!EditGlobal, Lists!Change, Lists!Override, Lists!MarkDirty
<1>2. PICK g, removed, added, moved : /\ GoodChange(g, removed, added, moved)
                                      /\ Lists!ChangeGlobal(g, removed, added, moved)
  BY EditsAreGood DEF Lists!EditGlobal
<1>3. /\ listOver' \in [Lists!Layers -> BOOLEAN] /\ listOver'["global"]
      /\ listOver'["overlay"] = listOver["overlay"]
      /\ listDirty' \in [Lists!Layers -> BOOLEAN] /\ listDirty'["global"]
      /\ listDirty'["overlay"] = listDirty["overlay"]
      /\ listBlame' \subseteq Lists!Layers
  BY <1>1, LayersAre DEF ListInv, ListTypes, Lists!FileStaysBehind
<1>4. /\ listGlobal' \in Seq(GlobalElement) /\ Len(listGlobal') <= MaxLen
      /\ listOverlay' \in Seq(OverlayElement) /\ Len(listOverlay') <= MaxLen
      /\ ListsAreRelated'
      /\ listOver["overlay"] => listOverlay' = listOverlay
      /\ NoContent("overlay") => NoContent("overlay")'
  BY <1>2, <1>3, ChangeGlobalKeeps
<1>5. ListTypes'
  <2>1. listChanges' \in 0 .. MaxListChanges
    BY <1>1, ListsAssumption DEF ListInv, ListTypes
  <2>2. listFile' \in [Lists!Layers -> {None} \cup BoundedSeq(ListValues \cup {NoValue}, MaxLen)]
    BY <1>1 DEF ListInv, ListTypes
  <2> QED BY <1>3, <1>4, <2>1, <2>2 DEF ListTypes
<1>6. OverlayIsFiled'
  BY <1>1, <1>3, <1>4, OverlayStaysFiled
<1>7. DefaultIsKept' /\ GlobalIsFiled'
  BY <1>3 DEF DefaultIsKept, GlobalIsFiled, NoContent, Clean
<1> QED BY <1>4, <1>5, <1>6, <1>7 DEF ListInv

(* What QML does to the list of the overlay detaches it.                   *)
LEMMA EditOverlayKeeps == ListInv /\ Lists!EditOverlay => ListInv'
<1> SUFFICES ASSUME ListInv, Lists!EditOverlay PROVE ListInv'
  OBVIOUS
<1>1. /\ listChanges < MaxListChanges /\ listChanges' = listChanges + 1
      /\ listOver' = [listOver EXCEPT !["overlay"] = TRUE]
      /\ listDirty' = [listDirty EXCEPT !["overlay"] = @ \/ TRUE]
      /\ UNCHANGED <<listGlobal, listFile, listBlame>>
  BY DEF Lists!EditOverlay, Lists!Change, Lists!Override, Lists!MarkDirty
<1>2. /\ listOverlay \in Seq(OverlayElement) /\ Len(listOverlay) <= MaxLen /\ MaxLen \in Nat
      /\ DOMAIN listOverlay = 1 .. Len(listOverlay) /\ Len(listOverlay) \in Nat
  BY ListsAssumption, LenProperties DEF ListInv, ListTypes
<1> DEFINE IsDetached(o) == /\ o \in Seq(OverlayElement) /\ Len(o) <= MaxLen
                            /\ \A k \in 1 .. Len(o) : o[k].fb = None
<1>3. ASSUME NEW i \in 1 .. Len(listOverlay) + 1, NEW v \in ListValues, Len(listOverlay) < MaxLen,
             listOverlay' = Lists!Detached(Lists!InsertAt(listOverlay, i, [fb |-> None, val |-> v, set |-> FALSE]))
      PROVE  IsDetached(listOverlay')
  <2> DEFINE e == [fb |-> None, val |-> v, set |-> FALSE]
             o == Lists!InsertAt(listOverlay, i, e)
  <2>1. e \in OverlayElement
    BY DEF OverlayElement, Lists!OverlayElements
  <2>2. listOverlay' = Lists!Detached(o) /\ Len(listOverlay) < MaxLen
    BY <1>3
  <2> HIDE DEF e
  <2>3. o \in Seq(OverlayElement) /\ Len(o) = Len(listOverlay) + 1
    BY <1>2, <2>1, InsertedPlaces
  <2> HIDE DEF o
  <2>4. Len(o) <= MaxLen
    BY <1>2, <2>2, <2>3
  <2>5. /\ Lists!Detached(o) \in Seq(OverlayElement) /\ Len(Lists!Detached(o)) = Len(o)
        /\ \A k \in 1 .. Len(o) : Lists!Detached(o)[k].fb = None
    BY <2>3, DetachedKeep
  <2> QED BY <2>2, <2>4, <2>5
<1>4. ASSUME NEW i \in 1 .. Len(listOverlay),
             listOverlay' = Lists!Detached(Lists!RemoveAt(listOverlay, i))
      PROVE  IsDetached(listOverlay')
  <2> DEFINE o == Lists!RemoveAt(listOverlay, i)
  <2>1. o \in Seq(OverlayElement) /\ Len(o) = Len(listOverlay) - 1
    BY <1>2, RemovedPlaces
  <2> HIDE DEF o
  <2>2. listOverlay' = Lists!Detached(o)
    BY <1>4 DEF o
  <2> QED BY <1>2, <2>1, <2>2, DetachedKeep
<1>5. ASSUME NEW from \in 1 .. Len(listOverlay), NEW to \in 1 .. Len(listOverlay),
             listOverlay' = Lists!Detached(Lists!Moved(listOverlay, from, to))
      PROVE  IsDetached(listOverlay')
  <2> DEFINE o == Lists!Moved(listOverlay, from, to)
  <2>1. o \in Seq(OverlayElement) /\ Len(o) = Len(listOverlay)
    BY <1>2, MovedPlaces
  <2> HIDE DEF o
  <2>2. listOverlay' = Lists!Detached(o)
    BY <1>5 DEF o
  <2> QED BY <1>2, <2>1, <2>2, DetachedKeep
<1>6. ASSUME listOverlay' = <<>> PROVE IsDetached(listOverlay')
  BY <1>2, <1>6
<1>7. IsDetached(listOverlay')
  <2> HIDE DEF IsDetached
  <2> QED BY <1>2, <1>3, <1>4, <1>5, <1>6 DEF Lists!EditOverlay
<1>8. /\ listOver' \in [Lists!Layers -> BOOLEAN] /\ listOver'["overlay"]
      /\ listOver'["global"] = listOver["global"]
      /\ listDirty' \in [Lists!Layers -> BOOLEAN] /\ listDirty'["overlay"]
      /\ listDirty'["global"] = listDirty["global"]
  BY <1>1, LayersAre DEF ListInv, ListTypes
<1>9. ListTypes'
  <2>1. listChanges' \in 0 .. MaxListChanges
    BY <1>1, ListsAssumption DEF ListInv, ListTypes
  <2> QED BY <1>1, <1>7, <1>8, <2>1 DEF ListInv, ListTypes
<1>10. ListsAreRelated'
  BY <1>1, <1>7, <1>8 DEF ListInv, ListsAreRelated, Distinct
<1>11. DefaultIsKept' /\ GlobalIsFiled'
  BY <1>1, <1>8 DEF ListInv, DefaultIsKept, GlobalIsFiled, NoContent, NoneSet, Clean, Shows
<1>12. OverlayIsFiled'
  BY <1>8 DEF OverlayIsFiled, Clean
<1> QED BY <1>9, <1>10, <1>11, <1>12 DEF ListInv

(* A call that changes nothing makes the list an override all the same.    *)
LEMMA EditNothingKeeps ==
  ASSUME ListInv, NEW L \in Lists!Layers, Lists!EditNothing(L)
  PROVE  ListInv'
<1>1. /\ listChanges < MaxListChanges /\ listChanges' = listChanges + 1
      /\ listOver' = [listOver EXCEPT ![L] = TRUE]
      /\ listDirty' = [listDirty EXCEPT ![L] = @ \/ ~listOver[L]]
      /\ listOverlay' = IF L = "overlay" THEN Lists!Detached(listOverlay) ELSE listOverlay
      /\ UNCHANGED <<listGlobal, listFile, listBlame>>
  BY DEF Lists!EditNothing, Lists!Change, Lists!Override, Lists!MarkDirty
<1>2. /\ listOverlay \in Seq(OverlayElement)
      /\ listOver \in [Lists!Layers -> BOOLEAN] /\ listDirty \in [Lists!Layers -> BOOLEAN]
  BY DEF ListInv, ListTypes
<1>3. /\ listOverlay' \in Seq(OverlayElement) /\ Len(listOverlay') = Len(listOverlay)
      /\ \A i \in 1 .. Len(listOverlay) :
           /\ listOverlay'[i].val = listOverlay[i].val /\ listOverlay'[i].set = listOverlay[i].set
           /\ L = "overlay" => listOverlay'[i].fb = None
  BY <1>1, <1>2, DetachedKeep
<1>4. /\ listOver' \in [Lists!Layers -> BOOLEAN] /\ listDirty' \in [Lists!Layers -> BOOLEAN]
      /\ listOver'[L] /\ (~listOver[L] => listDirty'[L]) /\ (listDirty[L] => listDirty'[L])
      /\ \A M \in Lists!Layers : M # L => listOver'[M] = listOver[M] /\ listDirty'[M] = listDirty[M]
  BY <1>1, <1>2
<1>5. ListTypes'
  <2>1. listChanges' \in 0 .. MaxListChanges
    BY <1>1, ListsAssumption DEF ListInv, ListTypes
  <2> QED BY <1>1, <1>3, <1>4, <2>1 DEF ListInv, ListTypes
<1>6. CASE L = "global"
  <2>1. listOverlay' = listOverlay /\ listOver'["overlay"] = listOver["overlay"]
        /\ listDirty'["overlay"] = listDirty["overlay"]
    BY <1>1, <1>4, <1>6, LayersAre
  <2>2. ListsAreRelated'
    BY <1>1, <2>1 DEF ListInv, ListsAreRelated, Distinct, Mirrors
  <2>3. OverlayIsFiled'
    BY <1>1, <2>1 DEF ListInv, OverlayIsFiled, NoContent, NoneSet, Clean, Shows
  <2>4. DefaultIsKept'
    BY <1>4, <1>6 DEF DefaultIsKept, NoContent
  <2>5. GlobalIsFiled'
    <3> SUFFICES ASSUME Clean("global")' PROVE GlobalIsFiled'
      BY DEF GlobalIsFiled
    <3>1. Clean("global") /\ listOver["global"]
      BY <1>1, <1>4, <1>6 DEF Clean
    <3>2. listFile["global"] # None /\ Shows(listGlobal, listFile["global"])
      BY <3>1 DEF ListInv, GlobalIsFiled, NoContent
    <3> QED BY <1>1, <3>2 DEF GlobalIsFiled, Shows
  <2> QED BY <1>5, <2>2, <2>3, <2>4, <2>5 DEF ListInv
<1>7. CASE L = "overlay"
  <2>1. listOver'["global"] = listOver["global"] /\ listDirty'["global"] = listDirty["global"]
    BY <1>4, <1>7, LayersAre
  <2>2. ListsAreRelated'
    BY <1>1, <1>3, <1>4, <1>7 DEF ListInv, ListsAreRelated, Distinct
  <2>3. DefaultIsKept' /\ GlobalIsFiled'
    BY <1>1, <2>1 DEF ListInv, DefaultIsKept, GlobalIsFiled, NoContent, NoneSet, Clean, Shows
  <2>4. OverlayIsFiled'
    <3> SUFFICES ASSUME Clean("overlay")' PROVE OverlayIsFiled'
      BY DEF OverlayIsFiled
    <3>1. Clean("overlay") /\ listOver["overlay"]
      BY <1>1, <1>4, <1>7 DEF Clean
    <3>2. listFile["overlay"] # None /\ Shows(listOverlay, listFile["overlay"])
      BY <3>1 DEF ListInv, OverlayIsFiled, NoContent
    <3> QED BY <1>1, <1>3, <1>4, <1>7, <3>2 DEF OverlayIsFiled, NoContent, Shows
  <2> QED BY <1>5, <2>2, <2>3, <2>4 DEF ListInv
<1> QED BY <1>6, <1>7, LayersAre

(* An element of the global list is written: its counterpart follows.      *)
LEMMA WriteGlobalKeeps ==
  ASSUME ListInv, NEW i \in DOMAIN listGlobal, NEW v \in ListValues, Lists!WriteGlobalElement(i, v)
  PROVE  ListInv'
<1> DEFINE n == Len(listGlobal)
           m == Len(listOverlay)
<1>1. /\ listChanges < MaxListChanges /\ listChanges' = listChanges + 1
      /\ listGlobal' = [listGlobal EXCEPT ![i].val = v, ![i].set = TRUE]
      /\ listOverlay' = [j \in DOMAIN listOverlay |->
           IF listOverlay[j].fb = listGlobal[i].id /\ ~listOverlay[j].set
           THEN [listOverlay[j] EXCEPT !.val = v] ELSE listOverlay[j]]
      /\ listDirty' = [listDirty EXCEPT !["global"] = @ \/ (v # listGlobal[i].val \/ ~listGlobal[i].set)]
      /\ listBlame' = IF v = listGlobal[i].val THEN listBlame ELSE listBlame \cup Lists!FileStaysBehind
      /\ UNCHANGED <<listOver, listFile>>
  BY DEF Lists!WriteGlobalElement, Lists!Change, Lists!MarkDirty
<1>2. /\ n \in Nat /\ DOMAIN listGlobal = 1 .. n /\ n <= MaxLen
      /\ m \in Nat /\ DOMAIN listOverlay = 1 .. m /\ m <= MaxLen
      /\ \A j \in 1 .. n : listGlobal[j] \in GlobalElement
      /\ \A j \in 1 .. m : listOverlay[j] \in OverlayElement
      /\ listGlobal \in Seq(GlobalElement) /\ listOverlay \in Seq(OverlayElement)
  BY LenProperties DEF ListInv, ListTypes
<1>3. /\ listGlobal' \in Seq(GlobalElement) /\ Len(listGlobal') = n
      /\ \A j \in 1 .. n : /\ listGlobal'[j].id = listGlobal[j].id
                           /\ listGlobal'[j].val = IF j = i THEN v ELSE listGlobal[j].val
                           /\ listGlobal'[j].set <=> (j = i \/ listGlobal[j].set)
  <2> DEFINE e == [[listGlobal[i] EXCEPT !.val = v] EXCEPT !.set = TRUE]
  <2>1. listGlobal' = [listGlobal EXCEPT ![i] = e]
    BY <1>1, <1>2
  <2>2. i \in 1 .. n /\ e \in GlobalElement /\ e.id = listGlobal[i].id /\ e.val = v /\ e.set
    BY <1>2 DEF GlobalElement, Lists!GlobalElements
  <2> HIDE DEF e
  <2>3. listGlobal' \in Seq(GlobalElement) /\ Len(listGlobal') = n
    BY <1>2, <2>1, <2>2, ExceptSeq
  <2>4. \A j \in 1 .. n : listGlobal'[j] = IF j = i THEN e ELSE listGlobal[j]
    BY <1>2, <2>1
  <2> QED BY <2>2, <2>3, <2>4
<1>4. /\ listOverlay' \in Seq(OverlayElement) /\ Len(listOverlay') = m
      /\ \A j \in 1 .. m :
           /\ listOverlay'[j].fb = listOverlay[j].fb
           /\ listOverlay'[j].set = listOverlay[j].set
           /\ listOverlay'[j].val = IF listOverlay[j].fb = listGlobal[i].id /\ ~listOverlay[j].set
                                    THEN v ELSE listOverlay[j].val
  <2>1. \A j \in 1 .. m :
          /\ listOverlay'[j] \in OverlayElement
          /\ listOverlay'[j].fb = listOverlay[j].fb
          /\ listOverlay'[j].set = listOverlay[j].set
          /\ listOverlay'[j].val = IF listOverlay[j].fb = listGlobal[i].id /\ ~listOverlay[j].set
                                   THEN v ELSE listOverlay[j].val
    BY <1>1, <1>2 DEF OverlayElement, Lists!OverlayElements
  <2>2. listOverlay' \in [1 .. m -> OverlayElement]
    BY <1>1, <1>2, <2>1
  <2>3. listOverlay' \in Seq(OverlayElement)
    BY <1>2, <2>2, SeqDef
  <2> QED BY <1>2, <2>1, <2>2, <2>3, LenProperties
<1>5. /\ listDirty' \in [Lists!Layers -> BOOLEAN]
      /\ v # listGlobal[i].val \/ ~listGlobal[i].set => listDirty'["global"]
      /\ listDirty["global"] => listDirty'["global"]
      /\ listDirty'["overlay"] = listDirty["overlay"]
  BY <1>1, LayersAre DEF ListInv, ListTypes
<1>6. ListTypes'
  <2>1. listChanges' \in 0 .. MaxListChanges
    BY <1>1, ListsAssumption DEF ListInv, ListTypes
  <2>2. listBlame' \subseteq Lists!Layers
    BY <1>1, LayersAre DEF ListInv, ListTypes, Lists!FileStaysBehind
  <2>3. listOver' \in [Lists!Layers -> BOOLEAN]
        /\ listFile' \in [Lists!Layers -> {None} \cup BoundedSeq(ListValues \cup {NoValue}, MaxLen)]
    BY <1>1 DEF ListInv, ListTypes
  <2> QED BY <1>2, <1>3, <1>4, <1>5, <2>1, <2>2, <2>3 DEF ListTypes
<1>i. i \in 1 .. n
  BY <1>2
<1>d. Distinct(listGlobal) /\ (~listOver["overlay"] => Mirrors(listOverlay, listGlobal))
  BY DEF ListInv, ListsAreRelated
<1> HIDE DEF n, m
<1>7. ListsAreRelated'
  <2>1. Distinct(listGlobal')
    BY <1>3, <1>d DEF Distinct, n
  <2>2. ASSUME ~listOver["overlay"] PROVE Mirrors(listOverlay', listGlobal')
    <3>1. m = n /\ \A j \in 1 .. m : /\ listOverlay[j].fb = listGlobal[j].id
                                     /\ ~listOverlay[j].set => listOverlay[j].val = listGlobal[j].val
      BY <1>d, <2>2 DEF Mirrors, m, n
    <3>2. ASSUME NEW j \in 1 .. m
          PROVE  /\ listOverlay'[j].fb = listGlobal'[j].id
                 /\ ~listOverlay'[j].set => listOverlay'[j].val = listGlobal'[j].val
      <4>1. CASE j = i
        BY <1>3, <1>4, <3>1, <4>1
      <4>2. CASE j # i
        <5>1. listOverlay[j].fb # listGlobal[i].id
          BY <1>d, <1>i, <3>1, <4>2 DEF Distinct, n
        <5> QED BY <1>3, <1>4, <3>1, <4>2, <5>1
      <4> QED BY <4>1, <4>2
    <3> QED BY <1>3, <1>4, <3>1, <3>2 DEF Mirrors
  <2>3. listOver["overlay"] => \A j \in 1 .. m : listOverlay'[j].fb = None
    BY <1>4 DEF ListInv, ListsAreRelated, m
  <2> QED BY <1>1, <1>4, <2>1, <2>2, <2>3 DEF ListsAreRelated, Distinct, Mirrors
<1>8. ~NoContent("global")'
  BY <1>3, <1>i DEF NoContent, NoneSet
<1>9. GlobalIsFiled'
  <2> SUFFICES ASSUME Clean("global")' PROVE GlobalIsFiled'
    BY DEF GlobalIsFiled
  <2>1. v = listGlobal[i].val /\ listGlobal[i].set /\ Clean("global")
    BY <1>1, <1>5 DEF Clean
  <2>2. ~NoContent("global")
    BY <1>i, <2>1 DEF NoContent, NoneSet, n
  <2>3. listFile["global"] # None /\ Shows(listGlobal, listFile["global"])
    BY <2>1, <2>2 DEF ListInv, GlobalIsFiled
  <2> QED BY <1>1, <1>3, <2>1, <2>3 DEF GlobalIsFiled, Shows, n
<1>10. listOver["overlay"] \/ v = listGlobal[i].val
         => \A j \in 1 .. m : listOverlay'[j].val = listOverlay[j].val
  <2>1. CASE listOver["overlay"]
    <3>1. listGlobal[i].id # None
      BY <1>2, <1>i, ListsAssumption DEF GlobalElement, Lists!GlobalElements
    <3> QED BY <1>4, <2>1, <3>1 DEF ListInv, ListsAreRelated, m
  <2>2. CASE ~listOver["overlay"] /\ v = listGlobal[i].val
    <3>1. m = n /\ \A j \in 1 .. m : /\ listOverlay[j].fb = listGlobal[j].id
                                     /\ ~listOverlay[j].set => listOverlay[j].val = listGlobal[j].val
      BY <1>d, <2>2 DEF Mirrors, m, n
    <3> QED BY <1>4, <1>d, <1>i, <2>2, <3>1 DEF Distinct, n
  <2> QED BY <2>1, <2>2
<1>11. OverlayIsFiled'
  <2>1. NoContent("overlay")' <=> NoContent("overlay")
    BY <1>1, <1>4 DEF NoContent, NoneSet, m
  <2>2. CASE listOver["overlay"] \/ v = listGlobal[i].val
    <3>1. listBlame \subseteq listBlame'
      BY <1>1
    <3>2. Clean("overlay")' => Clean("overlay")
      BY <1>5, <3>1 DEF Clean
    <3>3. \A doc : Shows(listOverlay, doc) => Shows(listOverlay, doc)'
      BY <1>4, <1>10, <2>2 DEF Shows, m
    <3>4. listFile' = listFile /\ OverlayIsFiled
      BY <1>1 DEF ListInv
    <3> QED BY <1>4, <1>10, <2>1, <2>2, <3>2, <3>4 DEF OverlayIsFiled, Shows, m
  <2>3. CASE ~listOver["overlay"] /\ v # listGlobal[i].val
    <3>1. listBlame' = listBlame \cup Lists!FileStaysBehind
      BY <1>1, <2>3
    <3> QED BY <1>1, <1>5, <2>1, <2>3, <3>1, OverlayStaysFiled
  <2> QED BY <2>2, <2>3
<1> QED BY <1>6, <1>7, <1>8, <1>9, <1>11 DEF ListInv, DefaultIsKept

(* An element of the overlay is written.                                   *)
LEMMA WriteOverlayKeeps ==
  ASSUME ListInv, NEW i \in DOMAIN listOverlay, NEW v \in ListValues, Lists!WriteOverlayElement(i, v)
  PROVE  ListInv'
<1> DEFINE m == Len(listOverlay)
<1>1. /\ listChanges < MaxListChanges /\ listChanges' = listChanges + 1
      /\ listOverlay' = [listOverlay EXCEPT ![i].val = v, ![i].set = TRUE]
      /\ listDirty' = [listDirty EXCEPT !["overlay"] = @ \/ (v # listOverlay[i].val \/ ~listOverlay[i].set)]
      /\ UNCHANGED <<listGlobal, listOver, listFile, listBlame>>
  BY DEF Lists!WriteOverlayElement, Lists!Change, Lists!MarkDirty
<1>2. /\ m \in Nat /\ DOMAIN listOverlay = 1 .. m /\ m <= MaxLen
      /\ \A j \in 1 .. m : listOverlay[j] \in OverlayElement
      /\ listOverlay \in Seq(OverlayElement)
  BY LenProperties DEF ListInv, ListTypes
<1>3. /\ listOverlay' \in Seq(OverlayElement) /\ Len(listOverlay') = m
      /\ \A j \in 1 .. m : /\ listOverlay'[j].fb = listOverlay[j].fb
                           /\ listOverlay'[j].val = IF j = i THEN v ELSE listOverlay[j].val
                           /\ listOverlay'[j].set <=> (j = i \/ listOverlay[j].set)
  <2> DEFINE e == [[listOverlay[i] EXCEPT !.val = v] EXCEPT !.set = TRUE]
  <2>1. listOverlay' = [listOverlay EXCEPT ![i] = e]
    BY <1>1, <1>2
  <2>2. i \in 1 .. m /\ e \in OverlayElement /\ e.fb = listOverlay[i].fb /\ e.val = v /\ e.set
    BY <1>2 DEF OverlayElement, Lists!OverlayElements
  <2> HIDE DEF e
  <2>3. listOverlay' \in Seq(OverlayElement) /\ Len(listOverlay') = m
    BY <1>2, <2>1, <2>2, ExceptSeq
  <2>4. \A j \in 1 .. m : listOverlay'[j] = IF j = i THEN e ELSE listOverlay[j]
    BY <1>2, <2>1
  <2> QED BY <2>2, <2>3, <2>4
<1>4. /\ listDirty' \in [Lists!Layers -> BOOLEAN]
      /\ v # listOverlay[i].val \/ ~listOverlay[i].set => listDirty'["overlay"]
      /\ listDirty["overlay"] => listDirty'["overlay"]
      /\ listDirty'["global"] = listDirty["global"]
  BY <1>1, LayersAre DEF ListInv, ListTypes
<1>5. ListTypes'
  <2>1. listChanges' \in 0 .. MaxListChanges
    BY <1>1, ListsAssumption DEF ListInv, ListTypes
  <2> QED BY <1>1, <1>2, <1>3, <1>4, <2>1 DEF ListInv, ListTypes
<1>i. i \in 1 .. m
  BY <1>2
<1> HIDE DEF m
<1>6. ListsAreRelated'
  BY <1>1, <1>3 DEF ListInv, ListsAreRelated, Distinct, Mirrors, m
<1>7. DefaultIsKept' /\ GlobalIsFiled'
  BY <1>1, <1>4 DEF ListInv, DefaultIsKept, GlobalIsFiled, NoContent, NoneSet, Clean, Shows
<1>8. OverlayIsFiled'
  <2> SUFFICES ASSUME Clean("overlay")' PROVE OverlayIsFiled'
    BY DEF OverlayIsFiled
  <2>1. v = listOverlay[i].val /\ listOverlay[i].set /\ Clean("overlay")
    BY <1>1, <1>4 DEF Clean
  <2>2. ~NoContent("overlay")
    BY <1>i, <2>1 DEF NoContent, NoneSet, m
  <2>3. listFile["overlay"] # None /\ Shows(listOverlay, listFile["overlay"])
    BY <2>1, <2>2 DEF ListInv, OverlayIsFiled
  <2>4. ~NoContent("overlay")'
    BY <1>3, <1>i DEF NoContent, NoneSet
  <2> QED BY <1>1, <1>3, <2>1, <2>3, <2>4 DEF OverlayIsFiled, Shows, m
<1> QED BY <1>5, <1>6, <1>7, <1>8 DEF ListInv

(* The global list is replaced by another: a reset, or a file.             *)
LEMMA ReplaceGlobalKeeps ==
  ASSUME ListInv, NEW g, g \in Seq(GlobalElement), Len(g) <= MaxLen, Distinct(g),
         NEW doc, Len(doc) = Len(g),
         Lists!ChangeGlobal(g, Lists!All(listGlobal), Lists!All(doc), <<>>),
         NEW b \in BOOLEAN, listOver' = [listOver EXCEPT !["global"] = b],
         listDirty' = listDirty, listChanges' \in 0 .. MaxListChanges,
         listFile' \in [Lists!Layers -> {None} \cup BoundedSeq(ListValues \cup {NoValue}, MaxLen)],
         listFile'["overlay"] = listFile["overlay"], listBlame' \subseteq Lists!Layers,
         "overlay" \in listBlame \cup Lists!FileStaysBehind => "overlay" \in listBlame'
  PROVE  /\ ListTypes' /\ ListsAreRelated' /\ OverlayIsFiled'
         /\ listGlobal' = g /\ listOver'["global"] = b
<1> DEFINE removed == <<1, Len(listGlobal)>>
           added   == <<1, Len(g)>>
<1>1. Lists!All(listGlobal) = removed /\ Lists!All(doc) = added
  BY DEF Lists!All
<1>2. listOverlay \in Seq(OverlayElement)
  BY DEF ListInv, ListTypes
<1>3. Mirrors(listOverlay, listGlobal) => Follows(Lists!Mirrored(g, removed, added, <<>>), g)
  BY <1>2, ReplaceFollows
<1> HIDE DEF removed, added
<1>4. GoodChange(g, removed, added, <<>>) /\ Lists!ChangeGlobal(g, removed, added, <<>>)
  BY <1>1, <1>3 DEF GoodChange
<1>5. /\ listOver' \in [Lists!Layers -> BOOLEAN] /\ listOver'["global"] = b
      /\ listOver'["overlay"] = listOver["overlay"]
      /\ listDirty \in [Lists!Layers -> BOOLEAN]
  BY LayersAre DEF ListInv, ListTypes
<1>6. /\ listGlobal' = g
      /\ listGlobal' \in Seq(GlobalElement) /\ Len(listGlobal') <= MaxLen
      /\ listOverlay' \in Seq(OverlayElement) /\ Len(listOverlay') <= MaxLen
      /\ ListsAreRelated'
      /\ listOver["overlay"] => listOverlay' = listOverlay
      /\ NoContent("overlay") => NoContent("overlay")'
  BY <1>4, <1>5, ChangeGlobalKeeps
<1>7. ListTypes'
  BY <1>5, <1>6 DEF ListTypes
<1>8. OverlayIsFiled'
  BY <1>5, <1>6, OverlayStaysFiled
<1> QED BY <1>5, <1>6, <1>7, <1>8

(* The list of the overlay is replaced.                                    *)
LEMMA ReplaceOverlayKeeps ==
  ASSUME ListInv, listOverlay' \in Seq(OverlayElement), Len(listOverlay') <= MaxLen,
         listGlobal' = listGlobal,
         NEW b \in BOOLEAN, listOver' = [listOver EXCEPT !["overlay"] = b],
         b => \A i \in 1 .. Len(listOverlay') : listOverlay'[i].fb = None,
         ~b => Mirrors(listOverlay', listGlobal),
         listDirty' = listDirty, listChanges' \in 0 .. MaxListChanges,
         listFile' \in [Lists!Layers -> {None} \cup BoundedSeq(ListValues \cup {NoValue}, MaxLen)],
         listFile'["global"] = listFile["global"], listBlame' \subseteq Lists!Layers,
         "global" \in listBlame => "global" \in listBlame'
  PROVE  /\ ListTypes' /\ ListsAreRelated' /\ DefaultIsKept' /\ GlobalIsFiled'
         /\ listOver'["overlay"] = b
<1>1. /\ listOver' \in [Lists!Layers -> BOOLEAN] /\ listOver'["overlay"] = b
      /\ listOver'["global"] = listOver["global"]
      /\ listDirty \in [Lists!Layers -> BOOLEAN]
  BY LayersAre DEF ListInv, ListTypes
<1>2. ListTypes'
  BY <1>1 DEF ListInv, ListTypes
<1>3. ListsAreRelated'
  BY <1>1 DEF ListInv, ListsAreRelated, Distinct, Mirrors
<1>4. DefaultIsKept' /\ GlobalIsFiled'
  BY <1>1 DEF ListInv, DefaultIsKept, GlobalIsFiled, NoContent, NoneSet, Clean, Shows
<1> QED BY <1>1, <1>2, <1>3, <1>4

\* The default fits into the bound.
(* The default fits into the bound.                                        *)
LEMMA DefaultFits == DefaultList \in Seq(ListValues) /\ Len(DefaultList) \in 0 .. MaxLen
BY BoundedSeqIs, ListsAssumption, LenProperties

(* A reset: the file is right if the layer has none.                       *)
LEMMA ResetGlobalKeeps ==
  ASSUME ListInv, Lists!ResetGlobal, listDirty' = listDirty, listChanges' \in 0 .. MaxListChanges,
         listFile' \in [Lists!Layers -> {None} \cup BoundedSeq(ListValues \cup {NoValue}, MaxLen)],
         listFile'["overlay"] = listFile["overlay"], listBlame' \subseteq Lists!Layers,
         "overlay" \in listBlame \cup Lists!FileStaysBehind => "overlay" \in listBlame',
         "global" \notin listBlame' => listFile'["global"] = None
  PROVE  ListInv'
<1> DEFINE g == Lists!FromProps(DefaultList)
<1>1. /\ Lists!ChangeGlobal(g, Lists!All(listGlobal), Lists!All(DefaultList), <<>>)
      /\ listOver' = [listOver EXCEPT !["global"] = FALSE]
  BY DEF Lists!ResetGlobal
<1>2. /\ g \in Seq(GlobalElement) /\ Len(g) = Len(DefaultList) /\ Distinct(g)
      /\ Shows(g, DefaultList) /\ NoneSet(g)
  BY DefaultElements DEF ListInv
<1> HIDE DEF g
<1>3. Len(g) <= MaxLen /\ Len(DefaultList) = Len(g)
  BY <1>2, DefaultFits
<1>4. /\ ListTypes' /\ ListsAreRelated' /\ OverlayIsFiled'
      /\ listGlobal' = g /\ listOver'["global"] = FALSE
  BY <1>1, <1>2, <1>3, ReplaceGlobalKeeps
<1>5. DefaultIsKept'
  BY <1>2, <1>4 DEF DefaultIsKept, Shows
<1>6. NoContent("global")'
  BY <1>2, <1>4 DEF NoContent, NoneSet
<1>7. GlobalIsFiled'
  BY <1>6 DEF GlobalIsFiled, Clean
<1> QED BY <1>4, <1>5, <1>7 DEF ListInv

(* The same of the overlay, whose list mirrors the global one again.       *)
LEMMA ResetOverlayKeeps ==
  ASSUME ListInv, Lists!ResetOverlay, listDirty' = listDirty, listChanges' \in 0 .. MaxListChanges,
         listFile' \in [Lists!Layers -> {None} \cup BoundedSeq(ListValues \cup {NoValue}, MaxLen)],
         listFile'["global"] = listFile["global"], listBlame' \subseteq Lists!Layers,
         "global" \in listBlame => "global" \in listBlame',
         "overlay" \notin listBlame' => listFile'["overlay"] = None
  PROVE  ListInv'
<1>1. /\ listOverlay' = Lists!Copies(listGlobal) /\ listGlobal' = listGlobal
      /\ listOver' = [listOver EXCEPT !["overlay"] = FALSE]
  BY DEF Lists!ResetOverlay
<1>2. listGlobal \in Seq(GlobalElement) /\ Len(listGlobal) <= MaxLen
  BY DEF ListInv, ListTypes
<1>3. /\ listOverlay' \in Seq(OverlayElement) /\ Len(listOverlay') <= MaxLen
      /\ Mirrors(listOverlay', listGlobal) /\ NoneSet(listOverlay')
  BY <1>1, <1>2, CopiesMirror
<1>4. /\ ListTypes' /\ ListsAreRelated' /\ DefaultIsKept' /\ GlobalIsFiled'
      /\ listOver'["overlay"] = FALSE
  BY <1>1, <1>3, ReplaceOverlayKeeps
<1>5. NoContent("overlay")'
  BY <1>3, <1>4 DEF NoContent, NoneSet
<1>6. OverlayIsFiled'
  BY <1>5 DEF OverlayIsFiled, Clean
<1> QED BY <1>4, <1>6 DEF ListInv

(* A reset from QML is not saved: the layer is blamed if it has a file.    *)
LEMMA ResetByQmlKeeps ==
  ASSUME ListInv, NEW L \in Lists!Layers, Lists!ResetByQml(L)
  PROVE  ListInv'
<1>1. /\ listChanges < MaxListChanges /\ listChanges' = listChanges + 1
      /\ IF L = "global" THEN Lists!ResetGlobal ELSE Lists!ResetOverlay
      /\ listBlame' = listBlame \cup (IF listFile[L] = None THEN {} ELSE {L})
                                \cup (IF L = "global" THEN Lists!FileStaysBehind ELSE {})
      /\ listDirty' = listDirty /\ listFile' = listFile
  BY DEF Lists!ResetByQml, Lists!Change
<1>2. /\ listChanges' \in 0 .. MaxListChanges
      /\ listFile' \in [Lists!Layers -> {None} \cup BoundedSeq(ListValues \cup {NoValue}, MaxLen)]
  <2>1. listChanges' \in 0 .. MaxListChanges
    BY <1>1, ListsAssumption DEF ListInv, ListTypes
  <2> QED BY <1>1, <2>1 DEF ListInv, ListTypes
<1>3. listBlame' \subseteq Lists!Layers
  BY <1>1, LayersAre DEF ListInv, ListTypes, Lists!FileStaysBehind
<1>4. L \notin listBlame' => listFile'[L] = None
  BY <1>1
<1>5. CASE L = "global"
  <2>1. "overlay" \in listBlame \cup Lists!FileStaysBehind => "overlay" \in listBlame'
    BY <1>1, <1>5
  <2> QED BY <1>1, <1>2, <1>3, <1>4, <1>5, <2>1, ResetGlobalKeeps
<1>6. CASE L = "overlay"
  <2>1. "global" \in listBlame => "global" \in listBlame'
    BY <1>1, <1>6
  <2> QED BY <1>1, <1>2, <1>3, <1>4, <1>6, <2>1, ResetOverlayKeeps
<1> QED BY <1>5, <1>6, LayersAre

(* The layer loads what another program wrote.                             *)
LEMMA EditedKeeps ==
  ASSUME ListInv, NEW L \in Lists!Layers, NEW doc \in Docs \cup {None}, Lists!Edited(L, doc)
  PROVE  ListInv'
<1>1. /\ listChanges < MaxListChanges /\ listChanges' = listChanges + 1
      /\ listFile' = [listFile EXCEPT ![L] = doc]
      /\ listBlame' = (listBlame \ {L}) \cup (IF L = "global" THEN Lists!FileStaysBehind ELSE {})
      /\ listDirty' = listDirty
      /\ L = "global" /\ doc = None => Lists!ResetGlobal
      /\ L = "global" /\ doc # None => Lists!LoadGlobal(doc)
      /\ L = "overlay" /\ doc = None => Lists!ResetOverlay
      /\ L = "overlay" /\ doc # None => Lists!LoadOverlay(doc)
  BY DEF Lists!Edited, Lists!Change
<1>2. doc # None => doc \in BoundedSeq(ListValues \cup {NoValue}, MaxLen) /\ Len(doc) <= MaxLen
  BY ListsAssumption, BoundedSeqIs
<1>3. /\ listChanges' \in 0 .. MaxListChanges
      /\ listFile' \in [Lists!Layers -> {None} \cup BoundedSeq(ListValues \cup {NoValue}, MaxLen)]
      /\ listFile'[L] = doc
      /\ \A M \in Lists!Layers : M # L => listFile'[M] = listFile[M]
  <2>1. listChanges' \in 0 .. MaxListChanges
    BY <1>1, ListsAssumption DEF ListInv, ListTypes
  <2> QED BY <1>1, <1>2, <2>1 DEF ListInv, ListTypes
<1>4. /\ listBlame' \subseteq Lists!Layers
      /\ \A M \in Lists!Layers : M # L /\ M \in listBlame => M \in listBlame'
      /\ L = "global" /\ "overlay" \in Lists!FileStaysBehind => "overlay" \in listBlame'
  BY <1>1, LayersAre DEF ListInv, ListTypes, Lists!FileStaysBehind
<1>5. CASE L = "global"
  <2>1. /\ listFile'["overlay"] = listFile["overlay"]
        /\ "overlay" \in listBlame \cup Lists!FileStaysBehind => "overlay" \in listBlame'
    BY <1>3, <1>4, <1>5, LayersAre
  <2>2. CASE doc = None
    BY <1>1, <1>3, <1>4, <1>5, <2>1, <2>2, ResetGlobalKeeps
  <2>3. CASE doc # None
    <3> DEFINE g == Lists!FromJson(doc)
    <3>1. /\ Lists!ChangeGlobal(g, Lists!All(listGlobal), Lists!All(doc), <<>>)
          /\ listOver' = [listOver EXCEPT !["global"] = TRUE]
      BY <1>1, <1>5, <2>3 DEF Lists!LoadGlobal, Lists!Override
    <3>2. g \in Seq(GlobalElement) /\ Len(g) = Len(doc) /\ Distinct(g) /\ Shows(g, doc)
      BY <1>2, <2>3, NewElements DEF ListInv
    <3> HIDE DEF g
    <3>3. Len(g) <= MaxLen /\ Len(doc) = Len(g)
      BY <1>2, <2>3, <3>2
    <3>4. /\ ListTypes' /\ ListsAreRelated' /\ OverlayIsFiled'
          /\ listGlobal' = g /\ listOver'["global"] = TRUE
      BY <1>1, <1>3, <1>4, <2>1, <3>1, <3>2, <3>3, ReplaceGlobalKeeps
    <3>5. DefaultIsKept' /\ GlobalIsFiled'
      BY <1>3, <1>5, <2>3, <3>2, <3>4 DEF DefaultIsKept, GlobalIsFiled, NoContent, Shows
    <3> QED BY <3>4, <3>5 DEF ListInv
  <2> QED BY <2>2, <2>3
<1>6. CASE L = "overlay"
  <2>1. /\ listFile'["global"] = listFile["global"]
        /\ "global" \in listBlame => "global" \in listBlame'
    BY <1>3, <1>4, <1>6, LayersAre
  <2>2. CASE doc = None
    BY <1>1, <1>3, <1>4, <1>6, <2>1, <2>2, ResetOverlayKeeps
  <2>3. CASE doc # None
    <3> DEFINE o == Lists!FromJsonDetached(doc)
    <3>1. /\ listOverlay' = o /\ listGlobal' = listGlobal
          /\ listOver' = [listOver EXCEPT !["overlay"] = TRUE]
      BY <1>1, <1>6, <2>3 DEF Lists!LoadOverlay, Lists!Override
    <3>2. /\ o \in Seq(OverlayElement) /\ Len(o) = Len(doc) /\ Shows(o, doc)
          /\ \A i \in 1 .. Len(o) : o[i].fb = None
      BY <1>2, <2>3, NewElements DEF ListInv
    <3> HIDE DEF o
    <3>3. Len(o) <= MaxLen
      BY <1>2, <2>3, <3>2
    <3>4. /\ ListTypes' /\ ListsAreRelated' /\ DefaultIsKept' /\ GlobalIsFiled'
          /\ listOver'["overlay"] = TRUE
      BY <1>1, <1>3, <1>4, <2>1, <3>1, <3>2, <3>3, ReplaceOverlayKeeps
    <3>5. OverlayIsFiled'
      BY <1>3, <1>6, <2>3, <3>1, <3>2, <3>4 DEF OverlayIsFiled, NoContent, Shows
    <3> QED BY <3>4, <3>5 DEF ListInv
  <2> QED BY <2>2, <2>3
<1> QED BY <1>5, <1>6, LayersAre

\* The array of a list shows what the list shows.
(* What a list is saved as shows its values when it is read.               *)
LEMMA ValsShow ==
  ASSUME NEW E, NEW list \in Seq(E), Len(list) <= MaxLen, \A e \in E : e.val \in ListValues
  PROVE  /\ Lists!Vals(list) \in BoundedSeq(ListValues \cup {NoValue}, MaxLen)
         /\ Lists!Vals(list) # None
         /\ Shows(list, Lists!Vals(list))
<1> DEFINE n == Len(list)
           doc == Lists!Vals(list)
<1>1. n \in Nat /\ DOMAIN list = 1 .. n /\ \A i \in 1 .. n : list[i].val \in ListValues
  BY LenProperties
<1>2. doc = [i \in 1 .. n |-> list[i].val]
  BY <1>1 DEF Lists!Vals
<1> HIDE DEF doc
<1>3. doc \in [1 .. n -> ListValues \cup {NoValue}] /\ doc \in [1 .. n -> ListValues]
  BY <1>1, <1>2
<1>4. doc \in Seq(ListValues \cup {NoValue}) /\ Len(doc) = n
  BY <1>1, <1>3, SeqDef, LenProperties
<1>5. doc \in BoundedSeq(ListValues \cup {NoValue}, MaxLen)
  BY <1>4, BoundedSeqIs
<1>6. \A i \in 1 .. n : list[i].val = Lists!Decoded(doc[i])
  BY <1>1, <1>2, ListsAssumption DEF Lists!Decoded
<1> QED BY <1>4, <1>5, <1>6, ListsAssumption DEF Shows, doc

(* A save files the list, or that there is none.                           *)
LEMMA SaveKeeps ==
  ASSUME ListInv, NEW L \in Lists!Layers, Lists!Save(L)
  PROVE  ListInv'
<1> DEFINE doc == Lists!Serialised(L)
           bounded == BoundedSeq(ListValues \cup {NoValue}, MaxLen)
<1>1. /\ listDirty[L] /\ listFile' = [listFile EXCEPT ![L] = doc]
      /\ listDirty' = [listDirty EXCEPT ![L] = FALSE] /\ listBlame' = listBlame \ {L}
      /\ UNCHANGED <<listGlobal, listOverlay, listOver, listChanges>>
  BY DEF Lists!Save
<1>2. /\ listGlobal \in Seq(GlobalElement) /\ Len(listGlobal) <= MaxLen
      /\ listOverlay \in Seq(OverlayElement) /\ Len(listOverlay) <= MaxLen
      /\ DOMAIN listGlobal = 1 .. Len(listGlobal) /\ DOMAIN listOverlay = 1 .. Len(listOverlay)
  BY LenProperties DEF ListInv, ListTypes
<1>3. /\ \A e \in GlobalElement : e.val \in ListValues
      /\ \A e \in OverlayElement : e.val \in ListValues
  BY DEF GlobalElement, OverlayElement, Lists!GlobalElements, Lists!OverlayElements
<1>4. Lists!HasContent(L) <=> ~NoContent(L)
  BY <1>2 DEF Lists!HasContent, NoContent, NoneSet
<1>5. NoContent(L) => doc = None
  BY <1>4 DEF Lists!Serialised
<1>6. ~NoContent(L) => /\ doc = IF L = "global" THEN Lists!Vals(listGlobal) ELSE Lists!Vals(listOverlay)
  BY <1>4 DEF Lists!Serialised
<1>7. /\ Lists!Vals(listGlobal) \in bounded /\ Lists!Vals(listGlobal) # None
      /\ Shows(listGlobal, Lists!Vals(listGlobal))
      /\ Lists!Vals(listOverlay) \in bounded /\ Lists!Vals(listOverlay) # None
      /\ Shows(listOverlay, Lists!Vals(listOverlay))
  BY <1>2, <1>3, ValsShow
<1> HIDE DEF doc, bounded
<1>8. doc \in {None} \cup bounded
  BY <1>5, <1>6, <1>7
<1>9. /\ listFile' \in [Lists!Layers -> {None} \cup bounded] /\ listFile'[L] = doc
      /\ \A M \in Lists!Layers : M # L => listFile'[M] = listFile[M]
  BY <1>1, <1>8 DEF ListInv, ListTypes, bounded
<1>10. /\ listDirty' \in [Lists!Layers -> BOOLEAN] /\ ~listDirty'[L]
       /\ listBlame' \subseteq Lists!Layers
       /\ \A M \in Lists!Layers : M # L =>
             /\ listDirty'[M] = listDirty[M] /\ (M \in listBlame' <=> M \in listBlame)
  BY <1>1 DEF ListInv, ListTypes
<1>11. ListTypes' /\ ListsAreRelated'
  BY <1>1, <1>9, <1>10 DEF ListInv, ListTypes, ListsAreRelated, Distinct, Mirrors, bounded
<1>12. DefaultIsKept'
  BY <1>1 DEF ListInv, DefaultIsKept, NoContent, NoneSet, Shows
<1>13. GlobalIsFiled'
  <2>1. CASE L = "global"
    BY <1>1, <1>5, <1>6, <1>7, <1>9, <2>1 DEF GlobalIsFiled, NoContent, NoneSet, Shows
  <2>2. CASE L # "global"
    BY <1>1, <1>9, <1>10, <2>2, LayersAre DEF ListInv, GlobalIsFiled, NoContent, NoneSet, Clean, Shows
  <2> QED BY <2>1, <2>2
<1>14. OverlayIsFiled'
  <2>1. CASE L = "overlay"
    BY <1>1, <1>5, <1>6, <1>7, <1>9, <2>1 DEF OverlayIsFiled, NoContent, NoneSet, Shows
  <2>2. CASE L # "overlay"
    BY <1>1, <1>9, <1>10, <2>2, LayersAre DEF ListInv, OverlayIsFiled, NoContent, NoneSet, Clean, Shows
  <2> QED BY <2>1, <2>2
<1> QED BY <1>11, <1>12, <1>13, <1>14 DEF ListInv

(* What the lists are when the shell starts again.                         *)
LEMMA StartedLists ==
  ASSUME ListInv
  PROVE  /\ Lists!StartedGlobal \in Seq(GlobalElement) /\ Len(Lists!StartedGlobal) <= MaxLen
         /\ Distinct(Lists!StartedGlobal)
         /\ Lists!StartedOverlay \in Seq(OverlayElement) /\ Len(Lists!StartedOverlay) <= MaxLen
         /\ listFile["global"] = None
              => Shows(Lists!StartedGlobal, DefaultList) /\ NoneSet(Lists!StartedGlobal)
         /\ listFile["global"] # None => Shows(Lists!StartedGlobal, listFile["global"])
         /\ listFile["overlay"] = None
              => /\ Mirrors(Lists!StartedOverlay, Lists!StartedGlobal) /\ NoneSet(Lists!StartedOverlay)
                 /\ \A i \in 1 .. Len(Lists!StartedOverlay) :
                       Lists!StartedOverlay[i].val = Lists!StartedGlobal[i].val
         /\ listFile["overlay"] # None
              => /\ Shows(Lists!StartedOverlay, listFile["overlay"])
                 /\ \A i \in 1 .. Len(Lists!StartedOverlay) : Lists!StartedOverlay[i].fb = None
<1> DEFINE g == Lists!StartedGlobal
           o == Lists!StartedOverlay
<1>1. ListTypes /\ ListsAreRelated
  BY DEF ListInv
<1>2. \A L \in Lists!Layers : listFile[L] # None =>
        listFile[L] \in BoundedSeq(ListValues \cup {NoValue}, MaxLen) /\ Len(listFile[L]) <= MaxLen
  BY BoundedSeqIs DEF ListInv, ListTypes
<1>3. /\ g \in Seq(GlobalElement) /\ Len(g) <= MaxLen /\ Distinct(g)
      /\ listFile["global"] = None => Shows(g, DefaultList) /\ NoneSet(g)
      /\ listFile["global"] # None => Shows(g, listFile["global"])
  <2>1. CASE listFile["global"] = None
    <3>1. g = Lists!FromProps(DefaultList)
      BY <2>1 DEF Lists!StartedGlobal
    <3> HIDE DEF g
    <3> QED BY <1>1, <2>1, <3>1, DefaultElements, DefaultFits
  <2>2. CASE listFile["global"] # None
    <3> DEFINE doc == listFile["global"]
    <3>1. g = Lists!FromJson(doc)
      BY <2>2 DEF Lists!StartedGlobal
    <3>2. doc \in BoundedSeq(ListValues \cup {NoValue}, MaxLen) /\ Len(doc) <= MaxLen
      BY <1>2, <2>2, LayersAre
    <3> HIDE DEF g, doc
    <3>3. g \in Seq(GlobalElement) /\ Len(g) = Len(doc) /\ Distinct(g) /\ Shows(g, doc)
      BY <1>1, <3>1, <3>2, NewElements
    <3> QED BY <2>2, <3>2, <3>3 DEF doc
  <2> QED BY <2>1, <2>2
<1>4. /\ o \in Seq(OverlayElement) /\ Len(o) <= MaxLen
      /\ listFile["overlay"] = None
           => /\ Mirrors(o, g) /\ NoneSet(o)
              /\ \A i \in 1 .. Len(o) : o[i].val = g[i].val
      /\ listFile["overlay"] # None
           => Shows(o, listFile["overlay"]) /\ \A i \in 1 .. Len(o) : o[i].fb = None
  <2>1. CASE listFile["overlay"] = None
    <3>1. o = Lists!Copies(g)
      BY <2>1 DEF Lists!StartedOverlay
    <3> HIDE DEF g, o
    <3> QED BY <1>3, <2>1, <3>1, CopiesMirror
  <2>2. CASE listFile["overlay"] # None
    <3> DEFINE doc == listFile["overlay"]
    <3>1. o = Lists!FromJsonDetached(doc)
      BY <2>2 DEF Lists!StartedOverlay
    <3>2. doc \in BoundedSeq(ListValues \cup {NoValue}, MaxLen) /\ Len(doc) <= MaxLen
      BY <1>2, <2>2, LayersAre
    <3> HIDE DEF o, doc
    <3>3. /\ o \in Seq(OverlayElement) /\ Len(o) = Len(doc) /\ Shows(o, doc)
          /\ \A i \in 1 .. Len(doc) : o[i].fb = None
      BY <1>1, <3>1, <3>2, NewElements
    <3> QED BY <2>2, <3>2, <3>3 DEF doc
  <2> QED BY <2>1, <2>2
<1> QED BY <1>3, <1>4

(* A restart leaves the lists as their files say.                          *)
LEMMA RestartKeeps == ListInv /\ Lists!Restart => ListInv'
<1> SUFFICES ASSUME ListInv, Lists!Restart PROVE ListInv'
  OBVIOUS
<1> DEFINE g == Lists!StartedGlobal
           o == Lists!StartedOverlay
<1>1. /\ listGlobal' = g /\ listOverlay' = o
      /\ listOver' = [L \in Lists!Layers |-> listFile[L] # None]
      /\ listDirty' = [L \in Lists!Layers |-> FALSE] /\ listBlame' = {}
      /\ listFile' = listFile /\ listChanges' = listChanges
  BY DEF Lists!Restart
<1>2. /\ g \in Seq(GlobalElement) /\ Len(g) <= MaxLen /\ Distinct(g)
      /\ o \in Seq(OverlayElement) /\ Len(o) <= MaxLen
      /\ listFile["global"] = None => Shows(g, DefaultList) /\ NoneSet(g)
      /\ listFile["global"] # None => Shows(g, listFile["global"])
      /\ listFile["overlay"] = None => Mirrors(o, g) /\ NoneSet(o)
      /\ listFile["overlay"] # None
           => Shows(o, listFile["overlay"]) /\ \A i \in 1 .. Len(o) : o[i].fb = None
  BY StartedLists
<1> HIDE DEF g, o
<1>3. /\ listOver' \in [Lists!Layers -> BOOLEAN] /\ listDirty' \in [Lists!Layers -> BOOLEAN]
      /\ (listOver'["global"] <=> listFile["global"] # None)
      /\ (listOver'["overlay"] <=> listFile["overlay"] # None)
  BY <1>1, LayersAre
<1>4. ListTypes'
  BY <1>1, <1>2, <1>3 DEF ListInv, ListTypes
<1>5. ListsAreRelated'
  BY <1>1, <1>2, <1>3 DEF ListsAreRelated, Distinct, Mirrors
<1>6. DefaultIsKept' /\ GlobalIsFiled'
  BY <1>1, <1>2, <1>3 DEF DefaultIsKept, GlobalIsFiled, NoContent, NoneSet, Shows
<1>7. OverlayIsFiled'
  BY <1>1, <1>2, <1>3 DEF OverlayIsFiled, NoContent, NoneSet, Shows
<1> QED BY <1>4, <1>5, <1>6, <1>7 DEF ListInv

(* The first lists: the default, and copies of its elements.               *)
LEMMA ListInit == Lists!Init => ListInv
<1> SUFFICES ASSUME Lists!Init PROVE ListInv
  OBVIOUS
<1> DEFINE n   == Len(DefaultList)
           new == Lists!FirstIds
<1>1. /\ listGlobal = [i \in DOMAIN DefaultList |-> [id |-> new[i], val |-> DefaultList[i], set |-> FALSE]]
      /\ listOverlay = Lists!Copies(listGlobal)
      /\ listOver = [L \in Lists!Layers |-> FALSE] /\ listDirty = [L \in Lists!Layers |-> FALSE]
      /\ listFile = [L \in Lists!Layers |-> None]
      /\ listChanges = 0 /\ listBlame = {}
  BY DEF Lists!Init
<1>2. /\ DefaultList \in Seq(ListValues) /\ n \in 0 .. MaxLen /\ DOMAIN DefaultList = 1 .. n
      /\ \A i \in 1 .. n : DefaultList[i] \in ListValues /\ Lists!Decoded(DefaultList[i]) = DefaultList[i]
  BY DefaultFits, LenProperties, ListsAssumption DEF Lists!Decoded
<1>3. new \in [1 .. n -> ListIds] /\ \A i, j \in 1 .. n : new[i] = new[j] => i = j
  <2>1. <<>> \in BoundedSeq(ListIds, MaxLen)
    <3>1. <<>> \in Seq(ListIds) /\ Len(<<>>) <= MaxLen
      BY ListsAssumption
    <3> QED BY <3>1, BoundedSeqIs
  <2>2. Range(<<>>) = {}
    BY DEF Range
  <2>3. \E f \in [1 .. n -> ListIds \ Range(<<>>)] : IsInjective(f)
    BY <1>2, <2>1, RoomAssumption
  <2> HIDE DEF n
  <2>4. \E f \in [1 .. n -> ListIds] : Lists!IsInjective(f)
    BY <2>2, <2>3 DEF IsInjective, Lists!IsInjective
  <2>5. new \in [1 .. n -> ListIds] /\ Lists!IsInjective(new)
    BY <1>2, <2>4 DEF Lists!FirstIds
  <2> QED BY <2>5 DEF Lists!IsInjective
<1> HIDE DEF n, new
<1>4. \A i \in 1 .. n : /\ listGlobal[i] \in GlobalElement /\ listGlobal[i].id = new[i]
                        /\ listGlobal[i].val = DefaultList[i] /\ ~listGlobal[i].set
  BY <1>1, <1>2, <1>3 DEF GlobalElement, Lists!GlobalElements
<1>5. listGlobal \in [1 .. n -> GlobalElement] /\ n \in Nat
  BY <1>1, <1>2, <1>4
<1>6. listGlobal \in Seq(GlobalElement)
  BY <1>5, SeqDef
<1>7. Len(listGlobal) = n /\ n <= MaxLen
  BY <1>2, <1>5, <1>6, LenProperties
<1>8. /\ listOverlay \in Seq(OverlayElement) /\ Len(listOverlay) <= MaxLen
      /\ Mirrors(listOverlay, listGlobal) /\ NoneSet(listOverlay)
  BY <1>1, <1>6, <1>7, CopiesMirror
<1>9. ListTypes
  BY <1>1, <1>6, <1>7, <1>8, ListsAssumption DEF ListTypes
<1>10. ListsAreRelated
  BY <1>1, <1>3, <1>4, <1>7, <1>8, LayersAre DEF ListsAreRelated, Distinct
<1>11. NoContent("global") /\ NoContent("overlay")
  BY <1>1, <1>4, <1>7, <1>8, LayersAre DEF NoContent, NoneSet
<1>12. DefaultIsKept
  BY <1>2, <1>4, <1>7 DEF DefaultIsKept, Shows, n
<1>13. GlobalIsFiled /\ OverlayIsFiled
  BY <1>1, <1>11, LayersAre DEF GlobalIsFiled, OverlayIsFiled
<1> QED BY <1>9, <1>10, <1>12, <1>13 DEF ListInv

(* Every step of the lists keeps the invariant.                            *)
LEMMA ListStep == ListInv /\ [Lists!Next]_Lists!vars => ListInv'
<1> SUFFICES ASSUME ListInv, [Lists!Next]_Lists!vars PROVE ListInv'
  OBVIOUS
<1>1. CASE Lists!EditGlobal
  BY <1>1, EditGlobalKeeps
<1>2. CASE Lists!EditOverlay
  BY <1>2, EditOverlayKeeps
<1>3. ASSUME NEW i \in DOMAIN listGlobal, NEW v \in ListValues, Lists!WriteGlobalElement(i, v)
      PROVE  ListInv'
  BY <1>3, WriteGlobalKeeps
<1>4. ASSUME NEW i \in DOMAIN listOverlay, NEW v \in ListValues, Lists!WriteOverlayElement(i, v)
      PROVE  ListInv'
  BY <1>4, WriteOverlayKeeps
<1>5. ASSUME NEW L \in Lists!Layers, Lists!EditNothing(L) PROVE ListInv'
  BY <1>5, EditNothingKeeps
<1>6. ASSUME NEW L \in Lists!Layers, Lists!ResetByQml(L) PROVE ListInv'
  BY <1>6, ResetByQmlKeeps
<1>7. ASSUME NEW L \in Lists!Layers, NEW doc \in Docs \cup {None}, Lists!Edited(L, doc)
      PROVE  ListInv'
  BY <1>7, EditedKeeps
<1>8. ASSUME NEW L \in Lists!Layers, Lists!Save(L) PROVE ListInv'
  BY <1>8, SaveKeeps
<1>9. CASE Lists!Restart
  BY <1>9, RestartKeeps
<1>10. CASE UNCHANGED Lists!vars
  BY <1>10 DEF Lists!vars, ListInv, ListTypes, ListsAreRelated, DefaultIsKept, GlobalIsFiled,
               OverlayIsFiled, NoContent, NoneSet, Clean, Shows, Distinct, Mirrors
<1> QED BY <1>1, <1>2, <1>3, <1>4, <1>5, <1>6, <1>7, <1>8, <1>9, <1>10 DEF Lists!Next

(* ListNode: the list of an overlay that is not overridden mirrors the     *)
(* global one, an overridden one is detached.                              *)
THEOREM ListsMirrorOrDetach == DataSpec => []ListsFollowOrDetach
<1>1. ListInv => ListsFollowOrDetach
  <2> SUFFICES ASSUME ListInv
               PROVE  Lists!TypeOK /\ Lists!MirrorsGlobal /\ Lists!OverriddenIsDetached
    BY DEF ListsFollowOrDetach
  <2>1. /\ DOMAIN listGlobal = 1 .. Len(listGlobal) /\ DOMAIN listOverlay = 1 .. Len(listOverlay)
    BY LenProperties DEF ListInv, ListTypes
  <2>2. Lists!TypeOK
    BY DEF ListInv, ListTypes, Lists!TypeOK, GlobalElement, OverlayElement
  <2>3. Lists!MirrorsGlobal
    BY <2>1 DEF ListInv, ListsAreRelated, Mirrors, Lists!MirrorsGlobal
  <2>4. Lists!OverriddenIsDetached
    BY <2>1 DEF ListInv, ListTypes, ListsAreRelated, Mirrors, Lists!OverriddenIsDetached
  <2> QED BY <2>2, <2>3, <2>4
<1> QED BY <1>1, ListsKeepTheirSpec, ListInit, ListStep, PTL DEF Lists!Spec

(* Two lists of one document have the same values.                         *)
LEMMA SameValues ==
  ASSUME NEW s \in Seq(GlobalElement \cup OverlayElement),
         NEW t \in Seq(GlobalElement \cup OverlayElement),
         Len(s) = Len(t), \A i \in 1 .. Len(s) : s[i].val = t[i].val
  PROVE  Lists!Vals(s) = Lists!Vals(t)
<1>1. DOMAIN s = 1 .. Len(s) /\ DOMAIN t = 1 .. Len(s)
  BY LenProperties
<1> QED BY <1>1 DEF Lists!Vals

(* ListNode: a restart shows the lists of before, but for a reset from QML *)
(* and for an overlay written in parts whose global list then changed.     *)
THEOREM ListsSurviveRestarts == DataSpec => []RestartShowsTheLists
<1>1. ListInv => RestartShowsTheLists
  <2> SUFFICES ASSUME ListInv, \A L \in Lists!Layers : ~listDirty[L], listBlame = {}
               PROVE  /\ Lists!Vals(Lists!StartedGlobal) = Lists!Vals(listGlobal)
                      /\ Lists!Vals(Lists!StartedOverlay) = Lists!Vals(listOverlay)
    BY DEF RestartShowsTheLists, Lists!RestartShowsTheSame
  <2> DEFINE g == Lists!StartedGlobal
             o == Lists!StartedOverlay
             all == GlobalElement \cup OverlayElement
  <2>1. Clean("global") /\ Clean("overlay")
    BY LayersAre DEF Clean
  <2>2. /\ g \in Seq(GlobalElement) /\ o \in Seq(OverlayElement)
        /\ listFile["global"] = None => Shows(g, DefaultList)
        /\ listFile["global"] # None => Shows(g, listFile["global"])
        /\ listFile["overlay"] = None
             => Mirrors(o, g) /\ \A i \in 1 .. Len(o) : o[i].val = g[i].val
        /\ listFile["overlay"] # None => Shows(o, listFile["overlay"])
    BY StartedLists
  <2>3. /\ listFile["global"] = None => Shows(listGlobal, DefaultList)
        /\ listFile["global"] # None => Shows(listGlobal, listFile["global"])
        /\ listFile["overlay"] = None => NoContent("overlay")
        /\ listFile["overlay"] # None => Shows(listOverlay, listFile["overlay"])
    BY <2>1 DEF ListInv, DefaultIsKept, GlobalIsFiled, OverlayIsFiled
  <2>4. listGlobal \in Seq(GlobalElement) /\ listOverlay \in Seq(OverlayElement)
    BY DEF ListInv, ListTypes
  <2> HIDE DEF g, o, all
  <2>5. /\ g \in Seq(all) /\ o \in Seq(all) /\ listGlobal \in Seq(all) /\ listOverlay \in Seq(all)
    <3>1. \A s : s \in Seq(GlobalElement) \/ s \in Seq(OverlayElement) => s \in Seq(all)
      BY DEF all
    <3> QED BY <2>2, <2>4, <3>1
  <2>6. Len(g) = Len(listGlobal) /\ \A i \in 1 .. Len(g) : g[i].val = listGlobal[i].val
    BY <2>2, <2>3 DEF Shows
  <2>7. Len(o) = Len(listOverlay) /\ \A i \in 1 .. Len(o) : o[i].val = listOverlay[i].val
    <3>1. CASE listFile["overlay"] = None
      <4>1. /\ Len(listOverlay) = Len(listGlobal)
            /\ \A i \in 1 .. Len(listOverlay) : listOverlay[i].val = listGlobal[i].val
        BY <2>3, <3>1 DEF NoContent, NoneSet, ListInv, ListsAreRelated, Mirrors
      <4> QED BY <2>2, <2>6, <3>1, <4>1 DEF Mirrors
    <3>2. CASE listFile["overlay"] # None
      BY <2>2, <2>3, <3>2 DEF Shows
    <3> QED BY <3>1, <3>2
  <2>8. Lists!Vals(g) = Lists!Vals(listGlobal)
    BY <2>5, <2>6, SameValues DEF all
  <2>9. Lists!Vals(o) = Lists!Vals(listOverlay)
    BY <2>5, <2>7, SameValues DEF all
  <2> QED BY <2>8, <2>9 DEF g, o
<1> QED BY <1>1, ListsKeepTheirSpec, ListInit, ListStep, PTL DEF Lists!Spec

-----------------------------------------------------------------------------
(* A run of DataSpec is a run of the repeater.                             *)
LEMMA RepeaterKeepsItsSpec == DataSpec => Repeater!Spec
<1>1. DataInit => Repeater!Init
  BY DEF DataInit
<1>2. [DataNext]_dataVars => [Repeater!Next]_Repeater!vars
  <2>1. DataNext => Repeater!Next \/ UNCHANGED repVars
    BY DEF DataNext
  <2>2. UNCHANGED dataVars => UNCHANGED repVars
    BY DEF dataVars
  <2>3. UNCHANGED repVars => UNCHANGED Repeater!vars
    BY DEF repVars, Repeater!vars
  <2> QED BY <2>1, <2>2, <2>3
<1> QED BY <1>1, <1>2, PTL DEF DataSpec, Repeater!Spec

(* Induction, from the least number that is not there.                     *)
LEMMA LeastNumber ==
  ASSUME NEW S \in SUBSET Nat, S # {}
  PROVE  \E m \in S : \A k \in S : m <= k
<1> DEFINE R == OpToRel(<, Nat)
<1>1. IsWellFoundedOn(R, Nat)
  BY NatLessThanWellFounded, Zenon
<1>2. \A x \in Nat, y \in Nat : x < y => <<x, y>> \in R
  BY DEF OpToRel
<1> HIDE DEF R
<1>3. \E x \in S : \A y \in S : ~ (<<y, x>> \in R)
  BY <1>1, WFMin
<1>4. PICK m \in S : \A y \in S : ~ (<<y, m>> \in R)
  BY <1>3
<1>5. ASSUME NEW k \in S PROVE m <= k
  <2>1. m \in Nat /\ k \in Nat
    BY <1>4, <1>5
  <2>2. ~ (k < m)
    BY <1>2, <1>4, <1>5, <2>1
  <2> QED BY <2>1, <2>2
<1> QED BY <1>4, <1>5

(* What holds of 0 and goes over to the next number holds of all.          *)
LEMMA EveryNumber ==
  ASSUME NEW P \in SUBSET Nat, 0 \in P, \A n \in P : n + 1 \in P
  PROVE  P = Nat
<1> SUFFICES ASSUME Nat \ P # {} PROVE FALSE
  OBVIOUS
<1>1. PICK m \in Nat \ P : \A k \in Nat \ P : m <= k
  <2>1. Nat \ P \in SUBSET Nat /\ Nat \ P # {}
    OBVIOUS
  <2> QED BY ONLY <2>1, LeastNumber
<1>2. m # 0 /\ m - 1 \in Nat /\ m - 1 \in P
  BY <1>1
<1>3. (m - 1) + 1 = m
  BY <1>1
<1> QED BY <1>1, <1>2, <1>3

-----------------------------------------------------------------------------
(***************************************************************************)
(* The children of a parent, as sequences of numbers.                      *)
(***************************************************************************)
Line == Seq(Nat)
InLine(s) == {s[i] : i \in 1 .. Len(s)}
Once(s) == \A i, j \in 1 .. Len(s) : s[i] = s[j] => i = j

(* What holds of no children and goes over to one more holds of all.       *)
LEMMA EveryLine ==
  ASSUME NEW P \in SUBSET Line, <<>> \in P, \A s \in P, x \in Nat : Append(s, x) \in P
  PROVE  P = Line
<1> DEFINE N == {n \in Nat : \A s \in Line : Len(s) = n => s \in P}
<1>1. 0 \in N
  BY EmptySeq DEF Line
<1>2. ASSUME NEW n \in N PROVE n + 1 \in N
  <2> SUFFICES ASSUME NEW s \in Line, Len(s) = n + 1 PROVE s \in P
    OBVIOUS
  <2>1. n \in Nat /\ s \in Seq(Nat) /\ s # <<>>
    BY EmptySeq DEF Line
  <2>2. PICK t \in Seq(Nat), x \in Nat : s = Append(t, x)
    BY <2>1, SequenceEmptyOrAppend
  <2>3. Len(t) \in Nat /\ Len(s) = Len(t) + 1
    BY <2>2, AppendProperties
  <2>4. Len(t) = n /\ t \in Line
    BY <2>1, <2>3 DEF Line
  <2>5. t \in P
    BY <1>2, <2>4
  <2> QED BY <2>2, <2>5
<1> HIDE DEF N
<1>3. N = Nat
  <2>1. N \in SUBSET Nat
    BY DEF N
  <2> QED BY ONLY <2>1, <1>1, <1>2, EveryNumber
<1>4. \A s \in Line : Len(s) \in Nat
  BY DEF Line
<1> QED BY <1>3, <1>4 DEF N

(* What is left of s, place by place, when those of A are gone.            *)
Left(s, A, f) ==
  f = [k \in 0 .. Len(s) |-> IF k = 0 THEN <<>>
                             ELSE IF s[k] \in A THEN f[k - 1] ELSE Append(f[k - 1], s[k])]

(* There is a function that says what is left of a line.                   *)
LEMMA LeftExists ==
  ASSUME NEW s \in Line, NEW A
  PROVE  \E f : Left(s, A, f)
<1> DEFINE P == {t \in Line : \E f : Left(t, A, f)}
<1>1. <<>> \in P
  <2> DEFINE f == [k \in 0 .. 0 |-> <<>>]
  <2>1. <<>> \in Line /\ Len(<<>>) = 0
    BY EmptySeq DEF Line
  <2>2. f = [k \in 0 .. 0 |-> IF k = 0 THEN <<>> ELSE IF <<>>[k] \in A THEN f[k - 1] ELSE Append(f[k - 1], <<>>[k])]
    OBVIOUS
  <2> HIDE DEF f
  <2>3. Left(<<>>, A, f)
    BY <2>1, <2>2 DEF Left
  <2> QED BY <2>1, <2>3
<1>2. ASSUME NEW t \in P, NEW x \in Nat PROVE Append(t, x) \in P
  <2> DEFINE u == Append(t, x)
             n == Len(t)
  <2>1. PICK f : Left(t, A, f)
    OBVIOUS
  <2> DEFINE g == [k \in 0 .. n + 1 |-> IF k <= n THEN f[k] ELSE IF x \in A THEN f[n] ELSE Append(f[n], x)]
  <2>2. /\ u \in Line /\ Len(u) = n + 1 /\ n \in Nat /\ u[n + 1] = x
        /\ \A k \in 1 .. n : u[k] = t[k]
    <3>1. t \in Seq(Nat)
      BY DEF Line
    <3> QED BY <3>1, AppendProperties DEF Line
  <2>3. \A k \in 0 .. n : f[k] = IF k = 0 THEN <<>> ELSE IF t[k] \in A THEN f[k - 1] ELSE Append(f[k - 1], t[k])
    BY <2>1 DEF Left
  <2> HIDE DEF u
  <2>4. \A k \in 0 .. n + 1 : g[k] = IF k = 0 THEN <<>> ELSE IF u[k] \in A THEN g[k - 1] ELSE Append(g[k - 1], u[k])
    <3> SUFFICES ASSUME NEW k \in 0 .. n + 1
                 PROVE g[k] = IF k = 0 THEN <<>> ELSE IF u[k] \in A THEN g[k - 1] ELSE Append(g[k - 1], u[k])
      OBVIOUS
    <3>1. CASE k = 0
      BY <2>2, <2>3, <3>1
    <3>2. CASE k \in 1 .. n
      <4>1. k \in 0 .. n /\ k - 1 \in 0 .. n + 1 /\ k - 1 <= n /\ k <= n
        BY <2>2, <3>2
      <4>2. g[k] = f[k] /\ g[k - 1] = f[k - 1] /\ u[k] = t[k] /\ k # 0
        BY <2>2, <3>2, <4>1
      <4> HIDE DEF g
      <4> QED BY <2>3, <4>1, <4>2
    <3>3. CASE k = n + 1
      <4>1. k # 0 /\ ~(k <= n) /\ k - 1 = n /\ n \in 0 .. n + 1 /\ n <= n
        BY <2>2, <3>3
      <4>2. g[k] = (IF x \in A THEN f[n] ELSE Append(f[n], x)) /\ g[k - 1] = f[n] /\ u[k] = x
        BY <2>2, <3>3, <4>1
      <4> HIDE DEF g
      <4> QED BY <4>1, <4>2
    <3>4. k = 0 \/ k \in 1 .. n \/ k = n + 1
      BY <2>2
    <3> QED BY <3>1, <3>2, <3>3, <3>4
  <2>5. g = [k \in 0 .. n + 1 |-> g[k]]
    OBVIOUS
  <2> HIDE DEF g
  <2>6. Left(u, A, g)
    <3>1. g = [k \in 0 .. n + 1 |-> IF k = 0 THEN <<>> ELSE IF u[k] \in A THEN g[k - 1] ELSE Append(g[k - 1], u[k])]
      BY <2>4, <2>5
    <3> QED BY <2>2, <3>1 DEF Left
  <2> QED BY <2>2, <2>6 DEF u
<1> HIDE DEF P
<1>3. P = Line
  <2>1. P \in SUBSET Line
    BY DEF P
  <2> QED BY ONLY <2>1, <1>1, <1>2, EveryLine
<1> QED BY <1>3 DEF P

(* It goes on as it was when the line gets one more.                       *)
LEMMA LeftAgrees ==
  ASSUME NEW s \in Line, NEW x \in Nat, NEW A, NEW f, Left(s, A, f), NEW g, Left(Append(s, x), A, g)
  PROVE  /\ g[Len(s)] = f[Len(s)]
         /\ g[Len(s) + 1] = IF x \in A THEN f[Len(s)] ELSE Append(f[Len(s)], x)
         /\ Len(Append(s, x)) = Len(s) + 1
<1> DEFINE P == {k \in Nat : k <= Len(s) => g[k] = f[k]}
           u == Append(s, x)
           n == Len(s)
<1>0. /\ u \in Line /\ Len(u) = n + 1 /\ n \in Nat /\ u[n + 1] = x
      /\ \A k \in 1 .. n : u[k] = s[k]
  <2>1. s \in Seq(Nat)
    BY DEF Line
  <2> QED BY <2>1, AppendProperties DEF Line
<1> HIDE DEF u
<1>1. \A k \in 0 .. n : f[k] = IF k = 0 THEN <<>> ELSE IF s[k] \in A THEN f[k - 1] ELSE Append(f[k - 1], s[k])
  BY DEF Left
<1>2. \A k \in 0 .. n + 1 : g[k] = IF k = 0 THEN <<>> ELSE IF u[k] \in A THEN g[k - 1] ELSE Append(g[k - 1], u[k])
  <2>1. Left(u, A, g)
    BY DEF u
  <2> QED BY <1>0, <2>1 DEF Left
<1>3. 0 \in P
  BY <1>0, <1>1, <1>2
<1>4. ASSUME NEW k \in P PROVE k + 1 \in P
  <2>1. CASE k + 1 <= n
    <3>1. k + 1 \in 1 .. n /\ k + 1 \in 0 .. n /\ k + 1 \in 0 .. n + 1 /\ (k + 1) - 1 = k /\ k <= n /\ k + 1 # 0
      BY <1>0, <2>1
    <3>2. g[k] = f[k] /\ u[k + 1] = s[k + 1]
      BY <1>0, <3>1
    <3>3. g[k + 1] = f[k + 1]
      BY <1>1, <1>2, <3>1, <3>2
    <3> QED BY <3>3
  <2> QED BY <2>1
<1> HIDE DEF P
<1>5. P = Nat
  <2>1. P \in SUBSET Nat
    BY DEF P
  <2> QED BY ONLY <2>1, <1>3, <1>4, EveryNumber
<1>6. g[n] = f[n]
  BY <1>0, <1>5 DEF P
<1>7. n + 1 \in 0 .. n + 1 /\ n + 1 # 0 /\ (n + 1) - 1 = n
  BY <1>0
<1>8. g[n + 1] = IF x \in A THEN f[n] ELSE Append(f[n], x)
  BY <1>0, <1>2, <1>6, <1>7
<1> QED BY <1>0, <1>6, <1>8 DEF u

(* Without: child by child.                                                *)
LEMMA WithoutIs ==
  ASSUME NEW A
  PROVE  /\ Repeater!Without(<<>>, A) = <<>>
         /\ \A s \in Line, x \in Nat :
               Repeater!Without(Append(s, x), A) =
                  IF x \in A THEN Repeater!Without(s, A) ELSE Append(Repeater!Without(s, A), x)
<1> DEFINE F(s) == CHOOSE f : Left(s, A, f)
<1>1. \A s : Repeater!Without(s, A) = F(s)[Len(s)]
  BY Zenon DEF Repeater!Without, Left
<1>2. \A s \in Line : Left(s, A, F(s))
  BY LeftExists, Zenon
<1> HIDE DEF F
<1>3. <<>> \in Line /\ Len(<<>>) = 0
  BY EmptySeq DEF Line
<1>4. Repeater!Without(<<>>, A) = <<>>
  <2>1. Left(<<>>, A, F(<<>>))
    BY <1>2, <1>3
  <2>2. F(<<>>)[0] = <<>>
    BY <1>3, <2>1 DEF Left
  <2> QED BY <1>1, <1>3, <2>2
<1>5. ASSUME NEW s \in Line, NEW x \in Nat
      PROVE Repeater!Without(Append(s, x), A) =
                  IF x \in A THEN Repeater!Without(s, A) ELSE Append(Repeater!Without(s, A), x)
  <2>1. Append(s, x) \in Line
    BY AppendProperties DEF Line
  <2>2. Left(s, A, F(s)) /\ Left(Append(s, x), A, F(Append(s, x)))
    BY <1>2, <2>1
  <2>3. /\ F(Append(s, x))[Len(s) + 1] = IF x \in A THEN F(s)[Len(s)] ELSE Append(F(s)[Len(s)], x)
        /\ Len(Append(s, x)) = Len(s) + 1
    BY <2>2, LeftAgrees
  <2>4. Repeater!Without(Append(s, x), A) = F(Append(s, x))[Len(s) + 1]
    BY <1>1, <2>3
  <2>5. Repeater!Without(s, A) = F(s)[Len(s)]
    BY <1>1
  <2> QED BY ONLY <2>3, <2>4, <2>5
<1> QED BY <1>4, <1>5

(* A line with one more child, and two lines one after the other.          *)
LEMMA OneMore ==
  ASSUME NEW s \in Line, NEW x \in Nat
  PROVE  /\ Append(s, x) \in Line /\ Append(s, x) = s \o <<x>> /\ <<x>> \in Line
         /\ InLine(Append(s, x)) = InLine(s) \cup {x}
         /\ Once(Append(s, x)) <=> Once(s) /\ x \notin InLine(s)
<1> DEFINE u == Append(s, x)
           n == Len(s)
<1>1. /\ u \in Seq(Nat) /\ Len(u) = n + 1 /\ n \in Nat /\ u[n + 1] = x
      /\ \A k \in 1 .. n : u[k] = s[k]
  BY AppendProperties DEF Line
<1>2. u = s \o <<x>> /\ <<x>> \in Seq(Nat)
  BY AppendIsConcat DEF Line
<1> HIDE DEF u
<1>3. \A k \in 1 .. n + 1 : k \in 1 .. n \/ k = n + 1
  BY <1>1
<1>4. InLine(u) = InLine(s) \cup {x}
  <2>1. \A k \in 1 .. n : k \in 1 .. n + 1
    BY <1>1
  <2>2. n + 1 \in 1 .. n + 1
    BY <1>1
  <2> QED BY <1>1, <1>3, <2>1, <2>2 DEF InLine
<1>5. ASSUME Once(u) PROVE Once(s) /\ x \notin InLine(s)
  <2>1. \A i, j \in 1 .. n : i \in 1 .. n + 1 /\ j \in 1 .. n + 1 /\ i # n + 1 /\ n + 1 \in 1 .. n + 1
    BY <1>1
  <2>2. Once(s)
    BY <1>1, <1>5, <2>1 DEF Once
  <2>3. ASSUME NEW i \in 1 .. n, s[i] = x PROVE FALSE
    BY <1>1, <1>5, <2>1, <2>3 DEF Once
  <2> QED BY <2>2, <2>3 DEF InLine
<1>6. ASSUME Once(s), x \notin InLine(s) PROVE Once(u)
  <2>1. \A i \in 1 .. n : s[i] # x
    BY <1>6 DEF InLine
  <2> SUFFICES ASSUME NEW i \in 1 .. n + 1, NEW j \in 1 .. n + 1, u[i] = u[j] PROVE i = j
    BY <1>1 DEF Once
  <2> QED BY <1>1, <1>3, <1>6, <2>1 DEF Once
<1> QED BY <1>1, <1>2, <1>4, <1>5, <1>6 DEF u, Line

(* Two lines one after the other.                                          *)
LEMMA Joined ==
  ASSUME NEW s \in Line, NEW t \in Line
  PROVE  /\ s \o t \in Line /\ InLine(s \o t) = InLine(s) \cup InLine(t)
         /\ Len(s \o t) = Len(s) + Len(t) /\ Len(s) \in Nat /\ Len(t) \in Nat
         /\ InLine(s) \subseteq Nat
         /\ s \o <<>> = s /\ <<>> \o s = s
<1>1. /\ s \o t \in Seq(Nat) /\ Len(s \o t) = Len(s) + Len(t) /\ Len(s) \in Nat /\ Len(t) \in Nat
      /\ \A i \in 1 .. Len(s) + Len(t) : (s \o t)[i] = IF i <= Len(s) THEN s[i] ELSE t[i - Len(s)]
      /\ \A i \in 1 .. Len(s) : s[i] \in Nat
      /\ s \o <<>> = s /\ <<>> \o s = s
  BY ConcatProperties, ConcatEmptySeq DEF Line
<1> DEFINE u == s \o t
<1>2. ASSUME NEW i \in 1 .. Len(u) PROVE u[i] \in InLine(s) \cup InLine(t)
  <2>1. i <= Len(s) \/ i - Len(s) \in 1 .. Len(t)
    BY <1>1
  <2>2. i <= Len(s) => i \in 1 .. Len(s)
    BY <1>1
  <2> QED BY <1>1, <2>1, <2>2 DEF InLine
<1>3. ASSUME NEW i \in 1 .. Len(s) PROVE s[i] \in InLine(u)
  <2>1. i \in 1 .. Len(u) /\ u[i] = s[i]
    BY <1>1
  <2> QED BY <2>1 DEF InLine
<1>4. ASSUME NEW i \in 1 .. Len(t) PROVE t[i] \in InLine(u)
  <2>1. Len(s) + i \in 1 .. Len(u) /\ ~(Len(s) + i <= Len(s)) /\ (Len(s) + i) - Len(s) = i
    BY <1>1
  <2>2. u[Len(s) + i] = t[i]
    BY <1>1, <2>1
  <2> QED BY <2>1, <2>2 DEF InLine
<1> HIDE DEF u
<1>5. InLine(u) = InLine(s) \cup InLine(t)
  <2>1. InLine(u) \subseteq InLine(s) \cup InLine(t)
    BY <1>2 DEF InLine
  <2>2. InLine(s) \subseteq InLine(u) /\ InLine(t) \subseteq InLine(u)
    BY <1>3, <1>4 DEF InLine
  <2> QED BY <2>1, <2>2
<1> QED BY <1>1, <1>5 DEF u, Line, InLine

(* The order in which three lines are joined does not matter.              *)
LEMMA JoinedTwice ==
  ASSUME NEW s \in Line, NEW t \in Line, NEW u \in Line
  PROVE  (s \o t) \o u = s \o (t \o u)
BY ConcatAssociative, SMTT(30) DEF Line

(* Each is there once in two lines if it is in each and in one of them.    *)
LEMMA OnceJoined ==
  ASSUME NEW s \in Line, NEW t \in Line
  PROVE  Once(s \o t) <=> Once(s) /\ Once(t) /\ InLine(s) \cap InLine(t) = {}
<1> DEFINE P == {r \in Line : Once(s \o r) <=> Once(s) /\ Once(r) /\ InLine(s) \cap InLine(r) = {}}
<1>1. <<>> \in P
  <2>1. <<>> \in Line /\ Len(<<>>) = 0 /\ s \o <<>> = s
    BY EmptySeq, Joined DEF Line
  <2>2. Once(<<>>) /\ InLine(<<>>) = {}
    BY <2>1 DEF Once, InLine
  <2> QED BY <2>1, <2>2
<1>2. ASSUME NEW r \in P, NEW x \in Nat PROVE Append(r, x) \in P
  <2>1. /\ Append(r, x) \in Line /\ InLine(Append(r, x)) = InLine(r) \cup {x}
        /\ Append(r, x) = r \o <<x>> /\ <<x>> \in Line
        /\ Once(Append(r, x)) <=> Once(r) /\ x \notin InLine(r)
    BY OneMore
  <2>2. s \o r \in Line /\ InLine(s \o r) = InLine(s) \cup InLine(r)
    BY Joined
  <2>3. s \o Append(r, x) = Append(s \o r, x)
    <3>1. Append(s \o r, x) = (s \o r) \o <<x>>
      BY <2>2, OneMore
    <3>2. (s \o r) \o <<x>> = s \o (r \o <<x>>)
      BY <2>1, JoinedTwice
    <3> QED BY <2>1, <3>1, <3>2
  <2>4. Once(Append(s \o r, x)) <=> Once(s \o r) /\ x \notin InLine(s \o r)
    BY <2>2, OneMore
  <2>5. Once(s \o r) <=> Once(s) /\ Once(r) /\ InLine(s) \cap InLine(r) = {}
    OBVIOUS
  <2>6. Once(s \o Append(r, x)) <=> Once(s) /\ Once(Append(r, x)) /\ InLine(s) \cap InLine(Append(r, x)) = {}
    BY <2>1, <2>2, <2>3, <2>4, <2>5
  <2> QED BY <2>1, <2>6
<1> HIDE DEF P
<1>3. P = Line
  <2>1. P \in SUBSET Line
    BY DEF P
  <2> QED BY ONLY <2>1, <1>1, <1>2, EveryLine
<1> QED BY <1>3 DEF P

(* What Without leaves: the others, each as often as before.               *)
LEMMA WithoutLeaves ==
  ASSUME NEW s \in Line, NEW A
  PROVE  /\ Repeater!Without(s, A) \in Line
         /\ InLine(Repeater!Without(s, A)) = InLine(s) \ A
         /\ Once(s) => Once(Repeater!Without(s, A))
         /\ InLine(s) \cap A = {} => Repeater!Without(s, A) = s
         /\ InLine(s) \subseteq A => Repeater!Without(s, A) = <<>>
<1> DEFINE W(r) == Repeater!Without(r, A)
           P == {r \in Line : /\ W(r) \in Line
                              /\ InLine(W(r)) = InLine(r) \ A
                              /\ Once(r) => Once(W(r))
                              /\ InLine(r) \cap A = {} => W(r) = r
                              /\ InLine(r) \subseteq A => W(r) = <<>>}
<1>0. /\ W(<<>>) = <<>>
      /\ \A r \in Line, x \in Nat : W(Append(r, x)) = IF x \in A THEN W(r) ELSE Append(W(r), x)
  BY WithoutIs
<1> HIDE DEF W
<1>1. <<>> \in P
  <2>1. <<>> \in Line /\ Len(<<>>) = 0
    BY EmptySeq DEF Line
  <2>2. InLine(<<>>) = {}
    BY <2>1 DEF InLine
  <2> QED BY <1>0, <2>1, <2>2
<1>2. ASSUME NEW r \in P, NEW x \in Nat PROVE Append(r, x) \in P
  <2>1. /\ r \in Line /\ W(r) \in Line
        /\ InLine(W(r)) = InLine(r) \ A
        /\ Once(r) => Once(W(r))
        /\ InLine(r) \cap A = {} => W(r) = r
        /\ InLine(r) \subseteq A => W(r) = <<>>
    OBVIOUS
  <2>2. /\ Append(r, x) \in Line /\ InLine(Append(r, x)) = InLine(r) \cup {x}
        /\ Once(Append(r, x)) <=> Once(r) /\ x \notin InLine(r)
    BY <2>1, OneMore
  <2>3. /\ Append(W(r), x) \in Line /\ InLine(Append(W(r), x)) = InLine(W(r)) \cup {x}
        /\ Once(Append(W(r), x)) <=> Once(W(r)) /\ x \notin InLine(W(r))
    BY <2>1, OneMore
  <2>4. CASE x \in A
    <3>1. W(Append(r, x)) = W(r)
      BY <1>0, <2>1, <2>4
    <3> QED BY <2>1, <2>2, <2>4, <3>1
  <2>5. CASE x \notin A
    <3>1. W(Append(r, x)) = Append(W(r), x)
      BY <1>0, <2>1, <2>5
    <3>2. /\ W(Append(r, x)) \in Line
          /\ InLine(W(Append(r, x))) = InLine(Append(r, x)) \ A
          /\ Once(Append(r, x)) => Once(W(Append(r, x)))
      BY <2>1, <2>2, <2>3, <2>5, <3>1
    <3>3. /\ InLine(Append(r, x)) \cap A = {} => W(Append(r, x)) = Append(r, x)
          /\ ~(InLine(Append(r, x)) \subseteq A)
      BY <2>1, <2>2, <2>5, <3>1
    <3> QED BY <2>2, <3>2, <3>3
  <2> QED BY <2>4, <2>5
<1> HIDE DEF P
<1>3. P = Line
  <2>1. P \in SUBSET Line
    BY DEF P
  <2> QED BY ONLY <2>1, <1>1, <1>2, EveryLine
<1> QED BY <1>3 DEF P, W

(* What is left of two lines is what is left of each.                      *)
LEMMA WithoutJoined ==
  ASSUME NEW s \in Line, NEW t \in Line, NEW A
  PROVE  Repeater!Without(s \o t, A) = Repeater!Without(s, A) \o Repeater!Without(t, A)
<1> DEFINE W(r) == Repeater!Without(r, A)
           P == {r \in Line : W(s \o r) = W(s) \o W(r)}
<1>0. /\ W(<<>>) = <<>>
      /\ \A r \in Line, x \in Nat : W(Append(r, x)) = IF x \in A THEN W(r) ELSE Append(W(r), x)
      /\ \A r \in Line : W(r) \in Line
  BY WithoutIs, WithoutLeaves
<1> HIDE DEF W
<1>1. <<>> \in P
  <2>1. <<>> \in Line
    BY EmptySeq DEF Line
  <2> QED BY <1>0, <2>1, Joined
<1>2. ASSUME NEW r \in P, NEW x \in Nat PROVE Append(r, x) \in P
  <2>1. r \in Line /\ W(s \o r) = W(s) \o W(r) /\ W(r) \in Line /\ W(s) \in Line /\ s \o r \in Line
    BY <1>0, Joined
  <2>2. /\ Append(r, x) = r \o <<x>> /\ <<x>> \in Line /\ Append(r, x) \in Line
        /\ Append(s \o r, x) = (s \o r) \o <<x>>
        /\ Append(W(r), x) = W(r) \o <<x>>
        /\ W(s) \o W(r) \in Line
    BY <2>1, OneMore, Joined
  <2>3. s \o Append(r, x) = Append(s \o r, x)
    <3>1. (s \o r) \o <<x>> = s \o (r \o <<x>>)
      BY <2>1, <2>2, JoinedTwice, ZenonT(30)
    <3> QED BY <2>2, <3>1
  <2>4. Append(W(s) \o W(r), x) = W(s) \o Append(W(r), x)
    <3>1. (W(s) \o W(r)) \o <<x>> = W(s) \o (W(r) \o <<x>>)
      BY <2>1, <2>2, JoinedTwice, ZenonT(30)
    <3>2. Append(W(s) \o W(r), x) = (W(s) \o W(r)) \o <<x>>
      BY <2>2, OneMore
    <3> QED BY <2>2, <3>1, <3>2
  <2>5. W(s \o Append(r, x)) = IF x \in A THEN W(s \o r) ELSE Append(W(s \o r), x)
    BY <1>0, <2>1, <2>3
  <2>6. W(Append(r, x)) = IF x \in A THEN W(r) ELSE Append(W(r), x)
    BY <1>0, <2>1
  <2> QED BY <2>1, <2>2, <2>4, <2>5, <2>6
<1> HIDE DEF P
<1>3. P = Line
  <2>1. P \in SUBSET Line
    BY DEF P
  <2> QED BY ONLY <2>1, <1>1, <1>2, EveryLine
<1> QED BY <1>3 DEF P, W

(* Those of A and then those of B are those of both.                       *)
LEMMA WithoutBoth ==
  ASSUME NEW s \in Line, NEW A, NEW B, NEW C, C = A \cup B
  PROVE  Repeater!Without(Repeater!Without(s, A), B) = Repeater!Without(s, C)
<1> DEFINE W(r) == Repeater!Without(r, A)
           V(r) == Repeater!Without(r, B)
           U(r) == Repeater!Without(r, C)
           P == {r \in Line : V(W(r)) = U(r)}
<1>0. /\ W(<<>>) = <<>> /\ V(<<>>) = <<>> /\ U(<<>>) = <<>>
      /\ \A r \in Line, x \in Nat : W(Append(r, x)) = IF x \in A THEN W(r) ELSE Append(W(r), x)
      /\ \A r \in Line, x \in Nat : V(Append(r, x)) = IF x \in B THEN V(r) ELSE Append(V(r), x)
      /\ \A r \in Line, x \in Nat : U(Append(r, x)) = IF x \in C THEN U(r) ELSE Append(U(r), x)
      /\ \A r \in Line : W(r) \in Line
  <2>1. /\ W(<<>>) = <<>>
        /\ \A r \in Line, x \in Nat : W(Append(r, x)) = IF x \in A THEN W(r) ELSE Append(W(r), x)
    BY WithoutIs
  <2>2. /\ V(<<>>) = <<>>
        /\ \A r \in Line, x \in Nat : V(Append(r, x)) = IF x \in B THEN V(r) ELSE Append(V(r), x)
    BY WithoutIs
  <2>3. /\ U(<<>>) = <<>>
        /\ \A r \in Line, x \in Nat : U(Append(r, x)) = IF x \in C THEN U(r) ELSE Append(U(r), x)
    BY ONLY WithoutIs
  <2>4. \A r \in Line : W(r) \in Line
    BY WithoutLeaves
  <2> HIDE DEF W, V, U
  <2> QED BY <2>1, <2>2, <2>3, <2>4
<1> HIDE DEF W, V, U
<1>1. <<>> \in P
  <2>1. <<>> \in Line
    BY EmptySeq DEF Line
  <2> QED BY <1>0, <2>1
<1>2. ASSUME NEW r \in P, NEW x \in Nat PROVE Append(r, x) \in P
  <2>1. r \in Line /\ V(W(r)) = U(r) /\ W(r) \in Line /\ Append(r, x) \in Line
    BY <1>0, OneMore
  <2>2. /\ W(Append(r, x)) = IF x \in A THEN W(r) ELSE Append(W(r), x)
        /\ V(Append(W(r), x)) = IF x \in B THEN V(W(r)) ELSE Append(V(W(r)), x)
        /\ U(Append(r, x)) = IF x \in C THEN U(r) ELSE Append(U(r), x)
    BY <1>0, <2>1
  <2>3. CASE x \in A
    BY <2>1, <2>2, <2>3
  <2>4. CASE x \notin A
    BY <2>1, <2>2, <2>4
  <2> QED BY <2>3, <2>4
<1> HIDE DEF P
<1>3. P = Line
  <2>1. P \in SUBSET Line
    BY DEF P
  <2> QED BY ONLY <2>1, <1>1, <1>2, EveryLine
<1> QED BY <1>3 DEF P, W, V, U

-----------------------------------------------------------------------------
(* stackBefore: next is there once, and id goes right in front of it.      *)
LEMMA StackBeforeIs ==
  ASSUME NEW X \in Line, NEW Y \in Line, NEW id \in Nat, NEW next \in Nat, id # next,
         next \notin InLine(X), next \notin InLine(Y)
  PROVE  Repeater!StackBefore(X \o (<<next>> \o Y), id, next)
           = Repeater!Without(X, {id}) \o (<<id>> \o (<<next>> \o Repeater!Without(Y, {id})))
<1> DEFINE V == Repeater!Without(X, {id})
           Z == Repeater!Without(Y, {id})
           others == Repeater!Without(X \o (<<next>> \o Y), {id})
           m == Len(V)
           back == <<next>> \o Z
           at == CHOOSE k \in DOMAIN others : others[k] = next
<1>1. /\ V \in Line /\ InLine(V) = InLine(X) \ {id}
      /\ Z \in Line /\ InLine(Z) = InLine(Y) \ {id}
  BY WithoutLeaves
<1>2. <<next>> \in Line /\ Len(<<next>>) = 1 /\ <<next>>[1] = next /\ InLine(<<next>>) = {next}
  BY DEF Line, InLine
<1>3. <<next>> \o Y \in Line /\ back \in Line /\ Len(back) = 1 + Len(Z) /\ Len(Z) \in Nat
  BY <1>1, <1>2, Joined
<1>4. others = V \o back
  <2>1. Repeater!Without(<<next>>, {id}) = <<next>>
    <3>1. InLine(<<next>>) \cap {id} = {}
      BY <1>2
    <3> QED BY ONLY <1>2, <3>1, WithoutLeaves
  <2>2. Repeater!Without(<<next>> \o Y, {id})
          = Repeater!Without(<<next>>, {id}) \o Repeater!Without(Y, {id})
    BY ONLY <1>2, Y \in Line, WithoutJoined
  <2>3. Repeater!Without(X \o (<<next>> \o Y), {id})
          = Repeater!Without(X, {id}) \o Repeater!Without(<<next>> \o Y, {id})
    BY ONLY <1>3, X \in Line, WithoutJoined
  <2> QED BY <2>1, <2>2, <2>3
<1> HIDE DEF V, Z, others
<1>5. /\ others \in Line /\ Len(others) = m + Len(back) /\ m \in Nat
      /\ \A i \in 1 .. m + Len(back) : others[i] = IF i <= m THEN V[i] ELSE back[i - m]
      /\ \A i \in 1 .. 1 + Len(Z) : back[i] = IF i <= 1 THEN next ELSE Z[i - 1]
      /\ DOMAIN others = 1 .. Len(others)
  BY <1>1, <1>2, <1>3, <1>4, ConcatProperties DEF Line
<1>6. \A i \in 1 .. m : V[i] # next
  BY <1>1 DEF InLine
<1>7. \A i \in 1 .. Len(Z) : Z[i] # next
  BY <1>1 DEF InLine
<1> HIDE DEF back
<1>8. m + 1 \in DOMAIN others /\ others[m + 1] = next
  <2>1. m + 1 \in 1 .. m + Len(back) /\ ~(m + 1 <= m) /\ (m + 1) - m = 1 /\ 1 \in 1 .. 1 + Len(Z)
    BY <1>3, <1>5
  <2> QED BY <1>5, <2>1
<1>9. ASSUME NEW k \in DOMAIN others, others[k] = next PROVE k = m + 1
  <2>1. k \in 1 .. m + Len(back)
    BY <1>5
  <2>2. ~(k <= m)
    BY <1>5, <1>6, <1>9, <2>1
  <2>3. k - m \in 1 .. 1 + Len(Z) /\ back[k - m] = next
    BY <1>3, <1>5, <1>9, <2>1, <2>2
  <2>4. ~(k - m > 1)
    <3>1. k - m > 1 => (k - m) - 1 \in 1 .. Len(Z) /\ back[k - m] = Z[(k - m) - 1]
      BY <1>3, <1>5, <2>3
    <3> QED BY <1>7, <2>3, <3>1
  <2> QED BY <1>5, <2>1, <2>3, <2>4
<1>10. at = m + 1
  BY <1>8, <1>9
<1> HIDE DEF at
<1>11. SubSeq(others, 1, at - 1) = V
  <2>1. at - 1 = m /\ 1 \in Int /\ m \in Int
    BY <1>5, <1>10
  <2>2. \A i \in 1 .. m : others[i] = V[i] /\ others[i] \in Nat
    BY <1>1, <1>5 DEF Line
  <2>3. /\ SubSeq(others, 1, m) \in Seq(Nat)
        /\ Len(SubSeq(others, 1, m)) = (IF 1 <= m THEN m - 1 + 1 ELSE 0)
        /\ \A i \in 1 .. m - 1 + 1 : SubSeq(others, 1, m)[i] = others[1 + i - 1]
    BY <2>1, <2>2, SubSeqProperties
  <2>4. Len(SubSeq(others, 1, m)) = m /\ \A i \in 1 .. m : SubSeq(others, 1, m)[i] = V[i]
    BY <1>5, <2>2, <2>3
  <2>5. SubSeq(others, 1, m) = V
    BY <1>1, <2>3, <2>4, SeqEqual DEF Line
  <2> QED BY <2>1, <2>5
<1>12. SubSeq(others, at, Len(others)) = back
  <2> DEFINE b == SubSeq(others, m + 1, Len(others))
  <2>1. m + 1 \in Int /\ Len(others) \in Int /\ Len(others) - (m + 1) + 1 = Len(back) /\ m + 1 <= Len(others)
    BY <1>3, <1>5
  <2>2. \A i \in m + 1 .. Len(others) : others[i] \in Nat
    <3>1. \A i \in 1 .. Len(others) : others[i] \in Nat
      BY <1>5 DEF Line
    <3> QED BY <1>5, <3>1
  <2>3. /\ b \in Seq(Nat)
        /\ Len(b) = (IF m + 1 <= Len(others) THEN Len(others) - (m + 1) + 1 ELSE 0)
        /\ \A i \in 1 .. Len(others) - (m + 1) + 1 : b[i] = others[(m + 1) + i - 1]
    BY <2>1, <2>2, SubSeqProperties
  <2> HIDE DEF b
  <2>4. ASSUME NEW i \in 1 .. Len(back) PROVE b[i] = back[i]
    <3>1. (m + 1) + i - 1 = m + i /\ m + i \in 1 .. m + Len(back) /\ ~(m + i <= m) /\ (m + i) - m = i
      BY <1>3, <1>5
    <3> QED BY <1>5, <2>1, <2>3, <3>1
  <2>5. b = back
    BY <1>3, <2>1, <2>3, <2>4, SeqEqual DEF Line
  <2> QED BY <1>10, <2>5 DEF b
<1>13. Repeater!StackBefore(X \o (<<next>> \o Y), id, next)
         = SubSeq(others, 1, at - 1) \o <<id>> \o SubSeq(others, at, Len(others))
  BY Zenon DEF Repeater!StackBefore, others, at
<1>14. (V \o <<id>>) \o back = V \o (<<id>> \o back)
  <2>1. <<id>> \in Line
    BY DEF Line
  <2> QED BY <1>1, <1>3, <2>1, JoinedTwice, SMTT(30)
<1> QED BY <1>11, <1>12, <1>13, <1>14 DEF V, Z, back

(* A line is split at each of its places.                                  *)
LEMMA SplitAt ==
  ASSUME NEW s \in Line, NEW i \in 1 .. Len(s)
  PROVE  /\ SubSeq(s, 1, i - 1) \in Line /\ SubSeq(s, i + 1, Len(s)) \in Line
         /\ s = SubSeq(s, 1, i - 1) \o (<<s[i]>> \o SubSeq(s, i + 1, Len(s)))
<1>1. s \in Seq(Nat) /\ Len(s) \in Nat /\ \A k \in 1 .. Len(s) : s[k] \in Nat
  BY DEF Line
<1> DEFINE n == Len(s)
<1>2. SubSeq(s, 1, i - 1) \in Line /\ SubSeq(s, i + 1, n) \in Line
  <2>1. 1 \in Int /\ i - 1 \in Int /\ i + 1 \in Int /\ n \in Int
    BY <1>1
  <2>2. (\A k \in 1 .. i - 1 : s[k] \in Nat) /\ (\A k \in i + 1 .. n : s[k] \in Nat)
    BY <1>1
  <2> QED BY <2>1, <2>2, SubSeqProperties DEF Line
<1>3. SubSeq(s, i, n) = <<s[i]>> \o SubSeq(s, i + 1, n)
  <2>1. n \in i .. n
    BY <1>1
  <2> QED BY <1>1, <2>1, SubSeqRecursiveFirst
<1>4. s = SubSeq(s, 1, i - 1) \o SubSeq(s, i, n)
  <2>1. 1 \in 1 .. n + 1 /\ i - 1 \in 1 - 1 .. n /\ n \in i - 1 .. n /\ (i - 1) + 1 = i
    BY <1>1
  <2>2. SubSeq(s, 1, i - 1) \o SubSeq(s, (i - 1) + 1, n) = SubSeq(s, 1, n)
    BY ONLY <1>1, <2>1, ConcatAdjacentSubSeq
  <2> QED BY <1>1, <2>1, <2>2, SubSeqFull
<1> QED BY <1>2, <1>3, <1>4

(* A line from a place on begins with what is there.                       *)
LEMMA TailFrom ==
  ASSUME NEW q \in Line, Once(q), NEW j \in 1 .. Len(q)
  PROVE  LET r == SubSeq(q, j + 1, Len(q))
         IN  /\ r \in Line /\ q[j] \in Nat /\ SubSeq(q, j, Len(q)) = <<q[j]>> \o r
             /\ q[j] \notin InLine(r) /\ <<q[j]>> \in Line
             /\ InLine(<<q[j]>> \o r) = {q[j]} \cup InLine(r)
<1> DEFINE r == SubSeq(q, j + 1, Len(q))
           f == SubSeq(q, 1, j - 1)
<1>1. f \in Line /\ r \in Line /\ q = f \o (<<q[j]>> \o r)
  BY SplitAt
<1>2. q[j] \in Nat /\ <<q[j]>> \in Line /\ InLine(<<q[j]>>) = {q[j]}
  BY DEF Line, InLine
<1>3. SubSeq(q, j, Len(q)) = <<q[j]>> \o r
  <2>1. Len(q) \in j .. Len(q) /\ q \in Seq(Nat)
    BY DEF Line
  <2> QED BY <2>1, SubSeqRecursiveFirst
<1> HIDE DEF f, r
<1>4. <<q[j]>> \o r \in Line /\ InLine(<<q[j]>> \o r) = {q[j]} \cup InLine(r)
  BY <1>1, <1>2, Joined, ZenonT(30)
<1>5. Once(<<q[j]>> \o r)
  <2>1. Once(f \o (<<q[j]>> \o r))
    BY <1>1
  <2> QED BY ONLY <1>1, <1>4, <2>1, OnceJoined
<1>6. q[j] \notin InLine(r)
  <2>1. InLine(<<q[j]>>) \cap InLine(r) = {}
    BY ONLY <1>1, <1>2, <1>5, OnceJoined
  <2> QED BY <1>2, <2>1
<1> QED BY <1>1, <1>2, <1>3, <1>4, <1>6 DEF r

(* The rounds of restack.                                                  *)
IdAt(its, i) == IF i > Len(its) THEN 0 ELSE its[i].id
Rounds(c, its, m, on) ==
  on = [k \in 0 .. m |-> IF k = 0 THEN c
                         ELSE Repeater!StackBefore(on[k - 1], IdAt(its, Len(its) - k + 1),
                                                             IdAt(its, Len(its) - k + 2))]

(* The rounds of restack, for any number of them.                          *)
LEMMA RoundsExist ==
  ASSUME NEW c, NEW its, NEW n \in Nat
  PROVE  \E on : Rounds(c, its, n, on)
<1> DEFINE Next1(k, x) == Repeater!StackBefore(x, IdAt(its, Len(its) - k + 1), IdAt(its, Len(its) - k + 2))
           P == {m \in Nat : \E on : on = [k \in 0 .. m |-> IF k = 0 THEN c ELSE Next1(k, on[k - 1])]}
<1> HIDE DEF Next1
<1>1. 0 \in P
  <2> DEFINE on == [k \in 0 .. 0 |-> c]
  <2>1. on = [k \in 0 .. 0 |-> IF k = 0 THEN c ELSE Next1(k, on[k - 1])]
    OBVIOUS
  <2> QED BY <2>1
<1>2. ASSUME NEW m \in P PROVE m + 1 \in P
  <2>1. PICK on : on = [k \in 0 .. m |-> IF k = 0 THEN c ELSE Next1(k, on[k - 1])]
    OBVIOUS
  <2> DEFINE g == [k \in 0 .. m + 1 |-> IF k <= m THEN on[k] ELSE Next1(m + 1, on[m])]
  <2>2. \A k \in 0 .. m : on[k] = IF k = 0 THEN c ELSE Next1(k, on[k - 1])
    BY <2>1
  <2>3. ASSUME NEW k \in 0 .. m + 1
        PROVE  g[k] = IF k = 0 THEN c ELSE Next1(k, g[k - 1])
    <3>1. CASE k = 0
      BY <2>2, <3>1
    <3>2. CASE k \in 1 .. m
      <4>1. k \in 0 .. m /\ k - 1 \in 0 .. m + 1 /\ k - 1 <= m /\ k <= m /\ k # 0
        BY <3>2
      <4>2. g[k] = on[k] /\ g[k - 1] = on[k - 1]
        BY <4>1
      <4> HIDE DEF g
      <4> QED BY <2>2, <4>1, <4>2
    <3>3. CASE k = m + 1
      <4>1. k # 0 /\ ~(k <= m) /\ k - 1 = m /\ m \in 0 .. m + 1 /\ m <= m
        BY <3>3
      <4>2. g[k] = Next1(m + 1, on[m]) /\ g[k - 1] = on[m]
        BY <4>1
      <4> HIDE DEF g
      <4> QED BY <3>3, <4>1, <4>2
    <3>4. k = 0 \/ k \in 1 .. m \/ k = m + 1
      OBVIOUS
    <3> QED BY <3>1, <3>2, <3>3, <3>4
  <2>4. g = [k \in 0 .. m + 1 |-> g[k]]
    OBVIOUS
  <2> HIDE DEF g
  <2>5. g = [k \in 0 .. m + 1 |-> IF k = 0 THEN c ELSE Next1(k, g[k - 1])]
    BY <2>3, <2>4
  <2> QED BY <2>5
<1> HIDE DEF P
<1>3. P = Nat
  <2>1. P \in SUBSET Nat
    BY DEF P
  <2> QED BY ONLY <2>1, <1>1, <1>2, EveryNumber
<1> QED BY <1>3 DEF P, Rounds, Next1

(* The children of a have q in a row, and around it those of C, each once. *)
Around(a, q, C) == \E X \in Line, Y \in Line : /\ a = X \o (q \o Y)
                                              /\ Once(X \o Y) /\ InLine(X \o Y) = C \ InLine(q)

(* A round puts one more child in front of those in order.                 *)
LEMMA OneRound ==
  ASSUME NEW a, NEW C, NEW R \in Line, NEW id \in Nat, NEW next \in Nat, NEW T0,
         next \notin InLine(R), T0 = <<next>> \o R, InLine(T0) = {next} \cup InLine(R),
         id \notin InLine(T0), InLine(<<id>> \o T0) = {id} \cup InLine(T0),
         Around(a, T0, C)
  PROVE  Around(Repeater!StackBefore(a, id, next), <<id>> \o T0, C)
<1>0. PICK X \in Line, Y \in Line : /\ a = X \o (T0 \o Y)
                                    /\ Once(X \o Y) /\ InLine(X \o Y) = C \ InLine(T0)
  BY DEF Around
<1> DEFINE b == Repeater!StackBefore(a, id, next)
           T1 == <<id>> \o T0
<1> DEFINE V == Repeater!Without(X, {id})
           Z == Repeater!Without(Y, {id})
           W == Repeater!Without(R \o Y, {id})
<1>1. <<id>> \in Line /\ <<next>> \in Line
  BY DEF Line
<1>2. T0 \in Line /\ R \o Y \in Line /\ X \o Y \in Line
  BY <1>1, Joined
<1>3. InLine(R \o Y) = InLine(R) \cup InLine(Y) /\ InLine(X \o Y) = InLine(X) \cup InLine(Y)
  BY Joined
<1>4. id # next /\ next \notin InLine(X) /\ next \notin InLine(R \o Y) /\ InLine(R) \cap {id} = {}
  BY <1>0, <1>3
<1>5. a = X \o (<<next>> \o (R \o Y))
  <2>1. (<<next>> \o R) \o Y = <<next>> \o (R \o Y)
    BY <1>1, JoinedTwice
  <2> QED BY <1>0, <2>1
<1>6. b = V \o (<<id>> \o (<<next>> \o W))
  <2> DEFINE RY == R \o Y
  <2>1. RY \in Line /\ next \notin InLine(RY) /\ a = X \o (<<next>> \o RY)
    BY ONLY <1>2, <1>4, <1>5
  <2>2. X \in Line /\ id \in Nat /\ next \in Nat /\ id # next /\ next \notin InLine(X)
    BY <1>4
  <2> HIDE DEF RY
  <2>3. Repeater!StackBefore(X \o (<<next>> \o RY), id, next)
          = Repeater!Without(X, {id}) \o (<<id>> \o (<<next>> \o Repeater!Without(RY, {id})))
    BY ONLY <2>1, <2>2, StackBeforeIs, ZenonT(60)
  <2> QED BY ONLY <2>1, <2>3 DEF RY, V, W, b
<1>7. W = R \o Z
  <2>1. Repeater!Without(R \o Y, {id}) = Repeater!Without(R, {id}) \o Repeater!Without(Y, {id})
    BY WithoutJoined
  <2>2. Repeater!Without(R, {id}) = R
    BY <1>4, WithoutLeaves
  <2> QED BY <2>1, <2>2
<1>8. V \in Line /\ Z \in Line
  BY WithoutLeaves
<1>9. V \o Z = Repeater!Without(X \o Y, {id})
  BY WithoutJoined
<1>10. Once(V \o Z) /\ InLine(V \o Z) = C \ InLine(T1)
  <2> HIDE DEF V, Z
  <2> DEFINE XY == X \o Y
  <2>0. XY \in Line /\ Once(XY) /\ V \o Z = Repeater!Without(XY, {id})
    BY <1>0, <1>2, <1>9
  <2> HIDE DEF XY
  <2>1. Once(V \o Z) /\ InLine(V \o Z) = InLine(XY) \ {id}
    BY ONLY <2>0, WithoutLeaves
  <2> QED BY <1>0, <2>1 DEF XY
<1> HIDE DEF V, Z, W
<1>11. b = V \o (T1 \o Z)
  <2>1. (<<next>> \o R) \o Z = <<next>> \o (R \o Z)
    BY <1>1, <1>8, JoinedTwice
  <2>2. (<<id>> \o T0) \o Z = <<id>> \o (T0 \o Z)
    <3>1. <<id>> \in Line /\ T0 \in Line /\ Z \in Line
      BY <1>1, <1>2, <1>8
    <3> QED BY ONLY <3>1, JoinedTwice
  <2> QED BY <1>6, <1>7, <2>1, <2>2
<1> HIDE DEF b, T1
<1>12. b = V \o (T1 \o Z) /\ Once(V \o Z) /\ InLine(V \o Z) = C \ InLine(T1)
  BY ONLY <1>10, <1>11
<1>13. Around(b, T1, C)
  BY ONLY <1>8, <1>12 DEF Around
<1> QED BY ONLY <1>13 DEF b, T1

(* restack: the items in their order, right in front of the repeater.      *)
LEMMA RestackedIs ==
  ASSUME NEW c \in Line, Once(c), 0 \in InLine(c), NEW its, Len(its) \in Nat,
         NEW q \in Line, Once(q), Len(q) = Len(its) + 1, q[Len(its) + 1] = 0,
         \A i \in 1 .. Len(its) : q[i] = its[i].id
  PROVE  Around(Repeater!Restacked(c, its), q, InLine(c))
<1> DEFINE n == Len(its)
           on == CHOOSE f : Rounds(c, its, n, f)
           T(k) == SubSeq(q, n + 1 - k, n + 1)
           Good(k) == Around(on[k], T(k), InLine(c))
           Q == {k \in Nat : k <= n => Good(k)}
<1>1. Rounds(c, its, n, on)
  BY RoundsExist, Zenon
<1>2. Repeater!Restacked(c, its) = on[n]
  BY Zenon DEF Repeater!Restacked, Rounds, IdAt, Repeater!Self
<1> HIDE DEF on
<1>3. \A k \in 0 .. n : on[k] = IF k = 0 THEN c
                         ELSE Repeater!StackBefore(on[k - 1], IdAt(its, n - k + 1), IdAt(its, n - k + 2))
  BY <1>1 DEF Rounds
<1>4. \A i \in 1 .. n + 1 : IdAt(its, i) = q[i]
  <2>1. \A i \in 1 .. n + 1 : i \in 1 .. n \/ (i = n + 1 /\ i > n)
    OBVIOUS
  <2>2. \A i \in 1 .. n : ~(i > n)
    OBVIOUS
  <2> QED BY <2>1, <2>2 DEF IdAt
<1>5. \A j \in 1 .. n + 1 :
        /\ SubSeq(q, j + 1, n + 1) \in Line /\ q[j] \in Nat
        /\ SubSeq(q, j, n + 1) = <<q[j]>> \o SubSeq(q, j + 1, n + 1)
        /\ q[j] \notin InLine(SubSeq(q, j + 1, n + 1)) /\ <<q[j]>> \in Line
        /\ InLine(SubSeq(q, j, n + 1)) = {q[j]} \cup InLine(SubSeq(q, j + 1, n + 1))
  BY TailFrom
<1>6. 0 \in Q
  <2>1. PICK i \in 1 .. Len(c) : c[i] = 0
    BY DEF InLine
  <2> DEFINE X == SubSeq(c, 1, i - 1)
             Y == SubSeq(c, i + 1, Len(c))
  <2>2. X \in Line /\ Y \in Line /\ c = X \o (<<0>> \o Y)
    BY <2>1, SplitAt
  <2>3. T(0) = <<0>>
    <3>1. n + 1 \in 1 .. n + 1 /\ n + 1 - 0 = n + 1
      OBVIOUS
    <3>2. SubSeq(q, (n + 1) + 1, n + 1) = <<>>
      BY SubSeqEmpty
    <3>3. SubSeq(q, n + 1, n + 1) = <<0>> \o <<>> /\ <<0>> \in Line
      BY <1>5, <3>1, <3>2
    <3> QED BY <3>1, <3>3, Joined
  <2>4. <<0>> \in Line /\ InLine(<<0>>) = {0}
    BY DEF Line, InLine
  <2> HIDE DEF X, Y
  <2>5. /\ <<0>> \o Y \in Line /\ InLine(<<0>> \o Y) = {0} \cup InLine(Y)
        /\ InLine(c) = InLine(X) \cup InLine(<<0>> \o Y)
        /\ X \o Y \in Line /\ InLine(X \o Y) = InLine(X) \cup InLine(Y)
    BY <2>2, <2>4, Joined
  <2>6. Once(X) /\ Once(<<0>> \o Y) /\ InLine(X) \cap InLine(<<0>> \o Y) = {}
    BY <2>2, <2>5, OnceJoined
  <2>7. Once(Y) /\ 0 \notin InLine(Y)
    BY <2>2, <2>4, <2>6, OnceJoined
  <2>8. Once(X \o Y) /\ InLine(X \o Y) = InLine(c) \ InLine(T(0))
    <3>1. InLine(X) \cap InLine(Y) = {}
      BY <2>5, <2>6
    <3>2. Once(X \o Y)
      BY ONLY <2>2, <2>6, <2>7, <3>1, OnceJoined
    <3>3. InLine(T(0)) = {0}
      BY ONLY <2>3, <2>4
    <3>4. InLine(X \o Y) = InLine(c) \ {0}
      BY ONLY <2>5, <2>6, <2>7
    <3> QED BY ONLY <3>2, <3>3, <3>4
  <2>9. on[0] = X \o (T(0) \o Y)
    <3>1. 0 \in 0 .. n
      OBVIOUS
    <3>2. on[0] = c
      BY ONLY <1>3, <3>1
    <3> QED BY ONLY <2>2, <2>3, <3>2
  <2>10. Good(0)
    BY ONLY <2>2, <2>8, <2>9 DEF Good, Around
  <2> QED BY <2>10
<1> HIDE DEF Good, Q
<1>7a. ASSUME NEW k \in Nat, k + 1 <= n, Good(k) PROVE Good(k + 1)
  <2>0. k \in Nat /\ k <= n /\ k + 1 \in 0 .. n /\ k + 1 # 0 /\ (k + 1) - 1 = k
    BY <1>7a
  <2> DEFINE id == q[n - k]
             next == q[n + 1 - k]
             R == SubSeq(q, n + 2 - k, n + 1)
  <2>2. /\ n - k \in 1 .. n + 1 /\ n + 1 - k \in 1 .. n + 1
        /\ (n - k) + 1 = n + 1 - k /\ (n + 1 - k) + 1 = n + 2 - k /\ n + 1 - (k + 1) = n - k
        /\ n - (k + 1) + 1 = n - k /\ n - (k + 1) + 2 = n + 1 - k
    BY <2>0
  <2>3. /\ R \in Line /\ next \in Nat /\ T(k) = <<next>> \o R /\ next \notin InLine(R)
        /\ InLine(T(k)) = {next} \cup InLine(R)
    BY <1>5, <2>2
  <2>4. /\ id \in Nat /\ T(k + 1) = <<id>> \o T(k) /\ id \notin InLine(T(k))
        /\ InLine(T(k + 1)) = {id} \cup InLine(T(k))
    BY <1>5, <2>2
  <2>5. on[k + 1] = Repeater!StackBefore(on[k], id, next)
    BY <1>3, <1>4, <2>0, <2>2
  <2> DEFINE a == on[k]
             T0 == T(k)
             C == InLine(c)
  <2>6. Around(a, T0, C)
    BY <1>7a DEF Good
  <2> HIDE DEF id, next, R, a, T0, C, T
  <2>7. Around(Repeater!StackBefore(a, id, next), <<id>> \o T0, C)
    <3>1. /\ T0 = <<next>> \o R /\ InLine(T0) = {next} \cup InLine(R)
          /\ id \notin InLine(T0) /\ InLine(<<id>> \o T0) = {id} \cup InLine(T0)
      BY ONLY <2>3, <2>4 DEF T0
    <3>2. R \in Line /\ next \in Nat /\ id \in Nat /\ next \notin InLine(R)
      BY ONLY <2>3, <2>4
    <3> QED BY ONLY <2>6, <3>1, <3>2, OneRound
  <2> QED BY ONLY <2>4, <2>5, <2>7 DEF Good, a, T0, C
<1>7. ASSUME NEW k \in Q PROVE k + 1 \in Q
  <2>1. k \in Nat /\ k + 1 \in Nat /\ (k + 1 <= n => k <= n) /\ (k <= n => Good(k))
    BY DEF Q
  <2> QED BY <1>7a, <2>1 DEF Q
<1>8. Q = Nat
  <2>1. Q \in SUBSET Nat
    BY DEF Q
  <2> QED BY ONLY <2>1, <1>6, <1>7, EveryNumber
<1>9. Around(on[n], T(n), InLine(c))
  BY <1>8 DEF Q, Good
<1>10. T(n) = q
  <2>1. n + 1 - n = 1 /\ q \in Seq(Nat)
    BY DEF Line
  <2> QED BY <2>1, SubSeqFull
<1> QED BY ONLY <1>2, <1>9, <1>10

-----------------------------------------------------------------------------
(* Sequences that are put together, and parts of them.                     *)
LEMMA Parts ==
  ASSUME NEW S, NEW s \in Seq(S), NEW i \in 1 .. Len(s) + 1, NEW j \in (i - 1) .. Len(s)
  PROVE  /\ SubSeq(s, i, j) \in Seq(S) /\ Len(SubSeq(s, i, j)) = j - i + 1
         /\ \A k \in 1 .. j - i + 1 : SubSeq(s, i, j)[k] = s[i + k - 1] /\ i + k - 1 \in 1 .. Len(s)
<1>1. i \in Int /\ j \in Int /\ Len(s) \in Nat
  OBVIOUS
<1>2. \A k \in i .. j : s[k] \in S
  OBVIOUS
<1>3. /\ SubSeq(s, i, j) \in Seq(S)
      /\ Len(SubSeq(s, i, j)) = IF i <= j THEN j - i + 1 ELSE 0
      /\ \A k \in 1 .. j - i + 1 : SubSeq(s, i, j)[k] = s[i + k - 1]
  BY ONLY <1>1, <1>2, SubSeqProperties
<1> QED BY <1>1, <1>3

(* The front of a sequence that was put together, and its back.            *)
LEMMA FrontAndBack ==
  ASSUME NEW S, NEW s \in Seq(S), NEW t \in Seq(S), NEW n, n = Len(s)
  PROVE  SubSeq(s \o t, 1, n) = s /\ SubSeq(s \o t, n + 1, Len(s \o t)) = t
<1> DEFINE u == s \o t
<1>1. /\ u \in Seq(S) /\ Len(u) = n + Len(t) /\ n \in Nat /\ Len(t) \in Nat
      /\ \A i \in 1 .. n + Len(t) : u[i] = IF i <= n THEN s[i] ELSE t[i - n]
  BY ConcatProperties
<1> HIDE DEF u
<1>2. /\ SubSeq(u, 1, n) \in Seq(S) /\ Len(SubSeq(u, 1, n)) = n
      /\ \A k \in 1 .. n : SubSeq(u, 1, n)[k] = u[k]
  <2>1. 1 \in 1 .. Len(u) + 1 /\ n \in (1 - 1) .. Len(u)
    BY <1>1
  <2>2. /\ SubSeq(u, 1, n) \in Seq(S) /\ Len(SubSeq(u, 1, n)) = n - 1 + 1
        /\ \A k \in 1 .. n - 1 + 1 : SubSeq(u, 1, n)[k] = u[1 + k - 1]
    BY ONLY <1>1, <2>1, Parts
  <2> QED BY <1>1, <2>2
<1>3. SubSeq(u, 1, n) = s
  <2>1. \A k \in 1 .. n : SubSeq(u, 1, n)[k] = s[k]
    BY <1>1, <1>2
  <2> QED BY <1>2, <2>1, SeqEqual
<1>4. /\ SubSeq(u, n + 1, Len(u)) \in Seq(S) /\ Len(SubSeq(u, n + 1, Len(u))) = Len(t)
      /\ \A k \in 1 .. Len(t) : SubSeq(u, n + 1, Len(u))[k] = u[n + k]
  <2>1. n + 1 \in 1 .. Len(u) + 1 /\ Len(u) \in ((n + 1) - 1) .. Len(u)
    BY <1>1
  <2>2. /\ SubSeq(u, n + 1, Len(u)) \in Seq(S) /\ Len(SubSeq(u, n + 1, Len(u))) = Len(u) - (n + 1) + 1
        /\ \A k \in 1 .. Len(u) - (n + 1) + 1 : SubSeq(u, n + 1, Len(u))[k] = u[(n + 1) + k - 1]
    BY ONLY <1>1, <2>1, Parts
  <2> QED BY <1>1, <2>2
<1>5. SubSeq(u, n + 1, Len(u)) = t
  <2>1. ASSUME NEW k \in 1 .. Len(t) PROVE SubSeq(u, n + 1, Len(u))[k] = t[k]
    <3>1. n + k \in 1 .. n + Len(t) /\ ~(n + k <= n) /\ (n + k) - n = k
      BY <1>1
    <3> QED BY <1>1, <1>4, <3>1
  <2> QED BY <1>4, <2>1, SeqEqual
<1> QED BY <1>3, <1>5 DEF u

(* A sequence is its parts up to a place and from there on.                *)
LEMMA CutOnce ==
  ASSUME NEW S, NEW s \in Seq(S), NEW i \in 1 .. Len(s) + 1
  PROVE  /\ SubSeq(s, 1, i - 1) \in Seq(S) /\ SubSeq(s, i, Len(s)) \in Seq(S)
         /\ Len(SubSeq(s, 1, i - 1)) = i - 1 /\ Len(SubSeq(s, i, Len(s))) = Len(s) - i + 1
         /\ s = SubSeq(s, 1, i - 1) \o SubSeq(s, i, Len(s))
         /\ \A k \in 1 .. i - 1 : SubSeq(s, 1, i - 1)[k] = s[k]
<1>1. /\ 1 \in 1 .. Len(s) + 1 /\ i - 1 \in (1 - 1) .. Len(s) /\ Len(s) \in (i - 1) .. Len(s)
      /\ (i - 1) + 1 = i /\ (i - 1) - 1 + 1 = i - 1
  OBVIOUS
<1>2. /\ SubSeq(s, 1, i - 1) \in Seq(S) /\ Len(SubSeq(s, 1, i - 1)) = (i - 1) - 1 + 1
      /\ \A k \in 1 .. (i - 1) - 1 + 1 : SubSeq(s, 1, i - 1)[k] = s[1 + k - 1]
  BY ONLY <1>1, s \in Seq(S), Parts
<1>3. SubSeq(s, i, Len(s)) \in Seq(S) /\ Len(SubSeq(s, i, Len(s))) = Len(s) - i + 1
  BY <1>1, Parts
<1>4. SubSeq(s, 1, i - 1) \o SubSeq(s, (i - 1) + 1, Len(s)) = SubSeq(s, 1, Len(s))
  BY <1>1, ConcatAdjacentSubSeq
<1>5. SubSeq(s, 1, Len(s)) = s
  BY SubSeqFull
<1>6. \A k \in 1 .. i - 1 : 1 + k - 1 = k
  OBVIOUS
<1> QED BY <1>1, <1>2, <1>3, <1>4, <1>5, <1>6, Zenon

(* ... and from there to a later one, and from that on.                    *)
LEMMA CutTwice ==
  ASSUME NEW S, NEW s \in Seq(S), NEW i \in 1 .. Len(s) + 1, NEW j \in i .. Len(s) + 1
  PROVE  /\ SubSeq(s, i, j - 1) \in Seq(S) /\ Len(SubSeq(s, i, j - 1)) = j - i
         /\ SubSeq(s, i, Len(s)) = SubSeq(s, i, j - 1) \o SubSeq(s, j, Len(s))
<1>1. j - 1 \in (i - 1) .. Len(s) /\ Len(s) \in (j - 1) .. Len(s) /\ (j - 1) + 1 = j /\ (j - 1) - i + 1 = j - i
  OBVIOUS
<1>2. SubSeq(s, i, j - 1) \in Seq(S) /\ Len(SubSeq(s, i, j - 1)) = (j - 1) - i + 1
  BY <1>1, Parts
<1>3. SubSeq(s, i, j - 1) \o SubSeq(s, (j - 1) + 1, Len(s)) = SubSeq(s, i, Len(s))
  BY <1>1, ConcatAdjacentSubSeq
<1> QED BY <1>1, <1>2, <1>3

-----------------------------------------------------------------------------
(* The items of the repeater, and what they show.                          *)
RepeaterRow == RepeaterRows \cup Nat
RepeaterItem == [id : Nat, row : RepeaterRow, index : Int]
ItemList == Seq(RepeaterItem)
IdsOf(its) == Repeater!Ids(its)
RowsOf(its) == [i \in 1 .. Len(its) |-> its[i].row]
Indexed(its) == \A i \in 1 .. Len(its) : its[i].index = i - 1

(* The ids and the rows of items, place by place.                          *)
LEMMA IdsAndRows ==
  ASSUME NEW s \in ItemList
  PROVE  /\ IdsOf(s) = [i \in 1 .. Len(s) |-> s[i].id] /\ Len(s) \in Nat
         /\ IdsOf(s) \in Line /\ Len(IdsOf(s)) = Len(s) /\ \A i \in 1 .. Len(s) : IdsOf(s)[i] = s[i].id
         /\ RowsOf(s) \in Seq(RepeaterRow) /\ Len(RowsOf(s)) = Len(s)
         /\ \A i \in 1 .. Len(s) : RowsOf(s)[i] = s[i].row
<1>1. Len(s) \in Nat /\ DOMAIN s = 1 .. Len(s) /\ \A i \in 1 .. Len(s) : s[i] \in RepeaterItem
  BY DEF ItemList
<1>2. \A i \in 1 .. Len(s) : s[i].id \in Nat /\ s[i].row \in RepeaterRow
  BY <1>1 DEF RepeaterItem
<1>3. IdsOf(s) = [i \in 1 .. Len(s) |-> s[i].id]
  BY <1>1 DEF IdsOf, Repeater!Ids
<1>4. IdsOf(s) \in [1 .. Len(s) -> Nat] /\ RowsOf(s) \in [1 .. Len(s) -> RepeaterRow]
  BY <1>2, <1>3 DEF RowsOf
<1>5. IdsOf(s) \in Seq(Nat) /\ RowsOf(s) \in Seq(RepeaterRow)
  BY <1>1, <1>4, IsASeq
<1>6. DOMAIN IdsOf(s) = 1 .. Len(s) /\ DOMAIN RowsOf(s) = 1 .. Len(s)
  BY <1>4
<1>7. Len(IdsOf(s)) = Len(s) /\ Len(RowsOf(s)) = Len(s)
  BY <1>1, <1>5, <1>6, LenProperties
<1> QED BY <1>1, <1>3, <1>5, <1>7 DEF Line, RowsOf

(* The items of two runs have the ids and the rows of both.                *)
LEMMA IdsAndRowsJoined ==
  ASSUME NEW s \in ItemList, NEW t \in ItemList
  PROVE  /\ s \o t \in ItemList /\ Len(s \o t) = Len(s) + Len(t)
         /\ IdsOf(s \o t) = IdsOf(s) \o IdsOf(t)
         /\ RowsOf(s \o t) = RowsOf(s) \o RowsOf(t)
         /\ Len(s) \in Nat /\ Len(t) \in Nat
         /\ \A i \in 1 .. Len(s) : (s \o t)[i] = s[i]
         /\ \A i \in 1 .. Len(t) : (s \o t)[Len(s) + i] = t[i]
<1> DEFINE u == s \o t
<1>1. /\ u \in ItemList /\ Len(u) = Len(s) + Len(t) /\ Len(s) \in Nat /\ Len(t) \in Nat
      /\ \A i \in 1 .. Len(s) + Len(t) : u[i] = IF i <= Len(s) THEN s[i] ELSE t[i - Len(s)]
  BY ConcatProperties DEF ItemList
<1> HIDE DEF u
<1>2. \A i \in 1 .. Len(s) : u[i] = s[i]
  BY <1>1
<1>3. ASSUME NEW i \in 1 .. Len(t) PROVE u[Len(s) + i] = t[i]
  <2>1. Len(s) + i \in 1 .. Len(s) + Len(t) /\ ~(Len(s) + i <= Len(s)) /\ (Len(s) + i) - Len(s) = i
    BY <1>1
  <2> QED BY <1>1, <2>1
<1>4. /\ IdsOf(u) \in Seq(Nat) /\ Len(IdsOf(u)) = Len(u) /\ \A i \in 1 .. Len(u) : IdsOf(u)[i] = u[i].id
      /\ IdsOf(s) \in Seq(Nat) /\ Len(IdsOf(s)) = Len(s) /\ \A i \in 1 .. Len(s) : IdsOf(s)[i] = s[i].id
      /\ IdsOf(t) \in Seq(Nat) /\ Len(IdsOf(t)) = Len(t) /\ \A i \in 1 .. Len(t) : IdsOf(t)[i] = t[i].id
  BY <1>1, IdsAndRows DEF Line
<1>5. /\ RowsOf(u) \in Seq(RepeaterRow) /\ Len(RowsOf(u)) = Len(u) /\ \A i \in 1 .. Len(u) : RowsOf(u)[i] = u[i].row
      /\ RowsOf(s) \in Seq(RepeaterRow) /\ Len(RowsOf(s)) = Len(s) /\ \A i \in 1 .. Len(s) : RowsOf(s)[i] = s[i].row
      /\ RowsOf(t) \in Seq(RepeaterRow) /\ Len(RowsOf(t)) = Len(t) /\ \A i \in 1 .. Len(t) : RowsOf(t)[i] = t[i].row
  BY <1>1, IdsAndRows
<1> DEFINE a == IdsOf(s) \o IdsOf(t)
           b == RowsOf(s) \o RowsOf(t)
<1>6. /\ a \in Seq(Nat) /\ Len(a) = Len(u)
      /\ \A i \in 1 .. Len(s) + Len(t) : a[i] = IF i <= Len(s) THEN IdsOf(s)[i] ELSE IdsOf(t)[i - Len(s)]
  <2>1. /\ a \in Seq(Nat) /\ Len(a) = Len(IdsOf(s)) + Len(IdsOf(t))
        /\ \A i \in 1 .. Len(IdsOf(s)) + Len(IdsOf(t)) :
              a[i] = IF i <= Len(IdsOf(s)) THEN IdsOf(s)[i] ELSE IdsOf(t)[i - Len(IdsOf(s))]
    <3>1. IdsOf(s) \in Seq(Nat) /\ IdsOf(t) \in Seq(Nat)
      BY ONLY <1>4
    <3> HIDE DEF RepeaterRow
    <3> QED BY ONLY <3>1, ConcatProperties
  <2> QED BY ONLY <1>1, <1>4, <2>1
<1>7. /\ b \in Seq(RepeaterRow) /\ Len(b) = Len(u)
      /\ \A i \in 1 .. Len(s) + Len(t) : b[i] = IF i <= Len(s) THEN RowsOf(s)[i] ELSE RowsOf(t)[i - Len(s)]
  <2>1. /\ b \in Seq(RepeaterRow) /\ Len(b) = Len(RowsOf(s)) + Len(RowsOf(t))
        /\ \A i \in 1 .. Len(RowsOf(s)) + Len(RowsOf(t)) :
              b[i] = IF i <= Len(RowsOf(s)) THEN RowsOf(s)[i] ELSE RowsOf(t)[i - Len(RowsOf(s))]
    <3>1. RowsOf(s) \in Seq(RepeaterRow) /\ RowsOf(t) \in Seq(RepeaterRow)
      BY ONLY <1>5
    <3> HIDE DEF RepeaterRow
    <3> QED BY ONLY <3>1, ConcatProperties
  <2> QED BY ONLY <1>1, <1>5, <2>1
<1> HIDE DEF a, b
<1>8. ASSUME NEW i \in 1 .. Len(u) PROVE IdsOf(u)[i] = a[i] /\ RowsOf(u)[i] = b[i]
  <2>1. CASE i <= Len(s)
    <3>1. i \in 1 .. Len(s)
      BY <1>1, <2>1
    <3> QED BY <1>1, <1>4, <1>5, <1>6, <1>7, <2>1, <3>1, ZenonT(30)
  <2>2. CASE ~(i <= Len(s))
    <3>1. i - Len(s) \in 1 .. Len(t)
      BY <1>1, <2>2
    <3> QED BY <1>1, <1>4, <1>5, <1>6, <1>7, <2>2, <3>1
  <2> QED BY <2>1, <2>2
<1>9. IdsOf(u) = a
  BY <1>4, <1>6, <1>8, SeqEqual
<1>10. RowsOf(u) = b
  BY <1>5, <1>7, <1>8, SeqEqual
<1> QED BY <1>1, <1>2, <1>3, <1>9, <1>10 DEF u, a, b

(* updateIndices leaves ids and rows alone and sets the indices from a     *)
(* place on.                                                               *)
LEMMA ReindexedIs ==
  ASSUME NEW s \in ItemList, NEW from \in Int, \A i \in 1 .. Len(s) : i < from => s[i].index = i - 1
  PROVE  LET r == Repeater!Reindexed(s, from)
         IN  /\ r \in ItemList /\ Len(r) = Len(s) /\ IdsOf(r) = IdsOf(s) /\ RowsOf(r) = RowsOf(s)
             /\ Indexed(r)
<1> DEFINE r == Repeater!Reindexed(s, from)
<1>1. Len(s) \in Nat /\ DOMAIN s = 1 .. Len(s) /\ \A i \in 1 .. Len(s) : s[i] \in RepeaterItem
  BY DEF ItemList
<1>2. r = [i \in 1 .. Len(s) |-> IF i >= from THEN [s[i] EXCEPT !.index = i - 1] ELSE s[i]]
  BY <1>1 DEF Repeater!Reindexed
<1>3. ASSUME NEW i \in 1 .. Len(s), NEW x \in RepeaterItem
      PROVE  LET y == [x EXCEPT !.index = i - 1]
             IN  y \in RepeaterItem /\ y.id = x.id /\ y.row = x.row /\ y.index = i - 1
  BY DEF RepeaterItem
<1>4. ASSUME NEW i \in 1 .. Len(s)
      PROVE r[i] \in RepeaterItem /\ r[i].id = s[i].id /\ r[i].row = s[i].row /\ r[i].index = i - 1
  <2>1. r[i] = IF i >= from THEN [s[i] EXCEPT !.index = i - 1] ELSE s[i]
    BY <1>2
  <2> HIDE DEF r
  <2>2. CASE i >= from
    BY <1>1, <1>3, <2>1, <2>2
  <2>3. CASE ~(i >= from)
    BY <1>1, <2>1, <2>3
  <2> QED BY <2>2, <2>3
<1>5. DOMAIN r = 1 .. Len(s)
  BY <1>2
<1>6. r = [i \in 1 .. Len(s) |-> r[i]]
  BY <1>2
<1> HIDE DEF r
<1>7. r \in [1 .. Len(s) -> RepeaterItem]
  BY <1>4, <1>6
<1>8. r \in ItemList /\ Len(r) = Len(s)
  BY <1>1, <1>5, <1>7, IsASeq, LenProperties DEF ItemList
<1>9. IdsOf(r) = IdsOf(s) /\ RowsOf(r) = RowsOf(s)
  BY <1>4, <1>8, IdsAndRows DEF RowsOf
<1>10. Indexed(r)
  BY <1>4, <1>8 DEF Indexed
<1> QED BY <1>8, <1>9, <1>10 DEF r

-----------------------------------------------------------------------------
(* The children st of the parent: the items in their order and then the    *)
(* repeater, and those of lv, which leave, anywhere between them.          *)
Stacked(st, its, lv) ==
  /\ st \in Line /\ Once(st) /\ lv \subseteq InLine(st)
  /\ Repeater!Without(st, lv) = IdsOf(its) \o <<0>>

(* Items with an id each, of those given out so far, which leave not.      *)
Apart(its, lv, n) ==
  /\ its \in ItemList /\ Once(IdsOf(its)) /\ InLine(IdsOf(its)) \subseteq 1 .. n
  /\ lv \subseteq 1 .. n /\ lv \cap InLine(IdsOf(its)) = {}

(* The repeater alone.                                                     *)
LEMMA JustTheRepeater == <<0>> \in Line /\ InLine(<<0>>) = {0} /\ Once(<<0>>)
<1>1. Len(<<0>>) = 1 /\ <<0>>[1] = 0 /\ <<0>> \in Seq(Nat)
  OBVIOUS
<1> QED BY <1>1 DEF Line, InLine, Once

(* Among the children are the items, those that leave and the repeater.    *)
LEMMA StackHas ==
  ASSUME NEW its \in ItemList, NEW lv, NEW st, Stacked(st, its, lv)
  PROVE  InLine(st) = lv \cup InLine(IdsOf(its)) \cup {0}
<1>1. IdsOf(its) \in Line
  BY IdsAndRows
<1>2. InLine(IdsOf(its) \o <<0>>) = InLine(IdsOf(its)) \cup {0}
  BY <1>1, JustTheRepeater, Joined
<1>3. st \in Line /\ lv \subseteq InLine(st) /\ Repeater!Without(st, lv) = IdsOf(its) \o <<0>>
  BY DEF Stacked
<1>4. InLine(Repeater!Without(st, lv)) = InLine(st) \ lv
  BY <1>3, WithoutLeaves
<1> QED BY <1>2, <1>3, <1>4

(* restack puts the items in their order, and leaves who leaves where it   *)
(* was.                                                                    *)
LEMMA Restacks ==
  ASSUME NEW its, NEW lv, NEW n \in Nat, Apart(its, lv, n),
         NEW c \in Line, Once(c), InLine(c) = lv \cup InLine(IdsOf(its)) \cup {0}
  PROVE  Stacked(Repeater!Restacked(c, its), its, lv)
<1> DEFINE ids == IdsOf(its)
           q == ids \o <<0>>
           r == Repeater!Restacked(c, its)
           m == Len(its)
<1>1. /\ its \in ItemList /\ ids \in Line /\ Once(ids) /\ 0 \notin InLine(ids) /\ 0 \notin lv
      /\ lv \cap InLine(ids) = {}
  BY IdsAndRows DEF Apart
<1>2. /\ m \in Nat /\ Len(ids) = m /\ \A i \in 1 .. m : ids[i] = its[i].id
  BY <1>1, IdsAndRows
<1> HIDE DEF ids
<1>3. q \in Line /\ InLine(q) = InLine(ids) \cup {0}
  BY <1>1, JustTheRepeater, Joined, ZenonT(30)
<1>4. Once(q)
  <2>1. InLine(ids) \cap InLine(<<0>>) = {}
    BY <1>1, JustTheRepeater
  <2> QED BY <1>1, <2>1, JustTheRepeater, OnceJoined
<1>5. Len(q) = m + 1 /\ q[m + 1] = 0 /\ \A i \in 1 .. m : q[i] = its[i].id
  <2>1. /\ Len(q) = Len(ids) + Len(<<0>>)
        /\ \A i \in 1 .. Len(ids) + Len(<<0>>) : q[i] = IF i <= Len(ids) THEN ids[i] ELSE <<0>>[i - Len(ids)]
    BY <1>1, JustTheRepeater, ConcatProperties DEF Line
  <2>2. Len(<<0>>) = 1 /\ <<0>>[1] = 0
    OBVIOUS
  <2>3. m + 1 \in 1 .. m + 1 /\ ~(m + 1 <= m) /\ (m + 1) - m = 1
    BY <1>2
  <2> HIDE DEF q
  <2>4. \A i \in 1 .. m : i \in 1 .. m + 1 /\ i <= m
    BY <1>2
  <2> QED BY <1>2, <2>1, <2>2, <2>3, <2>4
<1> HIDE DEF q, r
<1>6. Around(r, q, InLine(c))
  <2>1. 0 \in InLine(c)
    OBVIOUS
  <2> QED BY <1>2, <1>3, <1>4, <1>5, <2>1, RestackedIs DEF r
<1>7. PICK X \in Line, Y \in Line : /\ r = X \o (q \o Y)
                                    /\ Once(X \o Y) /\ InLine(X \o Y) = InLine(c) \ InLine(q)
  BY <1>6 DEF Around
<1>8. InLine(X) \cup InLine(Y) = lv /\ q \o Y \in Line /\ InLine(q \o Y) = InLine(q) \cup InLine(Y)
  <2>1. InLine(X \o Y) = InLine(X) \cup InLine(Y)
    BY Joined
  <2>2. InLine(c) \ InLine(q) = lv
    BY <1>1, <1>3 DEF ids
  <2>3. q \o Y \in Line /\ InLine(q \o Y) = InLine(q) \cup InLine(Y)
    BY <1>3, Joined
  <2> QED BY <1>7, <2>1, <2>2, <2>3
<1>9. Repeater!Without(X, lv) = <<>> /\ Repeater!Without(Y, lv) = <<>> /\ Repeater!Without(q, lv) = q
  <2>1. InLine(X) \subseteq lv /\ InLine(Y) \subseteq lv /\ InLine(q) \cap lv = {}
    BY <1>1, <1>3, <1>8
  <2> QED BY <1>3, <2>1, WithoutLeaves
<1>10. Repeater!Without(r, lv) = q
  <2>1. Repeater!Without(q \o Y, lv) = Repeater!Without(q, lv) \o Repeater!Without(Y, lv)
    BY <1>3, WithoutJoined
  <2>2. Repeater!Without(X \o (q \o Y), lv) = Repeater!Without(X, lv) \o Repeater!Without(q \o Y, lv)
    BY <1>8, WithoutJoined
  <2>3. q \o <<>> = q /\ <<>> \o q = q
    BY <1>3, Joined
  <2> QED BY <1>7, <1>9, <2>1, <2>2, <2>3
<1>11. r \in Line /\ InLine(r) = InLine(X) \cup InLine(q \o Y)
  BY <1>7, <1>8, Joined
<1>12. Once(r)
  <2>1. Once(X) /\ Once(Y) /\ InLine(X) \cap InLine(Y) = {}
    BY <1>7, OnceJoined
  <2>2. InLine(q) \cap InLine(Y) = {} /\ InLine(X) \cap InLine(q \o Y) = {}
    BY <1>1, <1>3, <1>8, <2>1
  <2>3. Once(q \o Y)
    BY <1>3, <1>4, <2>1, <2>2, OnceJoined
  <2> QED BY <1>7, <1>8, <2>1, <2>2, <2>3, OnceJoined
<1>13. lv \subseteq InLine(r)
  BY <1>8, <1>11
<1> QED BY <1>10, <1>11, <1>12, <1>13 DEF Stacked, q, r, ids

(* Items that are put between others.                                      *)
Inserts(st, A, N, B, lv, n) ==
  /\ n \in Nat /\ A \in ItemList /\ B \in ItemList /\ N \in ItemList
  /\ Apart(A \o B, lv, n) /\ Stacked(st, A \o B, lv)
  /\ Once(IdsOf(N)) /\ InLine(IdsOf(N)) \subseteq n + 1 .. n + Len(N)

(* Items that are inserted are restacked with those there were.            *)
LEMMA InsertedBetween ==
  ASSUME NEW st, NEW A, NEW N, NEW B, NEW lv, NEW n, Inserts(st, A, N, B, lv, n)
  PROVE  LET all == (A \o N) \o B
         IN  /\ Apart(all, lv, n + Len(N)) /\ InLine(IdsOf(all)) = InLine(IdsOf(A \o B)) \cup InLine(IdsOf(N))
             /\ Stacked(Repeater!Restacked(st \o IdsOf(N), all), all, lv)
<1> DEFINE its == A \o B
           all == (A \o N) \o B
           a == IdsOf(A)
           b == IdsOf(B)
           w == IdsOf(N)
           k == Len(N)
<1>a. /\ n \in Nat /\ A \in ItemList /\ B \in ItemList /\ N \in ItemList
      /\ Apart(its, lv, n) /\ Stacked(st, its, lv)
      /\ Once(w) /\ InLine(w) \subseteq n + 1 .. n + k
  BY DEF Inserts
<1>0. k \in Nat
  BY <1>a, IdsAndRows
<1>1. a \in Line /\ b \in Line /\ w \in Line
  BY <1>a, IdsAndRows
<1>2. /\ A \o N \in ItemList /\ all \in ItemList /\ IdsOf(A \o N) = a \o w /\ IdsOf(all) = (a \o w) \o b
      /\ its \in ItemList /\ IdsOf(its) = a \o b
  <2>1. A \o N \in ItemList /\ IdsOf(A \o N) = a \o w /\ its \in ItemList /\ IdsOf(its) = a \o b
    BY <1>a, IdsAndRowsJoined
  <2>2. all \in ItemList /\ IdsOf(all) = IdsOf(A \o N) \o b
    BY <1>a, <2>1, IdsAndRowsJoined
  <2> QED BY <2>1, <2>2
<1> HIDE DEF its, all, a, b, w, k
<1>3. Once(a \o b) /\ InLine(a \o b) \subseteq 1 .. n /\ lv \subseteq 1 .. n /\ lv \cap InLine(a \o b) = {}
  BY <1>2, <1>a DEF Apart
<1>4. Once(w) /\ InLine(w) \subseteq n + 1 .. n + k
  BY <1>a
<1>5. /\ InLine(a \o b) = InLine(a) \cup InLine(b) /\ a \o w \in Line /\ InLine(a \o w) = InLine(a) \cup InLine(w)
      /\ (a \o w) \o b \in Line /\ InLine((a \o w) \o b) = InLine(a \o w) \cup InLine(b)
  BY <1>1, Joined
<1>6. InLine(w) \cap 0 .. n = {}
  BY <1>4, <1>a
<1>7. Once(a) /\ Once(b) /\ InLine(a) \cap InLine(b) = {}
  BY <1>1, <1>3, OnceJoined
<1>8. InLine(a) \subseteq 0 .. n /\ InLine(b) \subseteq 0 .. n /\ lv \subseteq 0 .. n
  BY <1>a, <1>3, <1>5
<1>9. Once((a \o w) \o b)
  <2>1. InLine(a) \cap InLine(w) = {} /\ InLine(a \o w) \cap InLine(b) = {}
    BY <1>5, <1>6, <1>7, <1>8
  <2>2. Once(a \o w)
    BY <1>1, <1>4, <1>7, <2>1, OnceJoined
  <2> QED BY <1>1, <1>5, <1>7, <2>1, <2>2, OnceJoined
<1>10. InLine((a \o w) \o b) = InLine(a \o b) \cup InLine(w)
  BY <1>5
<1>11. Apart(all, lv, n + k)
  <2>1. 1 .. n \subseteq 1 .. n + k /\ n + 1 .. n + k \subseteq 1 .. n + k
    BY <1>0, <1>a
  <2>2. InLine(a \o b) \cup InLine(w) \subseteq 1 .. n + k /\ lv \subseteq 1 .. n + k
    BY <1>3, <1>4, <2>1
  <2>3. lv \cap (InLine(a \o b) \cup InLine(w)) = {}
    BY <1>3, <1>6, <1>8
  <2> QED BY ONLY <1>2, <1>9, <1>10, <2>2, <2>3 DEF Apart
<1>12. InLine(st) = lv \cup InLine(a \o b) \cup {0} /\ st \in Line /\ Once(st)
  <2>1. Stacked(st, its, lv)
    BY <1>a
  <2>2. InLine(st) = lv \cup InLine(IdsOf(its)) \cup {0}
    BY <1>2, <2>1, StackHas
  <2> QED BY <1>2, <2>1, <2>2 DEF Stacked
<1>13. st \o w \in Line /\ InLine(st \o w) = lv \cup InLine((a \o w) \o b) \cup {0}
  <2>1. st \o w \in Line /\ InLine(st \o w) = InLine(st) \cup InLine(w)
    BY ONLY <1>1, <1>12, Joined
  <2> QED BY <1>10, <1>12, <2>1
<1>14. Once(st \o w)
  <2>1. 0 \in 0 .. n
    BY <1>a
  <2>2. InLine(st) \cap InLine(w) = {}
    BY <1>5, <1>6, <1>8, <1>12, <2>1
  <2> QED BY <1>1, <1>4, <1>12, <2>2, OnceJoined
<1>15. Stacked(Repeater!Restacked(st \o w, all), all, lv)
  <2>1. n + k \in Nat /\ InLine(st \o w) = lv \cup InLine(IdsOf(all)) \cup {0}
    BY <1>0, <1>a, <1>2, <1>13
  <2> QED BY ONLY <1>11, <1>13, <1>14, <2>1, Restacks
<1> QED BY <1>2, <1>10, <1>11, <1>15 DEF all, w, its, k

(* Two runs of items that change places.                                   *)
Swaps(st, A, P, Q, B, lv, n) ==
  /\ n \in Nat /\ A \in ItemList /\ P \in ItemList /\ Q \in ItemList /\ B \in ItemList
  /\ Apart(((A \o P) \o Q) \o B, lv, n) /\ Stacked(st, ((A \o P) \o Q) \o B, lv)

(* Items that change places are restacked in their new order.              *)
LEMMA RunsSwapped ==
  ASSUME NEW st, NEW A, NEW P, NEW Q, NEW B, NEW lv, NEW n, Swaps(st, A, P, Q, B, lv, n)
  PROVE  LET its == ((A \o P) \o Q) \o B
             all == ((A \o Q) \o P) \o B
         IN  /\ Apart(all, lv, n) /\ InLine(IdsOf(all)) = InLine(IdsOf(its))
             /\ Stacked(Repeater!Restacked(st, all), all, lv)
<1> DEFINE its == ((A \o P) \o Q) \o B
           all == ((A \o Q) \o P) \o B
           a == IdsOf(A)
           p == IdsOf(P)
           q == IdsOf(Q)
           b == IdsOf(B)
<1>0. /\ n \in Nat /\ A \in ItemList /\ P \in ItemList /\ Q \in ItemList /\ B \in ItemList
      /\ Apart(its, lv, n) /\ Stacked(st, its, lv)
  BY DEF Swaps
<1>1. a \in Line /\ b \in Line /\ p \in Line /\ q \in Line
  BY <1>0, IdsAndRows
<1>2. its \in ItemList /\ IdsOf(its) = ((a \o p) \o q) \o b
  <2>1. A \o P \in ItemList /\ IdsOf(A \o P) = a \o p
    BY <1>0, IdsAndRowsJoined
  <2>2. (A \o P) \o Q \in ItemList /\ IdsOf((A \o P) \o Q) = (a \o p) \o q
    BY <1>0, <2>1, IdsAndRowsJoined
  <2> QED BY <1>0, <2>2, IdsAndRowsJoined, ZenonT(30)
<1>3. all \in ItemList /\ IdsOf(all) = ((a \o q) \o p) \o b
  <2>1. A \o Q \in ItemList /\ IdsOf(A \o Q) = a \o q
    BY <1>0, IdsAndRowsJoined
  <2>2. (A \o Q) \o P \in ItemList /\ IdsOf((A \o Q) \o P) = (a \o q) \o p
    BY <1>0, <2>1, IdsAndRowsJoined
  <2> QED BY <1>0, <2>2, IdsAndRowsJoined, ZenonT(30)
<1> HIDE DEF its, all, a, p, q, b
<1>4. /\ Once(((a \o p) \o q) \o b) /\ InLine(((a \o p) \o q) \o b) \subseteq 1 .. n /\ lv \subseteq 1 .. n
      /\ lv \cap InLine(((a \o p) \o q) \o b) = {}
  BY <1>0, <1>2 DEF Apart
<1>5. /\ a \o p \in Line /\ InLine(a \o p) = InLine(a) \cup InLine(p)
      /\ (a \o p) \o q \in Line /\ InLine((a \o p) \o q) = InLine(a \o p) \cup InLine(q)
      /\ InLine(((a \o p) \o q) \o b) = InLine((a \o p) \o q) \cup InLine(b)
  BY <1>1, Joined
<1>6. /\ a \o q \in Line /\ InLine(a \o q) = InLine(a) \cup InLine(q)
      /\ (a \o q) \o p \in Line /\ InLine((a \o q) \o p) = InLine(a \o q) \cup InLine(p)
      /\ InLine(((a \o q) \o p) \o b) = InLine((a \o q) \o p) \cup InLine(b)
  BY <1>1, Joined
<1>7. Once((a \o p) \o q) /\ Once(b) /\ InLine((a \o p) \o q) \cap InLine(b) = {}
  BY <1>1, <1>4, <1>5, OnceJoined
<1>8. Once(a \o p) /\ Once(q) /\ InLine(a \o p) \cap InLine(q) = {}
  BY <1>1, <1>5, <1>7, OnceJoined
<1>9. Once(a) /\ Once(p) /\ InLine(a) \cap InLine(p) = {}
  BY <1>1, <1>8, OnceJoined
<1>10. Once(a \o q)
  <2>1. InLine(a) \cap InLine(q) = {}
    BY <1>5, <1>8
  <2> QED BY <1>1, <1>8, <1>9, <2>1, OnceJoined
<1>11. Once((a \o q) \o p)
  <2>1. InLine(a \o q) \cap InLine(p) = {}
    BY <1>5, <1>6, <1>8, <1>9
  <2> QED BY <1>1, <1>6, <1>9, <1>10, <2>1, OnceJoined
<1>12. Once(((a \o q) \o p) \o b)
  <2>1. InLine((a \o q) \o p) \cap InLine(b) = {}
    BY <1>5, <1>6, <1>7
  <2> QED BY <1>1, <1>6, <1>7, <1>11, <2>1, OnceJoined
<1>13. InLine(((a \o q) \o p) \o b) = InLine(((a \o p) \o q) \o b)
  BY <1>5, <1>6
<1>14. Apart(all, lv, n)
  BY ONLY <1>3, <1>4, <1>12, <1>13 DEF Apart
<1>15. InLine(st) = lv \cup InLine(IdsOf(all)) \cup {0} /\ st \in Line /\ Once(st)
  <2>1. InLine(st) = lv \cup InLine(IdsOf(its)) \cup {0}
    BY <1>0, <1>2, StackHas
  <2>2. st \in Line /\ Once(st)
    BY <1>0 DEF Stacked
  <2> QED BY <1>2, <1>3, <1>13, <2>1, <2>2
<1>16. Stacked(Repeater!Restacked(st, all), all, lv)
  BY ONLY <1>0, <1>14, <1>15, Restacks
<1> QED BY <1>2, <1>3, <1>13, <1>14, <1>16 DEF its, all

(* Items that are taken out: they leave, or they are gone.                 *)
Takes(st, A, G, B, lv, n) ==
  /\ n \in Nat /\ A \in ItemList /\ G \in ItemList /\ B \in ItemList
  /\ Apart((A \o G) \o B, lv, n) /\ Stacked(st, (A \o G) \o B, lv)

(* Items that are taken out leave the others in their order.               *)
LEMMA TakenOut ==
  ASSUME NEW st, NEW A, NEW G, NEW B, NEW lv, NEW n, Takes(st, A, G, B, lv, n)
  PROVE  LET its  == (A \o G) \o B
             gone == InLine(IdsOf(G))
         IN  /\ Apart(A \o B, lv, n) /\ Apart(A \o B, lv \cup gone, n)
             /\ InLine(IdsOf(A \o B)) = InLine(IdsOf(its)) \ gone /\ gone \subseteq InLine(IdsOf(its))
             /\ Stacked(st, A \o B, lv \cup gone)
             /\ Stacked(Repeater!Without(st, gone), A \o B, lv)
<1> DEFINE its == (A \o G) \o B
           a == IdsOf(A)
           g == IdsOf(G)
           b == IdsOf(B)
           gone == InLine(g)
           rest == A \o B
<1>0. /\ n \in Nat /\ A \in ItemList /\ G \in ItemList /\ B \in ItemList
      /\ Apart(its, lv, n) /\ Stacked(st, its, lv)
  BY DEF Takes
<1>1. a \in Line /\ b \in Line /\ g \in Line
  BY <1>0, IdsAndRows
<1>2. its \in ItemList /\ IdsOf(its) = (a \o g) \o b /\ rest \in ItemList /\ IdsOf(rest) = a \o b
  <2>1. A \o G \in ItemList /\ IdsOf(A \o G) = a \o g
    BY <1>0, IdsAndRowsJoined
  <2>2. rest \in ItemList /\ IdsOf(rest) = a \o b
    BY <1>0, IdsAndRowsJoined
  <2>3. its \in ItemList /\ IdsOf(its) = IdsOf(A \o G) \o b
    BY <1>0, <2>1, IdsAndRowsJoined
  <2> QED BY <2>1, <2>2, <2>3
<1> HIDE DEF its, a, g, b, rest
<1>3. /\ Once((a \o g) \o b) /\ InLine((a \o g) \o b) \subseteq 1 .. n /\ lv \subseteq 1 .. n
      /\ lv \cap InLine((a \o g) \o b) = {}
  BY <1>0, <1>2 DEF Apart
<1>4. /\ a \o g \in Line /\ InLine(a \o g) = InLine(a) \cup InLine(g)
      /\ (a \o g) \o b \in Line /\ InLine((a \o g) \o b) = InLine(a \o g) \cup InLine(b)
      /\ a \o b \in Line /\ InLine(a \o b) = InLine(a) \cup InLine(b)
  BY <1>1, Joined
<1>5. Once(a \o g) /\ Once(b) /\ InLine(a \o g) \cap InLine(b) = {}
  BY <1>1, <1>3, <1>4, OnceJoined
<1>6. Once(a) /\ InLine(a) \cap gone = {} /\ gone \cap InLine(b) = {} /\ InLine(a) \cap InLine(b) = {}
  BY <1>1, <1>4, <1>5, OnceJoined
<1>7. Once(a \o b)
  BY <1>1, <1>5, <1>6, OnceJoined
<1>8. InLine(a \o b) = InLine((a \o g) \o b) \ gone /\ gone \subseteq InLine((a \o g) \o b)
  BY <1>4, <1>6
<1>9. Apart(rest, lv, n) /\ Apart(rest, lv \cup gone, n)
  BY <1>2, <1>3, <1>7, <1>8 DEF Apart
<1>10. /\ st \in Line /\ Once(st) /\ lv \subseteq InLine(st)
       /\ Repeater!Without(st, lv) = ((a \o g) \o b) \o <<0>>
       /\ InLine(st) = lv \cup InLine((a \o g) \o b) \cup {0}
  BY <1>0, <1>2, StackHas DEF Stacked
<1>11. 0 \notin gone
  BY <1>3, <1>8
<1> HIDE DEF gone
<1>12. Repeater!Without(((a \o g) \o b) \o <<0>>, gone) = (a \o b) \o <<0>>
  <2> DEFINE W(s) == Repeater!Without(s, gone)
  <2>1. W(((a \o g) \o b) \o <<0>>) = W((a \o g) \o b) \o W(<<0>>)
    BY <1>4, JustTheRepeater, WithoutJoined
  <2>2. W((a \o g) \o b) = W(a \o g) \o W(b)
    <3> DEFINE ag == a \o g
    <3>1. ag \in Line /\ b \in Line
      BY <1>1, <1>4
    <3> HIDE DEF ag
    <3>2. Repeater!Without(ag \o b, gone) = Repeater!Without(ag, gone) \o Repeater!Without(b, gone)
      BY ONLY <3>1, WithoutJoined
    <3> QED BY ONLY <3>2 DEF ag
  <2>3. W(a \o g) = W(a) \o W(g)
    BY <1>1, WithoutJoined
  <2>4. W(a) = a /\ W(b) = b /\ W(<<0>>) = <<0>> /\ W(g) = <<>>
    <3>1. InLine(a) \cap gone = {} /\ InLine(b) \cap gone = {} /\ InLine(<<0>>) \cap gone = {} /\ InLine(g) \subseteq gone
      BY <1>6, <1>11, JustTheRepeater DEF gone
    <3> QED BY <1>1, <3>1, JustTheRepeater, WithoutLeaves
  <2>5. a \o <<>> = a
    BY <1>1, Joined
  <2> HIDE DEF W
  <2>6. W(((a \o g) \o b) \o <<0>>) = (a \o b) \o <<0>>
    BY <2>1, <2>2, <2>3, <2>4, <2>5
  <2> QED BY <2>6 DEF W
<1>13. Repeater!Without(st, lv \cup gone) = (a \o b) \o <<0>>
  <2> DEFINE both == lv \cup gone
  <2>1. st \in Line /\ both = lv \cup gone
    BY <1>10
  <2> HIDE DEF both
  <2>2. Repeater!Without(Repeater!Without(st, lv), gone) = Repeater!Without(st, both)
    BY ONLY <2>1, WithoutBoth
  <2> QED BY <1>10, <1>12, <2>1, <2>2
<1>14. Stacked(st, rest, lv \cup gone)
  <2>1. lv \cup gone \subseteq InLine(st)
    BY <1>8, <1>10
  <2> QED BY <1>2, <1>10, <1>13, <2>1 DEF Stacked
<1>15. Stacked(Repeater!Without(st, gone), rest, lv)
  <2> DEFINE v == Repeater!Without(st, gone)
  <2>1. v \in Line /\ InLine(v) = InLine(st) \ gone /\ Once(v)
    BY <1>10, WithoutLeaves
  <2>2. Repeater!Without(v, lv) = Repeater!Without(st, lv \cup gone)
    <3>1. lv \cup gone = gone \cup lv
      OBVIOUS
    <3> QED BY <1>10, <3>1, WithoutBoth
  <2>3. lv \subseteq InLine(v)
    BY <1>3, <1>8, <1>10, <2>1
  <2> HIDE DEF v
  <2>4. Stacked(v, rest, lv)
    BY <1>2, <1>13, <2>1, <2>2, <2>3 DEF Stacked
  <2> QED BY <2>4 DEF v
<1> QED BY <1>2, <1>8, <1>9, <1>14, <1>15 DEF its, rest, gone, g

(* An item that left is destroyed.                                         *)
LEMMA DestroyedLeaves ==
  ASSUME NEW n \in Nat, NEW lv, NEW its, Apart(its, lv, n), NEW st, Stacked(st, its, lv), NEW id \in lv
  PROVE  Apart(its, lv \ {id}, n) /\ Stacked(Repeater!Without(st, {id}), its, lv \ {id})
<1> DEFINE v == Repeater!Without(st, {id})
<1>1. st \in Line /\ Once(st) /\ lv \subseteq InLine(st) /\ Repeater!Without(st, lv) = IdsOf(its) \o <<0>>
  BY DEF Stacked
<1>2. v \in Line /\ InLine(v) = InLine(st) \ {id} /\ Once(v)
  BY <1>1, WithoutLeaves
<1>3. Repeater!Without(v, lv \ {id}) = Repeater!Without(st, lv)
  <2>1. lv = {id} \cup (lv \ {id})
    OBVIOUS
  <2> QED BY <1>1, <2>1, WithoutBoth
<1> HIDE DEF v
<1>4. Stacked(v, its, lv \ {id})
  BY <1>1, <1>2, <1>3 DEF Stacked
<1>5. Apart(its, lv \ {id}, n)
  BY DEF Apart
<1> QED BY <1>4, <1>5 DEF v

-----------------------------------------------------------------------------
(* createItem: items with the next ids, with the rows first..last of now.  *)
NewItems(n, now, first, last) ==
  [k \in 1 .. last - first + 1 |-> [id |-> n + k, row |-> now[first + k - 1], index |-> first + k - 2]]

(* They have ids of their own, the rows and the indices they are made for. *)
LEMMA NewItemsAre ==
  ASSUME NEW n \in Nat, NEW now \in Seq(RepeaterRow), NEW first \in 1 .. Len(now) + 1,
         NEW last \in (first - 1) .. Len(now)
  PROVE  LET new == NewItems(n, now, first, last)
         IN  /\ new \in ItemList /\ Len(new) = last - first + 1
             /\ Once(IdsOf(new)) /\ InLine(IdsOf(new)) \subseteq n + 1 .. n + Len(new)
             /\ RowsOf(new) = SubSeq(now, first, last)
             /\ \A k \in 1 .. Len(new) : new[k].index = first + k - 2
<1> DEFINE new == NewItems(n, now, first, last)
           m == last - first + 1
<1>1. m \in Nat /\ first \in Nat /\ last \in Int /\ Len(now) \in Nat
  OBVIOUS
<1>2. \A k \in 1 .. m : first + k - 1 \in 1 .. Len(now)
  BY <1>1
<1>3. \A k \in 1 .. m : now[first + k - 1] \in RepeaterRow
  BY <1>2
<1>4. ASSUME NEW k \in 1 .. m
      PROVE  /\ new[k] \in RepeaterItem /\ new[k].id = n + k /\ new[k].row = now[first + k - 1]
             /\ new[k].index = first + k - 2
  <2>1. new[k] = [id |-> n + k, row |-> now[first + k - 1], index |-> first + k - 2]
    BY DEF NewItems
  <2>2. n + k \in Nat /\ first + k - 2 \in Int
    BY <1>1
  <2> HIDE DEF new
  <2> QED BY <1>3, <2>1, <2>2 DEF RepeaterItem
<1>5. DOMAIN new = 1 .. m /\ new = [k \in 1 .. m |-> new[k]]
  BY DEF NewItems
<1> HIDE DEF new
<1>6. new \in [1 .. m -> RepeaterItem]
  BY <1>4, <1>5
<1>7. new \in ItemList /\ Len(new) = m
  <2>1. new \in Seq(RepeaterItem)
    BY ONLY <1>1, <1>6, IsASeq
  <2> QED BY <1>1, <1>5, <2>1, LenProperties DEF ItemList
<1> HIDE DEF m
<1>8. /\ IdsOf(new) \in Line /\ Len(IdsOf(new)) = m
      /\ \A k \in 1 .. m : IdsOf(new)[k] = n + k
  BY <1>4, <1>7, IdsAndRows
<1>9. Once(IdsOf(new))
  BY <1>1, <1>8 DEF Once
<1>10. InLine(IdsOf(new)) \subseteq n + 1 .. n + m
  BY <1>1, <1>8 DEF InLine
<1>11. RowsOf(new) = SubSeq(now, first, last)
  <2>1. /\ RowsOf(new) \in Seq(RepeaterRow) /\ Len(RowsOf(new)) = m
        /\ \A k \in 1 .. m : RowsOf(new)[k] = now[first + k - 1]
    BY <1>4, <1>7, IdsAndRows
  <2>2. /\ SubSeq(now, first, last) \in Seq(RepeaterRow) /\ Len(SubSeq(now, first, last)) = m
        /\ \A k \in 1 .. m : SubSeq(now, first, last)[k] = now[first + k - 1]
    BY Parts DEF m
  <2> QED BY <2>1, <2>2, SeqEqual
<1> QED BY <1>4, <1>7, <1>9, <1>10, <1>11 DEF new, m

(* What was cut at two places is put together again.                       *)
LEMMA CutsTogether ==
  ASSUME NEW S, NEW s \in Seq(S), NEW i \in 1 .. Len(s) + 1, NEW j \in (i - 1) .. Len(s)
  PROVE  /\ (SubSeq(s, 1, i - 1) \o SubSeq(s, i, j)) \o SubSeq(s, j + 1, Len(s)) = s
         /\ SubSeq(s, 1, i - 1) \in Seq(S) /\ Len(SubSeq(s, 1, i - 1)) = i - 1
         /\ SubSeq(s, i, j) \in Seq(S) /\ Len(SubSeq(s, i, j)) = j - i + 1
         /\ SubSeq(s, j + 1, Len(s)) \in Seq(S) /\ Len(SubSeq(s, j + 1, Len(s))) = Len(s) - j
         /\ \A k \in 1 .. i - 1 : SubSeq(s, 1, i - 1)[k] = s[k]
<1>1. j + 1 \in i .. Len(s) + 1 /\ j + 1 \in 1 .. Len(s) + 1 /\ (j + 1) - 1 = j /\ Len(s) - (j + 1) + 1 = Len(s) - j
      /\ (j + 1) - i = j - i + 1
  OBVIOUS
<1> DEFINE a == SubSeq(s, 1, i - 1)
           b == SubSeq(s, i, j)
           c == SubSeq(s, j + 1, Len(s))
           d == SubSeq(s, i, Len(s))
<1>2. a \in Seq(S) /\ Len(a) = i - 1 /\ s = a \o d /\ \A k \in 1 .. i - 1 : a[k] = s[k]
  BY CutOnce, Zenon
<1>3. c \in Seq(S) /\ Len(c) = Len(s) - j
  <2>1. /\ SubSeq(s, j + 1, Len(s)) \in Seq(S)
        /\ Len(SubSeq(s, j + 1, Len(s))) = Len(s) - (j + 1) + 1
    BY ONLY <1>1, s \in Seq(S), CutOnce, Zenon
  <2> QED BY <1>1, <2>1, Zenon
<1>4. b \in Seq(S) /\ Len(b) = j - i + 1 /\ d = b \o c
  <2>1. /\ SubSeq(s, i, (j + 1) - 1) \in Seq(S) /\ Len(SubSeq(s, i, (j + 1) - 1)) = (j + 1) - i
        /\ SubSeq(s, i, Len(s)) = SubSeq(s, i, (j + 1) - 1) \o SubSeq(s, j + 1, Len(s))
    BY ONLY <1>1, s \in Seq(S), i \in 1 .. Len(s) + 1, CutTwice
  <2> QED BY <1>1, <2>1
<1> HIDE DEF a, b, c, d
<1>5. (a \o b) \o c = a \o (b \o c)
  BY <1>2, <1>3, <1>4, ConcatAssociative, SMTT(30)
<1> QED BY <1>2, <1>3, <1>4, <1>5 DEF a, b, c

(* What is in a line, as the model says it.                                *)
LEMMA TheSetIs ==
  ASSUME NEW s \in Line
  PROVE  Repeater!ToSet(s) = InLine(s)
<1>1. DOMAIN s = 1 .. Len(s)
  BY DEF Line
<1> QED BY <1>1 DEF Repeater!ToSet, InLine

(* insertItems                                                             *)
Queued ==
  /\ repFresh \subseteq InLine(IdsOf(repItems)) /\ repFresh \subseteq repAdding
  /\ repFresh # {} => repFlush

(* The items show the new rows, each has its index, and the new ones wait. *)
LEMMA InsertKeeps ==
  ASSUME NEW its, NEW children, NEW now \in Seq(RepeaterRow), NEW first \in 1 .. Len(its) + 1,
         NEW last \in (first - 1) .. Len(now), NEW adds,
         repCreated \in Nat, repItems \in ItemList, Apart(its, repLeaving, repCreated), Stacked(children, its, repLeaving),
         Indexed(its), Len(now) = Len(its) + (last - first + 1),
         RowsOf(SubSeq(its, 1, first - 1)) = SubSeq(now, 1, first - 1),
         RowsOf(SubSeq(its, first, Len(its))) = SubSeq(now, last + 1, Len(now)),
         Repeater!InsertItems(its, children, first, last, now, adds)
  PROVE  /\ repCreated' \in Nat /\ Apart(repItems', repLeaving, repCreated')
         /\ Stacked(repStack', repItems', repLeaving) /\ RowsOf(repItems') = now /\ Indexed(repItems')
         /\ \E ids : /\ ids \subseteq InLine(IdsOf(repItems')) /\ InLine(IdsOf(its)) \subseteq InLine(IdsOf(repItems'))
                     /\ repAdding' = IF adds THEN repAdding \cup ids ELSE repAdding
                     /\ repFresh' = IF adds THEN repFresh \cup ids
                                    ELSE repFresh \ (InLine(IdsOf(repItems)) \ InLine(IdsOf(its)))
                     /\ repFlush' = (repFlush \/ (adds /\ ids # {}))
<1> DEFINE new == NewItems(repCreated, now, first, last)
           A == SubSeq(its, 1, first - 1)
           B == SubSeq(its, first, Len(its))
           all == A \o new \o B
           m == last - first + 1
           ids == InLine(IdsOf(new))
<1>1. its \in Seq(RepeaterItem) /\ its \in ItemList /\ Len(its) \in Nat
  BY DEF Apart, ItemList
<1>2. m \in Nat /\ first \in 1 .. Len(now) + 1 /\ last \in Int /\ Len(now) \in Nat
  BY <1>1
<1>3. /\ new \in ItemList /\ Len(new) = m /\ Once(IdsOf(new))
      /\ ids \subseteq repCreated + 1 .. repCreated + m
      /\ RowsOf(new) = SubSeq(now, first, last)
      /\ \A k \in 1 .. m : new[k].index = first + k - 2
  BY <1>2, NewItemsAre
<1>4. /\ A \in ItemList /\ B \in ItemList /\ Len(A) = first - 1 /\ its = A \o B
      /\ \A k \in 1 .. first - 1 : A[k] = its[k]
  BY <1>1, CutOnce DEF ItemList
<1>5. /\ repCreated' = repCreated + Len(new)
      /\ repItems' = Repeater!Reindexed(all, last + 1)
      /\ repStack' = Repeater!Restacked(children \o IdsOf(new), all)
      /\ repAdding' = IF adds THEN repAdding \cup Repeater!ToSet(IdsOf(new)) ELSE repAdding
      /\ repFresh' = IF adds THEN repFresh \cup Repeater!ToSet(IdsOf(new))
                     ELSE repFresh \ (Repeater!ToSet(IdsOf(repItems)) \ Repeater!ToSet(IdsOf(its)))
      /\ repFlush' = (repFlush \/ (adds /\ new # <<>>))
  BY Zenon DEF Repeater!InsertItems, NewItems, IdsOf
<1> HIDE DEF new, A, B
<1>6. /\ Apart(all, repLeaving, repCreated + m)
      /\ InLine(IdsOf(all)) = InLine(IdsOf(its)) \cup ids
      /\ Stacked(Repeater!Restacked(children \o IdsOf(new), all), all, repLeaving)
  <2> HIDE DEF m, ids, all
  <2>1. /\ repCreated \in Nat /\ m \in Nat /\ A \in ItemList /\ B \in ItemList /\ new \in ItemList
        /\ Apart(A \o B, repLeaving, repCreated) /\ Stacked(children, A \o B, repLeaving)
        /\ Once(IdsOf(new)) /\ InLine(IdsOf(new)) \subseteq repCreated + 1 .. repCreated + Len(new)
    BY <1>2, <1>3, <1>4 DEF ids
  <2>2. /\ Apart((A \o new) \o B, repLeaving, repCreated + Len(new))
        /\ InLine(IdsOf((A \o new) \o B)) = InLine(IdsOf(A \o B)) \cup InLine(IdsOf(new))
        /\ Stacked(Repeater!Restacked(children \o IdsOf(new), (A \o new) \o B), (A \o new) \o B, repLeaving)
    <3>1. Inserts(children, A, new, B, repLeaving, repCreated)
      BY ONLY <2>1 DEF Inserts
    <3> QED BY ONLY <3>1, InsertedBetween
  <2> QED BY <1>3, <1>4, <2>2 DEF all, ids
<1>7. /\ all \in ItemList /\ Len(all) = (first - 1) + m + Len(B) /\ Len(B) \in Nat
      /\ \A i \in 1 .. first - 1 : all[i] = A[i]
      /\ \A i \in 1 .. m : all[(first - 1) + i] = new[i]
      /\ RowsOf(all) = (RowsOf(A) \o RowsOf(new)) \o RowsOf(B)
  <2> DEFINE front == A \o new
  <2>1. /\ front \in ItemList /\ Len(front) = (first - 1) + m /\ RowsOf(front) = RowsOf(A) \o RowsOf(new)
        /\ \A i \in 1 .. first - 1 : front[i] = A[i]
        /\ \A i \in 1 .. m : front[(first - 1) + i] = new[i]
    <3>1. A \in ItemList /\ new \in ItemList /\ Len(A) = first - 1 /\ Len(new) = m
      BY <1>3, <1>4
    <3>2. /\ front \in ItemList /\ Len(front) = Len(A) + Len(new) /\ RowsOf(front) = RowsOf(A) \o RowsOf(new)
          /\ \A i \in 1 .. Len(A) : front[i] = A[i]
          /\ \A i \in 1 .. Len(new) : front[Len(A) + i] = new[i]
      BY ONLY <3>1, IdsAndRowsJoined
    <3> HIDE DEF front, m
    <3> QED BY ONLY <3>1, <3>2
  <2>2. /\ all \in ItemList /\ Len(all) = Len(front) + Len(B) /\ RowsOf(all) = RowsOf(front) \o RowsOf(B)
        /\ Len(B) \in Nat
        /\ \A i \in 1 .. Len(front) : all[i] = front[i]
    BY <1>4, <2>1, IdsAndRowsJoined
  <2> HIDE DEF front, all, m
  <2>3. ASSUME NEW i \in 1 .. first - 1 PROVE all[i] = A[i]
    <3>1. i \in 1 .. Len(front)
      BY <1>2, <2>1
    <3> QED BY <2>1, <2>2, <3>1
  <2>4. ASSUME NEW i \in 1 .. m PROVE all[(first - 1) + i] = new[i]
    <3>1. (first - 1) + i \in 1 .. Len(front)
      BY ONLY <1>2, <2>1, i \in 1 .. m
    <3> QED BY <2>1, <2>2, <3>1
  <2> QED BY <2>1, <2>2, <2>3, <2>4
<1> HIDE DEF all
<1>8. ASSUME NEW i \in 1 .. Len(all), i < last + 1 PROVE all[i].index = i - 1
  <2>1. CASE i < first
    <3>1. i \in 1 .. first - 1 /\ i \in 1 .. Len(its)
      BY <1>1, <1>2, <2>1
    <3>2. all[i] = its[i]
      BY <1>4, <1>7, <3>1
    <3> QED BY <3>1, <3>2 DEF Indexed
  <2>2. CASE ~(i < first)
    <3> DEFINE k == i - (first - 1)
    <3>1. k \in 1 .. m /\ (first - 1) + k = i /\ first + k - 2 = i - 1
      BY <1>2, <1>8, <2>2
    <3> HIDE DEF k, m
    <3> QED BY <1>3, <1>7, <3>1
  <2> QED BY <2>1, <2>2
<1>9. /\ repItems' \in ItemList /\ IdsOf(repItems') = IdsOf(all) /\ RowsOf(repItems') = RowsOf(all)
      /\ Indexed(repItems')
  <2>1. last + 1 \in Int
    BY <1>2
  <2>2. LET r == Repeater!Reindexed(all, last + 1)
        IN  r \in ItemList /\ IdsOf(r) = IdsOf(all) /\ RowsOf(r) = RowsOf(all) /\ Indexed(r)
    BY ONLY <1>7, <1>8, <2>1, ReindexedIs
  <2> QED BY <1>5, <2>2
<1>10. RowsOf(repItems') = now
  <2>1. (SubSeq(now, 1, first - 1) \o SubSeq(now, first, last)) \o SubSeq(now, last + 1, Len(now)) = now
    BY <1>2, CutsTogether
  <2> QED BY <1>3, <1>7, <1>9, <2>1 DEF A, B
<1>11. /\ repCreated' \in Nat /\ Apart(repItems', repLeaving, repCreated')
       /\ Stacked(repStack', repItems', repLeaving)
  <2>1. repCreated' = repCreated + m
    BY <1>3, <1>5
  <2>2. repCreated' \in Nat
    BY <1>2, <2>1
  <2>3. Apart(repItems', repLeaving, repCreated')
    BY <1>6, <1>9, <2>1 DEF Apart
  <2>4. Stacked(repStack', repItems', repLeaving)
    BY <1>5, <1>6, <1>9 DEF Stacked
  <2> QED BY <2>2, <2>3, <2>4
<1>12. /\ Repeater!ToSet(IdsOf(new)) = ids /\ Repeater!ToSet(IdsOf(repItems)) = InLine(IdsOf(repItems))
       /\ Repeater!ToSet(IdsOf(its)) = InLine(IdsOf(its))
  BY <1>1, <1>3, IdsAndRows, TheSetIs
<1>13. new # <<>> <=> ids # {}
  <2>1. IdsOf(new) \in Line /\ Len(IdsOf(new)) = Len(new) /\ new \in Seq(RepeaterItem)
    BY <1>3, IdsAndRows DEF ItemList
  <2>2. Len(new) = 0 => new = <<>>
    BY <2>1, EmptySeq
  <2>3. Len(new) # 0 => 1 \in 1 .. Len(IdsOf(new))
    BY <2>1
  <2>4. Len(new) # 0 => ids # {}
    BY <2>3 DEF InLine
  <2>5. new = <<>> => ids = {}
    BY <2>1 DEF InLine
  <2> QED BY <2>2, <2>4, <2>5
<1>14. /\ ids \subseteq InLine(IdsOf(repItems')) /\ InLine(IdsOf(its)) \subseteq InLine(IdsOf(repItems'))
  BY <1>6, <1>9
<1>15. /\ repAdding' = IF adds THEN repAdding \cup ids ELSE repAdding
       /\ repFresh' = IF adds THEN repFresh \cup ids
                      ELSE repFresh \ (InLine(IdsOf(repItems)) \ InLine(IdsOf(its)))
  BY <1>5, <1>12, Zenon
<1>16. repFlush' = (repFlush \/ (adds /\ ids # {}))
  BY <1>5, <1>13, Zenon
<1> HIDE DEF ids
<1> QED BY <1>9, <1>10, <1>11, <1>14, <1>15, <1>16, Zenon

-----------------------------------------------------------------------------
(* What always holds of the repeater.  The stack is right although the     *)
(* items that leave are anywhere in it; the rows of a number are the       *)
(* numbers before it, so that only the difference is made or removed.      *)
RepeaterInv ==
  /\ repRows \in Seq(RepeaterRow) /\ repComplete \in BOOLEAN /\ repCreated \in Nat
  /\ repMode = "count" => repRows = Repeater!Counted(Len(repRows))
  /\ Apart(repItems, repLeaving, repCreated) /\ Stacked(repStack, repItems, repLeaving)
  /\ repComplete => RowsOf(repItems) = repRows /\ Indexed(repItems)
  /\ ~repComplete => repItems = <<>>
  /\ Queued

(* A run of the items shows that run of the rows.                          *)
LEMMA RowsOfParts ==
  ASSUME NEW s \in ItemList, NEW i \in 1 .. Len(s) + 1, NEW j \in (i - 1) .. Len(s)
  PROVE  RowsOf(SubSeq(s, i, j)) = SubSeq(RowsOf(s), i, j)
<1> DEFINE p == SubSeq(s, i, j)
           r == RowsOf(s)
           q == SubSeq(r, i, j)
           n == j - i + 1
<1>1. s \in Seq(RepeaterItem) /\ Len(s) \in Nat
  BY DEF ItemList
<1>2. r \in Seq(RepeaterRow) /\ Len(r) = Len(s) /\ \A k \in 1 .. Len(s) : r[k] = s[k].row
  BY IdsAndRows
<1> HIDE DEF r
<1>3. /\ p \in Seq(RepeaterItem) /\ Len(p) = n
      /\ \A k \in 1 .. n : p[k] = s[i + k - 1] /\ i + k - 1 \in 1 .. Len(s)
  BY <1>1, Parts
<1>4. /\ q \in Seq(RepeaterRow) /\ Len(q) = n
      /\ \A k \in 1 .. n : q[k] = r[i + k - 1]
  BY <1>2, Parts
<1> HIDE DEF p, q
<1>5. /\ RowsOf(p) \in Seq(RepeaterRow) /\ Len(RowsOf(p)) = n
      /\ \A k \in 1 .. n : RowsOf(p)[k] = p[k].row
  <2>1. p \in ItemList
    BY <1>3 DEF ItemList
  <2> QED BY ONLY <1>3, <2>1, IdsAndRows
<1>6. \A k \in 1 .. n : RowsOf(p)[k] = q[k]
  BY <1>2, <1>3, <1>4, <1>5
<1> HIDE DEF n
<1>7. RowsOf(p) = q
  BY <1>4, <1>5, <1>6, SeqEqual
<1> QED BY <1>7 DEF p, q, r

(* removeItems                                                             *)
LEMMA RemoveKeeps ==
  ASSUME RepeaterInv, repComplete, NEW first \in 1 .. Len(repItems) + 1,
         NEW last \in (first - 1) .. Len(repItems), Repeater!RemoveItems(first, last)
  PROVE  /\ repCreated' \in Nat /\ Apart(repItems', repLeaving', repCreated')
         /\ Stacked(repStack', repItems', repLeaving')
         /\ RowsOf(repItems') = SubSeq(repRows, 1, first - 1) \o SubSeq(repRows, last + 1, Len(repRows))
         /\ Indexed(repItems') /\ Queued'
<1> DEFINE A == SubSeq(repItems, 1, first - 1)
           G == SubSeq(repItems, first, last)
           B == SubSeq(repItems, last + 1, Len(repItems))
           rest == A \o B
           gone == InLine(IdsOf(G))
<1>1. /\ repItems \in ItemList /\ Len(repItems) \in Nat /\ RowsOf(repItems) = repRows /\ Indexed(repItems)
      /\ repCreated \in Nat /\ Apart(repItems, repLeaving, repCreated)
      /\ Stacked(repStack, repItems, repLeaving) /\ Queued /\ Len(repRows) = Len(repItems)
  BY IdsAndRows DEF RepeaterInv, Apart
<1>2. /\ A \in ItemList /\ G \in ItemList /\ B \in ItemList /\ repItems = (A \o G) \o B
      /\ Len(A) = first - 1 /\ \A k \in 1 .. first - 1 : A[k] = repItems[k]
  BY <1>1, CutsTogether DEF ItemList
<1>3. Repeater!ToSet(Repeater!Ids(G)) = gone
  <2>1. IdsOf(G) \in Line
    BY <1>2, IdsAndRows
  <2>2. Repeater!ToSet(IdsOf(G)) = gone
    BY <2>1, TheSetIs
  <2> QED BY <2>2 DEF IdsOf
<1>4. /\ repItems' = Repeater!Reindexed(rest, first)
      /\ repLeaving' = IF Animates THEN repLeaving \cup gone ELSE repLeaving
      /\ repStack' = IF Animates THEN repStack ELSE Repeater!Without(repStack, gone)
      /\ repFresh' = repFresh \ gone
      /\ repAdding' = repAdding /\ repFlush' = repFlush /\ repCreated' = repCreated
  BY <1>3, Zenon DEF Repeater!RemoveItems
<1>5. RowsOf(rest) = SubSeq(repRows, 1, first - 1) \o SubSeq(repRows, last + 1, Len(repRows))
  <2>1. RowsOf(rest) = RowsOf(A) \o RowsOf(B)
    BY <1>2, IdsAndRowsJoined
  <2>2. RowsOf(A) = SubSeq(repRows, 1, first - 1)
    <3>1. 1 \in 1 .. Len(repItems) + 1 /\ first - 1 \in (1 - 1) .. Len(repItems)
      BY <1>1
    <3> QED BY ONLY <1>1, <3>1, RowsOfParts
  <2>3. RowsOf(B) = SubSeq(repRows, last + 1, Len(repRows))
    <3>1. last + 1 \in 1 .. Len(repItems) + 1 /\ Len(repItems) \in ((last + 1) - 1) .. Len(repItems)
      BY <1>1
    <3> QED BY ONLY <1>1, <3>1, RowsOfParts
  <2> QED BY <2>1, <2>2, <2>3
<1>6. /\ rest \in ItemList /\ \A i \in 1 .. Len(rest) : i < first => rest[i].index = i - 1
  <2>1. rest \in ItemList /\ Len(rest) \in Nat /\ \A i \in 1 .. first - 1 : rest[i] = A[i]
    <3>1. rest \in ItemList /\ \A i \in 1 .. Len(A) : rest[i] = A[i]
      BY <1>2, IdsAndRowsJoined
    <3>2. Len(rest) \in Nat
      BY ONLY <3>1, IdsAndRows
    <3> HIDE DEF rest
    <3> QED BY ONLY <1>2, <3>1, <3>2
  <2> HIDE DEF rest, A
  <2>2. \A i \in 1 .. Len(rest) : i < first => i \in 1 .. first - 1 /\ i \in 1 .. Len(repItems)
    BY <1>1, <2>1
  <2> QED BY <1>1, <1>2, <2>1, <2>2 DEF Indexed
<1> HIDE DEF A, G, B
<1>7. /\ Apart(rest, repLeaving, repCreated) /\ Apart(rest, repLeaving \cup gone, repCreated)
      /\ InLine(IdsOf(rest)) = InLine(IdsOf(repItems)) \ gone
      /\ Stacked(repStack, rest, repLeaving \cup gone)
      /\ Stacked(Repeater!Without(repStack, gone), rest, repLeaving)
  <2>1. Takes(repStack, A, G, B, repLeaving, repCreated)
    BY ONLY <1>1, <1>2 DEF Takes
  <2>2. LET t == A \o B
            x == InLine(IdsOf(G))
        IN  /\ Apart(t, repLeaving, repCreated) /\ Apart(t, repLeaving \cup x, repCreated)
            /\ InLine(IdsOf(t)) = InLine(IdsOf((A \o G) \o B)) \ x
            /\ Stacked(repStack, t, repLeaving \cup x)
            /\ Stacked(Repeater!Without(repStack, x), t, repLeaving)
    BY ONLY <2>1, TakenOut
  <2> QED BY ONLY <1>2, <2>2
<1> HIDE DEF rest, gone
<1>8. /\ repItems' \in ItemList /\ IdsOf(repItems') = IdsOf(rest) /\ RowsOf(repItems') = RowsOf(rest)
      /\ Indexed(repItems')
  <2>1. first \in Int
    BY <1>1
  <2>2. LET r == Repeater!Reindexed(rest, first)
        IN  r \in ItemList /\ IdsOf(r) = IdsOf(rest) /\ RowsOf(r) = RowsOf(rest) /\ Indexed(r)
    BY ONLY <1>6, <2>1, ReindexedIs
  <2> QED BY <1>4, <2>2
<1>9. Apart(repItems', repLeaving', repCreated') /\ Stacked(repStack', repItems', repLeaving')
  <2>1. CASE Animates
    BY <1>4, <1>7, <1>8, <2>1 DEF Apart, Stacked
  <2>2. CASE ~Animates
    BY <1>4, <1>7, <1>8, <2>2 DEF Apart, Stacked
  <2> QED BY <2>1, <2>2
<1>10. Queued'
  <2>1. repFresh \subseteq InLine(IdsOf(repItems)) /\ repFresh \subseteq repAdding /\ (repFresh # {} => repFlush)
    BY <1>1 DEF Queued
  <2>2. repFresh' \subseteq InLine(IdsOf(repItems')) /\ repFresh' \subseteq repAdding' /\ (repFresh' # {} => repFlush')
    BY <1>4, <1>7, <1>8, <2>1
  <2> QED BY <2>2 DEF Queued
<1> QED BY <1>1, <1>4, <1>5, <1>8, <1>9, <1>10

(* regenerate                                                              *)
LEMMA RegenerateKeeps ==
  ASSUME RepeaterInv, NEW now \in Seq(RepeaterRow), NEW done \in BOOLEAN, Repeater!Regenerate(now, done)
  PROVE  /\ repCreated' \in Nat /\ Apart(repItems', repLeaving', repCreated')
         /\ Stacked(repStack', repItems', repLeaving') /\ Queued'
         /\ done => RowsOf(repItems') = now /\ Indexed(repItems')
         /\ ~done => repItems' = <<>>
<1> DEFINE ids == InLine(IdsOf(repItems))
           bare == Repeater!Without(repStack, ids)
<1>1. /\ repItems \in ItemList /\ repCreated \in Nat /\ Apart(repItems, repLeaving, repCreated)
      /\ Stacked(repStack, repItems, repLeaving) /\ Queued
  BY DEF RepeaterInv, Apart
<1>2. /\ <<>> \in ItemList /\ Len(<<>>) = 0 /\ repItems = (<<>> \o repItems) \o <<>>
      /\ <<>> \o <<>> = <<>>
  <2>1. <<>> \in Seq(RepeaterItem) /\ Len(<<>>) = 0
    BY EmptySeq
  <2> QED BY <1>1, <2>1, ConcatEmptySeq DEF ItemList
<1>3. /\ Apart(<<>>, repLeaving, repCreated) /\ Stacked(bare, <<>>, repLeaving)
      /\ ids \ ids = InLine(IdsOf(<<>>))
  <2> DEFINE e == <<>>
  <2>1. /\ e \in ItemList /\ repItems = (e \o repItems) \o e /\ e \o e = e
    BY <1>2
  <2> HIDE DEF e
  <2>2. /\ Apart(e \o e, repLeaving, repCreated)
        /\ InLine(IdsOf(e \o e)) = InLine(IdsOf(repItems)) \ InLine(IdsOf(repItems))
        /\ Stacked(Repeater!Without(repStack, InLine(IdsOf(repItems))), e \o e, repLeaving)
    <3>1. Takes(repStack, e, repItems, e, repLeaving, repCreated)
      BY ONLY <1>1, <2>1 DEF Takes
    <3>2. /\ Apart(e \o e, repLeaving, repCreated)
          /\ InLine(IdsOf(e \o e)) = InLine(IdsOf((e \o repItems) \o e)) \ InLine(IdsOf(repItems))
          /\ Stacked(Repeater!Without(repStack, InLine(IdsOf(repItems))), e \o e, repLeaving)
      BY ONLY <3>1, TakenOut
    <3> QED BY ONLY <2>1, <3>2
  <2> QED BY ONLY <2>1, <2>2 DEF e
<1>4. Repeater!ToSet(Repeater!Ids(repItems)) = ids
  <2>1. IdsOf(repItems) \in Line
    BY <1>1, IdsAndRows
  <2> QED BY <2>1, TheSetIs DEF IdsOf
<1> HIDE DEF bare, ids
<1>5. CASE done
  <2>1. Repeater!InsertItems(<<>>, bare, 1, Len(now), now, FALSE) /\ repLeaving' = repLeaving
    BY <1>4, <1>5, Zenon DEF Repeater!Regenerate, bare
  <2>2. /\ 1 \in 1 .. Len(<<>>) + 1 /\ Len(now) \in (1 - 1) .. Len(now) /\ Indexed(<<>>)
        /\ Len(now) = Len(<<>>) + (Len(now) - 1 + 1)
    BY <1>2 DEF Indexed
  <2>3. /\ RowsOf(SubSeq(<<>>, 1, 1 - 1)) = SubSeq(now, 1, 1 - 1)
        /\ RowsOf(SubSeq(<<>>, 1, Len(<<>>))) = SubSeq(now, Len(now) + 1, Len(now))
    <3>1. SubSeq(now, 1, 1 - 1) = <<>> /\ SubSeq(now, Len(now) + 1, Len(now)) = <<>>
      BY SubSeqEmpty
    <3>2. SubSeq(<<>>, 1, 1 - 1) = <<>> /\ SubSeq(<<>>, 1, Len(<<>>)) = <<>>
      BY <1>2, SubSeqEmpty
    <3>3. RowsOf(<<>>) = <<>>
      <4>1. RowsOf(<<>>) \in Seq(RepeaterRow) /\ Len(RowsOf(<<>>)) = 0
        BY ONLY <1>2, IdsAndRows
      <4> QED BY <4>1, EmptySeq
    <3> QED BY ONLY <3>1, <3>2, <3>3
  <2> DEFINE e == <<>>
             first == 1
             last == Len(now)
             adds == FALSE
  <2>4. /\ first \in 1 .. Len(e) + 1 /\ last \in (first - 1) .. Len(now)
        /\ repCreated \in Nat /\ repItems \in ItemList /\ Apart(e, repLeaving, repCreated)
        /\ Stacked(bare, e, repLeaving) /\ Indexed(e) /\ Len(now) = Len(e) + (last - first + 1)
        /\ RowsOf(SubSeq(e, 1, first - 1)) = SubSeq(now, 1, first - 1)
        /\ RowsOf(SubSeq(e, first, Len(e))) = SubSeq(now, last + 1, Len(now))
        /\ Repeater!InsertItems(e, bare, first, last, now, adds)
    BY <1>1, <1>3, <2>1, <2>2, <2>3
  <2> HIDE DEF e, first, last, adds
  <2>5. /\ repCreated' \in Nat /\ Apart(repItems', repLeaving, repCreated')
        /\ Stacked(repStack', repItems', repLeaving) /\ RowsOf(repItems') = now /\ Indexed(repItems')
        /\ \E new : /\ new \subseteq InLine(IdsOf(repItems')) /\ InLine(IdsOf(e)) \subseteq InLine(IdsOf(repItems'))
                    /\ repAdding' = IF adds THEN repAdding \cup new ELSE repAdding
                    /\ repFresh' = IF adds THEN repFresh \cup new
                                   ELSE repFresh \ (InLine(IdsOf(repItems)) \ InLine(IdsOf(e)))
                    /\ repFlush' = (repFlush \/ (adds /\ new # {}))
    BY ONLY now \in Seq(RepeaterRow), <2>4, InsertKeeps
  <2>6. repFresh' = repFresh \ (InLine(IdsOf(repItems)) \ InLine(IdsOf(e)))
    BY ONLY <2>5, Zenon DEF adds
  <2>7. repFresh' = {}
    BY <1>1, <1>3, <2>6 DEF e, ids, Queued
  <2>8. Queued'
    BY <2>7 DEF Queued
  <2> QED BY <1>5, <2>1, <2>5, <2>8
<1>6. CASE ~done
  <2>1. /\ repItems' = <<>> /\ repStack' = bare /\ repFresh' = repFresh \ ids
        /\ repLeaving' = repLeaving /\ repCreated' = repCreated
    BY <1>4, <1>6, Zenon DEF Repeater!Regenerate, bare
  <2>2. repFresh' = {}
    BY <1>1, <2>1 DEF ids, Queued
  <2>3. Queued'
    BY <2>2 DEF Queued
  <2> QED BY <1>1, <1>3, <1>6, <2>1, <2>3
<1> QED BY <1>5, <1>6

-----------------------------------------------------------------------------
(* onRowsMoved: two runs of the rows change places.                        *)
Swapped(s, i, j, k) ==
  ((SubSeq(s, 1, i - 1) \o SubSeq(s, j, k - 1)) \o SubSeq(s, i, j - 1)) \o SubSeq(s, k, Len(s))

Three(S, a, b, c) == a \in Seq(S) /\ b \in Seq(S) /\ c \in Seq(S)

(* The order in which three runs are joined does not matter.               *)
LEMMA Regrouped ==
  ASSUME NEW S, NEW a, NEW b, NEW c, Three(S, a, b, c)
  PROVE  (a \o b) \o c = a \o (b \o c)
BY ConcatAssociative DEF Three

Cuts(S, s, i, j, k) ==
  s \in Seq(S) /\ i \in 1 .. Len(s) + 1 /\ j \in i .. Len(s) + 1 /\ k \in j .. Len(s) + 1

Parted(S, s, i, j, k) ==
  /\ SubSeq(s, 1, i - 1) \in Seq(S) /\ Len(SubSeq(s, 1, i - 1)) = i - 1
  /\ SubSeq(s, i, j - 1) \in Seq(S) /\ Len(SubSeq(s, i, j - 1)) = j - i
  /\ SubSeq(s, j, k - 1) \in Seq(S) /\ Len(SubSeq(s, j, k - 1)) = k - j
  /\ SubSeq(s, k, Len(s)) \in Seq(S)
  /\ ((SubSeq(s, 1, i - 1) \o SubSeq(s, i, j - 1)) \o SubSeq(s, j, k - 1)) \o SubSeq(s, k, Len(s)) = s
  /\ SubSeq(s, 1, i - 1) \o SubSeq(s, i, j - 1) = SubSeq(s, 1, j - 1)
  /\ SubSeq(s, j, k - 1) \o SubSeq(s, k, Len(s)) = SubSeq(s, j, Len(s))
  /\ \A l \in 1 .. i - 1 : SubSeq(s, 1, i - 1)[l] = s[l]

(* A sequence is what it is cut into at three places.                      *)
LEMMA CutThrice ==
  ASSUME NEW S, NEW s, NEW i, NEW j, NEW k, Cuts(S, s, i, j, k)
  PROVE  Parted(S, s, i, j, k)
<1> DEFINE a == SubSeq(s, 1, i - 1)
           p == SubSeq(s, i, j - 1)
           q == SubSeq(s, j, k - 1)
           b == SubSeq(s, k, Len(s))
<1>0. s \in Seq(S) /\ i \in 1 .. Len(s) + 1 /\ j \in i .. Len(s) + 1 /\ k \in j .. Len(s) + 1
  BY DEF Cuts
<1>1. j \in 1 .. Len(s) + 1 /\ k \in 1 .. Len(s) + 1
  BY <1>0
<1>2. a \in Seq(S) /\ Len(a) = i - 1 /\ \A l \in 1 .. i - 1 : a[l] = s[l]
  BY ONLY <1>0, CutOnce
<1>3. p \in Seq(S) /\ Len(p) = j - i
  BY ONLY <1>0, CutTwice
<1>4. q \in Seq(S) /\ Len(q) = k - j /\ q \o b = SubSeq(s, j, Len(s))
  BY ONLY <1>1, <1>0, CutTwice
<1>5. b \in Seq(S)
  BY ONLY <1>1, <1>0, CutOnce
<1>6. a \o p = SubSeq(s, 1, j - 1)
  <2>1. 1 \in 1 .. Len(s) + 1 /\ i - 1 \in 1 - 1 .. Len(s) /\ j - 1 \in i - 1 .. Len(s) /\ (i - 1) + 1 = i
    BY <1>0
  <2>2. SubSeq(s, 1, i - 1) \o SubSeq(s, (i - 1) + 1, j - 1) = SubSeq(s, 1, j - 1)
    BY ONLY <2>1, <1>0, ConcatAdjacentSubSeq
  <2> QED BY <2>1, <2>2
<1>7. s = SubSeq(s, 1, j - 1) \o SubSeq(s, j, Len(s)) /\ SubSeq(s, 1, j - 1) \in Seq(S)
  BY ONLY <1>1, <1>0, CutOnce
<1> HIDE DEF a, p, q, b
<1>8. ((a \o p) \o q) \o b = (a \o p) \o (q \o b)
  <2>1. a \o p \in Seq(S)
    BY <1>6, <1>7
  <2> DEFINE f == a \o p
  <2>2. Three(S, f, q, b)
    BY <1>4, <1>5, <2>1 DEF Three
  <2> HIDE DEF f
  <2>3. (f \o q) \o b = f \o (q \o b)
    BY ONLY <2>2, Regrouped
  <2> QED BY <2>3 DEF f
<1>9. ((a \o p) \o q) \o b = s
  BY ONLY <1>4, <1>6, <1>7, <1>8
<1> QED BY <1>2, <1>3, <1>4, <1>5, <1>6, <1>9 DEF Parted, a, p, q, b

(* onRowsMoved swaps the run that moves with the one it passes.            *)
LEMMA MovedIs ==
  ASSUME NEW S, NEW s \in Seq(S), NEW start \in 1 .. Len(s), NEW end \in start .. Len(s),
         NEW row \in 1 .. Len(s) + 1, row \notin start .. end + 1
  PROVE  LET moved == Repeater!Moved(s, start, end, row)
         IN  /\ moved.from \in Int
             /\ row > end => moved.all = Swapped(s, start, end + 1, row) /\ moved.from <= start
             /\ ~(row > end) => moved.all = Swapped(s, row, start, end + 1) /\ moved.from <= row
<1> DEFINE count == end - start + 1
           dest == IF row > start THEN row - count ELSE row
           rest == SubSeq(s, 1, start - 1) \o SubSeq(s, end + 1, Len(s))
           from == Repeater!Min({start, dest})
           all == (SubSeq(rest, 1, dest - 1) \o SubSeq(s, start, end)) \o SubSeq(rest, dest, Len(rest))
           moved == Repeater!Moved(s, start, end, row)
<1>1. moved.all = all /\ moved.from = from
  BY Zenon DEF Repeater!Moved
<1>2. start \in Int /\ dest \in Int
  OBVIOUS
<1> HIDE DEF dest, rest, all
<1>3. from \in {start, dest} /\ from <= start /\ from <= dest
  <2>1. \E x \in {start, dest} : \A y \in {start, dest} : x =< y
    <3>1. CASE start <= dest
      BY <1>2, <3>1
    <3>2. CASE ~(start <= dest)
      BY <1>2, <3>2
    <3> QED BY <3>1, <3>2
  <2>2. from = CHOOSE x \in {start, dest} : \A y \in {start, dest} : x =< y
    BY Zenon DEF Repeater!Min
  <2> HIDE DEF from
  <2>3. from \in {start, dest} /\ \A y \in {start, dest} : from =< y
    BY ONLY <2>1, <2>2
  <2> QED BY <2>3
<1> HIDE DEF from, moved
<1>4. CASE row > end
  <2> DEFINE a == SubSeq(s, 1, start - 1)
             p == SubSeq(s, start, end)
             q == SubSeq(s, end + 1, row - 1)
             b == SubSeq(s, row, Len(s))
  <2>1. /\ start \in 1 .. Len(s) + 1 /\ end + 1 \in start .. Len(s) + 1 /\ row \in end + 1 .. Len(s) + 1
        /\ (end + 1) - 1 = end /\ dest = row - count /\ dest - 1 = (start - 1) + (row - (end + 1))
        /\ row > start
    BY <1>4 DEF dest
  <2>2. /\ a \in Seq(S) /\ Len(a) = start - 1
        /\ SubSeq(s, start, (end + 1) - 1) \in Seq(S)
        /\ q \in Seq(S) /\ Len(q) = row - (end + 1)
        /\ b \in Seq(S) /\ q \o b = SubSeq(s, end + 1, Len(s))
    <3> DEFINE j == end + 1
    <3>1. Cuts(S, s, start, j, row)
      BY <2>1 DEF Cuts
    <3> HIDE DEF j
    <3>2. /\ SubSeq(s, 1, start - 1) \in Seq(S) /\ Len(SubSeq(s, 1, start - 1)) = start - 1
          /\ SubSeq(s, start, j - 1) \in Seq(S)
          /\ SubSeq(s, j, row - 1) \in Seq(S) /\ Len(SubSeq(s, j, row - 1)) = row - j
          /\ SubSeq(s, row, Len(s)) \in Seq(S)
          /\ SubSeq(s, j, row - 1) \o SubSeq(s, row, Len(s)) = SubSeq(s, j, Len(s))
      <4>1. Parted(S, s, start, j, row)
        BY ONLY <3>1, CutThrice
      <4> QED BY <4>1 DEF Parted
    <3> QED BY ONLY <3>2 DEF a, q, b, j
  <2> HIDE DEF a, q, b
  <2>3. rest = (a \o q) \o b /\ a \o q \in Seq(S) /\ Len(a \o q) = dest - 1
    <3>1. rest = a \o (q \o b)
      BY ONLY <2>2 DEF rest, a
    <3>2. (a \o q) \o b = a \o (q \o b)
      <4>1. Three(S, a, q, b)
        BY <2>2 DEF Three
      <4> QED BY ONLY <4>1, Regrouped
    <3>3. a \o q \in Seq(S) /\ Len(a \o q) = Len(a) + Len(q)
      BY ONLY <2>2, ConcatProperties
    <3> QED BY <2>1, <2>2, <3>1, <3>2, <3>3
  <2> DEFINE f == a \o q
  <2>4. f \in Seq(S) /\ dest - 1 = Len(f) /\ b \in Seq(S) /\ rest = f \o b /\ (dest - 1) + 1 = dest
    BY <1>2, <2>2, <2>3
  <2> HIDE DEF f
  <2>5. SubSeq(rest, 1, dest - 1) = f /\ SubSeq(rest, dest, Len(rest)) = b
    <3>1. /\ SubSeq(f \o b, 1, dest - 1) = f
          /\ SubSeq(f \o b, (dest - 1) + 1, Len(f \o b)) = b
      BY ONLY <2>4, FrontAndBack, SMTT(30)
    <3> QED BY ONLY <2>4, <3>1
  <2>6. all = (f \o p) \o b
    BY ONLY <2>5 DEF all, p
  <2>7. Swapped(s, start, end + 1, row) = (f \o p) \o b
    BY ONLY <2>1 DEF Swapped, f, a, q, b, p
  <2>8. moved.all = Swapped(s, start, end + 1, row) /\ moved.from <= start /\ moved.from \in Int
    BY <1>1, <1>2, <1>3, <2>6, <2>7
  <2> QED BY <1>4, <2>8 DEF moved
<1>5. CASE ~(row > end)
  <2> DEFINE a == SubSeq(s, 1, row - 1)
             p == SubSeq(s, row, start - 1)
             q == SubSeq(s, start, end)
             b == SubSeq(s, end + 1, Len(s))
  <2>1. /\ row \in 1 .. Len(s) + 1 /\ start \in row .. Len(s) + 1 /\ end + 1 \in start .. Len(s) + 1
        /\ (end + 1) - 1 = end /\ dest = row /\ (row - 1) + 1 = row
    BY <1>5 DEF dest
  <2>2. /\ a \in Seq(S) /\ Len(a) = row - 1
        /\ p \in Seq(S)
        /\ SubSeq(s, start, (end + 1) - 1) \in Seq(S)
        /\ b \in Seq(S) /\ a \o p = SubSeq(s, 1, start - 1)
    <3> DEFINE k == end + 1
    <3>1. Cuts(S, s, row, start, k)
      BY <2>1 DEF Cuts
    <3> HIDE DEF k
    <3>2. /\ SubSeq(s, 1, row - 1) \in Seq(S) /\ Len(SubSeq(s, 1, row - 1)) = row - 1
          /\ SubSeq(s, row, start - 1) \in Seq(S)
          /\ SubSeq(s, start, k - 1) \in Seq(S)
          /\ SubSeq(s, k, Len(s)) \in Seq(S)
          /\ SubSeq(s, 1, row - 1) \o SubSeq(s, row, start - 1) = SubSeq(s, 1, start - 1)
      <4>1. Parted(S, s, row, start, k)
        BY ONLY <3>1, CutThrice
      <4> QED BY <4>1 DEF Parted
    <3> QED BY ONLY <3>2 DEF a, p, b, k
  <2>3. q \in Seq(S)
    BY <2>1, <2>2
  <2> HIDE DEF a, p, b, q
  <2>4. rest = a \o (p \o b) /\ p \o b \in Seq(S)
    <3>1. rest = (a \o p) \o b
      BY ONLY <2>2 DEF rest, b
    <3>2. (a \o p) \o b = a \o (p \o b)
      <4>1. Three(S, a, p, b)
        BY <2>2 DEF Three
      <4> QED BY ONLY <4>1, Regrouped
    <3>3. p \o b \in Seq(S)
      BY ONLY <2>2, ConcatProperties
    <3> QED BY <3>1, <3>2, <3>3
  <2> DEFINE g == p \o b
  <2>5. g \in Seq(S) /\ row - 1 = Len(a) /\ a \in Seq(S) /\ rest = a \o g
    BY <2>2, <2>4
  <2> HIDE DEF g
  <2>6. SubSeq(rest, 1, dest - 1) = a /\ SubSeq(rest, dest, Len(rest)) = g
    <3>1. /\ SubSeq(a \o g, 1, row - 1) = a
          /\ SubSeq(a \o g, (row - 1) + 1, Len(a \o g)) = g
      BY ONLY <2>5, FrontAndBack
    <3> QED BY ONLY <2>1, <2>5, <3>1
  <2>7. all = (a \o q) \o g
    BY ONLY <2>6 DEF all, q
  <2>8. (a \o q) \o g = ((a \o q) \o p) \o b
    <3>1. a \o q \in Seq(S)
      BY ONLY <2>2, <2>3, ConcatProperties
    <3>2. ((a \o q) \o p) \o b = (a \o q) \o (p \o b)
      <4> DEFINE f == a \o q
      <4>1. Three(S, f, p, b)
        BY <2>2, <3>1 DEF Three
      <4> HIDE DEF f
      <4>2. (f \o p) \o b = f \o (p \o b)
        BY ONLY <4>1, Regrouped
      <4> QED BY <4>2 DEF f
    <3> QED BY <3>2 DEF g
  <2>9. Swapped(s, row, start, end + 1) = ((a \o q) \o p) \o b
    BY ONLY <2>1 DEF Swapped, a, q, b, p
  <2>10. moved.all = Swapped(s, row, start, end + 1) /\ moved.from <= row /\ moved.from \in Int
    BY <1>1, <1>2, <1>3, <2>1, <2>7, <2>8, <2>9
  <2> QED BY <1>5, <2>10 DEF moved
<1> QED BY <1>4, <1>5

(* After that the items show the rows in the new order.                    *)
LEMMA SwapKeeps ==
  ASSUME RepeaterInv, repComplete, NEW i \in 1 .. Len(repItems) + 1, NEW j \in i .. Len(repItems) + 1,
         NEW k \in j .. Len(repItems) + 1, NEW from \in Int, from <= i, NEW all, all = Swapped(repItems, i, j, k),
         repItems' = Repeater!Reindexed(all, from), repStack' = Repeater!Restacked(repStack, all),
         repLeaving' = repLeaving, repCreated' = repCreated
  PROVE  /\ Apart(repItems', repLeaving', repCreated') /\ Stacked(repStack', repItems', repLeaving')
         /\ RowsOf(repItems') = Swapped(repRows, i, j, k) /\ Indexed(repItems')
         /\ InLine(IdsOf(repItems')) = InLine(IdsOf(repItems))
<1> DEFINE A == SubSeq(repItems, 1, i - 1)
           P == SubSeq(repItems, i, j - 1)
           Q == SubSeq(repItems, j, k - 1)
           B == SubSeq(repItems, k, Len(repItems))
<1>1. /\ repItems \in ItemList /\ Len(repItems) \in Nat /\ RowsOf(repItems) = repRows /\ Indexed(repItems)
      /\ repCreated \in Nat /\ Apart(repItems, repLeaving, repCreated)
      /\ Stacked(repStack, repItems, repLeaving) /\ Len(repRows) = Len(repItems)
  BY IdsAndRows DEF RepeaterInv, Apart
<1>2. /\ A \in ItemList /\ P \in ItemList /\ Q \in ItemList /\ B \in ItemList
      /\ repItems = ((A \o P) \o Q) \o B
      /\ Len(A) = i - 1 /\ \A l \in 1 .. i - 1 : A[l] = repItems[l]
  <2>1. Cuts(RepeaterItem, repItems, i, j, k)
    BY <1>1 DEF ItemList, Cuts
  <2>2. /\ A \in Seq(RepeaterItem) /\ P \in Seq(RepeaterItem) /\ Q \in Seq(RepeaterItem)
        /\ B \in Seq(RepeaterItem) /\ ((A \o P) \o Q) \o B = repItems
        /\ Len(A) = i - 1 /\ \A l \in 1 .. i - 1 : A[l] = repItems[l]
    <3> HIDE DEF RepeaterItem
    <3>1. Parted(RepeaterItem, repItems, i, j, k)
      BY ONLY <2>1, CutThrice
    <3> QED BY <3>1 DEF Parted
  <2> QED BY <2>2 DEF ItemList
<1>3. all = ((A \o Q) \o P) \o B
  BY DEF Swapped
<1>4. RowsOf(all) = Swapped(repRows, i, j, k)
  <2>1. RowsOf(A) = SubSeq(repRows, 1, i - 1)
    <3>1. 1 \in 1 .. Len(repItems) + 1 /\ i - 1 \in (1 - 1) .. Len(repItems)
      BY <1>1
    <3> QED BY ONLY <1>1, <3>1, RowsOfParts
  <2>2. RowsOf(P) = SubSeq(repRows, i, j - 1)
    <3>1. i \in 1 .. Len(repItems) + 1 /\ j - 1 \in (i - 1) .. Len(repItems)
      BY <1>1
    <3> QED BY ONLY <1>1, <3>1, RowsOfParts
  <2>3. RowsOf(Q) = SubSeq(repRows, j, k - 1)
    <3>1. j \in 1 .. Len(repItems) + 1 /\ k - 1 \in (j - 1) .. Len(repItems)
      BY <1>1
    <3> QED BY ONLY <1>1, <3>1, RowsOfParts
  <2>4. RowsOf(B) = SubSeq(repRows, k, Len(repRows))
    <3>1. k \in 1 .. Len(repItems) + 1 /\ Len(repItems) \in (k - 1) .. Len(repItems)
      BY <1>1
    <3> QED BY ONLY <1>1, <3>1, RowsOfParts
  <2> HIDE DEF A, P, Q, B
  <2>5. A \o Q \in ItemList /\ RowsOf(A \o Q) = RowsOf(A) \o RowsOf(Q)
    BY <1>2, IdsAndRowsJoined
  <2>6. (A \o Q) \o P \in ItemList /\ RowsOf((A \o Q) \o P) = RowsOf(A \o Q) \o RowsOf(P)
    BY <1>2, <2>5, IdsAndRowsJoined
  <2>7. RowsOf(all) = RowsOf((A \o Q) \o P) \o RowsOf(B)
    BY <1>2, <1>3, <2>6, IdsAndRowsJoined, ZenonT(30)
  <2> QED BY ONLY <2>1, <2>2, <2>3, <2>4, <2>5, <2>6, <2>7 DEF Swapped
<1> HIDE DEF A, P, Q, B
<1>5. all \in ItemList /\ Len(all) \in Nat /\ \A l \in 1 .. i - 1 : all[l] = A[l]
  <2> DEFINE f == A \o Q
             g == f \o P
  <2>1. f \in ItemList /\ Len(f) = Len(A) + Len(Q) /\ Len(Q) \in Nat /\ \A l \in 1 .. Len(A) : f[l] = A[l]
    BY <1>2, IdsAndRowsJoined
  <2> HIDE DEF f
  <2>2. g \in ItemList /\ Len(g) = Len(f) + Len(P) /\ Len(P) \in Nat /\ \A l \in 1 .. Len(f) : g[l] = f[l]
    BY <1>2, <2>1, IdsAndRowsJoined
  <2> HIDE DEF g
  <2>3. all = g \o B
    BY <1>3 DEF g, f
  <2>4. all \in ItemList /\ \A l \in 1 .. Len(g) : all[l] = g[l]
    <3>1. g \in ItemList /\ B \in ItemList
      BY <1>2, <2>2
    <3> QED BY ONLY <2>3, <3>1, IdsAndRowsJoined
  <2>5. Len(all) \in Nat
    BY ONLY <2>4, IdsAndRows
  <2>6. \A l \in 1 .. i - 1 : l \in 1 .. Len(A) /\ l \in 1 .. Len(f) /\ l \in 1 .. Len(g)
    BY <1>1, <1>2, <2>1, <2>2
  <2> QED BY <2>1, <2>2, <2>4, <2>5, <2>6
<1>6. \A l \in 1 .. Len(all) : l < from => all[l].index = l - 1
  <2>1. \A l \in 1 .. Len(all) : l < from => l \in 1 .. i - 1 /\ l \in 1 .. Len(repItems)
    BY <1>1, <1>5
  <2> QED BY <1>1, <1>2, <1>5, <2>1 DEF Indexed
<1>7. /\ Apart(all, repLeaving, repCreated) /\ InLine(IdsOf(all)) = InLine(IdsOf(repItems))
      /\ Stacked(Repeater!Restacked(repStack, all), all, repLeaving)
  <2>1. Swaps(repStack, A, P, Q, B, repLeaving, repCreated)
    BY ONLY <1>1, <1>2 DEF Swaps
  <2>2. LET t == ((A \o Q) \o P) \o B
        IN  /\ Apart(t, repLeaving, repCreated)
            /\ InLine(IdsOf(t)) = InLine(IdsOf(((A \o P) \o Q) \o B))
            /\ Stacked(Repeater!Restacked(repStack, t), t, repLeaving)
    BY ONLY <2>1, RunsSwapped
  <2> QED BY ONLY <1>2, <1>3, <2>2
<1>8. /\ repItems' \in ItemList /\ IdsOf(repItems') = IdsOf(all) /\ RowsOf(repItems') = RowsOf(all)
      /\ Indexed(repItems')
  <2>1. LET r == Repeater!Reindexed(all, from)
        IN  r \in ItemList /\ IdsOf(r) = IdsOf(all) /\ RowsOf(r) = RowsOf(all) /\ Indexed(r)
    BY ONLY <1>5, <1>6, from \in Int, ReindexedIs
  <2> QED BY <2>1
<1>9. Apart(repItems', repLeaving', repCreated') /\ Stacked(repStack', repItems', repLeaving')
  BY <1>7, <1>8 DEF Apart, Stacked
<1> QED BY <1>4, <1>7, <1>8, <1>9

-----------------------------------------------------------------------------
(* What a model can be: so many numbers, or rows of a list.                *)
LEMMA CountedIs ==
  ASSUME NEW n \in Nat
  PROVE  /\ Repeater!Counted(n) \in Seq(RepeaterRow) /\ Len(Repeater!Counted(n)) = n
         /\ \A i \in 1 .. n : Repeater!Counted(n)[i] = i - 1
<1> DEFINE c == Repeater!Counted(n)
<1>1. c = [i \in 1 .. n |-> i - 1]
  BY DEF Repeater!Counted
<1> HIDE DEF c
<1>2. \A i \in 1 .. n : i - 1 \in RepeaterRow
  BY DEF RepeaterRow
<1>3. c \in [1 .. n -> RepeaterRow]
  BY <1>1, <1>2
<1>4. c \in Seq(RepeaterRow)
  BY ONLY <1>3, n \in Nat, IsASeq
<1>5. Len(c) = n
  BY <1>1, <1>4, LenProperties
<1> QED BY <1>1, <1>4, <1>5 DEF c

(* A smaller number counts as the greater one begins.                      *)
LEMMA CountedFewer ==
  ASSUME NEW n \in Nat, NEW m \in 0 .. n
  PROVE  SubSeq(Repeater!Counted(n), 1, m) = Repeater!Counted(m)
<1> DEFINE c == Repeater!Counted(n)
           d == Repeater!Counted(m)
           p == SubSeq(c, 1, m)
<1>1. c \in Seq(RepeaterRow) /\ Len(c) = n /\ \A i \in 1 .. n : c[i] = i - 1
  BY CountedIs
<1>2. m \in Nat /\ 1 \in 1 .. n + 1 /\ m \in (1 - 1) .. n /\ m - 1 + 1 = m
      /\ \A k \in 1 .. m : 1 + k - 1 = k /\ k \in 1 .. n
  OBVIOUS
<1>3. d \in Seq(RepeaterRow) /\ Len(d) = m /\ \A i \in 1 .. m : d[i] = i - 1
  BY <1>2, CountedIs
<1> HIDE DEF c, d
<1>4. /\ p \in Seq(RepeaterRow) /\ Len(p) = m - 1 + 1
      /\ \A k \in 1 .. m - 1 + 1 : p[k] = c[1 + k - 1]
  BY <1>1, <1>2, Parts
<1> HIDE DEF p
<1>5. p = d
  BY <1>1, <1>2, <1>3, <1>4, SeqEqual
<1> QED BY <1>5 DEF p, c, d

(* A model has rows.                                                       *)
LEMMA ModelsAreRows == Repeater!Models \subseteq Seq(RepeaterRow)
<1> SUFFICES ASSUME NEW s \in Repeater!Models PROVE s \in Seq(RepeaterRow)
  OBVIOUS
<1>1. s \in Repeater!BoundedSeq(RepeaterRows, MaxRepeaterRows) /\ MaxRepeaterRows \in Nat
  BY LevelsAssumption DEF Repeater!Models
<1>2. PICK m \in 0 .. MaxRepeaterRows : s \in [1 .. m -> RepeaterRows]
  BY <1>1 DEF Repeater!BoundedSeq, Repeater!SeqOf
<1>3. m \in Nat /\ s \in [1 .. m -> RepeaterRow]
  BY <1>1, <1>2 DEF RepeaterRow
<1> QED BY ONLY <1>3, IsASeq

Fits(its, children, now, first, last) ==
  /\ now \in Seq(RepeaterRow) /\ first \in 1 .. Len(its) + 1 /\ last \in (first - 1) .. Len(now)
  /\ repCreated \in Nat /\ repItems \in ItemList /\ Apart(its, repLeaving, repCreated)
  /\ Stacked(children, its, repLeaving) /\ Indexed(its) /\ Len(now) = Len(its) + (last - first + 1)
  /\ RowsOf(SubSeq(its, 1, first - 1)) = SubSeq(now, 1, first - 1)
  /\ RowsOf(SubSeq(its, first, Len(its))) = SubSeq(now, last + 1, Len(now))

(* InsertKeeps, with what it needs as one predicate.                       *)
LEMMA InsertFits ==
  ASSUME NEW its, NEW children, NEW now, NEW first, NEW last, NEW adds, Fits(its, children, now, first, last),
         Repeater!InsertItems(its, children, first, last, now, adds)
  PROVE  /\ repCreated' \in Nat /\ Apart(repItems', repLeaving, repCreated')
         /\ Stacked(repStack', repItems', repLeaving) /\ RowsOf(repItems') = now /\ Indexed(repItems')
         /\ \E ids : /\ ids \subseteq InLine(IdsOf(repItems')) /\ InLine(IdsOf(its)) \subseteq InLine(IdsOf(repItems'))
                     /\ repAdding' = IF adds THEN repAdding \cup ids ELSE repAdding
                     /\ repFresh' = IF adds THEN repFresh \cup ids
                                    ELSE repFresh \ (InLine(IdsOf(repItems)) \ InLine(IdsOf(its)))
                     /\ repFlush' = (repFlush \/ (adds /\ ids # {}))
BY InsertKeeps DEF Fits

(* insertItems among the items there are.                                  *)
Adds(now, first, last) ==
  /\ RepeaterInv /\ repComplete /\ now \in Seq(RepeaterRow)
  /\ first \in 1 .. Len(repItems) + 1 /\ last \in (first - 1) .. Len(now)
  /\ Len(now) = Len(repRows) + (last - first + 1)
  /\ SubSeq(now, 1, first - 1) = SubSeq(repRows, 1, first - 1)
  /\ SubSeq(now, last + 1, Len(now)) = SubSeq(repRows, first, Len(repRows))

Keeps(now) ==
  /\ repCreated' \in Nat /\ Apart(repItems', repLeaving', repCreated')
  /\ Stacked(repStack', repItems', repLeaving') /\ RowsOf(repItems') = now /\ Indexed(repItems') /\ Queued'

(* New rows among those there are get their items.                         *)
LEMMA AddKeeps ==
  ASSUME NEW now, NEW first, NEW last, Adds(now, first, last),
         Repeater!InsertItems(repItems, repStack, first, last, now, TRUE), repLeaving' = repLeaving
  PROVE  Keeps(now)
<1>1. /\ now \in Seq(RepeaterRow) /\ first \in 1 .. Len(repItems) + 1 /\ last \in (first - 1) .. Len(now)
      /\ SubSeq(now, 1, first - 1) = SubSeq(repRows, 1, first - 1)
      /\ SubSeq(now, last + 1, Len(now)) = SubSeq(repRows, first, Len(repRows))
      /\ repItems \in ItemList /\ RowsOf(repItems) = repRows /\ Indexed(repItems)
      /\ repCreated \in Nat /\ Apart(repItems, repLeaving, repCreated)
      /\ Stacked(repStack, repItems, repLeaving) /\ Queued
  BY DEF Adds, RepeaterInv, Apart
<1>2. Len(repRows) = Len(repItems) /\ Len(repItems) \in Nat
  BY <1>1, IdsAndRows
<1>3. Len(now) = Len(repItems) + (last - first + 1)
  BY <1>2 DEF Adds
<1>4. RowsOf(SubSeq(repItems, 1, first - 1)) = SubSeq(now, 1, first - 1)
  <2>1. 1 \in 1 .. Len(repItems) + 1 /\ first - 1 \in (1 - 1) .. Len(repItems)
    BY <1>1, <1>2
  <2> QED BY ONLY <1>1, <2>1, RowsOfParts
<1>5. RowsOf(SubSeq(repItems, first, Len(repItems))) = SubSeq(now, last + 1, Len(now))
  <2>1. first \in 1 .. Len(repItems) + 1 /\ Len(repItems) \in (first - 1) .. Len(repItems)
    BY <1>1, <1>2
  <2>2. RowsOf(SubSeq(repItems, first, Len(repItems))) = SubSeq(RowsOf(repItems), first, Len(repItems))
    BY ONLY <1>1, <2>1, RowsOfParts
  <2> QED BY ONLY <1>1, <1>2, <2>2
<1> DEFINE adds == TRUE
<1>6. Repeater!InsertItems(repItems, repStack, first, last, now, adds)
  BY Zenon
<1> HIDE DEF adds
<1>7. /\ repCreated' \in Nat /\ Apart(repItems', repLeaving, repCreated')
      /\ Stacked(repStack', repItems', repLeaving) /\ RowsOf(repItems') = now /\ Indexed(repItems')
      /\ \E ids : /\ ids \subseteq InLine(IdsOf(repItems'))
                  /\ InLine(IdsOf(repItems)) \subseteq InLine(IdsOf(repItems'))
                  /\ repAdding' = IF adds THEN repAdding \cup ids ELSE repAdding
                  /\ repFresh' = IF adds THEN repFresh \cup ids
                                 ELSE repFresh \ (InLine(IdsOf(repItems)) \ InLine(IdsOf(repItems)))
                  /\ repFlush' = (repFlush \/ (adds /\ ids # {}))
  <2>1. Fits(repItems, repStack, now, first, last)
    BY <1>1, <1>3, <1>4, <1>5 DEF Fits
  <2> QED BY ONLY <1>6, <2>1, InsertFits
<1>8. PICK ids : /\ ids \subseteq InLine(IdsOf(repItems'))
                 /\ InLine(IdsOf(repItems)) \subseteq InLine(IdsOf(repItems'))
                 /\ repAdding' = repAdding \cup ids /\ repFresh' = repFresh \cup ids
                 /\ repFlush' = (repFlush \/ (ids # {}))
  BY <1>7, Zenon DEF adds
<1>9. repFresh \subseteq InLine(IdsOf(repItems)) /\ repFresh \subseteq repAdding /\ (repFresh # {} => repFlush)
  BY <1>1 DEF Queued
<1>10. repFresh' \subseteq InLine(IdsOf(repItems')) /\ repFresh' \subseteq repAdding'
  BY <1>8, <1>9
<1>11. repFresh' # {} => repFlush'
  <2>1. CASE ids # {}
    BY <1>8, <2>1
  <2>2. CASE ids = {}
    BY <1>8, <1>9, <2>2
  <2> QED BY <2>1, <2>2
<1>12. Queued'
  BY <1>10, <1>11 DEF Queued
<1> QED BY <1>7, <1>12 DEF Keeps

-----------------------------------------------------------------------------
(* The actions.                                                            *)
LEMMA KeptIs ==
  ASSUME NEW now \in Seq(RepeaterRow), Keeps(now), repRows' = now, repComplete' \in BOOLEAN, repComplete',
         repMode' = "count" => now = Repeater!Counted(Len(now))
  PROVE  RepeaterInv'
BY DEF Keeps, RepeaterInv

(* After regenerate the items are those of the model.                      *)
LEMMA RegeneratedIs ==
  ASSUME RepeaterInv, NEW now \in Seq(RepeaterRow), NEW done \in BOOLEAN, Repeater!Regenerate(now, done),
         repRows' = now, repComplete' = done, repMode' = "count" => now = Repeater!Counted(Len(now))
  PROVE  RepeaterInv'
<1>1. /\ repCreated' \in Nat /\ Apart(repItems', repLeaving', repCreated')
      /\ Stacked(repStack', repItems', repLeaving') /\ Queued'
      /\ done => RowsOf(repItems') = now /\ Indexed(repItems')
      /\ ~done => repItems' = <<>>
  BY RegenerateKeeps
<1> QED BY <1>1 DEF RepeaterInv

(* After removeItems they are those of the rows that are left.             *)
LEMMA RemovedIs ==
  ASSUME RepeaterInv, repComplete, NEW first \in 1 .. Len(repItems) + 1,
         NEW last \in (first - 1) .. Len(repItems), Repeater!RemoveItems(first, last)
  PROVE  Keeps(SubSeq(repRows, 1, first - 1) \o SubSeq(repRows, last + 1, Len(repRows)))
BY RemoveKeeps DEF Keeps

(* What the items are of, where the component is complete.                 *)
LEMMA ItemsAreOfRows ==
  ASSUME RepeaterInv, repComplete
  PROVE  Len(repItems) = Len(repRows) /\ Len(repRows) \in Nat /\ repRows \in Seq(RepeaterRow)
BY IdsAndRows DEF RepeaterInv, Apart

(* setModel makes or removes items, or makes all of them anew.             *)
LEMMA SetModelKeeps ==
  ASSUME RepeaterInv, NEW m, NEW now \in Seq(RepeaterRow), m = "count" => now = Repeater!Counted(Len(now)),
         Repeater!SetModel(m, now)
  PROVE  RepeaterInv'
<1>1. /\ repMode' = m /\ repRows' = now /\ repComplete' = repComplete
      /\ CASE ~(repComplete /\ repMode = "count" /\ m = "count") -> Repeater!Regenerate(now, repComplete)
           [] repComplete /\ repMode = "count" /\ m = "count" /\ Len(now) > Len(repRows) ->
                Repeater!InsertItems(repItems, repStack, Len(repRows) + 1, Len(now), now, TRUE)
                /\ repLeaving' = repLeaving
           [] OTHER -> Repeater!RemoveItems(Len(now) + 1, Len(repRows))
  BY Zenon DEF Repeater!SetModel
<1>2. repComplete \in BOOLEAN /\ Len(now) \in Nat /\ repRows \in Seq(RepeaterRow) /\ Len(repRows) \in Nat
      /\ (repMode = "count" => repRows = Repeater!Counted(Len(repRows)))
  BY DEF RepeaterInv
<1>3. CASE ~(repComplete /\ repMode = "count" /\ m = "count")
  <2>1. Repeater!Regenerate(now, repComplete)
    BY <1>1, <1>3
  <2> QED BY <1>1, <1>2, <2>1, RegeneratedIs
<1>4. CASE repComplete /\ repMode = "count" /\ m = "count" /\ Len(now) > Len(repRows)
  <2> DEFINE first == Len(repRows) + 1
             last == Len(now)
  <2>1. Repeater!InsertItems(repItems, repStack, first, last, now, TRUE) /\ repLeaving' = repLeaving
    BY <1>1, <1>4
  <2>2. now = Repeater!Counted(Len(now)) /\ repRows = Repeater!Counted(Len(repRows))
    BY <1>2, <1>4
  <2>3. Len(repItems) = Len(repRows)
    BY <1>4, ItemsAreOfRows
  <2>4. SubSeq(now, 1, first - 1) = SubSeq(repRows, 1, first - 1)
    <3>1. first - 1 = Len(repRows) /\ Len(repRows) \in 0 .. Len(now) /\ Len(repRows) \in 0 .. Len(repRows)
      BY <1>2, <1>4
    <3>2. SubSeq(Repeater!Counted(Len(now)), 1, Len(repRows)) = Repeater!Counted(Len(repRows))
      BY ONLY <1>2, <3>1, CountedFewer
    <3>3. SubSeq(Repeater!Counted(Len(repRows)), 1, Len(repRows)) = Repeater!Counted(Len(repRows))
      BY ONLY <1>2, <3>1, CountedFewer
    <3> QED BY ONLY <2>2, <3>1, <3>2, <3>3
  <2>5. SubSeq(now, last + 1, Len(now)) = <<>> /\ SubSeq(repRows, first, Len(repRows)) = <<>>
    BY <1>2, SubSeqEmpty
  <2>6. /\ first \in 1 .. Len(repItems) + 1 /\ last \in (first - 1) .. Len(now)
        /\ Len(now) = Len(repRows) + (last - first + 1)
    BY <1>2, <1>4, <2>3
  <2>7. Adds(now, first, last)
    <3> HIDE DEF first, last
    <3> QED BY <1>4, <2>4, <2>5, <2>6 DEF Adds
  <2> HIDE DEF first, last
  <2>8. Keeps(now)
    BY ONLY <2>1, <2>7, AddKeeps
  <2> QED BY <1>1, <1>2, <1>4, <2>8, KeptIs
<1>5. CASE repComplete /\ repMode = "count" /\ m = "count" /\ ~(Len(now) > Len(repRows))
  <2> DEFINE first == Len(now) + 1
             last == Len(repRows)
  <2>1. Repeater!RemoveItems(first, last)
    BY <1>1, <1>5
  <2>2. now = Repeater!Counted(Len(now)) /\ repRows = Repeater!Counted(Len(repRows))
    BY <1>2, <1>5
  <2>3. Len(repItems) = Len(repRows)
    BY <1>5, ItemsAreOfRows
  <2>4. SubSeq(repRows, 1, first - 1) = now
    <3>1. first - 1 = Len(now) /\ Len(now) \in 0 .. Len(repRows)
      BY <1>2, <1>5
    <3>2. SubSeq(Repeater!Counted(Len(repRows)), 1, Len(now)) = Repeater!Counted(Len(now))
      BY ONLY <1>2, <3>1, CountedFewer
    <3> QED BY ONLY <2>2, <3>1, <3>2
  <2>5. SubSeq(repRows, last + 1, Len(repRows)) = <<>>
    BY <1>2, SubSeqEmpty
  <2>6. first \in 1 .. Len(repItems) + 1 /\ last \in (first - 1) .. Len(repItems)
    BY <1>2, <1>5, <2>3
  <2> HIDE DEF first, last
  <2>7. Keeps(SubSeq(repRows, 1, first - 1) \o SubSeq(repRows, last + 1, Len(repRows)))
    BY <1>5, <2>1, <2>6, RemovedIs
  <2>8. Keeps(now)
    <3>1. now \o <<>> = now
      BY ConcatEmptySeq
    <3> QED BY <2>4, <2>5, <2>7, <3>1
  <2> QED BY <1>1, <1>2, <1>5, <2>8, KeptIs
<1> QED BY <1>3, <1>4, <1>5

(* componentComplete makes the items of the model.                         *)
LEMMA CompleteKeeps == RepeaterInv /\ Repeater!ComponentComplete => RepeaterInv'
<1> SUFFICES ASSUME RepeaterInv, Repeater!ComponentComplete PROVE RepeaterInv'
  OBVIOUS
<1> DEFINE done == TRUE
<1>1. Repeater!Regenerate(repRows, done) /\ repComplete' = done /\ repRows' = repRows /\ repMode' = repMode
      /\ done \in BOOLEAN
  BY Zenon DEF Repeater!ComponentComplete
<1>2. repRows \in Seq(RepeaterRow) /\ (repMode = "count" => repRows = Repeater!Counted(Len(repRows)))
  BY DEF RepeaterInv
<1> HIDE DEF done
<1> QED BY <1>1, <1>2, RegeneratedIs

(* onModelReset                                                            *)
LEMMA ResetModelKeeps ==
  ASSUME RepeaterInv, NEW now \in Seq(RepeaterRow), Repeater!ModelReset(now)
  PROVE  RepeaterInv'
<1>1. /\ Repeater!Regenerate(now, repComplete) /\ repComplete' = repComplete /\ repRows' = now
      /\ repMode' = "model" /\ repComplete \in BOOLEAN
  BY DEF Repeater!ModelReset, RepeaterInv
<1> QED BY <1>1, RegeneratedIs

(* onModelDestroyed                                                        *)
LEMMA DestroyModelKeeps == RepeaterInv /\ Repeater!ModelDestroyed => RepeaterInv'
<1> SUFFICES ASSUME RepeaterInv, Repeater!ModelDestroyed PROVE RepeaterInv'
  OBVIOUS
<1> DEFINE none == <<>>
<1>1. /\ Repeater!Regenerate(none, repComplete) /\ repComplete' = repComplete /\ repRows' = none
      /\ repMode' = "none" /\ repComplete \in BOOLEAN
  BY DEF Repeater!ModelDestroyed, RepeaterInv
<1>2. none \in Seq(RepeaterRow)
  BY EmptySeq
<1> HIDE DEF none
<1> QED BY <1>1, <1>2, RegeneratedIs

(* setModel, with whatever it is called.                                   *)
LEMMA SetSomeModelKeeps ==
  ASSUME RepeaterInv,
         \/ Repeater!SetModel("none", <<>>)
         \/ \E now \in Repeater!Models : Repeater!SetModel("list", now) \/ Repeater!SetModel("model", now)
         \/ \E n \in 0 .. MaxRepeaterRows : Repeater!SetModel("count", Repeater!Counted(n))
  PROVE  RepeaterInv'
<1>1. CASE Repeater!SetModel("none", <<>>)
  <2> DEFINE none == <<>>
  <2>1. none \in Seq(RepeaterRow) /\ Repeater!SetModel("none", none)
    BY <1>1, EmptySeq
  <2> HIDE DEF none
  <2> QED BY <2>1, SetModelKeeps
<1>2. ASSUME NEW now \in Repeater!Models, Repeater!SetModel("list", now) \/ Repeater!SetModel("model", now)
      PROVE  RepeaterInv'
  <2>1. now \in Seq(RepeaterRow)
    BY ModelsAreRows
  <2> QED BY <1>2, <2>1, SetModelKeeps
<1>3. ASSUME NEW n \in 0 .. MaxRepeaterRows, Repeater!SetModel("count", Repeater!Counted(n)) PROVE RepeaterInv'
  <2>1. n \in Nat
    BY LevelsAssumption
  <2>2. Repeater!Counted(n) \in Seq(RepeaterRow) /\ Len(Repeater!Counted(n)) = n
    BY <2>1, CountedIs
  <2> DEFINE now == Repeater!Counted(n)
  <2>3. now \in Seq(RepeaterRow) /\ now = Repeater!Counted(Len(now)) /\ Repeater!SetModel("count", now)
    BY <1>3, <2>2
  <2> HIDE DEF now
  <2> QED BY <2>3, SetModelKeeps
<1> QED BY <1>1, <1>2, <1>3

(* A change of the rows before the component is complete makes no items.   *)
LEMMA QuietIs ==
  ASSUME RepeaterInv, ~repComplete, repRows' \in Seq(RepeaterRow), repMode' = "model",
         repComplete' = repComplete,
         UNCHANGED <<repItems, repStack, repFresh, repAdding, repFlush, repCreated, repLeaving>>
  PROVE  RepeaterInv'
BY DEF RepeaterInv, Apart, Stacked, Queued

(* A row is put in, and those before and behind it stay.                   *)
LEMMA OneMoreRow ==
  ASSUME NEW S, NEW s \in Seq(S), NEW i \in 1 .. Len(s) + 1, NEW r \in S
  PROVE  LET now == (SubSeq(s, 1, i - 1) \o <<r>>) \o SubSeq(s, i, Len(s))
         IN  /\ now \in Seq(S) /\ Len(now) = Len(s) + 1
             /\ SubSeq(now, 1, i - 1) = SubSeq(s, 1, i - 1)
             /\ SubSeq(now, i + 1, Len(now)) = SubSeq(s, i, Len(s))
<1> DEFINE a == SubSeq(s, 1, i - 1)
           x == <<r>>
           b == SubSeq(s, i, Len(s))
           f == a \o x
           g == x \o b
           now == f \o b
<1>1. /\ a \in Seq(S) /\ b \in Seq(S) /\ Len(a) = i - 1 /\ Len(b) = Len(s) - i + 1
      /\ Len(s) \in Nat
  BY CutOnce
<1>2. x \in Seq(S) /\ Len(x) = 1
  OBVIOUS
<1> HIDE DEF a, b, x
<1>3. /\ f \in Seq(S) /\ Len(f) = i /\ g \in Seq(S)
  <2>1. f \in Seq(S) /\ Len(f) = Len(a) + Len(x)
    BY ONLY <1>1, <1>2, ConcatProperties
  <2>2. g \in Seq(S)
    BY ONLY <1>1, <1>2, ConcatProperties
  <2> HIDE DEF f, g
  <2>3. (i - 1) + 1 = i
    OBVIOUS
  <2> QED BY <1>1, <1>2, <2>1, <2>2, <2>3
<1>4. now \in Seq(S) /\ Len(now) = Len(s) + 1
  <2>1. now \in Seq(S) /\ Len(now) = Len(f) + Len(b)
    BY ONLY <1>1, <1>3, ConcatProperties
  <2> HIDE DEF now, f
  <2> QED BY <1>1, <1>3, <2>1
<1>5. now = a \o g
  <2>1. Three(S, a, x, b)
    BY <1>1, <1>2 DEF Three
  <2> QED BY ONLY <2>1, Regrouped
<1>6. SubSeq(now, 1, i - 1) = a
  <2> DEFINE n == i - 1
  <2>1. n = Len(a)
    BY <1>1
  <2> HIDE DEF g, n, now
  <2>2. SubSeq(a \o g, 1, n) = a
    BY ONLY <1>1, <1>3, <2>1, FrontAndBack
  <2> QED BY <1>5, <2>2 DEF n
<1>7. SubSeq(now, i + 1, Len(now)) = b
  <2>1. i = Len(f)
    BY <1>3
  <2> HIDE DEF f
  <2> QED BY <1>1, <1>3, <2>1, FrontAndBack
<1> QED BY <1>4, <1>6, <1>7 DEF a, b, x

(* onRowsInserted                                                          *)
LEMMA RowsInsertedKeeps ==
  ASSUME RepeaterInv, NEW first \in 1 .. Len(repRows) + 1, NEW r \in RepeaterRows,
         Repeater!RowsInserted(first, <<r>>)
  PROVE  RepeaterInv'
<1> DEFINE now == (SubSeq(repRows, 1, first - 1) \o <<r>>) \o SubSeq(repRows, first, Len(repRows))
           last == first + Len(<<r>>) - 1
<1>1. /\ repRows' = now /\ repMode' = "model" /\ repComplete' = repComplete /\ repLeaving' = repLeaving
      /\ IF repComplete THEN Repeater!InsertItems(repItems, repStack, first, last, now, TRUE)
         ELSE UNCHANGED <<repItems, repStack, repFresh, repAdding, repFlush, repCreated>>
  BY DEF Repeater!RowsInserted
<1>2. last = first /\ first \in Nat
  OBVIOUS
<1>3. /\ now \in Seq(RepeaterRow) /\ Len(now) = Len(repRows) + 1
      /\ SubSeq(now, 1, first - 1) = SubSeq(repRows, 1, first - 1)
      /\ SubSeq(now, first + 1, Len(now)) = SubSeq(repRows, first, Len(repRows))
  <2>1. repRows \in Seq(RepeaterRow) /\ r \in RepeaterRow
    BY DEF RepeaterInv, RepeaterRow
  <2> HIDE DEF RepeaterRow
  <2> QED BY ONLY <2>1, first \in 1 .. Len(repRows) + 1, OneMoreRow
<1> HIDE DEF now, last
<1>4. CASE repComplete
  <2>1. /\ Len(repItems) = Len(repRows) /\ Len(repRows) \in Nat /\ repComplete \in BOOLEAN
    BY <1>4, ItemsAreOfRows DEF RepeaterInv
  <2>2. Adds(now, first, last)
    BY <1>2, <1>3, <1>4, <2>1 DEF Adds
  <2>3. Repeater!InsertItems(repItems, repStack, first, last, now, TRUE)
    BY <1>1, <1>4
  <2>4. Keeps(now)
    BY ONLY <1>1, <2>2, <2>3, AddKeeps
  <2> QED BY <1>1, <1>3, <1>4, <2>1, <2>4, KeptIs
<1>5. CASE ~repComplete
  BY <1>1, <1>3, <1>5, QuietIs
<1> QED BY <1>4, <1>5

(* onRowsRemoved                                                           *)
LEMMA RowsRemovedKeeps ==
  ASSUME RepeaterInv, NEW first \in DOMAIN repRows, NEW last \in DOMAIN repRows,
         Repeater!RowsRemoved(first, last)
  PROVE  RepeaterInv'
<1> DEFINE now == SubSeq(repRows, 1, first - 1) \o SubSeq(repRows, last + 1, Len(repRows))
<1>1. /\ repRows' = now /\ repMode' = "model" /\ repComplete' = repComplete /\ first <= last
      /\ IF repComplete THEN Repeater!RemoveItems(first, last)
         ELSE UNCHANGED <<repItems, repStack, repFresh, repAdding, repFlush, repCreated, repLeaving>>
  BY DEF Repeater!RowsRemoved
<1>2. repRows \in Seq(RepeaterRow) /\ Len(repRows) \in Nat /\ DOMAIN repRows = 1 .. Len(repRows)
      /\ repComplete \in BOOLEAN
  BY DEF RepeaterInv
<1>3. now \in Seq(RepeaterRow)
  <2>1. first \in 1 .. Len(repRows) + 1 /\ last \in (first - 1) .. Len(repRows)
    BY <1>1, <1>2
  <2>2. SubSeq(repRows, 1, first - 1) \in Seq(RepeaterRow) /\ SubSeq(repRows, last + 1, Len(repRows)) \in Seq(RepeaterRow)
    BY ONLY <1>2, <2>1, CutsTogether
  <2> QED BY ONLY <2>2, ConcatProperties
<1> HIDE DEF now
<1>4. CASE repComplete
  <2>1. /\ Len(repItems) = Len(repRows)
    BY <1>4, ItemsAreOfRows
  <2>2. first \in 1 .. Len(repItems) + 1 /\ last \in (first - 1) .. Len(repItems)
    BY <1>1, <1>2, <2>1
  <2>3. Keeps(now)
    BY <1>1, <1>4, <2>2, RemovedIs DEF now
  <2> QED BY <1>1, <1>2, <1>3, <1>4, <2>3, KeptIs
<1>5. CASE ~repComplete
  BY <1>1, <1>3, <1>5, QuietIs
<1> QED BY <1>4, <1>5

(* onRowsMoved, of rows to a place behind them, or in front of them.       *)
LEMMA SwappedRows ==
  ASSUME NEW S, NEW s, NEW i, NEW j, NEW k, Cuts(S, s, i, j, k)
  PROVE  Swapped(s, i, j, k) \in Seq(S)
<1> DEFINE a == SubSeq(s, 1, i - 1)
           p == SubSeq(s, i, j - 1)
           q == SubSeq(s, j, k - 1)
           b == SubSeq(s, k, Len(s))
<1>1. Parted(S, s, i, j, k)
  BY ONLY Cuts(S, s, i, j, k), CutThrice
<1>2. a \in Seq(S) /\ p \in Seq(S) /\ q \in Seq(S) /\ b \in Seq(S)
  BY <1>1 DEF Parted
<1>3. Swapped(s, i, j, k) = ((a \o q) \o p) \o b
  BY DEF Swapped
<1> HIDE DEF a, p, q, b
<1>4. a \o q \in Seq(S)
  BY <1>2
<1>5. (a \o q) \o p \in Seq(S)
  BY <1>2, <1>4
<1> QED BY <1>2, <1>3, <1>5

(* Rows that change places take their items with them.                     *)
LEMMA SwapIs ==
  ASSUME RepeaterInv, NEW i, NEW j, NEW k, NEW from, NEW all, Cuts(RepeaterRow, repRows, i, j, k),
         repRows' = Swapped(repRows, i, j, k), repMode' = "model", repComplete' = repComplete,
         repLeaving' = repLeaving, repFresh' = repFresh, repAdding' = repAdding, repFlush' = repFlush,
         repCreated' = repCreated, repComplete, from \in Int, from <= i, all = Swapped(repItems, i, j, k),
         repItems' = Repeater!Reindexed(all, from), repStack' = Repeater!Restacked(repStack, all)
  PROVE  RepeaterInv'
<1>1. Len(repItems) = Len(repRows) /\ repComplete \in BOOLEAN /\ repCreated \in Nat
  BY ItemsAreOfRows DEF RepeaterInv
<1>2. /\ i \in 1 .. Len(repItems) + 1 /\ j \in i .. Len(repItems) + 1 /\ k \in j .. Len(repItems) + 1
  BY <1>1 DEF Cuts
<1>3. /\ Apart(repItems', repLeaving', repCreated') /\ Stacked(repStack', repItems', repLeaving')
      /\ RowsOf(repItems') = Swapped(repRows, i, j, k) /\ Indexed(repItems')
      /\ InLine(IdsOf(repItems')) = InLine(IdsOf(repItems))
  BY <1>2, SwapKeeps
<1>4. Queued'
  BY <1>3 DEF RepeaterInv, Queued
<1>5. Swapped(repRows, i, j, k) \in Seq(RepeaterRow)
  BY SwappedRows
<1>6. Keeps(Swapped(repRows, i, j, k))
  BY <1>1, <1>3, <1>4 DEF Keeps
<1> QED BY <1>1, <1>5, <1>6, KeptIs

(* onRowsMoved                                                             *)
LEMMA RowsMovedKeeps ==
  ASSUME RepeaterInv, NEW start \in DOMAIN repRows, NEW end \in DOMAIN repRows,
         NEW row \in 1 .. Len(repRows) + 1, Repeater!RowsMoved(start, end, row)
  PROVE  RepeaterInv'
<1> DEFINE moved == Repeater!Moved(repItems, start, end, row)
           all == moved.all
           from == moved.from
<1>1. /\ repRows' = IF row > end
                    THEN SubSeq(repRows, 1, start - 1) \o SubSeq(repRows, end + 1, row - 1)
                         \o SubSeq(repRows, start, end) \o SubSeq(repRows, row, Len(repRows))
                    ELSE SubSeq(repRows, 1, row - 1) \o SubSeq(repRows, start, end)
                         \o SubSeq(repRows, row, start - 1) \o SubSeq(repRows, end + 1, Len(repRows))
      /\ repMode' = "model" /\ repComplete' = repComplete /\ repLeaving' = repLeaving /\ repFresh' = repFresh
      /\ repAdding' = repAdding /\ repFlush' = repFlush /\ repCreated' = repCreated
      /\ start <= end /\ row \notin start .. end + 1
      /\ IF repComplete THEN /\ repItems' = Repeater!Reindexed(all, from)
                             /\ repStack' = Repeater!Restacked(repStack, all)
         ELSE UNCHANGED <<repItems, repStack>>
  BY Zenon DEF Repeater!RowsMoved
<1>2. repRows \in Seq(RepeaterRow) /\ Len(repRows) \in Nat /\ DOMAIN repRows = 1 .. Len(repRows)
      /\ repComplete \in BOOLEAN
  BY DEF RepeaterInv
<1>3. start \in 1 .. Len(repRows) /\ end \in start .. Len(repRows) /\ (end + 1) - 1 = end
  BY <1>1, <1>2
<1> HIDE DEF all, from
<1>4. repComplete => /\ from \in Int
                     /\ row > end => all = Swapped(repItems, start, end + 1, row) /\ from <= start
                     /\ ~(row > end) => all = Swapped(repItems, row, start, end + 1) /\ from <= row
  <2> SUFFICES ASSUME repComplete
               PROVE  /\ from \in Int
                      /\ row > end => all = Swapped(repItems, start, end + 1, row) /\ from <= start
                      /\ ~(row > end) => all = Swapped(repItems, row, start, end + 1) /\ from <= row
    OBVIOUS
  <2>1. Len(repItems) = Len(repRows) /\ repItems \in Seq(RepeaterItem)
    BY ItemsAreOfRows DEF RepeaterInv, Apart, ItemList
  <2>2. /\ start \in 1 .. Len(repItems) /\ end \in start .. Len(repItems) /\ row \in 1 .. Len(repItems) + 1
        /\ row \notin start .. end + 1
    BY <1>1, <1>3, <2>1
  <2> HIDE DEF RepeaterItem
  <2> QED BY ONLY <2>1, <2>2, MovedIs DEF all, from
<1>5. CASE row > end
  <2> DEFINE j == end + 1
  <2>1. repRows' = Swapped(repRows, start, j, row)
    BY <1>1, <1>3, <1>5 DEF Swapped
  <2>2. Cuts(RepeaterRow, repRows, start, j, row)
    BY <1>1, <1>2, <1>3, <1>5 DEF Cuts
  <2>3. repComplete => from \in Int /\ all = Swapped(repItems, start, j, row) /\ from <= start
    BY <1>4, <1>5
  <2> HIDE DEF j
  <2>4. CASE repComplete
    BY ONLY RepeaterInv, <1>1, <2>1, <2>2, <2>3, <2>4, SwapIs
  <2>5. CASE ~repComplete
    <3>1. repRows' \in Seq(RepeaterRow)
      BY ONLY <2>1, <2>2, SwappedRows
    <3> QED BY <1>1, <2>5, <3>1, QuietIs
  <2> QED BY <2>4, <2>5
<1>6. CASE ~(row > end)
  <2> DEFINE k == end + 1
  <2>1. repRows' = Swapped(repRows, row, start, k)
    BY <1>1, <1>3, <1>6 DEF Swapped
  <2>2. Cuts(RepeaterRow, repRows, row, start, k)
    BY <1>1, <1>2, <1>3, <1>6, SMTT(30) DEF Cuts
  <2>3. repComplete => from \in Int /\ all = Swapped(repItems, row, start, k) /\ from <= row
    BY <1>4, <1>6
  <2> HIDE DEF k
  <2>4. CASE repComplete
    BY ONLY RepeaterInv, <1>1, <2>1, <2>2, <2>3, <2>4, SwapIs
  <2>5. CASE ~repComplete
    <3>1. repRows' \in Seq(RepeaterRow)
      BY ONLY <2>1, <2>2, SwappedRows
    <3> QED BY <1>1, <2>5, <3>1, QuietIs
  <2> QED BY <2>4, <2>5
<1> QED BY <1>5, <1>6

(* dataChanged and layoutChanged: other rows in the same places.           *)
LEMMA RowsChangedKeeps ==
  ASSUME RepeaterInv, NEW now \in Seq(RepeaterRow), Repeater!RowsChanged(now)
  PROVE  RepeaterInv'
<1> DEFINE changed == [i \in DOMAIN repItems |-> [repItems[i] EXCEPT !.row = now[i], !.index = i - 1]]
<1>1. /\ repMode' = "model" /\ repRows' = now /\ Len(now) = Len(repRows) /\ repItems' = changed
      /\ UNCHANGED <<repComplete, repLeaving, repFresh, repAdding, repFlush, repStack, repCreated>>
  BY Zenon DEF Repeater!RowsChanged
<1>2. /\ repItems \in ItemList /\ Len(repItems) \in Nat /\ DOMAIN repItems = 1 .. Len(repItems)
      /\ IdsOf(repItems) = [i \in 1 .. Len(repItems) |-> repItems[i].id]
      /\ repItems \in Seq(RepeaterItem)
      /\ Len(now) \in Nat /\ repComplete \in BOOLEAN /\ (~repComplete => repItems = <<>>)
      /\ Apart(repItems, repLeaving, repCreated) /\ Stacked(repStack, repItems, repLeaving) /\ Queued
      /\ repCreated \in Nat
  BY IdsAndRows DEF RepeaterInv, Apart, ItemList
<1>3. Len(repItems) <= Len(now)
  <2>1. CASE repComplete
    <3>1. Len(repItems) = Len(repRows)
      BY <2>1, ItemsAreOfRows
    <3>2. Len(now) = Len(repRows) /\ Len(repItems) \in Nat
      BY <1>1, <1>2, Zenon
    <3> QED BY ONLY <3>1, <3>2
  <2>2. CASE ~repComplete
    <3>1. Len(repItems) = 0
      BY <1>2, <2>2
    <3> QED BY <1>2, <3>1
  <2> QED BY <2>1, <2>2
<1>4. changed = [i \in 1 .. Len(repItems) |-> [repItems[i] EXCEPT !.row = now[i], !.index = i - 1]]
  BY <1>2
<1> HIDE DEF changed
<1>5. ASSUME NEW i \in 1 .. Len(repItems)
      PROVE  /\ changed[i] \in RepeaterItem /\ changed[i].id = repItems[i].id /\ changed[i].row = now[i]
             /\ changed[i].index = i - 1
  <2>1. repItems[i] \in RepeaterItem
    BY <1>2
  <2>2. now[i] \in RepeaterRow
    <3>1. i \in 1 .. Len(now)
      BY <1>2, <1>3
    <3> QED BY <3>1
  <2>3. i - 1 \in Int
    OBVIOUS
  <2>4. changed[i] = [repItems[i] EXCEPT !.row = now[i], !.index = i - 1]
    BY <1>4, Zenon
  <2> HIDE DEF RepeaterRow
  <2> QED BY <2>1, <2>2, <2>3, <2>4 DEF RepeaterItem
<1>6. DOMAIN changed = 1 .. Len(repItems) /\ changed = [i \in 1 .. Len(repItems) |-> changed[i]]
  BY <1>4, Zenon
<1>7. changed \in [1 .. Len(repItems) -> RepeaterItem]
  BY <1>5, <1>6
<1>8. changed \in ItemList /\ Len(changed) = Len(repItems)
  <2>1. changed \in Seq(RepeaterItem)
    BY ONLY <1>2, <1>7, IsASeq
  <2> QED BY <1>2, <1>6, <2>1, LenProperties DEF ItemList
<1>9. /\ IdsOf(changed) = [i \in 1 .. Len(changed) |-> changed[i].id]
      /\ RowsOf(changed) \in Seq(RepeaterRow) /\ Len(RowsOf(changed)) = Len(changed)
      /\ \A i \in 1 .. Len(changed) : RowsOf(changed)[i] = changed[i].row
  BY <1>8, IdsAndRows
<1>10. IdsOf(changed) = IdsOf(repItems)
  BY <1>2, <1>5, <1>8, <1>9
<1>11. repComplete => RowsOf(changed) = now /\ Indexed(changed)
  <2> SUFFICES ASSUME repComplete PROVE RowsOf(changed) = now /\ Indexed(changed)
    OBVIOUS
  <2>1. Len(changed) = Len(now)
    BY <1>1, <1>8, ItemsAreOfRows
  <2>2. \A i \in 1 .. Len(changed) : RowsOf(changed)[i] = now[i]
    BY <1>5, <1>8, <1>9
  <2>3. RowsOf(changed) = now
    <3> DEFINE r == RowsOf(changed)
    <3>1. /\ r \in Seq(RepeaterRow) /\ now \in Seq(RepeaterRow) /\ Len(r) = Len(now)
          /\ \A i \in 1 .. Len(r) : r[i] = now[i]
      BY <1>9, <2>1, <2>2
    <3> HIDE DEF r, RepeaterRow
    <3> QED BY <3>1, SeqEqual DEF r
  <2> QED BY <1>5, <1>8, <2>3 DEF Indexed
<1>12. ~repComplete => changed = <<>>
  <2> SUFFICES ASSUME ~repComplete PROVE changed = <<>>
    OBVIOUS
  <2>1. Len(changed) = 0 /\ changed \in Seq(RepeaterItem)
    BY <1>2, <1>8 DEF ItemList
  <2> QED BY <2>1, EmptySeq
<1>13. Apart(repItems', repLeaving', repCreated') /\ Stacked(repStack', repItems', repLeaving')
  BY <1>1, <1>2, <1>8, <1>10 DEF Apart, Stacked
<1>14. Queued'
  BY <1>1, <1>2, <1>10 DEF Queued
<1> QED BY <1>1, <1>2, <1>11, <1>12, <1>13, <1>14 DEF RepeaterInv

(* The new parent gets the repeater, the items and those that leave.       *)
LEMMA SetInLine ==
  ASSUME NEW n \in Nat, NEW L \in SUBSET (1 .. n)
  PROVE  /\ Repeater!SetToSeq(L) \in Line /\ Once(Repeater!SetToSeq(L))
         /\ InLine(Repeater!SetToSeq(L)) = L
<1> DEFINE c == Cardinality(L)
           s == Repeater!SetToSeq(L)
<1>1. IsFiniteSet(L)
  <2>1. IsFiniteSet(1 .. n)
    BY FS_Interval
  <2> QED BY <2>1, FS_Subset
<1>2. c \in Nat /\ ExistsBijection(1 .. c, L)
  BY <1>1, FS_CardinalityType
<1>3. PICK b \in Bijection(1 .. c, L) : TRUE
  BY <1>2 DEF ExistsBijection
<1>4. b \in [1 .. c -> L] /\ Repeater!IsInjective(b)
  BY <1>3 DEF Bijection, Injection, IsInjective, Repeater!IsInjective
<1>5. s = CHOOSE f \in [1 .. c -> L] : Repeater!IsInjective(f)
  <2>1. Repeater!Cardinality(L) = c
    BY Zenon DEF Repeater!Cardinality, Cardinality
  <2> QED BY <2>1 DEF Repeater!SetToSeq
<1> HIDE DEF s, c
<1>6. s \in [1 .. c -> L] /\ Repeater!IsInjective(s)
  BY <1>4, <1>5
<1>7. s \in Injection(1 .. c, L)
  BY <1>6 DEF Injection, IsInjective, Repeater!IsInjective
<1>8. Cardinality(1 .. c) = c
  BY <1>2, FS_Interval
<1>9. s \in Surjection(1 .. c, L)
  BY <1>1, <1>7, <1>8, FS_Injection DEF c
<1>10. s \in Line /\ Len(s) = c
  <2>1. s \in [1 .. c -> Nat] /\ DOMAIN s = 1 .. c
    <3>1. L \subseteq Nat
      OBVIOUS
    <3> QED BY ONLY <1>6, <3>1
  <2>2. s \in Seq(Nat)
    BY ONLY <1>2, <2>1, IsASeq
  <2> QED BY <1>2, <2>1, <2>2, LenProperties DEF Line
<1>11. Once(s)
  BY <1>6, <1>10 DEF Once, Repeater!IsInjective
<1>12. InLine(s) = L
  BY <1>6, <1>9, <1>10 DEF InLine, Surjection
<1> QED BY <1>10, <1>11, <1>12 DEF s

(* There the items are restacked behind the repeater they follow.          *)
LEMMA ReparentKeeps == RepeaterInv /\ Repeater!Reparent => RepeaterInv'
<1> SUFFICES ASSUME RepeaterInv, Repeater!Reparent PROVE RepeaterInv'
  OBVIOUS
<1> DEFINE left == Repeater!SetToSeq(repLeaving)
           ids == IdsOf(repItems)
           front == <<0>> \o ids
           children == front \o left
<1>1. /\ repStack' = Repeater!Restacked(children, repItems)
      /\ UNCHANGED <<repMode, repRows, repComplete, repItems, repLeaving, repFresh, repAdding, repFlush, repCreated>>
  BY DEF Repeater!Reparent, Repeater!Self, IdsOf
<1>2. /\ repCreated \in Nat /\ repItems \in ItemList /\ ids \in Line /\ Once(ids)
      /\ InLine(ids) \subseteq 1 .. repCreated /\ repLeaving \subseteq 1 .. repCreated
      /\ repLeaving \cap InLine(ids) = {} /\ Apart(repItems, repLeaving, repCreated)
  BY IdsAndRows DEF RepeaterInv, Apart
<1>3. left \in Line /\ Once(left) /\ InLine(left) = repLeaving
  BY <1>2, SetInLine
<1> HIDE DEF left, ids
<1>4. front \in Line /\ Once(front) /\ InLine(front) = {0} \cup InLine(ids)
  <2>1. InLine(<<0>>) \cap InLine(ids) = {}
    BY <1>2, JustTheRepeater
  <2> DEFINE me == <<0>>
  <2>2. me \in Line /\ InLine(me) = {0} /\ Once(me) /\ InLine(me) \cap InLine(ids) = {}
    BY <2>1, JustTheRepeater
  <2> HIDE DEF me
  <2>3. me \o ids \in Line /\ InLine(me \o ids) = InLine(me) \cup InLine(ids)
    BY <1>2, <2>2, Joined
  <2>4. Once(me \o ids)
    BY <1>2, <2>2, OnceJoined
  <2> QED BY <2>2, <2>3, <2>4 DEF me
<1> HIDE DEF front
<1>5. children \in Line /\ Once(children) /\ InLine(children) = repLeaving \cup InLine(ids) \cup {0}
  <2>1. InLine(front) \cap InLine(left) = {}
    BY <1>2, <1>3, <1>4
  <2>2. children \in Line /\ Once(children) /\ InLine(children) = InLine(front) \cup InLine(left)
    BY <1>3, <1>4, <2>1, Joined, OnceJoined
  <2> QED BY <1>3, <1>4, <2>2
<1> HIDE DEF children
<1>6. Stacked(Repeater!Restacked(children, repItems), repItems, repLeaving)
  <2>1. InLine(children) = repLeaving \cup InLine(IdsOf(repItems)) \cup {0}
    BY <1>5 DEF ids
  <2> QED BY ONLY <1>2, <1>5, <2>1, Restacks
<1> QED BY <1>1, <1>6 DEF RepeaterInv, Apart, Stacked, Queued

(* The queue of the new items and the timers of the old ones.              *)
LEMMA FlushKeeps == RepeaterInv /\ Repeater!FlushAdds => RepeaterInv'
BY DEF RepeaterInv, Repeater!FlushAdds, Apart, Stacked, Queued, Indexed

(* The timer destroys an item that left, and no other.                     *)
LEMMA DestroyKeeps ==
  ASSUME RepeaterInv, NEW id \in repLeaving, Repeater!Destroy(id)
  PROVE  RepeaterInv'
<1>1. /\ repLeaving' = repLeaving \ {id} /\ repStack' = Repeater!Without(repStack, {id})
      /\ UNCHANGED <<repMode, repRows, repComplete, repItems, repFresh, repAdding, repFlush, repCreated>>
  BY DEF Repeater!Destroy
<1>2. /\ repCreated \in Nat /\ Apart(repItems, repLeaving, repCreated) /\ Stacked(repStack, repItems, repLeaving)
  BY DEF RepeaterInv
<1>3. /\ Apart(repItems, repLeaving \ {id}, repCreated)
      /\ Stacked(Repeater!Without(repStack, {id}), repItems, repLeaving \ {id})
  BY ONLY <1>2, id \in repLeaving, DestroyedLeaves
<1>4. Apart(repItems', repLeaving', repCreated') /\ Stacked(repStack', repItems', repLeaving')
  BY <1>1, <1>3 DEF Apart, Stacked
<1> QED BY <1>1, <1>4 DEF RepeaterInv, Queued, Indexed

(* There are no items before the component is complete.                    *)
LEMMA RepeaterInit == Repeater!Init => RepeaterInv
<1> SUFFICES ASSUME Repeater!Init PROVE RepeaterInv
  OBVIOUS
<1> DEFINE none == <<>>
           just == <<0>>
<1>1. /\ repMode = "none" /\ repRows = none /\ repComplete = FALSE /\ repItems = none /\ repLeaving = {}
      /\ repFresh = {} /\ repAdding = {} /\ repFlush = FALSE /\ repStack = just /\ repCreated = 0
  BY DEF Repeater!Init, Repeater!Self
<1>2. none \in Seq(RepeaterRow) /\ none \in Seq(RepeaterItem) /\ none \in ItemList /\ Len(none) = 0
  BY EmptySeq DEF ItemList
<1> HIDE DEF none
<1>3. IdsOf(none) \in Line /\ Len(IdsOf(none)) = 0
  BY <1>2, IdsAndRows
<1>4. Once(IdsOf(none)) /\ InLine(IdsOf(none)) = {}
  BY <1>3 DEF Once, InLine
<1>5. Apart(none, {}, 0)
  BY <1>2, <1>4 DEF Apart
<1>6. Stacked(just, none, {})
  <2>1. just \in Line /\ Once(just)
    BY JustTheRepeater
  <2>2. IdsOf(none) = <<>>
    BY <1>3, EmptySeq DEF Line
  <2>3. Repeater!Without(just, {}) = just
    BY <2>1, InLine(just) \cap {} = {}, WithoutLeaves
  <2>4. <<>> \o just = just
    BY <2>1, ConcatEmptySeq DEF Line
  <2> QED BY <2>1, <2>2, <2>3, <2>4 DEF Stacked
<1> QED BY <1>1, <1>2, <1>5, <1>6 DEF RepeaterInv, Queued, none

(* Each action keeps the invariant.                                        *)
LEMMA RepeaterStep == RepeaterInv /\ [Repeater!Next]_Repeater!vars => RepeaterInv'
<1> SUFFICES ASSUME RepeaterInv, [Repeater!Next]_Repeater!vars PROVE RepeaterInv'
  OBVIOUS
<1>1. CASE \/ Repeater!SetModel("none", <<>>)
           \/ \E now \in Repeater!Models : Repeater!SetModel("list", now) \/ Repeater!SetModel("model", now)
           \/ \E n \in 0 .. MaxRepeaterRows : Repeater!SetModel("count", Repeater!Counted(n))
  BY <1>1, SetSomeModelKeeps
<1>2. CASE Repeater!ComponentComplete
  BY <1>2, CompleteKeeps
<1>3. CASE Repeater!ModelChanges
  <2>1. ASSUME NEW first \in 1 .. Len(repRows) + 1, NEW r \in RepeaterRows, Repeater!RowsInserted(first, <<r>>)
        PROVE  RepeaterInv'
    BY <2>1, RowsInsertedKeeps
  <2>2. ASSUME NEW first \in DOMAIN repRows, NEW last \in DOMAIN repRows, Repeater!RowsRemoved(first, last)
        PROVE  RepeaterInv'
    BY <2>2, RowsRemovedKeeps
  <2>3. ASSUME NEW start \in DOMAIN repRows, NEW end \in DOMAIN repRows, NEW row \in 1 .. Len(repRows) + 1,
               Repeater!RowsMoved(start, end, row)
        PROVE  RepeaterInv'
    BY <2>3, RowsMovedKeeps
  <2>4. ASSUME NEW now \in Repeater!Models, Repeater!RowsChanged(now) \/ Repeater!ModelReset(now)
        PROVE  RepeaterInv'
    <3>1. now \in Seq(RepeaterRow)
      BY ModelsAreRows
    <3> QED BY <2>4, <3>1, RowsChangedKeeps, ResetModelKeeps
  <2>5. CASE Repeater!ModelDestroyed
    BY <2>5, DestroyModelKeeps
  <2> QED BY <1>3, <2>1, <2>2, <2>3, <2>4, <2>5 DEF Repeater!ModelChanges
<1>4. CASE Repeater!Reparent
  BY <1>4, ReparentKeeps
<1>5. CASE Repeater!FlushAdds
  BY <1>5, FlushKeeps
<1>6. ASSUME NEW id \in repLeaving, Repeater!Destroy(id) PROVE RepeaterInv'
  BY <1>6, DestroyKeeps
<1>7. CASE UNCHANGED Repeater!vars
  BY <1>7 DEF Repeater!vars, RepeaterInv, Apart, Stacked, Queued, Indexed
<1> QED BY <1>1, <1>2, <1>3, <1>4, <1>5, <1>6, <1>7 DEF Repeater!Next

(* The invariant is what the run checks, and more.                         *)
LEMMA RepeaterIsRight == RepeaterInv => Repeater!ItemsMirrorModel /\ Repeater!StackMirrorsItems
<1> SUFFICES ASSUME RepeaterInv PROVE Repeater!ItemsMirrorModel /\ Repeater!StackMirrorsItems
  OBVIOUS
<1>1. /\ repItems \in ItemList /\ DOMAIN repItems = 1 .. Len(repItems)
      /\ repStack \in Line /\ DOMAIN repStack = 1 .. Len(repStack) /\ Once(repStack)
      /\ repLeaving \subseteq InLine(repStack)
      /\ Repeater!Without(repStack, repLeaving) = IdsOf(repItems) \o <<0>> /\ Queued
      /\ IdsOf(repItems) \in Line
  BY IdsAndRows DEF RepeaterInv, Apart, Stacked, ItemList, Line
<1>2. Repeater!ItemsMirrorModel
  <2> SUFFICES ASSUME repComplete
               PROVE  /\ Len(repItems) = Len(repRows)
                      /\ \A i \in DOMAIN repItems : repItems[i].index = i - 1 /\ repItems[i].row = repRows[i]
    BY DEF Repeater!ItemsMirrorModel
  <2>1. RowsOf(repItems) = repRows /\ Indexed(repItems)
    BY DEF RepeaterInv
  <2>2. /\ Len(RowsOf(repItems)) = Len(repItems)
        /\ \A i \in 1 .. Len(repItems) : RowsOf(repItems)[i] = repItems[i].row
    BY <1>1, IdsAndRows
  <2> QED BY <1>1, <2>1, <2>2 DEF Indexed
<1>3. /\ Repeater!ToSet(repStack) = InLine(repStack)
      /\ Repeater!ToSet(Repeater!Ids(repItems)) = InLine(IdsOf(repItems))
  BY <1>1, TheSetIs DEF IdsOf
<1>4. Repeater!IsInjective(repStack)
  BY <1>1 DEF Once, Repeater!IsInjective
<1>5. Repeater!Without(repStack, repLeaving) = Repeater!Ids(repItems) \o <<Repeater!Self>>
  BY <1>1 DEF IdsOf, Repeater!Self
<1>6. Repeater!StackMirrorsItems
  BY <1>1, <1>3, <1>4, <1>5 DEF Repeater!StackMirrorsItems, Queued
<1> QED BY <1>2, <1>6

(* AnimatedRepeater: the items and the children of the parent are those of *)
(* the model, in its order, whatever changes, and no timer and no queue    *)
(* holds an item that was destroyed.                                       *)
THEOREM RepeaterFollowsItsModel == DataSpec => []RepeaterMirrorsModel
<1>1. RepeaterInv => RepeaterMirrorsModel
  BY RepeaterIsRight DEF RepeaterMirrorsModel
<1> QED BY <1>1, RepeaterKeepsItsSpec, RepeaterInit, RepeaterStep, PTL DEF Repeater!Spec
=============================================================================
