------------------------------ MODULE DataProofs ------------------------------
(***************************************************************************)
(* Proofs about the image cache, the toasts, the colours, the launcher,    *)
(* the codecs, the attached objects, the ring buffer and the bars of       *)
(* MCData, for every value of the constants that keeps its assumptions.    *)
(* Each component is one of the parts of MCData, one of which runs: what   *)
(* is shown of its own specification holds of DataSpec.                    *)
(***************************************************************************)
EXTENDS MCData, Integers, SequenceTheorems, FiniteSetTheorems, WellFoundedInduction, TLAPS

(* A run of DataSpec is, for each component, a run of the component.       *)
LEMMA EachKeepsItsSpec ==
  DataSpec => /\ Analyser!Spec /\ Toasts!Spec /\ Launcher!Spec
              /\ Coding!Spec /\ Attached!Spec /\ Buffer!Spec /\ Cava!Spec
<1>1. DataInit => /\ Analyser!Init /\ Toasts!Init /\ Launcher!Init
                /\ Coding!Init /\ Attached!Init /\ Buffer!Init /\ Cava!Init
  BY DEF DataInit
<1>2. [DataNext]_dataVars => /\ [Analyser!Next]_Analyser!vars
                             /\ [Toasts!Next]_Toasts!vars
                             /\ [Launcher!Next]_Launcher!vars
                             /\ [Coding!Next]_Coding!vars
                             /\ [Attached!Next]_Attached!vars
                             /\ [Buffer!Next]_Buffer!vars
                             /\ [Cava!Next]_Cava!vars
  <2>1. DataNext => /\ Analyser!Next \/ UNCHANGED colVars
                    /\ Toasts!Next \/ UNCHANGED toastVars
                    /\ Launcher!Next \/ UNCHANGED appVars
                    /\ Coding!Next \/ UNCHANGED codVars
                    /\ Attached!Next \/ UNCHANGED attVars
                    /\ Buffer!Next \/ UNCHANGED bufVars
                    /\ Cava!Next \/ UNCHANGED cavaVars
    BY DEF DataNext
  <2>2. UNCHANGED dataVars => UNCHANGED <<colVars, toastVars, appVars, codVars, attVars,
                                            bufVars, cavaVars>>
    BY DEF dataVars
  <2>3. UNCHANGED colVars => UNCHANGED Analyser!vars
    BY DEF colVars, Analyser!vars
  <2>4. UNCHANGED toastVars => UNCHANGED Toasts!vars
    BY DEF toastVars, Toasts!vars
  <2>5. UNCHANGED appVars => UNCHANGED Launcher!vars
    BY DEF appVars, Launcher!vars
  <2>6. UNCHANGED codVars => UNCHANGED Coding!vars
    BY DEF codVars, Coding!vars
  <2>7. UNCHANGED attVars => UNCHANGED Attached!vars
    BY DEF attVars, Attached!vars
  <2>8. UNCHANGED bufVars => UNCHANGED Buffer!vars
    BY DEF bufVars, Buffer!vars
  <2>9. UNCHANGED cavaVars => UNCHANGED Cava!vars
    BY DEF cavaVars, Cava!vars
  <2> QED BY <2>1, <2>2, <2>3, <2>4, <2>5, <2>6, <2>7, <2>8, <2>9
<1> QED BY <1>1, <1>2, PTL DEF DataSpec, Analyser!Spec, Toasts!Spec, Launcher!Spec,
                                Coding!Spec, Attached!Spec, Buffer!Spec, Cava!Spec

-----------------------------------------------------------------------------
(***************************************************************************)
(* The toasts.  The list holds no toast twice, so that closing one removes *)
(* it for good; what the property says of each toast is then inductive.    *)
(***************************************************************************)
ToastInv ==
  /\ toastToasts \in Seq(SomeToasts) /\ IsInjective(toastToasts)
  /\ toastClosed \in [SomeToasts -> BOOLEAN]
  /\ toastLocks \in [SomeToasts -> SUBSET Screens]
  /\ Toasts!ToastsAreAccounted

Listed == Toasts!ToSet(toastToasts)

(* Removing an element that occurs once leaves all the others, once.       *)
LEMMA RemoveOnce ==
  ASSUME NEW S, NEW s \in Seq(S), IsInjective(s), NEW e
  PROVE  /\ Toasts!RemoveFirst(s, e) \in Seq(S)
         /\ IsInjective(Toasts!RemoveFirst(s, e))
         /\ Toasts!ToSet(Toasts!RemoveFirst(s, e)) = Toasts!ToSet(s) \ {e}
<1> DEFINE r == Toasts!RemoveFirst(s, e)
<1>1. CASE ~ \E i \in 1 .. Len(s) : s[i] = e
  <2>1. r = s
    BY <1>1 DEF Toasts!RemoveFirst
  <2>2. e \notin Toasts!ToSet(s)
    BY <1>1 DEF Toasts!ToSet
  <2> QED BY <2>1, <2>2
<1>2. ASSUME NEW k \in 1 .. Len(s), s[k] = e
      PROVE  /\ r \in Seq(S) /\ IsInjective(r)
             /\ Toasts!ToSet(r) = Toasts!ToSet(s) \ {e}
  <2>1. {i \in 1 .. Len(s) : s[i] = e} = {k}
    BY <1>2 DEF IsInjective
  <2>2. Toasts!Min({k}) = k
    BY DEF Toasts!Min
  <2>3. r = SubSeq(s, 1, k - 1) \o SubSeq(s, k + 1, Len(s))
    BY <1>2, <2>1, <2>2 DEF Toasts!RemoveFirst, Toasts!RemoveAt, Toasts!SelectInSeq
  <2> HIDE DEF r
  <2>4. /\ r \in Seq(S) /\ Len(r) = Len(s) - 1
        /\ \A i \in 1 .. Len(r) : r[i] = IF i < k THEN s[i] ELSE s[i + 1]
    <3> DEFINE front == SubSeq(s, 1, k - 1)
               back  == SubSeq(s, k + 1, Len(s))
    <3>1. /\ front \in Seq(S) /\ Len(front) = k - 1
          /\ \A i \in 1 .. k - 1 : front[i] = s[i]
      BY <1>2, SubSeqProperties
    <3>2. /\ back \in Seq(S) /\ Len(back) = Len(s) - k
          /\ \A i \in 1 .. Len(s) - k : back[i] = s[k + i]
      BY <1>2, SubSeqProperties
    <3>3. r = front \o back
      BY <2>3
    <3> HIDE DEF front, back
    <3>4. /\ r \in Seq(S) /\ Len(r) = Len(front) + Len(back)
          /\ \A i \in 1 .. Len(front) + Len(back) :
                r[i] = IF i <= Len(front) THEN front[i] ELSE back[i - Len(front)]
      BY <3>1, <3>2, <3>3, ConcatProperties
    <3>5. Len(s) \in Nat /\ Len(r) = Len(s) - 1
      BY <1>2, <3>1, <3>2, <3>4
    <3>6. ASSUME NEW i \in 1 .. Len(r) PROVE r[i] = IF i < k THEN s[i] ELSE s[i + 1]
      <4>1. CASE i < k
        BY <1>2, <3>1, <3>2, <3>4, <3>5, <4>1
      <4>2. CASE ~(i < k)
        <5>1. r[i] = back[i - (k - 1)] /\ i - (k - 1) \in 1 .. Len(s) - k
          BY <1>2, <3>1, <3>2, <3>4, <3>5, <4>2
        <5>2. back[i - (k - 1)] = s[k + (i - (k - 1))]
          BY <3>2, <5>1
        <5>3. k + (i - (k - 1)) = i + 1
          BY <1>2
        <5> QED BY <4>2, <5>1, <5>2, <5>3
      <4> QED BY <4>1, <4>2
    <3> QED BY <3>4, <3>5, <3>6
  <2>5. \A i \in DOMAIN r : r[i] \in Toasts!ToSet(s) \ {e}
    BY <1>2, <2>4, SMTT(30) DEF IsInjective, Toasts!ToSet
  <2>6. \A i \in DOMAIN s : i # k => \E j \in DOMAIN r : r[j] = s[i]
    <3> SUFFICES ASSUME NEW i \in 1 .. Len(s), i # k PROVE \E j \in 1 .. Len(r) : r[j] = s[i]
      BY <2>4
    <3>1. CASE i < k
      BY <1>2, <2>4, <3>1
    <3>2. CASE i > k
      <4>1. i - 1 \in 1 .. Len(r) /\ r[i - 1] = s[i - 1 + 1]
        BY <1>2, <2>4, <3>2
      <4> QED BY <4>1
    <3> QED BY <3>1, <3>2
  <2>7. IsInjective(r)
    BY <1>2, <2>4 DEF IsInjective
  <2> QED BY <2>4, <2>5, <2>6, <2>7, <1>2, SMTT(30) DEF Toasts!ToSet
<1> QED BY <1>1, <1>2

(* Nothing is listed and nothing is locked when the shell starts.          *)
LEMMA ToastInit == Toasts!Init => ToastInv
BY EmptySeq DEF Toasts!Init, ToastInv, IsInjective, Toasts!ToSet, Toasts!ToastsAreAccounted

(* One toast is closed, the others stay as they are.                       *)
LEMMA CloseKeeps ==
  ASSUME ToastInv, NEW t \in SomeToasts, NEW held \in SUBSET Screens,
         Toasts!Close(t, held)
  PROVE  /\ toastToasts' \in Seq(SomeToasts) /\ IsInjective(toastToasts')
         /\ toastClosed' \in [SomeToasts -> BOOLEAN]
         /\ toastLocks' \in [SomeToasts -> SUBSET Screens]
         /\ Listed' = IF held = {} THEN Listed \ {t} ELSE Listed
         /\ \A u \in SomeToasts : /\ toastClosed'[u] = IF u = t THEN TRUE ELSE toastClosed[u]
                                  /\ toastLocks'[u] = IF u = t THEN held ELSE toastLocks[u]
<1>1. toastToasts' = IF held = {} THEN Toasts!RemoveFirst(toastToasts, t) ELSE toastToasts
  BY DEF Toasts!Close
<1>2. /\ toastToasts \in Seq(SomeToasts) /\ IsInjective(toastToasts)
      /\ toastClosed \in [SomeToasts -> BOOLEAN] /\ toastLocks \in [SomeToasts -> SUBSET Screens]
  BY DEF ToastInv
<1>3. /\ toastToasts' \in Seq(SomeToasts) /\ IsInjective(toastToasts')
      /\ Toasts!ToSet(toastToasts') = IF held = {} THEN Toasts!ToSet(toastToasts) \ {t}
                                     ELSE Toasts!ToSet(toastToasts)
  BY <1>1, <1>2, RemoveOnce
<1>4. /\ toastClosed' = [toastClosed EXCEPT ![t] = TRUE]
      /\ toastLocks' = [toastLocks EXCEPT ![t] = held]
  BY DEF Toasts!Close
<1>5. Listed' = Toasts!ToSet(toastToasts')
  BY DEF Listed, Toasts!ToSet
<1> QED BY <1>2, <1>3, <1>4, <1>5 DEF Listed

(* The last screen that lets go of a closed toast frees it.                *)
LEMMA UnlockKeeps ==
  ASSUME ToastInv, NEW t \in SomeToasts, NEW s \in Screens, Toasts!Unlock(t, s)
  PROVE  /\ toastToasts' \in Seq(SomeToasts) /\ IsInjective(toastToasts')
         /\ toastClosed' = toastClosed
         /\ toastLocks' \in [SomeToasts -> SUBSET Screens]
         /\ \A u \in SomeToasts : toastLocks'[u] = IF u = t THEN toastLocks[t] \ {s} ELSE toastLocks[u]
         /\ Listed' = IF s \in toastLocks[t] /\ toastClosed[t] /\ toastLocks[t] = {s}
                      THEN Listed \ {t} ELSE Listed
<1>1. /\ toastToasts \in Seq(SomeToasts) /\ IsInjective(toastToasts)
      /\ toastClosed \in [SomeToasts -> BOOLEAN] /\ toastLocks \in [SomeToasts -> SUBSET Screens]
  BY DEF ToastInv
<1>2. CASE s \in toastLocks[t] /\ toastClosed[t]
  <2>1. Toasts!Close(t, toastLocks[t] \ {s}) /\ toastLocks[t] \ {s} \in SUBSET Screens
    BY <1>1, <1>2 DEF Toasts!Unlock
  <2>2. toastClosed' = [toastClosed EXCEPT ![t] = TRUE]
    BY <2>1 DEF Toasts!Close
  <2>3. toastClosed' = toastClosed
    BY <1>1, <1>2, <2>2
  <2> DEFINE held == toastLocks[t] \ {s}
  <2>4. /\ toastToasts' \in Seq(SomeToasts) /\ IsInjective(toastToasts')
        /\ toastLocks' \in [SomeToasts -> SUBSET Screens]
        /\ Listed' = IF held = {} THEN Listed \ {t} ELSE Listed
        /\ \A u \in SomeToasts : toastLocks'[u] = IF u = t THEN held ELSE toastLocks[u]
    BY <2>1, CloseKeeps
  <2>5. held = {} <=> toastLocks[t] = {s}
    BY <1>2
  <2> QED BY <1>2, <2>3, <2>4, <2>5
<1>3. CASE ~(s \in toastLocks[t] /\ toastClosed[t])
  <2>1. /\ toastLocks' = [toastLocks EXCEPT ![t] = @ \ {s}]
        /\ UNCHANGED <<toastClosed, toastToasts>>
    BY <1>3 DEF Toasts!Unlock
  <2> QED BY <1>1, <1>3, <2>1 DEF Listed, Toasts!ToSet
<1> QED BY <1>2, <1>3

(* Every step of the toasts keeps the invariant.                           *)
LEMMA ToastStep == ToastInv /\ [Toasts!Next]_Toasts!vars => ToastInv'
<1> SUFFICES ASSUME ToastInv, [Toasts!Next]_Toasts!vars PROVE ToastInv'
  OBVIOUS
<1> DEFINE Accounted(u) ==
             /\ toastLocks[u] # {} => u \in Listed
             /\ \A s \in toastLocks[u] : <<s, u>> \in toastDelegates
             /\ u \in Listed => IF toastClosed[u] THEN toastLocks[u] # {} ELSE u \in toastPending
           Types == /\ toastToasts \in Seq(SomeToasts) /\ IsInjective(toastToasts)
                    /\ toastClosed \in [SomeToasts -> BOOLEAN]
                    /\ toastLocks \in [SomeToasts -> SUBSET Screens]
<1>1. Types /\ \A u \in SomeToasts : Accounted(u)
  BY DEF ToastInv, Toasts!ToastsAreAccounted, Listed
<1>2. Types' /\ (\A u \in SomeToasts : Accounted(u)') => ToastInv'
  BY DEF ToastInv, Toasts!ToastsAreAccounted, Listed
<1>3. Listed' = Toasts!ToSet(toastToasts')
  BY DEF Listed, Toasts!ToSet
<1>4. ASSUME NEW t \in SomeToasts, Toasts!Show(t) PROVE ToastInv'
  <2>1. /\ toastToasts' = <<t>> \o toastToasts /\ t \notin Listed /\ ~toastClosed[t]
        /\ toastPending' = toastPending \cup {t}
        /\ UNCHANGED <<toastClosed, toastLocks, toastDelegates>>
    BY <1>4 DEF Toasts!Show, Listed
  <2>2. /\ toastToasts' \in Seq(SomeToasts) /\ Len(toastToasts') = Len(toastToasts) + 1
        /\ toastToasts'[1] = t
        /\ \A i \in 2 .. Len(toastToasts') : toastToasts'[i] = toastToasts[i - 1]
    BY <1>1, <2>1
  <2>3. IsInjective(toastToasts')
    <3>1. \A i \in 1 .. Len(toastToasts) : toastToasts[i] # t
      BY <1>1, <2>1 DEF Listed, Toasts!ToSet
    <3> QED BY <1>1, <2>2, <3>1, SMTT(30) DEF IsInjective
  <2>4. Listed' = Listed \cup {t}
    <3>1. \A x \in Listed' : x \in Listed \cup {t}
      BY <1>1, <1>3, <2>2 DEF Listed, Toasts!ToSet
    <3>2. \A x \in Listed \cup {t} : \E i \in 1 .. Len(toastToasts') : toastToasts'[i] = x
      <4> SUFFICES ASSUME NEW i \in 1 .. Len(toastToasts)
                   PROVE  \E j \in 1 .. Len(toastToasts') : toastToasts'[j] = toastToasts[i]
        <5>1. 1 \in 1 .. Len(toastToasts') /\ toastToasts'[1] = t
          BY <1>1, <2>2
        <5>2. \A x \in Listed : \E i \in 1 .. Len(toastToasts) : toastToasts[i] = x
          BY <1>1 DEF Listed, Toasts!ToSet
        <5> QED BY <5>1, <5>2
      <4>1. i + 1 \in 2 .. Len(toastToasts') /\ toastToasts'[i + 1] = toastToasts[i + 1 - 1]
        BY <1>1, <2>2
      <4> QED BY <4>1
    <3> QED BY <1>1, <1>3, <2>2, <3>1, <3>2 DEF Toasts!ToSet
  <2> QED BY <1>1, <1>2, <2>1, <2>2, <2>3, <2>4
<1>5. ASSUME NEW t \in SomeToasts, Toasts!TimerFires(t) PROVE ToastInv'
  <2>1. /\ Toasts!Close(t, toastLocks[t]) /\ toastLocks[t] \in SUBSET Screens
        /\ toastPending' = toastPending \ {t} /\ toastDelegates' = toastDelegates
    BY <1>1, <1>5 DEF Toasts!TimerFires
  <2>2. Types' /\ \A u \in SomeToasts :
          /\ toastLocks'[u] = toastLocks[u]
          /\ toastClosed'[u] = IF u = t THEN TRUE ELSE toastClosed[u]
          /\ u \in Listed' <=> u \in Listed /\ (u = t => toastLocks[t] # {})
    <3> DEFINE held == toastLocks[t]
    <3>1. /\ toastToasts' \in Seq(SomeToasts) /\ IsInjective(toastToasts')
          /\ toastClosed' \in [SomeToasts -> BOOLEAN]
          /\ toastLocks' \in [SomeToasts -> SUBSET Screens]
          /\ Listed' = IF held = {} THEN Listed \ {t} ELSE Listed
          /\ \A u \in SomeToasts : /\ toastClosed'[u] = IF u = t THEN TRUE ELSE toastClosed[u]
                                   /\ toastLocks'[u] = IF u = t THEN held ELSE toastLocks[u]
      BY <2>1, CloseKeeps
    <3> QED BY <3>1
  <2>3. ASSUME NEW u \in SomeToasts PROVE Accounted(u)'
    BY <1>1, <2>1, <2>2
  <2> QED BY <1>2, <2>2, <2>3
<1>6. ASSUME NEW t \in SomeToasts, NEW s \in Screens, Toasts!MakeDelegate(t, s) PROVE ToastInv'
  <2>1. /\ t \in Listed /\ toastDelegates' = toastDelegates \cup {<<s, t>>}
        /\ toastLocks' = [toastLocks EXCEPT ![t] = @ \cup {s}]
        /\ UNCHANGED <<toastToasts, toastClosed, toastPending>>
    BY <1>6 DEF Toasts!MakeDelegate, Listed
  <2>2. Listed' = Listed
    BY <1>3, <2>1 DEF Listed
  <2> QED BY <1>1, <1>2, <2>1, <2>2
<1>7. ASSUME NEW t \in SomeToasts, NEW s \in Screens, Toasts!Click(t, s) PROVE ToastInv'
  <2>1. /\ Toasts!Close(t, toastLocks[t]) /\ toastLocks[t] \in SUBSET Screens
        /\ UNCHANGED <<toastPending, toastDelegates>>
    BY <1>1, <1>7 DEF Toasts!Click
  <2>2. Types' /\ \A u \in SomeToasts :
          /\ toastLocks'[u] = toastLocks[u]
          /\ toastClosed'[u] = IF u = t THEN TRUE ELSE toastClosed[u]
          /\ u \in Listed' <=> u \in Listed /\ (u = t => toastLocks[t] # {})
    <3> DEFINE held == toastLocks[t]
    <3>1. /\ toastToasts' \in Seq(SomeToasts) /\ IsInjective(toastToasts')
          /\ toastClosed' \in [SomeToasts -> BOOLEAN]
          /\ toastLocks' \in [SomeToasts -> SUBSET Screens]
          /\ Listed' = IF held = {} THEN Listed \ {t} ELSE Listed
          /\ \A u \in SomeToasts : /\ toastClosed'[u] = IF u = t THEN TRUE ELSE toastClosed[u]
                                   /\ toastLocks'[u] = IF u = t THEN held ELSE toastLocks[u]
      BY <2>1, CloseKeeps
    <3> QED BY <3>1
  <2>3. ASSUME NEW u \in SomeToasts PROVE Accounted(u)'
    BY <1>1, <2>1, <2>2
  <2> QED BY <1>2, <2>2, <2>3
<1>8. ASSUME NEW t \in SomeToasts, NEW s \in Screens, Toasts!Faded(t, s) PROVE ToastInv'
  <2>1. Toasts!Unlock(t, s) /\ UNCHANGED <<toastPending, toastDelegates>>
    BY <1>8 DEF Toasts!Faded
  <2>2. /\ toastToasts' \in Seq(SomeToasts) /\ IsInjective(toastToasts')
        /\ toastClosed' = toastClosed
        /\ toastLocks' \in [SomeToasts -> SUBSET Screens]
        /\ \A u \in SomeToasts : toastLocks'[u] = IF u = t THEN toastLocks[t] \ {s} ELSE toastLocks[u]
        /\ Listed' = IF s \in toastLocks[t] /\ toastClosed[t] /\ toastLocks[t] = {s}
                     THEN Listed \ {t} ELSE Listed
    BY <2>1, UnlockKeeps
  <2>3. ASSUME NEW u \in SomeToasts PROVE Accounted(u)'
    <3>1. CASE u = t
      BY <1>1, <2>1, <2>2, <3>1
    <3>2. CASE u # t
      BY <1>1, <2>1, <2>2, <3>2
    <3> QED BY <3>1, <3>2
  <2> QED BY <1>1, <1>2, <2>2, <2>3
<1>9. ASSUME NEW t \in SomeToasts, NEW s \in Screens, Toasts!DropDelegate(t, s) PROVE ToastInv'
  <2>1. /\ Toasts!Unlock(t, s) /\ toastPending' = toastPending
        /\ toastDelegates' = toastDelegates \ {<<s, t>>}
    BY <1>9 DEF Toasts!DropDelegate
  <2>2. /\ toastToasts' \in Seq(SomeToasts) /\ IsInjective(toastToasts')
        /\ toastClosed' = toastClosed
        /\ toastLocks' \in [SomeToasts -> SUBSET Screens]
        /\ \A u \in SomeToasts : toastLocks'[u] = IF u = t THEN toastLocks[t] \ {s} ELSE toastLocks[u]
        /\ Listed' = IF s \in toastLocks[t] /\ toastClosed[t] /\ toastLocks[t] = {s}
                     THEN Listed \ {t} ELSE Listed
    BY <2>1, UnlockKeeps
  <2>3. ASSUME NEW u \in SomeToasts PROVE Accounted(u)'
    <3>1. CASE u = t
      BY <1>1, <2>1, <2>2, <3>1
    <3>2. CASE u # t
      BY <1>1, <2>1, <2>2, <3>2
    <3> QED BY <3>1, <3>2
  <2> QED BY <1>1, <1>2, <2>2, <2>3
<1>10. CASE UNCHANGED Toasts!vars
  <2>1. UNCHANGED <<toastToasts, toastClosed, toastLocks, toastPending, toastDelegates>>
    BY <1>10 DEF Toasts!vars
  <2>2. Listed' = Listed
    BY <1>3, <2>1 DEF Listed
  <2> QED BY <1>1, <1>2, <2>1, <2>2
<1> QED BY <1>4, <1>5, <1>6, <1>7, <1>8, <1>9, <1>10 DEF Toasts!Next

(* Toaster: however toasts are shown, closed, locked and unlocked by       *)
(* the delegates of several screens, none is freed while one of them uses it, and *)
(* none is kept when all have let go of it.                                *)
THEOREM ToastsAreNeverLost == DataSpec => []ToastsAreAccounted
<1>1. ToastInv => ToastsAreAccounted
  BY DEF ToastInv, ToastsAreAccounted
<1> QED BY <1>1, EachKeepsItsSpec, ToastInit, ToastStep, PTL DEF Toasts!Spec

-----------------------------------------------------------------------------
(***************************************************************************)
(* The analyser.  A colour that is not there yet is on its way: its item   *)
(* is being grabbed, or the analysis that is watched is the one of what is *)
(* set, as far as it has come, and nobody cancelled it.                    *)
(***************************************************************************)
Target == Analyser!Target

(* How far the colour of what is set can have come.                        *)
OnItsWay ==
  \/ colItem \in colGrabs
  \/ /\ ~colFuture.cancelled
     /\ \/ colFuture.at = "queued" /\ colItem = None
        \/ /\ colFuture.at = "running" /\ colFuture.what = Target
           /\ colItem # None => colFuture.size = colSize
        \/ colFuture.at = "finished" /\ colFuture.what = Target /\ colFuture.size = colSize
  \/ colFuture.at = "none" /\ colResult = [what |-> Target, size |-> colSize]

\* Only a late grab, or an item that cannot be grabbed yet, may hold it up.
Expected == Target \notin Unreadable \cup {None} /\ ~colOvertaken /\ colItem \notin colArmed

(* An item and a source are never set at once, and what is expected comes. *)
ColourInv ==
  /\ Analyser!TypeOK
  /\ colItem = None \/ colSource = None
  /\ Expected => OnItsWay

\* The outcome of RequestUpdate that every caller relies on.
Asked ==
  /\ colArmed' \in SUBSET Items /\ colGrabs' \in SUBSET Items /\ colOvertaken' \in BOOLEAN
  /\ colFuture' \in [at : {"none", "queued", "running", "finished"},
                     what : Sources \cup Items \cup {None}, size : Sizes \cup {None},
                     cancelled : BOOLEAN]

(* Nothing is set, so nothing is expected.                                 *)
LEMMA ColourInit == Analyser!Init => ColourInv
<1> SUFFICES ASSUME Analyser!Init PROVE ColourInv
  OBVIOUS
<1>1. /\ colSource = None /\ colItem = None /\ colSize \in Sizes
      /\ colVisible \in SUBSET Items /\ colArmed = {} /\ colGrabs = {}
      /\ colFuture = Analyser!NoFuture /\ colResult = Analyser!NoResult
      /\ colOvertaken = FALSE
  BY DEF Analyser!Init
<1>2. Analyser!TypeOK
  BY <1>1 DEF Analyser!TypeOK, Analyser!NoFuture, Analyser!NoResult
<1>3. Target = None
  BY <1>1 DEF Target, Analyser!Target
<1> QED BY <1>1, <1>2, <1>3 DEF ColourInv, Expected

(* Whatever is asked for, what is set by then is on its way or waited for. *)
LEMMA RequestUpdateKeeps ==
  ASSUME Analyser!TypeOK,
         NEW s \in Sources \cup {None}, NEW i \in Items \cup {None}, s = None \/ i = None,
         NEW vis \in SUBSET Items, NEW waiting \in SUBSET Items,
         Analyser!RequestUpdate(s, i, vis, waiting)
  PROVE  /\ Asked
         /\ s # None => colFuture' = [Analyser!NoFuture EXCEPT !.at = "queued"]
         /\ i # None => i \in colGrabs' \/ i \in colArmed'
<1> USE ImagesAssumption DEF Analyser!TypeOK
<1>1. CASE /\ s = None /\ i = None
           /\ colArmed' = waiting
           /\ UNCHANGED <<colFuture, colGrabs, colOvertaken>>
  BY <1>1 DEF Asked
<1>2. CASE /\ s # None
           /\ colFuture' = [Analyser!NoFuture EXCEPT !.at = "queued"]
           /\ colArmed' = waiting /\ colOvertaken' = FALSE
           /\ UNCHANGED colGrabs
  BY <1>2 DEF Asked, Analyser!NoFuture
<1>3. CASE /\ i \in vis
           /\ colFuture' = [colFuture EXCEPT !.cancelled = colFuture.at \in {"queued", "running"} \/ @]
           /\ \/ colGrabs' = colGrabs \cup {i} /\ colArmed' = waiting
              \/ colGrabs' = colGrabs /\ colArmed' = waiting \cup {i}
           /\ UNCHANGED colOvertaken
  <2>1. (colFuture.at \in {"queued", "running"} \/ colFuture.cancelled) \in BOOLEAN
    OBVIOUS
  <2>2. colFuture' \in [at : {"none", "queued", "running", "finished"},
                        what : Sources \cup Items \cup {None}, size : Sizes \cup {None},
                        cancelled : BOOLEAN]
    BY <1>3, <2>1
  <2>3. i \in Items /\ i # None
    BY <1>3
  <2> QED BY <1>3, <2>2, <2>3 DEF Asked
<1>4. CASE /\ i # None /\ i \notin vis
           /\ colArmed' = waiting \cup {i}
           /\ UNCHANGED <<colFuture, colGrabs, colOvertaken>>
  BY <1>4 DEF Asked
<1> QED BY <1>1, <1>2, <1>3, <1>4 DEF Analyser!RequestUpdate

(* An update that was asked for keeps the invariant.                       *)
LEMMA UpdateKeeps ==
  ASSUME ColourInv,
         colSource' \in Sources \cup {None}, colItem' \in Items \cup {None},
         colItem' = None \/ colSource' = None,
         colSize' \in Sizes, colVisible' \in SUBSET Items, colResult' = colResult,
         NEW waiting \in SUBSET Items,
         Analyser!RequestUpdate(colSource', colItem', colVisible', waiting)
  PROVE  ColourInv'
<1>1. /\ Asked
      /\ colSource' # None => colFuture' = [Analyser!NoFuture EXCEPT !.at = "queued"]
      /\ colItem' # None => colItem' \in colGrabs' \/ colItem' \in colArmed'
  BY RequestUpdateKeeps DEF ColourInv
<1>2. Analyser!TypeOK'
  BY <1>1 DEF Asked, ColourInv, Analyser!TypeOK
<1>3. Expected' => OnItsWay'
  <2> SUFFICES ASSUME Expected' PROVE OnItsWay'
    OBVIOUS
  <2>1. CASE colItem' # None
    BY <1>1, <2>1 DEF Expected, OnItsWay
  <2>2. CASE colItem' = None
    <3>1. colSource' # None
      BY <2>2 DEF Expected, Target, Analyser!Target
    <3>2. colFuture'.at = "queued" /\ ~colFuture'.cancelled
      BY <1>1, <3>1 DEF Analyser!NoFuture
    <3> QED BY <2>2, <3>2 DEF OnItsWay
  <2> QED BY <2>1, <2>2
<1> QED BY <1>2, <1>3 DEF ColourInv

(* Every step of the analyser keeps the invariant.                         *)
LEMMA ColourStep == ColourInv /\ [Analyser!Next]_Analyser!vars => ColourInv'
<1> SUFFICES ASSUME ColourInv, [Analyser!Next]_Analyser!vars PROVE ColourInv'
  OBVIOUS
<1>t. Analyser!TypeOK /\ (colItem = None \/ colSource = None) /\ (Expected => OnItsWay)
  BY DEF ColourInv
<1>1. ASSUME NEW s \in Sources \cup {None}, Analyser!SetSource(s) PROVE ColourInv'
  <2>1. /\ colSource' = s /\ colItem' = None /\ colResult' = colResult
        /\ colSize' \in Sizes /\ colVisible' \in SUBSET Items /\ colArmed \in SUBSET Items
        /\ Analyser!RequestUpdate(colSource', colItem', colVisible', colArmed)
    BY <1>t, <1>1 DEF Analyser!SetSource, Analyser!TypeOK
  <2> QED BY <2>1, UpdateKeeps
<1>2. ASSUME NEW i \in Items \cup {None}, Analyser!SetSourceItem(i) PROVE ColourInv'
  <2>1. /\ colSource' = None /\ colItem' = i /\ colResult' = colResult
        /\ colSize' \in Sizes /\ colVisible' \in SUBSET Items /\ colArmed \in SUBSET Items
        /\ Analyser!RequestUpdate(colSource', colItem', colVisible', colArmed)
    BY <1>t, <1>2 DEF Analyser!SetSourceItem, Analyser!TypeOK
  <2> QED BY <2>1, UpdateKeeps
<1>3. ASSUME NEW n \in Sizes, Analyser!SetRescaleSize(n) PROVE ColourInv'
  <2>1. /\ colSource' = colSource /\ colItem' = colItem /\ colResult' = colResult
        /\ colSize' \in Sizes /\ colVisible' \in SUBSET Items /\ colArmed \in SUBSET Items
        /\ Analyser!RequestUpdate(colSource', colItem', colVisible', colArmed)
    BY <1>t, <1>3 DEF Analyser!SetRescaleSize, Analyser!TypeOK
  <2> QED BY <1>t, <2>1, UpdateKeeps DEF Analyser!TypeOK
<1>4. ASSUME NEW i \in Items, Analyser!ItemChanges(i) PROVE ColourInv'
  <2>1. /\ colVisible' \in SUBSET Items
        /\ UNCHANGED <<colSource, colItem, colSize, colResult>>
    BY <1>t, <1>4 DEF Analyser!ItemChanges, Analyser!TypeOK
  <2>2. CASE i \in colArmed
    <3>1. /\ Analyser!RequestUpdate(colSource', colItem', colVisible', colArmed \ {i})
          /\ colArmed \ {i} \in SUBSET Items
      BY <1>t, <1>4, <2>1, <2>2 DEF Analyser!ItemChanges, Analyser!TypeOK
    <3> QED BY <1>t, <2>1, <3>1, UpdateKeeps DEF Analyser!TypeOK
  <2>3. CASE i \notin colArmed
    <3>1. UNCHANGED <<colArmed, colFuture, colGrabs, colOvertaken>>
      BY <1>4, <2>3 DEF Analyser!ItemChanges
    <3>2. Target' = Target /\ Analyser!TypeOK'
      BY <1>t, <2>1, <3>1 DEF Target, Analyser!Target, Analyser!TypeOK
    <3> QED BY <1>t, <2>1, <3>1, <3>2 DEF ColourInv, Expected, OnItsWay
  <2> QED BY <2>2, <2>3
<1>5. ASSUME NEW i \in Items, Analyser!GrabReady(i) PROVE ColourInv'
  <2>1. /\ colGrabs' = colGrabs \ {i} /\ colOvertaken' = (i # colItem)
        /\ colFuture' = [at |-> "running", what |-> i, size |-> colSize, cancelled |-> FALSE]
        /\ UNCHANGED <<colSource, colItem, colSize, colVisible, colArmed, colResult>>
    BY <1>5 DEF Analyser!GrabReady
  <2>2. Analyser!TypeOK'
    BY <1>t, <2>1 DEF Analyser!TypeOK
  <2>3. Target' = Target /\ (i = colItem => Target = i)
    BY <2>1, ImagesAssumption DEF Target, Analyser!Target
  <2>4. Expected' => i = colItem
    BY <2>1 DEF Expected
  <2>5. i = colItem => OnItsWay'
    BY <2>1, <2>3 DEF OnItsWay
  <2> QED BY <1>t, <2>1, <2>2, <2>4, <2>5 DEF ColourInv
<1>6. CASE Analyser!LoadFile
  <2>1. /\ colFuture.at = "queued"
        /\ colFuture' = IF colFuture.cancelled THEN [colFuture EXCEPT !.at = "finished"]
                        ELSE [colFuture EXCEPT !.at = "running", !.what = colSource]
        /\ UNCHANGED <<colSource, colItem, colSize, colVisible, colArmed, colGrabs, colResult, colOvertaken>>
    BY <1>6 DEF Analyser!LoadFile
  <2>2. Analyser!TypeOK'
    BY <1>t, <2>1 DEF Analyser!TypeOK
  <2>3. Target' = Target /\ (colItem = None => Target = colSource)
    BY <2>1 DEF Target, Analyser!Target
  <2>4. Expected' = Expected
    BY <2>1, <2>3 DEF Expected
  <2>5. OnItsWay => OnItsWay'
    <3>1. ~colFuture.cancelled => colFuture'.at = "running" /\ colFuture'.what = colSource /\ ~colFuture'.cancelled
      BY <1>t, <2>1 DEF Analyser!TypeOK
    <3> QED BY <2>1, <2>3, <3>1 DEF OnItsWay
  <2> QED BY <1>t, <2>1, <2>2, <2>4, <2>5 DEF ColourInv
<1>7. CASE Analyser!Analyse
  <2> DEFINE read == [colFuture EXCEPT !.at = "finished",
                                       !.size = IF colFuture.what \in Items THEN @ ELSE colSize]
             nothing == [read EXCEPT !.what = None]
  <2>1. /\ colFuture.at = "running"
        /\ \/ colFuture.what \notin Unreadable \cup {None} /\ colFuture' = read
           \/ (colFuture.what \in Unreadable \cup {None} \/ colFuture.cancelled) /\ colFuture' = nothing
        /\ UNCHANGED <<colSource, colItem, colSize, colVisible, colArmed, colGrabs, colResult, colOvertaken>>
    BY <1>7 DEF Analyser!Analyse
  <2>2. Analyser!TypeOK'
    BY <1>t, <2>1 DEF Analyser!TypeOK
  <2>3. Target' = Target
    BY <2>1 DEF Target, Analyser!Target
  <2>4. Expected' = Expected
    BY <2>1, <2>3 DEF Expected
  <2>5. Expected /\ OnItsWay => OnItsWay'
    <3> SUFFICES ASSUME Expected, OnItsWay, colItem \notin colGrabs PROVE OnItsWay'
      BY <2>1 DEF OnItsWay
    <3>1. ~colFuture.cancelled /\ colFuture.what = Target /\ (colItem # None => colFuture.size = colSize)
      BY <2>1 DEF OnItsWay
    <3>2. colFuture' = read
      BY <2>1, <3>1 DEF Expected
    <3>3. colFuture'.at = "finished" /\ colFuture'.what = Target /\ ~colFuture'.cancelled
      BY <1>t, <3>1, <3>2 DEF Analyser!TypeOK
    <3>4. colFuture'.size = colSize
      <4>1. colFuture'.size = IF colFuture.what \in Items THEN colFuture.size ELSE colSize
        BY <1>t, <3>2 DEF Analyser!TypeOK
      <4>2. colItem = None => Target \notin Items
        BY <1>t, ImagesAssumption DEF Target, Analyser!Target, Analyser!TypeOK
      <4> QED BY <3>1, <4>1, <4>2
    <3> QED BY <2>1, <2>3, <3>3, <3>4 DEF OnItsWay
  <2> QED BY <1>t, <2>1, <2>2, <2>4, <2>5 DEF ColourInv
<1>8. CASE Analyser!Finished
  <2>1. /\ colFuture.at = "finished" /\ colFuture' = Analyser!NoFuture
        /\ colResult' = IF colFuture.what = None THEN colResult
                        ELSE [what |-> colFuture.what, size |-> colFuture.size]
        /\ UNCHANGED <<colSource, colItem, colSize, colVisible, colArmed, colGrabs, colOvertaken>>
    BY <1>8 DEF Analyser!Finished
  <2>2. Analyser!TypeOK'
    BY <1>t, <2>1 DEF Analyser!TypeOK, Analyser!NoFuture
  <2>3. Target' = Target
    BY <2>1 DEF Target, Analyser!Target
  <2>4. Expected' = Expected
    BY <2>1, <2>3 DEF Expected
  <2>5. Expected /\ OnItsWay => OnItsWay'
    BY <2>1, <2>3 DEF Expected, OnItsWay, Analyser!NoFuture
  <2> QED BY <1>t, <2>1, <2>2, <2>4, <2>5 DEF ColourInv
<1>9. CASE UNCHANGED Analyser!vars
  <2>1. UNCHANGED <<colSource, colItem, colSize, colVisible, colArmed, colGrabs, colFuture,
                    colResult, colOvertaken>>
    BY <1>9 DEF Analyser!vars
  <2>2. Target' = Target /\ Analyser!TypeOK'
    BY <1>t, <2>1 DEF Target, Analyser!Target, Analyser!TypeOK
  <2> QED BY <1>t, <2>1, <2>2 DEF ColourInv, Expected, OnItsWay
<1> QED BY <1>1, <1>2, <1>3, <1>4, <1>5, <1>6, <1>7, <1>8, <1>9 DEF Analyser!Next

(* ImageAnalyser: however sources, items and sizes change while grabs and  *)
(* futures run, what is shown at rest is the colour of the image now set.  *)
THEOREM ColoursAreCurrent == DataSpec => []ResultIsCurrent
<1>1. ColourInv => ResultIsCurrent
  <2> SUFFICES ASSUME ColourInv PROVE Analyser!TypeOK /\ Analyser!ResultIsCurrent
    BY DEF ResultIsCurrent
  <2>1. ASSUME colFuture.at = "none", colGrabs = {}, Expected
        PROVE  colResult = [what |-> Target, size |-> colSize]
    BY <2>1 DEF ColourInv, OnItsWay
  <2> QED BY <2>1 DEF ColourInv, Expected, Target, Analyser!ResultIsCurrent
<1> QED BY <1>1, EachKeepsItsSpec, ColourInit, ColourStep, PTL DEF Analyser!Spec

-----------------------------------------------------------------------------
(***************************************************************************)
(* The launcher.  The order of the apps is not looked into: it is emitted  *)
(* whenever it changes.  When no update waits and no app outlived its      *)
(* entry, every app is of an entry that is there, so none can be dying.    *)
(***************************************************************************)
Stores == Databases \cup {Memory}
Apps == [of : Launcher!Objects, frequency : Nat]
EntryIds == {o[1] : o \in appEntries}

(* Types, as far as the proof needs them.                                  *)
AppType ==
  /\ appEntries \subseteq Launcher!Objects
  /\ DOMAIN appApps \subseteq AppIds
  /\ appApps \in [DOMAIN appApps -> Apps]
  /\ appPath \in Stores /\ appStored \in [Stores -> [AppIds -> Nat]]

(* What updateApps leaves: the apps are those of the entries.              *)
AppsFollowEntries ==
  ~appTimer /\ appOutlived = {} =>
    /\ appDying = {} /\ DOMAIN appApps = EntryIds
    /\ \A id \in DOMAIN appApps : appApps[id].of \in appEntries

(* The view is the sorted apps, and the counts are those of the database.  *)
AppInv ==
  /\ AppType
  /\ appShown = Launcher!Sorted(appApps, appFavourites)
  /\ appPath \notin Locked =>
        \A id \in DOMAIN appApps : appApps[id].frequency = appStored[appPath][id]
  /\ AppsFollowEntries

(* The launcher starts on the entries there are.                           *)
LEMMA AppInit == Launcher!Init => AppInv
<1> SUFFICES ASSUME Launcher!Init PROVE AppInv
  OBVIOUS
<1>1. /\ appEntries = {} /\ appApps = <<>> /\ appDying = {} /\ appPath = Memory
      /\ appFavourites = {} /\ appShown = Launcher!Sorted(appApps, appFavourites) /\ appOutlived = {}
      /\ appStored = [p \in Stores |-> [id \in AppIds |-> 0]]
  BY DEF Launcher!Init, Stores
<1>2. DOMAIN appApps = {} /\ appApps \in [DOMAIN appApps -> Apps]
  BY <1>1
<1>3. AppType
  <2>1. appStored \in [Stores -> [AppIds -> Nat]]
    BY <1>1
  <2> QED BY <1>1, <1>2, <2>1 DEF AppType, Stores
<1> QED BY <1>1, <1>2, <1>3 DEF AppInv, AppsFollowEntries, EntryIds

(* updateApps makes, keeps and drops apps so that they are those of the    *)
(* entries, with the counts of the database.                               *)
LEMMA UpdateAppsKeeps == AppInv /\ Launcher!UpdateApps => AppInv'
<1> SUFFICES ASSUME AppInv, Launcher!UpdateApps PROVE AppInv'
  OBVIOUS
<1> DEFINE entry(id) == CHOOSE o \in appEntries : o[1] = id
<1>1. /\ appDying = {} /\ appTimer' = FALSE
      /\ appApps' = [id \in EntryIds |->
                       IF id \in DOMAIN appApps THEN appApps[id]
                       ELSE [of |-> entry(id), frequency |-> Launcher!Frequency(appPath, id)]]
      /\ appOutlived' = {id \in EntryIds : appApps'[id].of # entry(id)}
      /\ UNCHANGED <<appEntries, appDying, appPath, appStored, appFavourites>>
  BY DEF Launcher!UpdateApps, EntryIds
<1>2. appShown' = IF EntryIds # DOMAIN appApps THEN Launcher!Sorted(appApps', appFavourites) ELSE appShown
  BY DEF Launcher!UpdateApps, Launcher!Emit, EntryIds
<1>3. AppType /\ DOMAIN appApps' = EntryIds /\ EntryIds' = EntryIds
  BY <1>1 DEF AppInv, EntryIds
<1>4. \A id \in EntryIds : /\ entry(id) \in appEntries /\ id \in AppIds
                           /\ entry(id) \in Launcher!Objects
                           /\ Launcher!Frequency(appPath, id) \in Nat
  <2> SUFFICES ASSUME NEW id \in EntryIds
               PROVE  /\ entry(id) \in appEntries /\ id \in AppIds
                      /\ entry(id) \in Launcher!Objects
                      /\ Launcher!Frequency(appPath, id) \in Nat
    OBVIOUS
  <2>1. PICK o \in appEntries : o[1] = id
    BY DEF EntryIds
  <2>2. entry(id) \in appEntries
    BY <2>1
  <2>3. id \in AppIds
    BY <1>3, <2>1 DEF AppType, Launcher!Objects
  <2>4. appStored[appPath][id] \in Nat
    BY <1>3, <2>3 DEF AppType
  <2> QED BY <1>3, <2>2, <2>3, <2>4 DEF AppType, Launcher!Frequency
<1> HIDE DEF entry
<1>5. \A id \in EntryIds : appApps'[id] \in Apps
  BY <1>1, <1>3, <1>4 DEF AppType, Apps
<1>6. AppType'
  <2>1. appApps' \in [DOMAIN appApps' -> Apps]
    BY <1>1, <1>3, <1>5
  <2> QED BY <1>1, <1>3, <1>4, <2>1 DEF AppType
<1>7. appShown' = Launcher!Sorted(appApps', appFavourites')
  <2>1. CASE EntryIds # DOMAIN appApps
    BY <1>1, <1>2, <2>1
  <2>2. CASE EntryIds = DOMAIN appApps
    <3>1. appApps' = appApps
      BY <1>1, <1>3, <2>2 DEF AppType
    <3> QED BY <1>1, <1>2, <2>2, <3>1 DEF AppInv
  <2> QED BY <2>1, <2>2
<1>8. appPath' \notin Locked =>
        \A id \in DOMAIN appApps' : appApps'[id].frequency = appStored'[appPath'][id]
  BY <1>1, <1>3 DEF AppInv, Launcher!Frequency
<1>9. AppsFollowEntries'
  BY <1>1, <1>3, <1>4 DEF AppsFollowEntries
<1> QED BY <1>6, <1>7, <1>8, <1>9 DEF AppInv

(* A start is counted in memory and in the database, unless it is locked.  *)
LEMMA IncrementKeeps ==
  ASSUME AppInv, NEW id \in AppIds, Launcher!IncrementFrequency(id)
  PROVE  AppInv'
<1>1. /\ appStored' = IF appPath \in Locked THEN appStored
                      ELSE [appStored EXCEPT ![appPath][id] = @ + 1]
      /\ appApps' = IF id \in DOMAIN appApps THEN [appApps EXCEPT ![id].frequency = @ + 1] ELSE appApps
      /\ UNCHANGED <<appEntries, appDying, appTimer, appPath, appFavourites, appOutlived>>
  BY DEF Launcher!IncrementFrequency
<1>2. appShown' = IF Launcher!Sorted(appApps, appFavourites) # Launcher!Sorted(appApps', appFavourites)
                  THEN Launcher!Sorted(appApps', appFavourites) ELSE appShown
  BY DEF Launcher!IncrementFrequency, Launcher!Emit
<1>3. AppType /\ appShown = Launcher!Sorted(appApps, appFavourites)
  BY DEF AppInv
<1>4. DOMAIN appApps' = DOMAIN appApps
  BY <1>1
<1>5. \A a \in DOMAIN appApps : /\ appApps'[a].of = appApps[a].of
                               /\ appApps'[a] \in Apps
                               /\ appApps'[a].frequency = IF a = id THEN appApps[a].frequency + 1
                                                          ELSE appApps[a].frequency
  BY <1>1, <1>3 DEF AppType, Apps
<1>6. appStored' \in [Stores -> [AppIds -> Nat]]
  BY <1>1, <1>3 DEF AppType
<1>7. appPath \notin Locked => \A a \in AppIds :
        appStored'[appPath][a] = IF a = id THEN appStored[appPath][a] + 1 ELSE appStored[appPath][a]
  BY <1>1, <1>3 DEF AppType
<1>8. AppType'
  <2>1. appApps' \in [DOMAIN appApps' -> Apps]
    BY <1>1, <1>3, <1>4, <1>5 DEF AppType
  <2> QED BY <1>1, <1>3, <1>4, <1>6, <2>1 DEF AppType
<1>9. appPath' \notin Locked =>
        \A a \in DOMAIN appApps' : appApps'[a].frequency = appStored'[appPath'][a]
  BY <1>1, <1>3, <1>4, <1>5, <1>7 DEF AppInv, AppType
<1>10. AppsFollowEntries'
  BY <1>1, <1>4, <1>5 DEF AppInv, AppsFollowEntries, EntryIds
<1>11. appShown' = Launcher!Sorted(appApps', appFavourites)
  BY <1>2, <1>3
<1> HIDE DEF AppInv
<1>12. appShown' = Launcher!Sorted(appApps', appFavourites')
  BY <1>1, <1>11
<1> QED BY <1>8, <1>9, <1>10, <1>12 DEF AppInv

(* Another database: the counts are read from it.                          *)
LEMMA SetPathKeeps ==
  ASSUME AppInv, NEW p \in Stores, Launcher!SetPath(p)
  PROVE  AppInv'
<1>1. /\ appPath' = p
      /\ appStored' = IF p = Memory THEN [appStored EXCEPT ![p] = [id \in AppIds |-> 0]] ELSE appStored
      /\ appApps' = [id \in DOMAIN appApps |->
                       [appApps[id] EXCEPT !.frequency = IF p \in Locked THEN 0 ELSE appStored'[p][id]]]
      /\ UNCHANGED <<appEntries, appDying, appTimer, appFavourites, appOutlived>>
  BY DEF Launcher!SetPath
<1>2. appShown' = IF Launcher!Sorted(appApps, appFavourites) # Launcher!Sorted(appApps', appFavourites)
                  THEN Launcher!Sorted(appApps', appFavourites) ELSE appShown
  BY DEF Launcher!SetPath, Launcher!Emit
<1>3. AppType /\ appShown = Launcher!Sorted(appApps, appFavourites)
  BY DEF AppInv
<1>4. DOMAIN appApps' = DOMAIN appApps
  BY <1>1
<1>5. appStored' \in [Stores -> [AppIds -> Nat]]
  BY <1>1, <1>3 DEF AppType
<1>6. \A a \in DOMAIN appApps : /\ appApps'[a].of = appApps[a].of
                               /\ appApps'[a] \in Apps
                               /\ appApps'[a].frequency = IF p \in Locked THEN 0 ELSE appStored'[p][a]
  BY <1>1, <1>3, <1>5 DEF AppType, Apps
<1>7. AppType'
  <2>1. appApps' \in [DOMAIN appApps' -> Apps]
    BY <1>1, <1>4, <1>6
  <2> QED BY <1>1, <1>3, <1>4, <1>5, <2>1 DEF AppType
<1>8. appPath' \notin Locked =>
        \A a \in DOMAIN appApps' : appApps'[a].frequency = appStored'[appPath'][a]
  BY <1>1, <1>4, <1>6
<1>9. AppsFollowEntries'
  BY <1>1, <1>4, <1>6 DEF AppInv, AppsFollowEntries, EntryIds
<1>10. appShown' = Launcher!Sorted(appApps', appFavourites')
  <2>1. appShown' = Launcher!Sorted(appApps', appFavourites)
    BY <1>2, <1>3
  <2> QED BY <1>1, <2>1
<1> QED BY <1>7, <1>8, <1>9, <1>10 DEF AppInv

(* Every step of the launcher keeps the invariant.                         *)
LEMMA AppStep == AppInv /\ [Launcher!Next]_Launcher!vars => AppInv'
<1> SUFFICES ASSUME AppInv, [Launcher!Next]_Launcher!vars PROVE AppInv'
  OBVIOUS
<1>t. AppType /\ appShown = Launcher!Sorted(appApps, appFavourites) /\ AppsFollowEntries
  BY DEF AppInv
<1>1. ASSUME NEW new \in SUBSET (Launcher!Objects \ appDead), Launcher!SetEntries(new) PROVE AppInv'
  <2>1. /\ appEntries' = new /\ appTimer' = TRUE
        /\ UNCHANGED <<appApps, appPath, appStored, appFavourites, appShown>>
    BY <1>1 DEF Launcher!SetEntries
  <2>2. AppType' /\ AppsFollowEntries'
    BY <1>t, <1>1, <2>1 DEF AppType, AppsFollowEntries
  <2> QED BY <1>t, <2>1, <2>2 DEF AppInv
<1>2. ASSUME NEW o \in Launcher!Objects, Launcher!DestroyEntry(o) PROVE AppInv'
  <2>1. /\ o \notin appEntries /\ o[1] \in DOMAIN appApps /\ appApps[o[1]].of = o
        /\ UNCHANGED <<appEntries, appApps, appTimer, appPath, appStored, appFavourites, appShown, appOutlived>>
    BY <1>2 DEF Launcher!DestroyEntry
  <2>2. AppType' /\ AppsFollowEntries'
    BY <1>t, <2>1 DEF AppType, AppsFollowEntries
  <2> QED BY <1>t, <2>1, <2>2 DEF AppInv
<1>3. ASSUME NEW id \in appDying, Launcher!DeleteApp(id) PROVE AppInv'
  <2>1. /\ appApps' = [a \in DOMAIN appApps \ {id} |-> appApps[a]]
        /\ appShown' = Launcher!Sorted(appApps', appFavourites)
        /\ UNCHANGED <<appEntries, appTimer, appPath, appStored, appFavourites, appOutlived>>
    BY <1>3 DEF Launcher!DeleteApp, Launcher!Emit
  <2>2. AppType'
    BY <1>t, <2>1 DEF AppType
  <2>3. AppsFollowEntries'
    BY <1>t, <1>3, <2>1 DEF AppsFollowEntries
  <2> QED BY <1>t, <2>1, <2>2, <2>3 DEF AppInv
<1>4. ASSUME NEW favs \in SUBSET AppIds, Launcher!SetFavourites(favs) PROVE AppInv'
  <2>1. /\ appFavourites' = favs /\ appShown' = Launcher!Sorted(appApps, favs)
        /\ UNCHANGED <<appEntries, appApps, appDying, appTimer, appPath, appStored, appOutlived>>
    BY <1>4 DEF Launcher!SetFavourites, Launcher!Emit
  <2>2. AppType' /\ AppsFollowEntries'
    BY <1>t, <2>1 DEF AppType, AppsFollowEntries, EntryIds
  <2> QED BY <1>t, <2>1, <2>2 DEF AppInv
<1>5. CASE UNCHANGED Launcher!vars
  <2>1. UNCHANGED <<appEntries, appApps, appDying, appTimer, appPath, appStored, appFavourites,
                    appShown, appOutlived>>
    BY <1>5 DEF Launcher!vars
  <2> QED BY <2>1 DEF AppInv, AppType, AppsFollowEntries, EntryIds
<1> QED BY <1>1, <1>2, <1>3, <1>4, <1>5, UpdateAppsKeeps, IncrementKeeps, SetPathKeeps
        DEF Launcher!Next, Stores

(* AppDb: at rest the launcher shows the apps of the entries, sorted by    *)
(* favourites, counts and names, with the counts of its database.          *)
THEOREM LauncherIsRight == DataSpec => []AppsAreRight
<1>1. AppInv => AppsAreRight
  BY DEF AppInv, AppsFollowEntries, EntryIds, AppsAreRight, Launcher!AppsAreRight
<1> QED BY <1>1, EachKeepsItsSpec, AppInit, AppStep, PTL DEF Launcher!Spec

-----------------------------------------------------------------------------
(***************************************************************************)
(* The attached objects.  Those that take a screen are the roots and       *)
(* everything below them as far as the screen is another one: an object    *)
(* below one that takes it has it, and one that takes it is a root or has  *)
(* one above it that takes it.                                             *)
(***************************************************************************)
SomeScreen == Screens \cup {""}

(* Types, as far as the proof needs them.                                  *)
ScreenTypes ==
  /\ Attached!There \subseteq Attachables
  /\ attParent \in [Attached!There -> Attached!There \cup {None}]
  /\ attScreen \in [Attached!There -> SomeScreen]
  /\ attCreated \in [Screens -> {0, 1}]

ScreenInv == ScreenTypes /\ Attached!ScreensFollow

(* The least set is a set that has the roots and what is below its members. *)
LEMMA DownIs ==
  ASSUME NEW tree, NEW roots, NEW through
  PROVE  LET D == Attached!Down(tree, roots, through)
         IN  /\ D \subseteq through /\ roots \cap through \subseteq D
             /\ \A c \in through : tree[c] \in D => c \in D
             /\ \A c \in D : c \in roots \/ tree[c] \in D
<1> DEFINE D == Attached!Down(tree, roots, through)
           Closed(T) == /\ roots \cap through \subseteq T
                        /\ \A c \in through : tree[c] \in T => c \in T
<1>1. D = {o \in through : \A T \in SUBSET through : Closed(T) => o \in T}
  BY DEF Attached!Down
<1>2. D \subseteq through /\ roots \cap through \subseteq D
  BY <1>1
<1>3. \A c \in through : tree[c] \in D => c \in D
  <2>1. SUFFICES ASSUME NEW c \in through, tree[c] \in D, NEW T \in SUBSET through, Closed(T)
                 PROVE  c \in T
    BY <1>1
  <2>2. tree[c] \in T
    BY <1>1, <2>1
  <2> QED BY <2>1, <2>2
<1>4. ASSUME NEW c \in D, c \notin roots, tree[c] \notin D
      PROVE  FALSE
  <2>1. D \ {c} \in SUBSET through
    BY <1>2
  <2>2. Closed(D \ {c})
    <3>1. roots \cap through \subseteq D \ {c}
      BY <1>2, <1>4
    <3>2. ASSUME NEW b \in through, tree[b] \in D \ {c} PROVE b \in D \ {c}
      <4>1. b \in D
        BY <1>3, <3>2
      <4>2. b # c
        BY <1>4, <3>2
      <4> QED BY <4>1, <4>2
    <3> QED BY <3>1, <3>2
  <2>3. c \in D \ {c}
    BY <1>1, <1>4, <2>1, <2>2
  <2> QED BY <2>3
<1> QED BY <1>2, <1>3, <1>4

(* What those that take a screen, and the others, have to do with it.      *)
LEMMA TakersAre ==
  ASSUME NEW tree, NEW old, NEW roots \in SUBSET DOMAIN tree, NEW s
  PROVE  LET K == Attached!Takers(tree, old, roots, s)
         IN  /\ K \subseteq DOMAIN tree
             /\ \A o \in K : old[o] # s
             /\ \A o \in roots : o \in K \/ old[o] = s
             /\ \A o \in DOMAIN tree : tree[o] \in K => o \in K \/ old[o] = s
             /\ \A o \in K : o \in roots \/ tree[o] \in K
<1> DEFINE through == {c \in DOMAIN tree : old[c] # s}
           K == Attached!Takers(tree, old, roots, s)
<1>1. K = Attached!Down(tree, roots, through)
  BY DEF Attached!Takers
<1> HIDE DEF K
<1>2. /\ K \subseteq through /\ roots \cap through \subseteq K
      /\ \A c \in through : tree[c] \in K => c \in K
      /\ \A c \in K : c \in roots \/ tree[c] \in K
  BY <1>1, DownIs
<1>3. /\ K \subseteq DOMAIN tree
      /\ \A o \in K : old[o] # s
      /\ \A o \in roots : o \in K \/ old[o] = s
      /\ \A o \in DOMAIN tree : tree[o] \in K => o \in K \/ old[o] = s
      /\ \A o \in K : o \in roots \/ tree[o] \in K
  BY <1>2
<1> QED BY <1>3 DEF K

(* No object is there when the shell starts.                               *)
LEMMA ScreenInit == Attached!Init => ScreenInv
BY DEF Attached!Init, ScreenInv, ScreenTypes, SomeScreen, Attached!There, Attached!ScreensFollow

(* The layer of a screen is made once, when it is first asked for.         *)
LEMMA LayerIsMade ==
  ASSUME attCreated \in [Screens -> {0, 1}], NEW s \in SomeScreen, Attached!ForScreen(s)
  PROVE  /\ attCreated' \in [Screens -> {0, 1}]
         /\ s # "" => attCreated'[s] = 1
         /\ \A t \in Screens : attCreated[t] = 1 => attCreated'[t] = 1
BY DEF Attached!ForScreen, SomeScreen

(* The screen of some objects is replaced, in a tree, and they and their   *)
(* children follow the tree.                                               *)
LEMMA TakeScreenTypes ==
  ASSUME ScreenInv, NEW tree \in [Attached!There -> Attached!There \cup {None}],
         NEW K \in SUBSET Attached!There, NEW s \in SomeScreen,
         Attached!TakeScreen(tree, attScreen, K, s)
  PROVE  /\ ScreenTypes'
         /\ attParent' = tree /\ DOMAIN tree = Attached!There
         /\ \A o \in Attached!There : attScreen'[o] = IF o \in K THEN s ELSE attScreen[o]
         /\ attLayer' = attScreen' /\ attSeen' = attScreen'
         /\ \A o \in DOMAIN attParent' : attScreen'[o] # "" => attCreated'[attScreen'[o]] = 1
<1> DEFINE There == Attached!There
<1>1. /\ There \subseteq Attachables /\ attScreen \in [There -> SomeScreen]
      /\ attCreated \in [Screens -> {0, 1}]
      /\ attLayer = attScreen /\ attSeen = attScreen
      /\ \A o \in There : attScreen[o] # "" => attCreated[attScreen[o]] = 1
  BY DEF ScreenInv, ScreenTypes, Attached!ScreensFollow
<1>2. DOMAIN tree = There /\ DOMAIN attLayer = There /\ DOMAIN attSeen = There
  BY <1>1
<1> HIDE DEF There
<1>3. /\ attParent' = tree
      /\ attScreen' = [o \in There |-> IF o \in K THEN s ELSE attScreen[o]]
      /\ attLayer' = [o \in There |-> IF o \in K THEN s ELSE attLayer[o]]
      /\ attSeen' = [o \in There |-> IF o \in K THEN s ELSE attSeen[o]]
  BY <1>2 DEF Attached!TakeScreen
<1>4. attLayer' = attScreen' /\ attSeen' = attScreen'
  BY <1>1, <1>3
<1>5. attScreen' \in [There -> SomeScreen]
  BY <1>1, <1>3
<1>6. Attached!There' = There
  BY <1>2, <1>3 DEF Attached!There
<1>7. /\ attCreated' \in [Screens -> {0, 1}]
      /\ K # {} /\ s # "" => attCreated'[s] = 1
      /\ \A t \in Screens : attCreated[t] = 1 => attCreated'[t] = 1
  <2>1. CASE K # {}
    <3>1. Attached!ForScreen(s)
      BY <2>1 DEF Attached!TakeScreen
    <3> QED BY <1>1, <3>1, LayerIsMade
  <2>2. CASE K = {}
    <3>1. attCreated' = attCreated
      BY <2>2 DEF Attached!TakeScreen
    <3> QED BY <1>1, <2>2, <3>1
  <2> QED BY <2>1, <2>2
<1>8. ASSUME NEW o \in There, attScreen'[o] # ""
      PROVE  attCreated'[attScreen'[o]] = 1
  <2>1. CASE o \in K
    BY <1>3, <1>7, <1>8, <2>1
  <2>2. CASE o \notin K
    <3>1. attScreen'[o] = attScreen[o] /\ attScreen[o] \in Screens
      BY <1>1, <1>3, <1>8, <2>2 DEF SomeScreen
    <3> QED BY <1>1, <1>7, <1>8, <3>1
  <2> QED BY <2>1, <2>2
<1>9. ScreenTypes'
  <2>1. tree \in [There -> There \cup {None}]
    BY DEF There
  <2> QED BY <1>1, <1>3, <1>5, <1>6, <1>7, <2>1 DEF ScreenTypes, SomeScreen
<1> QED BY <1>2, <1>3, <1>4, <1>8, <1>9 DEF There

(* QML writes the screen of an object.                                     *)
LEMMA SetScreenKeeps ==
  ASSUME ScreenInv, NEW o \in Attached!There, NEW s \in SomeScreen, Attached!SetScreen(o, s)
  PROVE  ScreenInv'
<1> DEFINE K == Attached!Takers(attParent, attScreen, {o}, s)
<1>1. /\ attParent \in [Attached!There -> Attached!There \cup {None}]
      /\ \A x \in Attached!There :
            attParent[x] # None /\ x \notin attOwn => attScreen[x] = attScreen[attParent[x]]
  BY DEF ScreenInv, ScreenTypes, Attached!ScreensFollow
<1>2. /\ K \subseteq Attached!There
      /\ o \in K \/ attScreen[o] = s
      /\ \A x \in K : attScreen[x] # s
      /\ \A x \in Attached!There : attParent[x] \in K => x \in K \/ attScreen[x] = s
      /\ \A x \in K : x = o \/ attParent[x] \in K
  <2>1. {o} \in SUBSET DOMAIN attParent /\ DOMAIN attParent = Attached!There
    BY DEF Attached!There
  <2> QED BY <2>1, TakersAre
<1>3. /\ Attached!TakeScreen(attParent, attScreen, K, s)
      /\ attOwn' = IF K = {} THEN attOwn ELSE (attOwn \ Attached!Followers(attParent, K)) \cup {o}
  BY DEF Attached!SetScreen
<1> HIDE DEF K
<1>4. /\ ScreenTypes'
      /\ attParent' = attParent /\ DOMAIN attParent = Attached!There
      /\ \A x \in Attached!There : attScreen'[x] = IF x \in K THEN s ELSE attScreen[x]
      /\ attLayer' = attScreen' /\ attSeen' = attScreen'
      /\ \A x \in DOMAIN attParent' : attScreen'[x] # "" => attCreated'[attScreen'[x]] = 1
  BY <1>1, <1>2, <1>3, TakeScreenTypes
<1>5. ASSUME NEW x \in Attached!There, attParent[x] # None, x \notin attOwn'
      PROVE  attScreen'[x] = attScreen'[attParent[x]]
  <2>1. attParent[x] \in Attached!There
    BY <1>1, <1>5
  <2>2. CASE attParent[x] \in K
    BY <1>2, <1>4, <2>1, <2>2
  <2>3. CASE attParent[x] \notin K
    <3>1. x \notin attOwn
      BY <1>3, <1>4, <1>5, <2>3, ZenonT(30) DEF Attached!Followers, Attached!Children
    <3>2. x \notin K
      BY <1>2, <1>3, <1>5, <2>3
    <3> QED BY <1>1, <1>4, <1>5, <2>1, <2>3, <3>1, <3>2
  <2> QED BY <2>2, <2>3
<1>6. Attached!ScreensFollow'
  BY <1>4, <1>5 DEF Attached!ScreensFollow, Attached!There
<1> QED BY <1>4, <1>6 DEF ScreenInv

(* The item of an object moves.                                            *)
LEMMA MoveKeeps ==
  ASSUME ScreenInv, NEW o \in Attached!There, NEW p \in Attached!There \cup {None}, Attached!Move(o, p)
  PROVE  ScreenInv'
<1> DEFINE tree == [attParent EXCEPT ![o] = p]
           K == Attached!Adopted(tree, attScreen, {o}, p)
           s == IF p = None THEN "" ELSE attScreen[p]
<1>1. /\ attParent \in [Attached!There -> Attached!There \cup {None}]
      /\ attScreen \in [Attached!There -> SomeScreen]
      /\ None \notin Attached!There
      /\ \A x \in Attached!There :
            attParent[x] # None /\ x \notin attOwn => attScreen[x] = attScreen[attParent[x]]
  BY AttachablesAssumption DEF ScreenInv, ScreenTypes, Attached!ScreensFollow
<1>2. /\ tree \in [Attached!There -> Attached!There \cup {None}] /\ s \in SomeScreen
      /\ DOMAIN tree = Attached!There
      /\ \A x \in Attached!There : tree[x] = IF x = o THEN p ELSE attParent[x]
  BY <1>1 DEF SomeScreen
<1>3. /\ Attached!TakeScreen(tree, attScreen, K, s)
      /\ attOwn' = IF p = None THEN attOwn ELSE attOwn \ ({o} \cup Attached!Followers(tree, K))
  BY DEF Attached!Move, Attached!Adopt
<1>4. p = None => K = {}
  BY DEF Attached!Adopted
<1>5. ASSUME p # None
      PROVE  /\ K \subseteq Attached!There
             /\ o \in K \/ attScreen[o] = s
             /\ \A x \in Attached!There : tree[x] \in K => x \in K \/ attScreen[x] = s
             /\ \A x \in K : x = o \/ tree[x] \in K
  <2>1. K = Attached!Takers(tree, attScreen, {o}, s)
    BY <1>5 DEF Attached!Adopted
  <2>2. {o} \in SUBSET DOMAIN tree
    BY <1>2
  <2> HIDE DEF K, tree, s
  <2> QED BY <1>2, <2>1, <2>2, TakersAre
<1> HIDE DEF K, tree
<1>6. K \subseteq Attached!There
  BY <1>4, <1>5
<1>7. /\ ScreenTypes'
      /\ attParent' = tree
      /\ \A x \in Attached!There : attScreen'[x] = IF x \in K THEN s ELSE attScreen[x]
      /\ attLayer' = attScreen' /\ attSeen' = attScreen'
      /\ \A x \in DOMAIN attParent' : attScreen'[x] # "" => attCreated'[attScreen'[x]] = 1
  <2>1. /\ ScreenInv /\ tree \in [Attached!There -> Attached!There \cup {None}]
        /\ K \in SUBSET Attached!There /\ s \in SomeScreen
        /\ Attached!TakeScreen(tree, attScreen, K, s)
    BY <1>2, <1>3, <1>6
  <2> HIDE DEF s
  <2> QED BY ONLY <2>1, TakeScreenTypes
<1>8. ASSUME NEW x \in Attached!There, tree[x] # None, x \notin attOwn'
      PROVE  attScreen'[x] = attScreen'[tree[x]]
  <2>1. tree[x] \in Attached!There
    BY <1>2, <1>8
  <2>2. CASE p = None
    <3>1. x # o /\ x \notin attOwn /\ tree[x] = attParent[x]
      BY <1>2, <1>3, <1>8, <2>2
    <3> QED BY <1>1, <1>4, <1>7, <1>8, <2>1, <2>2, <3>1
  <2>3. CASE p # None /\ x = o
    <3>1. tree[x] = p /\ s = attScreen[p]
      BY <1>2, <2>3
    <3>2. attScreen'[p] = s
      BY <1>7, <2>1, <3>1
    <3> QED BY <1>5, <1>7, <2>3, <3>1, <3>2
  <2>4. CASE p # None /\ x # o /\ tree[x] \in K
    BY <1>5, <1>7, <2>1, <2>4
  <2>5. CASE p # None /\ x # o /\ tree[x] \notin K
    <3>1. x \notin attOwn
      BY <1>2, <1>3, <1>8, <2>5 DEF Attached!Followers, Attached!Children
    <3>2. x \notin K /\ tree[x] = attParent[x]
      BY <1>2, <1>5, <2>5
    <3> QED BY <1>1, <1>7, <1>8, <2>1, <2>5, <3>1, <3>2
  <2> QED BY <2>2, <2>3, <2>4, <2>5
<1>9. Attached!ScreensFollow'
  BY <1>2, <1>7, <1>8 DEF Attached!ScreensFollow, Attached!There
<1> QED BY <1>7, <1>9 DEF ScreenInv

(* An object is made, between one that is there and some of those below.   *)
LEMMA AttachKeeps ==
  ASSUME ScreenInv, NEW o \in Attachables \ Attached!There, NEW p \in Attached!There \cup {None},
         NEW below \in SUBSET Attached!There, Attached!Attach(o, p, below)
  PROVE  ScreenInv'
<1> DEFINE There == Attached!There
           Now == There \cup {o}
           tree == [c \in Now |-> IF c = o THEN p ELSE IF c \in below THEN o ELSE attParent[c]]
           old == [c \in Now |-> IF c # o THEN attScreen[c] ELSE IF p = None THEN "" ELSE attScreen[p]]
           s == old[o]
           K == Attached!Adopted(tree, old, below, o)
<1>1. /\ There \subseteq Attachables
      /\ attParent \in [There -> There \cup {None}]
      /\ attScreen \in [There -> SomeScreen]
      /\ attCreated \in [Screens -> {0, 1}]
      /\ attLayer = attScreen /\ attSeen = attScreen
      /\ None \notin Now /\ o \notin There /\ None # o
      /\ \A x \in There : attScreen[x] # "" => attCreated[attScreen[x]] = 1
      /\ \A x \in There :
            attParent[x] # None /\ x \notin attOwn => attScreen[x] = attScreen[attParent[x]]
  BY AttachablesAssumption DEF ScreenInv, ScreenTypes, Attached!ScreensFollow
<1>2. /\ attParent' = tree
      /\ attScreen' = [c \in DOMAIN tree |-> IF c \in K THEN s ELSE old[c]]
      /\ attLayer' = [c \in DOMAIN tree |-> IF c \in K \cup {o} THEN s ELSE attLayer[c]]
      /\ attSeen' = [c \in DOMAIN tree |-> IF c \in K \cup {o} THEN s ELSE attSeen[c]]
      /\ attOwn' = attOwn \ (below \cup Attached!Followers(tree, K))
      /\ IF s # "" THEN Attached!ForScreen(s) ELSE attCreated' = attCreated
  <2>1. \E takers \in {K} :
           /\ attParent' = tree
           /\ attScreen' = [c \in DOMAIN tree |-> IF c \in takers THEN s ELSE old[c]]
           /\ attLayer' = [c \in DOMAIN tree |-> IF c \in takers \cup {o} THEN s ELSE attLayer[c]]
           /\ attSeen' = [c \in DOMAIN tree |-> IF c \in takers \cup {o} THEN s ELSE attSeen[c]]
           /\ attOwn' = attOwn \ (below \cup Attached!Followers(tree, takers))
    BY Zenon DEF Attached!Attach
  <2>2. IF s # "" THEN Attached!ForScreen(s) ELSE attCreated' = attCreated
    BY Zenon DEF Attached!Attach
  <2> HIDE DEF tree, old, K, s
  <2> QED BY <2>1, <2>2
<1>3. /\ DOMAIN tree = Now /\ s \in SomeScreen
      /\ tree \in [Now -> Now \cup {None}] /\ old \in [Now -> SomeScreen]
      /\ s = IF p = None THEN "" ELSE attScreen[p]
      /\ \A x \in There : old[x] = attScreen[x]
      /\ tree[o] = p
      /\ \A x \in There : tree[x] = IF x \in below THEN o ELSE attParent[x]
  BY <1>1 DEF SomeScreen
<1>4. /\ K \subseteq Now
      /\ \A x \in below : x \in K \/ old[x] = s
      /\ \A x \in Now : tree[x] \in K => x \in K \/ old[x] = s
      /\ \A x \in K : x \in below \/ tree[x] \in K
      /\ o \notin K
  <2>1. K = Attached!Takers(tree, old, below, s)
    BY <1>1 DEF Attached!Adopted
  <2>2. below \in SUBSET DOMAIN tree
    BY <1>3
  <2> HIDE DEF tree, old, K, s
  <2>3. /\ K \subseteq DOMAIN tree
        /\ \A x \in K : old[x] # s
        /\ \A x \in below : x \in K \/ old[x] = s
        /\ \A x \in DOMAIN tree : tree[x] \in K => x \in K \/ old[x] = s
        /\ \A x \in K : x \in below \/ tree[x] \in K
    BY <2>1, <2>2, TakersAre
  <2>4. old[o] = s
    BY DEF s
  <2> QED BY <1>3, <2>3, <2>4
<1> HIDE DEF tree, old, K, s
<1>5. /\ \A x \in Now : attScreen'[x] = IF x \in K THEN s ELSE old[x]
      /\ attScreen'[o] = s
      /\ attScreen' \in [Now -> SomeScreen]
  BY <1>2, <1>3, <1>4 DEF s
<1>6. attLayer' = attScreen' /\ attSeen' = attScreen'
  <2>1. \A x \in Now : (IF x \in K \cup {o} THEN s ELSE attScreen[x]) = IF x \in K THEN s ELSE old[x]
    BY <1>3 DEF s
  <2>2. attScreen' = [x \in Now |-> IF x \in K \cup {o} THEN s ELSE attScreen[x]]
    BY <1>2, <1>3, <2>1
  <2>3. /\ attLayer' = [x \in Now |-> IF x \in K \cup {o} THEN s ELSE attScreen[x]]
        /\ attSeen' = [x \in Now |-> IF x \in K \cup {o} THEN s ELSE attScreen[x]]
    BY <1>1, <1>2, <1>3
  <2> QED BY <2>2, <2>3
<1>7. /\ attCreated' \in [Screens -> {0, 1}]
      /\ s # "" => attCreated'[s] = 1
      /\ \A t \in Screens : attCreated[t] = 1 => attCreated'[t] = 1
  BY <1>1, <1>2, <1>3, LayerIsMade
<1>8. ASSUME NEW x \in Now, attScreen'[x] # ""
      PROVE  attCreated'[attScreen'[x]] = 1
  <2>1. CASE attScreen'[x] = s
    BY <1>7, <1>8, <2>1
  <2>2. CASE attScreen'[x] # s
    <3>1. x \in There /\ attScreen'[x] = attScreen[x] /\ attScreen[x] \in Screens
      BY <1>1, <1>3, <1>5, <1>8, <2>2 DEF SomeScreen
    <3> QED BY <1>1, <1>7, <1>8, <3>1
  <2> QED BY <2>1, <2>2
<1>9. ASSUME NEW x \in Now, tree[x] # None, x \notin attOwn'
      PROVE  attScreen'[x] = attScreen'[tree[x]]
  <2>1. CASE x = o
    <3>1. tree[x] = p /\ p \in There /\ s = attScreen[p] /\ old[p] = s
      BY <1>3, <1>9, <2>1
    <3>2. attScreen'[p] = s
      BY <1>5, <3>1
    <3> QED BY <1>5, <2>1, <3>1, <3>2
  <2>2. CASE x \in below
    <3>1. tree[x] = o /\ attScreen'[x] = s
      BY <1>3, <1>4, <1>5, <2>2
    <3> QED BY <1>5, <3>1
  <2>3. CASE x \in There \ below /\ attParent[x] \in K
    <3>1. tree[x] = attParent[x]
      BY <1>3, <2>3
    <3>2. attScreen'[x] = s /\ attScreen'[tree[x]] = s
      BY <1>4, <1>5, <2>3, <3>1
    <3> QED BY <3>2
  <2>4. CASE x \in There \ below /\ attParent[x] \notin K
    <3>1. tree[x] = attParent[x] /\ attParent[x] \in There
      BY <1>1, <1>3, <1>9, <2>4
    <3>2. x \notin attOwn
      <4>1. x \notin Attached!Followers(tree, K)
        BY <2>4, <3>1 DEF Attached!Followers, Attached!Children
      <4> QED BY <1>2, <1>9, <2>4, <4>1
    <3>3. x \notin K
      BY <1>4, <2>4, <3>1
    <3>4. attScreen[x] = attScreen[attParent[x]]
      BY <1>1, <1>9, <2>4, <3>1, <3>2
    <3> QED BY <1>3, <1>5, <2>4, <3>1, <3>3, <3>4
  <2> QED BY <2>1, <2>2, <2>3, <2>4
<1>10. Attached!There' = Now
  BY <1>2, <1>3 DEF Attached!There
<1>11. ScreenTypes'
  BY <1>1, <1>2, <1>3, <1>5, <1>7, <1>10 DEF ScreenTypes, SomeScreen
<1>12. Attached!ScreensFollow'
  BY <1>2, <1>6, <1>8, <1>9, <1>10 DEF Attached!ScreensFollow
<1> QED BY <1>11, <1>12 DEF ScreenInv

(* Every step of the attached objects keeps the invariant.                 *)
LEMMA ScreenStep == ScreenInv /\ [Attached!Next]_Attached!vars => ScreenInv'
<1> SUFFICES ASSUME ScreenInv, [Attached!Next]_Attached!vars PROVE ScreenInv'
  OBVIOUS
<1>1. ASSUME NEW o \in Attached!There, NEW s \in SomeScreen, Attached!SetScreen(o, s)
      PROVE  ScreenInv'
  BY <1>1, SetScreenKeeps
<1>2. ASSUME NEW o \in Attached!There, NEW p \in Attached!There \cup {None}, Attached!Move(o, p)
      PROVE  ScreenInv'
  BY <1>2, MoveKeeps
<1>3. ASSUME NEW o \in Attachables \ Attached!There, NEW p \in Attached!There \cup {None},
             NEW below \in SUBSET Attached!There, Attached!Attach(o, p, below)
      PROVE  ScreenInv'
  BY <1>3, AttachKeeps
<1>4. ASSUME NEW o \in Attachables \ Attached!There, NEW p \in Attached!There \cup {None},
             NEW below \in SUBSET (IF p = None THEN {c \in Attached!There : attParent[c] = None}
                                   ELSE Attached!Children(attParent, p)),
             Attached!Attach(o, p, below)
      PROVE  ScreenInv'
  <2>1. below \in SUBSET Attached!There
    BY DEF Attached!Children, Attached!There
  <2> QED BY <1>3, <1>4, <2>1
<1>5. CASE UNCHANGED Attached!vars
  BY <1>5 DEF Attached!vars, ScreenInv, ScreenTypes, SomeScreen, Attached!There, Attached!ScreensFollow
<1> QED BY <1>1, <1>2, <1>4, <1>5 DEF Attached!Next, SomeScreen

(* AttachedScreens: in whatever order the attached objects are made, moved *)
(* and given screens, each has the screen of the one above it unless its   *)
(* own was written since, reads the layer of its screen, and QML was told. *)
THEOREM ScreensReachAll == DataSpec => []ScreensFollow
<1>1. ScreenInv => ScreensFollow
  BY DEF ScreenInv, ScreensFollow
<1> QED BY <1>1, EachKeepsItsSpec, ScreenInit, ScreenStep, PTL DEF Attached!Spec

-----------------------------------------------------------------------------
(* A set of natural numbers that is not empty has a least one.             *)
LEMMA LeastNumber ==
  ASSUME NEW S \in SUBSET Nat, S # {}
  PROVE  \E m \in S : \A k \in S : m <= k
<1> DEFINE R == OpToRel(<, Nat)
<1>1. IsWellFoundedOn(R, Nat)
  BY NatLessThanWellFounded
<1>2. \A x \in Nat, y \in Nat : x < y => <<x, y>> \in R
  BY DEF OpToRel
<1> HIDE DEF R
<1>3. \E x \in S : \A y \in S : ~ (<<y, x>> \in R)
  BY <1>1, WFMin
<1>4. PICK m \in S : \A y \in S : ~ (<<y, m>> \in R)
  BY <1>3
<1>5. ASSUME NEW k \in S PROVE m <= k
  <2>1. m \in Nat /\ k \in Nat
    BY <1>4, <1>5
  <2>2. ~ (k < m)
    BY <1>2, <1>4, <1>5, <2>1
  <2> QED BY <2>1, <2>2
<1> QED BY <1>4, <1>5

(***************************************************************************)
(* The codecs.  What a value of a type is written as has that type, and is *)
(* read back as the value; what has a type is read as a value of it that   *)
(* is written as it was.                                                   *)
(***************************************************************************)
Words == Texts \cup DOMAIN EnumKeys
Plain == {<<"null">>, <<"object", "o">>} \cup {<<"bool", b>> : b \in BOOLEAN}
         \cup {<<"number", n>> : n \in Int} \cup {<<"string", s>> : s \in Words}
InFile == Plain \cup {<<"array", a>> : a \in Seq(Plain)}

Ints == -IntMax - 1 .. IntMax
Held == {<<"Bool", b>> : b \in BOOLEAN} \cup {<<"Int", n>> : n \in Ints}
        \cup {<<"Real", n>> : n \in Int} \cup {<<"String", s>> : s \in Words}
        \cup {<<"Enum", EnumKeys[s]>> : s \in DOMAIN EnumKeys}
        \cup {<<"VariantList", a>> : a \in Seq(Plain)} \cup {<<"VariantMap", "o">>}
        \cup {<<"StringList", a>> : a \in Seq(Words)} \cup {<<"RealList", a>> : a \in Seq(Int)}

(* The option holds nothing or a value of one of its types.                *)
CodecInv ==
  /\ codType \in Coding!Types
  /\ codFile \in InFile \cup {<<"undefined">>}
  /\ codValue = Coding!Unset \/ (codValue \in Held /\ \E i \in DOMAIN codType : codValue[1] = codType[i])

(* CHOOSE finds the least element of a set that has one.                   *)
LEMMA FirstIs ==
  ASSUME NEW S \in SUBSET Nat, S # {}
  PROVE  Coding!First(S) \in S /\ \A k \in S : Coding!First(S) <= k
BY LeastNumber DEF Coding!First

(* The JSON values by their kind.                                          *)
LEMMA InFileIs ==
  ASSUME NEW j \in InFile
  PROVE  /\ j[1] \in {"null", "object", "bool", "number", "string", "array"}
         /\ j[1] = "object" => j = <<"object", "o">>
         /\ j[1] = "bool" => \E b \in BOOLEAN : j = <<"bool", b>>
         /\ j[1] = "number" => \E n \in Int : j = <<"number", n>>
         /\ j[1] = "string" => \E s \in Words : j = <<"string", s>>
         /\ j[1] = "array" => \E a \in Seq(Plain) : j = <<"array", a>>
<1>1. CASE j \in {<<"null">>, <<"object", "o">>}
  BY <1>1
<1>2. CASE j \in {<<"bool", b>> : b \in BOOLEAN}
  <2>1. PICK b \in BOOLEAN : j = <<"bool", b>>
    BY <1>2
  <2> QED BY <2>1
<1>3. CASE j \in {<<"number", n>> : n \in Int}
  <2>1. PICK n \in Int : j = <<"number", n>>
    BY <1>3
  <2> QED BY <2>1
<1>4. CASE j \in {<<"string", s>> : s \in Words}
  <2>1. PICK s \in Words : j = <<"string", s>>
    BY <1>4
  <2> QED BY <2>1
<1>5. CASE j \in {<<"array", a>> : a \in Seq(Plain)}
  <2>1. PICK a \in Seq(Plain) : j = <<"array", a>>
    BY <1>5
  <2> QED BY <2>1
<1> QED BY <1>1, <1>2, <1>3, <1>4, <1>5 DEF InFile, Plain

(* The values by their type.                                               *)
LEMMA HeldAre ==
  /\ \A b \in BOOLEAN : <<"Bool", b>> \in Held
  /\ \A n \in Ints : <<"Int", n>> \in Held
  /\ \A n \in Int : <<"Real", n>> \in Held
  /\ \A s \in Words : <<"String", s>> \in Held
  /\ \A s \in DOMAIN EnumKeys : <<"Enum", EnumKeys[s]>> \in Held
  /\ \A a \in Seq(Plain) : <<"VariantList", a>> \in Held
  /\ <<"VariantMap", "o">> \in Held
  /\ \A a \in Seq(Words) : <<"StringList", a>> \in Held
  /\ \A a \in Seq(Int) : <<"RealList", a>> \in Held
BY DEF Held

(* Half of an even number.                                                 *)
LEMMA Halved ==
  ASSUME NEW n \in Int
  PROVE  /\ n % 2 = 0 => n = 2 * (n \div 2) /\ n \div 2 \in Int
         /\ \A k \in Int : n = 2 * k => n % 2 = 0 /\ n \div 2 = k
<1>1. n = 2 * (n \div 2) + (n % 2) /\ n \div 2 \in Int
  OBVIOUS
<1>2. \A k \in Int : n = 2 * k => n % 2 = 0 /\ n \div 2 = k
  OBVIOUS
<1> QED BY <1>1, <1>2

(* What decode should answer for a type and a JSON value.                  *)
Understood(t, j, r) ==
  /\ r.ok \in BOOLEAN /\ r.depth \in {0, 1}
  /\ r.ok <=> Coding!Fits(t, j)
  /\ r.ok => r.value \in Held /\ r.value[1] = t
  /\ r.ok /\ t # "Enum" => Coding!EncodePlain(r.value) = j
  /\ ~ r.ok => r.value = Coding!Unset

(* An error is the right answer to a value of another type.                *)
LEMMA RefusedIs ==
  ASSUME NEW t, NEW j, NEW d \in {0, 1}, NEW m, ~ Coding!Fits(t, j)
  PROVE  Understood(t, j, Coding!Error(d, m))
<1>1. /\ Coding!Error(d, m).ok = FALSE
      /\ Coding!Error(d, m).depth = d
      /\ Coding!Error(d, m).value = Coding!Unset
  BY DEF Coding!Error
<1> QED BY <1>1 DEF Understood

(* A value that is written as it was read is the right answer.             *)
LEMMA AcceptedIs ==
  ASSUME NEW t, NEW j, NEW v \in Held, v[1] = t, Coding!Fits(t, j),
         t # "Enum" => Coding!EncodePlain(v) = j
  PROVE  Understood(t, j, Coding!Accepted(v))
<1>1. /\ Coding!Accepted(v).ok = TRUE
      /\ Coding!Accepted(v).depth = 0
      /\ Coding!Accepted(v).value = v
  BY DEF Coding!Accepted
<1> QED BY <1>1 DEF Understood

(* DecodeScalar answers as it should.                                      *)
LEMMA ScalarDecoded ==
  ASSUME NEW t \in {"Bool", "Int", "Real", "String", "Enum", "VariantList", "VariantMap"}, NEW j \in InFile
  PROVE  Understood(t, j, Coding!DecodeScalar(t, j))
<1> DEFINE r == Coding!DecodeScalar(t, j)
<1>1. CASE t = "Bool"
  <2>1. CASE j[1] = "bool"
    <3>1. PICK b \in BOOLEAN : j = <<"bool", b>>
      BY <2>1, InFileIs
    <3>2. /\ r = Coding!Accepted(<<"Bool", b>>) /\ Coding!Fits(t, j)
          /\ Coding!EncodePlain(<<"Bool", b>>) = j
      BY <1>1, <3>1 DEF Coding!DecodeScalar, Coding!Fits, Coding!EncodePlain
    <3> QED BY <1>1, <3>2, AcceptedIs, HeldAre
  <2>2. CASE j[1] # "bool"
    <3>1. r = Coding!Error(0, TRUE) /\ ~ Coding!Fits(t, j)
      BY <1>1, <2>2 DEF Coding!DecodeScalar, Coding!Fits
    <3> QED BY <3>1, RefusedIs
  <2> QED BY <2>1, <2>2
<1>2. CASE t = "Int"
  <2>1. CASE j[1] # "number"
    <3>1. r = Coding!Error(0, TRUE) /\ ~ Coding!Fits(t, j)
      BY <1>2, <2>1 DEF Coding!DecodeScalar, Coding!Fits
    <3> QED BY <3>1, RefusedIs
  <2>2. CASE j[1] = "number"
    <3>1. PICK n \in Int : j = <<"number", n>>
      BY <2>2, InFileIs
    <3>2. IntMax \in Nat
      BY CodecsAssumption
    <3>3. CASE n % 2 # 0 \/ n < -2 * IntMax - 2 \/ n > 2 * IntMax
      <4>1. r = Coding!Error(0, FALSE)
        BY <1>2, <3>1, <3>3 DEF Coding!DecodeScalar
      <4>2. ASSUME NEW k \in -IntMax - 1 .. IntMax, n = 2 * k PROVE FALSE
        BY <3>2, <3>3, <4>2, Halved
      <4>3. ~ Coding!Fits(t, j)
        BY <1>2, <3>1, <4>2 DEF Coding!Fits
      <4> QED BY <4>1, <4>3, RefusedIs
    <3>4. CASE ~ (n % 2 # 0 \/ n < -2 * IntMax - 2 \/ n > 2 * IntMax)
      <4>1. r = Coding!Accepted(<<"Int", n \div 2>>)
        BY <1>2, <3>1, <3>4 DEF Coding!DecodeScalar
      <4>2. n = 2 * (n \div 2) /\ n \div 2 \in Int
        BY <3>4, Halved
      <4>3. n \div 2 \in Ints
        BY <3>2, <3>4, <4>2 DEF Ints
      <4>4. Coding!Fits(t, j)
        BY <1>2, <3>1, <4>2, <4>3 DEF Coding!Fits, Ints
      <4>5. Coding!EncodePlain(<<"Int", n \div 2>>) = j
        BY <3>1, <4>2 DEF Coding!EncodePlain
      <4>6. <<"Int", n \div 2>> \in Held /\ <<"Int", n \div 2>>[1] = t
        BY <1>2, <4>3, HeldAre
      <4> QED BY <4>1, <4>4, <4>5, <4>6, AcceptedIs
    <3> QED BY <3>3, <3>4
  <2> QED BY <2>1, <2>2
<1>3. CASE t = "Real"
  <2>1. CASE j[1] = "number"
    <3>1. PICK n \in Int : j = <<"number", n>>
      BY <2>1, InFileIs
    <3>2. /\ r = Coding!Accepted(<<"Real", n>>) /\ Coding!Fits(t, j)
          /\ Coding!EncodePlain(<<"Real", n>>) = j
      BY <1>3, <3>1 DEF Coding!DecodeScalar, Coding!Fits, Coding!EncodePlain
    <3> QED BY <1>3, <3>2, AcceptedIs, HeldAre
  <2>2. CASE j[1] # "number"
    <3>1. r = Coding!Error(0, TRUE) /\ ~ Coding!Fits(t, j)
      BY <1>3, <2>2 DEF Coding!DecodeScalar, Coding!Fits
    <3> QED BY <3>1, RefusedIs
  <2> QED BY <2>1, <2>2
<1>4. CASE t = "String"
  <2>1. CASE j[1] = "string"
    <3>1. PICK s \in Words : j = <<"string", s>>
      BY <2>1, InFileIs
    <3>2. /\ r = Coding!Accepted(<<"String", s>>) /\ Coding!Fits(t, j)
          /\ Coding!EncodePlain(<<"String", s>>) = j
      BY <1>4, <3>1 DEF Coding!DecodeScalar, Coding!Fits, Coding!EncodePlain
    <3> QED BY <1>4, <3>2, AcceptedIs, HeldAre
  <2>2. CASE j[1] # "string"
    <3>1. r = Coding!Error(0, TRUE) /\ ~ Coding!Fits(t, j)
      BY <1>4, <2>2 DEF Coding!DecodeScalar, Coding!Fits
    <3> QED BY <3>1, RefusedIs
  <2> QED BY <2>1, <2>2
<1>5. CASE t = "Enum"
  <2>1. CASE j[1] = "string" /\ j[2] \in DOMAIN EnumKeys
    <3>1. r = Coding!Accepted(<<"Enum", EnumKeys[j[2]]>>) /\ Coding!Fits(t, j)
      BY <1>5, <2>1 DEF Coding!DecodeScalar, Coding!Fits
    <3>2. <<"Enum", EnumKeys[j[2]]>> \in Held /\ <<"Enum", EnumKeys[j[2]]>>[1] = t
      BY <1>5, <2>1, HeldAre
    <3> QED BY <1>5, <3>1, <3>2, AcceptedIs
  <2>2. CASE ~ (j[1] = "string" /\ j[2] \in DOMAIN EnumKeys)
    <3>1. (r = Coding!Error(0, TRUE) \/ r = Coding!Error(0, FALSE)) /\ ~ Coding!Fits(t, j)
      BY <1>5, <2>2 DEF Coding!DecodeScalar, Coding!Fits
    <3> QED BY <3>1, RefusedIs
  <2> QED BY <2>1, <2>2
<1>6. CASE t = "VariantList"
  <2>1. CASE j[1] = "array"
    <3>1. PICK a \in Seq(Plain) : j = <<"array", a>>
      BY <2>1, InFileIs
    <3>2. /\ r = Coding!Accepted(<<"VariantList", a>>) /\ Coding!Fits(t, j)
          /\ Coding!EncodePlain(<<"VariantList", a>>) = j
      BY <1>6, <3>1 DEF Coding!DecodeScalar, Coding!Fits, Coding!EncodePlain
    <3> QED BY <1>6, <3>2, AcceptedIs, HeldAre
  <2>2. CASE j[1] # "array"
    <3>1. r = Coding!Error(0, TRUE) /\ ~ Coding!Fits(t, j)
      BY <1>6, <2>2 DEF Coding!DecodeScalar, Coding!Fits
    <3> QED BY <3>1, RefusedIs
  <2> QED BY <2>1, <2>2
<1>7. CASE t = "VariantMap"
  <2>1. CASE j[1] = "object"
    <3>1. j = <<"object", "o">>
      BY <2>1, InFileIs
    <3>2. /\ r = Coding!Accepted(<<"VariantMap", "o">>) /\ Coding!Fits(t, j)
          /\ Coding!EncodePlain(<<"VariantMap", "o">>) = j
      BY <1>7, <3>1 DEF Coding!DecodeScalar, Coding!Fits, Coding!EncodePlain
    <3> QED BY <1>7, <3>2, AcceptedIs, HeldAre
  <2>2. CASE j[1] # "object"
    <3>1. r = Coding!Error(0, TRUE) /\ ~ Coding!Fits(t, j)
      BY <1>7, <2>2 DEF Coding!DecodeScalar, Coding!Fits
    <3> QED BY <3>1, RefusedIs
  <2> QED BY <2>1, <2>2
<1> QED BY <1>1, <1>2, <1>3, <1>4, <1>5, <1>6, <1>7

(* The elements of the lists there are.                                    *)
KindOf(t) == IF t = "StringList" THEN "string" ELSE "number"
ElementOf(t) == IF t = "StringList" THEN "String" ELSE "Real"
Elements(t) == IF t = "StringList" THEN Words ELSE Int

(* What decode answers for an element of a list.                           *)
LEMMA ElementDecoded ==
  ASSUME NEW t \in {"StringList", "RealList"}, NEW x \in InFile
  PROVE  LET r == Coding!DecodeScalar(ElementOf(t), x)
         IN  /\ r.ok \in BOOLEAN /\ r.depth = 0
             /\ r.ok <=> x[1] = KindOf(t)
             /\ r.ok => x = <<KindOf(t), r.value[2]>> /\ r.value[2] \in Elements(t)
<1> DEFINE r == Coding!DecodeScalar(ElementOf(t), x)
<1>1. CASE t = "StringList"
  <2>1. ElementOf(t) = "String" /\ KindOf(t) = "string" /\ Elements(t) = Words
    BY <1>1 DEF ElementOf, KindOf, Elements
  <2>2. CASE x[1] = "string"
    <3>1. PICK s \in Words : x = <<"string", s>>
      BY <2>2, InFileIs
    <3>2. r = Coding!Accepted(<<"String", s>>)
      BY <2>1, <3>1 DEF Coding!DecodeScalar
    <3>3. r.ok = TRUE /\ r.depth = 0 /\ r.value = <<"String", s>>
      BY <3>2 DEF Coding!Accepted
    <3> HIDE DEF r
    <3>4. r.value[2] = s
      BY <3>3
    <3>5. r.ok \in BOOLEAN /\ r.depth = 0 /\ (r.ok <=> x[1] = KindOf(t))
      BY <2>1, <2>2, <3>3
    <3>6. r.ok => x = <<KindOf(t), r.value[2]>> /\ r.value[2] \in Elements(t)
      BY <2>1, <3>1, <3>4
    <3> QED BY <3>5, <3>6 DEF r
  <2>3. CASE x[1] # "string"
    <3>1. r = Coding!Error(0, TRUE)
      BY <2>1, <2>3 DEF Coding!DecodeScalar
    <3>2. r.ok = FALSE /\ r.depth = 0
      BY <3>1 DEF Coding!Error
    <3> QED BY <2>1, <2>3, <3>2
  <2> QED BY <2>2, <2>3
<1>2. CASE t = "RealList"
  <2>1. ElementOf(t) = "Real" /\ KindOf(t) = "number" /\ Elements(t) = Int
    BY <1>2 DEF ElementOf, KindOf, Elements
  <2>2. CASE x[1] = "number"
    <3>1. PICK n \in Int : x = <<"number", n>>
      BY <2>2, InFileIs
    <3>2. r = Coding!Accepted(<<"Real", n>>)
      BY <2>1, <3>1 DEF Coding!DecodeScalar
    <3>3. r.ok = TRUE /\ r.depth = 0 /\ r.value = <<"Real", n>>
      BY <3>2 DEF Coding!Accepted
    <3> HIDE DEF r
    <3>4. r.value[2] = n
      BY <3>3
    <3>5. r.ok \in BOOLEAN /\ r.depth = 0 /\ (r.ok <=> x[1] = KindOf(t))
      BY <2>1, <2>2, <3>3
    <3>6. r.ok => x = <<KindOf(t), r.value[2]>> /\ r.value[2] \in Elements(t)
      BY <2>1, <3>1, <3>4
    <3> QED BY <3>5, <3>6 DEF r
  <2>3. CASE x[1] # "number"
    <3>1. r = Coding!Error(0, TRUE)
      BY <2>1, <2>3 DEF Coding!DecodeScalar
    <3>2. r.ok = FALSE /\ r.depth = 0
      BY <3>1 DEF Coding!Error
    <3> QED BY <2>1, <2>3, <3>2
  <2> QED BY <2>2, <2>3
<1> QED BY <1>1, <1>2

(* One bad element rejects a list, whatever is wrong with it.              *)
LEMMA ListDecoded ==
  ASSUME NEW j \in InFile, NEW t \in {"StringList", "RealList"}
  PROVE  Understood(t, j, Coding!DecodePlain(t, j))
<1>1. Coding!DecodePlain(t, j) = Coding!DecodeList(t, ElementOf(t), j)
  BY DEF Coding!DecodePlain, ElementOf
<1>2. Coding!Fits(t, j) <=> j[1] = "array" /\ \A i \in DOMAIN j[2] : j[2][i][1] = KindOf(t)
  BY DEF Coding!Fits, KindOf
<1>3. CASE j[1] # "array"
  <2>1. Coding!DecodeList(t, ElementOf(t), j) = Coding!Error(0, TRUE)
    BY <1>3 DEF Coding!DecodeList
  <2> QED BY <1>1, <1>2, <1>3, <2>1, RefusedIs
<1>4. CASE j[1] = "array"
  <2>1. PICK a \in Seq(Plain) : j = <<"array", a>>
    BY <1>4, InFileIs
  <2> DEFINE results == [i \in DOMAIN a |-> Coding!DecodeScalar(ElementOf(t), a[i])]
             bad == {i \in DOMAIN results : ~ results[i].ok}
             w == [i \in DOMAIN results |-> results[i].value[2]]
  <2>2. DOMAIN a = 1 .. Len(a) /\ Len(a) \in Nat /\ \A i \in DOMAIN a : a[i] \in Plain
    OBVIOUS
  <2>3. Coding!DecodeList(t, ElementOf(t), j) =
          IF bad = {} THEN Coding!Accepted(<<t, w>>)
          ELSE Coding!Error(results[Coding!First(bad)].depth + 1, results[Coding!First(bad)].mismatch)
    BY <1>4, <2>1 DEF Coding!DecodeList
  <2>4. \A i \in DOMAIN a : a[i] \in InFile
    BY <2>2 DEF InFile
  <2>5. DOMAIN results = DOMAIN a /\ \A i \in DOMAIN a : results[i] = Coding!DecodeScalar(ElementOf(t), a[i])
    OBVIOUS
  <2> HIDE DEF results
  <2>6. \A i \in DOMAIN a : /\ results[i].ok \in BOOLEAN /\ results[i].depth = 0
                            /\ results[i].ok <=> a[i][1] = KindOf(t)
                            /\ results[i].ok => /\ a[i] = <<KindOf(t), results[i].value[2]>>
                                                /\ results[i].value[2] \in Elements(t)
    BY <2>4, <2>5, ElementDecoded
  <2>7. bad = {} <=> Coding!Fits(t, j)
    BY <1>2, <1>4, <2>1, <2>5, <2>6
  <2>8. CASE bad # {}
    <3>1. bad \in SUBSET Nat
      BY <2>2, <2>5
    <3>2. bad \subseteq DOMAIN a
      BY <2>5
    <3> HIDE DEF bad
    <3>3. Coding!First(bad) \in DOMAIN a
      BY <2>8, <3>1, <3>2, FirstIs
    <3>4. results[Coding!First(bad)].depth = 0
      BY <2>6, <3>3
    <3>5. Coding!DecodeList(t, ElementOf(t), j) = Coding!Error(1, results[Coding!First(bad)].mismatch)
      BY <2>3, <2>8, <3>4
    <3> QED BY <1>1, <2>7, <2>8, <3>5, RefusedIs
  <2>9. CASE bad = {}
    <3>1. \A i \in DOMAIN a : results[i].ok
      BY <2>5, <2>9
    <3>2. Coding!DecodeList(t, ElementOf(t), j) = Coding!Accepted(<<t, w>>)
      BY <2>3, <2>9
    <3>3. \A i \in DOMAIN a : a[i] = <<KindOf(t), w[i]>> /\ w[i] \in Elements(t)
      BY <2>5, <2>6, <3>1
    <3>4. w = [i \in 1 .. Len(a) |-> w[i]]
      BY <2>2, <2>5
    <3>5. DOMAIN w = DOMAIN a
      BY <2>5
    <3> HIDE DEF w, bad
    <3>6. w \in [1 .. Len(a) -> Elements(t)]
      BY <2>2, <3>3, <3>4
    <3>7. w \in Seq(Elements(t))
      BY <2>2, <3>6
    <3>8. \A i \in 1 .. Len(a) : a[i] = [k \in 1 .. Len(a) |-> <<KindOf(t), w[k]>>][i]
      BY <2>2, <3>3
    <3>9. a = [k \in 1 .. Len(a) |-> <<KindOf(t), w[k]>>]
      <4>1. a = [i \in 1 .. Len(a) |-> a[i]]
        BY <2>2
      <4> QED BY <3>8, <4>1
    <3>10. <<t, w>> \in Held /\ <<t, w>>[1] = t
      BY <3>7, HeldAre DEF Elements
    <3>11. Coding!EncodePlain(<<t, w>>) = <<"array", [k \in DOMAIN w |-> <<KindOf(t), w[k]>>]>>
      <4>1. CASE t = "StringList"
        BY <4>1 DEF Coding!EncodePlain, KindOf
      <4>2. CASE t = "RealList"
        BY <4>2 DEF Coding!EncodePlain, KindOf
      <4> QED BY <4>1, <4>2
    <3>12. Coding!EncodePlain(<<t, w>>) = j
      BY <2>1, <2>2, <3>5, <3>9, <3>11
    <3> QED BY <1>1, <2>7, <2>9, <3>2, <3>10, <3>12, AcceptedIs
  <2> QED BY <2>8, <2>9
<1> QED BY <1>3, <1>4

(* Every plain codec answers as it should.                                 *)
LEMMA PlainDecoded ==
  ASSUME NEW t \in Coding!Base, NEW j \in InFile
  PROVE  Understood(t, j, Coding!DecodePlain(t, j))
<1>1. CASE t \in {"StringList", "RealList"}
  BY <1>1, ListDecoded
<1>2. CASE t \in {"Bool", "Int", "Real", "String", "Enum", "VariantList", "VariantMap"}
  <2>1. Coding!DecodePlain(t, j) = Coding!DecodeScalar(t, j)
    BY <1>2 DEF Coding!DecodePlain
  <2> QED BY <1>2, <2>1, ScalarDecoded
<1> QED BY <1>1, <1>2 DEF Coding!Base

(* What a value is written as is of its type, and is read back as it was.  *)
LEMMA PlainEncoded ==
  ASSUME NEW v \in Held
  PROVE  /\ v[1] \in Coding!Base /\ v # Coding!Unset
         /\ Coding!EncodePlain(v) \in InFile
         /\ Coding!Fits(v[1], Coding!EncodePlain(v))
         /\ Coding!DecodePlain(v[1], Coding!EncodePlain(v)).value = v
<1> DEFINE j == Coding!EncodePlain(v)
           Goal == /\ v[1] \in Coding!Base /\ v # Coding!Unset
                   /\ j \in InFile /\ Coding!Fits(v[1], j)
                   /\ Coding!DecodePlain(v[1], j).value = v
<1>0. /\ \A t \in {"Bool", "Int", "Real", "String", "Enum", "VariantList", "VariantMap"} :
            Coding!DecodePlain(t, j) = Coding!DecodeScalar(t, j)
      /\ j = Coding!EncodePlain(v) /\ Coding!Accepted(v).value = v
  BY DEF Coding!DecodePlain, Coding!Accepted
<1> HIDE DEF j
<1>1. CASE v \in {<<"Bool", b>> : b \in BOOLEAN}
  <2>1. PICK b \in BOOLEAN : v = <<"Bool", b>>
    BY <1>1
  <2>2. j = <<"bool", b>>
    BY <1>0, <2>1 DEF Coding!EncodePlain
  <2>3. j \in InFile
    BY <2>2 DEF InFile, Plain
  <2>4. Coding!Fits("Bool", j)
    BY <2>1, <2>2 DEF Coding!Fits
  <2>5. Coding!DecodeScalar("Bool", j) = Coding!Accepted(v)
    BY <2>1, <2>2 DEF Coding!DecodeScalar
  <2> QED BY <1>0, <2>1, <2>3, <2>4, <2>5 DEF Coding!Base, Coding!Unset
<1>2. CASE v \in {<<"Int", n>> : n \in Ints}
  <2>1. PICK n \in Ints : v = <<"Int", n>>
    BY <1>2
  <2>2. IntMax \in Nat /\ n \in Int /\ -IntMax - 1 <= n /\ n <= IntMax
    BY CodecsAssumption DEF Ints
  <2>3. j = <<"number", 2 * n>>
    BY <1>0, <2>1 DEF Coding!EncodePlain
  <2>4. j \in InFile
    BY <2>2, <2>3 DEF InFile, Plain
  <2>5. Coding!Fits("Int", j)
    BY <2>2, <2>3 DEF Coding!Fits
  <2>6. (2 * n) % 2 = 0 /\ (2 * n) \div 2 = n
    BY <2>2, Halved
  <2>7. Coding!DecodeScalar("Int", j) = Coding!Accepted(v)
    <3>1. j[1] = "number" /\ j[2] = 2 * n
      BY <2>3
    <3>2. j[2] % 2 = 0 /\ j[2] \div 2 = n /\ ~ (j[2] < -2 * IntMax - 2) /\ ~ (j[2] > 2 * IntMax)
      BY <2>2, <2>6, <3>1
    <3>3. Coding!DecodeScalar("Int", j) = Coding!Accepted(<<"Int", j[2] \div 2>>)
      BY <3>1, <3>2 DEF Coding!DecodeScalar
    <3> QED BY <2>1, <3>2, <3>3
  <2> QED BY <1>0, <2>1, <2>4, <2>5, <2>7 DEF Coding!Base, Coding!Unset
<1>3. CASE v \in {<<"Real", n>> : n \in Int}
  <2>1. PICK n \in Int : v = <<"Real", n>>
    BY <1>3
  <2>2. j = <<"number", n>>
    BY <1>0, <2>1 DEF Coding!EncodePlain
  <2>3. j \in InFile
    BY <2>2 DEF InFile, Plain
  <2>4. Coding!Fits("Real", j)
    BY <2>1, <2>2 DEF Coding!Fits
  <2>5. Coding!DecodeScalar("Real", j) = Coding!Accepted(v)
    BY <2>1, <2>2 DEF Coding!DecodeScalar
  <2> QED BY <1>0, <2>1, <2>3, <2>4, <2>5 DEF Coding!Base, Coding!Unset
<1>4. CASE v \in {<<"String", s>> : s \in Words}
  <2>1. PICK s \in Words : v = <<"String", s>>
    BY <1>4
  <2>2. j = <<"string", s>>
    BY <1>0, <2>1 DEF Coding!EncodePlain
  <2>3. j \in InFile
    BY <2>2 DEF InFile, Plain
  <2>4. Coding!Fits("String", j)
    BY <2>1, <2>2 DEF Coding!Fits
  <2>5. Coding!DecodeScalar("String", j) = Coding!Accepted(v)
    BY <2>1, <2>2 DEF Coding!DecodeScalar
  <2> QED BY <1>0, <2>1, <2>3, <2>4, <2>5 DEF Coding!Base, Coding!Unset
<1>5. CASE v \in {<<"Enum", EnumKeys[s]>> : s \in DOMAIN EnumKeys}
  <2>1. PICK s \in DOMAIN EnumKeys : v = <<"Enum", EnumKeys[s]>>
    BY <1>5
  <2>2. EnumKeys[s] \in DOMAIN EnumKeys /\ EnumKeys[EnumKeys[s]] = EnumKeys[s]
    BY CodecsAssumption
  <2>3. j = <<"string", EnumKeys[s]>>
    BY <1>0, <2>1 DEF Coding!EncodePlain
  <2>4. j \in InFile
    BY <2>2, <2>3 DEF InFile, Plain, Words
  <2>5. Coding!Fits("Enum", j)
    BY <2>1, <2>2, <2>3 DEF Coding!Fits
  <2>6. Coding!DecodeScalar("Enum", j) = Coding!Accepted(v)
    BY <2>1, <2>2, <2>3 DEF Coding!DecodeScalar
  <2> QED BY <1>0, <2>1, <2>4, <2>5, <2>6 DEF Coding!Base, Coding!Unset
<1>6. CASE v \in {<<"VariantList", a>> : a \in Seq(Plain)}
  <2>1. PICK a \in Seq(Plain) : v = <<"VariantList", a>>
    BY <1>6
  <2>2. j = <<"array", a>>
    BY <1>0, <2>1 DEF Coding!EncodePlain
  <2>3. j \in InFile
    BY <2>2 DEF InFile
  <2>4. Coding!Fits("VariantList", j)
    BY <2>1, <2>2 DEF Coding!Fits
  <2>5. Coding!DecodeScalar("VariantList", j) = Coding!Accepted(v)
    BY <2>1, <2>2 DEF Coding!DecodeScalar
  <2> QED BY <1>0, <2>1, <2>3, <2>4, <2>5 DEF Coding!Base, Coding!Unset
<1>7. CASE v = <<"VariantMap", "o">>
  <2>2. j = <<"object", "o">>
    BY <1>0, <1>7 DEF Coding!EncodePlain
  <2>3. j \in InFile
    BY <2>2 DEF InFile, Plain
  <2>4. Coding!Fits("VariantMap", j)
    BY <1>7, <2>2 DEF Coding!Fits
  <2>5. Coding!DecodeScalar("VariantMap", j) = Coding!Accepted(v)
    BY <1>7, <2>2 DEF Coding!DecodeScalar
  <2> QED BY <1>0, <1>7, <2>3, <2>4, <2>5 DEF Coding!Base, Coding!Unset
<1>8. ASSUME NEW t \in {"StringList", "RealList"}, NEW w \in Seq(Elements(t)), v = <<t, w>>
      PROVE  Goal
  <2> DEFINE a == [i \in DOMAIN w |-> <<KindOf(t), w[i]>>]
             results == [i \in DOMAIN a |-> Coding!DecodeScalar(ElementOf(t), a[i])]
             bad == {i \in DOMAIN results : ~ results[i].ok}
             back == [i \in DOMAIN results |-> results[i].value[2]]
  <2>1. j = <<"array", a>>
    <3>1. CASE t = "StringList"
      BY <1>0, <1>8, <3>1 DEF Coding!EncodePlain, KindOf
    <3>2. CASE t = "RealList"
      BY <1>0, <1>8, <3>2 DEF Coding!EncodePlain, KindOf
    <3> QED BY <3>1, <3>2
  <2>2. /\ DOMAIN w = 1 .. Len(w) /\ Len(w) \in Nat
        /\ \A i \in DOMAIN w : w[i] \in Elements(t)
    OBVIOUS
  <2>3. DOMAIN a = DOMAIN w /\ \A i \in DOMAIN w : a[i] = <<KindOf(t), w[i]>>
    OBVIOUS
  <2>4. \A i \in DOMAIN w : a[i] \in Plain
    BY <2>2, <2>3 DEF Plain, KindOf, Elements
  <2>5. a \in Seq(Plain)
    <3>1. a \in [1 .. Len(w) -> Plain]
      BY <2>2, <2>3, <2>4
    <3> QED BY <2>2, <3>1
  <2>6. Coding!DecodePlain(t, j) =
          IF bad = {} THEN Coding!Accepted(<<t, back>>)
          ELSE Coding!Error(results[Coding!First(bad)].depth + 1, results[Coding!First(bad)].mismatch)
    <3> HIDE DEF a
    <3>1. Coding!DecodePlain(t, j) = Coding!DecodeList(t, ElementOf(t), j)
      BY DEF Coding!DecodePlain, ElementOf
    <3>2. j[1] = "array" /\ j[2] = a
      BY <2>1
    <3> QED BY <3>1, <3>2 DEF Coding!DecodeList
  <2> HIDE DEF a
  <2>7. /\ DOMAIN results = DOMAIN w
        /\ \A i \in DOMAIN w : results[i] = Coding!DecodeScalar(ElementOf(t), a[i])
    BY <2>3
  <2> HIDE DEF results
  <2>8. ASSUME NEW i \in DOMAIN w PROVE results[i].ok /\ results[i].value[2] = w[i]
    <3>1. a[i] \in InFile /\ a[i][1] = KindOf(t) /\ a[i][2] = w[i]
      BY <2>3, <2>4 DEF InFile
    <3>2. results[i].ok /\ a[i] = <<KindOf(t), results[i].value[2]>>
      BY <2>7, <3>1, ElementDecoded
    <3> QED BY <3>1, <3>2
  <2>9. bad = {}
    BY <2>7, <2>8
  <2>10. back = w
    <3>1. back = [i \in DOMAIN w |-> w[i]]
      BY <2>7, <2>8
    <3>2. w = [i \in DOMAIN w |-> w[i]]
      OBVIOUS
    <3> QED BY <3>1, <3>2
  <2>11. Coding!DecodePlain(t, j) = Coding!Accepted(v)
    BY <1>8, <2>6, <2>9, <2>10
  <2>12. Coding!Fits(t, j)
    <3>1. \A i \in DOMAIN a : a[i][1] = KindOf(t)
      BY <2>3
    <3>2. j[1] = "array" /\ j[2] = a
      BY <2>1
    <3> QED BY <3>1, <3>2 DEF Coding!Fits, KindOf
  <2>13. j \in InFile
    BY <2>1, <2>5 DEF InFile
  <2>14. v[1] = t /\ t \in Coding!Base /\ v # Coding!Unset
    BY <1>8 DEF Coding!Base, Coding!Unset
  <2> HIDE DEF bad, back
  <2> QED BY <1>0, <2>11, <2>12, <2>13, <2>14
<1>9. CASE v \in {<<"StringList", a>> : a \in Seq(Words)}
  <2>1. PICK w \in Seq(Words) : v = <<"StringList", w>>
    BY <1>9
  <2>2. w \in Seq(Elements("StringList"))
    BY DEF Elements
  <2> QED BY <1>0, <1>8, <2>1, <2>2
<1>10. CASE v \in {<<"RealList", a>> : a \in Seq(Int)}
  <2>1. PICK w \in Seq(Int) : v = <<"RealList", w>>
    BY <1>10
  <2>2. w \in Seq(Elements("RealList"))
    BY DEF Elements
  <2> QED BY <1>0, <1>8, <2>1, <2>2
<1> QED BY <1>1, <1>2, <1>3, <1>4, <1>5, <1>6, <1>7, <1>9, <1>10 DEF Held

(* The alternatives of an option, in their order.                          *)
LEMMA AlternativesAre ==
  ASSUME NEW t \in Coding!Types
  PROVE  /\ DOMAIN t \subseteq Nat /\ \A i \in DOMAIN t : t[i] \in Coding!Base
<1>1. PICK n \in 1 .. MaxUnion : t \in [1 .. n -> Coding!Base]
  BY DEF Coding!Types
<1> QED BY <1>1

(* The first type that fits decides; if none does, there is no value.      *)
LEMMA UnionDecoded ==
  ASSUME NEW t \in Coding!Types, NEW j \in InFile
  PROVE  LET r == Coding!Decode(t, j)
             fit == {i \in DOMAIN t : Coding!Fits(t[i], j)}
         IN  /\ r.ok \in BOOLEAN /\ (r.ok <=> fit # {})
             /\ ~ r.ok => r.value = Coding!Unset
             /\ r.ok => \E k \in fit : /\ \A i \in fit : k <= i
                                       /\ r = Coding!DecodePlain(t[k], j)
<1> DEFINE results == [i \in DOMAIN t |-> Coding!DecodePlain(t[i], j)]
           accept == {i \in DOMAIN t : results[i].ok}
           errors == {i \in DOMAIN t : ~(results[i].depth = 0 /\ results[i].mismatch)}
           deepest == {i \in errors : \A k \in errors : results[i].depth >= results[k].depth}
           fit == {i \in DOMAIN t : Coding!Fits(t[i], j)}
           r == Coding!Decode(t, j)
<1>1. DOMAIN t \subseteq Nat /\ \A i \in DOMAIN t : t[i] \in Coding!Base
  BY AlternativesAre
<1>2. r = IF accept # {} THEN results[Coding!First(accept)]
          ELSE IF errors # {} THEN results[Coding!First(deepest)]
          ELSE Coding!Error(0, TRUE)
  BY DEF Coding!Decode
<1>3. \A i \in DOMAIN t : results[i] = Coding!DecodePlain(t[i], j)
  OBVIOUS
<1> HIDE DEF results, r
<1>4. \A i \in DOMAIN t : /\ results[i].ok \in BOOLEAN /\ results[i].depth \in {0, 1}
                          /\ results[i].ok <=> Coding!Fits(t[i], j)
  BY <1>1, <1>3, PlainDecoded DEF Understood
<1>5. accept = fit
  BY <1>4
<1>6. \A i \in DOMAIN t : ~ results[i].ok => results[i].value = Coding!Unset
  BY <1>1, <1>3, PlainDecoded DEF Understood
<1>7. CASE accept # {}
  <2>1. accept \in SUBSET Nat
    BY <1>1
  <2> HIDE DEF fit
  <2>2. Coding!First(accept) \in accept /\ \A i \in accept : Coding!First(accept) <= i
    BY <1>7, <2>1, FirstIs
  <2>3. r = results[Coding!First(accept)]
    BY <1>2, <1>7
  <2>4. r.ok
    BY <2>2, <2>3
  <2>5. r = Coding!DecodePlain(t[Coding!First(accept)], j)
    BY <1>3, <2>2, <2>3
  <2>6. r.ok \in BOOLEAN
    BY <1>4, <2>2, <2>3
  <2> HIDE DEF accept
  <2>7. fit # {} /\ Coding!First(accept) \in fit /\ \A i \in fit : Coding!First(accept) <= i
    BY <1>5, <1>7, <2>2
  <2> QED BY <2>4, <2>5, <2>6, <2>7 DEF r, fit
<1>8. CASE accept = {} /\ errors # {}
  <2>1. deepest # {}
    <3>1. errors \subseteq DOMAIN t
      OBVIOUS
    <3>2. CASE \E i \in errors : results[i].depth = 1
      <4>1. PICK i \in errors : results[i].depth = 1
        BY <3>2
      <4>2. \A k \in errors : results[i].depth >= results[k].depth
        BY <1>4, <3>1, <4>1
      <4> QED BY <4>1, <4>2
    <3>3. CASE \A i \in errors : results[i].depth # 1
      <4>1. \A i \in errors : results[i].depth = 0
        BY <1>4, <3>1, <3>3
      <4>2. PICK i \in errors : TRUE
        BY <1>8
      <4> QED BY <4>1, <4>2
    <3> QED BY <3>2, <3>3
  <2>2. deepest \in SUBSET Nat /\ deepest \subseteq DOMAIN t
    BY <1>1
  <2>3. r = results[Coding!First(deepest)]
    BY <1>2, <1>8
  <2>4. \A i \in DOMAIN t : ~ results[i].ok
    BY <1>8
  <2> HIDE DEF deepest, accept, fit
  <2>5. Coding!First(deepest) \in DOMAIN t
    BY <2>1, <2>2, FirstIs
  <2>6. r.ok = FALSE /\ r.value = Coding!Unset
    BY <1>4, <1>6, <2>3, <2>4, <2>5
  <2> QED BY <1>5, <1>8, <2>6 DEF r, fit
<1>9. CASE accept = {} /\ errors = {}
  <2>1. r.ok = FALSE /\ r.value = Coding!Unset
    BY <1>2, <1>9 DEF Coding!Error
  <2> HIDE DEF accept, fit
  <2> QED BY <1>5, <1>9, <2>1 DEF r, fit
<1> QED BY <1>7, <1>8, <1>9

(* What is read of a file is a value of one of the types.                  *)
LEMMA ReadIsHeld ==
  ASSUME NEW t \in Coding!Types, NEW j \in InFile
  PROVE  LET v == Coding!Decode(t, j).value
         IN  v = Coding!Unset \/ (v \in Held /\ \E i \in DOMAIN t : v[1] = t[i])
<1> DEFINE r == Coding!Decode(t, j)
<1>1. CASE ~ r.ok
  BY <1>1, UnionDecoded
<1>2. CASE r.ok
  <2>1. PICK k \in DOMAIN t : r = Coding!DecodePlain(t[k], j)
    BY <1>2, UnionDecoded
  <2>2. t[k] \in Coding!Base
    BY AlternativesAre
  <2>3. r.value \in Held /\ r.value[1] = t[k]
    BY <1>2, <2>1, <2>2, PlainDecoded DEF Understood
  <2> QED BY <2>3
<1> QED BY <1>1, <1>2

(* What stands in a file at first, and what QML can write.                 *)
LEMMA FilesAndWrites == Coding!Json \subseteq InFile /\ Coding!Values \subseteq Held \cup {Coding!Unset}
<1>1. FileNumbers \subseteq Int /\ Texts \subseteq Words
  BY CodecsAssumption DEF Words
<1>2. Coding!Scalars \subseteq Plain
  BY <1>1 DEF Coding!Scalars, Plain
<1>3. ASSUME NEW j \in Coding!Json PROVE j \in InFile
  <2>1. CASE j \in Coding!Scalars
    BY <1>2, <2>1 DEF InFile
  <2>2. CASE j \in {<<"array", a>> : a \in UNION {[1 .. n -> Coding!Scalars] : n \in 0 .. 2}}
    <3>0. PICK n \in 0 .. 2 : \E a \in [1 .. n -> Coding!Scalars] : j = <<"array", a>>
      BY <2>2
    <3>1. PICK a \in [1 .. n -> Coding!Scalars] : j = <<"array", a>>
      BY <3>0
    <3>2. a \in [1 .. n -> Plain]
      BY <1>2
    <3>3. a \in Seq(Plain)
      BY <3>2
    <3> QED BY <3>1, <3>3 DEF InFile
  <2> QED BY <2>1, <2>2 DEF Coding!Json
<1>4. ASSUME NEW v \in Coding!Values PROVE v \in Held \cup {Coding!Unset}
  <2>1. CASE v \in {<<"StringList", <<s>>>> : s \in Texts}
    <3>1. PICK s \in Texts : v = <<"StringList", <<s>>>>
      BY <2>1
    <3>2. <<s>> \in Seq(Words)
      BY <1>1
    <3> QED BY <3>1, <3>2, HeldAre
  <2>2. CASE v \in {<<"RealList", <<n>>>> : n \in FileNumbers}
    <3>1. PICK n \in FileNumbers : v = <<"RealList", <<n>>>>
      BY <2>2
    <3>2. <<n>> \in Seq(Int)
      BY <1>1
    <3> QED BY <3>1, <3>2, HeldAre
  <2>3. CASE v \in {<<"Real", n>> : n \in FileNumbers}
    BY <1>1, <2>3, HeldAre
  <2>4. CASE v \in {<<"String", s>> : s \in Texts}
    BY <1>1, <2>4, HeldAre
  <2>5. CASE v \in {<<"Bool", b>> : b \in BOOLEAN}
    BY <2>5, HeldAre
  <2>6. CASE v \in {<<"Int", n>> : n \in -IntMax - 1 .. IntMax}
    BY <2>6, HeldAre DEF Ints
  <2>7. CASE v \in {<<"Enum", EnumKeys[s]>> : s \in DOMAIN EnumKeys}
    BY <2>7, HeldAre
  <2> QED BY <2>1, <2>2, <2>3, <2>4, <2>5, <2>6, <2>7 DEF Coding!Values
<1> QED BY <1>3, <1>4

(* The shell starts, or starts again, with what is in the file.            *)
LEMMA ReadKeeps ==
  ASSUME NEW t \in Coding!Types, NEW j \in InFile \cup {<<"undefined">>}, NEW v,
         v = IF j = <<"undefined">> THEN Coding!Unset ELSE Coding!Decode(t, j).value
  PROVE  v = Coding!Unset \/ (v \in Held /\ \E i \in DOMAIN t : v[1] = t[i])
<1>1. CASE j = <<"undefined">>
  BY <1>1
<1>2. CASE j # <<"undefined">>
  BY <1>2, ReadIsHeld
<1> QED BY <1>1, <1>2

(* What the shell starts with was read of the file.                        *)
LEMMA CodecInit == Coding!Init => CodecInv
<1> SUFFICES ASSUME Coding!Init PROVE CodecInv
  OBVIOUS
<1>1. /\ codType \in Coding!Types /\ codFile \in InFile \cup {<<"undefined">>}
      /\ codValue = IF codFile = <<"undefined">> THEN Coding!Unset ELSE Coding!Decode(codType, codFile).value
  BY FilesAndWrites DEF Coding!Init
<1>2. codValue = Coding!Unset \/ (codValue \in Held /\ \E i \in DOMAIN codType : codValue[1] = codType[i])
  BY <1>1, ReadKeeps
<1> QED BY <1>1, <1>2 DEF CodecInv

(* Every step of the codecs keeps the invariant.                           *)
LEMMA CodecStep == CodecInv /\ [Coding!Next]_Coding!vars => CodecInv'
<1> SUFFICES ASSUME CodecInv, [Coding!Next]_Coding!vars PROVE CodecInv'
  OBVIOUS
<1>1. /\ codType \in Coding!Types /\ codFile \in InFile \cup {<<"undefined">>}
      /\ codValue = Coding!Unset \/ (codValue \in Held /\ \E i \in DOMAIN codType : codValue[1] = codType[i])
  BY DEF CodecInv
<1>2. ASSUME NEW v \in Coding!Values, Coding!Write(v) PROVE CodecInv'
  <2>1. /\ codValue' = v /\ codType' = codType /\ codFile' = Coding!Encode(codType, v)
        /\ v = Coding!Unset \/ \E i \in DOMAIN codType : v[1] = codType[i]
    BY <1>2 DEF Coding!Write, Coding!Accepts
  <2>2. CASE v = Coding!Unset
    <3>1. codFile' = <<"undefined">>
      BY <2>1, <2>2 DEF Coding!Encode
    <3> QED BY <1>1, <2>1, <2>2, <3>1 DEF CodecInv
  <2>3. CASE v # Coding!Unset
    <3>1. v \in Held
      BY <2>3, FilesAndWrites
    <3>2. codFile' \in InFile
      BY <2>1, <2>3, <3>1, PlainEncoded DEF Coding!Encode
    <3> QED BY <1>1, <2>1, <2>3, <3>1, <3>2 DEF CodecInv
  <2> QED BY <2>2, <2>3
<1>3. CASE Coding!Restart
  <2>1. /\ codType' = codType /\ codFile' = codFile
        /\ codValue' = IF codFile = <<"undefined">> THEN Coding!Unset ELSE Coding!Decode(codType, codFile).value
    BY <1>3 DEF Coding!Restart
  <2>2. codValue' = Coding!Unset \/ (codValue' \in Held /\ \E i \in DOMAIN codType : codValue'[1] = codType[i])
    BY <1>1, <2>1, ReadKeeps
  <2> QED BY <1>1, <2>1, <2>2 DEF CodecInv
<1>4. CASE UNCHANGED Coding!vars
  BY <1>1, <1>4 DEF Coding!vars, CodecInv
<1> QED BY <1>2, <1>3, <1>4 DEF Coding!Next

(* The invariant has what the property says: values and files of the       *)
(* declared kinds agree, whichever alternative reads them.                 *)
LEMMA CodecsDoAgree == CodecInv => Coding!CodecsAgree
<1> SUFFICES ASSUME CodecInv, codFile # <<"undefined">> PROVE
      \E result \in {Coding!Decode(codType, codFile)},
         fit \in {{i \in DOMAIN codType : Coding!Fits(codType[i], codFile)}} :
         /\ result.ok <=> fit # {}
         /\ result.ok => /\ \A i \in fit : \E k \in fit : k <= i /\ result.value[1] = codType[k]
                         /\ result.value[1] # "Enum" => Coding!Encode(codType, result.value) = codFile
                         /\ Coding!Decode(codType, Coding!Encode(codType, result.value)).ok
         /\ codValue # Coding!Unset /\ Coding!Encode(codType, codValue) = codFile =>
               /\ result.ok
               /\ result.value = codValue
                  \/ \E i, k \in fit : i < k /\ codType[k] = codValue[1] /\ codType[i] = result.value[1]
  BY DEF Coding!CodecsAgree
<1> DEFINE t == codType
           j == codFile
           r == Coding!Decode(t, j)
           fit == {i \in DOMAIN t : Coding!Fits(t[i], j)}
<1>1. /\ t \in Coding!Types /\ j \in InFile
      /\ codValue = Coding!Unset \/ (codValue \in Held /\ \E i \in DOMAIN t : codValue[1] = t[i])
  BY DEF CodecInv
<1>2. DOMAIN t \subseteq Nat /\ \A i \in DOMAIN t : t[i] \in Coding!Base
  BY <1>1, AlternativesAre
<1>3. /\ r.ok \in BOOLEAN /\ (r.ok <=> fit # {})
      /\ r.ok => \E k \in fit : /\ \A i \in fit : k <= i
                                /\ r = Coding!DecodePlain(t[k], j)
  BY <1>1, UnionDecoded
<1>4. fit \subseteq DOMAIN t
  OBVIOUS
<1> HIDE DEF r
<1>5. ASSUME r.ok
      PROVE  /\ \A i \in fit : \E k \in fit : k <= i /\ r.value[1] = t[k]
             /\ r.value[1] # "Enum" => Coding!Encode(t, r.value) = j
             /\ Coding!Decode(t, Coding!Encode(t, r.value)).ok
  <2>1. PICK k \in fit : (\A i \in fit : k <= i) /\ r = Coding!DecodePlain(t[k], j)
    BY <1>3, <1>5
  <2>2. t[k] \in Coding!Base /\ k \in DOMAIN t
    BY <1>2, <1>4
  <2>3. /\ r.value \in Held /\ r.value[1] = t[k]
        /\ t[k] # "Enum" => Coding!EncodePlain(r.value) = j
    BY <1>1, <1>5, <2>1, <2>2, PlainDecoded DEF Understood
  <2>4. Coding!Encode(t, r.value) = Coding!EncodePlain(r.value)
    BY <2>3, PlainEncoded DEF Coding!Encode
  <2>5. Coding!EncodePlain(r.value) \in InFile /\ Coding!Fits(t[k], Coding!EncodePlain(r.value))
    BY <2>3, PlainEncoded
  <2>6. Coding!Decode(t, Coding!EncodePlain(r.value)).ok
    BY <1>1, <2>2, <2>5, UnionDecoded
  <2> HIDE DEF fit
  <2> QED BY <2>1, <2>3, <2>4, <2>6
<1>6. ASSUME codValue # Coding!Unset, Coding!Encode(t, codValue) = j
      PROVE  /\ r.ok
             /\ r.value = codValue
                \/ \E i, k \in fit : i < k /\ t[k] = codValue[1] /\ t[i] = r.value[1]
  <2>1. codValue \in Held
    BY <1>1, <1>6
  <2>2. PICK m \in DOMAIN t : codValue[1] = t[m]
    BY <1>1, <1>6
  <2>3. j = Coding!EncodePlain(codValue)
    BY <1>6 DEF Coding!Encode
  <2>4. Coding!Fits(t[m], j) /\ Coding!DecodePlain(t[m], j).value = codValue
    BY <2>1, <2>2, <2>3, PlainEncoded
  <2>5. m \in fit
    BY <2>4
  <2>6. r.ok
    BY <1>3, <2>5
  <2>7. PICK k \in fit : (\A i \in fit : k <= i) /\ r = Coding!DecodePlain(t[k], j)
    BY <1>3, <2>6
  <2>8. CASE k = m
    BY <2>4, <2>6, <2>7, <2>8
  <2>9. CASE k # m
    <3>1. k < m
      BY <1>2, <1>4, <2>5, <2>7, <2>9
    <3>2. r.value[1] = t[k]
      BY <1>1, <1>2, <1>4, <2>6, <2>7, PlainDecoded DEF Understood
    <3> HIDE DEF fit
    <3> QED BY <2>2, <2>5, <2>6, <2>7, <3>1, <3>2
  <2> QED BY <2>8, <2>9
<1> HIDE DEF fit
<1>7. /\ r.ok <=> fit # {}
      /\ r.ok => /\ \A i \in fit : \E k \in fit : k <= i /\ r.value[1] = codType[k]
                 /\ r.value[1] # "Enum" => Coding!Encode(codType, r.value) = codFile
                 /\ Coding!Decode(codType, Coding!Encode(codType, r.value)).ok
      /\ codValue # Coding!Unset /\ Coding!Encode(codType, codValue) = codFile =>
            /\ r.ok
            /\ r.value = codValue
               \/ \E i, k \in fit : i < k /\ codType[k] = codValue[1] /\ codType[i] = r.value[1]
  BY <1>3, <1>5, <1>6
<1> QED BY <1>7 DEF r, fit

(* Codecs: a file is accepted exactly when one of the types fits it, by    *)
(* the first of them, and is saved as it was read; and what an option holds*)
(* is read back from what is saved of it, for every list of types.         *)
THEOREM ValuesSurviveTheFile == DataSpec => []CodecsAgree
<1>1. CodecInv => CodecsAgree
  BY CodecsDoAgree DEF CodecsAgree
<1> QED BY <1>1, EachKeepsItsSpec, CodecInit, CodecStep, PTL DEF Coding!Spec

-----------------------------------------------------------------------------
(* What holds of 0 and goes over to the next number holds of all.          *)
LEMMA EveryNumber ==
  ASSUME NEW P \in SUBSET Nat, 0 \in P, \A n \in P : n + 1 \in P
  PROVE  P = Nat
<1> SUFFICES ASSUME Nat \ P # {} PROVE FALSE
  OBVIOUS
<1>1. PICK m \in Nat \ P : \A k \in Nat \ P : m <= k
  <2>1. Nat \ P \in SUBSET Nat /\ Nat \ P # {}
    OBVIOUS
  <2> QED BY ONLY <2>1, LeastNumber
<1>2. m # 0 /\ m - 1 \in Nat /\ m - 1 \in P
  BY <1>1
<1>3. (m - 1) + 1 = m
  BY <1>1
<1> QED BY <1>1, <1>2, <1>3

(***************************************************************************)
(* The bars.  Falling off level by level is the same as carrying on from   *)
(* one bar to the next, as a third is taken off the higher of two bars.    *)
(***************************************************************************)
(* Two thirds are not more, and of more they are not less.                 *)
LEMMA CarriedIs ==
  ASSUME NEW a \in Nat
  PROVE  /\ Cava!Carried(a) \in Nat
         /\ Cava!Carried(a) <= a
         /\ \A b \in Nat : a <= b => Cava!Carried(a) <= Cava!Carried(b)
<1>1. \A c \in Nat : (c * 2) \div 3 \in Nat /\ 3 * ((c * 2) \div 3) <= c * 2
                     /\ c * 2 < 3 * ((c * 2) \div 3) + 3
  OBVIOUS
<1>2. \A c \in Nat : Cava!Carried(c) \in Nat /\ 3 * Cava!Carried(c) <= c * 2
                     /\ c * 2 < 3 * Cava!Carried(c) + 3
  BY <1>1 DEF Cava!Carried
<1>3. Cava!Carried(a) \in Nat /\ Cava!Carried(a) <= a
  BY <1>2
<1>4. ASSUME NEW b \in Nat, a <= b PROVE Cava!Carried(a) <= Cava!Carried(b)
  <2>1. /\ Cava!Carried(a) \in Nat /\ 3 * Cava!Carried(a) <= a * 2
        /\ Cava!Carried(b) \in Nat /\ b * 2 < 3 * Cava!Carried(b) + 3
    BY <1>2
  <2> QED BY <1>4, <2>1
<1> QED BY <1>3, <1>4

(* A level that falls off for n bars, from bar to bar.                     *)
Chain(l, n, s) ==
  /\ s \in [0 .. n -> Nat] /\ s[0] = l
  /\ \A k \in 1 .. n : s[k] = Cava!Carried(s[k - 1])

(* A level can fall off for any number of bars,                            *)
LEMMA ChainsExist ==
  ASSUME NEW l \in Nat, NEW n \in Nat
  PROVE  \E s : Chain(l, n, s)
<1> DEFINE P == {m \in Nat : \E s : Chain(l, m, s)}
<1>1. 0 \in P
  <2> DEFINE s == [k \in 0 .. 0 |-> l]
  <2>1. Chain(l, 0, s)
    BY DEF Chain
  <2> QED BY <2>1
<1>2. ASSUME NEW m \in P PROVE m + 1 \in P
  <2>1. PICK s : Chain(l, m, s)
    OBVIOUS
  <2> DEFINE t == [k \in 0 .. m + 1 |-> IF k <= m THEN s[k] ELSE Cava!Carried(s[m])]
  <2>2. Chain(l, m + 1, t)
    <3>1. \A k \in 0 .. m : s[k] \in Nat
      BY <2>1 DEF Chain
    <3>2. Cava!Carried(s[m]) \in Nat
      BY <3>1, CarriedIs
    <3>3. t \in [0 .. m + 1 -> Nat] /\ t[0] = l
      BY <2>1, <3>1, <3>2 DEF Chain
    <3>4. ASSUME NEW k \in 1 .. m + 1 PROVE t[k] = Cava!Carried(t[k - 1])
      <4>1. CASE k <= m
        BY <2>1, <4>1 DEF Chain
      <4>2. CASE k = m + 1
        BY <4>2
      <4> QED BY <4>1, <4>2
    <3> QED BY <3>3, <3>4 DEF Chain
  <2> QED BY <2>2
<1> HIDE DEF P
<1>3. P = Nat
  <2>1. P \in SUBSET Nat
    BY DEF P
  <2> QED BY ONLY <2>1, <1>1, <1>2, EveryNumber
<1> QED BY <1>3 DEF P

(* in one way.                                                             *)
LEMMA ChainsAgree ==
  ASSUME NEW l \in Nat, NEW n \in Nat, NEW m \in 0 .. n,
         NEW s, Chain(l, n, s), NEW t, Chain(l, m, t)
  PROVE  s[m] = t[m]
<1> DEFINE P == {k \in Nat : k <= m => s[k] = t[k]}
<1>1. 0 \in P
  BY DEF Chain
<1>2. ASSUME NEW k \in P PROVE k + 1 \in P
  <2>1. CASE k + 1 <= m
    <3>1. k + 1 \in 1 .. m /\ k + 1 \in 1 .. n /\ (k + 1) - 1 = k /\ k <= m
      BY <2>1
    <3> QED BY <3>1 DEF Chain
  <2> QED BY <2>1
<1> HIDE DEF P
<1>3. P = Nat
  <2>1. P \in SUBSET Nat
    BY DEF P
  <2> QED BY ONLY <2>1, <1>1, <1>2, EveryNumber
<1> QED BY <1>3 DEF P

Fallen(l, n) == CHOOSE s : Chain(l, n, s)
FallingOff == [n \in Nat |-> [l \in Nat |-> Fallen(l, n)[n]]]

(* Where each level has come to after n bars.  Falling off is what FallOff *)
(* says by recursion,                                                      *)
LEMMA FallingOffIs ==
  FallingOff = [n \in Nat |-> [l \in Nat |->
                  IF n = 0 THEN l ELSE Cava!Carried(FallingOff[n - 1][l])]]
<1>1. \A l \in Nat, n \in Nat : Chain(l, n, Fallen(l, n))
  BY ChainsExist, Zenon DEF Fallen
<1>2. ASSUME NEW l \in Nat, NEW n \in Nat
      PROVE  Fallen(l, n)[n] = IF n = 0 THEN l ELSE Cava!Carried(FallingOff[n - 1][l])
  <2> DEFINE s == Fallen(l, n)
             t == Fallen(l, n - 1)
  <2>1. Chain(l, n, s)
    BY <1>1
  <2>2. CASE n = 0
    BY <2>1, <2>2 DEF Chain
  <2>3. CASE n # 0
    <3>1. n - 1 \in Nat /\ n - 1 \in 0 .. n /\ n \in 1 .. n
      BY <2>3
    <3>2. Chain(l, n - 1, t)
      BY <1>1, <3>1
    <3>3. FallingOff[n - 1][l] = t[n - 1]
      BY <3>1 DEF FallingOff
    <3> HIDE DEF s, t
    <3>4. s[n - 1] = t[n - 1]
      BY ONLY <2>1, <3>1, <3>2, ChainsAgree, l \in Nat, n \in Nat
    <3>5. s[n] = Cava!Carried(s[n - 1])
      BY <2>1, <3>1 DEF Chain
    <3> QED BY <2>3, <3>3, <3>4, <3>5 DEF s
  <2> QED BY <2>2, <2>3
<1> QED BY <1>2 DEF FallingOff

(* and so FallOff is what its recursion says.                              *)
LEMMA FallOffIs ==
  /\ \A l \in Nat : Cava!FallOff[0][l] = l
  /\ \A l \in Nat, n \in Nat : Cava!FallOff[n + 1][l] = Cava!Carried(Cava!FallOff[n][l])
<1> DEFINE F == Cava!FallOff
           Fall(f) == [n \in Nat |-> [l \in Nat |->
                         IF n = 0 THEN l ELSE Cava!Carried(f[n - 1][l])]]
<1>1. F = Fall(F)
  <2>1. F = CHOOSE f : f = Fall(f)
    BY DEF Cava!FallOff
  <2>2. \E f : f = Fall(f)
    BY FallingOffIs
  <2> HIDE DEF Fall, F
  <2> QED BY <2>1, <2>2, Zenon
<1> HIDE DEF F
<1>2. ASSUME NEW l \in Nat, NEW n \in Nat
      PROVE  F[n][l] = IF n = 0 THEN l ELSE Cava!Carried(F[n - 1][l])
  <2>1. F[n] = [x \in Nat |-> IF n = 0 THEN x ELSE Cava!Carried(F[n - 1][x])]
    BY <1>1
  <2> QED BY <2>1
<1>3. \A l \in Nat : F[0][l] = l
  BY <1>2
<1>4. ASSUME NEW l \in Nat, NEW n \in Nat PROVE F[n + 1][l] = Cava!Carried(F[n][l])
  <2>1. n + 1 \in Nat /\ n + 1 # 0 /\ (n + 1) - 1 = n
    OBVIOUS
  <2> QED BY <1>2, <2>1
<1> QED BY <1>3, <1>4 DEF F

(* A level stays a level.                                                  *)
LEMMA FallOffType ==
  \A l \in Nat, n \in Nat : Cava!FallOff[n][l] \in Nat
<1> SUFFICES ASSUME NEW l \in Nat PROVE \A n \in Nat : Cava!FallOff[n][l] \in Nat
  OBVIOUS
<1> DEFINE P == {n \in Nat : Cava!FallOff[n][l] \in Nat}
<1>1. 0 \in P
  BY FallOffIs
<1>2. \A n \in P : n + 1 \in P
  <2> SUFFICES ASSUME NEW n \in Nat, Cava!FallOff[n][l] \in Nat
               PROVE  Cava!FallOff[n + 1][l] \in Nat
    OBVIOUS
  <2>1. Cava!FallOff[n + 1][l] = Cava!Carried(Cava!FallOff[n][l])
    BY FallOffIs
  <2> QED BY <2>1, CarriedIs
<1> HIDE DEF P
<1>3. P = Nat
  <2>1. P \in SUBSET Nat
    BY DEF P
  <2> QED BY ONLY <2>1, <1>1, <1>2, EveryNumber
<1> QED BY <1>3 DEF P
(* A pass of the filter from bar 1 on; bar 0 has no height.                *)
Pass(o, h) ==
  h = [i \in 0 .. Len(o) |-> IF i = 0 THEN 0 ELSE Cava!Maxi(o[i], Cava!Carried(h[i - 1]))]

(* There is such a pass of every list of bars.                             *)
LEMMA PassesExist ==
  ASSUME NEW o \in Seq(Nat)
  PROVE  \E h : Pass(o, h)
<1> DEFINE Upto(m, h) == h = [i \in 0 .. m |-> IF i = 0 THEN 0
                                               ELSE Cava!Maxi(o[i], Cava!Carried(h[i - 1]))]
           P == {m \in Nat : \E h : Upto(m, h)}
<1>1. 0 \in P
  <2>1. Upto(0, [i \in 0 .. 0 |-> 0])
    OBVIOUS
  <2> QED BY <2>1
<1>2. ASSUME NEW m \in P PROVE m + 1 \in P
  <2>1. PICK h : Upto(m, h)
    OBVIOUS
  <2> DEFINE g == [i \in 0 .. m + 1 |-> IF i <= m THEN h[i] ELSE Cava!Maxi(o[m + 1], Cava!Carried(h[m]))]
  <2>2. ASSUME NEW i \in 0 .. m + 1
        PROVE  g[i] = IF i = 0 THEN 0 ELSE Cava!Maxi(o[i], Cava!Carried(g[i - 1]))
    <3>1. CASE i = 0
      BY <2>1, <3>1
    <3>2. CASE i # 0 /\ i <= m
      <4>1. i - 1 \in 0 .. m /\ i - 1 <= m /\ i - 1 \in 0 .. m + 1 /\ i \in 0 .. m
        BY <3>2
      <4>2. g[i] = h[i] /\ g[i - 1] = h[i - 1]
        BY <3>2, <4>1
      <4>3. h[i] = Cava!Maxi(o[i], Cava!Carried(h[i - 1]))
        BY <2>1, <3>2, <4>1
      <4> QED BY <3>2, <4>2, <4>3
    <3>3. CASE i = m + 1
      <4>1. g[i] = Cava!Maxi(o[m + 1], Cava!Carried(h[m])) /\ g[i - 1] = h[m]
        BY <3>3
      <4> QED BY <3>3, <4>1
    <3> QED BY <3>1, <3>2, <3>3
  <2>3. Upto(m + 1, g)
    BY <2>2
  <2> HIDE DEF Upto, g
  <2>4. m + 1 \in Nat /\ \E x : Upto(m + 1, x)
    BY <2>3
  <2> QED BY <2>4
<1> HIDE DEF P
<1>3. P = Nat
  <2>1. P \in SUBSET Nat
    BY DEF P
  <2> QED BY ONLY <2>1, <1>1, <1>2, EveryNumber
<1>4. Len(o) \in P
  BY <1>3
<1> QED BY <1>4 DEF P, Pass

(* The highest of the bars up to i, after they fell off on the way to i.   *)
Highest(o, i, height) ==
  /\ height \in Nat
  /\ \A j \in 1 .. i : Cava!FallOff[i - j][o[j]] <= height
  /\ \E j \in 1 .. i : Cava!FallOff[i - j][o[j]] = height

(* What a pass leaves of a bar is the highest of those before it: carrying *)
(* on keeps which one is higher.                                           *)
LEMMA PassIsHighest ==
  ASSUME NEW o \in Seq(Nat), NEW h, Pass(o, h)
  PROVE  \A i \in 1 .. Len(o) : Highest(o, i, h[i])
<1> DEFINE P == {m \in Nat : m + 1 <= Len(o) => Highest(o, m + 1, h[m + 1])}
<1>0. \A i \in 1 .. Len(o) : o[i] \in Nat
  OBVIOUS
<1>1. \A i \in 1 .. Len(o) : h[i] = Cava!Maxi(o[i], Cava!Carried(h[i - 1]))
  BY DEF Pass
<1>2. h[0] = 0
  BY DEF Pass
<1>3. 0 \in P
  <2> SUFFICES ASSUME 1 <= Len(o) PROVE Highest(o, 1, h[1])
    OBVIOUS
  <2>1. h[1] = Cava!Maxi(o[1], Cava!Carried(0)) /\ o[1] \in Nat
    BY <1>0, <1>1, <1>2
  <2>2. h[1] = o[1]
    BY <2>1, CarriedIs DEF Cava!Maxi
  <2>3. Cava!FallOff[0][o[1]] = o[1]
    BY <2>1, FallOffIs
  <2> QED BY <2>1, <2>2, <2>3 DEF Highest
<1>4. ASSUME NEW m \in P PROVE m + 1 \in P
  <2> SUFFICES ASSUME (m + 1) + 1 <= Len(o) PROVE Highest(o, (m + 1) + 1, h[(m + 1) + 1])
    OBVIOUS
  <2> DEFINE n == m + 1
  <2>1. Highest(o, n, h[n]) /\ n \in 1 .. Len(o) /\ n + 1 \in 1 .. Len(o) /\ n \in Nat /\ (n + 1) - 1 = n
    OBVIOUS
  <2> HIDE DEF n
  <2>2. h[n + 1] = Cava!Maxi(o[n + 1], Cava!Carried(h[n])) /\ o[n + 1] \in Nat
    BY <1>0, <1>1, <2>1
  <2>3. h[n] \in Nat /\ Cava!Carried(h[n]) \in Nat
    BY <2>1, CarriedIs DEF Highest
  <2>4. /\ h[n + 1] \in Nat
        /\ o[n + 1] <= h[n + 1] /\ Cava!Carried(h[n]) <= h[n + 1]
        /\ h[n + 1] = o[n + 1] \/ h[n + 1] = Cava!Carried(h[n])
    BY <2>2, <2>3 DEF Cava!Maxi
  <2>5. ASSUME NEW j \in 1 .. n
        PROVE  /\ Cava!FallOff[(n + 1) - j][o[j]] = Cava!Carried(Cava!FallOff[n - j][o[j]])
               /\ Cava!FallOff[n - j][o[j]] \in Nat
    <3>1. o[j] \in Nat /\ n - j \in Nat /\ (n - j) + 1 = (n + 1) - j
      BY <1>0, <2>1
    <3>2. Cava!FallOff[(n - j) + 1][o[j]] = Cava!Carried(Cava!FallOff[n - j][o[j]])
      BY <3>1, FallOffIs
    <3> QED BY <3>1, <3>2, FallOffType
  <2>6. Cava!FallOff[(n + 1) - (n + 1)][o[n + 1]] = o[n + 1]
    <3>1. (n + 1) - (n + 1) = 0
      BY <2>1
    <3> QED BY <2>2, <3>1, FallOffIs
  <2>7. ASSUME NEW j \in 1 .. n + 1 PROVE Cava!FallOff[(n + 1) - j][o[j]] <= h[n + 1]
    <3>1. CASE j = n + 1
      BY <2>4, <2>6, <3>1
    <3>2. CASE j \in 1 .. n
      <4>1. Cava!FallOff[n - j][o[j]] <= h[n]
        BY <2>1, <3>2 DEF Highest
      <4>2. Cava!Carried(Cava!FallOff[n - j][o[j]]) <= Cava!Carried(h[n])
        BY <2>3, <2>5, <3>2, <4>1, CarriedIs
      <4>3. Cava!Carried(Cava!FallOff[n - j][o[j]]) \in Nat
        BY <2>5, <3>2, CarriedIs
      <4> QED BY <2>3, <2>4, <2>5, <3>2, <4>2, <4>3
    <3> QED BY <2>1, <3>1, <3>2
  <2>8. \E j \in 1 .. n + 1 : Cava!FallOff[(n + 1) - j][o[j]] = h[n + 1]
    <3>1. CASE h[n + 1] = o[n + 1]
      BY <2>1, <2>6, <3>1, SMTT(30)
    <3>2. CASE h[n + 1] = Cava!Carried(h[n])
      <4>1. PICK j \in 1 .. n : Cava!FallOff[n - j][o[j]] = h[n]
        BY <2>1 DEF Highest
      <4>2. j \in 1 .. n + 1
        BY <2>1
      <4> QED BY <2>5, <3>2, <4>1, <4>2
    <3> QED BY <2>4, <3>1, <3>2
  <2>9. Highest(o, n + 1, h[n + 1])
    BY <2>4, <2>7, <2>8 DEF Highest
  <2> QED BY <2>9 DEF n
<1> HIDE DEF P
<1>5. P = Nat
  <2>1. P \in SUBSET Nat
    BY DEF P
  <2> QED BY ONLY <2>1, <1>3, <1>4, EveryNumber
<1>6. ASSUME NEW i \in 1 .. Len(o) PROVE Highest(o, i, h[i])
  <2>1. i - 1 \in P /\ (i - 1) + 1 = i
    BY <1>5
  <2> QED BY <2>1 DEF P
<1> QED BY <1>6

(* FromLeft is such a pass,                                                *)
LEMMA FromLeftIs ==
  ASSUME NEW o \in Seq(Nat)
  PROVE  /\ Cava!FromLeft(o) \in Seq(Nat) /\ Len(Cava!FromLeft(o)) = Len(o)
         /\ \A i \in 1 .. Len(o) : Highest(o, i, Cava!FromLeft(o)[i])
<1> DEFINE h == CHOOSE f : Pass(o, f)
<1>1. Pass(o, h)
  BY PassesExist, Zenon
<1>2. Cava!FromLeft(o) = [i \in 1 .. Len(o) |-> h[i]]
  BY DEF Cava!FromLeft, Pass
<1> HIDE DEF h
<1>3. \A i \in 1 .. Len(o) : Highest(o, i, h[i])
  BY ONLY <1>1, PassIsHighest, o \in Seq(Nat)
<1>4. \A i \in 1 .. Len(o) : h[i] \in Nat
  BY <1>3 DEF Highest
<1> QED BY <1>2, <1>3, <1>4

Reversed(o) == [i \in 1 .. Len(o) |-> o[Len(o) + 1 - i]]

(* The bars from the last one to the first.                                *)
LEMMA ReversedIs ==
  ASSUME NEW o \in Seq(Nat)
  PROVE  Reversed(o) \in Seq(Nat) /\ Len(Reversed(o)) = Len(o)
BY DEF Reversed

(* and FromRight is one of the bars in reverse.                            *)
LEMMA FromRightIs ==
  ASSUME NEW o \in Seq(Nat)
  PROVE  /\ Cava!FromRight(o) \in Seq(Nat) /\ Len(Cava!FromRight(o)) = Len(o)
         /\ \A i \in 1 .. Len(o) :
               Highest(Reversed(o), Len(o) + 1 - i, Cava!FromRight(o)[i])
<1> DEFINE Back(f) == f = [i \in 1 .. Len(o) + 1 |-> IF i = Len(o) + 1 THEN 0
                                        ELSE Cava!Maxi(o[i], Cava!Carried(f[i + 1]))]
           g == CHOOSE f : Back(f)
           h == [k \in 0 .. Len(o) |-> g[Len(o) + 1 - k]]
<1>0. Reversed(o) \in Seq(Nat) /\ Len(Reversed(o)) = Len(o) /\ Len(o) \in Nat
  BY ReversedIs
<1>1. \E f : Back(f)
  <2>1. PICK p : Pass(Reversed(o), p)
    BY <1>0, PassesExist
  <2> DEFINE f == [i \in 1 .. Len(o) + 1 |-> p[Len(o) + 1 - i]]
  <2>2. \A k \in 0 .. Len(o) : p[k] = IF k = 0 THEN 0 ELSE Cava!Maxi(Reversed(o)[k], Cava!Carried(p[k - 1]))
    BY <1>0, <2>1 DEF Pass
  <2>3. ASSUME NEW i \in 1 .. Len(o) + 1
        PROVE  f[i] = IF i = Len(o) + 1 THEN 0 ELSE Cava!Maxi(o[i], Cava!Carried(f[i + 1]))
    <3> DEFINE k == Len(o) + 1 - i
    <3>1. k \in 0 .. Len(o) /\ f[i] = p[k]
      BY <1>0
    <3>2. CASE i = Len(o) + 1
      BY <1>0, <2>2, <3>1, <3>2
    <3>3. CASE i # Len(o) + 1
      <4>1. /\ k # 0 /\ k \in 1 .. Len(o) /\ Len(o) + 1 - k = i
            /\ i + 1 \in 1 .. Len(o) + 1 /\ Len(o) + 1 - (i + 1) = k - 1
        BY <1>0, <3>3
      <4>2. f[i + 1] = p[k - 1] /\ Reversed(o)[k] = o[i]
        BY <4>1 DEF Reversed
      <4> HIDE DEF k, f
      <4>3. p[k] = Cava!Maxi(Reversed(o)[k], Cava!Carried(p[k - 1]))
        BY <2>2, <3>1, <4>1
      <4> QED BY <3>1, <3>3, <4>2, <4>3
    <3> QED BY <3>2, <3>3
  <2>4. Back(f)
    BY <2>3
  <2> HIDE DEF Back, f
  <2> QED BY <2>4
<1>2. Back(g)
  <2> HIDE DEF Back
  <2> QED BY <1>1, Zenon
<1>3. Cava!FromRight(o) = [i \in 1 .. Len(o) |-> g[i]]
  BY DEF Cava!FromRight
<1> HIDE DEF g
<1>4. Pass(Reversed(o), h)
  <2>1. \A i \in 1 .. Len(o) + 1 : g[i] = IF i = Len(o) + 1 THEN 0 ELSE Cava!Maxi(o[i], Cava!Carried(g[i + 1]))
    BY <1>2
  <2>2. ASSUME NEW k \in 0 .. Len(o)
        PROVE  h[k] = IF k = 0 THEN 0 ELSE Cava!Maxi(Reversed(o)[k], Cava!Carried(h[k - 1]))
    <3> DEFINE i == Len(o) + 1 - k
    <3>1. i \in 1 .. Len(o) + 1 /\ h[k] = g[i]
      BY <1>0
    <3>2. CASE k = 0
      BY <1>0, <2>1, <3>1, <3>2
    <3>3. CASE k # 0
      <4>1. /\ i # Len(o) + 1 /\ i \in 1 .. Len(o) /\ k \in 1 .. Len(o)
            /\ k - 1 \in 0 .. Len(o) /\ Len(o) + 1 - (k - 1) = i + 1
        BY <1>0, <3>3
      <4>2. h[k - 1] = g[i + 1] /\ Reversed(o)[k] = o[i]
        BY <4>1 DEF Reversed
      <4> HIDE DEF i, h
      <4>3. g[i] = Cava!Maxi(o[i], Cava!Carried(g[i + 1]))
        BY <2>1, <3>1, <4>1
      <4> QED BY <3>1, <3>3, <4>2, <4>3
    <3> QED BY <3>2, <3>3
  <2> QED BY <1>0, <2>2 DEF Pass
<1>5. ASSUME NEW i \in 1 .. Len(o) PROVE g[i] = h[Len(o) + 1 - i] /\ Len(o) + 1 - i \in 1 .. Len(o)
  BY <1>0
<1> HIDE DEF h
<1>6. \A k \in 1 .. Len(o) : Highest(Reversed(o), k, h[k])
  BY ONLY <1>0, <1>4, PassIsHighest
<1>7. \A i \in 1 .. Len(o) : Highest(Reversed(o), Len(o) + 1 - i, g[i])
  BY <1>5, <1>6
<1>8. \A i \in 1 .. Len(o) : g[i] \in Nat
  BY <1>7 DEF Highest
<1> QED BY <1>0, <1>3, <1>7, <1>8

(* The greatest of a set is the one that is in it and above all others.    *)
LEMMA TheCavaMax ==
  ASSUME NEW S \in SUBSET Int, NEW m \in S, \A x \in S : m >= x
  PROVE  Cava!Max(S) = m
<1>1. \A x \in S : (\A y \in S : x >= y) => x = m
  BY m \in Int
<1>2. Cava!Max(S) \in S /\ \A y \in S : Cava!Max(S) >= y
  BY DEF Cava!Max
<1> QED BY <1>1, <1>2

(* The two passes of the filter make the spectrum.                         *)
LEMMA SmoothedIsSpectrum ==
  ASSUME NEW o \in Seq(Nat)
  PROVE  /\ Cava!Smoothed(o) = Cava!Spectrum(o)
         /\ Cava!Smoothed(o) \in Seq(Nat) /\ Len(Cava!Smoothed(o)) = Len(o)
<1>0. Len(o) \in Nat /\ \A i \in 1 .. Len(o) : o[i] \in Nat
  OBVIOUS
<1>1. ASSUME NEW i \in 1 .. Len(o)
      PROVE  /\ Cava!Maxi(Cava!FromLeft(o)[i], Cava!FromRight(o)[i]) \in Nat
             /\ Cava!Max({Cava!FallOff[Cava!Distance(i, j)][o[j]] : j \in 1 .. Len(o)})
                  = Cava!Maxi(Cava!FromLeft(o)[i], Cava!FromRight(o)[i])
  <2> DEFINE l == Cava!FromLeft(o)[i]
             r == Cava!FromRight(o)[i]
             k == Len(o) + 1 - i
             D(j) == Cava!FallOff[Cava!Distance(i, j)][o[j]]
             S == {D(j) : j \in 1 .. Len(o)}
  <2>1. Highest(o, i, l)
    BY FromLeftIs
  <2>2. Highest(Reversed(o), k, r)
    BY FromRightIs
  <2>3. k \in 1 .. Len(o) /\ i = Len(o) + 1 - k
    BY <1>0
  <2>4. ASSUME NEW j \in 1 .. i
        PROVE  j \in 1 .. Len(o) /\ D(j) = Cava!FallOff[i - j][o[j]]
    <3>1. Cava!Distance(i, j) = i - j
      BY <1>0 DEF Cava!Distance
    <3> QED BY <1>0, <3>1
  <2>5. ASSUME NEW j \in i .. Len(o)
        PROVE  /\ Len(o) + 1 - j \in 1 .. k
               /\ D(j) = Cava!FallOff[k - (Len(o) + 1 - j)][Reversed(o)[Len(o) + 1 - j]]
    <3>1. Cava!Distance(i, j) = j - i /\ j - i = k - (Len(o) + 1 - j)
      BY <1>0 DEF Cava!Distance
    <3>2. Len(o) + 1 - j \in 1 .. Len(o) /\ Len(o) + 1 - (Len(o) + 1 - j) = j /\ Len(o) + 1 - j \in 1 .. k
      BY <1>0
    <3>3. Reversed(o)[Len(o) + 1 - j] = o[j]
      BY <3>2 DEF Reversed
    <3> HIDE DEF k
    <3> QED BY <3>1, <3>2, <3>3
  <2>6. ASSUME NEW q \in 1 .. k PROVE Len(o) + 1 - q \in i .. Len(o) /\ Len(o) + 1 - (Len(o) + 1 - q) = q
    BY <1>0
  <2>7. l \in Nat /\ r \in Nat
    BY <2>1, <2>2 DEF Highest
  <2> DEFINE m == Cava!Maxi(l, r)
  <2>8. m \in Nat /\ l <= m /\ r <= m /\ (m = l \/ m = r)
    BY <2>7 DEF Cava!Maxi
  <2>9. ASSUME NEW j \in 1 .. Len(o) PROVE D(j) <= m /\ D(j) \in Nat
    <3>0. D(j) \in Nat
      <4>1. Cava!Distance(i, j) \in Nat
        BY <1>0 DEF Cava!Distance
      <4> QED BY <1>0, <4>1, FallOffType
    <3>1. CASE j <= i
      <4>1. j \in 1 .. i /\ D(j) <= l
        BY <1>0, <2>1, <2>4, <3>1 DEF Highest
      <4> HIDE DEF D, l, m, r
      <4> QED BY <2>7, <2>8, <3>0, <4>1
    <3>2. CASE j > i
      <4>1. j \in i .. Len(o)
        BY <1>0, <3>2
      <4>2. D(j) <= r
        BY <2>2, <2>5, <4>1 DEF Highest
      <4> HIDE DEF D, l, m, r
      <4> QED BY <2>7, <2>8, <3>0, <4>2
    <3> QED BY <1>0, <3>1, <3>2
  <2>10. \E j \in 1 .. Len(o) : D(j) = m
    <3>1. CASE m = l
      <4>1. PICK j \in 1 .. i : Cava!FallOff[i - j][o[j]] = l
        BY <2>1 DEF Highest
      <4>2. j \in 1 .. Len(o) /\ D(j) = l
        BY <2>4, <4>1
      <4> HIDE DEF D, l, m, r
      <4> QED BY <3>1, <4>2
    <3>2. CASE m = r
      <4>1. PICK q \in 1 .. k : Cava!FallOff[k - q][Reversed(o)[q]] = r
        BY <2>2 DEF Highest
      <4> DEFINE j == Len(o) + 1 - q
      <4>2. j \in i .. Len(o) /\ Len(o) + 1 - j = q /\ j \in 1 .. Len(o)
        BY <1>0, <2>6
      <4>3. D(j) = Cava!FallOff[k - q][Reversed(o)[q]]
        BY <2>5, <4>2
      <4> HIDE DEF D, l, m, r, j, k
      <4> QED BY <3>2, <4>1, <4>2, <4>3
    <3> QED BY <2>8, <3>1, <3>2
  <2> HIDE DEF D, l, r, k, m
  <2>11. S \in SUBSET Int /\ m \in S /\ \A x \in S : m >= x
    <3>1. \A x \in S : x \in Nat /\ x <= m
      BY <2>9
    <3>2. m \in S
      BY <2>10
    <3> HIDE DEF S
    <3> QED BY <2>8, <3>1, <3>2
  <2>12. Cava!Max(S) = m
    <3> HIDE DEF S
    <3> QED BY ONLY <2>11, TheCavaMax
  <2> QED BY <2>8, <2>12 DEF D, l, r, m
<1>2. Cava!Smoothed(o) = [i \in 1 .. Len(o) |-> Cava!Maxi(Cava!FromLeft(o)[i], Cava!FromRight(o)[i])]
  BY DEF Cava!Smoothed
<1>3. Cava!Spectrum(o) = [i \in 1 .. Len(o) |->
                            Cava!Max({Cava!FallOff[Cava!Distance(i, j)][o[j]] : j \in 1 .. Len(o)})]
  BY DEF Cava!Spectrum
<1>4. Cava!Smoothed(o) = Cava!Spectrum(o)
  BY <1>1, <1>2, <1>3
<1>5. Cava!Smoothed(o) \in Seq(Nat) /\ Len(Cava!Smoothed(o)) = Len(o)
  <2> DEFINE m(i) == Cava!Maxi(Cava!FromLeft(o)[i], Cava!FromRight(o)[i])
  <2>1. (\A i \in 1 .. Len(o) : m(i) \in Nat) /\ Cava!Smoothed(o) = [i \in 1 .. Len(o) |-> m(i)]
    BY <1>1, <1>2
  <2> HIDE DEF m
  <2> QED BY <1>0, <2>1
<1> QED BY <1>4, <1>5

-----------------------------------------------------------------------------
(***************************************************************************)
(* The bars again: what is on its way between the two threads.  The last   *)
(* number in a queue, or of values in the other, is the one that counts.   *)
(***************************************************************************)
Spectra == Seq(Nat)
BarsType ==
  /\ cavaBars \in Nat /\ cavaPBars \in Nat
  /\ cavaAsked \in Nat /\ cavaPAsked \in Nat /\ cavaFresh \in BOOLEAN
  /\ cavaValues \in Spectra /\ cavaPValues \in Spectra /\ cavaOut \in Spectra
  /\ cavaToProcessor \in Seq(Nat) /\ cavaToProvider \in Seq(Spectra \X Nat)

(* Numbers of bars on their way to the processor.                          *)
NumbersArrive ==
  /\ cavaAsked = cavaPAsked + Len(cavaToProcessor)
  /\ (IF cavaToProcessor = <<>> THEN cavaPBars
      ELSE cavaToProcessor[Len(cavaToProcessor)]) = cavaBars

(* Values on their way to the provider, with the calls they had seen.      *)
ValuesArrive ==
  /\ \A i \in 1 .. Len(cavaToProvider) :
       /\ cavaToProvider[i][2] <= cavaPAsked
       /\ cavaToProvider[i][2] = cavaAsked => Len(cavaToProvider[i][1]) = cavaBars
       /\ \A j \in 1 .. i : cavaToProvider[j][2] <= cavaToProvider[i][2]
       /\ cavaFresh => cavaToProvider[i][2] = cavaAsked
  /\ cavaToProvider # <<>> => cavaToProvider[Len(cavaToProvider)][1] = cavaPValues
  /\ cavaFresh => /\ cavaPAsked = cavaAsked /\ Len(cavaValues) = cavaBars
                  /\ cavaToProvider = <<>> => cavaValues = cavaPValues

BarsInv == BarsType /\ NumbersArrive /\ ValuesArrive

(* What a queue is after a message is sent, and after one is taken.        *)
LEMMA Sent ==
  ASSUME NEW S, NEW q \in Seq(S), NEW x \in S, NEW r, r = Append(q, x)
  PROVE  /\ r \in Seq(S) /\ Len(q) \in Nat /\ Len(r) = Len(q) + 1 /\ r # <<>>
         /\ \A i \in 1 .. Len(q) : r[i] = q[i]
         /\ r[Len(q) + 1] = x
BY AppendProperties

LEMMA Taken ==
  ASSUME NEW S, NEW q \in Seq(S), q # <<>>, NEW r, r = Tail(q)
  PROVE  /\ r \in Seq(S) /\ Len(q) \in Nat \ {0} /\ Len(r) = Len(q) - 1
         /\ Head(q) = q[1] /\ q[1] \in S
         /\ \A i \in 1 .. Len(q) - 1 : r[i] = q[i + 1]
         /\ (r = <<>> <=> Len(q) = 1)
<1>1. Len(q) \in Nat \ {0}
  OBVIOUS
<1>2. Head(q) = q[1] /\ q[1] \in S
  BY <1>1
<1>3. /\ r \in Seq(S) /\ Len(r) = Len(q) - 1
      /\ \A i \in 1 .. Len(q) - 1 : r[i] = q[i + 1]
  <2>1. /\ Tail(q) \in Seq(S) /\ Len(Tail(q)) = Len(q) - 1
        /\ \A i \in 1 .. Len(Tail(q)) : Tail(q)[i] = q[i + 1]
    BY ONLY q \in Seq(S), q # <<>>, HeadTailProperties
  <2> QED BY <2>1
<1>4. r = <<>> <=> Len(r) = 0
  BY <1>3, EmptySeq
<1> QED BY <1>1, <1>2, <1>3, <1>4

(* There is nothing on its way at first.                                   *)
LEMMA BarsInit == Cava!Init => BarsInv
<1> SUFFICES ASSUME Cava!Init PROVE BarsInv
  OBVIOUS
<1>1. /\ cavaBars = 0 /\ cavaPBars = 0 /\ cavaAsked = 0 /\ cavaPAsked = 0 /\ cavaFresh = FALSE
      /\ cavaValues = <<>> /\ cavaPValues = <<>> /\ cavaOut = <<>>
      /\ cavaToProcessor = <<>> /\ cavaToProvider = <<>>
  BY DEF Cava!Init
<1>2. BarsType
  BY <1>1, EmptySeq DEF BarsType, Spectra
<1>3. Len(cavaToProvider) = 0 /\ Len(cavaToProcessor) = 0
  BY <1>1
<1>4. NumbersArrive /\ ValuesArrive
  BY <1>1, <1>3 DEF NumbersArrive, ValuesArrive
<1> QED BY <1>2, <1>4 DEF BarsInv

(* Every step of the two threads keeps the invariant.                      *)
LEMMA BarsStep == BarsInv /\ [Cava!Next]_Cava!vars => BarsInv'
<1> SUFFICES ASSUME BarsInv, [Cava!Next]_Cava!vars PROVE BarsInv'
  OBVIOUS
<1> USE DEF BarsInv
<1>1. ASSUME NEW n \in 0 .. MaxBars, Cava!SetBars(n) PROVE BarsInv'
  <2>0. n \in Nat
    BY <1>1, LevelsAssumption
  <2>1. /\ cavaBars' = n /\ cavaAsked' = cavaAsked + 1 /\ cavaFresh' = FALSE
        /\ cavaValues' = [i \in 1 .. n |-> IF i <= Len(cavaValues) THEN cavaValues[i] ELSE 0]
        /\ cavaToProcessor' = Append(cavaToProcessor, n)
        /\ UNCHANGED <<cavaToProvider, cavaPBars, cavaPValues, cavaPAsked, cavaOut>>
    BY <1>1 DEF Cava!SetBars
  <2>2. cavaValues' \in Spectra
    BY <2>0, <2>1 DEF BarsType, Spectra
  <2>8. /\ cavaToProcessor' \in Seq(Nat) /\ Len(cavaToProcessor') = Len(cavaToProcessor) + 1 /\ cavaToProcessor' # <<>>
        /\ cavaToProcessor'[Len(cavaToProcessor) + 1] = n
    <3>1. cavaToProcessor \in Seq(Nat) /\ cavaToProcessor' = Append(cavaToProcessor, n)
      BY <2>1 DEF BarsType
    <3> QED BY ONLY <2>0, <3>1, Sent
  <2>3. BarsType'
    <3>1. cavaAsked' \in Nat /\ cavaBars' \in Nat
      BY <2>0, <2>1 DEF BarsType
    <3>3. cavaFresh' \in BOOLEAN
      BY <2>1, Zenon
    <3>2. UNCHANGED <<cavaToProvider, cavaPBars, cavaPValues, cavaPAsked, cavaOut>>
      BY <2>1
    <3> QED BY <2>2, <2>8, <3>1, <3>2, <3>3 DEF BarsType
  <2>4. NumbersArrive'
    BY <2>0, <2>1, <2>3, <2>8 DEF BarsType, NumbersArrive
  <2>5. cavaPAsked < cavaAsked'
    BY <2>1 DEF BarsType, NumbersArrive
  <2>6. \A i \in 1 .. Len(cavaToProvider) : cavaToProvider[i][2] \in Nat
    BY DEF BarsType
  <2>7. ValuesArrive'
    BY <2>1, <2>3, <2>5, <2>6 DEF BarsType, ValuesArrive
  <2> QED BY <2>3, <2>4, <2>7
<1>2. CASE Cava!ProcessorSetBars
  <2>1. /\ cavaToProcessor # <<>> /\ cavaToProcessor' = Tail(cavaToProcessor)
        /\ cavaPBars' = Head(cavaToProcessor) /\ cavaPAsked' = cavaPAsked + 1
        /\ UNCHANGED <<cavaBars, cavaValues, cavaToProvider, cavaPValues, cavaAsked, cavaOut, cavaFresh>>
    BY <1>2 DEF Cava!ProcessorSetBars
  <2>7. /\ cavaToProcessor' \in Seq(Nat) /\ Len(cavaToProcessor) \in Nat \ {0}
        /\ Len(cavaToProcessor') = Len(cavaToProcessor) - 1
        /\ Head(cavaToProcessor) = cavaToProcessor[1] /\ cavaToProcessor[1] \in Nat
        /\ \A i \in 1 .. Len(cavaToProcessor) - 1 : cavaToProcessor'[i] = cavaToProcessor[i + 1]
        /\ (cavaToProcessor' = <<>> <=> Len(cavaToProcessor) = 1)
    <3>1. cavaToProcessor \in Seq(Nat) /\ cavaToProcessor # <<>> /\ cavaToProcessor' = Tail(cavaToProcessor)
      BY <2>1 DEF BarsType
    <3> QED BY ONLY <3>1, Taken
  <2>2. BarsType'
    BY <2>1, <2>7 DEF BarsType
  <2>3. NumbersArrive'
    BY <2>1, <2>2, <2>7, SMTT(30) DEF BarsType, NumbersArrive
  <2>4. cavaPAsked < cavaAsked /\ ~cavaFresh
    BY <2>1 DEF BarsType, NumbersArrive, ValuesArrive
  <2>5. \A i \in 1 .. Len(cavaToProvider) : cavaToProvider[i][2] \in Nat
    BY DEF BarsType
  <2>6. ValuesArrive'
    BY <2>1, <2>4, <2>5 DEF BarsType, ValuesArrive
  <2> QED BY <2>2, <2>3, <2>6
<1>3. ASSUME NEW o \in [1 .. cavaPBars -> Levels], Cava!Process(o) PROVE BarsInv'
  <2> DEFINE s == Cava!Smoothed(o)
  <2>0. o \in Seq(Nat) /\ Len(o) = cavaPBars
    <3>1. o \in [1 .. cavaPBars -> Nat] /\ cavaPBars \in Nat
      BY <1>3, LevelsAssumption DEF BarsType
    <3> QED BY <3>1
  <2>1. s \in Spectra /\ Len(s) = cavaPBars
    BY <2>0, SmoothedIsSpectrum DEF Spectra
  <2>2. /\ cavaOut' = o
        /\ \/ /\ cavaPValues' = s /\ cavaToProvider' = Append(cavaToProvider, <<s, cavaPAsked>>)
           \/ UNCHANGED <<cavaPValues, cavaToProvider>>
        /\ UNCHANGED <<cavaBars, cavaValues, cavaToProcessor, cavaPBars, cavaAsked, cavaPAsked, cavaFresh>>
    BY <1>3 DEF Cava!Process
  <2> HIDE DEF s
  <2>7. ASSUME cavaToProvider' = Append(cavaToProvider, <<s, cavaPAsked>>)
        PROVE  /\ cavaToProvider' \in Seq(Spectra \X Nat) /\ Len(cavaToProvider) \in Nat
               /\ Len(cavaToProvider') = Len(cavaToProvider) + 1 /\ cavaToProvider' # <<>>
               /\ \A i \in 1 .. Len(cavaToProvider) : cavaToProvider'[i] = cavaToProvider[i]
               /\ cavaToProvider'[Len(cavaToProvider) + 1] = <<s, cavaPAsked>>
    <3>1. /\ cavaToProvider \in Seq(Spectra \X Nat) /\ <<s, cavaPAsked>> \in Spectra \X Nat
          /\ cavaToProvider' = Append(cavaToProvider, <<s, cavaPAsked>>)
      BY <2>1, <2>7 DEF BarsType
    <3> QED BY ONLY <3>1, Sent
  <2>3. BarsType'
    BY <2>0, <2>1, <2>2, <2>7 DEF BarsType, Spectra
  <2>4. NumbersArrive'
    BY <2>2 DEF NumbersArrive
  <2>5. cavaPAsked = cavaAsked => cavaPBars = cavaBars
    BY DEF BarsType, NumbersArrive
  <2>6. ValuesArrive'
    <3>1. CASE UNCHANGED <<cavaPValues, cavaToProvider>>
      BY <2>2, <3>1 DEF ValuesArrive
    <3>2. CASE cavaPValues' = s /\ cavaToProvider' = Append(cavaToProvider, <<s, cavaPAsked>>)
      <4>1. /\ Len(cavaToProvider') = Len(cavaToProvider) + 1 /\ Len(cavaToProvider) \in Nat
            /\ \A i \in 1 .. Len(cavaToProvider) : cavaToProvider'[i] = cavaToProvider[i]
            /\ cavaToProvider'[Len(cavaToProvider) + 1] = <<s, cavaPAsked>>
        BY <2>7, <3>2
      <4>2. cavaToProvider' # <<>>
        BY <2>7, <3>2
      <4>3. \A i \in 1 .. Len(cavaToProvider) : cavaToProvider[i][2] \in Nat
        BY DEF BarsType
      <4> QED BY <2>1, <2>2, <2>5, <3>2, <4>1, <4>2, <4>3, SMTT(30) DEF BarsType, ValuesArrive
    <3> QED BY <2>2, <3>1, <3>2
  <2> QED BY <2>3, <2>4, <2>6
<1>4. CASE Cava!UpdateValues
  <2>1. /\ cavaToProvider # <<>> /\ cavaToProvider' = Tail(cavaToProvider)
        /\ cavaValues' = Head(cavaToProvider)[1]
        /\ cavaFresh' = (cavaFresh \/ Head(cavaToProvider)[2] = cavaAsked)
        /\ UNCHANGED <<cavaBars, cavaToProcessor, cavaPBars, cavaPValues, cavaAsked, cavaPAsked, cavaOut>>
    BY <1>4 DEF Cava!UpdateValues
  <2>2. /\ Len(cavaToProvider) \in Nat \ {0} /\ Head(cavaToProvider) = cavaToProvider[1]
        /\ Len(cavaToProvider') = Len(cavaToProvider) - 1
        /\ \A i \in 1 .. Len(cavaToProvider) - 1 : cavaToProvider'[i] = cavaToProvider[i + 1]
        /\ (cavaToProvider' = <<>> <=> Len(cavaToProvider) = 1)
        /\ cavaToProvider' \in Seq(Spectra \X Nat)
    <3> DEFINE S == Spectra \X Nat
    <3>1. cavaToProvider \in Seq(S) /\ cavaToProvider # <<>> /\ cavaToProvider' = Tail(cavaToProvider)
      BY <2>1 DEF BarsType
    <3> HIDE DEF S
    <3>2. /\ cavaToProvider' \in Seq(S) /\ Len(cavaToProvider) \in Nat \ {0}
          /\ Len(cavaToProvider') = Len(cavaToProvider) - 1
          /\ Head(cavaToProvider) = cavaToProvider[1]
          /\ \A i \in 1 .. Len(cavaToProvider) - 1 : cavaToProvider'[i] = cavaToProvider[i + 1]
          /\ (cavaToProvider' = <<>> <=> Len(cavaToProvider) = 1)
      BY ONLY <3>1, Taken
    <3> QED BY <3>2 DEF S
  <2>3. \A i \in 1 .. Len(cavaToProvider) : /\ cavaToProvider[i][2] \in Nat
                                            /\ cavaToProvider[i][1] \in Spectra
    BY DEF BarsType
  <2>4. BarsType'
    BY <2>1, <2>2, <2>3 DEF BarsType
  <2>5. NumbersArrive'
    BY <2>1 DEF NumbersArrive
  <2>6. cavaFresh' => cavaPAsked = cavaAsked /\ \A i \in 1 .. Len(cavaToProvider) : cavaToProvider[i][2] = cavaAsked
    BY <2>1, <2>2, <2>3, SMTT(30) DEF BarsType, NumbersArrive, ValuesArrive
  <2>7. ValuesArrive'
    BY <2>1, <2>2, <2>3, <2>6, SMTT(30) DEF BarsType, ValuesArrive
  <2> QED BY <2>4, <2>5, <2>7
<1>5. CASE UNCHANGED Cava!vars
  BY <1>5 DEF Cava!vars, BarsType, NumbersArrive, ValuesArrive
<1> QED BY <1>1, <1>2, <1>3, <1>4, <1>5 DEF Cava!Next

(* The invariant has what the property says of the bars.                   *)
LEMMA BarsShow == BarsInv => Cava!BarsAreTheSpectrum
<1> SUFFICES ASSUME BarsInv PROVE Cava!BarsAreTheSpectrum
  OBVIOUS
<1>1. cavaToProvider = <<>> /\ cavaFresh =>
        /\ Len(cavaValues) = cavaBars /\ cavaValues = cavaPValues
        /\ cavaToProcessor = <<>> => cavaBars = cavaPBars
  BY DEF BarsInv, NumbersArrive, ValuesArrive
<1>2. Cava!Smoothed(cavaOut) = Cava!Spectrum(cavaOut)
  BY SmoothedIsSpectrum DEF BarsInv, BarsType, Spectra
<1> QED BY <1>1, <1>2 DEF Cava!BarsAreTheSpectrum

-----------------------------------------------------------------------------
(***************************************************************************)
(* The ring.  Places are counted back from the head, values from the end   *)
(* of what was pushed; a place that ran over the end of the array is at    *)
(* its start again.                                                        *)
(***************************************************************************)
(* What runs over the end of the array by less than its length.            *)
LEMMA Wrapped ==
  ASSUME NEW c \in Nat \ {0}, NEW x \in 0 .. 2 * c - 1
  PROVE  x % c = IF x < c THEN x ELSE x - c
<1>1. CASE x < c
  BY <1>1
<1>2. CASE x >= c
  <2>1. c > 0 /\ x \in c .. 2 * c - 1
    BY <1>2
  <2> QED BY <1>2, <2>1
<1> QED BY <1>1, <1>2

(* The lesser and the greater of two numbers.                              *)
LEMMA LesserOf ==
  ASSUME NEW a \in Int, NEW b \in Int
  PROVE  /\ Buffer!Min({a, b}) = IF a <= b THEN a ELSE b
         /\ Buffer!Max({a, b}) = IF a <= b THEN b ELSE a
<1>1. Buffer!Min({a, b}) \in {a, b} /\ \A y \in {a, b} : Buffer!Min({a, b}) <= y
  <2>1. \E x \in {a, b} : \A y \in {a, b} : x <= y
    OBVIOUS
  <2> QED BY <2>1 DEF Buffer!Min
<1>2. Buffer!Max({a, b}) \in {a, b} /\ \A y \in {a, b} : Buffer!Max({a, b}) >= y
  <2>1. \E x \in {a, b} : \A y \in {a, b} : x >= y
    OBVIOUS
  <2> QED BY <2>1 DEF Buffer!Max
<1> QED BY <1>1, <1>2

(* The value of s that is e places from its end.                           *)
FromEnd(s, e) == s[Len(s) + 1 - e]
AtMost(n, max) == IF n <= max THEN n ELSE max

(* Lists with the same values counted from the end are the same.           *)
LEMMA SameFromEnd ==
  ASSUME NEW s \in Seq(Nat), NEW t \in Seq(Nat), Len(s) = Len(t),
         \A e \in 1 .. Len(s) : FromEnd(s, e) = FromEnd(t, e)
  PROVE  s = t
<1>1. ASSUME NEW i \in 1 .. Len(s) PROVE s[i] = t[i]
  <2>1. Len(s) + 1 - i \in 1 .. Len(s) /\ Len(s) + 1 - (Len(s) + 1 - i) = i
    BY LenProperties
  <2> QED BY <2>1 DEF FromEnd
<1> QED BY <1>1, SeqEqual

(* Newest: the values at the end, as many as there are up to n.            *)
LEMMA NewestIs ==
  ASSUME NEW s \in Seq(Nat), NEW n \in Nat
  PROVE  /\ Buffer!Newest(s, n) \in Seq(Nat)
         /\ Len(Buffer!Newest(s, n)) = AtMost(Len(s), n)
         /\ \A e \in 1 .. AtMost(Len(s), n) : FromEnd(Buffer!Newest(s, n), e) = FromEnd(s, e)
<1> DEFINE u == Buffer!Newest(s, n)
           first == IF 1 <= Len(s) - n + 1 THEN Len(s) - n + 1 ELSE 1
<1>0. Len(s) \in Nat /\ \A i \in 1 .. Len(s) : s[i] \in Nat
  OBVIOUS
<1>1. u = SubSeq(s, first, Len(s))
  <2>1. Len(s) - n + 1 \in Int /\ 1 \in Int
    BY <1>0
  <2>2. Buffer!Max({1, Len(s) - n + 1}) = first
    BY ONLY <2>1, LesserOf
  <2> QED BY <2>2 DEF Buffer!Newest
<1>2. first \in 1 .. Len(s) + 1 /\ Len(s) - first + 1 = AtMost(Len(s), n)
  <2>1. CASE Len(s) <= n
    BY <1>0, <2>1 DEF AtMost
  <2>2. CASE Len(s) > n
    <3>1. first = Len(s) - n + 1
      BY <1>0, <2>2
    <3> HIDE DEF first
    <3>2. AtMost(Len(s), n) = n
      BY <1>0, <2>2 DEF AtMost
    <3> QED BY <1>0, <2>2, <3>1, <3>2
  <2> HIDE DEF first
  <2>3. Len(s) <= n \/ Len(s) > n
    BY <1>0
  <2> QED BY <2>1, <2>2, <2>3, Zenon
<1> HIDE DEF u, first
<1>3. /\ u \in Seq(Nat) /\ Len(u) = Len(s) - first + 1
      /\ \A i \in 1 .. Len(s) - first + 1 : u[i] = s[first + i - 1]
  <2>1. \A i \in first .. Len(s) : s[i] \in Nat
    BY <1>0, <1>2
  <2>2. /\ u \in Seq(Nat)
        /\ Len(u) = IF first <= Len(s) THEN Len(s) - first + 1 ELSE 0
        /\ \A i \in 1 .. Len(s) - first + 1 : u[i] = s[first + i - 1]
    BY <1>0, <1>1, <1>2, <2>1, SubSeqProperties
  <2> QED BY <1>0, <1>2, <2>2
<1>4. ASSUME NEW e \in 1 .. Len(u) PROVE FromEnd(u, e) = FromEnd(s, e)
  <2>1. Len(u) + 1 - e \in 1 .. Len(u) /\ first + (Len(u) + 1 - e) - 1 = Len(s) + 1 - e
    BY <1>0, <1>2, <1>3
  <2> QED BY <1>3, <2>1 DEF FromEnd
<1> QED BY <1>2, <1>3, <1>4 DEF u

(* Two lists, one after the other, counted from the end.                   *)
LEMMA ConcatFromEnd ==
  ASSUME NEW s \in Seq(Nat), NEW t \in Seq(Nat)
  PROVE  /\ s \o t \in Seq(Nat) /\ Len(s \o t) = Len(s) + Len(t)
         /\ \A e \in 1 .. Len(s) + Len(t) :
               FromEnd(s \o t, e) = IF e <= Len(t) THEN FromEnd(t, e) ELSE FromEnd(s, e - Len(t))
<1>1. /\ s \o t \in Seq(Nat) /\ Len(s \o t) = Len(s) + Len(t) /\ Len(s) \in Nat /\ Len(t) \in Nat
      /\ \A i \in 1 .. Len(s) + Len(t) : (s \o t)[i] = IF i <= Len(s) THEN s[i] ELSE t[i - Len(s)]
  BY ConcatProperties, LenProperties
<1>2. ASSUME NEW e \in 1 .. Len(s) + Len(t)
      PROVE  FromEnd(s \o t, e) = IF e <= Len(t) THEN FromEnd(t, e) ELSE FromEnd(s, e - Len(t))
  <2> DEFINE i == Len(s) + Len(t) + 1 - e
  <2>1. i \in 1 .. Len(s) + Len(t) /\ FromEnd(s \o t, e) = (s \o t)[i]
    BY <1>1 DEF FromEnd
  <2>2. CASE e <= Len(t)
    <3>1. ~(i <= Len(s)) /\ i - Len(s) = Len(t) + 1 - e
      BY <1>1, <2>2
    <3> QED BY <1>1, <2>1, <2>2, <3>1 DEF FromEnd
  <2>3. CASE ~(e <= Len(t))
    <3>1. i <= Len(s) /\ i = Len(s) + 1 - (e - Len(t))
      BY <1>1, <2>3
    <3> QED BY <1>1, <2>1, <2>3, <3>1 DEF FromEnd
  <2> QED BY <2>2, <2>3
<1> QED BY <1>1, <1>2

(* Cutting off what is too old may be done at once or in between.          *)
LEMMA NewestOnce ==
  ASSUME NEW s \in Seq(Nat), NEW t \in Seq(Nat), NEW n \in Nat
  PROVE  /\ Buffer!Newest(Buffer!Newest(s, n) \o t, n) = Buffer!Newest(s \o t, n)
         /\ Buffer!Newest(Buffer!Newest(s, n), n) = Buffer!Newest(s, n)
<1> DEFINE a == Buffer!Newest(s, n)
           b == Buffer!Newest(a \o t, n)
           c == Buffer!Newest(s \o t, n)
           d == Buffer!Newest(a, n)
<1>0. Len(s) \in Nat /\ Len(t) \in Nat
  OBVIOUS
<1>1. a \in Seq(Nat) /\ Len(a) = AtMost(Len(s), n) /\ \A e \in 1 .. Len(a) : FromEnd(a, e) = FromEnd(s, e)
  BY NewestIs
<1> HIDE DEF a
<1>2. /\ a \o t \in Seq(Nat) /\ Len(a \o t) = Len(a) + Len(t)
      /\ \A e \in 1 .. Len(a) + Len(t) :
           FromEnd(a \o t, e) = IF e <= Len(t) THEN FromEnd(t, e) ELSE FromEnd(a, e - Len(t))
  BY <1>1, ConcatFromEnd
<1>3. /\ s \o t \in Seq(Nat) /\ Len(s \o t) = Len(s) + Len(t)
      /\ \A e \in 1 .. Len(s) + Len(t) :
           FromEnd(s \o t, e) = IF e <= Len(t) THEN FromEnd(t, e) ELSE FromEnd(s, e - Len(t))
  BY ConcatFromEnd
<1>4. b \in Seq(Nat) /\ Len(b) = AtMost(Len(a) + Len(t), n) /\ \A e \in 1 .. Len(b) : FromEnd(b, e) = FromEnd(a \o t, e)
  BY <1>2, NewestIs
<1>5. c \in Seq(Nat) /\ Len(c) = AtMost(Len(s) + Len(t), n) /\ \A e \in 1 .. Len(c) : FromEnd(c, e) = FromEnd(s \o t, e)
  BY <1>3, NewestIs
<1>6. d \in Seq(Nat) /\ Len(d) = AtMost(Len(a), n) /\ \A e \in 1 .. Len(d) : FromEnd(d, e) = FromEnd(a, e)
  BY <1>1, NewestIs
<1> HIDE DEF b, c, d
<1>7. b = c
  <2>1. Len(b) = Len(c)
    BY <1>0, <1>1, <1>4, <1>5 DEF AtMost
  <2>2. ASSUME NEW e \in 1 .. Len(b) PROVE FromEnd(b, e) = FromEnd(c, e)
    <3>1. e \in 1 .. Len(a) + Len(t) /\ e \in 1 .. Len(s) + Len(t)
      BY <1>0, <1>1, <1>4, <1>5, <2>1 DEF AtMost
    <3>2. ~(e <= Len(t)) => e - Len(t) \in 1 .. Len(a)
      BY <1>0, <3>1
    <3> QED BY <1>1, <1>2, <1>3, <1>4, <1>5, <2>1, <3>1, <3>2
  <2> QED BY <1>4, <1>5, <2>1, <2>2, SameFromEnd
<1>8. d = a
  <2>1. Len(d) = Len(a)
    BY <1>0, <1>1, <1>6 DEF AtMost
  <2> QED BY <1>1, <1>6, <2>1, SameFromEnd
<1> QED BY <1>7, <1>8 DEF a, b, c, d

-----------------------------------------------------------------------------
(* An array of c places, a head in it, and how many of them count.         *)
Ring(r, c) ==
  /\ c \in Nat
  /\ r \in [data : [0 .. c - 1 -> Nat], head : Nat, count : 0 .. c]
  /\ r.head < c \/ r.head = 0

(* The place that is e places behind the head.                             *)
Behind(head, e, c) == IF e <= head THEN head - e ELSE head - e + c

(* The ring r of c places holds the values of s.                           *)
Holds(r, c, s) ==
  /\ Ring(r, c) /\ s \in Seq(Nat) /\ Len(s) = r.count
  /\ \A e \in 1 .. Len(s) : r.data[Behind(r.head, e, c)] = FromEnd(s, e)

(* The capacity is the number of places.                                   *)
LEMMA CapIs ==
  ASSUME NEW r, NEW c, Ring(r, c)
  PROVE  Buffer!Cap(r) = c
<1>1. DOMAIN r.data = 0 .. c - 1 /\ 0 \in Int /\ c - 1 \in Int /\ c \in Nat
  BY DEF Ring
<1>2. Cardinality(0 .. c - 1) = c
  <2>1. Cardinality(0 .. c - 1) = IF 0 > c - 1 THEN 0 ELSE (c - 1) - 0 + 1
    BY <1>1, FS_Interval
  <2> QED BY <1>1, <2>1
<1> QED BY <1>1, <1>2 DEF Buffer!Cap, Buffer!Cardinality, Cardinality

(* A new buffer holds nothing,                                             *)
LEMMA EmptyHolds ==
  ASSUME NEW c \in Nat
  PROVE  Holds(Buffer!Empty(c), c, <<>>)
<1> DEFINE r == Buffer!Empty(c)
<1>1. r = [data |-> [k \in 0 .. c - 1 |-> 0], head |-> 0, count |-> 0]
  BY DEF Buffer!Empty
<1>2. Ring(r, c)
  BY <1>1 DEF Ring
<1> QED BY <1>1, <1>2 DEF Holds

(* and nothing is left of a buffer that was cleared.                       *)
LEMMA ClearedHolds ==
  ASSUME NEW r, NEW c, Ring(r, c)
  PROVE  Holds(Buffer!Cleared(r), c, <<>>)
<1> DEFINE p == Buffer!Cleared(r)
<1>1. /\ p \in [data : [0 .. c - 1 -> Nat], head : Nat, count : 0 .. c]
      /\ p.head = 0 /\ p.count = 0
  <2>1. c \in Nat /\ 0 \in 0 .. c /\ r \in [data : [0 .. c - 1 -> Nat], head : Nat, count : 0 .. c]
    BY DEF Ring
  <2> QED BY <2>1 DEF Buffer!Cleared
<1> HIDE DEF p
<1>2. Ring(p, c)
  BY <1>1 DEF Ring
<1> QED BY <1>1, <1>2 DEF Holds, p

(* at: counted from the oldest value.                                      *)
LEMMA AtIs ==
  ASSUME NEW r, NEW c, NEW s, Holds(r, c, s), NEW i \in 1 .. Len(s)
  PROVE  Buffer!At(r, i - 1) = s[i]
<1> DEFINE e == Len(s) + 1 - i
           x == r.head - r.count + (i - 1) + c
<1>1. /\ c \in Nat \ {0} /\ Len(s) \in Nat /\ Len(s) = r.count /\ r.count <= c
      /\ r.head \in Nat /\ r.head < c
  BY DEF Holds, Ring
<1>2. e \in 1 .. Len(s) /\ Len(s) + 1 - e = i /\ x \in 0 .. 2 * c - 1 /\ x = r.head - e + c
  <2> DEFINE h == r.head
             k == r.count
             n == Len(s)
  <2>1. /\ c \in Nat \ {0} /\ n \in Nat /\ n = k /\ k <= c /\ h \in Nat /\ h < c /\ i \in 1 .. n
    BY <1>1
  <2> HIDE DEF h, k, n
  <2>2. /\ n + 1 - i \in 1 .. n /\ n + 1 - (n + 1 - i) = i
        /\ h - k + (i - 1) + c \in 0 .. 2 * c - 1 /\ h - k + (i - 1) + c = h - (n + 1 - i) + c
    BY <2>1
  <2> QED BY <2>2 DEF h, k, n
<1>3. Buffer!At(r, i - 1) = r.data[x % c]
  BY CapIs DEF Holds, Buffer!At
<1> HIDE DEF e, x
<1>4. x % c = Behind(r.head, e, c)
  <2>1. x % c = IF x < c THEN x ELSE x - c
    BY <1>1, <1>2, Wrapped
  <2> QED BY <1>1, <1>2, <2>1, SMTT(30) DEF Behind
<1>5. r.data[Behind(r.head, e, c)] = FromEnd(s, e)
  BY <1>2 DEF Holds
<1> QED BY <1>2, <1>3, <1>4, <1>5 DEF FromEnd

(* copyLatest: two runs, or one.                                           *)
LEMMA CopyLatestIs ==
  ASSUME NEW r, NEW c, NEW s, Holds(r, c, s), NEW n \in Nat
  PROVE  Buffer!CopyLatest(r, n) = Buffer!Newest(s, n)
<1> DEFINE m == AtMost(Len(s), n)
           start == (r.head - m + c) % c
           first == IF m <= c - start THEN m ELSE c - start
           u == Buffer!CopyLatest(r, n)
           v == Buffer!Newest(s, n)
<1>1. /\ c \in Nat /\ Len(s) \in Nat /\ Len(s) = r.count /\ r.count <= c
      /\ r.head \in Nat /\ (r.head < c \/ r.head = 0)
      /\ \A k \in 0 .. c - 1 : r.data[k] \in Nat
  BY DEF Holds, Ring
<1>2. m \in Nat /\ m <= c /\ m <= Len(s)
  BY <1>1 DEF AtMost
<1>3. v \in Seq(Nat) /\ Len(v) = m /\ \A e \in 1 .. m : FromEnd(v, e) = FromEnd(s, e)
  BY NewestIs DEF Holds
<1>4. Buffer!Min({n, r.count}) = m
  <2>1. Buffer!Min({n, r.count}) = IF n <= r.count THEN n ELSE r.count
    BY <1>1, LesserOf
  <2> QED BY <1>1, <2>1 DEF AtMost
<1>5. Buffer!Cap(r) = c
  BY CapIs DEF Holds
<1> HIDE DEF m, v
<1>6. CASE m = 0
  <2>1. u = <<>>
    BY <1>4, <1>6 DEF Buffer!CopyLatest
  <2>2. v = <<>>
    BY <1>3, <1>6
  <2> QED BY <2>1, <2>2 DEF v
<1>7. CASE m # 0
  <2>1. c \in Nat \ {0} /\ m \in 1 .. c /\ r.head \in 0 .. c - 1
    BY <1>1, <1>2, <1>7
  <2>2. start = Behind(r.head, m, c) /\ start \in 0 .. c - 1
    <3> DEFINE x == r.head - m + c
    <3>1. x \in 0 .. 2 * c - 1
      BY <2>1
    <3> HIDE DEF x
    <3>2. x % c = IF x < c THEN x ELSE x - c
      BY <2>1, <3>1, Wrapped
    <3> QED BY <2>1, <3>1, <3>2 DEF Behind, x
  <2>3. Buffer!Min({m, c - start}) = first
    <3>1. m \in Int /\ c - start \in Int
      BY <2>1, <2>2
    <3> HIDE DEF start
    <3> QED BY ONLY <3>1, LesserOf DEF first
  <2>4. u = [k \in 1 .. first |-> r.data[start + k - 1]] \o [k \in 1 .. m - first |-> r.data[k - 1]]
    BY <1>4, <1>5, <1>7, <2>3 DEF Buffer!CopyLatest
  <2>5. first \in 1 .. m /\ first <= c - start /\ (first = m \/ first = c - start)
    BY <2>1, <2>2
  <2> HIDE DEF start, first, u
  <2> DEFINE front == [k \in 1 .. first |-> r.data[start + k - 1]]
             back == [k \in 1 .. m - first |-> r.data[k - 1]]
  <2>6. /\ front \in Seq(Nat) /\ Len(front) = first
        /\ \A k \in 1 .. first : front[k] = r.data[start + k - 1]
    <3>1. \A k \in 1 .. first : r.data[start + k - 1] \in Nat
      BY <1>1, <2>1, <2>2, <2>5
    <3> QED BY <2>5, <3>1
  <2>7. /\ back \in Seq(Nat) /\ Len(back) = m - first
        /\ \A k \in 1 .. m - first : back[k] = r.data[k - 1]
    <3>1. \A k \in 1 .. m - first : r.data[k - 1] \in Nat
      BY <1>1, <2>1, <2>2, <2>5
    <3>2. m - first \in Nat
      BY <2>1, <2>5
    <3> QED BY <3>1, <3>2
  <2> HIDE DEF front, back
  <2>8. /\ u \in Seq(Nat) /\ Len(u) = m
        /\ \A e \in 1 .. m : FromEnd(u, e) = IF e <= m - first THEN FromEnd(back, e)
                                             ELSE FromEnd(front, e - (m - first))
    <3>1. u = front \o back
      BY <2>4 DEF front, back
    <3>2. first + (m - first) = m
      BY <2>1, <2>5
    <3>3. /\ front \o back \in Seq(Nat) /\ Len(front \o back) = Len(front) + Len(back)
          /\ \A e \in 1 .. Len(front) + Len(back) :
               FromEnd(front \o back, e) = IF e <= Len(back) THEN FromEnd(back, e) ELSE FromEnd(front, e - Len(back))
      BY ONLY <2>6, <2>7, ConcatFromEnd
    <3> QED BY <2>6, <2>7, <3>1, <3>2, <3>3
  <2>9. ASSUME NEW e \in 1 .. m PROVE FromEnd(u, e) = FromEnd(v, e)
    <3>0. e \in 1 .. Len(s)
      BY <1>1, <1>2
    <3>1. FromEnd(v, e) = r.data[Behind(r.head, e, c)]
      BY <1>3, <3>0 DEF Holds
    <3>2. CASE e <= m - first
      <4>1. FromEnd(u, e) = back[m - first + 1 - e]
        BY <2>7, <2>8, <3>2 DEF FromEnd
      <4>2. m - first + 1 - e \in 1 .. m - first
        BY <2>1, <2>5, <3>2
      <4>3. FromEnd(u, e) = r.data[m - first + 1 - e - 1]
        BY <2>7, <4>1, <4>2
      <4>4. m - first + 1 - e - 1 = Behind(r.head, e, c)
        BY <2>1, <2>2, <2>5, <3>2 DEF Behind
      <4> QED BY <3>1, <4>3, <4>4
    <3>3. CASE ~(e <= m - first)
      <4>1. FromEnd(u, e) = front[first + 1 - (e - (m - first))]
        BY <2>6, <2>8, <3>3 DEF FromEnd
      <4>2. first + 1 - (e - (m - first)) \in 1 .. first /\ first + 1 - (e - (m - first)) = m + 1 - e
        BY <2>1, <2>5, <3>3
      <4>3. FromEnd(u, e) = r.data[start + (m + 1 - e) - 1]
        BY <2>6, <4>1, <4>2
      <4>4. start + (m + 1 - e) - 1 = Behind(r.head, e, c)
        BY <2>1, <2>2, <2>5, <3>3 DEF Behind
      <4> QED BY <3>1, <4>3, <4>4
    <3> QED BY <3>2, <3>3
  <2>10. u = v
    BY <1>3, <2>8, <2>9, SameFromEnd
  <2> QED BY <2>10 DEF u, v
<1> QED BY <1>6, <1>7

(* What PushSpan writes, by the values that have room and the length of    *)
(* the first run.                                                          *)
Written(r, cap, values, n, first) ==
  [data  |-> [k \in DOMAIN r.data |->
                CASE k \in r.head .. r.head + first - 1 -> values[k - r.head + 1]
                  [] k \in 0 .. n - first - 1 -> values[first + k + 1]
                  [] OTHER -> r.data[k]],
   head  |-> (r.head + n) % cap,
   count |-> Buffer!Min({r.count + n, cap})]

(* push of a span: what is written takes the places behind the new head.   *)
LEMMA PushSpanHolds ==
  ASSUME NEW r, NEW c, NEW s, Holds(r, c, s), NEW span \in Seq(Nat)
  PROVE  Holds(Buffer!PushSpan(r, span), c, Buffer!Newest(s \o span, c))
<1> DEFINE values == Buffer!Newest(span, c)
           n == AtMost(Len(span), c)
           h == r.head
           first == IF n <= c - h THEN n ELSE c - h
           p == Buffer!PushSpan(r, span)
           t == Buffer!Newest(s \o span, c)
           D == [k \in 0 .. c - 1 |-> CASE k \in h .. h + first - 1 -> values[k - h + 1]
                                       [] k \in 0 .. n - first - 1 -> values[first + k + 1]
                                       [] OTHER -> r.data[k]]
           g == (h + n) % c
           count == AtMost(Len(s) + n, c)
<1>1. /\ c \in Nat /\ Len(s) \in Nat /\ Len(s) = r.count /\ r.count <= c /\ Len(span) \in Nat
      /\ h \in Nat /\ (h < c \/ h = 0) /\ s \in Seq(Nat)
      /\ r.data \in [0 .. c - 1 -> Nat]
  BY DEF Holds, Ring
<1>2. Buffer!Cap(r) = c
  BY CapIs DEF Holds
<1>3. /\ values \in Seq(Nat) /\ Len(values) = n
      /\ \A e \in 1 .. n : FromEnd(values, e) = FromEnd(span, e)
  BY <1>1, NewestIs
<1>4. /\ t \in Seq(Nat) /\ Len(t) = AtMost(Len(s) + Len(span), c)
      /\ \A e \in 1 .. Len(t) : FromEnd(t, e) = IF e <= Len(span) THEN FromEnd(span, e)
                                                ELSE FromEnd(s, e - Len(span))
  <2> DEFINE all == s \o span
  <2>1. /\ all \in Seq(Nat) /\ Len(all) = Len(s) + Len(span)
        /\ \A e \in 1 .. Len(s) + Len(span) :
             FromEnd(all, e) = IF e <= Len(span) THEN FromEnd(span, e) ELSE FromEnd(s, e - Len(span))
    BY <1>1, ConcatFromEnd
  <2> HIDE DEF all
  <2>2. /\ t \in Seq(Nat) /\ Len(t) = AtMost(Len(all), c)
        /\ \A e \in 1 .. AtMost(Len(all), c) : FromEnd(t, e) = FromEnd(all, e)
    BY <1>1, <2>1, NewestIs DEF all
  <2>3. AtMost(Len(all), c) <= Len(all) /\ AtMost(Len(all), c) \in Nat
    BY <1>1, <2>1 DEF AtMost
  <2> QED BY <2>1, <2>2, <2>3
<1>5. n \in Nat /\ n <= c /\ n <= Len(span)
  BY <1>1 DEF AtMost
<1>6. CASE c = 0
  <2>1. p = r /\ Len(s) = 0 /\ Len(t) = 0
    BY <1>1, <1>2, <1>4, <1>6 DEF Buffer!PushSpan, AtMost
  <2>2. t = <<>> /\ s = <<>>
    BY <1>1, <1>4, <2>1
  <2> QED BY <2>1, <2>2 DEF p, t
<1>7. CASE c # 0
  <2>1. c \in Nat \ {0} /\ h \in 0 .. c - 1
    BY <1>1, <1>7
  <2>2. g = (IF h + n < c THEN h + n ELSE h + n - c) /\ g \in 0 .. c - 1
    <3> DEFINE x == h + n
    <3>1. x \in 0 .. 2 * c - 1
      BY <1>5, <2>1
    <3> HIDE DEF x
    <3>2. x % c = IF x < c THEN x ELSE x - c
      BY <2>1, <3>1, Wrapped
    <3> QED BY <1>5, <2>1, <3>1, <3>2, SMTT(30) DEF x
  <2>3. first \in 0 .. n /\ ((first = n /\ n <= c - h) \/ first = c - h)
    BY <1>5, <2>1
  <2>4. p = [data |-> D, head |-> g, count |-> count]
    <3>1. SubSeq(span, Buffer!Max({1, Len(span) - c + 1}), Len(span)) = values
      BY DEF Buffer!Newest
    <3>2. Buffer!Min({n, c - h}) = first
      <4>1. n \in Int /\ c - h \in Int
        BY <1>5, <2>1
      <4> HIDE DEF n, h
      <4> QED BY ONLY <4>1, LesserOf DEF first
    <3>5. Len(values) = n
      BY <1>3
    <3>3. Buffer!Min({r.count + n, c}) = count
      <4>1. r.count + n \in Int /\ c \in Int
        BY <1>1, <1>5
      <4>2. Buffer!Min({r.count + n, c}) = IF r.count + n <= c THEN r.count + n ELSE c
        BY ONLY <4>1, LesserOf
      <4> QED BY <1>1, <4>2 DEF AtMost
    <3>4. DOMAIN r.data = 0 .. c - 1
      BY <1>1
    <3> HIDE DEF values, first, count, n
    <3> DEFINE V == SubSeq(span, Buffer!Max({1, Len(span) - Buffer!Cap(r) + 1}), Len(span))
    <3>6. Buffer!Cap(r) # 0 => p = Written(r, Buffer!Cap(r), V, Len(V), Buffer!Min({Len(V), Buffer!Cap(r) - r.head}))
      BY Zenon DEF Buffer!PushSpan, Written
    <3>7. V = values
      BY <1>2, <3>1
    <3> HIDE DEF V, p
    <3>8. p = Written(r, c, values, n, first)
      BY <1>2, <1>7, <3>2, <3>5, <3>6, <3>7
    <3>9. Written(r, c, values, n, first) = [data |-> D, head |-> g, count |-> count]
      BY <3>3, <3>4 DEF Written
    <3> QED BY <3>8, <3>9
  <2> HIDE DEF values, n, h, first, p, t, g, D, count
  <2>5. \A k \in 0 .. c - 1 : D[k] = CASE k \in h .. h + first - 1 -> values[k - h + 1]
                                       [] k \in 0 .. n - first - 1 -> values[first + k + 1]
                                       [] OTHER -> r.data[k]
    BY DEF D
  <2>6. \A k \in 1 .. n : values[k] \in Nat
    BY <1>3
  <2>7. ASSUME NEW k \in 0 .. c - 1 PROVE D[k] \in Nat
    <3>1. CASE k \in h .. h + first - 1
      <4>1. k - h + 1 \in 1 .. n /\ k \notin 0 .. n - first - 1
        BY <1>5, <2>1, <2>3, <3>1
      <4> QED BY <2>5, <2>6, <3>1, <4>1
    <3>2. CASE k \notin h .. h + first - 1 /\ k \in 0 .. n - first - 1
      <4>1. first + k + 1 \in 1 .. n
        BY <1>5, <2>1, <2>3, <3>2
      <4> QED BY <2>5, <2>6, <3>2, <4>1
    <3>3. CASE k \notin h .. h + first - 1 /\ k \notin 0 .. n - first - 1
      <4>1. D[k] = r.data[k]
        BY <2>5, <3>3
      <4> QED BY <1>1, <4>1
    <3> QED BY <3>1, <3>2, <3>3
  <2>8. D \in [0 .. c - 1 -> Nat]
    BY <2>7 DEF D
  <2>9. count \in 0 .. c /\ Len(t) = count
    <3>1. Len(t) = AtMost(Len(s) + Len(span), c)
      BY <1>4
    <3> QED BY <1>1, <1>5, <2>1, <3>1 DEF AtMost, count, n
  <2>10. Ring(p, c)
    BY <1>1, <2>1, <2>2, <2>4, <2>8, <2>9 DEF Ring
  \* The places of what was written, and of what was not.
  <2>11. ASSUME NEW e \in 1 .. n PROVE D[Behind(g, e, c)] = values[n + 1 - e] /\ Behind(g, e, c) \in 0 .. c - 1
    <3> DEFINE k == Behind(g, e, c)
    <3>0. k \in 0 .. c - 1
      BY <1>5, <2>1, <2>2 DEF Behind
    <3>1. CASE e <= n - first
      <4>1. k = n - first - e /\ k \notin h .. h + first - 1 /\ k \in 0 .. n - first - 1 /\ first + k + 1 = n + 1 - e
        BY <1>5, <2>1, <2>2, <2>3, <3>1 DEF Behind
      <4> HIDE DEF k
      <4>2. D[k] = values[first + k + 1]
        BY <2>5, <3>0, <4>1
      <4> QED BY <3>0, <4>1, <4>2 DEF k
    <3>2. CASE ~(e <= n - first)
      <4>1. k = h + n - e /\ k \in h .. h + first - 1 /\ k \notin 0 .. n - first - 1
            /\ k - h + 1 = n + 1 - e
        BY <1>5, <2>1, <2>2, <2>3, <3>2 DEF Behind
      <4> HIDE DEF k
      <4>2. D[k] = values[k - h + 1]
        BY <2>5, <3>0, <4>1
      <4> QED BY <3>0, <4>1, <4>2 DEF k
    <3> QED BY <3>1, <3>2
  <2>12. ASSUME NEW e \in n + 1 .. count PROVE D[Behind(g, e, c)] = r.data[Behind(h, e - n, c)]
    <3> DEFINE k == Behind(g, e, c)
    <3>0. e \in Nat /\ e <= c /\ e > n
      BY <1>5, <2>1, <2>9
    <3>1. /\ k \in 0 .. c - 1 /\ k = Behind(h, e - n, c)
          /\ k \notin h .. h + first - 1 /\ k \notin 0 .. n - first - 1
      BY <1>5, <2>1, <2>2, <2>3, <3>0 DEF Behind
    <3> HIDE DEF k
    <3>2. D[k] = r.data[k]
      BY <2>5, <3>1
    <3> QED BY <3>1, <3>2 DEF k
  <2>13. ASSUME NEW e \in 1 .. Len(t) PROVE p.data[Behind(p.head, e, c)] = FromEnd(t, e)
    <3>0. p.data = D /\ p.head = g /\ e \in 1 .. count
      BY <2>4, <2>9
    <3>1. CASE e <= n
      <4>1. e \in 1 .. n /\ e <= Len(span)
        BY <1>1, <1>5, <2>9, <3>0, <3>1
      <4>2. D[Behind(g, e, c)] = FromEnd(values, e)
        BY <1>3, <2>11, <4>1 DEF FromEnd
      <4> QED BY <1>3, <1>4, <3>0, <4>1, <4>2
    <3>2. CASE e > n
      <4>1. n = Len(span) /\ e - n \in 1 .. Len(s) /\ ~(e <= Len(span)) /\ e \in n + 1 .. count
        <5>1. e <= c /\ n < c
          BY <1>5, <2>1, <2>9, <3>0, <3>2
        <5>2. n = Len(span)
          BY <1>1, <5>1 DEF n, AtMost
        <5>3. e <= Len(s) + n
          BY <1>1, <1>5, <2>1, <3>0 DEF count, AtMost
        <5> QED BY <1>1, <1>5, <2>9, <3>0, <3>2, <5>1, <5>2, <5>3
      <4>2. D[Behind(g, e, c)] = r.data[Behind(h, e - n, c)]
        BY <2>12, <4>1
      <4>3. r.data[Behind(h, e - n, c)] = FromEnd(s, e - n)
        BY <4>1 DEF Holds, h
      <4> QED BY <1>4, <3>0, <4>1, <4>2, <4>3
    <3> QED BY <1>5, <2>9, <3>0, <3>1, <3>2
  <2>14. p.count = Len(t)
    BY <2>4, <2>9
  <2>15. Holds(p, c, t)
    BY <1>4, <2>10, <2>13, <2>14 DEF Holds
  <2> QED BY <2>15 DEF p, t
<1> QED BY <1>6, <1>7

(* push of one value is push of a span of it.                              *)
LEMMA PushHolds ==
  ASSUME NEW r, NEW c, NEW s, Holds(r, c, s), c # 0, NEW v \in Nat
  PROVE  Holds(Buffer!Push(r, v), c, Buffer!Newest(Append(s, v), c))
<1> DEFINE p == Buffer!Push(r, v)
           t == Buffer!Newest(Append(s, v), c)
           h == r.head
           g == (h + 1) % c
           D == [r.data EXCEPT ![h] = v]
           count == AtMost(Len(s) + 1, c)
<1>1. /\ c \in Nat \ {0} /\ Len(s) \in Nat /\ Len(s) = r.count /\ r.count <= c
      /\ h \in 0 .. c - 1 /\ s \in Seq(Nat)
      /\ r.data \in [0 .. c - 1 -> Nat]
  BY DEF Holds, Ring
<1>2. /\ t \in Seq(Nat) /\ Len(t) = count
      /\ \A e \in 1 .. count : FromEnd(t, e) = IF e = 1 THEN v ELSE FromEnd(s, e - 1)
  <2> DEFINE all == Append(s, v)
  <2>1. /\ all \in Seq(Nat) /\ Len(all) = Len(s) + 1
        /\ \A i \in 1 .. Len(s) : all[i] = s[i]
        /\ all[Len(s) + 1] = v
    BY <1>1, AppendProperties
  <2> HIDE DEF all
  <2>2. /\ t \in Seq(Nat) /\ Len(t) = AtMost(Len(all), c)
        /\ \A e \in 1 .. AtMost(Len(all), c) : FromEnd(t, e) = FromEnd(all, e)
    BY <1>1, <2>1, NewestIs DEF all
  <2>3. AtMost(Len(all), c) = count /\ count \in Nat /\ count <= Len(s) + 1
    BY <1>1, <2>1 DEF AtMost
  <2> HIDE DEF count, t
  <2>4. ASSUME NEW e \in 1 .. count PROVE FromEnd(t, e) = IF e = 1 THEN v ELSE FromEnd(s, e - 1)
    <3>1. FromEnd(t, e) = all[Len(s) + 1 + 1 - e]
      BY <2>1, <2>2, <2>3 DEF FromEnd
    <3>2. CASE e = 1
      <4>1. Len(s) + 1 + 1 - e = Len(s) + 1
        BY <1>1, <3>2
      <4> QED BY <2>1, <3>1, <3>2, <4>1
    <3>3. CASE e # 1
      <4>1. Len(s) + 1 + 1 - e \in 1 .. Len(s) /\ Len(s) + 1 + 1 - e = Len(s) + 1 - (e - 1)
        <5>1. e \in Nat /\ e >= 2 /\ e <= Len(s) + 1
          BY <1>1, <2>3, <3>3
        <5> QED BY <1>1, <5>1, SMTT(30)
      <4> QED BY <2>1, <3>1, <3>3, <4>1 DEF FromEnd
    <3> QED BY <3>2, <3>3
  <2> QED BY <2>2, <2>3, <2>4 DEF t, count
<1>3. g = (IF h + 1 < c THEN h + 1 ELSE 0) /\ g \in 0 .. c - 1
  <2> DEFINE x == h + 1
  <2> HIDE DEF h
  <2>1. x \in 0 .. 2 * c - 1 /\ x <= c
    BY <1>1
  <2> HIDE DEF x
  <2>2. x % c = IF x < c THEN x ELSE x - c
    BY <1>1, <2>1, Wrapped
  <2> QED BY <1>1, <2>1, <2>2 DEF x
<1>4. p = [data |-> D, head |-> g, count |-> count]
  <2>1. Buffer!Cap(r) = c
    BY CapIs DEF Holds
  <2>2. r.count + 1 \in Int /\ c \in Int
    BY <1>1
  <2>3. Buffer!Min({r.count + 1, c}) = IF r.count + 1 <= c THEN r.count + 1 ELSE c
    BY ONLY <2>2, LesserOf
  <2>4. Buffer!Min({r.count + 1, c}) = count
    BY <1>1, <2>3 DEF AtMost
  <2> HIDE DEF count
  <2> QED BY <1>1, <2>1, <2>4 DEF Buffer!Push
<1>5. D \in [0 .. c - 1 -> Nat] /\ \A k \in 0 .. c - 1 : D[k] = IF k = h THEN v ELSE r.data[k]
  BY <1>1
<1>6. count \in 0 .. c /\ count <= Len(s) + 1
  BY <1>1 DEF AtMost
<1> HIDE DEF D, g, h, count, p, t
<1>7. Ring(p, c)
  BY <1>1, <1>3, <1>4, <1>5, <1>6 DEF Ring
<1>8. ASSUME NEW e \in 1 .. Len(t) PROVE p.data[Behind(p.head, e, c)] = FromEnd(t, e)
  <2>0. p.data = D /\ p.head = g /\ e \in 1 .. count /\ e <= c
    BY <1>1, <1>2, <1>4, <1>6
  <2>1. CASE e = 1
    <3>1. Behind(g, e, c) = h
      BY <1>1, <1>3, <2>1 DEF Behind
    <3> QED BY <1>1, <1>2, <1>5, <2>0, <2>1, <3>1
  <2>2. CASE e # 1
    <3>1. /\ Behind(g, e, c) = Behind(h, e - 1, c) /\ Behind(g, e, c) # h
          /\ Behind(g, e, c) \in 0 .. c - 1
      BY <1>1, <1>3, <2>0, <2>2 DEF Behind
    <3>2. e - 1 \in 1 .. Len(s)
      BY <1>1, <1>6, <2>0, <2>2
    <3>3. r.data[Behind(h, e - 1, c)] = FromEnd(s, e - 1)
      BY <3>2 DEF Holds, h
    <3> QED BY <1>2, <1>5, <2>0, <2>2, <3>1, <3>3
  <2> QED BY <2>1, <2>2
<1>9. p.count = Len(t)
  BY <1>2, <1>4
<1>10. Holds(p, c, t)
  BY <1>2, <1>7, <1>8, <1>9 DEF Holds
<1> QED BY <1>10 DEF p, t

(* pushTo: the two runs of the array are what it holds.                    *)
LEMMA PushToHolds ==
  ASSUME NEW r, NEW c, NEW s, Holds(r, c, s), NEW o, NEW d, NEW t, Holds(o, d, t), Len(t) <= d
  PROVE  Holds(Buffer!PushTo(r, o), d, Buffer!Newest(t \o s, d))
<1> DEFINE h == r.head
           n == r.count
           x == h - n + c
           start == x % c
           first == IF n <= c - start THEN n ELSE c - start
           front == [k \in 1 .. first |-> r.data[start + k - 1]]
           back == [k \in 1 .. n - first |-> r.data[0 + k - 1]]
           p == Buffer!PushTo(r, o)
<1>1. /\ c \in Nat /\ Len(s) \in Nat /\ Len(s) = n /\ n \in 0 .. c
      /\ h \in Nat /\ (h < c \/ h = 0) /\ s \in Seq(Nat)
      /\ \A k \in 0 .. c - 1 : r.data[k] \in Nat
  BY DEF Holds, Ring
<1>2. d \in Nat /\ t \in Seq(Nat)
  BY DEF Holds, Ring
<1>3. CASE n = 0
  <2>1. p = o
    BY <1>3 DEF Buffer!PushTo
  <2>2. s = <<>>
    BY <1>1, <1>3
  <2>3. Buffer!Newest(t \o s, d) = t
    <3>1. t \o s = t
      BY <1>2, <2>2, ConcatEmptySeq
    <3>2. Buffer!Newest(t, d) \in Seq(Nat) /\ Len(Buffer!Newest(t, d)) = Len(t)
      BY <1>2, NewestIs, LenProperties DEF AtMost
    <3>3. \A e \in 1 .. Len(t) : FromEnd(Buffer!Newest(t, d), e) = FromEnd(t, e)
      BY <1>2, NewestIs, LenProperties DEF AtMost
    <3> QED BY <1>2, <3>1, <3>2, <3>3, SameFromEnd
  <2> QED BY <2>1, <2>3
<1>4. CASE n # 0
  <2>1. c \in Nat \ {0} /\ n \in 1 .. c /\ h \in 0 .. c - 1
    BY <1>1, <1>4
  <2>2. start = Behind(h, n, c) /\ start \in 0 .. c - 1
    <3> HIDE DEF h, n
    <3>1. x \in 0 .. 2 * c - 1
      BY <2>1
    <3> HIDE DEF x
    <3>2. x % c = IF x < c THEN x ELSE x - c
      BY <2>1, <3>1, Wrapped
    <3> QED BY <2>1, <3>1, <3>2 DEF Behind, x
  <2>3. Buffer!Min({n, c - start}) = first
    <3>1. n \in Int /\ c - start \in Int
      BY <2>1, <2>2
    <3> HIDE DEF start
    <3> QED BY ONLY <3>1, LesserOf DEF first
  <2>4. p = Buffer!PushSpan(Buffer!PushSpan(o, front), back)
    <3>1. Buffer!Cap(r) = c
      BY CapIs DEF Holds
    <3> QED BY <1>4, <2>3, <3>1 DEF Buffer!PushTo
  <2>5. first \in 1 .. n /\ first <= c - start /\ (first = n \/ first = c - start)
    BY <2>1, <2>2
  <2> HIDE DEF start, first, p, x, h, n
  <2>6. /\ front \in Seq(Nat) /\ Len(front) = first
        /\ \A k \in 1 .. first : front[k] = r.data[start + k - 1]
    <3>1. \A k \in 1 .. first : r.data[start + k - 1] \in Nat
      BY <1>1, <2>1, <2>2, <2>5
    <3> QED BY <2>5, <3>1
  <2>7. /\ back \in Seq(Nat) /\ Len(back) = n - first
        /\ \A k \in 1 .. n - first : back[k] = r.data[k - 1]
    <3>1. \A k \in 1 .. n - first : r.data[0 + k - 1] \in Nat /\ 0 + k - 1 = k - 1
      BY <1>1, <2>1, <2>2, <2>5
    <3>2. n - first \in Nat
      BY <2>1, <2>5
    <3> QED BY <3>1, <3>2
  <2> HIDE DEF front, back
  <2>8. front \o back = s
    <3>1. /\ front \o back \in Seq(Nat) /\ Len(front \o back) = Len(front) + Len(back)
          /\ \A e \in 1 .. Len(front) + Len(back) :
               FromEnd(front \o back, e) = IF e <= Len(back) THEN FromEnd(back, e) ELSE FromEnd(front, e - Len(back))
      BY ONLY <2>6, <2>7, ConcatFromEnd
    <3>2. Len(front \o back) = Len(s) /\ Len(front) + Len(back) = Len(s)
      BY <1>1, <2>1, <2>5, <2>6, <2>7, <3>1
    <3>3. ASSUME NEW e \in 1 .. Len(s) PROVE FromEnd(front \o back, e) = FromEnd(s, e)
      <4>0. e \in 1 .. n /\ FromEnd(s, e) = r.data[Behind(h, e, c)]
        BY <1>1 DEF Holds, h
      <4>1. CASE e <= n - first
        <5>1. FromEnd(front \o back, e) = back[n - first + 1 - e]
          BY <2>7, <3>1, <3>2, <4>1 DEF FromEnd
        <5>2. n - first + 1 - e \in 1 .. n - first
          BY <2>1, <2>5, <4>0, <4>1
        <5>3. n - first + 1 - e - 1 = Behind(h, e, c)
          BY <2>1, <2>2, <2>5, <4>0, <4>1 DEF Behind
        <5> QED BY <2>7, <4>0, <5>1, <5>2, <5>3
      <4>2. CASE ~(e <= n - first)
        <5>1. FromEnd(front \o back, e) = front[first + 1 - (e - (n - first))]
          BY <2>6, <2>7, <3>1, <3>2, <4>2 DEF FromEnd
        <5>2. /\ first + 1 - (e - (n - first)) \in 1 .. first
              /\ first + 1 - (e - (n - first)) = n + 1 - e
          BY <2>1, <2>5, <4>0, <4>2
        <5>3. start + (n + 1 - e) - 1 = Behind(h, e, c)
          BY <2>1, <2>2, <2>5, <4>0, <4>2 DEF Behind
        <5> QED BY <2>6, <4>0, <5>1, <5>2, <5>3
      <4> QED BY <4>1, <4>2
    <3> QED BY <1>1, <3>1, <3>2, <3>3, SameFromEnd
  <2> DEFINE u == Buffer!Newest(t \o front, d)
  <2>9. Holds(Buffer!PushSpan(o, front), d, u)
    BY <2>6, PushSpanHolds
  <2>10. Holds(p, d, Buffer!Newest(u \o back, d))
    <3> HIDE DEF u
    <3> QED BY <2>4, <2>7, <2>9, PushSpanHolds
  <2>11. t \o front \in Seq(Nat) /\ (t \o front) \o back = t \o s
    <3>1. (t \o front) \o back = t \o (front \o back)
      BY ONLY <1>2, <2>6, <2>7, ConcatAssociative
    <3> QED BY <1>2, <2>6, <2>8, <3>1, ConcatProperties
  <2>12. Buffer!Newest(u \o back, d) = Buffer!Newest((t \o front) \o back, d)
    BY <1>2, <2>7, <2>11, NewestOnce
  <2> QED BY <2>10, <2>11, <2>12 DEF p
<1> QED BY <1>3, <1>4

(* A list that is not empty has a greatest value.                          *)
LEMMA GreatestOf ==
  ASSUME NEW s \in Seq(Nat), s # <<>>
  PROVE  \E j \in 1 .. Len(s) : \A i \in 1 .. Len(s) : s[i] <= s[j]
<1> DEFINE P == {n \in Nat : n + 1 <= Len(s) => \E j \in 1 .. n + 1 : \A i \in 1 .. n + 1 : s[i] <= s[j]}
<1>0. Len(s) \in Nat \ {0} /\ \A i \in 1 .. Len(s) : s[i] \in Nat
  BY EmptySeq
<1>1. 0 \in P
  <2> SUFFICES \E j \in 1 .. 0 + 1 : \A i \in 1 .. 0 + 1 : s[i] <= s[j]
    OBVIOUS
  <2>1. \A i \in 1 .. 0 + 1 : i = 1
    OBVIOUS
  <2>2. 1 \in 1 .. 0 + 1 /\ s[1] \in Nat
    BY <1>0
  <2> QED BY <2>1, <2>2
<1>2. ASSUME NEW n \in P PROVE n + 1 \in P
  <2> SUFFICES ASSUME (n + 1) + 1 <= Len(s)
               PROVE  \E j \in 1 .. (n + 1) + 1 : \A i \in 1 .. (n + 1) + 1 : s[i] <= s[j]
    OBVIOUS
  <2>1. n \in Nat /\ n + 1 <= Len(s)
    BY <1>0
  <2>2. PICK j \in 1 .. n + 1 : \A i \in 1 .. n + 1 : s[i] <= s[j]
    BY <2>1
  <2>3. /\ j \in 1 .. (n + 1) + 1 /\ (n + 1) + 1 \in 1 .. Len(s) /\ s[j] \in Nat /\ s[(n + 1) + 1] \in Nat
        /\ \A i \in 1 .. (n + 1) + 1 : i \in 1 .. n + 1 \/ i = (n + 1) + 1
        /\ \A i \in 1 .. (n + 1) + 1 : s[i] \in Nat
    BY <1>0, <2>1
  <2>4. CASE s[j] <= s[(n + 1) + 1]
    <3>1. \A i \in 1 .. (n + 1) + 1 : s[i] <= s[(n + 1) + 1]
      BY <2>2, <2>3, <2>4, SMTT(30)
    <3> QED BY <2>1, <3>1
  <2>5. CASE s[(n + 1) + 1] <= s[j]
    <3>1. \A i \in 1 .. (n + 1) + 1 : s[i] <= s[j]
      BY <2>2, <2>3, <2>5
    <3> QED BY <2>3, <3>1
  <2>6. s[j] <= s[(n + 1) + 1] \/ s[(n + 1) + 1] <= s[j]
    BY <2>3
  <2> QED BY ONLY <2>4, <2>5, <2>6
<1> HIDE DEF P
<1>3. P = Nat
  <2>1. P \in SUBSET Nat
    BY DEF P
  <2> QED BY ONLY <2>1, <1>1, <1>2, EveryNumber
<1>4. Len(s) - 1 \in P /\ (Len(s) - 1) + 1 = Len(s)
  BY <1>0, <1>3
<1> QED BY <1>4 DEF P

(* The greatest of a set is the one that is in it and above all others.    *)
LEMMA TheBufferMax ==
  ASSUME NEW S \in SUBSET Int, NEW m \in S, \A x \in S : m >= x
  PROVE  Buffer!Max(S) = m
<1>1. \A x \in S : (\A y \in S : x >= y) => x = m
  BY m \in Int
<1>2. Buffer!Max(S) \in S /\ \A y \in S : Buffer!Max(S) >= y
  BY DEF Buffer!Max
<1> QED BY <1>1, <1>2

(* The greatest value, or 0.                                               *)
Greatest(s) == Buffer!Max({0} \cup Buffer!ToSet(s))

LEMMA NoneIsGreatest == Greatest(<<>>) = 0
<1>1. {0} \cup Buffer!ToSet(<<>>) = {0}
  BY DEF Buffer!ToSet
<1>2. {0} \in SUBSET Int /\ 0 \in {0} /\ \A x \in {0} : 0 >= x
  OBVIOUS
<1>3. Buffer!Max({0}) = 0
  BY ONLY <1>2, TheBufferMax
<1> QED BY <1>1, <1>3 DEF Greatest

(* computeMaximum                                                          *)
LEMMA MaximumIs ==
  ASSUME NEW r, NEW c, NEW s, Holds(r, c, s)
  PROVE  Buffer!Maximum(r) = Greatest(s) /\ Greatest(s) \in Nat
<1>1. s \in Seq(Nat) /\ Len(s) \in Nat /\ Len(s) = r.count
  BY DEF Holds
<1>2. CASE r.count = 0
  <2>1. s = <<>>
    BY <1>1, <1>2
  <2> QED BY <1>2, <2>1, NoneIsGreatest DEF Buffer!Maximum
<1>3. CASE r.count # 0
  <2>1. s # <<>>
    BY <1>1, <1>3
  <2>2. PICK j \in 1 .. Len(s) : \A i \in 1 .. Len(s) : s[i] <= s[j]
    BY <1>1, <2>1, GreatestOf
  <2> DEFINE S == Buffer!ToSet(s)
             A == {Buffer!At(r, i) : i \in 0 .. r.count - 1}
  <2>3. S = {s[i] : i \in 1 .. Len(s)}
    BY <1>1 DEF Buffer!ToSet
  <2>4. A = S
    <3>1. \A i \in 1 .. Len(s) : Buffer!At(r, i - 1) = s[i]
      BY AtIs
    <3>2. \A i \in 0 .. r.count - 1 : i + 1 \in 1 .. Len(s) /\ (i + 1) - 1 = i
      BY <1>1
    <3>3. \A i \in 1 .. Len(s) : i - 1 \in 0 .. r.count - 1
      BY <1>1
    <3>4. \A i \in 0 .. r.count - 1 : Buffer!At(r, i) = s[i + 1] /\ s[i + 1] \in S
      BY <2>3, <3>1, <3>2
    <3>5. A \subseteq S
      BY <3>4
    <3>6. S \subseteq A
      BY <2>3, <3>1, <3>3
    <3> QED BY <3>5, <3>6
  <2>5. s[j] \in S /\ s[j] \in Nat /\ \A x \in S : x \in Nat /\ x <= s[j]
    BY <1>1, <2>2, <2>3
  <2> HIDE DEF S, A
  <2>6. Buffer!Max(S) = s[j]
    <3>1. S \in SUBSET Int /\ s[j] \in S /\ \A x \in S : s[j] >= x
      BY <2>5
    <3> QED BY ONLY <3>1, TheBufferMax
  <2>7. Buffer!Max({0} \cup S) = s[j]
    <3> DEFINE T == {0} \cup S
    <3>1. T \in SUBSET Int /\ s[j] \in T /\ \A x \in T : s[j] >= x
      BY <2>5
    <3> HIDE DEF T
    <3>2. Buffer!Max(T) = s[j]
      BY ONLY <3>1, TheBufferMax
    <3> QED BY <3>2 DEF T
  <2> QED BY <1>3, <2>4, <2>5, <2>6, <2>7 DEF Buffer!Maximum, Greatest, S, A
<1> QED BY <1>2, <1>3

(***************************************************************************)
(* The ring holds what was pushed last, and the maximum is of that.        *)
(***************************************************************************)
RingInv ==
  /\ Holds(bufRing, Buffer!Cap(bufRing), bufLatest)
  /\ bufMaximum = Greatest(bufLatest)

(* A buffer of any capacity is one to start with.                          *)
LEMMA EmptyIsFine ==
  ASSUME NEW cap \in Capacities
  PROVE  Buffer!Cap(Buffer!Empty(cap)) = cap /\ Holds(Buffer!Empty(cap), cap, <<>>)
<1>1. cap \in Nat
  BY LevelsAssumption
<1>2. Holds(Buffer!Empty(cap), cap, <<>>)
  BY <1>1, EmptyHolds
<1> QED BY <1>2, CapIs DEF Holds

(* The buffer holds nothing at first.                                      *)
LEMMA RingInit == Buffer!Init => RingInv
<1> SUFFICES ASSUME Buffer!Init PROVE RingInv
  OBVIOUS
<1>1. PICK cap \in Capacities : bufRing = Buffer!Empty(cap)
  BY DEF Buffer!Init
<1>2. bufMaximum = 0 /\ bufLatest = <<>>
  BY DEF Buffer!Init
<1> QED BY <1>1, <1>2, EmptyIsFine, NoneIsGreatest DEF RingInv

(* What is pushed is a list of numbers.                                    *)
LEMMA SpansAre ==
  ASSUME NEW n \in Nat, NEW span \in Buffer!BoundedSeq(Samples, n)
  PROVE  span \in Seq(Nat)
<1>1. PICK m \in 0 .. n : span \in [1 .. m -> Samples]
  BY DEF Buffer!BoundedSeq, Buffer!SeqOf
<1>2. m \in Nat
  BY <1>1
<1>3. \A i \in 1 .. m : span[i] \in Nat
  BY <1>1, LevelsAssumption
<1>4. span \in [1 .. m -> Nat]
  BY <1>1, <1>3
<1> QED BY <1>2, <1>4

(* Every step of the buffer keeps the invariant.                           *)
LEMMA RingStep == RingInv /\ [Buffer!Next]_Buffer!vars => RingInv'
<1> SUFFICES ASSUME RingInv, [Buffer!Next]_Buffer!vars PROVE RingInv'
  OBVIOUS
<1> DEFINE c == Buffer!Cap(bufRing)
<1>0. Holds(bufRing, c, bufLatest) /\ bufMaximum = Greatest(bufLatest)
  BY DEF RingInv
<1>1. ASSUME Holds(bufRing', c, bufLatest'), bufMaximum' = Buffer!Maximum(bufRing') PROVE RingInv'
  <2>1. Buffer!Cap(bufRing') = c
    BY <1>1, CapIs DEF Holds
  <2>2. bufMaximum' = Greatest(bufLatest')
    BY <1>1, MaximumIs
  <2> HIDE DEF c
  <2> QED BY <1>1, <2>1, <2>2 DEF RingInv, Greatest
<1>2. ASSUME NEW v \in Samples, Buffer!PushValue(v) PROVE RingInv'
  <2>1. /\ c > 0 /\ bufRing' = Buffer!Push(bufRing, v) /\ bufMaximum' = Buffer!Maximum(bufRing')
        /\ bufLatest' = Buffer!Newest(Append(bufLatest, v), c)
    BY <1>2 DEF Buffer!PushValue
  <2>2. v \in Nat /\ c # 0
    BY <2>1, LevelsAssumption
  <2>3. Holds(Buffer!Push(bufRing, v), c, Buffer!Newest(Append(bufLatest, v), c))
    BY <1>0, <2>2, PushHolds
  <2> QED BY <1>1, <2>1, <2>3
<1>3. ASSUME NEW span \in Buffer!BoundedSeq(Samples, MaxSpan), Buffer!PushValues(span) PROVE RingInv'
  <2>1. /\ bufRing' = Buffer!PushSpan(bufRing, span) /\ bufMaximum' = Buffer!Maximum(bufRing')
        /\ bufLatest' = Buffer!Newest(bufLatest \o span, c)
    BY <1>3 DEF Buffer!PushValues
  <2>2. span \in Seq(Nat)
    BY <1>3, SpansAre, LevelsAssumption
  <2>3. Holds(Buffer!PushSpan(bufRing, span), c, Buffer!Newest(bufLatest \o span, c))
    BY <1>0, <2>2, PushSpanHolds
  <2> QED BY <1>1, <2>1, <2>3
<1>4. CASE Buffer!Clear
  <2>1. /\ bufRing' = Buffer!Cleared(bufRing) /\ bufLatest' = <<>>
        /\ bufMaximum' = IF bufMaximum > 0 THEN 0 ELSE bufMaximum
    BY <1>4 DEF Buffer!Clear
  <2>2. Holds(Buffer!Cleared(bufRing), c, <<>>)
    BY <1>0, ClearedHolds DEF Holds
  <2>3. bufMaximum \in Nat
    BY <1>0, MaximumIs
  <2>4. bufMaximum' = 0 /\ Buffer!Maximum(bufRing') = 0
    BY <2>1, <2>2, <2>3, MaximumIs, NoneIsGreatest
  <2> QED BY <1>1, <2>1, <2>2, <2>4
<1>5. ASSUME NEW cap \in Capacities, Buffer!SetCapacity(cap) PROVE RingInv'
  <2>1. bufRing' = Buffer!Empty(cap) /\ bufMaximum' = 0 /\ bufLatest' = <<>>
    BY <1>5 DEF Buffer!SetCapacity
  <2>2. Buffer!Cap(Buffer!Empty(cap)) = cap /\ Holds(Buffer!Empty(cap), cap, <<>>)
    BY EmptyIsFine
  <2>3. Buffer!Cap(bufRing') = cap /\ Holds(bufRing', cap, bufLatest') /\ bufMaximum' = Greatest(bufLatest')
    BY <2>1, <2>2, NoneIsGreatest
  <2> QED BY <2>3 DEF RingInv, Greatest
<1>6. CASE UNCHANGED Buffer!vars
  BY <1>6 DEF Buffer!vars, RingInv, Greatest, Buffer!Cap
<1> QED BY <1>2, <1>3, <1>4, <1>5, <1>6 DEF Buffer!Next

(* The invariant has what the property says of the buffer.                 *)
LEMMA RingShows == RingInv => Buffer!HoldsTheLatest
<1> SUFFICES ASSUME RingInv PROVE Buffer!HoldsTheLatest
  OBVIOUS
<1> DEFINE c == Buffer!Cap(bufRing)
<1>0. /\ Holds(bufRing, c, bufLatest) /\ bufMaximum = Greatest(bufLatest)
      /\ bufLatest \in Seq(Nat) /\ Len(bufLatest) = bufRing.count /\ c \in Nat
  BY DEF RingInv, Holds, Ring
<1> HIDE DEF c
<1>1. \A i \in DOMAIN bufLatest : Buffer!At(bufRing, i - 1) = bufLatest[i]
  <2>1. DOMAIN bufLatest = 1 .. Len(bufLatest)
    BY <1>0
  <2> SUFFICES ASSUME NEW i \in 1 .. Len(bufLatest) PROVE Buffer!At(bufRing, i - 1) = bufLatest[i]
    BY <2>1
  <2> QED BY <1>0, AtIs
<1>2. \A n \in 0 .. c + 1 : Buffer!CopyLatest(bufRing, n) = Buffer!Newest(bufLatest, n)
  BY <1>0, CopyLatestIs
<1>3. ASSUME NEW cap \in Capacities, NEW span \in Buffer!BoundedSeq(Samples, 2)
      PROVE  Buffer!CopyLatest(Buffer!PushTo(bufRing, Buffer!PushSpan(Buffer!Empty(cap), span)), cap)
               = Buffer!Newest(Buffer!Newest(span, cap) \o bufLatest, cap)
  <2> DEFINE t == Buffer!Newest(span, cap)
             o == Buffer!PushSpan(Buffer!Empty(cap), span)
             u == Buffer!Newest(t \o bufLatest, cap)
  <2>1. cap \in Nat /\ span \in Seq(Nat)
    BY LevelsAssumption, SpansAre
  <2>2. Holds(o, cap, t)
    <3>1. Holds(o, cap, Buffer!Newest(<<>> \o span, cap))
      BY <2>1, EmptyHolds, PushSpanHolds
    <3>2. <<>> \o span = span
      BY <2>1, ConcatEmptySeq
    <3> QED BY <3>1, <3>2
  <2>3. t \in Seq(Nat) /\ Len(t) <= cap
    BY <2>1, NewestIs, LenProperties DEF AtMost
  <2> HIDE DEF t, o
  <2>4. Holds(Buffer!PushTo(bufRing, o), cap, u)
    BY <1>0, <2>2, <2>3, PushToHolds
  <2>5. t \o bufLatest \in Seq(Nat)
    BY <1>0, <2>3, ConcatProperties
  <2>6. Buffer!Newest(u, cap) = u
    BY <2>1, <2>5, <1>0, NewestOnce
  <2> HIDE DEF u
  <2>7. Buffer!CopyLatest(Buffer!PushTo(bufRing, o), cap) = Buffer!Newest(u, cap)
    BY <2>1, <2>4, CopyLatestIs
  <2> QED BY <2>6, <2>7 DEF t, o, u
<1> QED BY <1>0, <1>1, <1>2, <1>3, Zenon DEF Buffer!HoldsTheLatest, Greatest, c

(* Buffers: a ring buffer holds the newest of what was pushed, whatever    *)
(* ran over the end of its array, and its maximum is of that; the bars the *)
(* provider has are the last ones the processor made once both queues are  *)
(* empty and values came since it asked, and they are the spectrum of what *)
(* the analysis put out.                                                   *)
THEOREM SamplesAreShown == DataSpec => []SamplesAreTheLatest
<1>1. RingInv /\ BarsInv => SamplesAreTheLatest
  BY RingShows, BarsShow DEF SamplesAreTheLatest
<1> QED BY <1>1, EachKeepsItsSpec, RingInit, RingStep, BarsInit, BarsStep,
           PTL DEF Buffer!Spec, Cava!Spec

-----------------------------------------------------------------------------
(***************************************************************************)
(* The image cache.  Keys name contents, so the invariant has to say at    *)
(* every step of a request and of a job what is still known of the content *)
(* its key names: it was seen by the request (HasSeen), it is what the     *)
(* file or the decoded image shows unless the file was replaced since      *)
(* (Fresh), and it is what the entry shows unless a job saved it after     *)
(* such a replacement (the first half of CacheIsTrue).                     *)
(***************************************************************************)
Picture == Contents \cup {None}

ReqRecord == [at : {"new", "hash", "lookup", "schedule", "original", "done"},
              path : Paths \cup {None}, shape : Shapes \cup {Original, None},
              key : Keys \cup {NoKey}, clean : BOOLEAN, image : Picture]

JobRecord == [key : Keys, path : Paths, at : {"check", "save"}, clean : BOOLEAN, image : Picture]

(* The types, and what a request has at each of its steps. *)
CacheTypes ==
    /\ file \in [Paths -> Picture]
    /\ cache \in [Keys -> Picture]
    /\ inflight \in SUBSET Keys
    /\ suspect \in SUBSET Keys
    /\ jobs \in SUBSET JobRecord
    /\ reqs \in [Requests -> ReqRecord]
    /\ seen \in [Requests -> SUBSET Picture]
    /\ \A r \in Requests :
          /\ reqs[r].at \in {"hash", "lookup", "schedule", "original"} => reqs[r].path \in Paths
          /\ reqs[r].at = "hash" => reqs[r].shape \in Shapes \cup {Original}
          /\ reqs[r].at \in {"lookup", "schedule"} => reqs[r].key \in Keys

IsWaiting(r) == reqs[r].at \in {"hash", "lookup", "schedule", "original"}
HasKey(r)   == reqs[r].at \in {"lookup", "schedule"}

(* A request that waits has seen what its file shows and what its key names. *)
HasSeen ==
    \A r \in Requests :
       /\ IsWaiting(r) => file[reqs[r].path] \in seen[r]
       /\ HasKey(r) => reqs[r].key[1] \in seen[r]

(* A request has no picture before it is answered. *)
Blank == \A r \in Requests : reqs[r].at # "done" => reqs[r].image = None

(* As long as nobody replaced the source, the key names what it shows.     *)
Fresh ==
    /\ \A r \in Requests : HasKey(r) /\ reqs[r].clean => file[reqs[r].path] = reqs[r].key[1]
    /\ \A j \in jobs : j.clean =>
          /\ j.at = "check" => file[j.path] = j.key[1]
          /\ j.at = "save" => j.image = j.key[1]

CacheInv == CacheTypes /\ Blank /\ HasSeen /\ Fresh /\ CacheIsTrue /\ OneJobPerEntry

----------------------------------------------------------------------------
LEMMA CacheInit == Init => CacheInv
  BY CacheAssumption
  DEF Init, CacheInv, CacheTypes, Blank, HasSeen, Fresh, CacheIsTrue, OneJobPerEntry, IsWaiting, HasKey,
      Picture, ReqRecord, JobRecord, NoKey

(* What is left to show of a step that changes the record of one request. *)
HasWhatItNeeds(q) ==
    /\ q.at \in {"hash", "lookup", "schedule", "original"} => q.path \in Paths
    /\ q.at = "hash" => q.shape \in Shapes \cup {Original}
    /\ q.at \in {"lookup", "schedule"} => q.key \in Keys

LEMMA RequestStep ==
  ASSUME CacheTypes, NEW r \in Requests, NEW q \in ReqRecord, HasWhatItNeeds(q),
         reqs' = [reqs EXCEPT ![r] = q]
  PROVE  /\ reqs' \in [Requests -> ReqRecord]
         /\ \A x \in Requests : reqs'[x] = IF x = r THEN q ELSE reqs[x]
         /\ \A x \in Requests : HasWhatItNeeds(reqs'[x])
<1>1. reqs' \in [Requests -> ReqRecord]
  BY DEF CacheTypes
<1>2. \A x \in Requests : reqs'[x] = IF x = r THEN q ELSE reqs[x]
  BY DEF CacheTypes
<1>3. \A x \in Requests : HasWhatItNeeds(reqs[x])
  BY DEF CacheTypes, HasWhatItNeeds
<1> QED BY <1>1, <1>2, <1>3

LEMMA RequestTypes ==
  ASSUME CacheTypes, NEW r \in Requests, NEW q \in ReqRecord, HasWhatItNeeds(q),
         reqs' = [reqs EXCEPT ![r] = q],
         file' = file, cache' = cache, suspect' = suspect,
         inflight' \in SUBSET Keys, jobs' \in SUBSET JobRecord,
         seen' \in [Requests -> SUBSET Picture]
  PROVE  CacheTypes'
<1>1. reqs' \in [Requests -> ReqRecord] /\ \A x \in Requests : HasWhatItNeeds(reqs'[x])
  BY RequestStep
<1>2. /\ file' \in [Paths -> Picture] /\ cache' \in [Keys -> Picture]
      /\ suspect' \in SUBSET Keys
  BY DEF CacheTypes
<1> QED BY ONLY <1>1, <1>2, inflight' \in SUBSET Keys, jobs' \in SUBSET JobRecord,
           seen' \in [Requests -> SUBSET Picture] DEF CacheTypes, HasWhatItNeeds

(* A response is handed to the pool. *)
LEMMA RequestKeeps ==
  ASSUME CacheInv, NEW r \in Requests, NEW p \in Paths, NEW s \in Shapes \cup {Original},
         Request(r, p, s)
  PROVE  CacheInv'
<1> DEFINE q == [reqs[r] EXCEPT !.at = "hash", !.path = p, !.shape = s]
<1> USE DEF Request, CacheInv
<1>1. q \in ReqRecord /\ HasWhatItNeeds(q) /\ reqs' = [reqs EXCEPT ![r] = q]
  BY DEF CacheTypes, ReqRecord, HasWhatItNeeds
<1>2. CacheTypes'
  <2>1. seen' \in [Requests -> SUBSET Picture]
    BY DEF CacheTypes
  <2>2. inflight' \in SUBSET Keys /\ jobs' \in SUBSET JobRecord
    BY DEF CacheTypes
  <2> QED BY <1>1, <2>1, <2>2, RequestTypes
<1>3. Blank' /\ HasSeen' /\ Fresh'
  BY DEF CacheTypes, Blank, HasSeen, Fresh, IsWaiting, HasKey, ReqRecord
<1>4. CacheIsTrue' /\ OneJobPerEntry'
  BY DEF CacheTypes, CacheIsTrue, OneJobPerEntry, ReqRecord
<1> QED BY <1>2, <1>3, <1>4

(* The key names what the file shows, which the request has seen. *)
LEMMA HashKeeps ==
  ASSUME CacheInv, NEW r \in Requests, Hash(r)
  PROVE  CacheInv'
<1> DEFINE now == file[reqs[r].path]
           at  == CASE now = None -> "done"
                    [] reqs[r].shape = Original -> "original"
                    [] OTHER -> "lookup"
           key == IF now = None \/ reqs[r].shape = Original THEN NoKey
                  ELSE <<now, reqs[r].shape>>
           q   == [reqs[r] EXCEPT !.at = at, !.clean = TRUE, !.key = key]
<1> USE DEF Hash, CacheInv
<1>1. reqs[r] \in ReqRecord /\ reqs[r].path \in Paths /\ now \in Picture
  BY DEF CacheTypes
<1>2. at # "done" /\ at # "original" => key \in Keys
  BY <1>1 DEF CacheTypes, Picture, Keys
<1>3. key \in Keys \cup {NoKey} /\ at \in {"done", "original", "lookup"}
  BY <1>1, <1>2 DEF NoKey
<1>4. q \in ReqRecord
  BY <1>1, <1>3 DEF ReqRecord
<1>5. HasWhatItNeeds(q)
  BY <1>1, <1>2, <1>3 DEF ReqRecord, HasWhatItNeeds
<1>6. reqs' = [reqs EXCEPT ![r] = q]
  <2>1. reqs' = [reqs EXCEPT ![r].at = at, ![r].clean = TRUE, ![r].key = key]
    BY Zenon
  <2> HIDE DEF at, key
  <2> QED BY <2>1 DEF CacheTypes
<1>7. CacheTypes'
  <2>1. /\ inflight' \in SUBSET Keys /\ jobs' \in SUBSET JobRecord
        /\ seen' \in [Requests -> SUBSET Picture]
    BY DEF CacheTypes
  <2> QED BY <1>4, <1>5, <1>6, <2>1, RequestTypes
<1>8. \A x \in Requests : reqs'[x] = IF x = r THEN q ELSE reqs[x]
  BY <1>4, <1>5, <1>6, RequestStep
<1>9. /\ q.at = at /\ q.key = key /\ q.path = reqs[r].path /\ q.image = reqs[r].image
      /\ at = "lookup" => key = <<now, reqs[r].shape>>
  BY <1>1 DEF ReqRecord
<1>10. Blank' /\ HasSeen' /\ Fresh'
  <2>1. /\ Blank /\ HasSeen /\ Fresh /\ file' = file /\ jobs' = jobs /\ seen' = seen
        /\ reqs[r].at = "hash" /\ now = file[reqs[r].path]
    OBVIOUS
  <2> HIDE DEF now, at, key, q
  <2>2. now \in seen[r]
    BY ONLY <2>1 DEF HasSeen, IsWaiting
  <2>3. Blank'
    BY ONLY <1>8, <1>9, <2>1 DEF Blank
  <2>4. /\ reqs'[r] = q /\ (HasKey(r)' => key[1] = now)
        /\ \A x \in Requests \ {r} : reqs'[x] = reqs[x]
    <3>1. reqs'[r] = q /\ \A x \in Requests \ {r} : reqs'[x] = reqs[x]
      BY ONLY <1>8, r \in Requests
    <3>2. HasKey(r)' => at = "lookup"
      BY ONLY <1>3, <1>9, <3>1 DEF HasKey
    <3>3. at = "lookup" => key[1] = now
      BY ONLY <1>9
    <3> QED BY ONLY <3>1, <3>2, <3>3
  <2>5. HasSeen'
    <3>1. SUFFICES ASSUME NEW x \in Requests
                   PROVE  /\ IsWaiting(x)' => file'[reqs'[x].path] \in seen'[x]
                          /\ HasKey(x)' => reqs'[x].key[1] \in seen'[x]
      BY ONLY <3>1 DEF HasSeen
    <3>2. CASE x = r
      BY ONLY <1>9, <2>1, <2>2, <2>4, <3>2
    <3>3. CASE x # r
      BY ONLY <2>1, <2>4, <3>3, x \in Requests DEF HasSeen, IsWaiting, HasKey
    <3> QED BY ONLY <3>2, <3>3
  <2>6. Fresh'
    <3>1. ASSUME NEW x \in Requests, HasKey(x)', reqs'[x].clean
          PROVE  file'[reqs'[x].path] = reqs'[x].key[1]
      <4>1. CASE x = r
        BY ONLY <1>9, <2>1, <2>4, <3>1, <4>1
      <4>2. CASE x # r
        BY ONLY <2>1, <2>4, <3>1, <4>2 DEF Fresh, HasKey
      <4> QED BY ONLY <4>1, <4>2
    <3>2. \A j \in jobs' : j.clean => /\ j.at = "check" => file'[j.path] = j.key[1]
                                      /\ j.at = "save" => j.image = j.key[1]
      BY ONLY <2>1 DEF Fresh
    <3> QED BY ONLY <3>1, <3>2 DEF Fresh
  <2> QED BY ONLY <2>3, <2>5, <2>6
<1>11. CacheIsTrue' /\ OneJobPerEntry'
  <2>1. reqs[r].image = None
    BY DEF Blank
  <2> QED BY <1>8, <1>9, <2>1 DEF CacheTypes, CacheIsTrue, OneJobPerEntry
<1> QED BY <1>7, <1>10, <1>11

(* An entry that is found shows the content of its key, or is a suspect   *)
(* one and counts as seen.                                                 *)
LEMMA LookUpKeeps ==
  ASSUME CacheInv, NEW r \in Requests, LookUp(r)
  PROVE  CacheInv'
<1> DEFINE k == reqs[r].key
           q == [reqs[r] EXCEPT !.at = IF cache[k] # None THEN "done" ELSE "schedule",
                                !.image = cache[k]]
<1> USE DEF LookUp, CacheInv
<1>1. reqs[r] \in ReqRecord /\ k \in Keys /\ cache[k] \in Picture /\ reqs[r].path \in Paths
  BY DEF CacheTypes
<1>2. q \in ReqRecord /\ HasWhatItNeeds(q) /\ reqs' = [reqs EXCEPT ![r] = q]
  BY <1>1 DEF CacheTypes, ReqRecord, HasWhatItNeeds
<1>3. CacheTypes'
  <2>1. seen' \in [Requests -> SUBSET Picture]
    BY <1>1 DEF CacheTypes
  <2>2. inflight' \in SUBSET Keys /\ jobs' \in SUBSET JobRecord
    BY DEF CacheTypes
  <2> QED BY <1>2, <2>1, <2>2, RequestTypes
<1>4. \A x \in Requests : reqs'[x] = IF x = r THEN q ELSE reqs[x]
  BY <1>2, RequestStep
<1>5. Blank' /\ HasSeen' /\ Fresh'
  BY <1>1, <1>4 DEF CacheTypes, Blank, HasSeen, Fresh, IsWaiting, HasKey, ReqRecord
<1>6. CacheIsTrue' /\ OneJobPerEntry'
  BY <1>1, <1>4 DEF CacheTypes, HasSeen, HasKey, CacheIsTrue, OneJobPerEntry, ReqRecord
<1> QED BY <1>3, <1>5, <1>6

(* A new job has the key of the request, and no other job has it. *)
LEMMA ScheduleKeeps ==
  ASSUME CacheInv, NEW r \in Requests, Schedule(r)
  PROVE  CacheInv'
<1> USE DEF Schedule, CacheInv
<1>1. reqs[r].key \in Keys /\ reqs[r].path \in Paths /\ reqs[r].clean \in BOOLEAN
  BY DEF CacheTypes, ReqRecord
<1>2. CacheTypes'
  BY <1>1 DEF CacheTypes, Picture, ReqRecord, JobRecord
<1>3. Blank' /\ HasSeen' /\ Fresh'
  BY <1>1 DEF CacheTypes, Blank, HasSeen, Fresh, IsWaiting, HasKey, ReqRecord
<1>4. CacheIsTrue'
  BY <1>1 DEF CacheTypes, CacheIsTrue, ReqRecord
<1>5. OneJobPerEntry'
  BY <1>1 DEF OneJobPerEntry
<1> QED BY <1>2, <1>3, <1>4, <1>5

(* The original is what the file shows. *)
LEMMA ReadOriginalKeeps ==
  ASSUME CacheInv, NEW r \in Requests, ReadOriginal(r)
  PROVE  CacheInv'
<1> DEFINE now == file[reqs[r].path]
           q   == [reqs[r] EXCEPT !.at = "done",
                                  !.image = IF now \in Broken THEN None ELSE now]
<1> USE DEF ReadOriginal, CacheInv
<1>1. reqs[r] \in ReqRecord /\ now \in Picture /\ None \in Picture
  BY DEF CacheTypes, Picture
<1>2. q \in ReqRecord /\ HasWhatItNeeds(q) /\ reqs' = [reqs EXCEPT ![r] = q]
  BY <1>1 DEF CacheTypes, ReqRecord, HasWhatItNeeds
<1>3. CacheTypes'
  BY <1>1, <1>2, RequestStep DEF CacheTypes, HasWhatItNeeds
<1>4. Blank' /\ HasSeen' /\ Fresh'
  BY DEF CacheTypes, Blank, HasSeen, Fresh, IsWaiting, HasKey, ReqRecord
<1>5. CacheIsTrue' /\ OneJobPerEntry'
  BY DEF CacheTypes, HasSeen, IsWaiting, CacheIsTrue, OneJobPerEntry, ReqRecord
<1> QED BY <1>3, <1>4, <1>5

(* What is decoded is what the key names, unless the file was replaced. *)
LEMMA JobReadsKeeps ==
  ASSUME CacheInv, NEW j \in jobs, JobReads(j)
  PROVE  CacheInv'
<1> DEFINE i == [j EXCEPT !.at = "save", !.image = file[j.path]]
<1> USE DEF JobReads, CacheInv
<1>1. /\ j \in JobRecord /\ file[j.path] \in Picture
      /\ i \in JobRecord /\ i.key = j.key /\ i.path = j.path /\ i.clean = j.clean
      /\ i.at = "save" /\ i.image = file[j.path]
  BY DEF CacheTypes, JobRecord
<1>2. CASE JobEnds(j)
  <2>1. CacheTypes'
    BY <1>2 DEF JobEnds, CacheTypes
  <2>2. Blank' /\ HasSeen' /\ Fresh'
    BY <1>2 DEF JobEnds, Blank, HasSeen, Fresh, IsWaiting, HasKey
  <2>3. CacheIsTrue' /\ OneJobPerEntry'
    BY <1>2 DEF JobEnds, CacheIsTrue, OneJobPerEntry
  <2> QED BY <2>1, <2>2, <2>3
<1>3. CASE jobs' = (jobs \ {j}) \cup {i} /\ UNCHANGED inflight
  <2> HIDE DEF i
  <2>1. CacheTypes'
    BY <1>1, <1>3 DEF CacheTypes
  <2>2. Blank' /\ HasSeen'
    BY DEF Blank, HasSeen, IsWaiting, HasKey
  <2>3. Fresh'
    BY <1>1, <1>3 DEF Fresh, HasKey
  <2>4. CacheIsTrue' /\ OneJobPerEntry'
    BY <1>1, <1>3 DEF CacheIsTrue, OneJobPerEntry
  <2> QED BY <2>1, <2>2, <2>3, <2>4
<1> QED BY <1>2, <1>3

(* What is saved is what the key names, or the entry is suspect. *)
LEMMA JobSavesKeeps ==
  ASSUME CacheInv, NEW j \in jobs, JobSaves(j)
  PROVE  CacheInv'
<1> USE DEF JobSaves, JobEnds, CacheInv
<1>1. j \in JobRecord
  BY DEF CacheTypes
<1>2. CacheTypes'
  BY <1>1 DEF CacheTypes, JobRecord
<1>3. Blank' /\ HasSeen' /\ Fresh'
  BY <1>1 DEF CacheTypes, Blank, HasSeen, Fresh, IsWaiting, HasKey, JobRecord
<1>4. CacheIsTrue'
  BY <1>1 DEF CacheTypes, Fresh, CacheIsTrue, JobRecord
<1>5. OneJobPerEntry'
  BY <1>1 DEF OneJobPerEntry, JobRecord
<1> QED BY <1>2, <1>3, <1>4, <1>5

(* A source that is replaced taints the keys taken from it. *)
LEMMA EditFileKeeps ==
  ASSUME CacheInv, NEW p \in Paths, NEW c \in Contents \cup {None}, EditFile(p, c)
  PROVE  CacheInv'
<1> DEFINE job(j) == [j EXCEPT !.clean = @ /\ ~(j.path = p /\ j.at = "check")]
           req(r) == [reqs[r] EXCEPT !.clean = @ /\ reqs[r].path # p]
<1> USE DEF EditFile, CacheInv
<1>1. ASSUME NEW j \in jobs
      PROVE  /\ job(j) \in JobRecord
             /\ job(j).key = j.key /\ job(j).path = j.path /\ job(j).at = j.at
             /\ job(j).image = j.image
             /\ job(j).clean => j.clean /\ ~(j.path = p /\ j.at = "check")
  BY DEF CacheTypes, JobRecord
<1>2. ASSUME NEW r \in Requests
      PROVE  /\ req(r) \in ReqRecord
             /\ req(r).at = reqs[r].at /\ req(r).path = reqs[r].path
             /\ req(r).shape = reqs[r].shape /\ req(r).key = reqs[r].key
             /\ req(r).image = reqs[r].image
             /\ req(r).clean => reqs[r].clean /\ reqs[r].path # p
  BY DEF CacheTypes, ReqRecord
<1>3. jobs' = {job(j) : j \in jobs} /\ reqs' = [r \in Requests |-> req(r)]
  OBVIOUS
<1>4. /\ c \in Picture /\ file' \in [Paths -> Picture]
      /\ \A x \in Paths : file'[x] = IF x = p THEN c ELSE file[x]
  BY DEF CacheTypes, Picture
<1>5. seen' \in [Requests -> SUBSET Picture]
  BY <1>4 DEF CacheTypes
<1>6. \A r \in Requests : reqs'[r] = req(r)
  BY <1>3
<1> HIDE DEF job, req
<1>7. CacheTypes'
  <2>1. jobs' \in SUBSET JobRecord
    BY <1>1, <1>3
  <2>2. reqs' \in [Requests -> ReqRecord]
    BY <1>2, <1>3
  <2>3. \A r \in Requests :
          /\ reqs'[r].at \in {"hash", "lookup", "schedule", "original"} => reqs'[r].path \in Paths
          /\ reqs'[r].at = "hash" => reqs'[r].shape \in Shapes \cup {Original}
          /\ reqs'[r].at \in {"lookup", "schedule"} => reqs'[r].key \in Keys
    <3> TAKE r \in Requests
    <3>1. /\ reqs'[r].at = reqs[r].at /\ reqs'[r].path = reqs[r].path
          /\ reqs'[r].shape = reqs[r].shape /\ reqs'[r].key = reqs[r].key
      BY <1>2, <1>6
    <3> HIDE DEF EditFile
    <3> QED BY <3>1 DEF CacheTypes
  <2> QED BY <1>4, <1>5, <2>1, <2>2, <2>3 DEF CacheTypes
<1>8. Blank'
  BY <1>2, <1>6 DEF Blank
<1>9. HasSeen'
  <2>1. ASSUME NEW r \in Requests, IsWaiting(r)
        PROVE  /\ reqs[r].path \in Paths /\ reqs[r].at # "done"
               /\ seen[r] \subseteq seen'[r]
               /\ reqs[r].path = p => c \in seen'[r]
    BY <2>1 DEF CacheTypes, IsWaiting
  <2>2. ASSUME NEW r \in Requests
        PROVE  /\ IsWaiting(r)' => file'[reqs'[r].path] \in seen'[r]
               /\ HasKey(r)' => reqs'[r].key[1] \in seen'[r]
    <3>1. /\ reqs'[r].at = reqs[r].at /\ reqs'[r].path = reqs[r].path
          /\ reqs'[r].key = reqs[r].key
      BY <1>2, <1>6
    <3>2. IsWaiting(r) => file'[reqs[r].path] \in seen'[r]
      BY <1>4, <2>1 DEF HasSeen
    <3>3. HasKey(r) => reqs[r].key[1] \in seen'[r]
      BY <2>1 DEF HasSeen, HasKey, IsWaiting
    <3> QED BY <3>1, <3>2, <3>3 DEF IsWaiting, HasKey
  <2> QED BY <2>2 DEF HasSeen
<1>10. Fresh'
  <2>1. \A r \in Requests : HasKey(r)' /\ reqs'[r].clean => file'[reqs'[r].path] = reqs'[r].key[1]
    <3> SUFFICES ASSUME NEW r \in Requests, HasKey(r)', reqs'[r].clean
                 PROVE  file'[reqs'[r].path] = reqs'[r].key[1]
      OBVIOUS
    <3>1. /\ reqs'[r].at = reqs[r].at /\ reqs'[r].path = reqs[r].path
          /\ reqs'[r].key = reqs[r].key /\ reqs[r].clean /\ reqs[r].path # p
      BY <1>2, <1>6
    <3>2. HasKey(r) /\ reqs[r].path \in Paths
      BY <3>1 DEF HasKey, CacheTypes
    <3> QED BY <1>4, <3>1, <3>2 DEF Fresh
  <2>2. ASSUME NEW j \in jobs, job(j).clean
        PROVE  /\ j.at = "check" => file'[j.path] = j.key[1]
               /\ j.at = "save" => j.image = j.key[1]
    <3>1. j.clean /\ j.path \in Paths /\ ~(j.path = p /\ j.at = "check")
      BY <1>1, <2>2 DEF CacheTypes, JobRecord
    <3> QED BY <1>4, <3>1 DEF Fresh
  <2> QED BY <1>1, <1>3, <2>1, <2>2 DEF Fresh
<1>11. CacheIsTrue'
  <2>1. ASSUME NEW r \in Requests, reqs[r].at = "done" PROVE seen'[r] = seen[r]
    BY <2>1 DEF CacheTypes
  <2>2. ASSUME NEW r \in Requests, reqs'[r].at = "done", reqs'[r].image # None
        PROVE  reqs'[r].image \in seen'[r]
    <3>1. reqs'[r].at = reqs[r].at /\ reqs'[r].image = reqs[r].image
      BY <1>2, <1>6
    <3> QED BY <2>1, <2>2, <3>1 DEF CacheIsTrue
  <2>3. UNCHANGED <<cache, suspect>>
    OBVIOUS
  <2> QED BY <2>2, <2>3 DEF CacheIsTrue
<1>12. OneJobPerEntry'
  BY <1>1, <1>3 DEF OneJobPerEntry
<1> QED BY <1>7, <1>8, <1>9, <1>10, <1>11, <1>12

LEMMA PurgeKeeps ==
  ASSUME CacheInv, Purge
  PROVE  CacheInv'
  BY DEF Purge, CacheInv, CacheTypes, Picture, Blank, HasSeen, Fresh, IsWaiting, HasKey, CacheIsTrue, OneJobPerEntry

LEMMA CacheStep == CacheInv /\ [Next]_vars => CacheInv'
<1> SUFFICES ASSUME CacheInv, [Next]_vars PROVE CacheInv' OBVIOUS
<1>1. CASE UNCHANGED vars
  BY <1>1 DEF vars, CacheInv, CacheTypes, Blank, HasSeen, Fresh, IsWaiting, HasKey, CacheIsTrue, OneJobPerEntry
<1>2. CASE Next
  BY <1>2, RequestKeeps, HashKeeps, LookUpKeeps, ScheduleKeeps, ReadOriginalKeeps,
     JobReadsKeeps, JobSavesKeeps, EditFileKeeps, PurgeKeeps DEF Next
<1> QED BY <1>1, <1>2

----------------------------------------------------------------------------
(* Every entry shows the content it is named after, and every request is   *)
(* answered with a picture its file showed while it waited: cachePathFor,  *)
(* process and runJob of the image cache.                                  *)
THEOREM PicturesAreTrue == Spec => []CacheIsTrue
<1>1. CacheInv => CacheIsTrue
  BY DEF CacheInv
<1> QED BY <1>1, CacheInit, CacheStep, PTL DEF Spec

(* schedule lets only one job at a time write an entry. *)
THEOREM JobsDoNotCollide == Spec => []OneJobPerEntry
<1>1. CacheInv => OneJobPerEntry
  BY DEF CacheInv
<1> QED BY <1>1, CacheInit, CacheStep, PTL DEF Spec
=============================================================================
