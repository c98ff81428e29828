------------------------- MODULE SettingsTreeProofs -------------------------
(***************************************************************************)
(* What the layered option trees guarantee for any options, sub-objects,   *)
(* screens, documents and values.                                          *)
(***************************************************************************)
EXTENDS SettingsTree, TLAPS

\* The types of the trees; the files are not needed here.
TreeType ==
  /\ live \subseteq Layers /\ Global \in live
  /\ value \in [Layers -> [Leaves -> Values]]
  /\ overrides \in [Layers -> SUBSET Leaves]
  /\ quarantine \in [Layers -> [Keys -> Raw]]
  /\ dirty \in [Layers -> BOOLEAN]

TreeInv ==
  TreeType /\ InheritsFallback /\ GlobalStaysGlobal /\ QuarantineIsNoOverride

(***************************************************************************)
(* Values written into one layer stay values in every layer.               *)
(***************************************************************************)
LEMMA PutType ==
  ASSUME TreeType, NEW L \in Layers, NEW new \in [Leaves -> Values], Put(L, new)
  PROVE  /\ value' \in [Layers -> [Leaves -> Values]]
         /\ value'[L] = new
         /\ \A M \in Layers \ {L} :
              value'[M] = IF L = Global /\ M \in live THEN Mirrored(M, new) ELSE value[M]
<1>1. \A M \in Layers : Mirrored(M, new) \in [Leaves -> Values]
  BY DEF Mirrored, TreeType
<1>2. \A M \in Layers : value'[M] = CASE M = L -> new
                          [] M # L /\ L = Global /\ M \in live -> Mirrored(M, new)
                          [] OTHER -> value[M]
  BY DEF Put
<1>3. \A M \in Layers \ {L} :
        value'[M] = IF L = Global /\ M \in live THEN Mirrored(M, new) ELSE value[M]
  BY <1>2
<1>4. \A M \in Layers : value'[M] \in [Leaves -> Values]
  BY <1>1, <1>2, <1>3 DEF TreeType
<1> QED BY <1>2, <1>3, <1>4 DEF Put

\* The fallback of an option is a value.
LEMMA FallbackType ==
  ASSUME TreeType, NEW L \in Layers, NEW l \in Leaves
  PROVE  Fallback(L, l) \in Values
BY ValuesAssumption DEF Fallback, TreeType, Layers

(***************************************************************************)
(* Every operation comes down to new values and overrides of one layer,    *)
(* and gives the options it does not override their fallback: then all     *)
(* layers inherit again, because the overlays mirror what changed.         *)
(***************************************************************************)
LEMMA PutInherits ==
  ASSUME TreeType, InheritsFallback,
         NEW L \in Layers, NEW new \in [Leaves -> Values], Put(L, new),
         L = Global => L \in live,
         live' \subseteq live \cup {L},
         \A M \in Layers \ {L} : overrides'[M] = overrides[M],
         \A l \in Leaves : Owned(L, l) /\ l \notin overrides'[L] => new[l] = Fallback(L, l)
  PROVE  InheritsFallback'
<1> SUFFICES ASSUME NEW M \in live', NEW l \in Leaves, Owned(M, l), l \notin overrides'[M]
             PROVE  value'[M][l] = IF M = Global THEN Default[l] ELSE value'[Global][l]
  BY DEF InheritsFallback, Fallback, Owned, IsGlobalOnly
<1>1. M \in Layers /\ Global \in Layers
  BY DEF TreeType, Layers
<1>2. value'[L] = new
  BY PutType
<1>3. CASE L = Global
  <2>1. CASE M = Global
    BY <1>2, <1>3, <2>1 DEF Fallback
  <2>2. CASE M # Global
    <3>1. M \in live /\ l \notin overrides[M] /\ ~IsGlobalOnly(l)
      BY <1>1, <1>3, <2>2 DEF Owned
    <3>2. value[M][l] = value[Global][l]
      BY <2>2, <3>1 DEF InheritsFallback, Owned, Fallback
    <3>3. value'[M] = Mirrored(M, new)
      BY <1>1, <1>3, <2>2, <3>1, PutType
    <3> QED BY <1>2, <1>3, <2>2, <3>1, <3>2, <3>3 DEF Mirrored
  <2> QED BY <2>1, <2>2
<1>4. CASE L # Global
  <2>1. value'[Global] = value[Global]
    BY <1>1, <1>4, PutType
  <2>2. CASE M = L
    BY <1>2, <1>4, <2>1, <2>2 DEF Fallback
  <2>3. CASE M # L
    <3>1. M \in live /\ overrides'[M] = overrides[M] /\ value'[M] = value[M]
      BY <1>1, <1>4, <2>3, PutType
    <3> QED BY <2>1, <3>1 DEF InheritsFallback, Fallback
  <2> QED BY <2>2, <2>3
<1> QED BY <1>3, <1>4

(***************************************************************************)
(* syncJson of an object: the visited options take the document's values,  *)
(* and are neither reserved nor quarantined.                               *)
(***************************************************************************)
LEMMA VisitedFacts ==
  ASSUME NEW L \in Layers, NEW d \in DocsOf(L)
  PROVE  /\ Visited(L, d) \subseteq Leaves
         /\ \A l \in Visited(L, d) : d[l] \in Values /\ Owned(L, l)
         /\ \A l \in Visited(L, d) : l \notin Quarantined(L, d)
BY DEF Visited, Quarantined

\* A load yields values, the refused ones of the document excluded.
LEMMA LoadedType ==
  ASSUME TreeType, NEW L \in Layers, NEW d \in DocsOf(L), NEW old \in [Leaves -> Values]
  PROVE  /\ Loaded(L, d, old) \in [Leaves -> Values]
         /\ \A l \in Leaves : Owned(L, l) /\ l \notin Visited(L, d)
                                => Loaded(L, d, old)[l] = Fallback(L, l)
<1>1. \A l \in Leaves : Fallback(L, l) \in Values
  BY FallbackType
<1>2. \A l \in Visited(L, d) : d[l] \in Values
  BY VisitedFacts
<1> QED BY <1>1, <1>2 DEF Loaded

\* syncJson of an object document keeps the invariant in every layer.
LEMMA SyncKeepsInv ==
  ASSUME TreeInv, NEW L \in Layers, NEW d \in DocsOf(L), NEW old \in [Leaves -> Values],
         L = Global => L \in live, live' \in {live, live \cup {L}},
         SyncJson(L, d, old), dirty' = dirty
  PROVE  TreeInv'
<1> DEFINE new == Loaded(L, d, old)
<1>1. new \in [Leaves -> Values] /\ Put(L, new)
  BY LoadedType DEF SyncJson, TreeInv
<1>2. overrides'[L] = Visited(L, d) /\ \A M \in Layers \ {L} : overrides'[M] = overrides[M]
  BY DEF SyncJson, TreeInv, TreeType
<1>3. \A k \in Keys : d[k] \in Raw
  BY DEF DocsOf
<1>4. TreeType'
  <2>1. value' \in [Layers -> [Leaves -> Values]]
    BY <1>1, PutType DEF TreeInv
  <2>2. overrides' \in [Layers -> SUBSET Leaves]
    BY VisitedFacts DEF SyncJson, TreeInv, TreeType
  <2>3. quarantine' \in [Layers -> [Keys -> Raw]]
    BY <1>3 DEF SyncJson, TreeInv, TreeType, Raw
  <2>4. live' \subseteq Layers /\ Global \in live'
    BY DEF TreeInv, TreeType
  <2> QED BY <2>1, <2>2, <2>3, <2>4 DEF TreeInv, TreeType
<1>5. InheritsFallback'
  <2>1. \A l \in Leaves : Owned(L, l) /\ l \notin overrides'[L] => new[l] = Fallback(L, l)
    BY <1>2, LoadedType DEF TreeInv
  <2> HIDE DEF new
  <2> QED BY <1>1, <1>2, <2>1, PutInherits DEF TreeInv
<1>6. GlobalStaysGlobal'
  <2>1. \A l \in Visited(L, d) : Owned(L, l)
    BY VisitedFacts
  <2>2. ASSUME NEW M \in Overlays, NEW l \in overrides'[M]
        PROVE  ~IsGlobalOnly(l)
    <3>1. M # Global /\ M \in Layers
      BY KeysAssumption DEF Layers
    <3> QED BY <1>2, <2>1, <3>1 DEF TreeInv, GlobalStaysGlobal, Owned
  <2> QED BY <2>2 DEF GlobalStaysGlobal, IsGlobalOnly
<1>7. QuarantineIsNoOverride'
  <2>1. \A l \in Visited(L, d) : l \in Keys /\ l \notin Quarantined(L, d)
    BY VisitedFacts DEF Keys
  <2>2. \A l \in overrides'[L] : quarantine'[L][l] = Absent
    BY <1>2, <2>1 DEF SyncJson, TreeInv, TreeType
  <2>3. \A M \in Layers \ {L} : quarantine'[M] = quarantine[M]
    BY DEF SyncJson, TreeInv, TreeType
  <2> QED BY <1>2, <2>2, <2>3 DEF TreeInv, QuarantineIsNoOverride
<1> QED BY <1>4, <1>5, <1>6, <1>7 DEF TreeInv

(***************************************************************************)
(* Writes and resets from QML: O is what becomes of the overrides of the   *)
(* layer, `lifted' are the keys whose quarantine is lifted.                *)
(***************************************************************************)
LEMMA EditKeepsInv ==
  ASSUME TreeInv, NEW L \in live, NEW new \in [Leaves -> Values], Put(L, new),
         NEW O \in SUBSET Leaves, overrides' = [overrides EXCEPT ![L] = O],
         NEW lifted \in SUBSET Keys,
         quarantine' = [quarantine EXCEPT ![L] =
                          [k \in Keys |-> IF k \in lifted THEN Absent ELSE @[k]]],
         NEW b \in BOOLEAN, dirty' = [dirty EXCEPT ![L] = b],
         live' = live,
         \A l \in O : l \in lifted \/ l \in overrides[L],
         \A l \in O : Owned(L, l),
         \A l \in Leaves \ O : Owned(L, l) => new[l] = Fallback(L, l)
  PROVE  TreeInv'
<1>1. L \in Layers /\ overrides'[L] = O
      /\ \A M \in Layers \ {L} : overrides'[M] = overrides[M]
  BY DEF TreeInv, TreeType
<1>2. TreeType'
  <2>1. value' \in [Layers -> [Leaves -> Values]]
    BY <1>1, PutType DEF TreeInv
  <2>2. quarantine' \in [Layers -> [Keys -> Raw]]
    BY <1>1 DEF TreeInv, TreeType, Raw
  <2> QED BY <1>1, <2>1, <2>2 DEF TreeInv, TreeType
<1>3. InheritsFallback'
  BY <1>1, PutInherits DEF TreeInv
<1>4. GlobalStaysGlobal'
  <2>1. ASSUME NEW M \in Overlays, NEW l \in overrides'[M]
        PROVE  ~IsGlobalOnly(l)
    <3>1. M # Global /\ M \in Layers
      BY KeysAssumption DEF Layers
    <3> QED BY <1>1, <3>1 DEF TreeInv, GlobalStaysGlobal, Owned
  <2> QED BY <2>1 DEF GlobalStaysGlobal, IsGlobalOnly
<1>5. QuarantineIsNoOverride'
  <2>1. \A M \in Layers \ {L} : quarantine'[M] = quarantine[M]
    BY DEF TreeInv, TreeType
  <2>2. \A k \in Keys : quarantine'[L][k] = IF k \in lifted THEN Absent
                                                           ELSE quarantine[L][k]
    BY <1>1 DEF TreeInv, TreeType
  <2>3. \A l \in O : quarantine'[L][l] = Absent
    BY <1>1, <2>2 DEF TreeInv, QuarantineIsNoOverride, Keys
  <2> QED BY <1>1, <2>1, <2>3, ZenonT(30) DEF TreeInv, QuarantineIsNoOverride
<1> QED BY <1>2, <1>3, <1>4, <1>5 DEF TreeInv

(***************************************************************************)
(* Lifting the quarantine of one option is lifting that of a set of keys.  *)
(***************************************************************************)
LEMMA LiftOne ==
  ASSUME TreeType, NEW L \in Layers, NEW l \in Leaves
  PROVE  [quarantine EXCEPT ![L][l] = Absent] =
           [quarantine EXCEPT ![L] =
              [k \in Keys |-> IF k \in {l} THEN Absent ELSE @[k]]]
BY DEF TreeType, Keys

\* All options of all layers start at their defaults.
LEMMA TreeInit ==
  ASSUME Init
  PROVE  TreeInv
<1>1. TreeType
  BY ValuesAssumption DEF Init, TreeType, EmptyDoc, Raw, Layers
<1>2. InheritsFallback
  BY DEF Init, InheritsFallback, Fallback, Layers
<1> QED BY <1>1, <1>2
        DEF Init, TreeInv, GlobalStaysGlobal, QuarantineIsNoOverride, Layers

\* Every write, reset, load, save and new overlay keeps the invariant.
LEMMA TreeStep ==
  ASSUME TreeInv, [Next]_vars
  PROVE  TreeInv'
<1> USE DEF TreeInv, TreeType
<1>1. ASSUME NEW L \in Layers, NEW l \in Leaves, NEW v \in Values, QmlWrite(L, l, v)
      PROVE  TreeInv'
  <2> DEFINE new == [value[L] EXCEPT ![l] = v]
             O == overrides[L] \cup {l}
             b == dirty[L] \/ Dirties(L, l, v, TRUE)
  <2>1. L \in live /\ Owned(L, l) /\ Put(L, new) /\ live' = live
    BY <1>1 DEF QmlWrite
  <2>2. new \in [Leaves -> Values] /\ O \in SUBSET Leaves /\ b \in BOOLEAN
    BY DEF Dirties
  <2>3. /\ overrides' = [overrides EXCEPT ![L] = O]
        /\ dirty' = [dirty EXCEPT ![L] = b]
        /\ quarantine' = [quarantine EXCEPT ![L] =
                            [k \in Keys |-> IF k \in {l} THEN Absent ELSE @[k]]]
    BY <1>1, LiftOne DEF QmlWrite
  <2>4. \A k \in O : Owned(L, k) /\ (k \in {l} \/ k \in overrides[L])
    BY <2>1 DEF GlobalStaysGlobal, Owned, Layers
  <2>5. \A k \in Leaves \ O : Owned(L, k) => new[k] = Fallback(L, k)
    BY <2>1 DEF InheritsFallback
  <2>6. {l} \in SUBSET Keys
    BY DEF Keys
  <2> HIDE DEF new, O, b
  <2> QED BY <2>1, <2>2, <2>3, <2>4, <2>5, <2>6, EditKeepsInv
<1>2. ASSUME NEW L \in Layers, NEW l \in Leaves, ResetOption(L, l)
      PROVE  TreeInv'
  <2> DEFINE new == [value[L] EXCEPT ![l] = Fallback(L, l)]
             O == overrides[L] \ {l}
             b == dirty[L] \/ Dirties(L, l, Fallback(L, l), FALSE)
  <2>1. L \in live /\ Owned(L, l) /\ Put(L, new) /\ live' = live
    BY <1>2 DEF ResetOption
  <2>2. new \in [Leaves -> Values] /\ O \in SUBSET Leaves /\ b \in BOOLEAN
    BY FallbackType DEF Dirties
  <2>3. /\ overrides' = [overrides EXCEPT ![L] = O]
        /\ dirty' = [dirty EXCEPT ![L] = b]
        /\ quarantine' = [quarantine EXCEPT ![L] =
                            [k \in Keys |-> IF k \in {l} THEN Absent ELSE @[k]]]
    BY <1>2, LiftOne DEF ResetOption
  <2>4. \A k \in O : Owned(L, k) /\ (k \in {l} \/ k \in overrides[L])
    BY <2>1 DEF GlobalStaysGlobal, Owned, Layers
  <2>5. \A k \in Leaves \ O : Owned(L, k) => new[k] = Fallback(L, k)
    BY <2>1 DEF InheritsFallback
  <2>6. {l} \in SUBSET Keys
    BY DEF Keys
  <2> HIDE DEF new, O, b
  <2> QED BY <2>1, <2>2, <2>3, <2>4, <2>5, <2>6, EditKeepsInv
<1>3. ASSUME NEW L \in Layers, NEW g \in Resettable, ResetGroup(L, g)
      PROVE  TreeInv'
  <2> DEFINE inside == {l \in Leaves : Home[l] = g /\ Owned(L, l)}
             new == [l \in Leaves |-> IF l \in inside THEN Fallback(L, l) ELSE value[L][l]]
             O == overrides[L] \ inside
             b == dirty[L] \/ \E l \in inside : value[L][l] # Fallback(L, l)
                                             \/ l \in overrides[L]
             lifted == {k \in Keys : Home[k] = g}
  <2>1. L \in live /\ Put(L, new) /\ live' = live
    BY <1>3 DEF ResetGroup
  <2>2. new \in [Leaves -> Values] /\ O \in SUBSET Leaves /\ b \in BOOLEAN
        /\ lifted \in SUBSET Keys
    BY FallbackType
  <2>3. /\ overrides' = [overrides EXCEPT ![L] = O]
        /\ dirty' = [dirty EXCEPT ![L] = b]
        /\ quarantine' = [quarantine EXCEPT ![L] =
                            [k \in Keys |-> IF k \in lifted THEN Absent ELSE @[k]]]
    BY <1>3 DEF ResetGroup
  <2>4. \A k \in O : Owned(L, k) /\ (k \in lifted \/ k \in overrides[L])
    BY <2>1 DEF GlobalStaysGlobal, Owned, Layers
  <2>5. \A k \in Leaves \ O : Owned(L, k) => new[k] = Fallback(L, k)
    BY <2>1 DEF InheritsFallback
  <2> HIDE DEF new, O, b, lifted
  <2> QED BY <2>1, <2>2, <2>3, <2>4, <2>5, EditKeepsInv
<1>4. ASSUME NEW L \in Layers, NEW d \in FileDocs[L], FileChanges(L, d) \/ CreateOverlay(L, d)
      PROVE  TreeInv'
  <2>1. dirty' = dirty /\ live' \in {live, live \cup {L}}
        /\ (L = Global => L \in live)
    BY <1>4, KeysAssumption DEF FileChanges, CreateOverlay
  <2>2. PICK old \in {value[L], value[Global]} :
          IF d = NotObject
            THEN \/ RefuseJson(L) /\ live' = live
                 \/ Put(L, old) /\ old = value[Global] /\ L # Global
                    /\ UNCHANGED <<overrides, quarantine>>
            ELSE SyncJson(L, d, old)
    BY <1>4, KeysAssumption DEF FileChanges, CreateOverlay
  <2>3. old \in [Leaves -> Values]
    OBVIOUS
  <2>4. CASE d # NotObject
    <3>1. d \in DocsOf(L) /\ SyncJson(L, d, old)
      BY <2>2, <2>4, DocsAssumption
    <3> QED BY <2>1, <2>3, <3>1, SyncKeepsInv
  <2>5. CASE d = NotObject /\ RefuseJson(L) /\ live' = live
    <3>1. quarantine' \in [Layers -> [Keys -> Raw]]
      BY <2>5 DEF RefuseJson, Raw
    <3>2. QuarantineIsNoOverride'
      BY <2>5 DEF RefuseJson, QuarantineIsNoOverride, Keys
    <3> QED BY <2>1, <2>5, <3>1, <3>2
            DEF RefuseJson, InheritsFallback, Fallback, GlobalStaysGlobal, Owned,
                IsGlobalOnly
  <2>6. CASE d = NotObject /\ Put(L, value[Global]) /\ L # Global
             /\ UNCHANGED <<overrides, quarantine>>
    <3>1. \A l \in Leaves : value[Global][l] = Fallback(L, l)
      BY <2>6 DEF Fallback
    <3>2. value[Global] \in [Leaves -> Values]
      BY DEF Layers
    <3>3. InheritsFallback'
      BY <2>1, <2>6, <3>1, <3>2, PutInherits
    <3>4. value' \in [Layers -> [Leaves -> Values]]
      BY <2>6, <3>2, PutType
    <3> QED BY <2>1, <2>6, <3>3, <3>4
            DEF GlobalStaysGlobal, IsGlobalOnly, QuarantineIsNoOverride
  <2> QED BY <2>2, <2>4, <2>5, <2>6
<1>5. ASSUME NEW L \in Layers, Save(L)
      PROVE  TreeInv'
  BY <1>5 DEF Save, InheritsFallback, Fallback, GlobalStaysGlobal, Owned, IsGlobalOnly,
              QuarantineIsNoOverride
<1>6. CASE UNCHANGED vars
  BY <1>6 DEF vars, InheritsFallback, Fallback, GlobalStaysGlobal, Owned, IsGlobalOnly,
              QuarantineIsNoOverride
<1> QED BY <1>1, <1>2, <1>3, <1>4, <1>5, <1>6 DEF Next

(***************************************************************************)
(* An option nobody overrides has the value of its fallback, for any       *)
(* number of screens and any documents in their files.                     *)
(***************************************************************************)
THEOREM OptionsInherit == Spec => []InheritsFallback
<1>1. Init => TreeInv
  BY TreeInit
<1>2. TreeInv /\ [Next]_vars => TreeInv'
  BY TreeStep
<1>3. TreeInv => InheritsFallback
  BY DEF TreeInv
<1> QED BY <1>1, <1>2, <1>3, PTL DEF Spec

(***************************************************************************)
(* No overlay ever overrides what is reserved to the global layer.         *)
(***************************************************************************)
THEOREM ReservedStayGlobal == Spec => []GlobalStaysGlobal
<1>1. Init => TreeInv
  BY TreeInit
<1>2. TreeInv /\ [Next]_vars => TreeInv'
  BY TreeStep
<1>3. TreeInv => GlobalStaysGlobal
  BY DEF TreeInv
<1> QED BY <1>1, <1>2, <1>3, PTL DEF Spec

(***************************************************************************)
(* No option is overridden and quarantined at once.                        *)
(***************************************************************************)
THEOREM OverridesAreNotQuarantined == Spec => []QuarantineIsNoOverride
<1>1. Init => TreeInv
  BY TreeInit
<1>2. TreeInv /\ [Next]_vars => TreeInv'
  BY TreeStep
<1>3. TreeInv => QuarantineIsNoOverride
  BY DEF TreeInv
<1> QED BY <1>1, <1>2, <1>3, PTL DEF Spec
-----------------------------------------------------------------------------
(***************************************************************************)
(* The files.  What a layer would save and what its file holds agree as    *)
(* long as no save is queued: a load quarantines exactly what it does not  *)
(* take over, a write that does not queue a save changes nothing, and what *)
(* the overlays mirror is never saved.                                     *)
(***************************************************************************)

\* What a quarantine may hold: refused values and options of another layer.
QuarantineOK(L) ==
  /\ \A l \in Leaves : /\ quarantine[L][l] # Obj
                       /\ quarantine[L][l] \in Values => ~Owned(L, l)
  /\ \A k \in Groups \cup Strays : quarantine[L][k] \in {Junk, Absent}
  /\ \A k \in Keys : quarantine[L][k] # Absent /\ Home[k] \in Groups => Owned(L, Home[k])

\* The layer shows what its file says.
AsSaved(L) ==
  /\ overrides[L] = Visited(L, file[L])
  /\ \A l \in overrides[L] : value[L][l] = file[L][l]

FileInv(L) ==
  /\ QuarantineOK(L)
  /\ file[L] \in DocsOf(L) \cup {NotObject}
  /\ ~dirty[L] /\ file[L] # NotObject =>
       AsSaved(L) /\ (Resettable = {} => ToJson(L) = file[L])

FilesInv ==
  /\ TreeInv
  /\ DOMAIN file = Layers
  /\ \A L \in Layers : FileInv(L)

\* A layer whose overrides, overridden values and quarantine stay saves the same.
LEMMA SameJson ==
  ASSUME NEW L \in Layers,
         overrides'[L] = overrides[L], quarantine'[L] = quarantine[L],
         \A l \in overrides[L] : value'[L][l] = value[L][l]
  PROVE  ToJson(L)' = ToJson(L) /\ (QuarantineOK(L) => QuarantineOK(L)')
<1>1. \A g \in Groups : HasContent(L, g)' <=> HasContent(L, g)
  BY DEF HasContent
<1>2. ToJson(L)' = ToJson(L)
  BY <1>1 DEF ToJson
<1>3. QuarantineOK(L) => QuarantineOK(L)'
  BY DEF QuarantineOK, Owned, IsGlobalOnly
<1> QED BY <1>2, <1>3

\* Its file agrees with it as before, if it is not written either.
LEMMA LeftAlone ==
  ASSUME NEW L \in Layers, FileInv(L),
         overrides'[L] = overrides[L], quarantine'[L] = quarantine[L],
         \A l \in overrides[L] : value'[L][l] = value[L][l],
         file'[L] = file[L], dirty[L] => dirty'[L]
  PROVE  FileInv(L)'
<1>1. ToJson(L)' = ToJson(L) /\ QuarantineOK(L)'
  BY SameJson DEF FileInv
<1>2. AsSaved(L) => AsSaved(L)'
  BY DEF AsSaved, Visited, Seen, Owned, IsGlobalOnly
<1>3. file'[L] \in DocsOf(L)' \cup {NotObject}
  BY DEF FileInv, DocsOf, Owned, IsGlobalOnly
<1> QED BY <1>1, <1>2, <1>3 DEF FileInv

\* The layers that are not written: mirroring touches only what they do not override.
LEMMA OthersLeftAlone ==
  ASSUME FilesInv, NEW L \in Layers, NEW new \in [Leaves -> Values], Put(L, new),
         NEW M \in Layers \ {L},
         overrides'[M] = overrides[M], quarantine'[M] = quarantine[M],
         file'[M] = file[M], dirty'[M] = dirty[M]
  PROVE  FileInv(M)'
<1>1. value'[M] = IF L = Global /\ M \in live THEN Mirrored(M, new) ELSE value[M]
  BY PutType DEF FilesInv, TreeInv
<1>2. overrides[M] \subseteq Leaves
  BY DEF FilesInv, TreeInv, TreeType
<1>3. \A l \in overrides[M] : value'[M][l] = value[M][l]
  BY <1>1, <1>2 DEF Mirrored
<1> QED BY <1>3, LeftAlone DEF FilesInv

\* What a layer saves is a document, and reads as the overrides it was made from.
LEMMA JsonIsDoc ==
  ASSUME TreeInv, NEW L \in Layers, QuarantineOK(L)
  PROVE  /\ ToJson(L) \in DocsOf(L)
         /\ Visited(L, ToJson(L)) = overrides[L]
         /\ \A l \in overrides[L] : ToJson(L)[l] = value[L][l]
<1> DEFINE d == ToJson(L)
<1>1. /\ overrides[L] \subseteq Leaves /\ \A l \in Leaves : value[L][l] \in Values
      /\ \A k \in Keys : quarantine[L][k] \in Raw
  BY DEF TreeInv, TreeType
<1>2. \A l \in overrides[L] : Owned(L, l)
  BY DEF TreeInv, GlobalStaysGlobal, Owned, Layers
<1>3. /\ \A l \in overrides[L] : d[l] = value[L][l]
      /\ \A l \in Leaves \ overrides[L] : d[l] = quarantine[L][l]
      /\ \A s \in Strays : d[s] = quarantine[L][s]
      /\ \A g \in Groups : d[g] = IF HasContent(L, g) THEN Obj ELSE quarantine[L][g]
  BY <1>1, KeysAssumption DEF ToJson, Keys
<1>4. d = [k \in Keys |-> d[k]]
  BY DEF ToJson
<1>5. Values \subseteq Raw /\ Junk \in Raw /\ Obj \in Raw /\ Absent \in Raw
  BY DEF Raw
<1> HIDE DEF d
<1>6. \A l \in Leaves : d[l] \in Raw /\ d[l] # Obj
  BY <1>1, <1>3, <1>5, ValuesAssumption DEF QuarantineOK, Keys
<1>7. \A s \in Strays : d[s] \in {Junk, Absent}
  BY <1>3 DEF QuarantineOK
<1>8. \A g \in Groups : /\ d[g] \in {Junk, Obj, Absent}
                        /\ d[g] = Obj <=> HasContent(L, g)
  BY <1>3, ValuesAssumption DEF QuarantineOK
<1>9. ASSUME NEW g \in Groups
      PROVE  HasContent(L, g) <=> \E k \in Keys : Home[k] = g /\ d[k] # Absent
  <2>1. ASSUME NEW k \in Keys, Home[k] = g
        PROVE  d[k] # Absent <=> k \in overrides[L] \/ quarantine[L][k] # Absent
    <3>1. k \notin Groups
      BY <2>1, KeysAssumption DEF Keys
    <3>2. CASE k \in overrides[L]
      BY <1>1, <1>3, <3>2, ValuesAssumption
    <3>3. CASE k \notin overrides[L]
      BY <1>3, <2>1, <3>1, <3>3 DEF Keys
    <3> QED BY <3>2, <3>3
  <2> QED BY <2>1 DEF HasContent
<1>10. ASSUME NEW g \in Groups, HasContent(L, g) PROVE Owned(L, g)
  <2>1. PICK k \in Keys : Home[k] = g /\ (k \in overrides[L] \/ quarantine[L][k] # Absent)
    BY <1>10 DEF HasContent
  <2>2. Home[g] \notin GlobalOnly
    BY KeysAssumption DEF Keys
  <2>3. CASE k \in overrides[L]
    BY <1>2, <2>1, <2>2, <2>3 DEF Owned, IsGlobalOnly
  <2>4. CASE quarantine[L][k] # Absent
    BY <2>1, <2>4 DEF QuarantineOK
  <2> QED BY <2>1, <2>3, <2>4
<1>11. d \in DocsOf(L)
  <2>1. \A k \in Keys : d[k] \in Raw
    BY <1>5, <1>6, <1>7, <1>8 DEF Keys
  <2>2. d \in [Keys -> Raw]
    BY <1>4, <2>1
  <2>3. \A g \in Groups : d[g] = Obj <=> \E k \in Keys : Home[k] = g /\ d[k] # Absent
    BY <1>8, <1>9
  <2>4. \A g \in Groups : d[g] = Obj => Owned(L, g)
    BY <1>8, <1>10
  <2> QED BY <1>6, <1>7, <1>8, <2>2, <2>3, <2>4 DEF DocsOf
<1>12. ASSUME NEW l \in Leaves PROVE l \in Visited(L, d) <=> l \in overrides[L]
  <2>1. CASE l \in overrides[L]
    <3>1. d[l] \in Values /\ d[l] # Absent /\ Owned(L, l)
      BY <1>1, <1>2, <1>3, <2>1, ValuesAssumption
    <3>2. Home[l] = Root \/ d[Home[l]] = Obj
      <4>1. l \in Keys /\ Home[l] \in Groups \cup {Root}
        BY KeysAssumption DEF Keys
      <4> QED BY <1>8, <2>1, <4>1 DEF HasContent
    <3> QED BY <2>1, <3>1, <3>2 DEF Visited, Seen
  <2>2. CASE l \notin overrides[L]
    BY <1>3, <2>2 DEF QuarantineOK, Visited
  <2> QED BY <2>1, <2>2
<1>13. Visited(L, d) = overrides[L]
  BY <1>1, <1>12 DEF Visited
<1> QED BY <1>3, <1>11, <1>13 DEF d

\* A load followed by a save writes the document that was read.
LEMMA SyncIsFaithful ==
  ASSUME TreeInv, NEW L \in Layers, NEW d \in DocsOf(L), NEW old \in [Leaves -> Values],
         SyncJson(L, d, old)
  PROVE  /\ overrides'[L] = Visited(L, d)
         /\ \A l \in Visited(L, d) : value'[L][l] = d[l]
         /\ QuarantineOK(L)'
         /\ ToJson(L)' = d
<1> DEFINE visited == Visited(L, d)
           refused == Quarantined(L, d)
<1>1. overrides'[L] = visited /\ quarantine'[L] = [k \in Keys |-> IF k \in refused THEN d[k] ELSE Absent]
  BY DEF SyncJson, TreeInv, TreeType
<1>2. value'[L] = Loaded(L, d, old)
  BY LoadedType, PutType DEF SyncJson, TreeInv
<1>3. \A l \in visited : value'[L][l] = d[l]
  BY <1>2, VisitedFacts DEF Loaded
<1>4. /\ d \in [Keys -> Raw]
      /\ \A l \in Leaves : d[l] # Obj
      /\ \A g \in Groups : d[g] \in {Junk, Obj, Absent} /\ (d[g] = Obj => Owned(L, g))
      /\ \A s \in Strays : d[s] \in {Junk, Absent}
      /\ \A g \in Groups : d[g] = Obj <=> \E k \in Keys : Home[k] = g /\ d[k] # Absent
  BY DEF DocsOf
<1>5. \A k \in Keys : d[k] # Absent => Seen(d, k)
  <2> SUFFICES ASSUME NEW k \in Keys, d[k] # Absent PROVE Home[k] = Root \/ d[Home[k]] = Obj
    BY DEF Seen
  <2>1. Home[k] \in Groups \cup {Root}
    BY KeysAssumption
  <2> QED BY <1>4, <2>1
<1>6. \A k \in Keys : Seen(d, k) => d[k] # Absent /\ (Home[k] \in Groups => d[Home[k]] = Obj)
  BY KeysAssumption DEF Seen, Keys
<1>7. \A k \in Keys : k \in refused <=> d[k] # Absent /\ k \notin visited /\ ~(k \in Groups /\ d[k] = Obj)
  BY <1>5, <1>6 DEF Quarantined
<1>8. \A l \in Leaves : l \in visited <=> d[l] \in Values /\ Owned(L, l)
  BY <1>5, ValuesAssumption DEF Visited, Keys
<1>9. \A k \in Keys : quarantine'[L][k] = IF k \in refused THEN d[k] ELSE Absent
  BY <1>1
<1>10. QuarantineOK(L)'
  <2>1. ASSUME NEW l \in Leaves
        PROVE  quarantine'[L][l] # Obj /\ (quarantine'[L][l] \in Values => ~Owned(L, l))
    <3>1. l \in Keys
      BY DEF Keys
    <3> QED BY <1>4, <1>7, <1>8, <1>9, <3>1, ValuesAssumption
  <2>2. ASSUME NEW k \in Groups \cup Strays PROVE quarantine'[L][k] \in {Junk, Absent}
    <3>1. k \in Keys
      BY DEF Keys
    <3> QED BY <1>4, <1>7, <1>9, <3>1
  <2>3. ASSUME NEW k \in Keys, quarantine'[L][k] # Absent, Home[k] \in Groups PROVE Owned(L, Home[k])
    <3>1. d[k] # Absent
      BY <1>7, <1>9, <2>3
    <3> QED BY <1>4, <1>5, <1>6, <2>3, <3>1
  <2> QED BY <2>1, <2>2, <2>3 DEF QuarantineOK, Owned, IsGlobalOnly
<1>11. ASSUME NEW k \in Keys PROVE ToJson(L)'[k] = d[k]
  <2>0. visited \subseteq Leaves /\ ToJson(L)'[k] =
          CASE k \in visited                        -> value'[L][k]
            [] k \in Groups /\ HasContent(L, k)'    -> Obj
            [] OTHER                                -> quarantine'[L][k]
    BY <1>1, VisitedFacts DEF ToJson
  <2>1. CASE k \in visited
    BY <1>3, <2>0, <2>1, KeysAssumption
  <2>2. CASE k \in Groups
    <3>1. k \notin visited
      BY <2>0, <2>2, KeysAssumption
    <3>2. HasContent(L, k)' <=> d[k] = Obj
      <4>1. ASSUME NEW j \in Keys, Home[j] = k
            PROVE  j \in visited \/ quarantine'[L][j] # Absent <=> d[j] # Absent
        <5>1. j \notin Groups
          BY <2>2, <4>1, KeysAssumption DEF Keys
        <5>2. j \in visited => d[j] # Absent
          BY <2>0, <1>8, ValuesAssumption
        <5> QED BY <1>7, <1>9, <5>1, <5>2
      <4>2. HasContent(L, k)' <=> \E j \in Keys : Home[j] = k /\ d[j] # Absent
        BY <1>1, <4>1 DEF HasContent
      <4> QED BY <1>4, <2>2, <4>2
    <3> QED BY <1>4, <1>7, <1>9, <2>0, <2>2, <3>1, <3>2
  <2>3. CASE k \notin visited /\ k \notin Groups
    BY <1>7, <1>9, <2>0, <2>3
  <2> QED BY <2>1, <2>2, <2>3
<1>12. ToJson(L)' = d
  <2>1. ToJson(L)' = [k \in Keys |-> ToJson(L)'[k]]
    BY DEF ToJson
  <2> QED BY <1>4, <1>11, <2>1
<1> QED BY <1>1, <1>3, <1>10, <1>12

\* Lifting quarantined values leaves the rest as it may be.
LEMMA LiftingIsFine ==
  ASSUME NEW L \in Layers, QuarantineOK(L),
         \A k \in Keys : quarantine'[L][k] \in {quarantine[L][k], Absent}
  PROVE  QuarantineOK(L)'
<1>1. ASSUME NEW l \in Leaves
      PROVE  quarantine'[L][l] # Obj /\ (quarantine'[L][l] \in Values => ~Owned(L, l))
  <2>1. l \in Keys
    BY DEF Keys
  <2>2. Absent # Obj /\ Absent \notin Values
    BY ValuesAssumption
  <2> QED BY <2>1, <2>2 DEF QuarantineOK
<1>2. ASSUME NEW k \in Groups \cup Strays PROVE quarantine'[L][k] \in {Junk, Absent}
  BY DEF QuarantineOK, Keys
<1>3. ASSUME NEW k \in Keys, quarantine'[L][k] # Absent, Home[k] \in Groups
      PROVE  Owned(L, Home[k])
  BY <1>3 DEF QuarantineOK
<1> QED BY <1>1, <1>2, <1>3 DEF QuarantineOK, Owned, IsGlobalOnly

\* Before anything is loaded or written, there is nothing to save.
LEMMA FilesInit == Init => FilesInv
<1> SUFFICES ASSUME Init, NEW L \in Layers PROVE FileInv(L)
  BY TreeInit DEF FilesInv, Init
<1>1. \A k \in Keys : quarantine[L][k] = Absent /\ file[L][k] = Absent
  BY DEF Init, EmptyDoc
<1>2. overrides[L] = {}
  BY DEF Init
<1>3. QuarantineOK(L)
  BY <1>1, ValuesAssumption DEF QuarantineOK, Keys
<1>4. ToJson(L) = file[L]
  <2>1. \A k \in Keys : ToJson(L)[k] = Absent
    BY <1>1, <1>2 DEF ToJson, HasContent
  <2>2. ToJson(L) = [k \in Keys |-> ToJson(L)[k]]
    BY DEF ToJson
  <2> QED BY <2>1, <2>2 DEF Init, EmptyDoc
<1>5. file[L] \in DocsOf(L) /\ Visited(L, file[L]) = overrides[L]
  BY <1>3, <1>4, TreeInit, JsonIsDoc
<1> QED BY <1>2, <1>3, <1>4, <1>5 DEF FileInv, AsSaved

\* Writes, resets, loads and saves keep the files and the trees together.
LEMMA FilesStep ==
  ASSUME FilesInv, [Next]_vars
  PROVE  FilesInv'
<1> USE DEF TreeInv, TreeType
<1>0. TreeInv /\ \A M \in Layers : FileInv(M)
  BY DEF FilesInv
<1>. TreeInv /\ TreeInv' /\ DOMAIN file = Layers
  BY TreeStep DEF FilesInv
<1>1. DOMAIN file' = Layers
  BY DEF Next, QmlWrite, ResetOption, ResetGroup, FileChanges, CreateOverlay, Save, vars
<1>. SUFFICES \A M \in Layers : FileInv(M)'
  BY <1>1 DEF FilesInv
<1>2. ASSUME NEW L \in Layers, NEW l \in Leaves, NEW v \in Values, NEW override \in BOOLEAN,
             Put(L, [value[L] EXCEPT ![l] = v]),
             overrides' = [overrides EXCEPT ![L] = IF override THEN @ \cup {l} ELSE @ \ {l}],
             quarantine' = [quarantine EXCEPT ![L][l] = Absent],
             dirty' = [dirty EXCEPT ![L] = @ \/ Dirties(L, l, v, override)],
             UNCHANGED file
      PROVE  \A M \in Layers : FileInv(M)'
  <2> DEFINE new == [value[L] EXCEPT ![l] = v]
  <2>1. new \in [Leaves -> Values] /\ Put(L, new)
    BY <1>2
  <2>2. \A M \in Layers \ {L} : FileInv(M)'
    BY <1>2, <2>1, OthersLeftAlone
  <2>3. value'[L] = new
    BY <1>0, <2>1, PutType
  <2>4. \A k \in Keys : quarantine'[L][k] = IF k = l THEN Absent ELSE quarantine[L][k]
    BY <1>2 DEF Keys
  <2>5. QuarantineOK(L)'
    BY <1>0, <2>4, LiftingIsFine DEF FileInv
  <2>6. CASE dirty'[L]
    <3>1. file'[L] \in DocsOf(L)' \cup {NotObject}
      <4>1. file[L] \in DocsOf(L) \cup {NotObject} /\ file'[L] = file[L]
        BY <1>0, <1>2 DEF FileInv
      <4> QED BY <4>1 DEF DocsOf, Owned, IsGlobalOnly
    <3>2. FileInv(L)'
      BY <2>5, <2>6, <3>1 DEF FileInv
    <3> QED BY <2>2, <3>2
  <2>7. CASE ~dirty'[L]
    <3>1. v = value[L][l] /\ (l \in overrides[L]) = override /\ quarantine[L][l] = Absent /\ ~dirty[L]
      BY <1>2, <2>7 DEF Dirties
    <3>2. overrides'[L] = overrides[L]
      BY <1>2, <3>1
    <3>3. quarantine'[L] = quarantine[L]
      BY <1>2, <3>1 DEF Keys
    <3>4. \A k \in overrides[L] : value'[L][k] = value[L][k]
      BY <2>3, <3>1
    <3>5. file'[L] = file[L] /\ (dirty[L] => dirty'[L])
      BY <1>2, <3>1
    <3>6. FileInv(L)
      BY <1>0
    <3>7. FileInv(L)'
      BY <3>2, <3>3, <3>4, <3>5, <3>6, LeftAlone
    <3> QED BY <2>2, <3>7
  <2> QED BY <2>2, <2>6, <2>7
<1>3. ASSUME NEW L \in Layers, NEW l \in Leaves, NEW v \in Values, QmlWrite(L, l, v)
      PROVE  \A M \in Layers : FileInv(M)'
  <2>1. /\ Put(L, [value[L] EXCEPT ![l] = v])
        /\ overrides' = [overrides EXCEPT ![L] = IF TRUE THEN @ \cup {l} ELSE @ \ {l}]
        /\ quarantine' = [quarantine EXCEPT ![L][l] = Absent]
        /\ dirty' = [dirty EXCEPT ![L] = @ \/ Dirties(L, l, v, TRUE)]
        /\ UNCHANGED file
    BY <1>3 DEF QmlWrite
  <2> QED BY <1>2, <2>1
<1>4. ASSUME NEW L \in Layers, NEW l \in Leaves, ResetOption(L, l)
      PROVE  \A M \in Layers : FileInv(M)'
  <2>1. /\ Put(L, [value[L] EXCEPT ![l] = Fallback(L, l)])
        /\ overrides' = [overrides EXCEPT ![L] = IF FALSE THEN @ \cup {l} ELSE @ \ {l}]
        /\ quarantine' = [quarantine EXCEPT ![L][l] = Absent]
        /\ dirty' = [dirty EXCEPT ![L] = @ \/ Dirties(L, l, Fallback(L, l), FALSE)]
        /\ UNCHANGED file
    BY <1>4 DEF ResetOption
  <2>2. Fallback(L, l) \in Values
    BY <1>0, FallbackType
  <2> QED BY <1>2, <2>1, <2>2
<1>5. ASSUME NEW L \in Layers, NEW g \in Resettable, ResetGroup(L, g)
      PROVE  \A M \in Layers : FileInv(M)'
  <2> DEFINE inside == {l \in Leaves : Home[l] = g /\ Owned(L, l)}
             new == [l \in Leaves |-> IF l \in inside THEN Fallback(L, l) ELSE value[L][l]]
  <2>1. /\ Put(L, new) /\ overrides' = [overrides EXCEPT ![L] = @ \ inside]
        /\ quarantine' = [quarantine EXCEPT ![L] = [k \in Keys |-> IF Home[k] = g THEN Absent ELSE @[k]]]
        /\ dirty' = [dirty EXCEPT ![L] =
                       @ \/ \E l \in inside : value[L][l] # Fallback(L, l) \/ l \in overrides[L]]
        /\ UNCHANGED file
    BY <1>5 DEF ResetGroup
  <2>2. new \in [Leaves -> Values]
    BY <1>0, FallbackType
  <2>3. \A M \in Layers \ {L} : FileInv(M)'
    BY <2>1, <2>2, OthersLeftAlone
  <2>4. \A k \in Keys : quarantine'[L][k] = IF Home[k] = g THEN Absent ELSE quarantine[L][k]
    BY <2>1
  <2>5. QuarantineOK(L)'
    BY <1>0, <2>4, LiftingIsFine DEF FileInv
  <2>6. file'[L] \in DocsOf(L)' \cup {NotObject}
    BY <1>0, <2>1 DEF FileInv, DocsOf, Owned, IsGlobalOnly
  <2>7. ASSUME ~dirty'[L], file'[L] # NotObject PROVE AsSaved(L)'
    <3>1. ~dirty[L] /\ \A l \in inside : l \notin overrides[L]
      BY <2>1, <2>7
    <3>2. AsSaved(L)
      BY <1>0, <2>1, <2>7, <3>1 DEF FileInv
    <3>3. overrides'[L] = overrides[L]
      BY <2>1, <3>1
    <3>4. \A l \in overrides[L] : value'[L][l] = value[L][l]
      <4>1. value'[L] = new
        BY <1>0, <2>1, <2>2, PutType
      <4> QED BY <3>1, <4>1
    <3> QED BY <2>1, <3>2, <3>3, <3>4 DEF AsSaved, Visited, Seen, Owned, IsGlobalOnly
  <2>8. Resettable # {}
    BY <1>5
  <2> QED BY <2>3, <2>5, <2>6, <2>7, <2>8 DEF FileInv
<1>6. ASSUME NEW L \in Layers, NEW d \in FileDocs[L], FileChanges(L, d) \/ CreateOverlay(L, d)
      PROVE  \A M \in Layers : FileInv(M)'
  <2>1. file' = [file EXCEPT ![L] = d] /\ UNCHANGED dirty
    BY <1>6 DEF FileChanges, CreateOverlay
  <2>2. PICK old \in {value[L], value[Global]} :
          IF d = NotObject
            THEN RefuseJson(L) \/ (Put(L, old) /\ UNCHANGED <<overrides, quarantine>>)
            ELSE SyncJson(L, d, old)
    BY <1>6 DEF FileChanges, CreateOverlay
  <2>3. old \in [Leaves -> Values]
    BY DEF Layers
  <2>4. file'[L] = d /\ \A M \in Layers \ {L} : file'[M] = file[M]
    BY <2>1
  <2>5. CASE d # NotObject
    <3>1. d \in DocsOf(L) /\ SyncJson(L, d, old)
      BY <2>2, <2>5, DocsAssumption
    <3>2. Put(L, Loaded(L, d, old)) /\ Loaded(L, d, old) \in [Leaves -> Values]
      BY <1>0, <2>3, <3>1, LoadedType DEF SyncJson
    <3>3. \A M \in Layers \ {L} : overrides'[M] = overrides[M] /\ quarantine'[M] = quarantine[M]
      BY <3>1 DEF SyncJson
    <3>4. \A M \in Layers \ {L} : FileInv(M)'
      BY <2>1, <2>4, <3>2, <3>3, OthersLeftAlone
    <3>5. /\ overrides'[L] = Visited(L, d) /\ \A l \in Visited(L, d) : value'[L][l] = d[l]
          /\ QuarantineOK(L)' /\ ToJson(L)' = d
      BY <1>0, <2>3, <3>1, SyncIsFaithful
    <3>6. AsSaved(L)'
      BY <2>4, <3>5 DEF AsSaved, Visited, Seen, Owned, IsGlobalOnly
    <3>7. file'[L] \in DocsOf(L)'
      BY <2>4, <3>1 DEF DocsOf, Owned, IsGlobalOnly
    <3> QED BY <2>4, <3>4, <3>5, <3>6, <3>7 DEF FileInv
  <2>6. CASE d = NotObject
    <3>1. CASE RefuseJson(L)
      <4>1. /\ UNCHANGED <<value, overrides>>
            /\ \A M \in Layers \ {L} : quarantine'[M] = quarantine[M]
            /\ \A k \in Keys : quarantine'[L][k] = IF Home[k] = Root THEN Absent ELSE quarantine[L][k]
        BY <3>1 DEF RefuseJson
      <4>2. \A M \in Layers \ {L} : FileInv(M)'
        BY <1>0, <2>1, <2>4, <4>1, LeftAlone
      <4>3. QuarantineOK(L)'
        <5>1. QuarantineOK(L)
          BY <1>0 DEF FileInv
        <5>2. ASSUME NEW k \in Keys PROVE quarantine'[L][k] \in {quarantine[L][k], Absent}
          BY <4>1
        <5> QED BY <5>1, <5>2, LiftingIsFine
      <4> QED BY <2>4, <2>6, <4>2, <4>3 DEF FileInv
    <3>2. CASE Put(L, old) /\ UNCHANGED <<overrides, quarantine>>
      <4>1. \A M \in Layers \ {L} : FileInv(M)'
        BY <2>1, <2>3, <2>4, <3>2, OthersLeftAlone
      <4>2. QuarantineOK(L)'
        BY <1>0, <3>2 DEF FileInv, QuarantineOK, Owned, IsGlobalOnly
      <4> QED BY <2>4, <2>6, <4>1, <4>2 DEF FileInv
    <3> QED BY <2>2, <2>6, <3>1, <3>2
  <2> QED BY <2>5, <2>6
<1>7. ASSUME NEW L \in Layers, Save(L)
      PROVE  \A M \in Layers : FileInv(M)'
  <2>1. /\ UNCHANGED <<value, overrides, quarantine>>
        /\ file'[L] = ToJson(L)
        /\ \A M \in Layers \ {L} : file'[M] = file[M] /\ dirty'[M] = dirty[M]
    BY <1>7 DEF Save
  <2>2. \A M \in Layers \ {L} : FileInv(M)'
    BY <1>0, <2>1, LeftAlone
  <2>3. /\ ToJson(L) \in DocsOf(L) /\ Visited(L, ToJson(L)) = overrides[L]
        /\ \A l \in overrides[L] : ToJson(L)[l] = value[L][l]
    BY <1>0, JsonIsDoc DEF FileInv
  <2>4. ToJson(L)' = ToJson(L) /\ QuarantineOK(L)'
    BY <1>0, <2>1, SameJson DEF FileInv
  <2>5. AsSaved(L)'
    BY <2>1, <2>3 DEF AsSaved, Visited, Seen, Owned, IsGlobalOnly
  <2>6. file'[L] \in DocsOf(L)'
    BY <2>1, <2>3 DEF DocsOf, Owned, IsGlobalOnly
  <2> QED BY <2>1, <2>2, <2>4, <2>5, <2>6 DEF FileInv
<1>8. CASE UNCHANGED vars
  BY <1>0, <1>8, LeftAlone DEF vars
<1> QED BY <1>3, <1>4, <1>5, <1>6, <1>7, <1>8 DEF Next

(***************************************************************************)
(* The types of the layers, the files included: toJson only makes          *)
(* documents.                                                              *)
(***************************************************************************)
THEOREM TypeCorrect == Spec => []TypeOK
<1>1. FilesInv => TypeOK
  BY DEF FilesInv, FileInv, TreeInv, TreeType, TypeOK
<1> QED BY <1>1, FilesInit, FilesStep, PTL DEF Spec

(***************************************************************************)
(* With no save queued, a restart shows the same options, for any schema,  *)
(* any documents and any number of screens: syncJson reads what toJson     *)
(* wrote, and recordWrite queues a save for everything that matters.       *)
(***************************************************************************)
THEOREM RestartsAreFaithful == Spec => []RestartShowsTheSame
<1>1. FilesInv => RestartShowsTheSame
  <2> SUFFICES ASSUME FilesInv, NEW L \in live, ~dirty[L], file[L] # NotObject
               PROVE  /\ overrides[L] = Visited(L, file[L])
                      /\ \A l \in Leaves : Owned(L, l) => value[L][l] = Loaded(L, file[L], value[L])[l]
    BY DEF RestartShowsTheSame
  <2>1. AsSaved(L)
    BY DEF FilesInv, FileInv, TreeInv, TreeType
  <2>2. \A l \in Leaves : Owned(L, l) /\ l \notin overrides[L] => value[L][l] = Fallback(L, l)
    BY DEF FilesInv, TreeInv, InheritsFallback
  <2> QED BY <2>1, <2>2 DEF AsSaved, Loaded
<1> QED BY <1>1, FilesInit, FilesStep, PTL DEF Spec

(***************************************************************************)
(* Without resets of whole sub-objects, which drop what is quarantined in  *)
(* them, saving would not change a file when no save is queued.            *)
(***************************************************************************)
THEOREM FilesAreKept ==
  ASSUME Resettable = {}
  PROVE  Spec => []FileIsKept
<1>1. FilesInv => FileIsKept
  BY DEF FilesInv, FileInv, TreeInv, TreeType, FileIsKept
<1> QED BY <1>1, FilesInit, FilesStep, PTL DEF Spec
-----------------------------------------------------------------------------
(***************************************************************************)
(* The promise.  The layers set what they override; an overlay that does   *)
(* not exist yet sets nothing, so it shows what Global shows.              *)
(***************************************************************************)
Dormant == \A L \in Layers \ live : overrides[L] = {}

\* What is shown is what the layer sets, else what Global sets, else the default.
ShownIsEffective ==
  ShownByLayers = [L \in Layers |-> [l \in Promise!Visible(L) |-> Promise!Effective(L, l)]]

PromiseInv == TreeInv /\ Dormant /\ ShownIsEffective

\* What a layer may set and what it has.
LEMMA VisibleIsOwned ==
  \A L : Promise!Visible(L) = {l \in Leaves : Owned(L, l)}
BY DEF Promise!Visible, Owned

LEMMA InheritanceShows == TreeInv /\ Dormant => ShownIsEffective
<1> SUFFICES ASSUME TreeInv, Dormant
             PROVE  ShownIsEffective
  OBVIOUS
<1>0. ASSUME NEW L \in Layers, NEW l \in Leaves, Owned(L, l)
      PROVE  ShownByLayers[L][l] = Promise!Effective(L, l)
  <2> DEFINE s(M) == SetByLayers[M][l]
  <2>1. Global \in Layers /\ Global \in live
    BY DEF TreeInv, TreeType, Layers
  <2>2. value[L][l] \in Values /\ value[Global][l] \in Values /\ Absent \notin Values
    BY <2>1, ValuesAssumption DEF TreeInv, TreeType
  <2>3. \A M \in Layers : s(M) = IF l \in overrides[M] THEN value[M][l] ELSE Absent
    BY DEF SetByLayers
  <2>4. value[Global][l] = IF s(Global) # Absent THEN s(Global) ELSE Default[l]
    BY <2>1, <2>2, <2>3 DEF TreeInv, InheritsFallback, Owned, Fallback
  <2>5. ShownByLayers[L][l] = IF L \in live THEN value[L][l] ELSE value[Global][l]
    BY <1>0 DEF ShownByLayers
  <2>6. Promise!Effective(L, l) = IF s(L) # Absent THEN s(L)
                                  ELSE IF s(Global) # Absent THEN s(Global)
                                  ELSE Default[l]
    BY DEF Promise!Effective
  <2> HIDE DEF s
  <2>7. CASE L \in live
    <3>1. l \notin overrides[L] => value[L][l] = Fallback(L, l)
      BY <1>0, <2>7 DEF TreeInv, InheritsFallback
    <3>2. Fallback(L, l) = IF L = Global THEN Default[l] ELSE value[Global][l]
      BY DEF Fallback
    <3> QED BY <2>2, <2>3, <2>4, <2>5, <2>6, <2>7, <3>1, <3>2
  <2>8. CASE L \notin live
    BY <2>3, <2>4, <2>5, <2>6, <2>8 DEF Dormant
  <2> QED BY <2>7, <2>8
<1>1. ASSUME NEW L \in Layers
      PROVE  ShownByLayers[L] = [l \in Promise!Visible(L) |-> Promise!Effective(L, l)]
  <2>1. ShownByLayers[L] = [l \in Promise!Visible(L) |-> ShownByLayers[L][l]]
    BY VisibleIsOwned DEF ShownByLayers
  <2> QED BY <1>0, <2>1, VisibleIsOwned
<1>2. ShownByLayers = [L \in Layers |-> ShownByLayers[L]]
  BY DEF ShownByLayers
<1> QED BY <1>1, <1>2 DEF ShownIsEffective

\* A step that leaves what the other layers set alone is one the promise allows.
LEMMA OneLayerAssigns ==
  ASSUME PromiseInv', NEW L \in Layers,
         \A M \in Layers \ {L} : SetByLayers'[M] = SetByLayers[M]
  PROVE  Promise!Assign(L)
<1> DEFINE new == [l \in Promise!Visible(L) |-> SetByLayers'[L][l]]
<1>1. SetByLayers = [M \in Layers |-> SetByLayers[M]]
      /\ SetByLayers' = [M \in Layers |-> SetByLayers'[M]]
      /\ SetByLayers'[L] = [l \in Leaves |-> SetByLayers'[L][l]]
  BY DEF SetByLayers
<1>2. ASSUME NEW l \in Leaves PROVE SetByLayers'[L][l] \in Values \cup {Absent}
  BY DEF PromiseInv, TreeInv, TreeType, SetByLayers
<1>3. new \in [Promise!Visible(L) -> Values \cup {Absent}]
  BY <1>2, VisibleIsOwned
<1>4. ASSUME NEW l \in Leaves, ~Owned(L, l) PROVE SetByLayers'[L][l] = Absent
  BY <1>4 DEF PromiseInv, TreeInv, GlobalStaysGlobal, Owned, IsGlobalOnly, Layers, SetByLayers
<1>5. SetByLayers'[L] = [l \in Leaves |-> IF l \in Promise!Visible(L) THEN new[l] ELSE Absent]
  BY <1>1, <1>4, VisibleIsOwned
<1>6. SetByLayers' = [SetByLayers EXCEPT
                        ![L] = [l \in Leaves |-> IF l \in Promise!Visible(L) THEN new[l]
                                                                             ELSE Absent]]
  <2> HIDE DEF new
  <2> QED BY <1>1, <1>5
<1>7. ShownByLayers' =
        [M \in Layers |-> [l \in Promise!Visible(M) |-> Promise!Effective(M, l)']]
  BY DEF PromiseInv, ShownIsEffective
<1> QED BY <1>3, <1>6, <1>7 DEF Promise!Assign

\* Where values go, the other layers set what they did.
LEMMA PutSetsOneLayer ==
  ASSUME TreeInv, Dormant, NEW L \in Layers, NEW new \in [Leaves -> Values], Put(L, new),
         \A M \in Layers \ {L} : overrides'[M] = overrides[M]
  PROVE  \A M \in Layers \ {L} : SetByLayers'[M] = SetByLayers[M]
<1> SUFFICES ASSUME NEW M \in Layers \ {L}, NEW l \in Leaves, l \in overrides[M]
             PROVE  value'[M][l] = value[M][l]
  BY DEF SetByLayers
<1>1. value'[M] = IF L = Global /\ M \in live THEN Mirrored(M, new) ELSE value[M]
  BY PutType DEF TreeInv
<1> QED BY <1>1 DEF Mirrored, TreeInv, TreeType

\* Layers start at their defaults, with no overlay.
LEMMA PromiseInit ==
  ASSUME Init
  PROVE  PromiseInv /\ Promise!Init
<1>1. TreeInv
  BY TreeInit
<1>2. Dormant
  BY DEF Init, Dormant
<1>3. SetByLayers = [L \in Layers |-> [l \in Leaves |-> Absent]]
  BY DEF Init, SetByLayers
<1>4. ShownByLayers = [L \in Layers |-> [l \in Promise!Visible(L) |-> Default[l]]]
  <2>1. Global \in Layers
    BY DEF Layers
  <2>2. \A L \in Layers : ShownByLayers[L] = [l \in Promise!Visible(L) |-> Default[l]]
    BY <2>1, VisibleIsOwned DEF Init, ShownByLayers
  <2>3. ShownByLayers = [L \in Layers |-> ShownByLayers[L]]
    BY DEF ShownByLayers
  <2> QED BY <2>2, <2>3
<1> QED BY <1>1, <1>2, <1>3, <1>4, InheritanceShows DEF PromiseInv, Promise!Init

\* Every operation changes what one layer sets, or nothing the reader can tell.
LEMMA PromiseStep ==
  ASSUME PromiseInv, [Next]_vars
  PROVE  PromiseInv' /\ [Promise!Next]_Promise!vars
<1> USE DEF PromiseInv
<1>0. TreeInv'
  BY TreeStep
<1>1. ASSUME NEW L \in Layers, NEW new \in [Leaves -> Values], Put(L, new),
             \A M \in Layers \ {L} : overrides'[M] = overrides[M],
             live' = live \cup {L}
      PROVE  PromiseInv' /\ Promise!Next
  <2>1. Dormant'
    BY <1>1 DEF Dormant, Layers
  <2>2. PromiseInv'
    BY <1>0, <2>1, InheritanceShows, PTL
  <2>3. \A M \in Layers \ {L} : SetByLayers'[M] = SetByLayers[M]
    BY <1>1, PutSetsOneLayer
  <2> QED BY <2>2, <2>3, OneLayerAssigns DEF Promise!Next
<1>2. ASSUME UNCHANGED <<live, value, overrides>>
      PROVE  PromiseInv' /\ UNCHANGED Promise!vars
  <2>1. Dormant'
    BY <1>2 DEF Dormant
  <2>2. PromiseInv'
    BY <1>0, <2>1, InheritanceShows, PTL
  <2>3. SetByLayers' = SetByLayers
    BY <1>2 DEF SetByLayers
  <2>4. ShownByLayers' = ShownByLayers
    BY <1>2 DEF ShownByLayers, Owned, IsGlobalOnly
  <2> QED BY <2>2, <2>3, <2>4 DEF Promise!vars
<1>3. ASSUME NEW L \in Layers, NEW l \in Leaves, NEW v \in Values,
             QmlWrite(L, l, v) \/ ResetOption(L, l)
      PROVE  PromiseInv' /\ Promise!Next
  <2>1. PICK w \in Values : Put(L, [value[L] EXCEPT ![l] = w])
    BY <1>3, FallbackType DEF QmlWrite, ResetOption, TreeInv
  <2>2. [value[L] EXCEPT ![l] = w] \in [Leaves -> Values]
    BY DEF TreeInv, TreeType
  <2>3. /\ \A M \in Layers \ {L} : overrides'[M] = overrides[M]
        /\ live' = live \cup {L}
    BY <1>3 DEF QmlWrite, ResetOption, TreeInv, TreeType
  <2> QED BY <1>1, <2>1, <2>2, <2>3
<1>4. ASSUME NEW L \in Layers, NEW g \in Resettable, ResetGroup(L, g)
      PROVE  PromiseInv' /\ Promise!Next
  <2> DEFINE inside == {l \in Leaves : Home[l] = g /\ Owned(L, l)}
             new == [l \in Leaves |-> IF l \in inside THEN Fallback(L, l) ELSE value[L][l]]
  <2>1. Put(L, new) /\ new \in [Leaves -> Values]
    BY <1>4, FallbackType DEF ResetGroup, TreeInv, TreeType
  <2>2. /\ \A M \in Layers \ {L} : overrides'[M] = overrides[M]
        /\ live' = live \cup {L}
    BY <1>4 DEF ResetGroup, TreeInv, TreeType
  <2> HIDE DEF new
  <2> QED BY <1>1, <2>1, <2>2
<1>5. ASSUME NEW L \in Layers, NEW d \in DocsOf(L), NEW old \in [Leaves -> Values],
             SyncJson(L, d, old), live' = live \cup {L}
      PROVE  PromiseInv' /\ Promise!Next
  <2>1. Put(L, Loaded(L, d, old)) /\ Loaded(L, d, old) \in [Leaves -> Values]
    BY <1>5, LoadedType DEF SyncJson, TreeInv
  <2>2. \A M \in Layers \ {L} : overrides'[M] = overrides[M]
    BY <1>5 DEF SyncJson, TreeInv, TreeType
  <2> QED BY <1>1, <1>5, <2>1, <2>2
<1>6. ASSUME NEW L \in Layers, NEW d \in FileDocs[L], FileChanges(L, d)
      PROVE  PromiseInv' /\ (Promise!Next \/ UNCHANGED Promise!vars)
  <2>1. CASE d = NotObject
    BY <1>2, <1>6, <2>1 DEF FileChanges, RefuseJson
  <2>2. CASE d # NotObject
    <3>1. d \in DocsOf(L) /\ SyncJson(L, d, value[L]) /\ live' = live \cup {L}
      BY <1>6, <2>2, DocsAssumption DEF FileChanges
    <3> QED BY <1>5, <3>1 DEF TreeInv, TreeType
  <2> QED BY <2>1, <2>2
<1>7. ASSUME NEW L \in Layers, NEW d \in FileDocs[L], CreateOverlay(L, d)
      PROVE  PromiseInv' /\ Promise!Next
  <2>0. value[Global] \in [Leaves -> Values] /\ live' = live \cup {L}
    BY <1>7 DEF CreateOverlay, TreeInv, TreeType, Layers
  <2>1. CASE d = NotObject
    BY <1>1, <1>7, <2>0, <2>1 DEF CreateOverlay
  <2>2. CASE d # NotObject
    <3>1. d \in DocsOf(L) /\ SyncJson(L, d, value[Global])
      BY <1>7, <2>2, DocsAssumption DEF CreateOverlay
    <3> QED BY <1>5, <2>0, <3>1
  <2> QED BY <2>1, <2>2
<1>8. ASSUME NEW L \in Layers, Save(L)
      PROVE  PromiseInv' /\ UNCHANGED Promise!vars
  BY <1>2, <1>8 DEF Save
<1>9. CASE UNCHANGED vars
  BY <1>2, <1>9 DEF vars
<1>10. ASSUME NEW L \in Layers, NEW l \in Leaves, ResetOption(L, l)
       PROVE  PromiseInv' /\ Promise!Next
  <2>1. Default[l] \in Values
    BY ValuesAssumption
  <2> QED BY <1>3, <1>10, <2>1
<1> QED BY <1>3, <1>4, <1>6, <1>7, <1>8, <1>9, <1>10 DEF Next

(***************************************************************************)
(* For any schema, documents and screens, the trees implement the promise: *)
(* what a reader sees is what his layer sets, else what Global sets, else  *)
(* the default, and no operation changes what another layer sets.          *)
(***************************************************************************)
THEOREM PromiseIsKept == Spec => LayersKeepThePromise
<1>1. Init => PromiseInv /\ Promise!Init
  BY PromiseInit
<1>2. PromiseInv /\ [Next]_vars => PromiseInv' /\ [Promise!Next]_Promise!vars
  BY PromiseStep
<1> QED BY <1>1, <1>2, PTL DEF Spec, LayersKeepThePromise, Promise!Spec
=============================================================================
