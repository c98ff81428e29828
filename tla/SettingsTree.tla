---------------------------- MODULE SettingsTree ----------------------------
(***************************************************************************)
(* The option trees of the global layer and of the overlay of each screen: *)
(* ObjectNode and Node.  A write from QML, a reset and a load from a file  *)
(* differ by their WriteOrigin; a change of the global layer reaches the   *)
(* overlays in the same call, through optionChanged.                       *)
(*                                                                         *)
(* A tree has a root with leaf options and one level of sub-objects.  A    *)
(* document maps every key to a value, Obj for an object its node accepts, *)
(* Junk for whatever its codec or node refuses, or Absent.  List options   *)
(* are not here.                                                           *)
(***************************************************************************)
CONSTANTS
  Global,      \* the global layer
  Overlays,    \* the layers of the screens, which fall back to Global
  Root,        \* the root node
  Groups,      \* its sub-objects
  Leaves,      \* options
  Strays,      \* keys no schema knows
  Home,        \* Home[k]: the node key k belongs to
  GlobalOnly,  \* leaves and groups declared global only
  Values,      \* values a codec decodes
  Default,     \* Default[l]
  Junk, Obj, Absent,
  NotObject,   \* a document whose root is not an object
  FileDocs,    \* FileDocs[L]: documents another program may put in the file of L
  Resettable   \* groups that QML resets as a whole

Layers == {Global} \cup Overlays
Keys   == Leaves \cup Groups \cup Strays
Raw    == Values \cup {Junk, Obj, Absent}

\* m_globalOnly of the node or globalOnly() of the descriptor.
IsGlobalOnly(k) == k \in GlobalOnly \/ Home[k] \in GlobalOnly

Owned(L, k) == L = Global \/ ~IsGlobalOnly(k)

\* Documents carry an object only where the node accepts it, and content only there.
DocsOf(L) ==
  {d \in [Keys -> Raw] :
     /\ \A l \in Leaves : d[l] # Obj
     /\ \A g \in Groups : d[g] \in {Junk, Obj, Absent} /\ (d[g] = Obj => Owned(L, g))
     /\ \A s \in Strays : d[s] \in {Junk, Absent}
     /\ \A g \in Groups : d[g] = Obj <=> \E k \in Keys : Home[k] = g /\ d[k] # Absent}

EmptyDoc == [k \in Keys |-> Absent]

ASSUME KeysAssumption ==
  /\ Global \notin Overlays
  /\ Home \in [Keys -> Groups \cup {Root}]
  /\ \A g \in Groups : Home[g] = Root
  /\ Root \notin Keys
  /\ Leaves \cap Groups = {} /\ Leaves \cap Strays = {} /\ Groups \cap Strays = {}
  /\ GlobalOnly \subseteq Leaves \cup Groups
  /\ Resettable \subseteq Groups

ASSUME ValuesAssumption ==
  /\ Default \in [Leaves -> Values]
  /\ Values \cap {Junk, Obj, Absent} = {}
  /\ Junk # Obj /\ Junk # Absent /\ Obj # Absent

ASSUME DocsAssumption ==
  /\ \A L \in Layers : FileDocs[L] \subseteq DocsOf(L) \cup {NotObject}
  /\ \A L \in Layers : NotObject \notin DocsOf(L)

VARIABLES
  live,        \* the layers that exist
  value,       \* value[L][l]: m_<l>
  overrides,   \* m_overrides, of all nodes of L
  quarantine,  \* quarantine[L][k]: the value of k in the quarantine of its node
  dirty,       \* a save of L is queued
  file         \* what the file of L holds

vars == <<live, value, overrides, quarantine, dirty, file>>

Fallback(L, l) == IF L = Global THEN Default[l] ELSE value[Global][l]

\* Mutants: no overlay is told, overridden options are told too.
MirrorsNothing(M, new) == value[M]
MirrorsOverrides(M, new) ==
  [l \in Leaves |-> IF new[l] # value[Global][l] /\ ~IsGlobalOnly(l)
                      THEN new[l] ELSE value[M][l]]

\* onFallbackNotify: overlays follow the options of Global that changed.
Mirrored(M, new) ==
  [l \in Leaves |-> IF /\ new[l] # value[Global][l]
                       /\ l \notin overrides[M]
                       /\ ~IsGlobalOnly(l)
                      THEN new[l] ELSE value[M][l]]

\* Layer L takes these values, and optionChanged is emitted for those that changed.
Put(L, new) ==
  value' = [M \in Layers |-> CASE M = L -> new
                               [] M # L /\ L = Global /\ M \in live -> Mirrored(M, new)
                               [] OTHER -> value[M]]

\* recordWrite: it dirties when the value, the override or the quarantine changed.
Dirties(L, l, v, override) ==
  \/ v # value[L][l]
  \/ (l \in overrides[L]) # override
  \/ quarantine[L][l] # Absent

\* Mutant: a write leaves the refused value in the quarantine.
QmlWriteKeepsQuarantine(L, l, v) ==
  /\ L \in live
  /\ Owned(L, l)
  /\ Put(L, [value[L] EXCEPT ![l] = v])
  /\ overrides' = [overrides EXCEPT ![L] = @ \cup {l}]
  /\ dirty' = [dirty EXCEPT ![L] = @ \/ Dirties(L, l, v, TRUE)]
  /\ UNCHANGED <<live, quarantine, file>>

(***************************************************************************)
(* A write and a reset of one option from QML; both lift its quarantine.   *)
(* Overlays are refused those that are global only.                        *)
(***************************************************************************)
QmlWrite(L, l, v) ==
  /\ L \in live
  /\ Owned(L, l)
  /\ Put(L, [value[L] EXCEPT ![l] = v])
  /\ overrides' = [overrides EXCEPT ![L] = @ \cup {l}]
  /\ quarantine' = [quarantine EXCEPT ![L][l] = Absent]
  /\ dirty' = [dirty EXCEPT ![L] = @ \/ Dirties(L, l, v, TRUE)]
  /\ UNCHANGED <<live, file>>

ResetOption(L, l) ==
  /\ L \in live
  /\ Owned(L, l)
  /\ Put(L, [value[L] EXCEPT ![l] = Fallback(L, l)])
  /\ overrides' = [overrides EXCEPT ![L] = @ \ {l}]
  /\ quarantine' = [quarantine EXCEPT ![L][l] = Absent]
  /\ dirty' = [dirty EXCEPT ![L] = @ \/ Dirties(L, l, Fallback(L, l), FALSE)]
  /\ UNCHANGED <<live, file>>

\* resetOption of a sub-object: Node::resetToDefaults empties its quarantine first.
ResetGroup(L, g) ==
  LET inside == {l \in Leaves : Home[l] = g /\ Owned(L, l)} IN
  /\ L \in live
  /\ Owned(L, g)
  /\ Put(L, [l \in Leaves |-> IF l \in inside THEN Fallback(L, l) ELSE value[L][l]])
  /\ overrides' = [overrides EXCEPT ![L] = @ \ inside]
  /\ quarantine' = [quarantine EXCEPT ![L] =
                      [k \in Keys |-> IF Home[k] = g THEN Absent ELSE @[k]]]
  /\ dirty' = [dirty EXCEPT ![L] =
                 @ \/ \E l \in inside : value[L][l] # Fallback(L, l) \/ l \in overrides[L]]
  /\ UNCHANGED <<live, file>>

(***************************************************************************)
(* toJson, sparse: the overrides, and what is quarantined where no         *)
(* override has taken its key.                                             *)
(***************************************************************************)
HasContent(L, g) ==
  \E k \in Keys : Home[k] = g /\ (k \in overrides[L] \/ quarantine[L][k] # Absent)

\* Mutant: toJson does not apply the quarantine.
ToJsonOfOverrides(L) ==
  [k \in Keys |-> CASE k \in overrides[L]                    -> value[L][k]
                    [] k \in Groups /\ (\E l \in overrides[L] : Home[l] = k) -> Obj
                    [] OTHER                                 -> Absent]

ToJson(L) ==
  [k \in Keys |-> CASE k \in overrides[L]                    -> value[L][k]
                    [] k \in Groups /\ HasContent(L, k)      -> Obj
                    [] OTHER                                 -> quarantine[L][k]]

(***************************************************************************)
(* syncJson: loadFromJson visits what the document holds and the layer may *)
(* set, quarantining the rest; resetUnvisited resets all other options.    *)
(***************************************************************************)
Seen(d, k) == d[k] # Absent /\ (Home[k] = Root \/ d[Home[k]] = Obj)

\* Mutants: no codec is asked, no overlay is refused.
VisitsAnything(L, d) == {l \in Leaves : Seen(d, l) /\ Owned(L, l)}
VisitsReserved(L, d) == {l \in Leaves : Seen(d, l) /\ d[l] \in Values}

Visited(L, d) == {l \in Leaves : Seen(d, l) /\ d[l] \in Values /\ Owned(L, l)}

Quarantined(L, d) ==
  {k \in Keys : Seen(d, k) /\ ~(k \in Visited(L, d) \/ (k \in Groups /\ d[k] = Obj))}

\* The tree of L after syncJson of d, over the values `old'.
Loaded(L, d, old) ==
  [l \in Leaves |-> CASE l \in Visited(L, d) -> d[l]
                      [] l \notin Visited(L, d) /\ Owned(L, l) -> Fallback(L, l)
                      [] OTHER -> old[l]]

SyncJson(L, d, old) ==
  /\ Put(L, Loaded(L, d, old))
  /\ overrides' = [overrides EXCEPT ![L] = Visited(L, d)]
  /\ quarantine' = [quarantine EXCEPT ![L] =
                      [k \in Keys |-> IF k \in Quarantined(L, d) THEN d[k] ELSE Absent]]

\* syncJson of a root that is no object empties the root's quarantine and gives up.
RefuseJson(L) ==
  /\ quarantine' = [quarantine EXCEPT ![L] =
                      [k \in Keys |-> IF Home[k] = Root THEN Absent ELSE @[k]]]
  /\ UNCHANGED <<value, overrides>>

\* Another program rewrites the file, and SettingsFile loads it.
FileChanges(L, d) ==
  /\ L \in live
  /\ d # file[L]
  /\ file' = [file EXCEPT ![L] = d]
  /\ IF d = NotObject THEN RefuseJson(L) ELSE SyncJson(L, d, value[L])
  /\ UNCHANGED <<live, dirty>>

\* Mutant: the overlay starts from the defaults.
CreateFromDefaults(L, d) ==
  /\ L \in Overlays \ live
  /\ live' = live \cup {L}
  /\ file' = [file EXCEPT ![L] = d]
  /\ IF d = NotObject
       THEN /\ Put(L, Default)
            /\ UNCHANGED <<overrides, quarantine>>
       ELSE SyncJson(L, d, Default)
  /\ UNCHANGED dirty

\* forScreen: the overlay starts from the values of Global and loads its file.
CreateOverlay(L, d) ==
  /\ L \in Overlays \ live
  /\ live' = live \cup {L}
  /\ file' = [file EXCEPT ![L] = d]
  /\ IF d = NotObject
       THEN /\ Put(L, value[Global])
            /\ UNCHANGED <<overrides, quarantine>>
       ELSE SyncJson(L, d, value[Global])
  /\ UNCHANGED dirty

\* The batcher flushes and SettingsFile writes toJson, see RootNode.
Save(L) ==
  /\ dirty[L]
  /\ dirty' = [dirty EXCEPT ![L] = FALSE]
  /\ file' = [file EXCEPT ![L] = ToJson(L)]
  /\ UNCHANGED <<live, value, overrides, quarantine>>

Init ==
  /\ live = {Global}
  /\ value = [L \in Layers |-> Default]
  /\ overrides = [L \in Layers |-> {}]
  /\ quarantine = [L \in Layers |-> EmptyDoc]
  /\ dirty = [L \in Layers |-> FALSE]
  /\ file = [L \in Layers |-> EmptyDoc]

Next ==
  \E L \in Layers :
    \/ \E l \in Leaves, v \in Values : QmlWrite(L, l, v)
    \/ \E l \in Leaves : ResetOption(L, l)
    \/ \E g \in Resettable : ResetGroup(L, g)
    \/ \E d \in FileDocs[L] : FileChanges(L, d)
    \/ \E d \in FileDocs[L] : CreateOverlay(L, d)
    \/ Save(L)

Spec == Init /\ [][Next]_vars
-----------------------------------------------------------------------------
(***************************************************************************)
(* Types of the variables; a quarantine is laid out as a document.         *)
(***************************************************************************)
TypeOK ==
  /\ live \subseteq Layers /\ Global \in live
  /\ value \in [Layers -> [Leaves -> Values]]
  /\ overrides \in [Layers -> SUBSET Leaves]
  /\ quarantine \in [Layers -> [Keys -> Raw]]
  /\ dirty \in [Layers -> BOOLEAN]
  /\ \A L \in Layers : file[L] \in DocsOf(L) \cup {NotObject}

(***************************************************************************)
(* README: options not present in a per-monitor config inherit from the    *)
(* global config.  An option that is not overridden has the value of the   *)
(* fallback layer, or its default, whatever was written, reset or loaded   *)
(* in either layer before.                                                 *)
(***************************************************************************)
InheritsFallback ==
  \A L \in live, l \in Leaves :
    Owned(L, l) /\ l \notin overrides[L] => value[L][l] = Fallback(L, l)

(***************************************************************************)
(* No sequence of loads, writes and resets lets an overlay override a      *)
(* global-only option, or an option of a global-only sub-object.           *)
(***************************************************************************)
GlobalStaysGlobal ==
  \A L \in Overlays : \A l \in overrides[L] : ~IsGlobalOnly(l)

(***************************************************************************)
(* A key is never both overridden and quarantined: the value shown and the *)
(* value saved cannot differ.                                              *)
(***************************************************************************)
QuarantineIsNoOverride ==
  \A L \in Layers : \A l \in overrides[L] : quarantine[L][l] = Absent

(***************************************************************************)
(* When no save is queued, starting the shell again would show the same    *)
(* options: the file reads as the values and overrides in memory.          *)
(***************************************************************************)
RestartShowsTheSame ==
  \A L \in live :
    ~dirty[L] /\ file[L] # NotObject =>
      /\ overrides[L] = Visited(L, file[L])
      /\ \A l \in Leaves : Owned(L, l) => value[L][l] = Loaded(L, file[L], value[L])[l]

(***************************************************************************)
(* When no save is queued, saving would not change the file: keys the      *)
(* schema does not know and values it refuses survive in the file as long  *)
(* as the user does not touch them.                                        *)
(***************************************************************************)
FileIsKept ==
  \A L \in live : ~dirty[L] /\ file[L] # NotObject => ToJson(L) = file[L]

(***************************************************************************)
(* node.cpp: "User writes/reset override quarantine".  A sub-object that   *)
(* holds an override has no refused value left in its parent's quarantine. *)
(***************************************************************************)
WritesLiftQuarantine ==
  \A L \in live : \A l \in overrides[L] :
    Home[l] # Root => quarantine[L][Home[l]] = Absent

\* What the layers set: their overrides.
SetByLayers ==
  [L \in Layers |-> [l \in Leaves |-> IF l \in overrides[L] THEN value[L][l] ELSE Absent]]

\* What their readers see: a layer that does not exist yet shows what Global does.
ShownByLayers ==
  [L \in Layers |-> [l \in {l \in Leaves : Owned(L, l)} |->
     IF L \in live THEN value[L][l] ELSE value[Global][l]]]

(***************************************************************************)
(* The trees implement the promise made to whoever reads an option.        *)
(***************************************************************************)
Promise == INSTANCE LayeredOptions WITH
  Options <- Leaves,
  Reserved <- {l \in Leaves : IsGlobalOnly(l)},
  Unset <- Absent,
  set <- SetByLayers,
  effective <- ShownByLayers

LayersKeepThePromise == Promise!Spec
=============================================================================
