---------------------------- MODULE AttachedScreens ----------------------------
(***************************************************************************)
(* caelestia::config::Config and Tokens: the attached objects through      *)
(* which an item reads the options of its screen.  An attached object      *)
(* takes the screen of the nearest one above it; it is made when it is     *)
(* first read, at any time, and its item may be moved.  Both classes do    *)
(* the same, with a layer of their own for every screen.                   *)
(***************************************************************************)
EXTENDS Integers, FiniteSets

CONSTANTS Objects, Screens,
          None,
          MaxChanges \* bound: objects made and moved, and screens set

VARIABLES parent,   \* of the attached objects there are: the one above or None
          screen,   \* m_screen, "" without one
          layer,    \* m_config and m_tokens: the screen of the layer they are of
          created,  \* screen |-> how often LayerRegistry made and loaded its layer
          changes,
          own,      \* history: objects whose screen was written after they last took that of their parent
          seen      \* history: what QML last read through the object
vars == <<parent, screen, layer, created, changes, own, seen>>

There == DOMAIN parent

Init ==
    /\ parent = <<>> /\ screen = <<>> /\ layer = <<>>
    /\ created = [s \in Screens |-> 0]
    /\ changes = 0 /\ own = {} /\ seen = <<>>

----------------------------------------------------------------------------
Children(tree, o) == {c \in DOMAIN tree : tree[c] = o}

(* Going down from the roots as long as an object lets it through: the     *)
(* least set with the roots and the children of its members, of those.     *)
Down(tree, roots, through) ==
    {o \in through : \A T \in SUBSET through :
        roots \cap through \subseteq T /\ (\A c \in through : tree[c] \in T => c \in T) => o \in T}

Below(tree, o) == Down(tree, Children(tree, o), DOMAIN tree)

(* inheritScreen of one object after another: those that take the screen,  *)
(* going down from the roots as long as it is not theirs already.          *)
Takers(tree, screens, roots, s) == Down(tree, roots, {c \in DOMAIN tree : screens[c] # s})

(* Layers made on demand: LayerRegistry::get, and initLayer when it is new. *)
ForScreen(s) ==
    created' = IF s # "" /\ created[s] = 0 THEN [created EXCEPT ![s] = 1] ELSE created

(* The objects take a screen in the tree as it is now, each from the one   *)
(* above it; the children of one that takes it are theirs no more.         *)
TakeScreen(tree, old, takers, s) ==
    /\ parent' = tree
    /\ screen' = [o \in DOMAIN tree |-> IF o \in takers THEN s ELSE old[o]]
    /\ layer' = [o \in DOMAIN tree |-> IF o \in takers THEN s ELSE IF o \in DOMAIN layer THEN layer[o] ELSE ""]
    /\ seen' = [o \in DOMAIN tree |-> IF o \in takers THEN s ELSE IF o \in DOMAIN seen THEN seen[o] ELSE ""]
    /\ IF takers # {} THEN ForScreen(s) ELSE UNCHANGED created

Followers(tree, takers) == UNION {Children(tree, o) : o \in takers}

(* QML writes the property: inheritScreen as well. *)
SetScreen(o, s) ==
    /\ \E takers \in {Takers(parent, screen, {o}, s)} :
         /\ TakeScreen(parent, screen, takers, s)
         /\ own' = IF takers = {} THEN own ELSE (own \ Followers(parent, takers)) \cup {o}

(* Mutant: an object that has a screen keeps it when it gets a parent. *)
AdoptedIfUnset(tree, old, moved, p) ==
    IF p = None THEN {} ELSE Takers(tree, old, {m \in moved : old[m] = ""}, old[p])

(* attachedParentChange of the objects that got the parent p. *)
Adopted(tree, old, moved, p) == IF p = None THEN {} ELSE Takers(tree, old, moved, old[p])

Adopt(tree, old, moved, p) ==
    \E takers \in {Adopted(tree, old, moved, p)} :
       /\ TakeScreen(tree, old, takers, IF p = None THEN "" ELSE old[p])
       /\ own' = IF p = None THEN own ELSE own \ (moved \cup Followers(tree, takers))

(* The item moves below another one, or nowhere. *)
Move(o, p) ==
    /\ p # parent[o]
    /\ p = None \/ p \notin {o} \cup Below(parent, o)
    /\ Adopt([parent EXCEPT ![o] = p], screen, {o}, p)

(* initialize: a new object takes the screen of the one above, then those  *)
(* below it, which had its parent so far, take it over as theirs.          *)
Attach(o, p, below) ==
    LET tree == [c \in There \cup {o} |-> IF c = o THEN p ELSE IF c \in below THEN o ELSE parent[c]]
        old  == [c \in There \cup {o} |-> IF c # o THEN screen[c] ELSE IF p = None THEN "" ELSE screen[p]]
    IN  /\ \E takers \in {Adopted(tree, old, below, o)} :
             /\ parent' = tree
             /\ screen' = [c \in DOMAIN tree |-> IF c \in takers THEN old[o] ELSE old[c]]
             /\ layer' = [c \in DOMAIN tree |-> IF c \in takers \cup {o} THEN old[o] ELSE layer[c]]
             /\ seen' = [c \in DOMAIN tree |-> IF c \in takers \cup {o} THEN old[o] ELSE seen[c]]
             /\ own' = own \ (below \cup Followers(tree, takers))
        /\ IF old[o] # "" THEN ForScreen(old[o]) ELSE UNCHANGED created

Change == changes < MaxChanges /\ changes' = changes + 1

Next ==
    \/ \E o \in There, s \in Screens \cup {""} : Change /\ SetScreen(o, s)
    \/ \E o \in There, p \in There \cup {None} : Change /\ Move(o, p)
    \/ \E o \in Objects \ There, p \in There \cup {None} :
         \E below \in SUBSET (IF p = None THEN {c \in There : parent[c] = None} ELSE Children(parent, p)) :
            Change /\ Attach(o, p, below)

Spec == Init /\ [][Next]_vars

----------------------------------------------------------------------------
(* In whatever order the objects are made, moved and given screens: each   *)
(* has the screen of the one above it, unless its own was written since;   *)
(* it reads the layer of that screen, of which there is one; and QML was   *)
(* told.  The written screen does not last: it is replaced when one above  *)
(* gets another screen or the item moves.                                  *)
ScreensFollow ==
    /\ \A o \in There : parent[o] # None /\ o \notin own => screen[o] = screen[parent[o]]
    /\ layer = screen /\ seen = screen
    /\ \A o \in There : screen[o] # "" => created[screen[o]] = 1
=============================================================================
