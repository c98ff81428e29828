--------------------------- MODULE LayeredOptions ---------------------------
(***************************************************************************)
(* What the configuration promises its reader (README, "Per-monitor        *)
(* configuration"): an option has the value its own layer sets, else the   *)
(* one of the global layer, else its default; a layer changes only what it *)
(* sets itself, and options reserved to the global layer are set there.    *)
(***************************************************************************)
CONSTANTS Layers, Global, Options, Reserved, Default, Values, Unset

VARIABLES
  set,       \* set[L][o]: what layer L sets option o to, or Unset
  effective  \* effective[L][o]: what a reader of o in layer L sees

vars == <<set, effective>>

\* The options that can be told apart in layer L.
Visible(L) == IF L = Global THEN Options ELSE Options \ Reserved

Effective(L, o) ==
  IF set[L][o] # Unset THEN set[L][o]
  ELSE IF set[Global][o] # Unset THEN set[Global][o]
  ELSE Default[o]

\* Layer L sets, changes or unsets any of the options it may set.
Assign(L) ==
  /\ \E new \in [Visible(L) -> Values \cup {Unset}] :
       set' = [set EXCEPT ![L] = [o \in Options |-> IF o \in Visible(L) THEN new[o]
                                                                        ELSE Unset]]
  /\ effective' = [M \in Layers |-> [o \in Visible(M) |-> Effective(M, o)']]

Init ==
  /\ set = [L \in Layers |-> [o \in Options |-> Unset]]
  /\ effective = [L \in Layers |-> [o \in Visible(L) |-> Default[o]]]

Next == \E L \in Layers : Assign(L)

Spec == Init /\ [][Next]_vars
=============================================================================
