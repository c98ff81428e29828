----------------------------- MODULE AdapterCall -----------------------------
(***************************************************************************)
(* What the services panel relies on when it calls an adapter: the         *)
(* callback runs once, and it does run.                                    *)
(***************************************************************************)
EXTENDS Naturals

CONSTANT Calls
VARIABLES asked, answers
vars == <<asked, answers>>

Init == asked = {} /\ answers = [c \in Calls |-> 0]

Ask(c) == c \notin asked /\ asked' = asked \cup {c} /\ UNCHANGED answers

(* A call with nothing to run is answered before it returns. *)
AskAndAnswer(c) ==
    /\ c \notin asked /\ asked' = asked \cup {c}
    /\ answers' = [answers EXCEPT ![c] = 1]

(* Several calls may be answered in one turn of the event loop. *)
Answer(done) ==
    /\ done # {} /\ \A c \in done : c \in asked /\ answers[c] = 0
    /\ answers' = [c \in Calls |-> IF c \in done THEN 1 ELSE answers[c]]
    /\ UNCHANGED asked

Next ==
    \/ \E c \in Calls : Ask(c) \/ AskAndAnswer(c)
    \/ \E done \in SUBSET Calls : Answer(done)

Spec == Init /\ [][Next]_vars
             /\ \A c \in Calls : WF_vars(\E done \in SUBSET Calls : c \in done /\ Answer(done))
=============================================================================
