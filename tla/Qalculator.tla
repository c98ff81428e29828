------------------------------ MODULE Qalculator -------------------------------
(***************************************************************************)
(* caelestia::Qalculator: the calculator of the launcher.  evalAsync       *)
(* evaluates every expression that is typed on a thread of the pool; the   *)
(* one mutex of libqalculate lets them run one by one in any order, and    *)
(* their results come back to the event loop.  An expression is a value,   *)
(* "" the empty one, and its result is itself.                             *)
(***************************************************************************)
EXTENDS Integers

CONSTANTS Expressions,
          MaxEvaluations \* bound: calls of evalAsync

VARIABLES generation, result, busy,
          jobs,    \* evaluations: [gen, expr, at: "queued", "evaluating" or "done"]
          asked,   \* history: the last expression
          seen     \* history: result and busy as QML last read them
vars == <<generation, result, busy, jobs, asked, seen>>

Init ==
    /\ generation = 0 /\ result = "" /\ busy = FALSE /\ jobs = {}
    /\ asked = "" /\ seen = <<"", FALSE>>

SetBusy(b) == busy' = b
Told == seen' = <<result', busy'>> \* resultChanged and busyChanged, if they did

EvalAsync(expr) ==
    /\ generation < MaxEvaluations /\ generation' = generation + 1
    /\ asked' = expr
    /\ IF expr = ""
       THEN result' = "" /\ SetBusy(FALSE) /\ UNCHANGED jobs
       ELSE /\ SetBusy(TRUE) /\ UNCHANGED result
            /\ jobs' = jobs \cup {[gen |-> generation + 1, expr |-> expr, at |-> "queued"]}
    /\ Told

(* evaluate: one thread at a time, whichever gets the mutex. *)
Evaluate(job) ==
    /\ job.at = "queued" /\ \A j \in jobs : j.at # "evaluating"
    /\ jobs' = (jobs \ {job}) \cup {[job EXCEPT !.at = "evaluating"]}
    /\ UNCHANGED <<generation, result, busy, asked, seen>>

Finish(job) ==
    /\ job.at = "evaluating"
    /\ jobs' = (jobs \ {job}) \cup {[job EXCEPT !.at = "done"]}
    /\ UNCHANGED <<generation, result, busy, asked, seen>>

(* Mutant: the result of an older expression is shown as well. *)
ApplyAnyResult(job) ==
    /\ job.at = "done" /\ jobs' = jobs \ {job}
    /\ result' = job.expr /\ SetBusy(FALSE) /\ Told
    /\ UNCHANGED <<generation, asked>>

ApplyResult(job) ==
    /\ job.at = "done" /\ jobs' = jobs \ {job}
    /\ IF job.gen # generation THEN UNCHANGED <<result, busy, seen>>
       ELSE result' = job.expr /\ SetBusy(FALSE) /\ Told
    /\ UNCHANGED <<generation, asked>>

Next ==
    \/ \E expr \in Expressions \cup {""} : EvalAsync(expr)
    \/ \E job \in jobs : Evaluate(job) \/ Finish(job) \/ ApplyResult(job)

Spec == Init /\ [][Next]_vars

----------------------------------------------------------------------------
(* However the evaluations overtake each other, the calculator is busy     *)
(* exactly while the last expression is being evaluated, and otherwise it  *)
(* shows the result of that expression.                                    *)
ResultIsOfTheLast ==
    /\ busy <=> \E job \in jobs : job.gen = generation
    /\ ~busy => result = asked
    /\ seen = <<result, busy>>
=============================================================================
