---------------------------- MODULE CommandRunner ----------------------------
(***************************************************************************)
(* How SystemdAdapter.qml and DockerAdapter.qml answer a call: they run    *)
(* the candidate commands of the call one after the other until one        *)
(* succeeds (systemd has one candidate, docker several), each in a process *)
(* object with a flag that says that it is finished.  A watchdog ends      *)
(* commands that do not start, another those that do not return; a killed  *)
(* process still exits, and a closure of Qt.callLater may run late.        *)
(* Timers carry no durations: a watchdog may fire as long as it runs.      *)
(* The probe of docker runs one more command for its metrics before its    *)
(* callback (attachMetrics): here one of the candidates of its call.       *)
(***************************************************************************)
EXTENDS Naturals, FiniteSets

CONSTANTS Calls,       \* calls of an adapter, each made at most once
          Candidates   \* call -> number of its commands, 0 if it has no unit

VARIABLES asked,     \* calls made
          answers,   \* call -> how often its callback ran
          created,   \* process objects <<call, candidate>> there ever were
          active,    \* activeProcesses
          finished,  \* those with the flag set
          process    \* object -> what the system does for it
vars == <<asked, answers, created, active, finished, process>>

Objects == UNION {{<<c, i>> : i \in 1 .. Candidates[c]} : c \in Calls}
----------------------------------------------------------------------------
Init ==
    /\ asked = {} /\ answers = [c \in Calls |-> 0]
    /\ created = {} /\ active = {} /\ finished = {}
    /\ process = [p \in Objects |-> "none"]

(* The callbacks of run*Fallback for objects ps that finish, of which those *)
(* in good succeeded: a call ends with a success or with its last command.  *)
Following(ps, good) == {<<p[1], p[2] + 1>> : p \in {q \in ps \ good : q[2] < Candidates[q[1]]}}
Ending(ps, good) == {p[1] : p \in {q \in ps : q \in good \/ q[2] = Candidates[q[1]]}}

(* runCommand for new objects, in the turn that leaves the system with sys. *)
RunCommand(new, sys) ==
    /\ created' = created \cup new
    /\ process' = [p \in Objects |-> IF p \in new THEN "queued" ELSE sys[p]]

(* finish and the callbacks it runs, for objects ps whose flag is not set *)
FinishAll(ps, good, sys) ==
    /\ finished' = finished \cup ps
    /\ answers' = [c \in Calls |-> answers[c] + IF c \in Ending(ps, good) THEN 1 ELSE 0]
    /\ active' = (active \ ps) \cup Following(ps, good)
    /\ RunCommand(Following(ps, good), sys)

(* Mutant: finish without the flag. *)
FinishAgain(ps, good, sys) == FinishAll(ps, good, sys)

(* CommandProcess.finish, for objects of different calls *)
Finish(ps, good, sys) == FinishAll(ps \ finished, good, sys)

Ask(c) ==
    /\ c \notin asked /\ asked' = asked \cup {c}
    /\ IF Candidates[c] = 0
       THEN /\ answers' = [answers EXCEPT ![c] = @ + 1]
            /\ UNCHANGED <<created, active, finished, process>>
       ELSE /\ active' = active \cup {<<c, 1>>} /\ RunCommand({<<c, 1>>}, process)
            /\ UNCHANGED <<answers, finished>>

(* The closure of Qt.callLater.  An object that is finished by then is      *)
(* destroyed or about to be, and a process it starts is killed with it.     *)
Launch(p) ==
    /\ process[p] = "queued"
    /\ process' = [process EXCEPT ![p] = IF p \in finished THEN "exited" ELSE "launched"]
    /\ UNCHANGED <<asked, answers, created, active, finished>>

(* onStarted; a command that cannot be run never gets here. *)
Started(p) ==
    /\ process[p] = "launched"
    /\ process' = [process EXCEPT ![p] = "started"]
    /\ UNCHANGED <<asked, answers, created, active, finished>>

Exited(p) ==
    /\ process[p] = "started"
    /\ \E good \in SUBSET {p} : Finish({p}, good, [process EXCEPT ![p] = "exited"])
    /\ UNCHANGED asked

(* runWatchdog: the process is told to end, its exit is yet to come. *)
RunWatchdog(p) ==
    /\ process[p] = "started" /\ p \notin finished
    /\ Finish({p}, {}, process)
    /\ UNCHANGED asked

(* reapUnstartedCommands, ps being the overdue ones *)
Unstarted == {p \in active : process[p] \in {"queued", "launched"}}
Reap(ps) ==
    /\ ps # {} /\ ps \subseteq Unstarted
    /\ Finish(ps, {}, process)
    /\ UNCHANGED asked
----------------------------------------------------------------------------
Next ==
    \/ \E c \in Calls : Ask(c)
    \/ \E p \in created : Launch(p) \/ Started(p) \/ Exited(p) \/ RunWatchdog(p)
    \/ \E ps \in SUBSET Unstarted : Reap(ps)

Spec == Init /\ [][Next]_vars

(* Both watchdogs fire, and closures of Qt.callLater run.  Nothing is       *)
(* assumed of the commands.                                                 *)
ReapOne(c) == \E ps \in SUBSET Unstarted : (\E p \in ps : p[1] = c) /\ Reap(ps)
StopOne(c) == \E p \in created : p[1] = c /\ RunWatchdog(p)
Fairness == \A c \in Calls : WF_vars(ReapOne(c)) /\ WF_vars(StopOne(c))

FairSpec == Spec /\ Fairness
----------------------------------------------------------------------------
(* The candidates of a call run one after the other: until it is answered   *)
(* there is one command to wait for, afterwards none (a killed one may      *)
(* still be exiting).                                                       *)
OneToWaitFor ==
    \A c \in Calls : Cardinality({p \in active : p[1] = c}) =
                     IF c \in asked /\ answers[c] = 0 THEN 1 ELSE 0

(* A call is answered once, however its commands start, hang, exit late or *)
(* are killed, and it is answered in the end.                               *)
AnswersOnce == INSTANCE AdapterCall
CallsAreAnsweredOnce == AnswersOnce!Spec
=============================================================================
