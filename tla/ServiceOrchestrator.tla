------------------------- MODULE ServiceOrchestrator -------------------------
(***************************************************************************)
(* The cards of the services panel                                         *)
(* (src/modules/servicespanel/core/ServiceOrchestrator.qml): every card    *)
(* has a state its adapter is asked for (a probe), and commands its        *)
(* adapter is asked to run.  A finished command is verified by a probe; a  *)
(* stop that left the service running is probed again by a timer that all  *)
(* cards share.  The card shows a spinner, and refuses commands, while     *)
(* `busy`.                                                                 *)
(*                                                                         *)
(* Adapter calls answer once, later, with any result: the adapters' start  *)
(* and run watchdogs guarantee that they do answer.  A call is live while  *)
(* the token it captured is still the card's; the answer of any other call *)
(* is dropped.  The tokens are only compared for equality, so a card has   *)
(* at most one live probe and one live command, and the model keeps those  *)
(* apart from the superseded calls that have not answered yet.             *)
(***************************************************************************)
EXTENDS Naturals, Sequences

CONSTANTS Entries,     \* the cards, one per valid mapping
          NoEntry,     \* the timer's targetEntry when it is null
          Can,         \* Can[e]: the commands the card's capabilities allow
          Answers,     \* the states the adapters may answer
          MaxLater     \* bound: the user waits while this many closures are queued

Commands == {"start", "stop", "restart", "autostart"}

\* "failed" is shown differently from "unknown" and handled like it.
States == {"running", "stopped", "unknown"}

ASSUME EntriesAssumption == NoEntry \notin Entries
ASSUME CanAssumption == Can \in [Entries -> SUBSET Commands]
ASSUME AnswersAssumption == Answers \subseteq States
ASSUME MaxLaterAssumption == MaxLater \in Nat \ {0}

VARIABLES
  state,       \* state[e]: what the last live probe reported
  busy,        \* busy[e]: the spinner is on and commands are refused
  action,      \* action[e]: the live adapter command, "none" without one
  dropped,     \* dropped[e]: a superseded command has not answered yet
  probe,       \* probe[e]: why the live probe was made, "none" unless probeInFlight
  stale,       \* stale[e]: the `after` of superseded probes, not answered yet
  later,       \* closures handed to Qt.callLater, in order
  visible,     \* panelVisible
  timerOn,     \* verificationTimer.running
  target,      \* verificationTimer.targetEntry
  retries,     \* verificationTimer.retries
  after,       \* history: no command of e ended since its last probe began
  current      \* history: none ended since the probe that reported state[e] began

cardVars  == <<state, busy, current>>
callVars  == <<action, dropped>>
probeVars == <<probe, stale, after>>
timerVars == <<timerOn, target, retries>>
vars == <<cardVars, callVars, probeVars, later, visible, timerVars>>

\* A probe is made for its own sake, to verify a command, or by the timer.
Probes == Commands \cup {"refresh", "timer"}

\* A closure verifies a command of a card, refreshes all cards, or was to
\* verify a command of a card that is gone.
Verifications  == Entries \X Commands
RefreshClosure == <<NoEntry, "refresh">>
VoidClosure    == <<NoEntry, "void">>
Closures       == Verifications \cup {RefreshClosure, VoidClosure}

TimerRetries == 3

TypeOK ==
  /\ state \in [Entries -> States]
  /\ busy \in [Entries -> BOOLEAN]
  /\ current \in [Entries -> BOOLEAN]
  /\ action \in [Entries -> Commands \cup {"none"}]
  /\ dropped \in [Entries -> BOOLEAN]
  /\ after \in [Entries -> BOOLEAN]
  /\ probe \in [Entries -> Probes \cup {"none"}]
  /\ stale \in [Entries -> SUBSET BOOLEAN]
  /\ later \in Seq(Closures)
  /\ visible \in BOOLEAN
  /\ timerOn \in BOOLEAN
  /\ target \in Entries \cup {NoEntry}
  /\ retries \in 0..TimerRetries

Init ==
  /\ state   = [e \in Entries |-> "unknown"]
  /\ busy    = [e \in Entries |-> FALSE]
  /\ current = [e \in Entries |-> TRUE]
  /\ action  = [e \in Entries |-> "none"]
  /\ dropped = [e \in Entries |-> FALSE]
  /\ after   = [e \in Entries |-> TRUE]
  /\ probe   = [e \in Entries |-> "none"]
  /\ stale   = [e \in Entries |-> {}]
  /\ later   = <<>>
  /\ visible = FALSE
  /\ timerOn = FALSE
  /\ target  = NoEntry
  /\ retries = 0

-----------------------------------------------------------------------------
(* Commands *)

\* The adapter is called; an older command of the card loses its token.
CallAdapter(e, c) ==
  /\ c \in Can[e]
  /\ Len(later) < MaxLater
  /\ busy' = [busy EXCEPT ![e] = TRUE]
  /\ action' = [action EXCEPT ![e] = c]
  /\ dropped' = [dropped EXCEPT ![e] = @ \/ action[e] # "none"]
  /\ UNCHANGED <<state, current, probeVars, later, visible, timerVars>>

\* Mutant: busy is not looked at.
RunActionAnyway(e, c) == CallAdapter(e, c)

RunAction(e, c) == ~busy[e] /\ CallAdapter(e, c)

Start(e)        == state[e] # "running" /\ probe[e] = "none" /\ RunAction(e, "start")
Stop(e)         == state[e] # "stopped" /\ probe[e] = "none" /\ RunAction(e, "stop")
Restart(e)      == probe[e] = "none" /\ RunAction(e, "restart")
SetAutostart(e) == RunAction(e, "autostart")

\* A command of e has ended: whatever was asked before is out of date.
Ended(e) ==
  /\ after' = [after EXCEPT ![e] = FALSE]
  /\ stale' = [stale EXCEPT ![e] = {FALSE : a \in @}]
  /\ current' = [current EXCEPT ![e] = FALSE]

\* Mutant: a failure leaves the spinner on.
ActionDoneKeepsBusy(e) ==
  /\ action[e] # "none"
  /\ action' = [action EXCEPT ![e] = "none"]
  /\ Ended(e)
  /\ later' \in {later, Append(later, <<e, action[e]>>)}
  /\ UNCHANGED <<state, busy, dropped, probe, visible, timerVars>>

\* The live command answers: a failure ends the matter, after a success the
\* verification is left to the next turn of the event loop.
ActionDone(e) ==
  /\ action[e] # "none"
  /\ action' = [action EXCEPT ![e] = "none"]
  /\ Ended(e)
  /\ \/ /\ busy' = [busy EXCEPT ![e] = FALSE]
        /\ UNCHANGED later
     \/ /\ later' = Append(later, <<e, action[e]>>)
        /\ UNCHANGED busy
  /\ UNCHANGED <<state, dropped, probe, visible, timerVars>>

\* A command that lost its token answers in vain.  It may not be the only one.
DroppedActionDone(e) ==
  /\ dropped[e]
  /\ \E more \in BOOLEAN : dropped' = [dropped EXCEPT ![e] = more]
  /\ Ended(e)
  /\ UNCHANGED <<state, busy, action, probe, later, visible, timerVars>>

-----------------------------------------------------------------------------
(* Probes *)

\* probeEntry with allowBusy: a probe in flight loses its token.
Ask(e, kind) ==
  /\ probe' = [probe EXCEPT ![e] = kind]
  /\ after' = [after EXCEPT ![e] = TRUE]
  /\ stale' = [stale EXCEPT ![e] = IF probe[e] = "none" THEN @ ELSE @ \cup {after[e]}]

\* probeEntry without it, for a set of cards: one in flight is left alone.
Look(cards) ==
  /\ LET asked == {e \in cards : probe[e] = "none"}
     IN  /\ probe' = [e \in Entries |-> IF e \in asked THEN "refresh" ELSE probe[e]]
         /\ after' = [e \in Entries |-> e \in asked \/ after[e]]
  /\ UNCHANGED stale

\* The refresh button, the periodic refresh and the panel being opened.
Refresh ==
  /\ visible
  /\ Look(Entries)
  /\ UNCHANGED <<cardVars, callVars, later, visible, timerVars>>

ProbeOne(e) ==
  /\ Look({e})
  /\ UNCHANGED <<cardVars, callVars, later, visible, timerVars>>

SetPanelVisible ==
  /\ visible' = ~visible
  /\ IF visible' THEN Look(Entries) ELSE UNCHANGED probeVars
  /\ UNCHANGED <<cardVars, callVars, later, timerVars>>

\* The event loop runs the next closure.
RunLater ==
  /\ later # <<>>
  /\ later' = Tail(later)
  /\ LET c == Head(later)
     IN  \/ c \in Verifications /\ Ask(c[1], c[2])
         \/ c = RefreshClosure /\ Look(Entries)
         \/ c = VoidClosure /\ UNCHANGED probeVars
  /\ UNCHANGED <<cardVars, callVars, visible, timerVars>>

\* The live probe answers that the service is in state s.
Answer(e, s) ==
  /\ probe' = [probe EXCEPT ![e] = "none"]
  /\ state' = [state EXCEPT ![e] = s]
  /\ current' = [current EXCEPT ![e] = after[e]]
  /\ UNCHANGED <<stale, after>>

RefreshAnswered(e) ==
  /\ probe[e] = "refresh"
  /\ \E s \in Answers : Answer(e, s)
  /\ UNCHANGED <<busy, callVars, later, visible, timerVars>>

\* A verification always ends the spinner; the answers to `watched` are handed
\* to the timer with n retries, whatever the timer was doing.
VerifyBy(e, watched, n) ==
  /\ probe[e] \in Commands
  /\ \E s \in Answers :
       /\ Answer(e, s)
       /\ IF <<probe[e], s>> \in watched
          THEN timerOn' = TRUE /\ target' = e /\ retries' = n
          ELSE UNCHANGED timerVars
  /\ busy' = [busy EXCEPT ![e] = FALSE]
  /\ UNCHANGED <<callVars, later, visible>>

StillRunning == <<"stop", "running">>

\* Mutant: the timer gets one retry too many.
VerifyRetriesMore(e) == VerifyBy(e, {StillRunning}, TimerRetries + 1)

\* Only a stop that is not yet effective is tried again.
VerifyAnswered(e) == VerifyBy(e, {StillRunning}, TimerRetries)

\* Mutant: the token is not compared.
StaleAnsweredIsShown(e) ==
  /\ \E a \in stale[e], s \in Answers :
       /\ stale' = [stale EXCEPT ![e] = @ \ {a}]
       /\ state' = [state EXCEPT ![e] = s]
       /\ current' = [current EXCEPT ![e] = a]
  /\ UNCHANGED <<busy, callVars, probe, after, later, visible, timerVars>>

\* A probe that lost its token answers in vain.
StaleAnswered(e) ==
  /\ \E a \in stale[e] : stale' = [stale EXCEPT ![e] = @ \ {a}]
  /\ UNCHANGED <<cardVars, callVars, probe, after, later, visible, timerVars>>

-----------------------------------------------------------------------------
(* The verification timer *)

\* The end of the spinner of the timer's target, if it still has one.
Release(b) == [e \in Entries |-> b[e] /\ e # target]

\* The timer gives up, or spends a retry on a probe of its target.
TimerFires ==
  /\ timerOn
  /\ IF target = NoEntry \/ retries = 0
     THEN /\ timerOn' = FALSE
          /\ busy' = Release(busy)
          /\ UNCHANGED <<probeVars, retries>>
     ELSE /\ timerOn' = FALSE
          /\ retries' = retries - 1
          /\ Ask(target, "timer")
          /\ UNCHANGED busy
  /\ UNCHANGED <<state, current, callVars, later, visible, target>>

\* Mutant: a stop confirmed at last leaves the spinner on.
TimerAnsweredKeepsBusy(e) ==
  /\ probe[e] = "timer"
  /\ \E s \in Answers :
       /\ Answer(e, s)
       /\ timerOn' = (s # "stopped" /\ retries > 0)
  /\ UNCHANGED <<busy, callVars, later, visible, target, retries>>

\* The callback reads the timer's properties as they are by then: the card it
\* releases, and the retries it goes by, are those of the current target.
TimerAnswered(e) ==
  /\ probe[e] = "timer"
  /\ \E s \in Answers :
       /\ Answer(e, s)
       /\ IF s # "stopped" /\ retries > 0
          THEN timerOn' = TRUE /\ UNCHANGED busy
          ELSE busy' = Release(busy) /\ UNCHANGED timerOn
  /\ UNCHANGED <<callVars, later, visible, target, retries>>

-----------------------------------------------------------------------------
(* The mappings are read again: every card is destroyed and made anew.  The *)
(* calls and closures of the old cards find nothing to act on; the timer's  *)
(* reference to a destroyed card turns null.                                *)
Reload ==
  /\ Len(later) <= MaxLater
  /\ state'   = [e \in Entries |-> "unknown"]
  /\ busy'    = [e \in Entries |-> FALSE]
  /\ current' = [e \in Entries |-> TRUE]
  /\ action'  = [e \in Entries |-> "none"]
  /\ dropped' = [e \in Entries |-> FALSE]
  /\ after'   = [e \in Entries |-> TRUE]
  /\ probe'   = [e \in Entries |-> "none"]
  /\ stale'   = [e \in Entries |-> {}]
  /\ later'   = LET left == [i \in 1..Len(later) |->
                               IF later[i] = RefreshClosure THEN later[i] ELSE VoidClosure]
                IN  IF visible THEN Append(left, RefreshClosure) ELSE left
  /\ target'  = NoEntry
  /\ UNCHANGED <<visible, timerOn, retries>>

-----------------------------------------------------------------------------
Request(e) == Start(e) \/ Stop(e) \/ Restart(e) \/ SetAutostart(e) \/ ProbeOne(e)
Answered(e) == RefreshAnswered(e) \/ VerifyAnswered(e) \/ TimerAnswered(e)

Next ==
  \/ \E e \in Entries : \/ Request(e)
                        \/ ActionDone(e)
                        \/ DroppedActionDone(e)
                        \/ Answered(e)
                        \/ StaleAnswered(e)
  \/ Refresh
  \/ SetPanelVisible
  \/ RunLater
  \/ TimerFires
  \/ Reload

Spec == Init /\ [][Next]_vars

\* Adapter calls answer (the watchdogs see to it), closures run and timers
\* fire.  Nothing is assumed of the user.
Fairness ==
  /\ \A e \in Entries : WF_vars(ActionDone(e)) /\ WF_vars(Answered(e))
  /\ WF_vars(RunLater)
  /\ WF_vars(TimerFires)

FairSpec == Spec /\ Fairness

-----------------------------------------------------------------------------
(* Something still under way will end the spinner of e. *)
EndsSpinner(e) ==
  \/ action[e] # "none"
  \/ \E i \in 1..Len(later) : later[i][1] = e
  \/ probe[e] \in Commands
  \/ e = target /\ (timerOn \/ probe[e] = "timer")

\* A card shows its spinner only while a command of it is running, waiting to
\* be verified, being verified or watched by the timer: probes of the timer and
\* verifications supersede each other, and none of them may be the last one.
BusyIsAccounted == \A e \in Entries : busy[e] => EndsSpinner(e)

\* Every spinner ends, as restartServiceById's comment has it: "a hung pkexec
\* prompt still resolves instead of leaving the card spinning".
SpinnersStop == \A e \in Entries : busy[e] ~> ~busy[e]

\* A card never has two adapter commands running at once (busy is what keeps a
\* second one from being started before the first has answered).
OneCommand == \A e \in Entries : ~dropped[e]

\* A state asked for after the card's last command ended is never replaced by
\* one asked for before: that is what the probe tokens are for.
CurrentStateStays ==
  [][\A e \in Entries : current[e] /\ state'[e] # state[e] => current'[e]]_vars
=============================================================================
