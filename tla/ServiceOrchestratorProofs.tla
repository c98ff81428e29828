---------------------- MODULE ServiceOrchestratorProofs ----------------------
(***************************************************************************)
(* Theorems of ServiceOrchestrator, for any number of cards with any       *)
(* capabilities unless a theorem says otherwise.                           *)
(***************************************************************************)
EXTENDS ServiceOrchestrator, TLAPS

ProbeType ==
  /\ probe \in [Entries -> Probes \cup {"none"}]
  /\ after \in [Entries -> BOOLEAN]
  /\ stale \in [Entries -> SUBSET BOOLEAN]

\* Asking for the state of a card, or of several, keeps the types.
LEMMA AskType ==
  ASSUME ProbeType, NEW e \in Entries, NEW k \in Commands \cup {"timer"}, Ask(e, k)
  PROVE  ProbeType'
BY DEF ProbeType, Ask, Probes

\* The same for probes that leave the one in flight alone.
LEMMA LookType ==
  ASSUME ProbeType, NEW cards \in SUBSET Entries, Look(cards)
  PROVE  ProbeType'
BY DEF ProbeType, Look, Probes

\* The queue that a reload leaves: as long as before, with nothing to verify.
LEMMA ReloadQueue ==
  ASSUME TypeOK, Reload
  PROVE  /\ later' \in Seq(Closures)
         /\ \A i \in 1..Len(later') : later'[i] \in {RefreshClosure, VoidClosure}
<1> DEFINE left == [i \in 1..Len(later) |->
                      IF later[i] = RefreshClosure THEN later[i] ELSE VoidClosure]
<1>1. left \in Seq({RefreshClosure, VoidClosure}) /\ Len(left) = Len(later)
  BY DEF TypeOK
<1>2. {RefreshClosure, VoidClosure} \subseteq Closures
  BY DEF Closures
<1>3. left \in Seq(Closures)
  BY <1>1, <1>2
<1>4. later' = IF visible THEN Append(left, RefreshClosure) ELSE left
  BY DEF Reload
<1>. HIDE DEF left
<1>. QED
  BY <1>1, <1>2, <1>3, <1>4

\* The types are preserved by every step.
LEMMA TypeStep == TypeOK /\ [Next]_vars => TypeOK'
<1> SUFFICES ASSUME TypeOK, [Next]_vars PROVE TypeOK'
  OBVIOUS
<1>1. ASSUME NEW e \in Entries, NEW c \in Commands, CallAdapter(e, c)
      PROVE  TypeOK'
  BY <1>1 DEF TypeOK, CallAdapter, probeVars, timerVars
<1>2. ASSUME NEW e \in Entries, Request(e) PROVE TypeOK'
  <2>1. CASE ProbeOne(e)
    BY <2>1, LookType DEF TypeOK, ProbeType, ProbeOne, cardVars, callVars, timerVars
  <2>2. CASE Start(e) \/ Stop(e) \/ Restart(e) \/ SetAutostart(e)
    BY <2>2, <1>1 DEF Start, Stop, Restart, SetAutostart, RunAction, Commands
  <2>. QED
    BY <1>2, <2>1, <2>2 DEF Request
<1>3. ASSUME NEW e \in Entries, ActionDone(e) PROVE TypeOK'
  <2>1. <<e, action[e]>> \in Closures
    BY <1>3 DEF TypeOK, ActionDone, Closures, Verifications
  <2>2. Append(later, <<e, action[e]>>) \in Seq(Closures)
    BY <2>1 DEF TypeOK
  <2>. QED
    BY <1>3, <2>2 DEF TypeOK, ActionDone, Ended, timerVars
<1>4. ASSUME NEW e \in Entries, DroppedActionDone(e) PROVE TypeOK'
  BY <1>4 DEF TypeOK, DroppedActionDone, Ended, timerVars
<1>5. ASSUME NEW e \in Entries, RefreshAnswered(e) PROVE TypeOK'
  BY <1>5, AnswersAssumption DEF TypeOK, Answer, RefreshAnswered, callVars, timerVars
<1>6. ASSUME NEW e \in Entries, VerifyAnswered(e) PROVE TypeOK'
  <2>1. \/ timerOn' = TRUE /\ target' = e /\ retries' = TimerRetries
        \/ UNCHANGED timerVars
    BY <1>6, Zenon DEF VerifyAnswered, VerifyBy
  <2>2. timerOn' \in BOOLEAN /\ target' \in Entries \cup {NoEntry} /\ retries' \in 0..TimerRetries
    <3>1. CASE timerOn' = TRUE /\ target' = e /\ retries' = TimerRetries
      BY <3>1 DEF TimerRetries
    <3>2. CASE UNCHANGED timerVars
      BY <3>2 DEF TypeOK, timerVars
    <3>. QED
      BY <2>1, <3>1, <3>2
  <2>3. state' \in [Entries -> States] /\ current' \in [Entries -> BOOLEAN]
    BY <1>6, AnswersAssumption DEF TypeOK, Answer, VerifyAnswered, VerifyBy
  <2>. QED
    BY <1>6, <2>2, <2>3 DEF TypeOK, Answer, VerifyAnswered, VerifyBy, callVars
<1>7. ASSUME NEW e \in Entries, TimerAnswered(e) PROVE TypeOK'
  <2>1. busy' \in [Entries -> BOOLEAN]
    BY <1>7 DEF TypeOK, TimerAnswered, Release
  <2>2. state' \in [Entries -> States] /\ current' \in [Entries -> BOOLEAN]
    BY <1>7, AnswersAssumption DEF TypeOK, Answer, TimerAnswered
  <2>3. timerOn' \in BOOLEAN
    BY <1>7 DEF TypeOK, TimerAnswered
  <2>. QED
    BY <1>7, <2>1, <2>2, <2>3 DEF TypeOK, Answer, TimerAnswered, callVars
<1>8. ASSUME NEW e \in Entries, StaleAnswered(e) PROVE TypeOK'
  BY <1>8 DEF TypeOK, StaleAnswered, cardVars, callVars, timerVars
<1>9. CASE Refresh
  BY <1>9, LookType DEF TypeOK, ProbeType, Refresh, cardVars, callVars, timerVars
<1>10. CASE SetPanelVisible
  BY <1>10, LookType DEF TypeOK, ProbeType, SetPanelVisible, cardVars, callVars, probeVars, timerVars
<1>11. CASE RunLater
  <2>1. later' \in Seq(Closures) /\ Head(later) \in Closures
    BY <1>11 DEF TypeOK, RunLater
  <2>2. ProbeType'
    <3>1. ProbeType
      BY DEF TypeOK, ProbeType
    <3>2. CASE Head(later) \in Verifications /\ Ask(Head(later)[1], Head(later)[2])
      BY <3>1, <3>2, AskType DEF Verifications
    <3>3. CASE Look(Entries)
      BY <3>1, <3>3, LookType
    <3>4. CASE UNCHANGED probeVars
      BY <3>1, <3>4 DEF ProbeType, probeVars
    <3>. QED
      BY <1>11, <3>2, <3>3, <3>4 DEF RunLater
  <2>. QED
    BY <1>11, <2>1, <2>2 DEF TypeOK, ProbeType, RunLater, cardVars, callVars, timerVars
<1>12. CASE TimerFires
  <2>1. CASE target = NoEntry \/ retries = 0
    BY <1>12, <2>1 DEF TypeOK, TimerFires, Release, callVars, probeVars
  <2>2. CASE ~(target = NoEntry \/ retries = 0)
    <3>1. ProbeType'
      BY <1>12, <2>2, AskType DEF TypeOK, ProbeType, TimerFires
    <3>2. retries' \in 0..TimerRetries
      BY <1>12, <2>2 DEF TypeOK, TimerFires, TimerRetries
    <3>. QED
      BY <1>12, <2>2, <3>1, <3>2 DEF TypeOK, ProbeType, TimerFires, callVars
  <2>. QED
    BY <2>1, <2>2
<1>13. CASE Reload
  <2>1. state' \in [Entries -> States] /\ action' \in [Entries -> Commands \cup {"none"}]
    BY <1>13 DEF Reload, States
  <2>2. /\ busy' \in [Entries -> BOOLEAN]
        /\ current' \in [Entries -> BOOLEAN]
        /\ dropped' \in [Entries -> BOOLEAN]
    BY <1>13 DEF Reload
  <2>3. ProbeType'
    BY <1>13 DEF Reload, ProbeType
  <2>. QED
    BY <1>13, <2>1, <2>2, <2>3, ReloadQueue DEF TypeOK, ProbeType, Reload
<1>14. CASE UNCHANGED vars
  BY <1>14 DEF TypeOK, vars, cardVars, callVars, probeVars, timerVars
<1>. QED
  BY <1>2, <1>3, <1>4, <1>5, <1>6, <1>7, <1>8, <1>9, <1>10, <1>11, <1>12, <1>13, <1>14
     DEF Next, Answered

\* All cards start well typed.
LEMMA TypeInit == Init => TypeOK
<1> SUFFICES ASSUME Init PROVE TypeOK
  OBVIOUS
<1>1. /\ state \in [Entries -> States]
      /\ action \in [Entries -> Commands \cup {"none"}]
      /\ probe \in [Entries -> Probes \cup {"none"}]
  BY DEF Init, States
<1>2. stale \in [Entries -> SUBSET BOOLEAN] /\ later \in Seq(Closures)
  BY DEF Init
<1>3. retries \in 0..TimerRetries
  BY DEF Init, TimerRetries
<1>. QED
  BY <1>1, <1>2, <1>3 DEF Init, TypeOK

\* Every variable of the panel keeps its type: the queue holds closures only,
\* and the timer never has more retries than it was given or fewer than none.
THEOREM TypeCorrect == Spec => []TypeOK
BY TypeInit, TypeStep, PTL DEF Spec

-----------------------------------------------------------------------------
(* The displayed state.  A state newer than the last command was reported by *)
(* a probe newer than it, and no older probe is live any more.               *)
CurrentInv == TypeOK /\ \A e \in Entries : current[e] => after[e]

\* A state is current only if no command ended since the card's last probe began.
LEMMA CurrentStep ==
  ASSUME CurrentInv, [Next]_vars
  PROVE  /\ \A e \in Entries : current'[e] => after'[e]
         /\ \A e \in Entries : current[e] /\ state'[e] # state[e] => current'[e]
<1>1. ASSUME NEW e \in Entries, Ended(e), UNCHANGED state
      PROVE  /\ \A f \in Entries : current'[f] => after'[f]
             /\ \A f \in Entries : current[f] /\ state'[f] # state[f] => current'[f]
  BY <1>1 DEF CurrentInv, TypeOK, Ended
<1>2. ASSUME NEW e \in Entries, NEW s \in States, Answer(e, s)
      PROVE  /\ \A f \in Entries : current'[f] => after'[f]
             /\ \A f \in Entries : current[f] /\ state'[f] # state[f] => current'[f]
  BY <1>2 DEF CurrentInv, TypeOK, Answer
<1>3. ASSUME UNCHANGED <<state, current>>, \A f \in Entries : after[f] => after'[f]
      PROVE  /\ \A f \in Entries : current'[f] => after'[f]
             /\ \A f \in Entries : current[f] /\ state'[f] # state[f] => current'[f]
  BY <1>3 DEF CurrentInv
<1>4. ASSUME NEW cards \in SUBSET Entries, Look(cards)
      PROVE  \A f \in Entries : after[f] => after'[f]
  BY <1>4 DEF Look
<1>5. ASSUME NEW e \in Entries, NEW k, Ask(e, k)
      PROVE  \A f \in Entries : after[f] => after'[f]
  BY <1>5 DEF CurrentInv, TypeOK, Ask
<1>6. ASSUME NEW e \in Entries, Request(e)
      PROVE  UNCHANGED <<state, current>> /\ \A f \in Entries : after[f] => after'[f]
  BY <1>6, <1>4
     DEF Request, ProbeOne, Start, Stop, Restart, SetAutostart, RunAction, CallAdapter,
         cardVars, probeVars
<1>7. ASSUME NEW e \in Entries, ActionDone(e) \/ DroppedActionDone(e)
      PROVE  Ended(e) /\ UNCHANGED state
  BY <1>7 DEF ActionDone, DroppedActionDone
<1>8. ASSUME NEW e \in Entries, Answered(e)
      PROVE  \E s \in States : Answer(e, s)
  BY <1>8, AnswersAssumption
     DEF Answered, RefreshAnswered, VerifyAnswered, VerifyBy, TimerAnswered
<1>9. ASSUME NEW e \in Entries, StaleAnswered(e)
      PROVE  UNCHANGED <<state, current, after>>
  BY <1>9 DEF StaleAnswered, cardVars
<1>10. ASSUME Refresh \/ SetPanelVisible \/ RunLater \/ TimerFires
       PROVE  UNCHANGED <<state, current>> /\ \A f \in Entries : after[f] => after'[f]
  <2>1. CASE Refresh \/ SetPanelVisible
    BY <2>1, <1>4 DEF Refresh, SetPanelVisible, cardVars, probeVars
  <2>2. CASE RunLater
    BY <2>2, <1>4, <1>5 DEF RunLater, Verifications, cardVars, probeVars
  <2>3. CASE TimerFires
    BY <2>3, <1>5 DEF CurrentInv, TypeOK, TimerFires, probeVars
  <2>. QED
    BY <1>10, <2>1, <2>2, <2>3
<1>11. CASE Reload
  BY <1>11 DEF Reload
<1>12. CASE UNCHANGED vars
  BY <1>12, <1>3 DEF vars, cardVars, probeVars
<1>. QED
  BY <1>1, <1>2, <1>3, <1>6, <1>7, <1>8, <1>9, <1>10, <1>11, <1>12 DEF Next

\* For any cards: a state newer than the card's last command is never replaced
\* by the answer of a probe made before that command ended.
THEOREM StatesStayCurrent == Spec => CurrentStateStays
<1>1. Init => CurrentInv
  BY TypeInit DEF Init, CurrentInv
<1>2. CurrentInv /\ [Next]_vars => CurrentInv'
  BY TypeStep, CurrentStep DEF CurrentInv
<1>3. CurrentInv /\ [Next]_vars
        => [\A e \in Entries : current[e] /\ state'[e] # state[e] => current'[e]]_vars
  BY CurrentStep
<1>. QED
  BY <1>1, <1>2, <1>3, PTL DEF Spec, CurrentStateStays

-----------------------------------------------------------------------------
(* The spinner.  Commands, closures and verifications are ones the card is   *)
(* capable of, so that the timer only ever targets cards that can be         *)
(* stopped, and every probe it makes is of its target if there is one such   *)
(* card at most.                                                             *)
CapableInv ==
  /\ TypeOK
  /\ \A e \in Entries : action[e] # "none" => action[e] \in Can[e]
  /\ \A e \in Entries : probe[e] \in Commands => probe[e] \in Can[e]
  /\ \A i \in 1..Len(later) :
       later[i] \in Verifications => later[i][2] \in Can[later[i][1]]
  /\ target # NoEntry => "stop" \in Can[target]

AtMostOneStops == \A e, f \in Entries : "stop" \in Can[e] /\ "stop" \in Can[f] => e = f

SpinnerInv ==
  /\ CapableInv
  /\ BusyIsAccounted
  /\ \A e \in Entries : probe[e] = "timer" => e = target

\* What the closures of the queue become when one is added or taken.
LEMMA QueueGrows ==
  ASSUME TypeOK, NEW c \in Closures, later' = Append(later, c)
  PROVE  /\ \A i \in 1..Len(later) : i \in 1..Len(later') /\ later'[i] = later[i]
         /\ \A i \in 1..Len(later') : i \in 1..Len(later) \/ later'[i] = c
         /\ Len(later') \in 1..Len(later') /\ later'[Len(later')] = c
BY DEF TypeOK

\* The same when RunLater takes the first.
LEMMA QueueShrinks ==
  ASSUME TypeOK, later # <<>>, later' = Tail(later)
  PROVE  /\ Head(later) = later[1] /\ 1 \in 1..Len(later) /\ later[1] \in Closures
         /\ \A i \in 1..Len(later) : i # 1 => i - 1 \in 1..Len(later') /\ later'[i - 1] = later[i]
         /\ \A i \in 1..Len(later') : i + 1 \in 1..Len(later) /\ later'[i] = later[i + 1]
BY DEF TypeOK

\* The three kinds of closures are told apart by their first component.
LEMMA ClosureKinds ==
  /\ VoidClosure \notin Verifications /\ RefreshClosure \notin Verifications
  /\ \A c \in Closures : c[1] \in Entries => c \in Verifications
BY EntriesAssumption DEF VoidClosure, RefreshClosure, Verifications, Closures, Commands

\* Every action keeps commands, verifications and the timer to what cards can do.
LEMMA CapableStep == CapableInv /\ [Next]_vars => CapableInv'
<1> SUFFICES ASSUME CapableInv, [Next]_vars PROVE CapableInv'
  OBVIOUS
<1>. TypeOK /\ TypeOK'
  BY TypeStep DEF CapableInv
<1> DEFINE
      ActionsOK == \A e \in Entries : action[e] # "none" => action[e] \in Can[e]
      ProbesOK  == \A e \in Entries : probe[e] \in Commands => probe[e] \in Can[e]
      LaterOK   == \A i \in 1..Len(later) :
                     later[i] \in Verifications => later[i][2] \in Can[later[i][1]]
      TargetOK  == target # NoEntry => "stop" \in Can[target]
<1>0. ActionsOK /\ ProbesOK /\ LaterOK /\ TargetOK
  BY DEF CapableInv
<1>1. ASSUME NEW cards \in SUBSET Entries, Look(cards) PROVE ProbesOK'
  BY <1>1, <1>0 DEF Look, Commands
<1>2. ASSUME NEW e \in Entries, NEW c \in Commands, CallAdapter(e, c)
      PROVE  CapableInv'
  BY <1>2, <1>0 DEF CallAdapter, CapableInv, TypeOK, probeVars, timerVars
<1>3. ASSUME NEW e \in Entries, Request(e) PROVE CapableInv'
  <2>1. CASE ProbeOne(e)
    BY <2>1, <1>0, <1>1 DEF ProbeOne, CapableInv, callVars, timerVars
  <2>2. CASE Start(e) \/ Stop(e) \/ Restart(e) \/ SetAutostart(e)
    BY <2>2, <1>2 DEF Start, Stop, Restart, SetAutostart, RunAction, Commands
  <2>. QED
    BY <1>3, <2>1, <2>2 DEF Request
<1>4. ASSUME NEW e \in Entries, ActionDone(e) PROVE CapableInv'
  <2> DEFINE c == <<e, action[e]>>
  <2>1. c \in Closures /\ c[2] \in Can[c[1]]
    BY <1>4, <1>0 DEF ActionDone, TypeOK, Closures, Verifications
  <2>2. LaterOK'
    <3>1. CASE later' = Append(later, c)
      <4>. HIDE DEF c
      <4>. QED
        BY <3>1, <2>1, <1>0, QueueGrows
    <3>2. CASE UNCHANGED later
      BY <3>2, <1>0
    <3>. QED
      BY <1>4, <3>1, <3>2 DEF ActionDone
  <2>. QED
    BY <1>4, <2>2, <1>0 DEF ActionDone, CapableInv, TypeOK, timerVars
<1>5. ASSUME NEW e \in Entries, DroppedActionDone(e) PROVE CapableInv'
  BY <1>5, <1>0 DEF DroppedActionDone, CapableInv, timerVars
<1>6. ASSUME NEW e \in Entries, Answered(e) PROVE CapableInv'
  <2>1. ProbesOK'
    BY <1>6, <1>0
       DEF Answered, RefreshAnswered, VerifyAnswered, VerifyBy, TimerAnswered, Answer,
           TypeOK, Commands
  <2>2. ActionsOK' /\ LaterOK'
    BY <1>6, <1>0
       DEF Answered, RefreshAnswered, VerifyAnswered, VerifyBy, TimerAnswered, callVars
  <2>3. TargetOK'
    <3>1. CASE VerifyAnswered(e)
      <4>1. PICK s \in Answers : IF <<probe[e], s>> \in {StillRunning}
                                  THEN target' = e ELSE UNCHANGED target
        BY <3>1 DEF VerifyAnswered, VerifyBy, timerVars
      <4>2. CASE <<probe[e], s>> = StillRunning
        BY <4>1, <4>2, <1>0 DEF StillRunning, Commands
      <4>3. CASE <<probe[e], s>> # StillRunning
        BY <4>1, <4>3, <1>0
      <4>. QED
        BY <4>2, <4>3
    <3>2. CASE RefreshAnswered(e) \/ TimerAnswered(e)
      BY <3>2, <1>0 DEF RefreshAnswered, TimerAnswered, timerVars
    <3>. QED
      BY <1>6, <3>1, <3>2 DEF Answered
  <2>. QED
    BY <2>1, <2>2, <2>3 DEF CapableInv
<1>7. ASSUME NEW e \in Entries, StaleAnswered(e) PROVE CapableInv'
  BY <1>7, <1>0 DEF StaleAnswered, CapableInv, callVars, timerVars
<1>8. CASE Refresh \/ SetPanelVisible
  BY <1>8, <1>0, <1>1
     DEF Refresh, SetPanelVisible, CapableInv, callVars, probeVars, timerVars
<1>9. CASE RunLater
  <2>1. ProbesOK'
    <3>1. CASE Head(later) \in Verifications /\ Ask(Head(later)[1], Head(later)[2])
      <4>1. PICK e \in Entries, k \in Commands : Head(later) = <<e, k>>
        BY <3>1 DEF Verifications
      <4>2. k \in Can[e]
        BY <1>9, <3>1, <4>1, <1>0, QueueShrinks DEF RunLater
      <4>. QED
        BY <3>1, <4>1, <4>2, <1>0 DEF Ask, TypeOK
    <3>. QED
      BY <1>9, <3>1, <1>0, <1>1 DEF RunLater, probeVars
  <2>2. LaterOK'
    BY <1>9, <1>0, QueueShrinks DEF RunLater
  <2>. QED
    BY <1>9, <2>1, <2>2, <1>0 DEF RunLater, CapableInv, callVars, timerVars
<1>10. CASE TimerFires
  BY <1>10, <1>0 DEF TimerFires, CapableInv, Ask, TypeOK, callVars, probeVars, Commands
<1>11. CASE Reload
  <2>1. LaterOK'
    BY <1>11, ReloadQueue, ClosureKinds
  <2>. QED
    BY <1>11, <2>1 DEF Reload, CapableInv, Commands
<1>12. CASE UNCHANGED vars
  BY <1>12, <1>0 DEF vars, CapableInv, callVars, probeVars, timerVars
<1>. QED
  BY <1>3, <1>4, <1>5, <1>6, <1>7, <1>8, <1>9, <1>10, <1>11, <1>12 DEF Next

\* No card has been asked for anything yet.
LEMMA CapableInit == Init => CapableInv
BY TypeInit DEF Init, CapableInv, Commands

\* What keeps a card's spinner accounted for, and what the steps keep of it.
LEMMA SpinnerStep ==
  ASSUME AtMostOneStops
  PROVE  SpinnerInv /\ [Next]_vars => SpinnerInv'
<1> SUFFICES ASSUME SpinnerInv, [Next]_vars PROVE SpinnerInv'
  OBVIOUS
<1>. TypeOK /\ TypeOK' /\ CapableInv /\ CapableInv'
  BY CapableStep DEF SpinnerInv, CapableInv
<1> DEFINE
      Queued(e) == \E i \in 1..Len(later) : later[i][1] = e
      TimersOK  == \A e \in Entries : probe[e] = "timer" => e = target
<1>0. BusyIsAccounted /\ TimersOK
  BY DEF SpinnerInv
<1>1. SUFFICES BusyIsAccounted' /\ TimersOK'
  BY DEF SpinnerInv
<1>2. ASSUME NEW cards \in SUBSET Entries, Look(cards),
             UNCHANGED <<busy, action, target, timerOn>>,
             \A e \in Entries : Queued(e) => Queued(e)'
      PROVE  BusyIsAccounted' /\ TimersOK'
  BY <1>2, <1>0 DEF Look, BusyIsAccounted, EndsSpinner, TypeOK, Commands
<1>3. ASSUME NEW e \in Entries, NEW c \in Commands, CallAdapter(e, c)
      PROVE  BusyIsAccounted' /\ TimersOK'
  BY <1>3, <1>0
     DEF CallAdapter, BusyIsAccounted, EndsSpinner, TypeOK, Commands, probeVars, timerVars
<1>4. ASSUME NEW e \in Entries, Request(e) PROVE BusyIsAccounted' /\ TimersOK'
  <2>1. CASE ProbeOne(e)
    BY <2>1, <1>2 DEF ProbeOne, cardVars, callVars, timerVars
  <2>2. CASE Start(e) \/ Stop(e) \/ Restart(e) \/ SetAutostart(e)
    BY <2>2, <1>3 DEF Start, Stop, Restart, SetAutostart, RunAction, Commands
  <2>. QED
    BY <1>4, <2>1, <2>2 DEF Request
<1>5. ASSUME NEW e \in Entries, ActionDone(e) PROVE BusyIsAccounted' /\ TimersOK'
  <2> DEFINE c == <<e, action[e]>>
  <2>0. UNCHANGED <<probe, target, timerOn>> /\ action' = [action EXCEPT ![e] = "none"]
    BY <1>5 DEF ActionDone, timerVars
  <2>1. CASE later' = Append(later, c) /\ UNCHANGED busy
    <3>1. c \in Closures /\ c[1] = e
      BY <1>5 DEF ActionDone, TypeOK, Closures, Verifications
    <3>. HIDE DEF c
    <3>2. Queued(e)' /\ \A f \in Entries : Queued(f) => Queued(f)'
      BY <2>1, <3>1, QueueGrows
    <3>. QED
      BY <2>0, <2>1, <3>2, <1>0 DEF BusyIsAccounted, EndsSpinner, TypeOK
  <2>2. CASE busy' = [busy EXCEPT ![e] = FALSE] /\ UNCHANGED later
    BY <2>0, <2>2, <1>0 DEF BusyIsAccounted, EndsSpinner, TypeOK
  <2>. QED
    BY <1>5, <2>1, <2>2 DEF ActionDone
<1>6. ASSUME NEW e \in Entries, DroppedActionDone(e) PROVE BusyIsAccounted' /\ TimersOK'
  BY <1>6, <1>0 DEF DroppedActionDone, BusyIsAccounted, EndsSpinner, timerVars
<1>7. ASSUME NEW e \in Entries, RefreshAnswered(e) PROVE BusyIsAccounted' /\ TimersOK'
  BY <1>7, <1>0
     DEF RefreshAnswered, Answer, BusyIsAccounted, EndsSpinner, TypeOK, Commands,
         callVars, timerVars
<1>8. ASSUME NEW e \in Entries, VerifyAnswered(e) PROVE BusyIsAccounted' /\ TimersOK'
  <2>0. /\ UNCHANGED <<action, later>>
        /\ busy' = [busy EXCEPT ![e] = FALSE]
        /\ probe' = [probe EXCEPT ![e] = "none"]
    BY <1>8 DEF VerifyAnswered, VerifyBy, Answer, callVars
  <2>1. \/ probe[e] = "stop" /\ timerOn' = TRUE /\ target' = e
        \/ UNCHANGED timerVars
    BY <1>8 DEF VerifyAnswered, VerifyBy, StillRunning
  <2>2. CASE probe[e] = "stop" /\ timerOn' = TRUE /\ target' = e
    <3>1. target = NoEntry \/ target = e
      BY <2>2, AtMostOneStops DEF AtMostOneStops, CapableInv, TypeOK, Commands
    <3>. QED
      BY <2>0, <2>2, <3>1, <1>0, EntriesAssumption
         DEF BusyIsAccounted, EndsSpinner, TypeOK
  <2>3. CASE UNCHANGED timerVars
    BY <2>0, <2>3, <1>0 DEF BusyIsAccounted, EndsSpinner, TypeOK, timerVars
  <2>. QED
    BY <2>1, <2>2, <2>3
<1>9. ASSUME NEW e \in Entries, TimerAnswered(e) PROVE BusyIsAccounted' /\ TimersOK'
  <2>0. /\ UNCHANGED <<action, later, target>>
        /\ probe' = [probe EXCEPT ![e] = "none"]
        /\ probe[e] = "timer" /\ e = target
        /\ \/ timerOn' = TRUE /\ UNCHANGED busy
           \/ busy' = Release(busy) /\ UNCHANGED timerOn
    BY <1>9, <1>0 DEF TimerAnswered, Answer, callVars
  <2>. QED
    BY <2>0, <1>0 DEF Release, BusyIsAccounted, EndsSpinner, TypeOK
<1>10. ASSUME NEW e \in Entries, StaleAnswered(e) PROVE BusyIsAccounted' /\ TimersOK'
  BY <1>10, <1>0 DEF StaleAnswered, BusyIsAccounted, EndsSpinner, cardVars, callVars, timerVars
<1>11. CASE Refresh \/ SetPanelVisible
  <2>1. CASE Look(Entries)
    BY <1>11, <2>1, <1>2 DEF Refresh, SetPanelVisible, cardVars, callVars, timerVars
  <2>2. CASE UNCHANGED probeVars
    BY <1>11, <2>2, <1>0
       DEF Refresh, SetPanelVisible, BusyIsAccounted, EndsSpinner,
           cardVars, callVars, probeVars, timerVars
  <2>. QED
    BY <1>11, <2>1, <2>2 DEF Refresh, SetPanelVisible
<1>12. CASE RunLater
  <2>0. UNCHANGED <<busy, action, target, timerOn>>
    BY <1>12 DEF RunLater, cardVars, callVars, timerVars
  <2>1. \A e \in Entries : Queued(e) => Queued(e)' \/ Head(later)[1] = e
    BY <1>12, QueueShrinks DEF RunLater
  <2>2. CASE Head(later) \in Verifications /\ Ask(Head(later)[1], Head(later)[2])
    <3>1. PICK e \in Entries, k \in Commands : Head(later) = <<e, k>>
      BY <2>2 DEF Verifications
    <3>2. probe' = [probe EXCEPT ![e] = k]
      <4>1. Head(later)[1] = e /\ Head(later)[2] = k
        BY <3>1
      <4>. QED
        BY <2>2, <4>1 DEF Ask
    <3>3. \A f \in Entries : f # e /\ Queued(f) => Queued(f)'
      BY <2>1, <3>1
    <3>. QED
      BY <2>0, <3>2, <3>3, <1>0, SMTT(30) DEF BusyIsAccounted, EndsSpinner, TypeOK, Commands
  <2>3. CASE Head(later) \in {RefreshClosure, VoidClosure}
    <3>1. \A e \in Entries : Queued(e) => Queued(e)'
      BY <2>1, <2>3, EntriesAssumption DEF RefreshClosure, VoidClosure
    <3>2. CASE Look(Entries)
      BY <2>0, <3>1, <3>2, <1>2
    <3>3. CASE UNCHANGED probeVars
      BY <2>0, <3>1, <3>3, <1>0 DEF BusyIsAccounted, EndsSpinner, probeVars
    <3>. QED
      BY <1>12, <2>3, <3>2, <3>3, ClosureKinds DEF RunLater
  <2>. QED
    BY <1>12, <2>2, <2>3 DEF RunLater
<1>13. CASE TimerFires
  <2>0. UNCHANGED <<action, later, target>>
    BY <1>13 DEF TimerFires, callVars
  <2>1. CASE target = NoEntry \/ retries = 0
    <3>1. busy' = Release(busy) /\ UNCHANGED probe
      BY <1>13, <2>1 DEF TimerFires, probeVars
    <3>. QED
      BY <2>0, <3>1, <1>0 DEF Release, BusyIsAccounted, EndsSpinner, TypeOK
  <2>2. CASE ~(target = NoEntry \/ retries = 0)
    <3>1. UNCHANGED busy /\ probe' = [probe EXCEPT ![target] = "timer"] /\ target \in Entries
      BY <1>13, <2>2 DEF TimerFires, Ask, TypeOK
    <3>. QED
      BY <2>0, <3>1, <1>0 DEF BusyIsAccounted, EndsSpinner, TypeOK
  <2>. QED
    BY <2>1, <2>2
<1>14. CASE Reload
  BY <1>14 DEF Reload, BusyIsAccounted
<1>15. CASE UNCHANGED vars
  BY <1>15, <1>0
     DEF vars, BusyIsAccounted, EndsSpinner, cardVars, callVars, probeVars, timerVars
<1>. QED
  BY <1>4, <1>5, <1>6, <1>7, <1>8, <1>9, <1>10, <1>11, <1>12, <1>13, <1>14, <1>15
     DEF Next, Answered

\* As long as at most one card can be stopped, a spinner that is on always has
\* something under way that ends it.  (The shared timer breaks this for two.)
THEOREM SpinnersAreAccounted ==
  ASSUME AtMostOneStops
  PROVE  Spec => []BusyIsAccounted
<1>1. Init => SpinnerInv
  BY CapableInit DEF Init, SpinnerInv, BusyIsAccounted
<1>2. SpinnerInv /\ [Next]_vars => SpinnerInv'
  BY SpinnerStep, AtMostOneStops
<1>3. SpinnerInv => BusyIsAccounted
  BY DEF SpinnerInv
<1>. QED
  BY <1>1, <1>2, <1>3, PTL DEF Spec

-----------------------------------------------------------------------------
(* One command at a time.  Between the click and the end of its             *)
(* verification a command is with the adapter, waits in the queue or is      *)
(* verified, one of the three and once, and the card is busy: nothing else   *)
(* may end the spinner in between, so the timer must not watch any card.     *)
NoneStops == \A e \in Entries : "stop" \notin Can[e]

\* A closure that verifies a command waits for its turn.
Queued(e) == \E i \in 1..Len(later) : later[i] \in Verifications /\ later[i][1] = e

CommandInv ==
  /\ CapableInv
  /\ OneCommand
  /\ ~timerOn /\ target = NoEntry
  /\ \A e \in Entries :
       /\ probe[e] # "timer"
       /\ action[e] # "none" \/ Queued(e) \/ probe[e] \in Commands => busy[e]
       /\ action[e] # "none" => ~Queued(e)
       /\ probe[e] \in Commands => action[e] = "none" /\ ~Queued(e)
  /\ \A i, j \in 1..Len(later) :
       later[i] \in Verifications /\ later[j] \in Verifications /\ later[i][1] = later[j][1]
         => i = j

\* No command, closure or verification of a card joins another of its own.
LEMMA CommandStep ==
  ASSUME NoneStops
  PROVE  CommandInv /\ [Next]_vars => CommandInv'
<1> SUFFICES ASSUME CommandInv, [Next]_vars PROVE CommandInv'
  OBVIOUS
<1>. TypeOK /\ TypeOK' /\ CapableInv /\ CapableInv'
  BY CapableStep DEF CommandInv, CapableInv
<1> DEFINE
      Once(e) == /\ probe[e] # "timer"
                 /\ action[e] # "none" \/ Queued(e) \/ probe[e] \in Commands => busy[e]
                 /\ action[e] # "none" => ~Queued(e)
                 /\ probe[e] \in Commands => action[e] = "none" /\ ~Queued(e)
      Distinct == \A i, j \in 1..Len(later) :
                    later[i] \in Verifications /\ later[j] \in Verifications
                      /\ later[i][1] = later[j][1] => i = j
      TimerOff == ~timerOn /\ target = NoEntry
<1>0. OneCommand /\ TimerOff /\ Distinct /\ \A e \in Entries : Once(e)
  BY DEF CommandInv
<1>1. SUFFICES OneCommand' /\ TimerOff' /\ Distinct' /\ \A e \in Entries : Once(e)'
  BY DEF CommandInv
<1>. HIDE DEF CommandInv
<1>2. ASSUME UNCHANGED later PROVE Distinct' /\ \A e \in Entries : Queued(e)' <=> Queued(e)
  BY <1>2, <1>0 DEF Queued
<1>3. ASSUME NEW cards \in SUBSET Entries, Look(cards),
             UNCHANGED <<busy, action>>, \A e \in Entries : Queued(e)' => Queued(e)
      PROVE  \A e \in Entries : Once(e)'
  <2>1. \A e \in Entries : probe'[e] = probe[e] \/ probe'[e] = "refresh"
    BY <1>3 DEF Look, TypeOK
  <2>. QED
    BY <2>1, <1>0, <1>3 DEF Commands
<1>4. ASSUME NEW e \in Entries, NEW c \in Commands, RunAction(e, c)
      PROVE  OneCommand' /\ TimerOff' /\ Distinct' /\ \A f \in Entries : Once(f)'
  <2>1. ~busy[e] /\ action[e] = "none" /\ ~Queued(e) /\ probe[e] \notin Commands
    BY <1>4, <1>0 DEF RunAction
  <2>2. /\ busy' = [busy EXCEPT ![e] = TRUE] /\ action' = [action EXCEPT ![e] = c]
        /\ dropped' = [dropped EXCEPT ![e] = @ \/ action[e] # "none"]
        /\ UNCHANGED <<probe, later, timerOn, target>>
    BY <1>4 DEF RunAction, CallAdapter, probeVars, timerVars
  <2>3. OneCommand'
    BY <2>1, <2>2, <1>0 DEF OneCommand, TypeOK
  <2>. QED
    BY <2>1, <2>2, <2>3, <1>0, <1>2 DEF TypeOK
<1>5. ASSUME NEW e \in Entries, Request(e)
      PROVE  OneCommand' /\ TimerOff' /\ Distinct' /\ \A f \in Entries : Once(f)'
  <2>1. CASE ProbeOne(e)
    BY <2>1, <1>0, <1>2, <1>3 DEF ProbeOne, OneCommand, cardVars, callVars, timerVars
  <2>2. CASE Start(e) \/ Stop(e) \/ Restart(e) \/ SetAutostart(e)
    BY <2>2, <1>4 DEF Start, Stop, Restart, SetAutostart, Commands
  <2>. QED
    BY <1>5, <2>1, <2>2 DEF Request
<1>6. ASSUME NEW e \in Entries, ActionDone(e)
      PROVE  OneCommand' /\ TimerOff' /\ Distinct' /\ \A f \in Entries : Once(f)'
  <2> DEFINE c == <<e, action[e]>>
  <2>0. /\ UNCHANGED <<dropped, probe, target, timerOn>>
        /\ action' = [action EXCEPT ![e] = "none"] /\ action[e] # "none"
        /\ \/ busy' = [busy EXCEPT ![e] = FALSE] /\ UNCHANGED later
           \/ later' = Append(later, c) /\ UNCHANGED busy
    BY <1>6 DEF ActionDone, timerVars
  <2>1. busy[e] /\ ~Queued(e) /\ probe[e] \notin Commands
    BY <2>0, <1>0
  <2>2. OneCommand' /\ TimerOff'
    BY <2>0, <1>0 DEF OneCommand
  <2>3. CASE busy' = [busy EXCEPT ![e] = FALSE] /\ UNCHANGED later
    BY <2>0, <2>1, <2>2, <2>3, <1>0, <1>2 DEF TypeOK
  <2>4. CASE later' = Append(later, c) /\ UNCHANGED busy
    <3>1. c \in Closures /\ c[1] = e
      BY <2>0 DEF TypeOK, Closures, Verifications
    <3>. HIDE DEF c
    <3>2. /\ \A i \in 1..Len(later) : i \in 1..Len(later') /\ later'[i] = later[i]
          /\ \A i \in 1..Len(later') : i \in 1..Len(later) \/ (i = Len(later') /\ later'[i] = c)
      BY <2>4, <3>1 DEF TypeOK
    <3>3. \A f \in Entries : Queued(f)' => Queued(f) \/ f = e
      BY <3>1, <3>2 DEF Queued
    <3>4. Distinct'
      <4> SUFFICES ASSUME NEW i \in 1..Len(later'), NEW j \in 1..Len(later'),
                          later'[i] \in Verifications, later'[j] \in Verifications,
                          later'[i][1] = later'[j][1]
                   PROVE  i = j
        OBVIOUS
      <4>1. CASE i \in 1..Len(later) /\ j \in 1..Len(later)
        BY <3>2, <4>1, <1>0
      <4>2. CASE i \notin 1..Len(later) /\ j \notin 1..Len(later)
        BY <3>2, <4>2
      <4>3. CASE i \in 1..Len(later) /\ j \notin 1..Len(later)
        BY <2>1, <3>1, <3>2, <4>3 DEF Queued
      <4>4. CASE i \notin 1..Len(later) /\ j \in 1..Len(later)
        BY <2>1, <3>1, <3>2, <4>4 DEF Queued
      <4>. QED
        BY <4>1, <4>2, <4>3, <4>4
    <3>. QED
      BY <2>0, <2>1, <2>2, <2>4, <3>3, <3>4, <1>0 DEF TypeOK
  <2>. QED
    BY <2>0, <2>3, <2>4
<1>7. ASSUME NEW e \in Entries, DroppedActionDone(e) PROVE FALSE
  BY <1>7, <1>0 DEF DroppedActionDone, OneCommand
<1>8. ASSUME NEW e \in Entries, Answered(e)
      PROVE  OneCommand' /\ TimerOff' /\ Distinct' /\ \A f \in Entries : Once(f)'
  <2>1. UNCHANGED <<action, dropped, later>> /\ probe' = [probe EXCEPT ![e] = "none"]
    BY <1>8
       DEF Answered, RefreshAnswered, VerifyAnswered, VerifyBy, TimerAnswered, Answer, callVars
  <2>2. CASE RefreshAnswered(e)
    BY <2>1, <2>2, <1>0, <1>2 DEF RefreshAnswered, OneCommand, TypeOK, Commands, timerVars
  <2>3. CASE VerifyAnswered(e)
    <3>1. probe[e] \in Commands /\ probe[e] # "stop" /\ busy' = [busy EXCEPT ![e] = FALSE]
      BY <2>3, NoneStops DEF VerifyAnswered, VerifyBy, NoneStops, CapableInv, Commands
    <3>2. UNCHANGED timerVars
      BY <2>3, <3>1 DEF VerifyAnswered, VerifyBy, StillRunning
    <3>. QED
      BY <2>1, <3>1, <3>2, <1>0, <1>2 DEF OneCommand, TypeOK, timerVars, Commands
  <2>4. CASE TimerAnswered(e)
    BY <2>4, <1>0 DEF TimerAnswered
  <2>. QED
    BY <1>8, <2>2, <2>3, <2>4 DEF Answered
<1>9. ASSUME NEW e \in Entries, StaleAnswered(e)
      PROVE  OneCommand' /\ TimerOff' /\ Distinct' /\ \A f \in Entries : Once(f)'
  BY <1>9, <1>0, <1>2 DEF StaleAnswered, OneCommand, cardVars, callVars, timerVars
<1>10. CASE Refresh \/ SetPanelVisible
  <2>1. UNCHANGED <<busy, action, dropped, later, timerOn, target>>
        /\ (Look(Entries) \/ UNCHANGED probe)
    BY <1>10 DEF Refresh, SetPanelVisible, cardVars, callVars, probeVars, timerVars
  <2>. QED
    BY <2>1, <1>0, <1>2, <1>3 DEF OneCommand
<1>11. CASE RunLater
  <2>0. UNCHANGED <<busy, action, dropped, target, timerOn>> /\ later # <<>> /\ later' = Tail(later)
    BY <1>11 DEF RunLater, cardVars, callVars, timerVars
  <2>1. /\ Head(later) = later[1] /\ 1 \in 1..Len(later)
        /\ \A i \in 1..Len(later') : i + 1 \in 1..Len(later) /\ later'[i] = later[i + 1]
    BY <2>0, QueueShrinks
  <2>2. OneCommand' /\ TimerOff'
    BY <2>0, <1>0 DEF OneCommand
  <2>3. Distinct'
    BY <2>1, <1>0
  <2>4. \A e \in Entries : Queued(e)' => Queued(e)
    BY <2>1 DEF Queued
  <2>5. CASE Head(later) \in Verifications /\ Ask(Head(later)[1], Head(later)[2])
    <3>1. PICK e \in Entries, k \in Commands : Head(later) = <<e, k>>
      BY <2>5 DEF Verifications
    <3>2. probe' = [probe EXCEPT ![e] = k]
      <4>1. Head(later)[1] = e /\ Head(later)[2] = k
        BY <3>1
      <4>. QED
        BY <2>5, <4>1 DEF Ask
    <3>3. Queued(e)
      BY <2>1, <2>5, <3>1 DEF Queued
    <3>4. ~Queued(e)'
      <4> SUFFICES ASSUME NEW i \in 1..Len(later'), later'[i] \in Verifications, later'[i][1] = e
                   PROVE  FALSE
        BY DEF Queued
      <4>1. i + 1 \in 1..Len(later) /\ later[i + 1] \in Verifications /\ later[i + 1][1] = e
        BY <2>1
      <4>2. later[1] \in Verifications /\ later[1][1] = e
        BY <2>1, <2>5, <3>1
      <4>3. i + 1 = 1
        BY <2>1, <4>1, <4>2, <1>0
      <4>. QED
        BY <4>3
    <3>. QED
      BY <2>0, <2>2, <2>3, <2>4, <3>2, <3>3, <3>4, <1>0 DEF TypeOK, Commands
  <2>6. CASE Look(Entries)
    BY <2>0, <2>2, <2>3, <2>4, <2>6, <1>3
  <2>7. CASE UNCHANGED probeVars
    BY <2>0, <2>2, <2>3, <2>4, <2>7, <1>0 DEF probeVars
  <2>. QED
    BY <1>11, <2>5, <2>6, <2>7 DEF RunLater
<1>12. CASE TimerFires
  BY <1>12, <1>0 DEF TimerFires
<1>13. CASE Reload
  <2>1. \A i \in 1..Len(later') : later'[i] \notin Verifications
    BY <1>13, ReloadQueue, ClosureKinds
  <2>. QED
    BY <1>13, <2>1, <1>0 DEF Reload, OneCommand, Queued, Commands
<1>14. CASE UNCHANGED vars
  BY <1>14, <1>0, <1>2 DEF vars, OneCommand, cardVars, callVars, probeVars, timerVars
<1>. QED
  BY <1>5, <1>6, <1>7, <1>8, <1>9, <1>10, <1>11, <1>12, <1>13, <1>14 DEF Next

\* If no card can be stopped, a card never has two commands running: busy is
\* on from the click to the end of the verification (runAction, finishAction).
THEOREM CommandsTakeTurns ==
  ASSUME NoneStops
  PROVE  Spec => []OneCommand
<1>1. Init => CommandInv
  BY CapableInit DEF Init, CommandInv, OneCommand, Queued, Commands
<1>2. CommandInv /\ [Next]_vars => CommandInv'
  BY CommandStep, NoneStops
<1>3. CommandInv => OneCommand
  BY DEF CommandInv
<1>. QED
  BY <1>1, <1>2, <1>3, PTL DEF Spec
=============================================================================
