--------------------------------- MODULE Pam ---------------------------------
(***************************************************************************)
(* modules/lock/Pam.qml: the password, the fingerprint and the face of the *)
(* lock screen, each a PAM conversation that ends whenever it wants.       *)
(* Fingerprint and face count their tries, restart after errors, and say   *)
(* on screen where they stand; a message is taken back by a timer.         *)
(* Typed characters, messages and flashes are left out.                    *)
(***************************************************************************)
EXTENDS Naturals, FiniteSets

CONSTANTS MaxTries,    \* method -> maxFprintTries, maxHowdyTries
          ErrorTries,  \* the literal 5 of onCompleted
          MaxEvents    \* bound: what the user, the lock and the settings do

VARIABLES secure, unlocking,  \* the session lock
          password,   \* passwd.active
          shown,      \* state of the root: "none", "error", "max" or "failed"
          showing,    \* pwdStateReset runs
          ctx,        \* method -> its ManualPamContext
          events,
          blind,      \* history: methods a retry started that could not attempt
          gaveUp      \* history: the fingerprint saw ErrorTries errors
vars == <<secure, unlocking, password, shown, showing, ctx, events, blind, gaveUp>>

Methods == {"fprint", "howdy"}

Context(method) ==
    [enabled |-> TRUE, available |-> FALSE, checking |-> FALSE, active |-> FALSE,
     tries |-> 0, errors |-> 0, state |-> "none", retry |-> FALSE, reset |-> FALSE]

CanAttempt(method, c, sec) ==
    c.available /\ c.enabled /\ sec /\ c.tries < MaxTries[method]

(* Mutant: the reset forgets the state on screen. *)
ResetTriesOnly(c) == [c EXCEPT !.tries = 0, !.errors = 0]

Reset(c) == [c EXCEPT !.tries = 0, !.errors = 0, !.state = "none"]

(* restartFprint: start does nothing to a conversation that goes on. *)
RestartFprint(c, sec) ==
    LET fresh == Reset(c)
    IN  [fresh EXCEPT !.active = CanAttempt("fprint", fresh, sec)]

ClearState(state) == IF state = "max" THEN state ELSE "none"
ClearedStates == [m \in Methods |-> [ctx[m] EXCEPT !.state = ClearState(@)]]

(* lock.unlock(), as the code of onUnlock answers it *)
Unlocked(ctxs) ==
    /\ unlocking' = secure /\ password' = FALSE
    /\ ctx' = [m \in Methods |-> [ctxs[m] EXCEPT !.active = FALSE]]

Init ==
    /\ secure = FALSE /\ unlocking = FALSE
    /\ password = FALSE /\ shown = "none" /\ showing = FALSE
    /\ ctx = [m \in Methods |-> Context(m)]
    /\ events = 0 /\ blind = {} /\ gaveUp = FALSE

Event == events < MaxEvents /\ events' = events + 1
----------------------------------------------------------------------------
(* onSecureChanged *)
Lock ==
    /\ Event /\ ~secure /\ secure' = TRUE /\ shown' = "none"
    /\ ctx' = [m \in Methods |-> [Reset(ctx[m]) EXCEPT !.checking = TRUE]]
    /\ blind' = {} /\ gaveUp' = FALSE
    /\ UNCHANGED <<unlocking, password, showing>>

(* The surface has faded out and releases the lock. *)
Release ==
    /\ unlocking /\ secure' = FALSE /\ unlocking' = FALSE
    /\ UNCHANGED <<password, shown, showing, ctx, events, blind, gaveUp>>

(* The shortcut or the IPC call that unlocks *)
UnlockCommand ==
    /\ Event /\ secure /\ ~unlocking /\ Unlocked(ctx)
    /\ UNCHANGED <<secure, shown, showing, blind, gaveUp>>

(* availProc exits *)
Checked(method) ==
    /\ ctx[method].checking
    /\ \E found \in BOOLEAN :
         LET c == [ctx[method] EXCEPT !.checking = FALSE, !.available = found]
         IN  /\ ctx' = [ctx EXCEPT ![method] = IF method = "fprint" THEN RestartFprint(c, secure) ELSE c]
             /\ gaveUp' = (gaveUp /\ method # "fprint")
    /\ UNCHANGED <<secure, unlocking, password, shown, showing, events, blind>>

(* handleKey with Enter; the field takes no keys while it fades out. *)
Enter(empty) ==
    /\ Event /\ secure /\ ~unlocking /\ ~password
    /\ LET howdy == ctx["howdy"]
       IN  IF empty /\ ~howdy.active /\ CanAttempt("howdy", howdy, secure)
           THEN ctx' = [ctx EXCEPT !["howdy"].active = TRUE] /\ UNCHANGED password
           ELSE /\ shown # "max"
                /\ ctx' = [ctx EXCEPT !["howdy"].active = FALSE] /\ password' = TRUE
    /\ UNCHANGED <<secure, unlocking, shown, showing, blind, gaveUp>>

(* passwd.onCompleted *)
PasswordCompleted ==
    /\ password
    /\ \/ Unlocked(ctx) /\ UNCHANGED <<shown, showing>>
       \/ /\ shown' \in {"error", "max", "failed"} /\ showing' = TRUE
          /\ password' = FALSE /\ ctx' = ClearedStates
          /\ UNCHANGED unlocking
    /\ UNCHANGED <<secure, events, blind, gaveUp>>

(* ManualPamContext.onCompleted: the conversation is over by then. *)
(* Mutant: a failure does not start the fingerprint again. *)
FailureWaits(method, c) ==
    [c EXCEPT !.tries = @ + 1, !.reset = TRUE,
              !.state = IF c.tries + 1 < MaxTries[method] THEN "failed" ELSE "max"]

Failure(method, c) ==
    LET more == c.tries + 1 < MaxTries[method]
    IN  [c EXCEPT !.tries = @ + 1, !.reset = TRUE, !.active = more /\ method = "fprint",
                  !.state = IF more THEN "failed" ELSE "max"]
Trouble(c) ==
    [c EXCEPT !.errors = @ + 1, !.state = "error", !.reset = TRUE,
              !.retry = IF c.errors + 1 < ErrorTries THEN TRUE ELSE @]

Completed(method) ==
    /\ ctx[method].active
    /\ IF ~ctx[method].available
       THEN /\ ctx' = [ctx EXCEPT ![method].active = FALSE]
            /\ UNCHANGED <<unlocking, password, shown, gaveUp>>
       ELSE LET c == [ClearedStates[method] EXCEPT !.active = FALSE]
            IN  \/ Unlocked(ctx) /\ UNCHANGED <<shown, gaveUp>>
                \/ /\ ctx' = [ClearedStates EXCEPT ![method] = Trouble(c)]
                   /\ gaveUp' = (gaveUp \/ (method = "fprint" /\ c.errors + 1 >= ErrorTries))
                   /\ shown' = ClearState(shown) /\ UNCHANGED <<unlocking, password>>
                \/ /\ ctx' = [ClearedStates EXCEPT ![method] = Failure(method, c)]
                   /\ shown' = ClearState(shown) /\ UNCHANGED <<unlocking, password, gaveUp>>
    /\ UNCHANGED <<secure, showing, events, blind>>
----------------------------------------------------------------------------
(* errorRetry: pam.start(), whatever happened while the timer ran *)
Retry(method) ==
    LET c == ctx[method]
    IN  /\ c.retry
        /\ ctx' = [ctx EXCEPT ![method].retry = FALSE, ![method].active = TRUE]
        /\ blind' = IF c.active \/ CanAttempt(method, c, secure) THEN blind ELSE blind \cup {method}
        /\ UNCHANGED <<secure, unlocking, password, shown, showing, events, gaveUp>>

StateReset(method) ==
    /\ ctx[method].reset
    /\ ctx' = [ctx EXCEPT ![method].reset = FALSE, ![method].errors = 0,
                          ![method].state = ClearState(@)]
    /\ UNCHANGED <<secure, unlocking, password, shown, showing, events, blind, gaveUp>>

PwdStateReset ==
    /\ showing /\ showing' = FALSE /\ shown' = ClearState(shown)
    /\ UNCHANGED <<secure, unlocking, password, ctx, events, blind, gaveUp>>

(* onResumed *)
Resume ==
    /\ Event /\ ~ctx["howdy"].active /\ CanAttempt("howdy", ctx["howdy"], secure)
    /\ ctx' = [ctx EXCEPT !["howdy"].active = TRUE]
    /\ UNCHANGED <<secure, unlocking, password, shown, showing, blind, gaveUp>>

(* onEnableFprintChanged, onEnableHowdyChanged *)
Toggle(method) ==
    /\ Event
    /\ LET c == [ctx[method] EXCEPT !.enabled = ~@]
       IN  ctx' = [ctx EXCEPT ![method] =
                     IF method = "fprint" THEN RestartFprint(c, secure)
                     ELSE [c EXCEPT !.active = @ /\ c.enabled]]
    /\ gaveUp' = (gaveUp /\ method # "fprint")
    /\ UNCHANGED <<secure, unlocking, password, shown, showing, blind>>
----------------------------------------------------------------------------
Next ==
    \/ Lock \/ Release \/ UnlockCommand \/ PasswordCompleted \/ PwdStateReset \/ Resume
    \/ \E empty \in BOOLEAN : Enter(empty)
    \/ \E method \in Methods : \/ Checked(method) \/ Completed(method) \/ Retry(method)
                               \/ StateReset(method) \/ Toggle(method)

Spec == Init /\ [][Next]_vars
----------------------------------------------------------------------------
(* What the screen says of a method and of the password is what they can   *)
(* do: "max" stands exactly when the tries are used up, and nothing is     *)
(* tried after that.  The exception is a method that the retry timer       *)
(* started although it could not attempt.                                  *)
StateTellsTries ==
    /\ \A method \in Methods \ blind :
         LET c == ctx[method]
         IN  /\ (c.state = "max") = (c.tries >= MaxTries[method])
             /\ c.tries <= MaxTries[method]
             /\ c.active => c.tries < MaxTries[method]
    /\ password => shown # "max"

(* While the screen is locked and the fingerprint may be tried, its reader *)
(* listens or will be started again, unless it only reported errors.       *)
ReaderListens ==
    LET c == ctx["fprint"]
    IN  secure /\ ~unlocking /\ CanAttempt("fprint", c, secure) /\ ~gaveUp
            => c.active \/ c.retry \/ c.checking
=============================================================================
