------------------------------- MODULE Toaster -------------------------------
(***************************************************************************)
(* Toaster and Toast: a toast is closed by its timer or by a click, and is *)
(* deleted when no delegate holds it.  Each screen has a delegate of its   *)
(* own for a toast (Toasts.qml), which locks the toast when it is made and *)
(* unlocks it when its closing animation is over or when it is destroyed.  *)
(***************************************************************************)
EXTENDS Sequences, SequencesExt

CONSTANTS Toasts,   \* toasts of the session
          Screens,
          MaxShows  \* bound: delegates made

VARIABLES toasts,   \* m_toasts, the newest first
          closed,   \* m_closed of each
          locks,    \* m_locks of each: screens whose delegate holds it
          pending,  \* toasts whose timer has not fired
          delegates,\* delegates that exist, <<screen, toast>>
          shows
vars == <<toasts, closed, locks, pending, delegates, shows>>

----------------------------------------------------------------------------
Init ==
    /\ toasts = <<>> /\ closed = [t \in Toasts |-> FALSE]
    /\ locks = [t \in Toasts |-> {}]
    /\ pending = {} /\ delegates = {} /\ shows = 0

(* Toast(): the timer starts with the timeout that was asked for. *)
Show(t) ==
    /\ t \notin ToSet(toasts) /\ t \notin pending /\ ~closed[t]
    /\ toasts' = <<t>> \o toasts
    /\ pending' = pending \cup {t}
    /\ UNCHANGED <<closed, locks, delegates, shows>>

(* close, and the slot of finishedClose: held are those who hold t then. *)
Close(t, held) ==
    /\ closed' = [closed EXCEPT ![t] = TRUE]
    /\ locks' = [locks EXCEPT ![t] = held]
    /\ toasts' = IF held = {} THEN RemoveFirst(toasts, t) ELSE toasts

(* Mutant: the last one to unlock does not finish the closing. *)
UnlockOnly(t, s) ==
    /\ locks' = [locks EXCEPT ![t] = @ \ {s}]
    /\ UNCHANGED <<closed, toasts>>

Unlock(t, s) ==
    IF s \in locks[t] /\ closed[t] THEN Close(t, locks[t] \ {s})
    ELSE /\ locks' = [locks EXCEPT ![t] = @ \ {s}]
         /\ UNCHANGED <<closed, toasts>>

(* lock: a delegate for a toast of the list, closed or not. *)
MakeDelegate(t, s) ==
    /\ t \in ToSet(toasts) /\ <<s, t>> \notin delegates
    /\ shows < MaxShows /\ shows' = shows + 1
    /\ delegates' = delegates \cup {<<s, t>>}
    /\ locks' = [locks EXCEPT ![t] = @ \cup {s}]
    /\ UNCHANGED <<toasts, closed, pending>>

TimerFires(t) ==
    /\ t \in pending
    /\ pending' = pending \ {t}
    /\ Close(t, locks[t])
    /\ UNCHANGED <<delegates, shows>>

Click(t, s) ==
    /\ <<s, t>> \in delegates /\ t \in ToSet(toasts)
    /\ Close(t, locks[t])
    /\ UNCHANGED <<pending, delegates, shows>>

(* The closing animation of a delegate is over. *)
Faded(t, s) ==
    /\ <<s, t>> \in delegates /\ closed[t] /\ s \in locks[t]
    /\ Unlock(t, s)
    /\ UNCHANGED <<pending, delegates, shows>>

(* The delegate is destroyed: too many toasts, a full screen window, or    *)
(* the toast is gone from the list.                                        *)
DropDelegate(t, s) ==
    /\ <<s, t>> \in delegates
    /\ delegates' = delegates \ {<<s, t>>}
    /\ Unlock(t, s)
    /\ UNCHANGED <<pending, shows>>

Next ==
    \E t \in Toasts :
        \/ Show(t) \/ TimerFires(t)
        \/ \E s \in Screens :
              MakeDelegate(t, s) \/ Click(t, s) \/ Faded(t, s) \/ DropDelegate(t, s)

Spec == Init /\ [][Next]_vars

----------------------------------------------------------------------------
(* A toast is freed only when no delegate holds it, and none stays in the  *)
(* list for good: one that is closed is held by a delegate that exists and *)
(* will unlock it, one that is not has its timer.                          *)
ToastsAreAccounted ==
    \A t \in Toasts :
        /\ locks[t] # {} => t \in ToSet(toasts)
        /\ \A s \in locks[t] : <<s, t>> \in delegates
        /\ t \in ToSet(toasts) => IF closed[t] THEN locks[t] # {} ELSE t \in pending
=============================================================================
