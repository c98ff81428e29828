------------------------------ MODULE HyprExtras -------------------------------
(***************************************************************************)
(* caelestia::services::hypr::HyprExtras and HyprDevices: the shell's copy *)
(* of the options and the keyboards of the compositor.  It is refreshed by *)
(* requests on sockets of their own, when the compositor announces a       *)
(* change on the event socket, when QML asks and after options were        *)
(* applied; a new refresh closes the socket of the last.  A keyboard is    *)
(* its address and the rest of its description; the toasts of caps lock,   *)
(* num lock and layout are left out.                                       *)
(***************************************************************************)
EXTENDS Integers, Sequences, FiniteSets, SequencesExt

CONSTANTS Options, Values,   \* keys and values of the options
          Addresses,
          MaxChanges         \* bound: changes of the compositor and calls of QML

Kinds == {"options", "devices"}
Event(kind) == IF kind = "options" THEN "configreloaded" ELSE "activelayout"
NoRequest == <<>>

VARIABLES setting,   \* the options of the compositor
          plugged,   \* its keyboards, address |-> description
          options, keyboards,  \* m_options; the keyboards, a sequence of <<address, description>>
          refresh,   \* kind |-> m_optionsRefresh or m_devicesRefresh: NoRequest, <<"asked">> or <<"answered", answer>>
          applying,  \* requests of applyOptions: <<"asked", option, value>> or <<"answered">>
          events,    \* what the event socket still holds
          changes,
          lost,      \* history: kinds whose last reply was an error or came in two parts,
                     \* and "applied" after the error of an applyOptions that was carried out
          told       \* history: what QML last read of the options and the keyboards
vars == <<setting, plugged, options, keyboards, refresh, applying, events, changes, lost, told>>

Compositor == <<setting, plugged>>
Copies == <<options, keyboards, told>>

----------------------------------------------------------------------------
Init ==
    /\ setting \in [Options -> Values]
    /\ plugged \in UNION {[A -> Values] : A \in SUBSET Addresses}
    /\ options = [o \in Options |-> 0] /\ keyboards = <<>>
    /\ refresh = [k \in Kinds |-> <<"asked">>] \* the constructor refreshes both
    /\ applying = {} /\ events = <<>> /\ changes = 0 /\ lost = {}
    /\ told = <<options, keyboards>>

(* Mutant: a refresh waits for the one that is already on its way. *)
RefreshLater(kind) ==
    refresh' = IF refresh[kind] # NoRequest THEN refresh ELSE [refresh EXCEPT ![kind] = <<"asked">>]

(* refreshOptions, refreshDevices *)
Refresh(kind) == refresh' = [refresh EXCEPT ![kind] = <<"asked">>]

(* applyOptions, for one option. *)
ApplyOptions(option, value) ==
    /\ changes < MaxChanges /\ changes' = changes + 1
    /\ applying' = applying \cup {<<"asked", option, value>>}
    /\ UNCHANGED <<refresh, events, lost>> /\ UNCHANGED Compositor /\ UNCHANGED Copies

QmlRefreshes(kind) ==
    /\ changes < MaxChanges /\ changes' = changes + 1
    /\ Refresh(kind)
    /\ UNCHANGED <<applying, events, lost>> /\ UNCHANGED Compositor /\ UNCHANGED Copies

----------------------------------------------------------------------------
(* The compositor changes by itself and announces it. *)
Announce(kind) == events' = Append(events, Event(kind))

Reload(settings) ==
    /\ changes < MaxChanges /\ changes' = changes + 1
    /\ setting' = settings /\ Announce("options")
    /\ UNCHANGED <<plugged, refresh, applying, lost>> /\ UNCHANGED Copies

Plug(devices) ==
    /\ changes < MaxChanges /\ changes' = changes + 1
    /\ plugged' = devices /\ devices # plugged /\ Announce("devices")
    /\ UNCHANGED <<setting, refresh, applying, lost>> /\ UNCHANGED Copies

(* The compositor answers a request, the requests in any order. *)
Answer(kind) ==
    /\ refresh[kind] = <<"asked">>
    /\ refresh' = [refresh EXCEPT ![kind] =
                     <<"answered", IF kind = "options" THEN setting ELSE plugged>>]
    /\ UNCHANGED <<applying, events, changes, lost>> /\ UNCHANGED Compositor /\ UNCHANGED Copies

Apply(request) ==
    /\ request[1] = "asked"
    /\ setting' = [setting EXCEPT ![request[2]] = request[3]]
    /\ applying' = (applying \ {request}) \cup {<<"answered">>}
    /\ UNCHANGED <<plugged, refresh, events, changes, lost>> /\ UNCHANGED Copies

----------------------------------------------------------------------------
(* readEvent and handleEvent *)
ReadEvent ==
    /\ events # <<>> /\ events' = Tail(events)
    /\ \E kind \in Kinds : Head(events) = Event(kind) /\ Refresh(kind)
    /\ UNCHANGED <<applying, changes, lost>> /\ UNCHANGED Compositor /\ UNCHANGED Copies

(* The reply of a refreshOptions: values are put over those there are. *)
SetOptions(answer) == options' = answer /\ UNCHANGED keyboards

(* HyprDevices::updateLastIpcObject: keyboards that are gone are removed,  *)
(* those that stay are updated in place, the others come last.             *)
UpdateKeyboards(devices, fresh) ==
    LET kept == {i \in DOMAIN keyboards : keyboards[i][1] \in DOMAIN devices}
        old  == {keyboards[i][1] : i \in kept}
    IN  \E stay \in [1 .. Cardinality(kept) -> kept] :
          /\ ToSet(stay) = kept
          /\ \A i, j \in DOMAIN stay : i < j => stay[i] < stay[j]
          /\ ToSet(fresh) = DOMAIN devices \ old
          /\ keyboards' = [i \in DOMAIN stay |-> <<keyboards[stay[i]][1], devices[keyboards[stay[i]][1]]>>]
                          \o [i \in DOMAIN fresh |-> <<fresh[i], devices[fresh[i]]>>]

Told == told' = <<options', keyboards'>> \* optionsChanged and keyboardsChanged, if they did

(* A reply that comes in one part is taken; of one in two parts the first  *)
(* is no JSON and stands for a compositor without options and keyboards.   *)
Reply(kind, whole) ==
    /\ refresh[kind] # NoRequest /\ refresh[kind][1] = "answered"
    /\ refresh' = [refresh EXCEPT ![kind] = NoRequest]
    /\ IF kind = "options"
       THEN IF whole THEN SetOptions(refresh[kind][2]) ELSE UNCHANGED <<options, keyboards>>
       ELSE /\ UNCHANGED options
            /\ IF whole
               THEN \E fresh \in SetToSeqs(DOMAIN refresh[kind][2] \ {k[1] : k \in ToSet(keyboards)}) :
                       UpdateKeyboards(refresh[kind][2], fresh)
               ELSE keyboards' = <<>>
    /\ Told
    /\ lost' = IF whole THEN lost \ {kind} ELSE lost \cup {kind}
    /\ UNCHANGED <<applying, events, changes>> /\ UNCHANGED Compositor

(* errorOccurred on the socket of a refresh. *)
Fail(kind) ==
    /\ refresh[kind] # NoRequest
    /\ refresh' = [refresh EXCEPT ![kind] = NoRequest]
    /\ lost' = lost \cup {kind}
    /\ UNCHANGED <<applying, events, changes>> /\ UNCHANGED Compositor /\ UNCHANGED Copies

(* The reply of an applyOptions, or its error, which refreshes nothing. *)
Applied(request, ok) ==
    /\ request[1] = "answered" \/ ~ok
    /\ applying' = applying \ {request}
    /\ IF ok THEN Refresh("options") ELSE UNCHANGED refresh
    /\ lost' = IF ok \/ request[1] = "asked" THEN lost ELSE lost \cup {"applied"}
    /\ UNCHANGED <<events, changes>> /\ UNCHANGED Compositor /\ UNCHANGED Copies

Next ==
    \/ \E o \in Options, v \in Values : ApplyOptions(o, v)
    \/ \E k \in Kinds : QmlRefreshes(k) \/ Answer(k) \/ Fail(k) \/ \E whole \in BOOLEAN : Reply(k, whole)
    \/ \E s \in [Options -> Values] : Reload(s)
    \/ \E A \in SUBSET Addresses : \E d \in [A -> Values] : Plug(d)
    \/ \E r \in applying : Apply(r) \/ \E ok \in BOOLEAN : Applied(r, ok)
    \/ ReadEvent

Spec == Init /\ [][Next]_vars

----------------------------------------------------------------------------
(* Once nothing is on its way, the copy is what the compositor has,        *)
(* whatever changed while requests were, unless the last reply was lost or *)
(* cut; no keyboard is there twice; and QML was told of every change.      *)
CopyIsCurrent ==
    /\ \A i, j \in DOMAIN keyboards : keyboards[i][1] = keyboards[j][1] => i = j
    /\ told = <<options, keyboards>>
    /\ events = <<>> /\ applying = {} =>
          /\ refresh["options"] = NoRequest /\ lost \cap {"options", "applied"} = {} => options = setting
          /\ refresh["devices"] = NoRequest /\ "devices" \notin lost =>
                ToSet(keyboards) = {<<a, plugged[a]>> : a \in DOMAIN plugged}
=============================================================================
