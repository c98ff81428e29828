---------------------------- MODULE SharedServices ----------------------------
(***************************************************************************)
(* Service and ServiceRef, and the chain of services behind the visualiser *)
(* and the beat: a ServiceRef of QML refers to an AudioProvider, whose     *)
(* AudioProcessor lives on a thread of its own and refers to the one       *)
(* AudioCollector.  Each link is a message: the provider posts start and   *)
(* stop to its processor, the processor posts ref and unref to the         *)
(* collector on the GUI thread.                                            *)
(***************************************************************************)
EXTENDS Naturals, Sequences

CONSTANTS Refs,       \* ServiceRef objects of QML
          Providers,  \* AudioProviders, each with its processor
          NoService,  \* nullptr
          MaxPosted   \* bound: messages on their way

ASSUME ServicesAssumption == NoService \notin Providers /\ MaxPosted \in Nat

VARIABLES uses,       \* ServiceRef::m_service, and so Service::m_refs of the providers
          alive,      \* providers not yet destroyed
          toProcessor,\* start and stop on their way to each processor
          toCollector,\* ref and unref of each processor on their way to the collector
          polling,    \* processors whose timer runs
          refs,       \* m_refs of the collector
          running,    \* AudioCollector::m_thread is joinable
          freed       \* "no", or what came of a ref for a destroyed processor

vars == <<uses, alive, toProcessor, toCollector, polling, refs, running, freed>>

----------------------------------------------------------------------------
Users(p) == {r \in Refs : uses[r] = p}

Init ==
    /\ uses = [r \in Refs |-> NoService]
    /\ alive = Providers
    /\ toProcessor = [p \in Providers |-> <<>>]
    /\ toCollector = [p \in Providers |-> <<>>]
    /\ polling = {} /\ refs = {} /\ running = FALSE /\ freed = "no"

(* Mutant: every user that leaves stops the service. *)
SetServiceStops(r, s) ==
    /\ s \in alive \cup {NoService} /\ uses[r] # s
    /\ \A p \in Providers : Len(toProcessor[p]) < MaxPosted
    /\ uses' = [uses EXCEPT ![r] = s]
    /\ toProcessor' = [p \in Providers |->
          CASE p = s /\ Users(p) = {} -> Append(toProcessor[p], "start")
            [] p = uses[r]            -> Append(toProcessor[p], "stop")
            [] OTHER                  -> toProcessor[p]]
    /\ UNCHANGED <<alive, toCollector, polling, refs, running, freed>>

(* ServiceRef::setService, and the destruction of the ServiceRef (to       *)
(* NoService): the service it leaves stops without its last user, the one  *)
(* it comes to starts with its first.                                      *)
SetService(r, s) ==
    /\ s \in alive \cup {NoService} /\ uses[r] # s
    /\ \A p \in Providers : Len(toProcessor[p]) < MaxPosted
    /\ uses' = [uses EXCEPT ![r] = s]
    /\ toProcessor' = [p \in Providers |->
          CASE p = s /\ Users(p) = {}        -> Append(toProcessor[p], "start")
            [] p = uses[r] /\ Users(p) = {r} -> Append(toProcessor[p], "stop")
            [] OTHER                         -> toProcessor[p]]
    /\ UNCHANGED <<alive, toCollector, polling, refs, running, freed>>

(* AudioProcessor::start and stop, on the thread of the processor. *)
Process(p) ==
    /\ toProcessor[p] # <<>> /\ Len(toCollector[p]) < MaxPosted
    /\ LET starts == Head(toProcessor[p]) = "start"
       IN  /\ polling' = IF starts THEN polling \cup {p} ELSE polling \ {p}
           /\ toCollector' = [toCollector EXCEPT ![p] =
                                Append(@, IF starts THEN "ref" ELSE "unref")]
    /\ toProcessor' = [toProcessor EXCEPT ![p] = Tail(@)]
    /\ UNCHANGED <<uses, alive, refs, running, freed>>

(* Service::ref and unref of the collector: the first reference starts its *)
(* thread, the last one to go stops it.                                    *)
Ref(p) ==
    /\ p \in alive
    /\ toCollector[p] # <<>> /\ Head(toCollector[p]) = "ref"
    /\ toCollector' = [toCollector EXCEPT ![p] = Tail(@)]
    /\ refs' = refs \cup {p}
    /\ running' = IF refs = {} THEN TRUE ELSE running
    /\ UNCHANGED <<uses, alive, toProcessor, polling, freed>>

(* A queued ref names its processor by its address.  If the processor was  *)
(* destroyed before the ref is handled, QObject::connect is called on      *)
(* freed memory.  What it does is undefined: the process may end there, or *)
(* the memory still passes for an object and its address is kept.          *)
RefFreed(p) ==
    /\ p \notin alive
    /\ toCollector[p] # <<>> /\ Head(toCollector[p]) = "ref"
    /\ \/ /\ freed' = "touched"
          /\ toCollector' = [toCollector EXCEPT ![p] = Tail(@)]
          /\ refs' = refs \cup {p}
          /\ running' = IF refs = {} THEN TRUE ELSE running
       \/ /\ freed' = "crashed"
          /\ UNCHANGED <<toCollector, refs, running>>
    /\ UNCHANGED <<uses, alive, toProcessor, polling>>

(* Mutant: the thread stops with the first reference that goes. *)
UnrefEarly(p) ==
    /\ toCollector[p] # <<>> /\ Head(toCollector[p]) = "unref"
    /\ toCollector' = [toCollector EXCEPT ![p] = Tail(@)]
    /\ refs' = refs \ {p}
    /\ running' = IF p \in refs THEN FALSE ELSE running
    /\ UNCHANGED <<uses, alive, toProcessor, polling, freed>>

Unref(p) ==
    /\ toCollector[p] # <<>> /\ Head(toCollector[p]) = "unref"
    /\ toCollector' = [toCollector EXCEPT ![p] = Tail(@)]
    /\ refs' = refs \ {p}
    /\ running' = IF p \in refs /\ refs' = {} THEN FALSE ELSE running
    /\ UNCHANGED <<uses, alive, toProcessor, polling, freed>>

(* ~AudioProvider ends the thread of the processor, whatever it still had  *)
(* to do; the processor's destructor stops it, and its destroyed signal is *)
(* another unref once the collector knows it.  Nothing takes back the refs *)
(* of the processor that are still on their way (RefFreed).                *)
Destroy(p) ==
    /\ p \in alive
    /\ alive' = alive \ {p}
    /\ uses' = [r \in Refs |-> IF uses[r] = p THEN NoService ELSE uses[r]]
    /\ toProcessor' = [toProcessor EXCEPT ![p] = <<>>]
    /\ toCollector' = [toCollector EXCEPT ![p] =
                         @ \o (IF p \in refs THEN <<"unref", "unref">> ELSE <<"unref">>)]
    /\ polling' = polling \ {p}
    /\ UNCHANGED <<refs, running, freed>>

Next ==
    /\ freed # "crashed"
    /\ \/ \E r \in Refs, s \in Providers \cup {NoService} : SetService(r, s)
       \/ \E p \in Providers :
             Process(p) \/ Ref(p) \/ RefFreed(p) \/ Unref(p) \/ Destroy(p)

Spec == Init /\ [][Next]_vars

----------------------------------------------------------------------------
TypeOK ==
    /\ uses \in [Refs -> Providers \cup {NoService}]
    /\ alive \in SUBSET Providers
    /\ toProcessor \in [Providers -> Seq({"start", "stop"})]
    /\ toCollector \in [Providers -> Seq({"ref", "unref"})]
    /\ polling \in SUBSET Providers
    /\ refs \in SUBSET Providers
    /\ running \in BOOLEAN
    /\ freed \in {"no", "touched", "crashed"}

(* Once the messages are through, exactly the processors somebody uses     *)
(* poll and hold a reference: no provider keeps the microphone stream open *)
(* that nobody looks at, and none that is looked at is without it, however *)
(* often and fast users come and go.  A provider that was destroyed holds  *)
(* no reference either, but for one whose ref was still on its way: its    *)
(* handling is undefined, and nothing is claimed after it.  The loop       *)
(* thread of the collector exists as long as anybody refers to it.         *)
RefsFollowUsers ==
    freed = "no" =>
      /\ \A p \in Providers :
            toProcessor[p] = <<>> /\ toCollector[p] = <<>> =>
               /\ (p \in refs) = (Users(p) # {})
               /\ (p \in polling) = (Users(p) # {})
      /\ running = (refs # {})
=============================================================================
