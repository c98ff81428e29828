----------------------------- MODULE DeskProofs -----------------------------
(***************************************************************************)
(* What the services, the recorder, the lyrics, the lock and the list of a *)
(* run promise, for any number of users, providers and readers, any        *)
(* capacity and chunks, any tracks, any numbers of tries, and any rows,    *)
(* heights, viewports and batches.                                         *)
(***************************************************************************)
EXTENDS MCDesk, Sums, Integers, SequenceTheorems, FiniteSetTheorems,
        WellFoundedInduction, TLAPS

-----------------------------------------------------------------------------
(***************************************************************************)
(* The services, by themselves.  A service follows its users with a delay, *)
(* so the invariant says it of the last message of each channel: it is the *)
(* one that brings the receiver to where the sender is, and an empty       *)
(* channel means that the receiver is there.                               *)
(***************************************************************************)
LastOf(s) == s[Len(s)]

(* start and stop, up to the last user that came or went. *)
ProcessorFollows(p) ==
    IF toProcessor[p] = <<>>
    THEN p \in polling <=> Users(p) # {}
    ELSE LastOf(toProcessor[p]) = "start" <=> Users(p) # {}

(* ref and unref, up to the last message the processor worked off. *)
CollectorFollows(p) ==
    IF toCollector[p] = <<>>
    THEN p \in refs <=> p \in polling
    ELSE LastOf(toCollector[p]) = "ref" <=> p \in polling

ServiceInv ==
    /\ TypeOK
    /\ \A p \in Providers : ProcessorFollows(p) /\ CollectorFollows(p)
    /\ running <=> refs # {}

----------------------------------------------------------------------------
(* The last message of a channel is the one appended last, and stays the   *)
(* last until it is taken.                                                 *)
LEMMA LastOfAppend ==
  ASSUME NEW S, NEW s \in Seq(S), NEW e \in S
  PROVE  Append(s, e) \in Seq(S) /\ Append(s, e) # <<>> /\ LastOf(Append(s, e)) = e
BY DEF LastOf

LEMMA LastOfTail ==
  ASSUME NEW S, NEW s \in Seq(S), s # <<>>
  PROVE  /\ Tail(s) \in Seq(S)
         /\ Tail(s) = <<>> => LastOf(s) = Head(s)
         /\ Tail(s) # <<>> => LastOf(Tail(s)) = LastOf(s)
<1>1. /\ Tail(s) \in Seq(S) /\ Len(Tail(s)) = Len(s) - 1
      /\ \A i \in 1 .. Len(Tail(s)) : Tail(s)[i] = s[i+1]
  BY HeadTailProperties
<1>2. Len(s) \in Nat \ {0} /\ (Tail(s) # <<>> => Len(Tail(s)) \in Nat \ {0})
  BY <1>1, EmptySeq
<1>3. CASE Tail(s) = <<>>
  <2>1. Len(Tail(s)) = 0
    BY <1>3, EmptySeq
  <2>2. Len(s) = 1
    <3>1. Len(Tail(s)) = Len(s) - 1 /\ Len(s) \in Nat
      BY <1>1, <1>2
    <3> DEFINE n == Len(s)
               m == Len(Tail(s))
    <3>2. m = n - 1 /\ m = 0 /\ n \in Nat
      BY <2>1, <3>1
    <3> HIDE DEF n, m
    <3>3. n = 1
      BY <3>2
    <3> QED BY <3>3 DEF n
  <2> QED BY <1>1, <1>3, <2>2 DEF LastOf
<1>4. CASE Tail(s) # <<>>
  BY <1>1, <1>2, <1>4 DEF LastOf
<1> QED BY <1>1, <1>3, <1>4

LEMMA LastOfConcat ==
  ASSUME NEW S, NEW s \in Seq(S), NEW t \in Seq(S), t # <<>>
  PROVE  s \o t \in Seq(S) /\ s \o t # <<>> /\ LastOf(s \o t) = LastOf(t)
BY DEF LastOf

----------------------------------------------------------------------------
LEMMA ServicesInit == Init => ServiceInv
<1> SUFFICES ASSUME Init PROVE ServiceInv OBVIOUS
<1>1. TypeOK
  BY EmptySeq DEF Init, TypeOK
<1>2. \A p \in Providers : Users(p) = {}
  BY ServicesAssumption DEF Init, Users
<1>3. \A p \in Providers : ProcessorFollows(p) /\ CollectorFollows(p)
  BY <1>2 DEF Init, ProcessorFollows, CollectorFollows
<1> QED BY <1>1, <1>3 DEF Init, ServiceInv

(* A provider that gets its first user is told to start, one that loses    *)
(* its last user to stop; the others keep or lack users as before.         *)
LEMMA SetServiceKeeps ==
  ASSUME ServiceInv, NEW r \in Refs, NEW s \in Providers \cup {NoService}, SetService(r, s)
  PROVE  ServiceInv'
<1> USE DEF ServiceInv, SetService
<1>1. ASSUME NEW p \in Providers
      PROVE  /\ p = s => Users(p)' # {}
             /\ p = uses[r] /\ Users(p) = {r} => Users(p)' = {}
             /\ p = uses[r] /\ Users(p) # {r} => Users(p)' # {} /\ Users(p) # {}
             /\ p # s /\ p # uses[r] => Users(p)' = Users(p)
  <2>1. uses' = [uses EXCEPT ![r] = s] /\ uses \in [Refs -> Providers \cup {NoService}] /\ uses[r] # s
    BY DEF TypeOK
  <2> HIDE DEF ServiceInv, SetService
  <2> QED BY <2>1 DEF Users
<1>2. \A p \in Providers : toProcessor'[p] =
        CASE p = s /\ Users(p) = {}        -> Append(toProcessor[p], "start")
          [] p = uses[r] /\ Users(p) = {r} -> Append(toProcessor[p], "stop")
          [] OTHER                         -> toProcessor[p]
  OBVIOUS
<1>3. \A p \in Providers : toProcessor[p] \in Seq({"start", "stop"})
  BY DEF TypeOK
<1>4. uses[r] # s /\ UNCHANGED <<toCollector, polling, refs, running, freed>>
  OBVIOUS
<1>5. ASSUME NEW p \in Providers
      PROVE  toProcessor'[p] \in Seq({"start", "stop"}) /\ ProcessorFollows(p)'
  <2>1. CASE p = s /\ Users(p) = {}
    <3>1. toProcessor'[p] = Append(toProcessor[p], "start")
      BY <1>2, <2>1
    <3> QED BY <1>1, <1>3, <2>1, <3>1, LastOfAppend DEF ProcessorFollows
  <2>2. CASE p = uses[r] /\ Users(p) = {r}
    <3>1. toProcessor'[p] = Append(toProcessor[p], "stop")
      BY <1>2, <1>4, <2>2
    <3>2. /\ toProcessor'[p] \in Seq({"start", "stop"}) /\ toProcessor'[p] # <<>>
          /\ LastOf(toProcessor'[p]) = "stop"
      BY <1>3, <3>1, LastOfAppend
    <3> QED BY <1>1, <2>2, <3>2 DEF ProcessorFollows
  <2>3. CASE ~(p = s /\ Users(p) = {}) /\ ~(p = uses[r] /\ Users(p) = {r})
    <3>1. toProcessor'[p] = toProcessor[p]
      BY <1>2, <2>3
    <3>2. Users(p)' = {} <=> Users(p) = {}
      BY <1>1, <2>3
    <3> QED BY <1>3, <1>4, <3>1, <3>2 DEF ProcessorFollows
  <2> QED BY <2>1, <2>2, <2>3
<1>6. TypeOK'
  <2>1. toProcessor' \in [Providers -> Seq({"start", "stop"})]
    BY <1>5
  <2> QED BY <2>1 DEF TypeOK
<1> QED BY <1>4, <1>5, <1>6 DEF CollectorFollows

(* What the processor takes from one channel it passes on in the other. *)
LEMMA ProcessKeeps ==
  ASSUME ServiceInv, NEW p \in Providers, Process(p)
  PROVE  ServiceInv'
<1> DEFINE starts == Head(toProcessor[p]) = "start"
           answer == IF starts THEN "ref" ELSE "unref"
<1>1. /\ toProcessor[p] # <<>> /\ toProcessor[p] \in Seq({"start", "stop"})
      /\ toCollector[p] \in Seq({"ref", "unref"}) /\ answer \in {"ref", "unref"}
      /\ polling' = IF starts THEN polling \cup {p} ELSE polling \ {p}
      /\ UNCHANGED <<uses, alive, refs, running, freed>>
  BY DEF ServiceInv, TypeOK, Process
<1>2. \A q \in Providers :
        /\ toCollector'[q] = IF q = p THEN Append(toCollector[p], answer) ELSE toCollector[q]
        /\ toProcessor'[q] = IF q = p THEN Tail(toProcessor[p]) ELSE toProcessor[q]
  BY DEF ServiceInv, TypeOK, Process
<1>3. TypeOK'
  <2>1. toCollector' \in [Providers -> Seq({"ref", "unref"})]
    BY <1>1, LastOfAppend DEF ServiceInv, TypeOK, Process
  <2>2. toProcessor' \in [Providers -> Seq({"start", "stop"})]
    BY <1>1, LastOfTail DEF ServiceInv, TypeOK, Process
  <2> QED BY <1>1, <2>1, <2>2 DEF ServiceInv, TypeOK
<1>4. ProcessorFollows(p)'
  <2>1. /\ Tail(toProcessor[p]) = <<>> => LastOf(toProcessor[p]) = Head(toProcessor[p])
        /\ Tail(toProcessor[p]) # <<>> => LastOf(Tail(toProcessor[p])) = LastOf(toProcessor[p])
    BY <1>1, LastOfTail
  <2>2. LastOf(toProcessor[p]) = "start" <=> Users(p) # {}
    BY <1>1 DEF ServiceInv, ProcessorFollows
  <2>3. Users(p)' = Users(p)
    BY <1>1 DEF Users
  <2> QED BY <1>1, <1>2, <2>1, <2>2, <2>3 DEF ProcessorFollows
<1>5. CollectorFollows(p)'
  BY <1>1, <1>2, LastOfAppend DEF CollectorFollows
<1>6. ASSUME NEW q \in Providers, q # p
      PROVE  ProcessorFollows(q)' /\ CollectorFollows(q)'
  BY <1>1, <1>2, <1>6 DEF ServiceInv, ProcessorFollows, CollectorFollows, Users
<1> QED BY <1>1, <1>3, <1>4, <1>5, <1>6 DEF ServiceInv

(* The collector takes a message: the set of its references changes as the *)
(* message says.                                                           *)
LEMMA CollectorKeeps ==
  ASSUME ServiceInv, NEW p \in Providers, Ref(p) \/ RefFreed(p) \/ Unref(p), freed' # "crashed"
  PROVE  ServiceInv'
<1>1. /\ toCollector[p] # <<>> /\ toCollector[p] \in Seq({"ref", "unref"})
      /\ toCollector' = [toCollector EXCEPT ![p] = Tail(@)]
      /\ refs' = IF Head(toCollector[p]) = "ref" THEN refs \cup {p} ELSE refs \ {p}
      /\ freed' \in {"no", "touched", "crashed"}
      /\ UNCHANGED <<uses, alive, toProcessor, polling>>
  BY DEF ServiceInv, TypeOK, Ref, RefFreed, Unref
<1>2. running' \in BOOLEAN /\ (running' <=> refs' # {})
  BY DEF ServiceInv, TypeOK, Ref, RefFreed, Unref
<1>3. \A q \in Providers :
        toCollector'[q] = IF q = p THEN Tail(toCollector[p]) ELSE toCollector[q]
  BY <1>1 DEF ServiceInv, TypeOK
<1>4. TypeOK'
  <2>1. toCollector' \in [Providers -> Seq({"ref", "unref"})]
    BY <1>1, LastOfTail DEF ServiceInv, TypeOK
  <2> QED BY <1>1, <1>2, <2>1 DEF ServiceInv, TypeOK
<1>5. CollectorFollows(p)'
  <2>1. /\ Tail(toCollector[p]) = <<>> => LastOf(toCollector[p]) = Head(toCollector[p])
        /\ Tail(toCollector[p]) # <<>> => LastOf(Tail(toCollector[p])) = LastOf(toCollector[p])
    BY <1>1, LastOfTail
  <2>2. LastOf(toCollector[p]) = "ref" <=> p \in polling
    BY <1>1 DEF ServiceInv, CollectorFollows
  <2> QED BY <1>1, <1>3, <2>1, <2>2 DEF CollectorFollows
<1>6. ASSUME NEW q \in Providers, q # p
      PROVE  CollectorFollows(q)'
  BY <1>1, <1>3, <1>6 DEF ServiceInv, CollectorFollows
<1>7. ASSUME NEW q \in Providers
      PROVE  ProcessorFollows(q)'
  BY <1>1 DEF ServiceInv, ProcessorFollows, Users
<1> QED BY <1>2, <1>4, <1>5, <1>6, <1>7 DEF ServiceInv

(* If the process ends in the handling of a ref, all stays as it was.      *)
LEMMA CrashKeeps ==
  ASSUME ServiceInv, NEW p \in Providers, RefFreed(p), freed' = "crashed"
  PROVE  ServiceInv'
BY DEF ServiceInv, TypeOK, RefFreed, ProcessorFollows, CollectorFollows, Users

(* A provider that is destroyed has no users, and its last message is an   *)
(* unref.                                                                  *)
LEMMA DestroyKeeps ==
  ASSUME ServiceInv, NEW p \in Providers, Destroy(p)
  PROVE  ServiceInv'
<1> DEFINE goes == IF p \in refs THEN <<"unref", "unref">> ELSE <<"unref">>
<1>1. /\ goes \in Seq({"ref", "unref"}) /\ goes # <<>> /\ LastOf(goes) = "unref"
      /\ toCollector[p] \in Seq({"ref", "unref"})
  <2>1. /\ <<"unref", "unref">> \in Seq({"ref", "unref"}) /\ <<"unref">> \in Seq({"ref", "unref"})
        /\ LastOf(<<"unref", "unref">>) = "unref" /\ LastOf(<<"unref">>) = "unref"
        /\ <<"unref", "unref">> # <<>> /\ <<"unref">> # <<>>
    BY DEF LastOf
  <2>2. goes = <<"unref", "unref">> \/ goes = <<"unref">>
    OBVIOUS
  <2>3. toCollector[p] \in Seq({"ref", "unref"})
    BY DEF ServiceInv, TypeOK
  <2> HIDE DEF goes
  <2> QED BY <2>1, <2>2, <2>3
<1>2. /\ uses' = [x \in Refs |-> IF uses[x] = p THEN NoService ELSE uses[x]]
      /\ polling' = polling \ {p} /\ alive' = alive \ {p}
      /\ toProcessor' = [toProcessor EXCEPT ![p] = <<>>]
      /\ toCollector' = [toCollector EXCEPT ![p] = @ \o goes]
      /\ UNCHANGED <<refs, running, freed>>
  BY DEF Destroy
<1> HIDE DEF goes
<1>3. \A q \in Providers :
        /\ toProcessor'[q] = IF q = p THEN <<>> ELSE toProcessor[q]
        /\ toCollector'[q] = IF q = p THEN toCollector[p] \o goes ELSE toCollector[q]
  BY <1>2 DEF ServiceInv, TypeOK
<1>4. /\ toCollector[p] \o goes \in Seq({"ref", "unref"}) /\ toCollector[p] \o goes # <<>>
      /\ LastOf(toCollector[p] \o goes) = "unref"
  BY <1>1, LastOfConcat
<1>5. TypeOK'
  <2>1. toCollector' \in [Providers -> Seq({"ref", "unref"})]
    BY <1>2, <1>4 DEF ServiceInv, TypeOK
  <2>2. toProcessor' \in [Providers -> Seq({"start", "stop"})]
    BY <1>2 DEF ServiceInv, TypeOK
  <2>3. uses' \in [Refs -> Providers \cup {NoService}]
    BY <1>2 DEF ServiceInv, TypeOK
  <2> QED BY <1>2, <2>1, <2>2, <2>3 DEF ServiceInv, TypeOK
<1>6. ProcessorFollows(p)' /\ CollectorFollows(p)'
  <2>1. Users(p)' = {}
    BY <1>2, ServicesAssumption DEF Users
  <2> QED BY <1>2, <1>3, <1>4, <2>1 DEF ProcessorFollows, CollectorFollows
<1>7. ASSUME NEW q \in Providers, q # p
      PROVE  ProcessorFollows(q)' /\ CollectorFollows(q)'
  <2>1. Users(q)' = Users(q)
    BY <1>2, <1>7, ServicesAssumption DEF Users
  <2> QED BY <1>2, <1>3, <1>7, <2>1 DEF ServiceInv, ProcessorFollows, CollectorFollows
<1> QED BY <1>2, <1>5, <1>6, <1>7 DEF ServiceInv

LEMMA ServicesStep == ServiceInv /\ [Next]_vars => ServiceInv'
<1> SUFFICES ASSUME ServiceInv, [Next]_vars PROVE ServiceInv' OBVIOUS
<1>1. CASE UNCHANGED vars
  BY <1>1 DEF vars, ServiceInv, TypeOK, ProcessorFollows, CollectorFollows, Users
<1>2. CASE Next
  <2>1. ASSUME NEW p \in Providers, Ref(p) \/ Unref(p) PROVE freed' # "crashed"
    BY <1>2, <2>1 DEF Next, Ref, Unref
  <2>2. ASSUME NEW p \in Providers, RefFreed(p) PROVE ServiceInv'
    BY <2>2, CollectorKeeps, CrashKeeps
  <2> QED BY <1>2, <2>1, <2>2, SetServiceKeeps, ProcessKeeps, CollectorKeeps, DestroyKeeps DEF Next
<1> QED BY <1>1, <1>2

LEMMA FollowsFromInv == ServiceInv => RefsFollowUsers
<1> SUFFICES ASSUME ServiceInv PROVE RefsFollowUsers OBVIOUS
<1>1. ASSUME NEW p \in Providers, toProcessor[p] = <<>>, toCollector[p] = <<>>
      PROVE  (p \in refs) = (Users(p) # {}) /\ (p \in polling) = (Users(p) # {})
  BY <1>1 DEF ServiceInv, ProcessorFollows, CollectorFollows
<1>2. running = (refs # {})
  BY DEF ServiceInv, TypeOK
<1> QED BY <1>1, <1>2 DEF RefsFollowUsers

----------------------------------------------------------------------------
(* The types of the services, their channels and the collector. *)
THEOREM ServiceTypesHold == Spec => []TypeOK
<1>1. ServiceInv => TypeOK
  BY DEF ServiceInv
<1> QED BY <1>1, ServicesInit, ServicesStep, PTL DEF Spec

(* Once the messages are through, exactly the processors somebody uses     *)
(* poll and hold a reference, and the collector runs as long as anybody    *)
(* refers to it: ServiceRef::setService, Service::ref and unref, and the   *)
(* start, stop and destruction of an AudioProcessor.  Nothing is claimed   *)
(* once Service::ref was called for a processor that was destroyed.        *)
THEOREM ReferencesFollowUsers == Spec => []RefsFollowUsers
  BY ServicesInit, ServicesStep, FollowsFromInv, PTL DEF Spec

-----------------------------------------------------------------------------
(***************************************************************************)
(* Whichever component runs, each of them keeps to its specification.      *)
(***************************************************************************)
LEMMA EachKeepsItsSpec ==
  DeskSpec => Audio!Spec /\ Words!Spec /\ Lock!Spec
<1>1. DeskInit => Audio!Init /\ Words!Init /\ Lock!Init
  BY DEF DeskInit
<1>2. [DeskNext]_deskVars => /\ [Audio!Next]_Audio!vars
                             /\ [Words!Next]_Words!vars
                             /\ [Lock!Next]_Lock!vars
  <2>1. DeskNext => /\ Audio!Next \/ UNCHANGED audioVars
                    /\ Words!Next \/ UNCHANGED lrcVars
                    /\ Lock!Next \/ UNCHANGED pamVars
    BY DEF DeskNext
  <2>2. UNCHANGED deskVars => UNCHANGED <<audioVars, lrcVars, pamVars>>
    BY DEF deskVars
  <2>3. UNCHANGED audioVars => UNCHANGED Audio!vars
    BY DEF audioVars, Audio!vars, Audio!buffers, Audio!worker, Audio!gui, Audio!bounds
  <2>4. UNCHANGED lrcVars => UNCHANGED Words!vars
    BY DEF lrcVars, Words!vars
  <2>5. UNCHANGED pamVars => UNCHANGED Lock!vars
    BY DEF pamVars, Lock!vars
  <2> QED BY <2>1, <2>2, <2>3, <2>4, <2>5
<1> QED BY <1>1, <1>2, PTL DEF DeskSpec, Audio!Spec, Words!Spec, Lock!Spec

-----------------------------------------------------------------------------
(***************************************************************************)
(* The lock.  What the lock screen says of a method is inductive as it     *)
(* stands, but for the types.                                              *)
(***************************************************************************)
Contexts ==
  [enabled : BOOLEAN, available : BOOLEAN, checking : BOOLEAN, active : BOOLEAN,
   tries : Nat, errors : Nat, state : {"none", "error", "failed", "max"}, retry : BOOLEAN, reset : BOOLEAN]

LockType ==
  /\ pamSecure \in BOOLEAN /\ pamUnlocking \in BOOLEAN /\ pamGaveUp \in BOOLEAN
  /\ pamPassword \in BOOLEAN
  /\ pamCtx \in [Lock!Methods -> Contexts]

LockInv == LockType /\ Lock!StateTellsTries /\ Lock!ReaderListens

\* What StateTellsTries says of one method whose context is c.
Tells(method, c) ==
  /\ c.state = "max" <=> c.tries >= MaxTries[method]
  /\ c.tries <= MaxTries[method]
  /\ c.active => c.tries < MaxTries[method]

LEMMA SomeTries ==
  ASSUME NEW method \in Lock!Methods
  PROVE  MaxTries[method] \in Nat \ {0}
BY TriesAssumption DEF Lock!Methods

\* A reset leaves nothing tried; a message that is cleared was not "max".
LEMMA ResetTells ==
  ASSUME NEW method \in Lock!Methods, NEW c \in Contexts
  PROVE  /\ Lock!Reset(c) \in Contexts
         /\ Lock!Reset(c) = [c EXCEPT !.tries = 0, !.errors = 0, !.state = "none"]
         /\ Tells(method, Lock!Reset(c))
<1>1. Lock!Reset(c) = [c EXCEPT !.tries = 0, !.errors = 0, !.state = "none"]
  BY DEF Lock!Reset
<1>2. [c EXCEPT !.tries = 0, !.errors = 0, !.state = "none"] \in Contexts
  <2>1. 0 \in Nat
    OBVIOUS
  <2> QED BY Zenon, <2>1 DEF Contexts
<1>3. Lock!Reset(c).tries = 0 /\ Lock!Reset(c).state = "none"
  BY <1>1 DEF Contexts
<1>4. Tells(method, Lock!Reset(c))
  BY <1>3, SomeTries DEF Tells
<1> QED BY <1>1, <1>2, <1>4

LEMMA RestartTells ==
  ASSUME NEW c \in Contexts, NEW sec \in BOOLEAN
  PROVE  /\ Lock!RestartFprint(c, sec) \in Contexts
         /\ Tells("fprint", Lock!RestartFprint(c, sec))
         /\ Lock!RestartFprint(c, sec).active
               = Lock!CanAttempt("fprint", Lock!RestartFprint(c, sec), sec)
<1> DEFINE fresh == Lock!Reset(c)
           again == Lock!RestartFprint(c, sec)
<1>1. "fprint" \in Lock!Methods
  BY DEF Lock!Methods
<1>2. fresh \in Contexts /\ Tells("fprint", fresh) /\ fresh.tries = 0 /\ fresh.state = "none"
  <2>1. fresh = [c EXCEPT !.tries = 0, !.errors = 0, !.state = "none"]
    BY <1>1, ResetTells
  <2> QED BY <1>1, <2>1, ResetTells DEF Contexts
<1>3. again = [fresh EXCEPT !.active = Lock!CanAttempt("fprint", fresh, sec)]
  BY DEF Lock!RestartFprint
<1>4. Lock!CanAttempt("fprint", fresh, sec) \in BOOLEAN
  BY DEF Lock!CanAttempt
<1> HIDE DEF fresh, again
<1>5. again \in Contexts /\ again.tries = 0 /\ again.state = "none"
      /\ again.active = Lock!CanAttempt("fprint", fresh, sec)
      /\ again.available = fresh.available /\ again.enabled = fresh.enabled
  BY <1>2, <1>3, <1>4 DEF Contexts
<1>6. Lock!CanAttempt("fprint", again, sec) = Lock!CanAttempt("fprint", fresh, sec)
  BY <1>2, <1>5 DEF Lock!CanAttempt
<1>7. Tells("fprint", again)
  BY <1>1, <1>5, SomeTries DEF Tells
<1> QED BY <1>5, <1>6, <1>7 DEF again

LEMMA LockInit == Lock!Init => LockInv
<1> SUFFICES ASSUME Lock!Init PROVE LockInv
  OBVIOUS
<1>1. \A method \in Lock!Methods : /\ pamCtx[method] \in Contexts
                                   /\ pamCtx[method].tries = 0 /\ pamCtx[method].state = "none"
                                   /\ ~pamCtx[method].active
  BY DEF Lock!Init, Lock!Context, Contexts
<1>2. LockType
  BY <1>1 DEF Lock!Init, LockType
<1>3. \A method \in Lock!Methods :
        (pamCtx[method].state = "max") = (pamCtx[method].tries >= MaxTries[method])
  BY <1>1, SomeTries
<1>4. Lock!StateTellsTries
  BY <1>1, <1>3, SomeTries DEF Lock!Init, Lock!StateTellsTries
<1> QED BY <1>2, <1>4 DEF Lock!Init, LockInv, Lock!ReaderListens

LEMMA LockStep ==
  ASSUME LockInv, [Lock!Next]_Lock!vars
  PROVE  LockInv'
<1> USE DEF LockInv
<1>0. \A method \in Lock!Methods \ pamBlind : Tells(method, pamCtx[method])
  BY DEF Lock!StateTellsTries, Tells
<1>1. ASSUME pamCtx' \in [Lock!Methods -> Contexts],
             \A method \in Lock!Methods \ pamBlind' : Tells(method, pamCtx'[method]),
             pamPassword' => pamShown' # "max"
      PROVE  Lock!StateTellsTries'
  BY <1>1 DEF Lock!StateTellsTries, Tells
\* ReaderListens looks at the fingerprint alone.
<1>2. ASSUME pamSecure' = pamSecure, pamUnlocking' = pamUnlocking, pamGaveUp' = pamGaveUp,
             pamCtx'["fprint"].available = pamCtx["fprint"].available,
             pamCtx'["fprint"].enabled = pamCtx["fprint"].enabled,
             pamCtx'["fprint"].tries = pamCtx["fprint"].tries,
             pamCtx'["fprint"].retry = pamCtx["fprint"].retry,
             pamCtx'["fprint"].checking = pamCtx["fprint"].checking,
             pamCtx'["fprint"].active = pamCtx["fprint"].active
      PROVE  Lock!ReaderListens'
  BY <1>2 DEF Lock!ReaderListens, Lock!CanAttempt
\* Once the lock is to be released, it does not matter.
<1>3. ASSUME ~pamSecure' \/ pamUnlocking'
      PROVE  Lock!ReaderListens'
  BY <1>3 DEF Lock!ReaderListens
<1>4. ASSUME Lock!Unlocked(pamCtx), pamSecure' = pamSecure, pamBlind' = pamBlind, pamGaveUp' = pamGaveUp
      PROVE  LockInv'
  <2>1. /\ pamCtx' = [method \in Lock!Methods |-> [pamCtx[method] EXCEPT !.active = FALSE]]
        /\ pamUnlocking' = pamSecure /\ pamPassword' = FALSE
    BY <1>4 DEF Lock!Unlocked
  <2>2. \A method \in Lock!Methods : [pamCtx[method] EXCEPT !.active = FALSE] \in Contexts
    BY DEF LockType, Contexts
  <2>3. \A method \in Lock!Methods \ pamBlind : Tells(method, pamCtx'[method])
    BY <1>0, <2>1 DEF Tells, LockType, Contexts
  <2> QED BY <1>1, <1>3, <1>4, <2>1, <2>2, <2>3 DEF LockType
<1>5. CASE Lock!Lock
  <2>1. ASSUME NEW method \in Lock!Methods
        PROVE  /\ pamCtx'[method] \in Contexts /\ pamCtx'[method].checking
               /\ Tells(method, pamCtx'[method])
    <3>1. pamCtx'[method] = [Lock!Reset(pamCtx[method]) EXCEPT !.checking = TRUE]
      BY <1>5 DEF Lock!Lock
    <3>2. Lock!Reset(pamCtx[method]) \in Contexts /\ Tells(method, Lock!Reset(pamCtx[method]))
      BY ResetTells DEF LockType
    <3> QED BY <3>1, <3>2 DEF Contexts, Tells
  <2>2. "fprint" \in Lock!Methods
    BY DEF Lock!Methods
  <2> QED BY <1>5, <1>1, <2>1, <2>2 DEF Lock!Lock, LockType, Lock!ReaderListens
<1>6. CASE Lock!Release
  BY <1>1, <1>3, <1>0, <1>6 DEF Lock!Release, LockType, Lock!StateTellsTries
<1>7. CASE Lock!UnlockCommand
  BY <1>4, <1>7 DEF Lock!UnlockCommand
\* One method changes, and the rest stays.
<1>8. ASSUME NEW method \in Lock!Methods, NEW c \in Contexts, pamCtx' = [pamCtx EXCEPT ![method] = c],
             pamBlind \subseteq pamBlind', method \notin pamBlind' => Tells(method, c)
      PROVE  /\ pamCtx' \in [Lock!Methods -> Contexts]
             /\ \A other \in Lock!Methods \ pamBlind' : Tells(other, pamCtx'[other])
             /\ pamCtx'[method] = c
             /\ \A other \in Lock!Methods : other # method => pamCtx'[other] = pamCtx[other]
  BY <1>0, <1>8 DEF LockType
<1>9. "fprint" \in Lock!Methods /\ "howdy" \in Lock!Methods
  BY DEF Lock!Methods
\* clearStates
<1>10. \A method \in Lock!Methods :
         /\ Lock!ClearedStates[method] = [pamCtx[method] EXCEPT !.state = Lock!ClearState(@)]
         /\ Lock!ClearedStates[method] \in Contexts
         /\ method \notin pamBlind => Tells(method, Lock!ClearedStates[method])
  <2> TAKE method \in Lock!Methods
  <2> DEFINE c == pamCtx[method]
  <2>1. Lock!ClearedStates[method] = [c EXCEPT !.state = Lock!ClearState(c.state)]
    BY DEF Lock!ClearedStates
  <2>2. c \in Contexts /\ (method \notin pamBlind => Tells(method, c))
    BY <1>0 DEF LockType
  <2>3. /\ Lock!ClearState(c.state) \in {"none", "error", "failed", "max"}
        /\ Lock!ClearState(c.state) = "max" <=> c.state = "max"
    BY <2>2 DEF Lock!ClearState, Contexts
  <2> HIDE DEF c
  <2>4. Lock!ClearedStates[method] \in Contexts
    BY <2>1, <2>2, <2>3 DEF Contexts
  <2>5. Tells(method, c) => Tells(method, Lock!ClearedStates[method])
    BY <2>1, <2>2, <2>3 DEF Tells, Contexts
  <2> QED BY <2>1, <2>2, <2>4, <2>5 DEF c
<1>11. \A method \in Lock!Methods :
         /\ Lock!ClearedStates[method].enabled = pamCtx[method].enabled
         /\ Lock!ClearedStates[method].available = pamCtx[method].available
         /\ Lock!ClearedStates[method].checking = pamCtx[method].checking
         /\ Lock!ClearedStates[method].active = pamCtx[method].active
         /\ Lock!ClearedStates[method].tries = pamCtx[method].tries
         /\ Lock!ClearedStates[method].errors = pamCtx[method].errors
         /\ Lock!ClearedStates[method].retry = pamCtx[method].retry
  BY <1>10, ZenonT(30) DEF Contexts, LockType
<1>12. Lock!ClearedStates \in [Lock!Methods -> Contexts]
  BY <1>10 DEF Lock!ClearedStates
<1>13. CASE Lock!PasswordCompleted
  <2>1. CASE Lock!Unlocked(pamCtx)
    BY <1>4, <1>13, <2>1 DEF Lock!PasswordCompleted
  <2>2. CASE pamCtx' = Lock!ClearedStates /\ pamPassword' = FALSE /\ UNCHANGED pamUnlocking
    BY <1>1, <1>2, <1>9, <1>10, <1>11, <1>12, <1>13, <2>2 DEF Lock!PasswordCompleted, LockType
  <2> QED BY <1>13, <2>1, <2>2 DEF Lock!PasswordCompleted
<1>14. CASE Lock!PwdStateReset
  BY <1>0, <1>1, <1>2, <1>14 DEF Lock!PwdStateReset, LockType, Lock!ClearState, Lock!StateTellsTries
<1>15. CASE Lock!Resume
  <2> DEFINE c == [pamCtx["howdy"] EXCEPT !.active = TRUE]
  <2>1. c \in Contexts
    BY <1>9 DEF LockType, Contexts
  <2>2. pamCtx["howdy"].tries < MaxTries["howdy"]
    BY <1>15 DEF Lock!Resume, Lock!CanAttempt
  <2>3. "howdy" \notin pamBlind => Tells("howdy", c)
    BY <1>0, <1>9, <2>2 DEF Tells, LockType, Contexts
  <2>4. pamCtx' = [pamCtx EXCEPT !["howdy"] = c] /\ pamBlind' = pamBlind
    BY <1>15 DEF Lock!Resume
  <2> HIDE DEF c
  <2> QED BY <1>1, <1>2, <1>8, <1>9, <1>15, <2>1, <2>3, <2>4
          DEF Lock!Resume, LockType, Lock!StateTellsTries
<1>16. ASSUME NEW empty \in BOOLEAN, Lock!Enter(empty)
       PROVE  LockInv'
  <2>1. ASSUME NEW active \in BOOLEAN, pamCtx' = [pamCtx EXCEPT !["howdy"].active = active],
               active => pamCtx["howdy"].tries < MaxTries["howdy"],
               pamPassword' \in BOOLEAN, pamPassword' => pamShown # "max"
        PROVE  LockInv'
    <3> DEFINE c == [pamCtx["howdy"] EXCEPT !.active = active]
    <3>1. c \in Contexts
      BY <1>9 DEF LockType, Contexts
    <3>2. "howdy" \notin pamBlind => Tells("howdy", c)
      BY <1>0, <1>9, <2>1 DEF Tells, LockType, Contexts
    <3>3. pamCtx' = [pamCtx EXCEPT !["howdy"] = c] /\ pamBlind' = pamBlind
      BY <1>16, <2>1 DEF Lock!Enter
    <3> HIDE DEF c
    <3> QED BY <1>1, <1>2, <1>8, <1>9, <1>16, <2>1, <3>1, <3>2, <3>3 DEF Lock!Enter, LockType
  <2>2. CASE pamCtx' = [pamCtx EXCEPT !["howdy"].active = TRUE] /\ UNCHANGED pamPassword
               /\ Lock!CanAttempt("howdy", pamCtx["howdy"], pamSecure)
    <3>1. pamPassword => pamShown # "max"
      BY DEF Lock!StateTellsTries
    <3> QED BY <2>1, <2>2, <3>1 DEF Lock!CanAttempt, LockType
  <2>3. CASE pamCtx' = [pamCtx EXCEPT !["howdy"].active = FALSE] /\ pamPassword' = TRUE
               /\ pamShown # "max"
    BY <2>1, <2>3
  <2> QED BY <1>16, <2>2, <2>3 DEF Lock!Enter
\* restartFprint, whatever changed before it
<1>17. ASSUME NEW c \in Contexts,
              pamCtx' = [pamCtx EXCEPT !["fprint"] = Lock!RestartFprint(c, pamSecure)],
              pamGaveUp' = FALSE,
              UNCHANGED <<pamSecure, pamUnlocking, pamPassword, pamShown, pamBlind>>
       PROVE  LockInv'
  <2> DEFINE again == Lock!RestartFprint(c, pamSecure)
  <2>1. /\ again \in Contexts /\ Tells("fprint", again)
        /\ again.active = Lock!CanAttempt("fprint", again, pamSecure)
    BY RestartTells DEF LockType
  <2> HIDE DEF again
  <2>2. pamCtx'["fprint"] = again /\ Lock!ReaderListens'
    BY <1>9, <1>17, <2>1 DEF Lock!ReaderListens, LockType, again
  <2> QED BY <1>1, <1>8, <1>9, <1>17, <2>1, <2>2 DEF LockType, Lock!StateTellsTries, again
<1>18. ASSUME NEW method \in Lock!Methods, Lock!Checked(method)
       PROVE  LockInv'
  <2>1. PICK found \in BOOLEAN :
          LET c == [pamCtx[method] EXCEPT !.checking = FALSE, !.available = found]
          IN  /\ pamCtx' = [pamCtx EXCEPT ![method] =
                              IF method = "fprint" THEN Lock!RestartFprint(c, pamSecure) ELSE c]
              /\ pamGaveUp' = (pamGaveUp /\ method # "fprint")
    BY <1>18 DEF Lock!Checked
  <2> DEFINE c == [pamCtx[method] EXCEPT !.checking = FALSE, !.available = found]
  <2>2. c \in Contexts
    BY DEF LockType, Contexts
  <2>3. method \notin pamBlind => Tells(method, c)
    BY <1>0 DEF LockType, Contexts, Tells
  <2> HIDE DEF c
  <2>4. CASE method = "fprint"
    BY <1>17, <1>18, <2>1, <2>2, <2>4 DEF Lock!Checked, c
  <2>5. CASE method # "fprint"
    <3>1. pamCtx' = [pamCtx EXCEPT ![method] = c] /\ pamGaveUp' = pamGaveUp
      BY <2>1, <2>5 DEF c, LockType
    <3> QED BY <1>1, <1>2, <1>8, <1>9, <1>18, <2>2, <2>3, <2>5, <3>1
            DEF Lock!Checked, LockType, Lock!StateTellsTries
  <2> QED BY <2>4, <2>5
<1>19. ASSUME NEW method \in Lock!Methods, Lock!Toggle(method)
       PROVE  LockInv'
  <2> DEFINE c == [pamCtx[method] EXCEPT !.enabled = ~@]
             d == [c EXCEPT !.active = @ /\ c.enabled]
  <2>1. c \in Contexts /\ c.active = pamCtx[method].active
        /\ c.tries = pamCtx[method].tries /\ c.state = pamCtx[method].state
    BY DEF LockType, Contexts
  <2>2. /\ pamCtx' = [pamCtx EXCEPT ![method] =
                       IF method = "fprint" THEN Lock!RestartFprint(c, pamSecure) ELSE d]
        /\ pamGaveUp' = (pamGaveUp /\ method # "fprint")
        /\ UNCHANGED <<pamSecure, pamUnlocking, pamPassword, pamShown, pamBlind>>
    BY <1>19 DEF Lock!Toggle
  <2> HIDE DEF c
  <2>3. d \in Contexts /\ (d.active => c.active) /\ d.tries = c.tries /\ d.state = c.state
    BY <2>1 DEF Contexts
  <2> HIDE DEF d
  <2>4. method \notin pamBlind => Tells(method, d)
    BY <1>0, <2>1, <2>3 DEF Tells
  <2>5. CASE method = "fprint"
    BY <1>17, <2>1, <2>2, <2>5
  <2>6. CASE method # "fprint"
    <3>1. pamCtx' = [pamCtx EXCEPT ![method] = d] /\ pamGaveUp' = pamGaveUp
      BY <2>2, <2>6 DEF LockType
    <3> QED BY <1>1, <1>2, <1>8, <1>9, <2>2, <2>3, <2>4, <2>6, <3>1
            DEF LockType, Lock!StateTellsTries
  <2> QED BY <2>5, <2>6
<1>20. ASSUME NEW method \in Lock!Methods, Lock!Retry(method)
       PROVE  LockInv'
  <2> DEFINE c == [pamCtx[method] EXCEPT !.retry = FALSE, !.active = TRUE]
  <2>1. c \in Contexts /\ c.active /\ c.tries = pamCtx[method].tries
        /\ c.state = pamCtx[method].state
    BY DEF LockType, Contexts
  <2>2. /\ pamCtx' = [pamCtx EXCEPT ![method] = c]
        /\ UNCHANGED <<pamSecure, pamUnlocking, pamPassword, pamShown, pamGaveUp>>
        /\ pamBlind' = IF pamCtx[method].active \/ Lock!CanAttempt(method, pamCtx[method], pamSecure)
                       THEN pamBlind ELSE pamBlind \cup {method}
    BY <1>20 DEF Lock!Retry
  <2> HIDE DEF c
  <2>3. method \notin pamBlind' => Tells(method, c)
    BY <1>0, <2>1, <2>2 DEF Tells, Lock!CanAttempt
  <2>4. pamBlind \subseteq pamBlind'
    BY <2>2
  <2>5. method = "fprint" => Lock!ReaderListens'
    BY <1>8, <2>1, <2>2, <2>3, <2>4 DEF Lock!ReaderListens
  <2> QED BY <1>1, <1>2, <1>8, <1>9, <2>1, <2>2, <2>3, <2>4, <2>5
          DEF LockType, Lock!StateTellsTries
<1>21. ASSUME NEW method \in Lock!Methods, Lock!StateReset(method)
       PROVE  LockInv'
  <2> DEFINE c == [pamCtx[method] EXCEPT !.reset = FALSE, !.errors = 0,
                                         !.state = Lock!ClearState(@)]
             state == Lock!ClearState(pamCtx[method].state)
  <2>1. state \in {"none", "error", "failed", "max"}
        /\ (state = "max" <=> pamCtx[method].state = "max")
    BY DEF Lock!ClearState, LockType, Contexts
  <2>2. c = [pamCtx[method] EXCEPT !.reset = FALSE, !.errors = 0, !.state = state]
    OBVIOUS
  <2>3. /\ pamCtx' = [pamCtx EXCEPT ![method] = c]
        /\ UNCHANGED <<pamSecure, pamUnlocking, pamPassword, pamShown, pamGaveUp, pamBlind>>
    BY <1>21 DEF Lock!StateReset
  <2> HIDE DEF c, state
  <2>4. pamCtx[method] \in Contexts /\ 0 \in Nat
    BY DEF LockType
  <2>5. c \in Contexts
    BY Zenon, <2>1, <2>2, <2>4 DEF Contexts
  <2>6. /\ c.state = state /\ c.tries = pamCtx[method].tries /\ c.active = pamCtx[method].active
        /\ c.available = pamCtx[method].available /\ c.enabled = pamCtx[method].enabled
        /\ c.retry = pamCtx[method].retry /\ c.checking = pamCtx[method].checking
    BY <2>2, <2>4 DEF Contexts
  <2>7. method \notin pamBlind' => Tells(method, c)
    BY <1>0, <2>1, <2>3, <2>6 DEF Tells
  <2> QED BY <1>1, <1>2, <1>8, <1>9, <2>3, <2>5, <2>6, <2>7 DEF LockType, Lock!StateTellsTries
\* A conversation has ended and its method is in the context d.
<1>22. ASSUME NEW method \in Lock!Methods, NEW d \in Contexts,
              pamCtx' = [Lock!ClearedStates EXCEPT ![method] = d],
              method \notin pamBlind => Tells(method, d),
              pamGaveUp' \in BOOLEAN, pamGaveUp' = pamGaveUp \/ method = "fprint",
              method = "fprint" => \/ d.active \/ d.retry \/ pamGaveUp'
                                   \/ ~Lock!CanAttempt("fprint", d, pamSecure),
              pamShown' = Lock!ClearState(pamShown),
              UNCHANGED <<pamSecure, pamUnlocking, pamPassword, pamBlind>>
       PROVE  LockInv'
  <2>1. /\ pamCtx'[method] = d
        /\ \A other \in Lock!Methods : other # method => pamCtx'[other] = Lock!ClearedStates[other]
        /\ pamCtx' \in [Lock!Methods -> Contexts]
    BY <1>12, <1>22
  <2>2. \A other \in Lock!Methods \ pamBlind' : Tells(other, pamCtx'[other])
    BY <1>10, <1>22, <2>1
  <2>3. pamPassword' => pamShown' # "max"
    BY <1>22 DEF Lock!StateTellsTries, Lock!ClearState
  <2>4. CASE method = "fprint"
    BY <1>1, <1>22, <2>1, <2>2, <2>3, <2>4 DEF LockType, Lock!ReaderListens
  <2>5. CASE method # "fprint"
    BY <1>1, <1>2, <1>9, <1>11, <1>22, <2>1, <2>2, <2>3, <2>5 DEF LockType
  <2> QED BY <2>4, <2>5
<1>23. ASSUME NEW method \in Lock!Methods, Lock!Completed(method)
       PROVE  LockInv'
  <2> DEFINE c == [Lock!ClearedStates[method] EXCEPT !.active = FALSE]
  <2>1. /\ c \in Contexts /\ ~c.active /\ c.tries = pamCtx[method].tries
        /\ c.available = pamCtx[method].available /\ c.enabled = pamCtx[method].enabled
        /\ c.errors = pamCtx[method].errors /\ c.retry = pamCtx[method].retry
        /\ c.state = Lock!ClearedStates[method].state
    <3> DEFINE cleared == Lock!ClearedStates[method]
    <3>1. cleared \in Contexts
      BY <1>10
    <3>2. c = [cleared EXCEPT !.active = FALSE]
      OBVIOUS
    <3>3. /\ cleared.tries = pamCtx[method].tries /\ cleared.available = pamCtx[method].available
          /\ cleared.enabled = pamCtx[method].enabled /\ cleared.errors = pamCtx[method].errors
          /\ cleared.retry = pamCtx[method].retry
      BY <1>11
    <3> HIDE DEF c, cleared
    <3>4. /\ c \in Contexts /\ ~c.active /\ c.tries = cleared.tries /\ c.available = cleared.available
          /\ c.enabled = cleared.enabled /\ c.errors = cleared.errors /\ c.retry = cleared.retry
          /\ c.state = cleared.state
      BY <3>1, <3>2 DEF Contexts
    <3> QED BY <3>3, <3>4 DEF cleared
  <2>2. pamCtx[method] \in Contexts /\ pamCtx[method].active
    BY <1>23 DEF Lock!Completed, LockType
  <2>3. method \notin pamBlind => /\ c.tries < MaxTries[method]
                                 /\ c.state # "max" /\ Tells(method, pamCtx[method])
    <3> SUFFICES ASSUME method \notin pamBlind
                 PROVE  /\ c.tries < MaxTries[method] /\ c.state # "max"
                        /\ Tells(method, pamCtx[method])
      OBVIOUS
    <3>1. Tells(method, pamCtx[method]) /\ Tells(method, Lock!ClearedStates[method])
      BY <1>0, <1>10
    <3>2. pamCtx[method].tries < MaxTries[method] /\ pamCtx[method].tries \in Nat
      BY <2>2, <3>1 DEF Tells, Contexts
    <3>3. Lock!ClearedStates[method].tries = pamCtx[method].tries
      BY <1>11
    <3>4. Lock!ClearedStates[method].state # "max"
      BY <3>1, <3>2, <3>3, SomeTries DEF Tells
    <3> QED BY <2>1, <3>1, <3>2, <3>4
  <2>4. UNCHANGED <<pamSecure, pamBlind>>
    BY <1>23 DEF Lock!Completed
  <2> HIDE DEF c
  <2>5. CASE ~pamCtx[method].available
    <3> DEFINE d == [pamCtx[method] EXCEPT !.active = FALSE]
    <3>1. /\ d \in Contexts /\ ~d.active /\ ~d.available /\ d.tries = pamCtx[method].tries
          /\ d.state = pamCtx[method].state
      BY <2>2, <2>5 DEF Contexts
    <3>2. pamCtx' = [pamCtx EXCEPT ![method] = d]
          /\ UNCHANGED <<pamUnlocking, pamPassword, pamShown, pamGaveUp>>
      BY <1>23, <2>5 DEF Lock!Completed
    <3> HIDE DEF d
    <3>3. method \notin pamBlind => Tells(method, d)
      BY <2>3, <3>1 DEF Tells
    <3>4. method = "fprint" => Lock!ReaderListens'
      BY <1>8, <2>4, <3>1, <3>2, <3>3 DEF Lock!ReaderListens, Lock!CanAttempt
    <3> QED BY <1>1, <1>2, <1>8, <1>9, <2>4, <3>1, <3>2, <3>3, <3>4 DEF LockType, Lock!StateTellsTries
  <2>6. CASE Lock!Unlocked(pamCtx) /\ UNCHANGED pamGaveUp
    BY <1>4, <2>4, <2>6
  <2>7. CASE /\ pamCtx' = [Lock!ClearedStates EXCEPT ![method] = Lock!Trouble(c)]
             /\ pamGaveUp' = (pamGaveUp \/ (method = "fprint" /\ c.errors + 1 >= ErrorTries))
             /\ pamShown' = Lock!ClearState(pamShown) /\ UNCHANGED <<pamUnlocking, pamPassword>>
    <3> DEFINE d == Lock!Trouble(c)
               again == IF c.errors + 1 < ErrorTries THEN TRUE ELSE c.retry
    <3>1. d = [c EXCEPT !.errors = c.errors + 1, !.state = "error", !.reset = TRUE, !.retry = again]
      BY DEF Lock!Trouble
    <3>2. again \in BOOLEAN /\ c.errors + 1 \in Nat /\ (c.errors + 1 < ErrorTries => again)
          /\ (c.errors + 1 < ErrorTries \/ c.errors + 1 >= ErrorTries)
      <4>1. c.errors \in Nat /\ c.retry \in BOOLEAN /\ ErrorTries \in Nat
        BY <2>1, TriesAssumption DEF Contexts
      <4>2. c.errors + 1 < ErrorTries => again = TRUE
        OBVIOUS
      <4>3. ~(c.errors + 1 < ErrorTries) => again = c.retry
        OBVIOUS
      <4>4. c.errors + 1 \in Nat /\ (c.errors + 1 < ErrorTries \/ c.errors + 1 >= ErrorTries)
        BY <4>1
      <4> HIDE DEF again
      <4>5. again \in BOOLEAN
        BY Zenon, <4>1, <4>2, <4>3
      <4>6. c.errors + 1 < ErrorTries => again
        BY Zenon, <4>2
      <4> QED BY <4>4, <4>5, <4>6
    <3> HIDE DEF d, again
    <3>3. d \in Contexts
      BY Zenon, <2>1, <3>1, <3>2 DEF Contexts
    <3>4. d.tries = c.tries /\ d.state = "error" /\ ~d.active /\ d.retry = again
      BY <2>1, <3>1 DEF Contexts
    <3>5. method \notin pamBlind => Tells(method, d)
      BY <2>1, <2>3, <3>4, SomeTries DEF Tells, Contexts
    <3> QED BY <1>22, <2>4, <2>7, <3>2, <3>3, <3>4, <3>5 DEF LockType, d
  <2>8. CASE /\ pamCtx' = [Lock!ClearedStates EXCEPT ![method] = Lock!Failure(method, c)]
             /\ pamShown' = Lock!ClearState(pamShown)
             /\ UNCHANGED <<pamUnlocking, pamPassword, pamGaveUp>>
    <3> DEFINE d == Lock!Failure(method, c)
               more == c.tries + 1 < MaxTries[method]
               state == IF more THEN "failed" ELSE "max"
    <3>1. d = [c EXCEPT !.tries = c.tries + 1, !.reset = TRUE, !.active = more /\ method = "fprint",
                        !.state = state]
      BY DEF Lock!Failure
    <3>2. c.tries \in Nat /\ c.tries + 1 \in Nat /\ (more /\ method = "fprint") \in BOOLEAN
          /\ state \in {"none", "error", "failed", "max"} /\ (state = "max" <=> ~more)
      BY <2>1 DEF Contexts
    <3>3. more <=> c.tries + 1 < MaxTries[method]
      OBVIOUS
    <3> HIDE DEF d, more, state
    <3>4. d \in Contexts
      BY Zenon, <2>1, <3>1, <3>2 DEF Contexts
    <3>5. d.tries = c.tries + 1 /\ d.state = state /\ d.active = (more /\ method = "fprint")
          /\ (d.active => more)
      BY <2>1, <3>1 DEF Contexts
    <3>6. method \notin pamBlind => Tells(method, d)
      <4>1. method \notin pamBlind => d.tries <= MaxTries[method]
        BY <2>3, <3>2, <3>5, SomeTries
      <4>2. d.state = "max" <=> d.tries >= MaxTries[method]
        BY <3>2, <3>3, <3>5, SomeTries
      <4>3. d.active => d.tries < MaxTries[method]
        BY <3>3, <3>5
      <4> QED BY <4>1, <4>2, <4>3 DEF Tells
    <3>7. method = "fprint" => d.active \/ ~Lock!CanAttempt("fprint", d, pamSecure)
      BY <3>3, <3>5 DEF Lock!CanAttempt
    <3> QED BY <1>22, <2>4, <2>8, <3>4, <3>6, <3>7 DEF LockType, d
  <2> QED BY <1>23, <2>5, <2>6, <2>7, <2>8 DEF Lock!Completed, c
<1>24. CASE UNCHANGED Lock!vars
  BY <1>0, <1>1, <1>2, <1>24 DEF Lock!vars, LockType, Lock!StateTellsTries
<1> QED
  BY <1>5, <1>6, <1>7, <1>13, <1>14, <1>15, <1>16, <1>18, <1>19, <1>20, <1>21, <1>23, <1>24 DEF Lock!Next

(***************************************************************************)
(* For any numbers of tries: "max" stands on the lock screen exactly when  *)
(* the tries of a method are used up, and the fingerprint reader listens   *)
(* while it may be used (Pam.qml).                                         *)
(***************************************************************************)
THEOREM LockScreenTellsTries == DeskSpec => []LockTellsTries
<1>1. LockInv => LockTellsTries
  BY DEF LockInv, LockTellsTries
<1> QED BY <1>1, EachKeepsItsSpec, LockInit, LockStep, PTL DEF Lock!Spec

-----------------------------------------------------------------------------
(***************************************************************************)
(* The recording.  A sample is its number, so that a stretch of it without *)
(* a gap is told by its last number: the chunk of the real-time thread     *)
(* ends at what was recorded, what it could not store before that, and the *)
(* samples before that, unless what waits has pushed some of it out.       *)
(***************************************************************************)
EndsAt(s, last) == \A i \in 1 .. Len(s) : s[i] = last - Len(s) + i

Ids == 1 .. audioRecorded
Chunk == audioRt.chunk

AudioType ==
  /\ audioRecorded \in 0 .. MaxSamples
  /\ audioSamples \in Seq(Ids) /\ audioPending \in Seq(Ids)
  /\ audioRt \in [at : {"idle", "checked", "locked"}, chunk : Seq(Ids)]
  /\ audioDiscard \in BOOLEAN
  /\ audioLock \in Readers \cup {NoService, "rt", "gui", "loop"}
  /\ audioClearing \in {"no", "cleared", "flagged"}
  /\ audioThread \in {"none", "starting", "running", "ended"}
  /\ audioStream \in Audio!States \cup {"off", "setup"}
  /\ audioStale \in [ids : SUBSET Ids, raced : BOOLEAN]

\* Who is where while the lock is held.
LocksAgree ==
  /\ audioRt.at = "locked" <=> audioLock = "rt"
  /\ audioRt.at = "idle" => Chunk = <<>>
  /\ audioClearing # "no" <=> audioLock \in {"gui", "loop"}
  /\ audioClearing # "no" => audioSamples = <<>>

NoGaps ==
  /\ EndsAt(Chunk, audioRecorded)
  /\ EndsAt(audioPending, audioRecorded - Len(Chunk))
  /\ \/ EndsAt(audioSamples, audioRecorded - Len(Chunk) - Len(audioPending))
     \/ Len(audioPending) >= Capacity /\ Audio!Consecutive(audioSamples)
  /\ audioDiscard => audioSamples = <<>> \/ (audioPending = <<>> /\ audioRt.at = "idle")

\* After a clear that the real-time thread cannot have missed, what was there
\* before is gone, or will be when that thread sees the flag.
Fresh(s) == \A i \in 1 .. Len(s) : s[i] \notin audioStale.ids
StaleIsGone ==
  audioClearing # "cleared" /\ ~audioStale.raced =>
    /\ audioDiscard => audioSamples = <<>> /\ audioRt.at = "idle"
    /\ ~audioDiscard => Fresh(audioSamples) /\ Fresh(audioPending) /\ Fresh(Chunk)

AudioInv == AudioType /\ LocksAgree /\ NoGaps /\ StaleIsGone

-----------------------------------------------------------------------------
\* What a ring buffer holds after samples were pushed: the last Capacity of both.
LEMMA PushedHolds ==
  ASSUME NEW S, NEW ring \in Seq(S), NEW new \in Seq(S)
  PROVE  LET p == Audio!Pushed(ring, new)
         IN  /\ p \in Seq(S)
             /\ Len(p) = IF Len(ring) + Len(new) > Capacity THEN Capacity ELSE Len(ring) + Len(new)
             /\ \A i \in 1 .. Len(p) : \E k \in 1 .. Len(ring) + Len(new) :
                  /\ k = Len(ring) + Len(new) - Len(p) + i
                  /\ p[i] = IF k <= Len(ring) THEN ring[k] ELSE new[k - Len(ring)]
<1> DEFINE all == ring \o new
           first == 1 + (IF Len(all) > Capacity THEN Len(all) - Capacity ELSE 0)
           p == Audio!Pushed(ring, new)
<1>1. /\ all \in Seq(S) /\ Len(all) = Len(ring) + Len(new) /\ Len(ring) \in Nat /\ Len(new) \in Nat
      /\ \A i \in 1 .. Len(ring) + Len(new) :
           all[i] = IF i <= Len(ring) THEN ring[i] ELSE new[i - Len(ring)]
  BY ConcatProperties, LenProperties
<1>2. p = SubSeq(all, first, Len(all))
  BY DEF Audio!Pushed
<1> HIDE DEF all, p
<1>3. first \in 1 .. Len(all) + 1 /\ Len(all) \in Nat
      /\ Len(all) - first + 1 = IF Len(all) > Capacity THEN Capacity ELSE Len(all)
  BY <1>1, RecorderAssumption
<1> HIDE DEF first
<1>4. \A i \in first .. Len(all) : all[i] \in S
  BY <1>1, <1>3, ElementOfSeq
<1>5. /\ p \in Seq(S)
      /\ Len(p) = IF first <= Len(all) THEN Len(all) - first + 1 ELSE 0
      /\ \A i \in 1 .. Len(all) - first + 1 : p[i] = all[first + i - 1]
  BY <1>2, <1>3, <1>4, SubSeqProperties
<1>6. Len(p) = Len(all) - first + 1
  BY <1>3, <1>5
<1>7. Len(p) = IF Len(ring) + Len(new) > Capacity THEN Capacity ELSE Len(ring) + Len(new)
  BY <1>1, <1>3, <1>6
<1>8. ASSUME NEW i \in 1 .. Len(p)
      PROVE  \E k \in 1 .. Len(ring) + Len(new) :
                  /\ k = Len(ring) + Len(new) - Len(p) + i
                  /\ p[i] = IF k <= Len(ring) THEN ring[k] ELSE new[k - Len(ring)]
  <2> DEFINE k == Len(ring) + Len(new) - Len(p) + i
  <2>1. k = first + i - 1 /\ k \in 1 .. Len(ring) + Len(new)
    BY <1>1, <1>3, <1>6
  <2>2. p[i] = all[k]
    BY <1>5, <1>6, <2>1
  <2> QED BY <1>1, <2>1, <2>2
<1> QED BY <1>5, <1>7, <1>8 DEF p

LEMMA PushedEnds ==
  ASSUME NEW ring \in Seq(Int), NEW new \in Seq(Int), NEW last \in Int, EndsAt(new, last),
         EndsAt(ring, last - Len(new)) \/ Len(new) >= Capacity
  PROVE  EndsAt(Audio!Pushed(ring, new), last)
<1> DEFINE p == Audio!Pushed(ring, new)
<1>1. /\ p \in Seq(Int)
      /\ Len(p) = IF Len(ring) + Len(new) > Capacity THEN Capacity ELSE Len(ring) + Len(new)
      /\ \A i \in 1 .. Len(p) : \E k \in 1 .. Len(ring) + Len(new) :
           /\ k = Len(ring) + Len(new) - Len(p) + i
           /\ p[i] = IF k <= Len(ring) THEN ring[k] ELSE new[k - Len(ring)]
  BY PushedHolds
<1>2. Len(ring) \in Nat /\ Len(new) \in Nat /\ Len(p) \in Nat /\ Capacity \in Nat
  BY <1>1, LenProperties, RecorderAssumption
<1> HIDE DEF p
<1>3. ASSUME NEW i \in 1 .. Len(p) PROVE p[i] = last - Len(p) + i
  <2>0. PICK k \in 1 .. Len(ring) + Len(new) :
           /\ k = Len(ring) + Len(new) - Len(p) + i
           /\ p[i] = IF k <= Len(ring) THEN ring[k] ELSE new[k - Len(ring)]
    BY <1>1
  <2>1. CASE k <= Len(ring)
    <3>1. EndsAt(ring, last - Len(new))
      BY <1>1, <1>2, <2>0, <2>1
    <3>2. ring[k] = last - Len(new) - Len(ring) + k
      BY <1>2, <2>1, <3>1 DEF EndsAt
    <3> QED BY <1>2, <2>0, <2>1, <3>2
  <2>2. CASE ~(k <= Len(ring))
    <3>1. p[i] = new[k - Len(ring)] /\ k - Len(ring) \in 1 .. Len(new)
      BY <1>2, <2>0, <2>2
    <3>2. new[k - Len(ring)] = last - Len(new) + (k - Len(ring))
      BY <3>1 DEF EndsAt
    <3> QED BY <1>2, <2>0, <3>1, <3>2
  <2> QED BY <2>1, <2>2
<1> QED BY <1>3 DEF EndsAt, p

LEMMA PushedFresh ==
  ASSUME NEW S, NEW ring \in Seq(S), NEW new \in Seq(S), Fresh(ring), Fresh(new)
  PROVE  Fresh(Audio!Pushed(ring, new))
<1> DEFINE p == Audio!Pushed(ring, new)
<1>1. /\ p \in Seq(S)
      /\ Len(p) = IF Len(ring) + Len(new) > Capacity THEN Capacity ELSE Len(ring) + Len(new)
      /\ \A i \in 1 .. Len(p) : \E k \in 1 .. Len(ring) + Len(new) :
           /\ k = Len(ring) + Len(new) - Len(p) + i
           /\ p[i] = IF k <= Len(ring) THEN ring[k] ELSE new[k - Len(ring)]
  BY PushedHolds
<1>2. Len(ring) \in Nat /\ Len(new) \in Nat /\ Len(p) \in Nat /\ Capacity \in Nat
  BY <1>1, LenProperties, RecorderAssumption
<1> HIDE DEF p
<1>3. ASSUME NEW i \in 1 .. Len(p) PROVE p[i] \notin audioStale.ids
  <2>0. PICK k \in 1 .. Len(ring) + Len(new) :
           /\ k = Len(ring) + Len(new) - Len(p) + i
           /\ p[i] = IF k <= Len(ring) THEN ring[k] ELSE new[k - Len(ring)]
    BY <1>1
  <2>2. CASE k <= Len(ring)
    BY <1>2, <2>0, <2>2 DEF Fresh
  <2>3. CASE ~(k <= Len(ring))
    <3>1. p[i] = new[k - Len(ring)] /\ k - Len(ring) \in 1 .. Len(new)
      BY <1>2, <2>0, <2>3
    <3> QED BY <3>1 DEF Fresh
  <2> QED BY <2>2, <2>3
<1> QED BY <1>3 DEF Fresh, p

\* A stretch without a gap is consecutive, and both are true of nothing.
LEMMA EndsAtConsecutive ==
  ASSUME NEW s \in Seq(Int), NEW last \in Int, EndsAt(s, last)
  PROVE  Audio!Consecutive(s)
<1>1. Len(s) \in Nat
  BY LenProperties
<1> QED BY <1>1 DEF EndsAt, Audio!Consecutive

LEMMA NothingEnds ==
  ASSUME NEW last
  PROVE  /\ EndsAt(<<>>, last) /\ Fresh(<<>>) /\ Audio!Consecutive(<<>>) /\ Len(<<>>) = 0
BY DEF EndsAt, Fresh, Audio!Consecutive

LEMMA MoreIds ==
  ASSUME NEW m \in Nat, NEW n \in Nat, m <= n, NEW s \in Seq(1 .. m)
  PROVE  s \in Seq(1 .. n) /\ s \in Seq(Int)
<1>1. \A i \in 1 .. Len(s) : s[i] \in 1 .. n
  BY ElementOfSeq
<1>2. Len(s) \in Nat /\ DOMAIN s = 1 .. Len(s) /\ s = [i \in 1 .. Len(s) |-> s[i]]
  BY LenProperties
<1> QED BY <1>1, <1>2, SeqDef

LEMMA AudioInit == Audio!Init => AudioInv
<1> SUFFICES ASSUME Audio!Init PROVE AudioInv
  OBVIOUS
<1> USE DEF Audio!Init
<1>1. AudioType
  <2>1. audioRecorded \in 0 .. MaxSamples /\ <<>> \in Seq(Ids) /\ {} \in SUBSET Ids
    BY RecorderAssumption
  <2>2. audioRt \in [at : {"idle", "checked", "locked"}, chunk : Seq(Ids)]
    BY <2>1
  <2>3. audioStale \in [ids : SUBSET Ids, raced : BOOLEAN]
    BY <2>1
  <2> QED BY <2>1, <2>2, <2>3 DEF AudioType
<1>2. LocksAgree
  BY RecorderAssumption DEF LocksAgree, Chunk
<1>3. NoGaps /\ StaleIsGone
  BY NothingEnds DEF NoGaps, StaleIsGone, Chunk
<1> QED BY <1>1, <1>2, <1>3 DEF AudioInv

LEMMA AudioStep ==
  ASSUME AudioInv, [Audio!Next]_Audio!vars
  PROVE  AudioInv'
<1> USE DEF AudioInv
<1>1. /\ audioRecorded \in Nat /\ Capacity \in Nat /\ MaxSamples \in Nat
      /\ audioSamples \in Seq(Ids) /\ audioPending \in Seq(Ids) /\ Chunk \in Seq(Ids)
      /\ audioSamples \in Seq(Int) /\ audioPending \in Seq(Int) /\ Chunk \in Seq(Int)
      /\ Len(audioSamples) \in Nat /\ Len(audioPending) \in Nat /\ Len(Chunk) \in Nat
  <2>1. audioRecorded \in Nat /\ Capacity \in Nat /\ MaxSamples \in Nat
    BY RecorderAssumption DEF AudioType
  <2>2. audioSamples \in Seq(Ids) /\ audioPending \in Seq(Ids) /\ Chunk \in Seq(Ids)
    BY DEF AudioType, Chunk
  <2> QED BY <2>1, <2>2, MoreIds, LenProperties DEF Ids
<1>2. /\ NoService \notin {"rt", "gui", "loop"}
      /\ \A r \in Readers : r \notin {NoService, "rt", "gui", "loop"}
  BY RecorderAssumption
\* The thread, the stream and the timer alone change.
<1>3. ASSUME UNCHANGED <<audioSamples, audioPending, audioRt, audioDiscard, audioLock,
                         audioClearing, audioRecorded, audioStale>>,
             audioThread' \in {"none", "starting", "running", "ended"},
             audioStream' \in Audio!States \cup {"off", "setup"}
      PROVE  AudioInv'
  <2>1. AudioType'
    BY <1>3 DEF AudioType, Ids
  <2>2. LocksAgree'
    BY <1>3 DEF LocksAgree, Chunk
  <2>3. NoGaps'
    BY <1>3 DEF NoGaps, Chunk
  <2>4. StaleIsGone'
    BY <1>3 DEF StaleIsGone, Chunk, Fresh
  <2> QED BY <2>1, <2>2, <2>3, <2>4
\* clearBuffer, up to the flag
<1>4. ASSUME NEW who \in {"gui", "loop"}, Audio!ClearSamples(who),
             UNCHANGED <<audioRt, audioRecorded, audioStream>>,
             audioThread' \in {"none", "starting", "running", "ended"}
      PROVE  AudioInv'
  <2>1. /\ audioLock = NoService /\ audioLock' = who /\ audioSamples' = <<>>
        /\ audioClearing' = "cleared" /\ UNCHANGED <<audioPending, audioDiscard>>
        /\ audioStale' = [ids |-> Audio!ToSet(audioSamples \o audioPending), raced |-> FALSE]
    BY <1>4 DEF Audio!ClearSamples
  <2>2. Audio!ToSet(audioSamples \o audioPending) \subseteq Ids
    <3>1. audioSamples \o audioPending \in Seq(Ids)
      BY <1>1, ConcatProperties
    <3> QED BY <3>1, ElementOfSeq, LenProperties DEF Audio!ToSet
  <2>3. audioStale' \in [ids : SUBSET Ids, raced : BOOLEAN]
    BY <2>1, <2>2
  <2>4. AudioType'
    <3>1. <<>> \in Seq(Ids)
      OBVIOUS
    <3> QED BY <1>4, <2>1, <2>3, <3>1 DEF AudioType, Ids
  <2>5. LocksAgree'
    BY <1>2, <1>4, <2>1 DEF LocksAgree, Chunk
  <2>6. NoGaps'
    BY <1>4, <2>1, NothingEnds DEF NoGaps, Chunk
  <2>7. StaleIsGone'
    BY <2>1 DEF StaleIsGone
  <2> QED BY <2>4, <2>5, <2>6, <2>7
<1>5. CASE Audio!Start
  BY <1>4, <1>5 DEF Audio!Start
<1>6. CASE Audio!Stop \/ Audio!Join
  BY <1>3, <1>6 DEF Audio!Stop, Audio!Join, Audio!buffers, Audio!worker, Audio!bounds, AudioType
<1>7. CASE Audio!HandleTimeout
  <2>1. CASE Audio!ClearSamples("loop")
    BY <1>4, <1>7, <2>1 DEF Audio!HandleTimeout, Audio!gui, Audio!bounds, AudioType
  <2>2. CASE UNCHANGED <<Audio!buffers, audioClearing, audioStale>>
    BY <1>3, <1>7, <2>2 DEF Audio!HandleTimeout, Audio!gui, Audio!buffers, Audio!bounds, AudioType
  <2> QED BY <1>7, <2>1, <2>2 DEF Audio!HandleTimeout
<1>8. CASE Audio!EndThread
  BY <1>3, <1>8 DEF Audio!EndThread, Audio!buffers, Audio!bounds
<1>9. ASSUME NEW s \in Audio!States, Audio!StreamStateChanged(s)
      PROVE  AudioInv'
  BY <1>3, <1>9 DEF Audio!StreamStateChanged, Audio!buffers, Audio!gui, AudioType
<1>10. CASE Audio!FlagPending
  <2>1. /\ audioClearing = "cleared" /\ audioClearing' = "flagged" /\ audioDiscard' = TRUE
        /\ audioStale' = [audioStale EXCEPT !.raced = audioRt.at = "checked"]
        /\ UNCHANGED <<audioSamples, audioPending, audioLock, audioRt, audioRecorded,
                       audioThread, audioStream>>
    BY <1>10 DEF Audio!FlagPending, Audio!worker, Audio!gui, Audio!bounds
  <2>2. audioSamples = <<>> /\ audioRt.at \in {"idle", "checked"} /\ audioLock \in {"gui", "loop"}
    BY <2>1 DEF LocksAgree, AudioType
  <2>3. (audioRt.at = "checked") \in BOOLEAN
    OBVIOUS
  <2>4. audioStale' \in [ids : SUBSET Ids, raced : BOOLEAN] /\ audioStale'.ids = audioStale.ids
        /\ (~audioStale'.raced => audioRt.at # "checked")
    BY <2>1, <2>3 DEF AudioType
  <2>5. AudioType'
    BY <2>1, <2>4 DEF AudioType, Ids
  <2>6. LocksAgree'
    BY <2>1 DEF LocksAgree, Chunk
  <2>7. NoGaps'
    BY <2>1, <2>2 DEF NoGaps, Chunk
  <2>8. StaleIsGone'
    BY <2>1, <2>2, <2>4 DEF StaleIsGone
  <2> QED BY <2>5, <2>6, <2>7, <2>8
<1>11. CASE Audio!Unlock
  <2>1. /\ audioClearing = "flagged" /\ audioClearing' = "no" /\ audioLock' = NoService
        /\ UNCHANGED <<audioSamples, audioPending, audioDiscard, audioRt, audioRecorded, audioStale>>
        /\ audioThread' \in {"none", "starting", "running", "ended"}
        /\ audioStream' \in Audio!States \cup {"off", "setup"}
    BY <1>11 DEF Audio!Unlock, Audio!bounds, AudioType
  <2>2. AudioType'
    BY <2>1 DEF AudioType, Ids
  <2>3. LocksAgree'
    BY <1>2, <2>1 DEF LocksAgree, Chunk
  <2>4. NoGaps' /\ StaleIsGone'
    BY <2>1 DEF NoGaps, StaleIsGone, Chunk, Fresh
  <2> QED BY <2>2, <2>3, <2>4
<1>12. ASSUME NEW r \in Readers, Audio!ReadLatest(r) \/ Audio!EndRead(r)
       PROVE  AudioInv'
  <2>1. /\ UNCHANGED <<audioSamples, audioPending, audioDiscard, audioRt, audioClearing,
                       audioRecorded, audioStale, audioThread, audioStream>>
        /\ audioLock \in Readers \cup {NoService} /\ audioLock' \in Readers \cup {NoService}
    BY <1>12 DEF Audio!ReadLatest, Audio!EndRead, Audio!worker, Audio!gui, Audio!bounds
  <2>2. AudioType'
    BY <2>1 DEF AudioType, Ids
  <2>3. LocksAgree'
    BY <1>2, <2>1 DEF LocksAgree, Chunk
  <2>4. NoGaps' /\ StaleIsGone'
    BY <2>1 DEF NoGaps, StaleIsGone, Chunk, Fresh
  <2> QED BY <2>2, <2>3, <2>4
<1>13. CASE Audio!ProcessStream
  <2>1. CASE UNCHANGED <<audioPending, audioDiscard, audioRt, audioRecorded>>
    BY <1>3, <1>13, <2>1 DEF Audio!ProcessStream, Audio!gui, AudioType
  <2>2. ASSUME NEW n \in Chunks, audioRecorded + n <= MaxSamples,
               audioRecorded' = audioRecorded + n,
               audioRt' = [at |-> "checked", chunk |-> [i \in 1 .. n |-> audioRecorded + i]],
               audioDiscard' = FALSE,
               audioPending' = IF audioDiscard THEN <<>> ELSE audioPending
        PROVE  AudioInv'
    <3> DEFINE new == [i \in 1 .. n |-> audioRecorded + i]
    <3>1. /\ audioRt.at = "idle"
          /\ UNCHANGED <<audioSamples, audioLock, audioClearing, audioStream, audioThread, audioStale>>
      BY <1>13 DEF Audio!ProcessStream, Audio!gui
    <3>2. n \in Nat /\ audioRecorded' \in Nat /\ audioRecorded <= audioRecorded'
      BY <1>1, <2>2, RecorderAssumption
    <3>3. new \in [1 .. n -> 1 .. audioRecorded'] /\ \A i \in 1 .. n : new[i] = audioRecorded + i
      BY <1>1, <2>2, <3>2
    <3>4. audioRt'.at = "checked" /\ Chunk' = new
      BY <2>2 DEF Chunk
    <3> HIDE DEF new
    <3>5. new \in Seq(1 .. audioRecorded') /\ Len(new) = n
      <4>1. new \in Seq(1 .. audioRecorded')
        BY <3>2, <3>3, SeqDef
      <4>2. Len(new) \in Nat /\ DOMAIN new = 1 .. Len(new)
        BY <4>1, LenProperties
      <4> QED BY <3>2, <3>3, <4>1, <4>2
    <3>6. Chunk = <<>> /\ Len(Chunk) = 0
      BY <3>1 DEF LocksAgree
    <3>7. audioSamples \in Seq(Ids') /\ audioPending \in Seq(Ids') /\ <<>> \in Seq(Ids')
      BY <1>1, <3>2, MoreIds DEF Ids
    <3>8. audioStale.ids \in SUBSET Ids /\ audioStale \in [ids : SUBSET Ids', raced : BOOLEAN]
      BY <1>1, <3>2 DEF AudioType, Ids
    <3>9. AudioType'
      <4>1. audioRt' \in [at : {"idle", "checked", "locked"}, chunk : Seq(Ids')]
        BY <2>2, <3>5 DEF Ids, new
      <4>2. audioRecorded' \in 0 .. MaxSamples /\ audioPending' \in Seq(Ids')
        BY <1>1, <2>2, <3>2, <3>7
      <4> QED BY <2>2, <3>1, <3>7, <3>8, <4>1, <4>2 DEF AudioType
    <3>10. LocksAgree'
      BY <3>1, <3>4 DEF LocksAgree
    <3>11. NoGaps'
      <4>1. EndsAt(new, audioRecorded')
        BY <1>1, <2>2, <3>2, <3>3, <3>5 DEF EndsAt
      <4>2. EndsAt(audioPending, audioRecorded) /\ audioRecorded' - n = audioRecorded
        BY <1>1, <2>2, <3>2, <3>6 DEF NoGaps
      <4>3. EndsAt(audioPending', audioRecorded' - n)
        BY <2>2, <4>2, NothingEnds
      <4>4. \/ EndsAt(audioSamples, audioRecorded - Len(audioPending))
            \/ Len(audioPending) >= Capacity /\ Audio!Consecutive(audioSamples)
        BY <1>1, <3>6 DEF NoGaps
      <4>5. \/ EndsAt(audioSamples, audioRecorded' - n - Len(audioPending'))
            \/ Len(audioPending') >= Capacity /\ Audio!Consecutive(audioSamples)
        <5>1. CASE ~audioDiscard
          BY <2>2, <4>2, <4>4, <5>1
        <5>2. CASE audioDiscard
          <6>1. audioPending' = <<>> /\ (audioSamples = <<>> \/ audioPending = <<>>)
            BY <2>2, <5>2 DEF NoGaps
          <6> QED BY <4>2, <4>4, <6>1, NothingEnds
        <5> QED BY <5>1, <5>2 DEF AudioType
      <4> QED BY <2>2, <3>1, <3>4, <3>5, <4>1, <4>3, <4>5 DEF NoGaps
    <3>12. StaleIsGone'
      <4> SUFFICES ASSUME audioClearing # "cleared", ~audioStale.raced
                   PROVE  Fresh(audioSamples) /\ Fresh(audioPending') /\ Fresh(new)
        BY <2>2, <3>1, <3>4 DEF StaleIsGone, Fresh
      <4>1. Fresh(new)
        BY <1>1, <3>3, <3>5, <3>8 DEF Fresh, Ids
      <4>2. Fresh(audioSamples) /\ Fresh(audioPending')
        BY <2>2, NothingEnds DEF StaleIsGone
      <4> QED BY <4>1, <4>2
    <3> QED BY <3>9, <3>10, <3>11, <3>12
  <2> QED BY <1>13, <2>1, <2>2 DEF Audio!ProcessStream
<1>14. CASE Audio!TryLock
  <2>1. /\ audioRt.at = "checked"
        /\ UNCHANGED <<audioSamples, audioDiscard, audioClearing, audioThread, audioStream,
                       audioRecorded, audioStale>>
    BY <1>14 DEF Audio!TryLock, Audio!worker, Audio!gui, Audio!bounds
  <2>2. CASE audioLock = NoService
    <3>1. /\ audioLock' = "rt" /\ audioRt' = [audioRt EXCEPT !.at = "locked"]
          /\ audioPending' = audioPending
      BY <1>14, <2>2 DEF Audio!TryLock
    <3>2. /\ audioRt' \in [at : {"idle", "checked", "locked"}, chunk : Seq(Ids)]
          /\ audioRt'.at = "locked" /\ Chunk' = Chunk
      BY <3>1 DEF AudioType, Chunk
    <3>3. AudioType'
      BY <2>1, <3>1, <3>2 DEF AudioType, Ids
    <3>4. LocksAgree'
      BY <1>2, <2>1, <2>2, <3>1, <3>2 DEF LocksAgree
    <3>5. NoGaps'
      BY <2>1, <3>1, <3>2 DEF NoGaps
    <3>6. StaleIsGone'
      BY <2>1, <3>1, <3>2 DEF StaleIsGone, Fresh
    <3> QED BY <3>3, <3>4, <3>5, <3>6
  <2>3. CASE audioLock # NoService
    <3> DEFINE waits == Audio!Pushed(audioPending, Chunk)
    <3>1. /\ audioPending' = waits /\ UNCHANGED audioLock
          /\ audioRt' = [at |-> "idle", chunk |-> <<>>]
      BY <1>14, <2>3 DEF Audio!TryLock, Chunk
    <3>2. audioRt'.at = "idle" /\ Chunk' = <<>> /\ Len(Chunk') = 0
      BY <3>1 DEF Chunk
    <3>3. /\ waits \in Seq(Ids)
          /\ Len(waits) = IF Len(audioPending) + Len(Chunk) > Capacity THEN Capacity
                          ELSE Len(audioPending) + Len(Chunk)
      BY <1>1, PushedHolds
    <3>4. EndsAt(waits, audioRecorded)
      BY <1>1, PushedEnds DEF NoGaps
    <3>5. Fresh(audioPending) /\ Fresh(Chunk) => Fresh(waits)
      BY <1>1, PushedFresh
    <3> HIDE DEF waits
    <3>6. AudioType'
      <4>1. audioRt' \in [at : {"idle", "checked", "locked"}, chunk : Seq(Ids)]
        BY <3>1
      <4> QED BY <2>1, <3>1, <3>3, <4>1 DEF AudioType, Ids
    <3>7. LocksAgree'
      BY <2>1, <3>1, <3>2 DEF LocksAgree
    <3>8. NoGaps'
      <4>1. EndsAt(Chunk', audioRecorded)
        BY <3>2, NothingEnds
      <4>2. \/ EndsAt(audioSamples, audioRecorded - Len(waits))
            \/ Len(waits) >= Capacity /\ Audio!Consecutive(audioSamples)
        <5>1. CASE Len(audioPending) + Len(Chunk) > Capacity
          <6>1. Len(waits) = Capacity
            BY <3>3, <5>1
          <6>2. Audio!Consecutive(audioSamples)
            BY <1>1, EndsAtConsecutive DEF NoGaps
          <6> QED BY <1>1, <6>1, <6>2
        <5>2. CASE ~(Len(audioPending) + Len(Chunk) > Capacity)
          <6>1. Len(waits) = Len(audioPending) + Len(Chunk)
            BY <3>3, <5>2
          <6>2. audioRecorded - Len(Chunk) - Len(audioPending) = audioRecorded - Len(waits)
            BY <1>1, <6>1
          <6> QED BY <1>1, <6>1, <6>2 DEF NoGaps
        <5> QED BY <5>1, <5>2
      <4>3. audioDiscard => audioSamples = <<>>
        BY <2>1 DEF NoGaps
      <4>4. audioRecorded - Len(Chunk') = audioRecorded
        BY <1>1, <3>2
      <4> QED BY <2>1, <3>1, <3>4, <4>1, <4>2, <4>3, <4>4 DEF NoGaps
    <3>9. StaleIsGone'
      <4>1. Fresh(<<>>)
        BY NothingEnds
      <4> QED BY <2>1, <3>1, <3>2, <3>5, <4>1 DEF StaleIsGone, Fresh
    <3> QED BY <3>6, <3>7, <3>8, <3>9
  <2> QED BY <2>2, <2>3
<1>15. CASE Audio!StoreChunk
  <2> DEFINE waited == Audio!Pushed(audioSamples, audioPending)
             stored == Audio!Pushed(waited, Chunk)
  <2>1. /\ audioRt.at = "locked"
        /\ audioSamples' = stored /\ audioPending' = <<>> /\ audioLock' = NoService
        /\ audioRt' = [at |-> "idle", chunk |-> <<>>]
        /\ UNCHANGED <<audioDiscard, audioClearing, audioThread, audioStream, audioRecorded,
                       audioStale>>
    BY <1>15 DEF Audio!StoreChunk, Audio!worker, Audio!gui, Audio!bounds, Chunk
  <2>2. audioRt'.at = "idle" /\ Chunk' = <<>> /\ Len(Chunk') = 0
    BY <2>1 DEF Chunk
  <2>3. waited \in Seq(Ids) /\ stored \in Seq(Ids) /\ waited \in Seq(Int)
    BY <1>1, PushedHolds
  <2>4. EndsAt(waited, audioRecorded - Len(Chunk))
    BY <1>1, PushedEnds DEF NoGaps
  <2>5. EndsAt(stored, audioRecorded)
    BY <1>1, <2>3, <2>4, PushedEnds DEF NoGaps
  <2>6. Fresh(audioSamples) /\ Fresh(audioPending) /\ Fresh(Chunk) => Fresh(stored)
    BY <1>1, <2>3, PushedFresh
  <2> HIDE DEF waited, stored
  <2>7. AudioType'
    <3>1. audioRt' \in [at : {"idle", "checked", "locked"}, chunk : Seq(Ids)] /\ <<>> \in Seq(Ids)
      BY <2>1
    <3> QED BY <2>1, <2>3, <3>1 DEF AudioType, Ids
  <2>8. LocksAgree'
    BY <1>2, <2>1, <2>2 DEF LocksAgree
  <2>9. NoGaps'
    <3>1. EndsAt(<<>>, audioRecorded)
      BY NothingEnds
    <3>2. Len(<<>>) = 0 /\ audioRecorded - 0 = audioRecorded
      BY <1>1
    <3> QED BY <2>1, <2>2, <2>5, <3>1, <3>2 DEF NoGaps
  <2>10. StaleIsGone'
    <3>1. Fresh(<<>>)
      BY NothingEnds
    <3> QED BY <2>1, <2>2, <2>6, <3>1 DEF StaleIsGone, Fresh
  <2> QED BY <2>7, <2>8, <2>9, <2>10
<1>16. CASE Audio!Connect
  <2>1. audioStream' \in Audio!States \cup {"off", "setup"}
    BY <1>16 DEF Audio!Connect, Audio!States
  <2> QED BY <1>3, <1>16, <2>1 DEF Audio!Connect, Audio!buffers, Audio!gui, Audio!bounds, AudioType
<1>17. CASE UNCHANGED Audio!vars
  BY <1>3, <1>17 DEF Audio!vars, Audio!buffers, Audio!worker, Audio!gui, Audio!bounds, AudioType
<1> QED
  BY <1>5, <1>6, <1>7, <1>8, <1>9, <1>10, <1>11, <1>12, <1>13, <1>14, <1>15, <1>16,
     <1>17 DEF Audio!Next, Audio!Worker, Audio!RealTime

LEMMA AudioShows == AudioInv => RecordingIsTrue
<1> SUFFICES ASSUME AudioInv PROVE RecordingIsTrue
  OBVIOUS
<1> USE DEF AudioInv
<1>1. /\ audioRecorded \in 0 .. MaxSamples /\ MaxSamples \in Nat /\ audioRecorded \in Nat
      /\ audioSamples \in Seq(Ids) /\ audioPending \in Seq(Ids) /\ Chunk \in Seq(Ids)
      /\ Len(audioSamples) \in Nat /\ Len(audioPending) \in Nat /\ Len(Chunk) \in Nat
  BY RecorderAssumption, LenProperties DEF AudioType, Chunk
<1>2. /\ audioSamples \in Seq(1 .. MaxSamples) /\ audioPending \in Seq(1 .. MaxSamples)
      /\ audioSamples \in Seq(Int) /\ audioPending \in Seq(Int)
  BY <1>1, MoreIds DEF Ids
<1>3. Audio!TypeOK
  BY <1>2 DEF Audio!TypeOK, AudioType
<1>4. Audio!Consecutive(audioSamples)
  BY <1>1, <1>2, EndsAtConsecutive DEF NoGaps
<1>5. EndsAt(Audio!Pushed(audioSamples, audioPending), audioRecorded - Len(Chunk))
  BY <1>1, <1>2, PushedEnds DEF NoGaps
<1>6. Audio!Pushed(audioSamples, audioPending) \in Seq(Int)
  BY <1>2, PushedHolds
<1>7. Audio!NoGap
  BY <1>1, <1>4, <1>5, <1>6, EndsAtConsecutive DEF Audio!NoGap
<1>8. Audio!ClearedForGood
  <2>1. DOMAIN audioSamples = 1 .. Len(audioSamples)
    BY <1>1, LenProperties
  <2> QED BY <2>1, NothingEnds DEF Audio!ClearedForGood, StaleIsGone, Fresh, AudioType
<1> QED BY <1>3, <1>7, <1>8 DEF RecordingIsTrue

(* For any readers, capacity and chunks: the samples a reader finds are    *)
(* consecutive ones of what was recorded, none of them out of turn, and    *)
(* nothing of before a clear comes back unless the real-time thread was    *)
(* between its check of the flag and the lock (AudioCollector::loadChunk,  *)
(* readChunk and clearBuffer).                                             *)
THEOREM RecordingsAreTrue == DeskSpec => []RecordingIsTrue
  BY AudioInit, AudioStep, AudioShows, EachKeepsItsSpec, PTL DEF Audio!Spec

-----------------------------------------------------------------------------
(***************************************************************************)
(* Lyrics.  While no reply came late, what is shown, offered and saved is  *)
(* of the track; while nothing is left over, at most one request is asked  *)
(* that may end the spinner, and the spinner shows exactly then.           *)
(***************************************************************************)
Found == Words!Candidates \cup {NoService}
Songs == Tracks \cup {NoService}

Members ==
  [track : Songs, req : Nat, calls : SUBSET Words!Replies, loading : BOOLEAN, has : BOOLEAN,
   lines : Found, backend : Words!Backends, selected : Found,
   candidates : SUBSET Words!Candidates, saved : [Tracks -> Found],
   cached : SUBSET Words!Candidates]

\* No call is of a request to come.
Past(s) == \A r \in s.calls : r.req <= s.req

Awaited(s) == Words!Current(s, Words!Primary)
Accounted(s) ==
  /\ s.loading <=> Awaited(s) # {}
  /\ \A r1, r2 \in Awaited(s) : r1 = r2

LyricsType ==
  /\ lrcM \in Members /\ lrcDebounce \in BOOLEAN /\ lrcPreferred \in Words!Preferences
  /\ lrcChanges \in 0 .. LyricChanges /\ lrcBlame \subseteq {"late", "stray", "skipped"}

LyricsInv ==
  /\ LyricsType
  /\ Past(lrcM)
  /\ Words!LyricsOfTheTrack
  /\ {"stray", "skipped"} \cap lrcBlame = {} => Accounted(lrcM)

-----------------------------------------------------------------------------
\* What stays while requests are asked, aborted or given up.
Keeps(s, t) ==
  /\ t.track = s.track /\ t.req = s.req /\ t.has = s.has /\ t.lines = s.lines
  /\ t.selected = s.selected /\ t.candidates = s.candidates /\ t.saved = s.saved
  /\ t.cached = s.cached

Asks(s, t) ==
  /\ t.loading = s.loading
  /\ \E r \in Words!Replies : r.req = s.req /\ r.kind \in Words!Primary /\ t.calls = s.calls \cup {r}

Ends(s, t) == ~t.loading /\ t.calls = s.calls

LEMMA AskKeeps ==
  ASSUME NEW s \in Members, NEW kind \in Words!Primary \cup {"picker"}, NEW c,
         c.of \in Songs, c.backend \in Words!Online
  PROVE  LET t == Words!Ask(s, kind, c)
         IN  /\ t \in Members /\ Keeps(s, t) /\ t.loading = s.loading /\ t.backend = s.backend
             /\ \E r \in Words!Replies : /\ r.req = s.req /\ r.kind = kind
                                         /\ t.calls = s.calls \cup {r}
<1> DEFINE r == [req |-> s.req, kind |-> kind, of |-> c.of, backend |-> c.backend, tracked |-> TRUE]
           t == Words!Ask(s, kind, c)
<1>1. s.req \in Nat /\ s.calls \in SUBSET Words!Replies
  BY DEF Members
<1>2. r \in Words!Replies /\ r.req = s.req /\ r.kind = kind
  BY <1>1 DEF Words!Replies, Songs
<1>3. t = [s EXCEPT !.calls = s.calls \cup {r}]
  BY DEF Words!Ask
<1> HIDE DEF r, t
<1>4. s.calls \cup {r} \in SUBSET Words!Replies
  BY <1>1, <1>2
<1>5. t \in Members /\ t.calls = s.calls \cup {r} /\ Keeps(s, t) /\ t.loading = s.loading
      /\ t.backend = s.backend
  BY <1>3, <1>4 DEF Members, Keeps
<1> QED BY <1>2, <1>5 DEF t

LEMMA TryKeeps ==
  ASSUME NEW s \in Members, NEW t \in {Words!TryLrclib(s), Words!TryNetEase(s)}
  PROVE  t \in Members /\ Keeps(s, t) /\ Asks(s, t)
<1>1. ASSUME NEW kind \in Words!Primary, NEW b \in Words!Online,
             t = [Words!Ask(s, kind, [backend |-> b, of |-> s.track]) EXCEPT !.backend = b]
      PROVE  t \in Members /\ Keeps(s, t) /\ Asks(s, t)
  <2> DEFINE c == [backend |-> b, of |-> s.track]
             u == Words!Ask(s, kind, c)
  <2>1. c.of \in Songs /\ c.backend \in Words!Online /\ kind \in Words!Primary \cup {"picker"}
    BY <1>1 DEF Members
  <2> HIDE DEF c
  <2>2. /\ u \in Members /\ Keeps(s, u) /\ u.loading = s.loading
        /\ \E r \in Words!Replies : r.req = s.req /\ r.kind = kind /\ u.calls = s.calls \cup {r}
    BY <2>1, AskKeeps
  <2>3. t = [u EXCEPT !.backend = b] /\ b \in Words!Backends
    BY <1>1 DEF c, Words!Backends
  <2> HIDE DEF u
  <2>4. t \in Members /\ Keeps(u, t) /\ t.loading = u.loading /\ t.calls = u.calls
    BY <2>2, <2>3 DEF Members, Keeps
  <2> QED BY <1>1, <2>2, <2>4 DEF Keeps, Asks
<1>2. CASE t = Words!TryLrclib(s)
  BY <1>1, <1>2 DEF Words!TryLrclib, Words!Primary, Words!Online
<1>3. CASE t = Words!TryNetEase(s)
  BY <1>1, <1>3 DEF Words!TryNetEase, Words!Primary, Words!Online
<1> QED BY <1>2, <1>3

LEMMA ChainKeeps ==
  ASSUME NEW s \in Members, NEW failed
  PROVE  LET t == Words!ChainNext(s, failed)
         IN  t \in Members /\ Keeps(s, t) /\ (Asks(s, t) \/ Ends(s, t))
<1> DEFINE t == Words!ChainNext(s, failed)
           u == [s EXCEPT !.loading = FALSE]
<1>1. t \in {Words!TryLrclib(s), Words!TryNetEase(s)} \/ t = u
  BY DEF Words!ChainNext
<1>2. u \in Members /\ Keeps(s, u) /\ Ends(s, u)
  BY DEF Members, Keeps, Ends
<1> HIDE DEF t, u
<1>3. t \in Members /\ Keeps(s, t) /\ (Asks(s, t) \/ Ends(s, t))
  BY <1>1, <1>2, TryKeeps
<1> QED BY <1>3 DEF t

\* Aborting asks at most for one thing more, and for nothing when nothing
\* that may end the spinner was asked.
LEMMA CancelKeeps ==
  ASSUME NEW s \in Members, Past(s)
  PROVE  LET t == Words!CancelInFlight(s)
         IN  /\ t \in Members /\ Keeps(s, t) /\ Past(t)
             /\ Awaited(s) = {} => t.loading = s.loading
<1> DEFINE aborted == {r \in s.calls : r.tracked}
           left == [s EXCEPT !.calls = s.calls \ aborted]
           hit == aborted \cap Words!Current(s, Words!Primary)
           ran == IF \E r \in hit : r.kind = "get" THEN Words!ChainNext(left, "LRCLIB")
                  ELSE IF hit # {} THEN [left EXCEPT !.loading = FALSE]
                  ELSE left
           t == Words!CancelInFlight(s)
<1>1. t = [ran EXCEPT !.calls = {[r EXCEPT !.tracked = FALSE] : r \in ran.calls}]
  BY DEF Words!CancelInFlight
<1>2. left \in Members /\ Keeps(s, left) /\ left.loading = s.loading
      /\ left.calls \subseteq s.calls
  BY DEF Members, Keeps
<1>3. hit \subseteq Awaited(s)
  BY DEF Awaited
<1> HIDE DEF left, hit
<1>4. /\ ran \in Members /\ Keeps(left, ran)
      /\ hit = {} => ran = left
      /\ \A r \in ran.calls : r \in left.calls \/ r.req = left.req
  <2>1. CASE \E r \in hit : r.kind = "get"
    BY <1>2, <2>1, ChainKeeps DEF Asks, Ends
  <2>2. CASE ~(\E r \in hit : r.kind = "get")
    <3>1. ran = left \/ (hit # {} /\ ran = [left EXCEPT !.loading = FALSE])
      BY <2>2
    <3> HIDE DEF ran
    <3> QED BY <1>2, <3>1 DEF Members, Keeps
  <2> QED BY <2>1, <2>2
<1> HIDE DEF ran, t
<1>5. \A r \in ran.calls : /\ [r EXCEPT !.tracked = FALSE] \in Words!Replies
                           /\ [r EXCEPT !.tracked = FALSE].req = r.req
  BY <1>4 DEF Members, Words!Replies
<1>6. {[r EXCEPT !.tracked = FALSE] : r \in ran.calls} \in SUBSET Words!Replies
  BY <1>5
<1>7. /\ t \in Members /\ Keeps(ran, t) /\ t.loading = ran.loading
      /\ t.calls = {[r EXCEPT !.tracked = FALSE] : r \in ran.calls}
  BY <1>1, <1>4, <1>6 DEF Members, Keeps
<1>8. \A r \in ran.calls : r.req <= s.req
  BY <1>2, <1>4 DEF Past, Keeps, Members
<1>9. Past(t)
  BY <1>2, <1>4, <1>5, <1>7, <1>8 DEF Past, Keeps
<1>10. Awaited(s) = {} => t.loading = s.loading
  BY <1>2, <1>3, <1>4, <1>7
<1> QED BY <1>2, <1>4, <1>7, <1>9, <1>10 DEF Keeps, t

-----------------------------------------------------------------------------
\* Lines that were found end the spinner and are saved for the track.
LEMMA SetLinesKeeps ==
  ASSUME NEW s \in Members, NEW c \in Words!Candidates
  PROVE  LET t == Words!SetLines(s, c)
         IN  /\ t \in Members /\ t.has /\ t.lines = c
             /\ t.track = s.track /\ t.req = s.req /\ t.calls = s.calls /\ t.loading = s.loading
             /\ t.selected = s.selected /\ t.candidates = s.candidates /\ t.saved = s.saved
<1> DEFINE t == Words!SetLines(s, c)
<1>1. t = [s EXCEPT !.lines = c, !.backend = c.backend, !.has = TRUE]
  BY DEF Words!SetLines
<1>2. c.backend \in Words!Backends /\ c \in Found
  BY DEF Words!Candidates, Found
<1> HIDE DEF t
<1>3. /\ t.has /\ t.lines = c
      /\ t.track = s.track /\ t.req = s.req /\ t.calls = s.calls /\ t.loading = s.loading
      /\ t.selected = s.selected /\ t.candidates = s.candidates /\ t.saved = s.saved
  BY <1>1 DEF Members
<1>4. [s EXCEPT !.lines = c, !.backend = c.backend, !.has = TRUE] \in Members
  BY Zenon, <1>2 DEF Members
<1> QED BY <1>1, <1>3, <1>4 DEF t

LEMMA FoundKeeps ==
  ASSUME NEW s \in Members, NEW c \in Words!Candidates
  PROVE  LET t == Words!Found(s, c)
         IN  /\ t \in Members /\ t.has /\ t.lines = c /\ ~t.loading
             /\ t.track = s.track /\ t.req = s.req /\ t.calls = s.calls
             /\ t.candidates = s.candidates \cup {c}
             /\ \/ t.saved = s.saved
                \/ s.track \in Tracks /\ t.saved = [s.saved EXCEPT ![s.track] = c]
<1> DEFINE shown == Words!SetLines(s, c)
           chosen == [shown EXCEPT !.candidates = shown.candidates \cup {c}, !.selected = c]
           kept == Words!Persist(chosen)
           t == Words!Found(s, c)
<1>1. t = [kept EXCEPT !.loading = FALSE]
  BY DEF Words!Found
<1>2. /\ shown \in Members /\ shown.has /\ shown.lines = c
      /\ shown.track = s.track /\ shown.req = s.req /\ shown.calls = s.calls
      /\ shown.candidates = s.candidates /\ shown.saved = s.saved
  BY SetLinesKeeps
<1>3. c \in Found /\ c \in Words!Candidates
  BY DEF Found
<1> HIDE DEF shown
<1>4. shown.candidates \cup {c} \in SUBSET Words!Candidates
  BY <1>2 DEF Members
<1>5. /\ chosen \in Members /\ chosen.has /\ chosen.lines = c /\ chosen.selected = c
      /\ chosen.track = s.track /\ chosen.req = s.req /\ chosen.calls = s.calls
      /\ chosen.candidates = s.candidates \cup {c} /\ chosen.saved = s.saved
  BY <1>2, <1>3, <1>4 DEF Members
<1> HIDE DEF chosen
<1>6. \/ kept = chosen
      \/ /\ chosen.track # NoService
         /\ kept = [chosen EXCEPT !.saved = [chosen.saved EXCEPT ![chosen.track] = chosen.selected]]
  BY DEF Words!Persist
<1> HIDE DEF kept
<1>7. /\ kept \in Members /\ kept.has /\ kept.lines = c
      /\ kept.track = s.track /\ kept.req = s.req /\ kept.calls = s.calls
      /\ kept.candidates = s.candidates \cup {c}
      /\ \/ kept.saved = s.saved
         \/ s.track \in Tracks /\ kept.saved = [s.saved EXCEPT ![s.track] = c]
  <2>1. CASE kept = chosen
    BY <1>5, <2>1
  <2>2. CASE /\ chosen.track # NoService
             /\ kept = [chosen EXCEPT !.saved = [chosen.saved EXCEPT ![chosen.track] = chosen.selected]]
    <3>1. [s.saved EXCEPT ![s.track] = c] \in [Tracks -> Found] /\ s.track \in Tracks
      BY <1>3, <1>5, <2>2 DEF Members, Songs
    <3>2. kept = [chosen EXCEPT !.saved = [s.saved EXCEPT ![s.track] = c]]
      BY <1>5, <2>2
    <3> QED BY <1>5, <3>1, <3>2 DEF Members
  <2> QED BY <1>6, <2>1, <2>2
<1> HIDE DEF t
<1>8. /\ t \in Members /\ t.has /\ t.lines = c /\ ~t.loading
      /\ t.track = s.track /\ t.req = s.req /\ t.calls = s.calls
      /\ t.candidates = s.candidates \cup {c} /\ t.saved = kept.saved
  BY <1>1, <1>7 DEF Members
<1> QED BY <1>7, <1>8 DEF t

-----------------------------------------------------------------------------
\* Restoring a selection, once nothing that may end the spinner is asked.
LEMMA SelectKeeps ==
  ASSUME NEW s \in Members, Past(s), s.loading, ~s.has, Awaited(s) = {},
         NEW c \in Words!Candidates, NEW onDisk \in BOOLEAN
  PROVE  LET t == Words!SetSelectedCandidate(s, c, onDisk)
         IN  /\ t \in Members /\ Past(t)
             /\ t.track = s.track /\ t.saved = s.saved /\ t.candidates = s.candidates
             /\ t.has => t.lines = c
             /\ s.selected # c => Accounted(t)
<1> DEFINE t == Words!SetSelectedCandidate(s, c, onDisk)
           chosen == [s EXCEPT !.selected = c, !.backend = c.backend, !.loading = TRUE]
           left == Words!CancelInFlight(chosen)
           asked == [left EXCEPT !.req = left.req + 1]
           Goal == /\ t \in Members /\ Past(t)
                   /\ t.track = s.track /\ t.saved = s.saved /\ t.candidates = s.candidates
                   /\ t.has => t.lines = c
                   /\ s.selected # c => Accounted(t)
<1> SUFFICES Goal
  OBVIOUS
<1>1. \/ s.selected = c /\ t = s
      \/ t = [Words!SetLines(asked, c) EXCEPT !.loading = FALSE]
      \/ t = [asked EXCEPT !.loading = FALSE]
      \/ c.backend # "Local" /\ t = Words!Ask(asked, "byId", c)
  <2>1. asked = [Words!CancelInFlight(chosen) EXCEPT !.req = @ + 1]
    OBVIOUS
  <2> HIDE DEF asked
  <2>2. t = CASE s.selected = c -> s
              [] s.selected # c /\ c \in s.cached ->
                    [Words!SetLines(asked, c) EXCEPT !.loading = FALSE]
              [] s.selected # c /\ c \notin s.cached /\ c.backend = "Local" ->
                    [IF onDisk THEN Words!SetLines(asked, c) ELSE asked EXCEPT !.loading = FALSE]
              [] OTHER -> Words!Ask(asked, "byId", c)
    BY <2>1 DEF Words!SetSelectedCandidate
  <2> HIDE DEF t
  <2>3. CASE s.selected = c
    BY <2>2, <2>3
  <2>4. CASE s.selected # c /\ c \notin s.cached /\ c.backend # "Local"
    BY <2>2, <2>4
  <2>5. CASE s.selected # c /\ c \in s.cached
    BY <2>2, <2>5
  <2>6. CASE s.selected # c /\ c \notin s.cached /\ c.backend = "Local"
    BY <2>2, <2>6
  <2> QED BY <2>3, <2>4, <2>5, <2>6
<1>2. c.backend \in Words!Backends /\ c.of \in Songs /\ c \in Found
  BY DEF Words!Candidates, Found, Songs
<1>3. chosen \in Members
  BY Zenon, <1>2 DEF Members
<1>4. /\ chosen.track = s.track /\ chosen.saved = s.saved /\ chosen.candidates = s.candidates
      /\ chosen.has = s.has /\ chosen.loading /\ chosen.calls = s.calls /\ chosen.req = s.req
  BY DEF Members
<1> HIDE DEF chosen
<1>5. Past(chosen) /\ Awaited(chosen) = {}
  BY <1>4 DEF Past, Awaited, Words!Current
<1>6. left \in Members /\ Keeps(chosen, left) /\ Past(left) /\ left.loading
  BY <1>3, <1>4, <1>5, CancelKeeps
<1> HIDE DEF left
<1>7. /\ asked \in Members /\ asked.req = left.req + 1 /\ asked.calls = left.calls
      /\ asked.track = s.track /\ asked.saved = s.saved /\ asked.candidates = s.candidates
      /\ asked.loading /\ ~asked.has
  BY <1>4, <1>6 DEF Members, Keeps
<1> HIDE DEF asked
<1>8. left.req \in Nat /\ \A r \in asked.calls : r.req \in Nat /\ r.req < asked.req
  BY <1>6, <1>7 DEF Past, Members, Words!Replies
<1>9. Past(asked) /\ Awaited(asked) = {}
  BY <1>8, <1>7 DEF Past, Awaited, Words!Current, Members
<1> HIDE DEF t
<1>10. CASE s.selected = c /\ t = s
  BY <1>10 DEF Keeps
<1>11. CASE t = [Words!SetLines(asked, c) EXCEPT !.loading = FALSE]
  <2> DEFINE u == Words!SetLines(asked, c)
  <2>1. /\ u \in Members /\ u.lines = c /\ u.track = s.track /\ u.req = asked.req
        /\ u.calls = asked.calls /\ u.saved = s.saved /\ u.candidates = s.candidates
    BY <1>7, SetLinesKeeps
  <2> HIDE DEF u
  <2>2. /\ t \in Members /\ t.lines = c /\ t.track = s.track /\ t.req = asked.req
        /\ t.calls = asked.calls /\ t.saved = s.saved /\ t.candidates = s.candidates /\ ~t.loading
    BY <1>11, <2>1 DEF Members, u
  <2> QED BY <1>9, <2>2 DEF Past, Awaited, Accounted, Words!Current
<1>12. CASE t = [asked EXCEPT !.loading = FALSE]
  <2>1. /\ t \in Members /\ ~t.has /\ t.track = s.track /\ t.req = asked.req
        /\ t.calls = asked.calls /\ t.saved = s.saved /\ t.candidates = s.candidates /\ ~t.loading
    BY <1>7, <1>12 DEF Members
  <2> QED BY <1>9, <2>1 DEF Past, Awaited, Accounted, Words!Current
<1>13. CASE c.backend # "Local" /\ t = Words!Ask(asked, "byId", c)
  <2>1. c.backend \in Words!Online /\ "byId" \in Words!Primary \cup {"picker"}
        /\ "byId" \in Words!Primary
    BY <1>2, <1>13 DEF Words!Backends, Words!Online, Words!Primary
  <2>2. /\ t \in Members /\ Keeps(asked, t) /\ t.loading = asked.loading
        /\ \E r \in Words!Replies : /\ r.req = asked.req /\ r.kind = "byId"
                                    /\ t.calls = asked.calls \cup {r}
    <3> DEFINE kind == "byId"
    <3>1. kind \in Words!Primary \cup {"picker"} /\ t = Words!Ask(asked, kind, c)
      BY <1>13, <2>1
    <3> HIDE DEF kind
    <3>2. /\ t \in Members /\ Keeps(asked, t) /\ t.loading = asked.loading
          /\ \E r \in Words!Replies : /\ r.req = asked.req /\ r.kind = kind
                                      /\ t.calls = asked.calls \cup {r}
      <4>1. asked \in Members /\ c.of \in Songs /\ c.backend \in Words!Online
        BY <1>2, <1>7, <2>1
      <4>2. LET u == Words!Ask(asked, kind, c)
            IN  /\ u \in Members /\ Keeps(asked, u) /\ u.loading = asked.loading
                /\ \E r \in Words!Replies : /\ r.req = asked.req /\ r.kind = kind
                                            /\ u.calls = asked.calls \cup {r}
        BY <3>1, <4>1, AskKeeps
      <4> QED BY <3>1, <4>2
    <3> QED BY <3>2 DEF kind
  <2>3. PICK r \in Words!Replies : /\ r.req = asked.req /\ r.kind = "byId"
                                  /\ t.calls = asked.calls \cup {r}
    BY <2>2
  <2>4. Awaited(t) = {r}
    BY <1>8, <2>1, <2>2, <2>3 DEF Awaited, Words!Current, Keeps
  <2>5. Past(t)
    BY <1>8, <2>2, <2>3 DEF Past, Keeps, Words!Replies
  <2> QED BY <1>7, <2>2, <2>4, <2>5 DEF Accounted, Keeps
<1> QED BY <1>1, <1>10, <1>11, <1>12, <1>13

\* What a load asks for the picker does not show the spinner.
LEMMA PickerKeeps ==
  ASSUME NEW s \in Members, NEW b \in Words!Online
  PROVE  LET t == Words!Ask(s, "picker", [backend |-> b, of |-> s.track])
         IN  /\ t \in Members /\ Keeps(s, t) /\ t.loading = s.loading
             /\ Awaited(t) = Awaited(s) /\ (Past(s) => Past(t))
<1> DEFINE c == [backend |-> b, of |-> s.track]
           kind == "picker"
           t == Words!Ask(s, kind, c)
<1>1. c.of \in Songs /\ c.backend \in Words!Online /\ kind \in Words!Primary \cup {"picker"}
      /\ kind \notin Words!Primary
  BY DEF Members, Words!Primary
<1> HIDE DEF c, kind
<1>2. /\ t \in Members /\ Keeps(s, t) /\ t.loading = s.loading
      /\ \E r \in Words!Replies : r.req = s.req /\ r.kind = kind /\ t.calls = s.calls \cup {r}
  BY <1>1, AskKeeps
<1> HIDE DEF t
<1>3. PICK r \in Words!Replies : r.req = s.req /\ r.kind = kind /\ t.calls = s.calls \cup {r}
  BY <1>2
<1>4. Awaited(t) = Awaited(s)
  BY <1>1, <1>2, <1>3 DEF Awaited, Words!Current, Keeps
<1>5. Past(s) => Past(t)
  BY <1>2, <1>3 DEF Past, Keeps, Members
<1> QED BY <1>2, <1>4, <1>5 DEF t, c, kind

LEMMA SearchKeeps ==
  ASSUME NEW s \in Members
  PROVE  LET t == Words!SearchCandidates(s)
         IN  /\ t \in Members /\ Keeps(s, t) /\ t.loading = s.loading
             /\ Awaited(t) = Awaited(s) /\ (Past(s) => Past(t))
<1> DEFINE u == Words!Ask(s, "picker", [backend |-> "LRCLIB", of |-> s.track])
           t == Words!Ask(u, "picker", [backend |-> "NetEase", of |-> u.track])
<1>1. "LRCLIB" \in Words!Online /\ "NetEase" \in Words!Online
  BY DEF Words!Online
<1>2. /\ u \in Members /\ Keeps(s, u) /\ u.loading = s.loading
      /\ Awaited(u) = Awaited(s) /\ (Past(s) => Past(u))
  BY <1>1, PickerKeeps
<1>3. Words!SearchCandidates(s) = t
  BY <1>2 DEF Words!SearchCandidates, Keeps
<1> HIDE DEF u
<1>4. /\ t \in Members /\ Keeps(u, t) /\ t.loading = u.loading
      /\ Awaited(t) = Awaited(u) /\ (Past(u) => Past(t))
  BY <1>1, <1>2, PickerKeeps
<1> HIDE DEF t
<1> QED BY <1>2, <1>3, <1>4 DEF Keeps

\* Where a load starts from: the spinner shows, nothing is shown or asked.
LEMMA ClearedKeeps ==
  ASSUME NEW s \in Members, Past(s)
  PROVE  LET t == Words!SearchCandidates(Words!Cleared(s))
         IN  /\ t \in Members /\ Past(t) /\ t.loading /\ ~t.has /\ Awaited(t) = {}
             /\ t.track = s.track /\ t.saved = s.saved /\ t.candidates = {}
             /\ t.selected = s.selected
<1> DEFINE left == Words!CancelInFlight(s)
           u == Words!Cleared(s)
           t == Words!SearchCandidates(u)
<1>1. left \in Members /\ Keeps(s, left) /\ Past(left)
  BY CancelKeeps
<1>2. u = [left EXCEPT !.req = left.req + 1, !.loading = TRUE, !.has = FALSE, !.candidates = {}]
  BY DEF Words!Cleared
<1> HIDE DEF left, u
<1>3. left.req + 1 \in Nat /\ {} \in SUBSET Words!Candidates /\ left.req \in Nat
  BY <1>1 DEF Members
<1>4. [left EXCEPT !.req = left.req + 1, !.loading = TRUE, !.has = FALSE, !.candidates = {}] \in Members
  BY Zenon, <1>1, <1>3 DEF Members
<1>5. /\ u \in Members /\ u.req = left.req + 1 /\ u.loading /\ ~u.has /\ u.candidates = {}
      /\ u.track = s.track /\ u.saved = s.saved /\ u.selected = s.selected /\ u.calls = left.calls
  <2>1. u \in Members
    BY <1>2, <1>4
  <2>2. /\ u.req = left.req + 1 /\ u.loading /\ ~u.has /\ u.candidates = {}
        /\ u.track = left.track /\ u.saved = left.saved /\ u.selected = left.selected
        /\ u.calls = left.calls
    BY <1>1, <1>2 DEF Members
  <2> QED BY <1>1, <2>1, <2>2 DEF Keeps
<1>6. \A r \in u.calls : r.req \in Nat /\ r.req <= left.req
  BY <1>1, <1>5 DEF Past, Members, Words!Replies
<1>7. Past(u) /\ Awaited(u) = {}
  BY <1>3, <1>5, <1>6 DEF Past, Awaited, Words!Current
<1>8. /\ t \in Members /\ Keeps(u, t) /\ t.loading = u.loading
      /\ Awaited(t) = Awaited(u) /\ Past(t)
  BY <1>5, <1>7, SearchKeeps
<1> HIDE DEF t
<1>9. /\ t \in Members /\ Past(t) /\ t.loading /\ ~t.has /\ Awaited(t) = {}
      /\ t.track = s.track /\ t.saved = s.saved /\ t.candidates = {}
      /\ t.selected = s.selected
  BY <1>5, <1>7, <1>8 DEF Keeps
<1> QED BY <1>9 DEF t, u

\* Asking for one thing, or ending the spinner, accounts for it.
LEMMA AskedIsAccounted ==
  ASSUME NEW s \in Members, s.loading, Awaited(s) = {}, NEW t \in Members, Keeps(s, t),
         Asks(s, t) \/ Ends(s, t)
  PROVE  Accounted(t) /\ (Past(s) => Past(t))
<1>1. CASE Asks(s, t)
  <2>1. PICK r \in Words!Replies : r.req = s.req /\ r.kind \in Words!Primary /\ t.calls = s.calls \cup {r}
    BY <1>1 DEF Asks
  <2>2. Awaited(t) = {r}
    BY <2>1 DEF Awaited, Words!Current, Keeps
  <2>3. Past(s) => Past(t)
    BY <2>1 DEF Past, Keeps, Members
  <2> QED BY <1>1, <2>2, <2>3 DEF Accounted, Asks
<1>2. CASE Ends(s, t)
  BY <1>2 DEF Ends, Accounted, Awaited, Words!Current, Keeps, Past
<1> QED BY <1>1, <1>2

-----------------------------------------------------------------------------
\* The saved selections and, once loaded, what is shown and offered.
SavedAreOwn(s) == \A t \in Tracks : s.saved[t] # NoService => s.saved[t].of = t
ShownIsOwn(s) ==
  /\ s.has => s.lines.of = s.track
  /\ \A c \in s.candidates : c.of = s.track

\* What a backend is asked or has on disk.
LEMMA TryShows ==
  ASSUME NEW s \in Members, Past(s), s.loading, ~s.has, Awaited(s) = {}, s.candidates = {},
         NEW onDisk \in BOOLEAN,
         NEW t \in {Words!TryLrclib(s), Words!TryNetEase(s), Words!TryLocal(s, onDisk)},
         s.track \in Tracks
  PROVE  /\ t \in Members /\ Past(t) /\ t.track = s.track /\ Accounted(t) /\ ShownIsOwn(t)
         /\ SavedAreOwn(s) => SavedAreOwn(t)
<1>1. ASSUME NEW u \in Members, Keeps(s, u), Asks(s, u) \/ Ends(s, u)
      PROVE  /\ Past(u) /\ u.track = s.track /\ Accounted(u) /\ ShownIsOwn(u)
             /\ SavedAreOwn(s) => SavedAreOwn(u)
  BY <1>1, AskedIsAccounted DEF Keeps, ShownIsOwn, SavedAreOwn
<1>2. CASE t \in {Words!TryLrclib(s), Words!TryNetEase(s)}
  BY <1>1, <1>2, TryKeeps
<1>3. CASE t = Words!TryLocal(s, onDisk)
  <2> DEFINE here == [s EXCEPT !.backend = "Local"]
             c == [backend |-> "Local", of |-> s.track]
  <2>1. here \in Members /\ Keeps(s, here) /\ here.loading = s.loading /\ here.calls = s.calls
    BY DEF Members, Keeps, Words!Backends
  <2>2. t = IF onDisk THEN Words!Found(here, [backend |-> "Local", of |-> here.track])
            ELSE Words!ChainNext(here, "Local")
    BY <1>3 DEF Words!TryLocal
  <2>3. c \in Words!Candidates /\ c.of = s.track
    BY DEF Words!Candidates, Words!Backends, Songs
  <2>4. t = IF onDisk THEN Words!Found(here, c) ELSE Words!ChainNext(here, "Local")
    BY <2>1, <2>2 DEF Keeps
  <2> HIDE DEF here, c
  <2>5. CASE onDisk
    <3>1. /\ t \in Members /\ t.has /\ t.lines = c /\ ~t.loading
          /\ t.track = here.track /\ t.req = here.req /\ t.calls = here.calls
          /\ t.candidates = here.candidates \cup {c}
          /\ \/ t.saved = here.saved
             \/ here.track \in Tracks /\ t.saved = [here.saved EXCEPT ![here.track] = c]
      BY <2>1, <2>3, <2>4, <2>5, FoundKeeps
    <3>2. t.candidates = {c} /\ t.track = s.track /\ t.req = s.req /\ t.calls = s.calls
      BY <2>1, <3>1 DEF Keeps
    <3>3. Past(t) /\ Accounted(t)
      BY <3>1, <3>2 DEF Past, Accounted, Awaited, Words!Current
    <3>4. ShownIsOwn(t)
      BY <2>3, <3>1, <3>2 DEF ShownIsOwn
    <3>5. SavedAreOwn(s) => SavedAreOwn(t)
      BY <2>1, <2>3, <3>1 DEF SavedAreOwn, Keeps, Members
    <3> QED BY <3>1, <3>2, <3>3, <3>4, <3>5
  <2>6. CASE ~onDisk
    <3>1. t \in Members /\ Keeps(here, t) /\ (Asks(here, t) \/ Ends(here, t))
      BY <2>1, <2>4, <2>6, ChainKeeps
    <3>2. Keeps(s, t) /\ (Asks(s, t) \/ Ends(s, t))
      BY <2>1, <3>1 DEF Keeps, Asks, Ends
    <3> QED BY <1>1, <3>1, <3>2
  <2> QED BY <2>5, <2>6
<1> QED BY <1>2, <1>3

LEMMA LoadShows ==
  ASSUME LyricsType, Past(lrcM), NEW onDisk \in BOOLEAN, Words!Load(onDisk)
  PROVE  /\ lrcM' \in Members /\ Past(lrcM') /\ lrcM'.track = lrcM.track
         /\ SavedAreOwn(lrcM) => SavedAreOwn(lrcM') /\ ShownIsOwn(lrcM')
         /\ "skipped" \notin lrcBlame' => Accounted(lrcM')
         /\ lrcBlame \ {"stray", "skipped"} \subseteq lrcBlame'
         /\ lrcBlame' \subseteq {"late", "skipped"}
         /\ ~lrcDebounce' /\ UNCHANGED <<lrcPreferred, lrcChanges>>
<1> DEFINE s == Words!SearchCandidates(Words!Cleared(lrcM))
           restored == s.saved[s.track]
<1>1. /\ s \in Members /\ Past(s) /\ s.loading /\ ~s.has /\ Awaited(s) = {}
      /\ s.track = lrcM.track /\ s.saved = lrcM.saved /\ s.candidates = {}
  BY ClearedKeeps DEF LyricsType
<1>2. /\ lrcM' = CASE restored # NoService -> Words!SetSelectedCandidate(s, restored, onDisk)
                  [] restored = NoService /\ lrcPreferred = "LRCLIB"  -> Words!TryLrclib(s)
                  [] restored = NoService /\ lrcPreferred = "NetEase" -> Words!TryNetEase(s)
                  [] OTHER -> Words!TryLocal(s, onDisk)
      /\ lrcBlame' = (lrcBlame \ {"stray", "skipped"}) \cup
                       (IF restored # NoService /\ restored = s.selected THEN {"skipped"} ELSE {})
      /\ lrcM.track # NoService
      /\ ~lrcDebounce' /\ UNCHANGED <<lrcPreferred, lrcChanges>>
  BY DEF Words!Load
<1> HIDE DEF s
<1>3. s.track \in Tracks /\ restored \in Found
  BY <1>1, <1>2 DEF LyricsType, Members, Songs
<1>4. CASE restored # NoService
  <2>1. restored \in Words!Candidates
    BY <1>3, <1>4 DEF Found
  <2>2. lrcM' = Words!SetSelectedCandidate(s, restored, onDisk)
    BY <1>2, <1>4
  <2>3. /\ lrcM' \in Members /\ Past(lrcM')
        /\ lrcM'.track = s.track /\ lrcM'.saved = s.saved /\ lrcM'.candidates = s.candidates
        /\ lrcM'.has => lrcM'.lines = restored
        /\ s.selected # restored => Accounted(lrcM')
    BY <1>1, <2>1, <2>2, SelectKeeps
  <2>4. SavedAreOwn(lrcM) => SavedAreOwn(lrcM') /\ ShownIsOwn(lrcM')
    BY <1>1, <1>3, <1>4, <2>3 DEF SavedAreOwn, ShownIsOwn
  <2>5. /\ "skipped" \notin lrcBlame' => Accounted(lrcM')
        /\ lrcBlame \ {"stray", "skipped"} \subseteq lrcBlame'
        /\ lrcBlame' \subseteq {"late", "skipped"}
    BY <1>2, <1>4, <2>3 DEF LyricsType
  <2> QED BY <1>1, <1>2, <2>3, <2>4, <2>5
<1>5. CASE restored = NoService
  <2>1. lrcM' \in {Words!TryLrclib(s), Words!TryNetEase(s), Words!TryLocal(s, onDisk)}
    <3>1. CASE lrcPreferred = "LRCLIB"
      BY <1>2, <1>5, <3>1
    <3>2. CASE lrcPreferred = "NetEase"
      BY <1>2, <1>5, <3>2
    <3>3. CASE lrcPreferred # "LRCLIB" /\ lrcPreferred # "NetEase"
      BY <1>2, <1>5, <3>3
    <3> QED BY <3>1, <3>2, <3>3
  <2>2. /\ lrcM' \in Members /\ Past(lrcM') /\ lrcM'.track = s.track /\ Accounted(lrcM')
        /\ ShownIsOwn(lrcM') /\ (SavedAreOwn(s) => SavedAreOwn(lrcM'))
    BY <1>1, <1>3, <2>1, TryShows
  <2>3. SavedAreOwn(lrcM) => SavedAreOwn(s)
    BY <1>1 DEF SavedAreOwn
  <2>4. /\ lrcBlame \ {"stray", "skipped"} \subseteq lrcBlame'
        /\ lrcBlame' \subseteq {"late", "skipped"}
    BY <1>2, <1>5 DEF LyricsType
  <2> QED BY <1>1, <1>2, <2>2, <2>3, <2>4
<1> QED BY <1>4, <1>5

-----------------------------------------------------------------------------
\* A reply of the current request, taken off the calls, has the outcome t.
Outcome(t) ==
  /\ t \in Members /\ Past(t) /\ t.track = lrcM.track
  /\ Accounted(lrcM) => Accounted(t)

LEMMA ArrivedKeeps ==
  ASSUME lrcM \in Members, Past(lrcM), NEW r \in lrcM.calls
  PROVE  LET s == Words!Arrived(r)
         IN  /\ s \in Members /\ Keeps(lrcM, s) /\ s.loading = lrcM.loading
             /\ s.calls = lrcM.calls \ {r} /\ Past(s)
             /\ r.req # lrcM.req \/ r.kind \notin Words!Primary => Awaited(s) = Awaited(lrcM)
             /\ r.req = lrcM.req /\ r.kind \in Words!Primary /\ Accounted(lrcM) =>
                  lrcM.loading /\ Awaited(s) = {}
<1> DEFINE s == Words!Arrived(r)
<1>1. s = [lrcM EXCEPT !.calls = lrcM.calls \ {r}]
  BY DEF Words!Arrived
<1> HIDE DEF s
<1>2. s \in Members /\ Keeps(lrcM, s) /\ s.loading = lrcM.loading /\ s.calls = lrcM.calls \ {r}
  BY <1>1 DEF Members, Keeps
<1>3. Past(s)
  BY <1>2 DEF Past, Keeps
<1>4. r.req # lrcM.req \/ r.kind \notin Words!Primary => Awaited(s) = Awaited(lrcM)
  BY <1>2 DEF Awaited, Words!Current, Keeps
<1>5. r.req = lrcM.req /\ r.kind \in Words!Primary /\ Accounted(lrcM) =>
        lrcM.loading /\ Awaited(s) = {}
  BY <1>2 DEF Awaited, Words!Current, Keeps, Accounted
<1> QED BY <1>2, <1>3, <1>4, <1>5 DEF s

LEMMA AnsweredShows ==
  ASSUME lrcM \in Members, Past(lrcM), NEW r \in lrcM.calls, Words!Answered(r)
  PROVE  /\ Outcome(lrcM')
         /\ r.of = lrcM.track /\ SavedAreOwn(lrcM) => SavedAreOwn(lrcM')
         /\ r.of = lrcM.track /\ ShownIsOwn(lrcM) => ShownIsOwn(lrcM')
<1> DEFINE s == Words!Arrived(r)
           c == [backend |-> r.backend, of |-> r.of]
           more == [s EXCEPT !.cached = s.cached \cup {c}]
<1>1. /\ s \in Members /\ Keeps(lrcM, s) /\ s.loading = lrcM.loading
      /\ s.calls = lrcM.calls \ {r} /\ Past(s)
      /\ r.kind \notin Words!Primary => Awaited(s) = Awaited(lrcM)
      /\ r.kind \in Words!Primary /\ Accounted(lrcM) => lrcM.loading /\ Awaited(s) = {}
  BY ArrivedKeeps DEF Words!Answered
<1>2. lrcM' = CASE r.kind = "picker" -> [s EXCEPT !.candidates = s.candidates \cup {c}]
                [] r.kind = "get"    -> Words!Found(more, c)
                [] r.kind = "search" -> Words!Ask(s, "byId", c)
                [] r.kind = "byId"   -> [Words!SetLines(more, c) EXCEPT !.loading = FALSE]
  BY DEF Words!Answered
<1>3. r \in Words!Replies /\ r.kind \in {"get", "search", "byId", "picker"}
      /\ Words!Primary = {"get", "search", "byId"}
  BY DEF Members, Words!Replies, Words!Primary
<1>4. c \in Words!Candidates /\ c.of = r.of /\ c.of \in Songs /\ c.backend \in Words!Online
  BY <1>3 DEF Words!Replies, Words!Candidates, Words!Backends, Songs
<1> HIDE DEF s, c
<1>5. s.cached \cup {c} \in SUBSET Words!Candidates /\ s.candidates \cup {c} \in SUBSET Words!Candidates
  BY <1>1, <1>4 DEF Members
<1>6. more \in Members /\ Keeps([s EXCEPT !.cached = more.cached], more) /\ more.loading = s.loading
      /\ more.calls = s.calls /\ more.track = s.track /\ more.req = s.req /\ more.saved = s.saved
      /\ more.candidates = s.candidates /\ more.has = s.has /\ more.lines = s.lines
  BY <1>1, <1>5 DEF Members, Keeps
<1> HIDE DEF more
<1>7. CASE r.kind = "picker"
  <2>1. lrcM' = [s EXCEPT !.candidates = s.candidates \cup {c}]
    BY <1>2, <1>7
  <2>2. /\ lrcM' \in Members /\ lrcM'.track = s.track /\ lrcM'.req = s.req /\ lrcM'.calls = s.calls
        /\ lrcM'.loading = s.loading /\ lrcM'.has = s.has /\ lrcM'.lines = s.lines
        /\ lrcM'.saved = s.saved /\ lrcM'.candidates = s.candidates \cup {c}
    BY <1>1, <1>5, <2>1 DEF Members
  <2>3. Past(lrcM') /\ Awaited(lrcM') = Awaited(lrcM)
    BY <1>1, <1>3, <1>7, <2>2 DEF Past, Awaited, Words!Current
  <2>4. Outcome(lrcM')
    BY <1>1, <2>2, <2>3 DEF Outcome, Accounted, Keeps
  <2> QED BY <1>1, <1>4, <2>2, <2>4 DEF Keeps, SavedAreOwn, ShownIsOwn
<1>8. CASE r.kind = "get"
  <2>1. /\ lrcM' \in Members /\ lrcM'.has /\ lrcM'.lines = c /\ ~lrcM'.loading
        /\ lrcM'.track = more.track /\ lrcM'.req = more.req /\ lrcM'.calls = more.calls
        /\ lrcM'.candidates = more.candidates \cup {c}
        /\ \/ lrcM'.saved = more.saved
           \/ more.track \in Tracks /\ lrcM'.saved = [more.saved EXCEPT ![more.track] = c]
    <3>1. lrcM' = Words!Found(more, c)
      BY <1>2, <1>8
    <3> QED BY <1>4, <1>6, <3>1, FoundKeeps
  <2>2. lrcM'.track = lrcM.track /\ lrcM'.calls = s.calls /\ lrcM'.req = s.req
        /\ lrcM'.candidates = lrcM.candidates \cup {c} /\ more.saved = lrcM.saved
        /\ more.track = lrcM.track
    BY <1>1, <1>6, <2>1 DEF Keeps
  <2>3. Past(lrcM') /\ (Accounted(lrcM) => Accounted(lrcM'))
    BY <1>1, <1>3, <1>8, <2>1, <2>2 DEF Past, Accounted, Awaited, Words!Current
  <2>4. r.of = lrcM.track /\ SavedAreOwn(lrcM) => SavedAreOwn(lrcM')
    BY <1>4, <2>1, <2>2 DEF SavedAreOwn, Members
  <2>5. r.of = lrcM.track /\ ShownIsOwn(lrcM) => ShownIsOwn(lrcM')
    BY <1>4, <2>1, <2>2 DEF ShownIsOwn
  <2> QED BY <2>1, <2>2, <2>3, <2>4, <2>5 DEF Outcome
<1>9. CASE r.kind = "search"
  <2> DEFINE kind == "byId"
  <2>1. kind \in Words!Primary \cup {"picker"} /\ lrcM' = Words!Ask(s, kind, c) /\ kind \in Words!Primary
    BY <1>2, <1>3, <1>9
  <2> HIDE DEF kind
  <2>2. LET u == Words!Ask(s, kind, c)
        IN  /\ u \in Members /\ Keeps(s, u) /\ u.loading = s.loading
            /\ \E q \in Words!Replies : q.req = s.req /\ q.kind = kind /\ u.calls = s.calls \cup {q}
    BY <1>1, <1>4, <2>1, AskKeeps
  <2>3. lrcM' \in Members /\ Keeps(s, lrcM') /\ Asks(s, lrcM')
    BY <2>1, <2>2 DEF Asks
  <2>4. Past(lrcM')
    BY <1>1, <2>3 DEF Past, Asks, Keeps, Members
  <2>5. Accounted(lrcM) => Accounted(lrcM')
    BY <1>1, <1>3, <1>9, <2>3, AskedIsAccounted
  <2> QED BY <1>1, <2>3, <2>4, <2>5 DEF Keeps, Outcome, SavedAreOwn, ShownIsOwn
<1>10. CASE r.kind = "byId"
  <2> DEFINE u == Words!SetLines(more, c)
  <2>1. /\ u \in Members /\ u.has /\ u.lines = c /\ u.track = more.track /\ u.req = more.req
        /\ u.calls = more.calls /\ u.saved = more.saved /\ u.candidates = more.candidates
    BY <1>4, <1>6, SetLinesKeeps
  <2>2. lrcM' = [u EXCEPT !.loading = FALSE]
    BY <1>2, <1>10
  <2> HIDE DEF u
  <2>3. /\ lrcM' \in Members /\ lrcM'.has /\ lrcM'.lines = c /\ ~lrcM'.loading
        /\ lrcM'.track = u.track /\ lrcM'.req = u.req /\ lrcM'.calls = u.calls
        /\ lrcM'.saved = u.saved /\ lrcM'.candidates = u.candidates
    BY <2>1, <2>2 DEF Members
  <2>4. lrcM'.track = lrcM.track /\ lrcM'.calls = s.calls /\ lrcM'.req = s.req
        /\ lrcM'.candidates = lrcM.candidates /\ lrcM'.saved = lrcM.saved
    BY <1>1, <1>6, <2>1, <2>3 DEF Keeps
  <2>5. Past(lrcM') /\ (Accounted(lrcM) => Accounted(lrcM'))
    BY <1>1, <1>3, <1>10, <2>3, <2>4 DEF Past, Accounted, Awaited, Words!Current
  <2> QED BY <1>4, <2>3, <2>4, <2>5 DEF Outcome, SavedAreOwn, ShownIsOwn
<1> QED BY <1>3, <1>7, <1>8, <1>9, <1>10

LEMMA FailedShows ==
  ASSUME lrcM \in Members, Past(lrcM), NEW r \in lrcM.calls, Words!Failed(r)
  PROVE  /\ Outcome(lrcM')
         /\ SavedAreOwn(lrcM) => SavedAreOwn(lrcM')
         /\ ShownIsOwn(lrcM) => ShownIsOwn(lrcM')
<1> DEFINE s == Words!Arrived(r)
<1>1. /\ s \in Members /\ Keeps(lrcM, s) /\ s.loading = lrcM.loading
      /\ s.calls = lrcM.calls \ {r} /\ Past(s)
      /\ r.kind \notin Words!Primary => Awaited(s) = Awaited(lrcM)
      /\ r.kind \in Words!Primary /\ Accounted(lrcM) => lrcM.loading /\ Awaited(s) = {}
  BY ArrivedKeeps DEF Words!Failed
<1>2. lrcM' = CASE r.kind = "picker" -> s
                [] r.kind = "byId"   -> [s EXCEPT !.loading = FALSE]
                [] OTHER -> Words!ChainNext(s, r.backend)
  BY DEF Words!Failed
<1>3. r.kind \in {"get", "search", "byId", "picker"} /\ Words!Primary = {"get", "search", "byId"}
  BY DEF Members, Words!Replies, Words!Primary
<1> HIDE DEF s
<1>4. CASE r.kind = "picker"
  BY <1>1, <1>2, <1>3, <1>4 DEF Outcome, Accounted, Keeps, SavedAreOwn, ShownIsOwn
<1>5. ASSUME r.kind # "picker", lrcM' \in Members, Keeps(s, lrcM'), Asks(s, lrcM') \/ Ends(s, lrcM')
      PROVE  /\ Outcome(lrcM')
             /\ SavedAreOwn(lrcM) => SavedAreOwn(lrcM')
             /\ ShownIsOwn(lrcM) => ShownIsOwn(lrcM')
  <2>1. Past(lrcM')
    BY <1>1, <1>5 DEF Past, Asks, Ends, Keeps, Members
  <2>2. Accounted(lrcM) => Accounted(lrcM')
    BY <1>1, <1>3, <1>5, AskedIsAccounted
  <2> QED BY <1>1, <1>5, <2>1, <2>2 DEF Outcome, Keeps, SavedAreOwn, ShownIsOwn
<1>6. CASE r.kind = "byId"
  <2>1. lrcM' = [s EXCEPT !.loading = FALSE]
    BY <1>2, <1>6
  <2>2. lrcM' \in Members /\ Keeps(s, lrcM') /\ Ends(s, lrcM')
    BY <1>1, <2>1 DEF Members, Keeps, Ends
  <2> QED BY <1>5, <1>6, <2>2
<1>7. CASE r.kind \in {"get", "search"}
  <2>1. lrcM' = Words!ChainNext(s, r.backend)
    BY <1>2, <1>7
  <2>2. LET u == Words!ChainNext(s, r.backend)
        IN  u \in Members /\ Keeps(s, u) /\ (Asks(s, u) \/ Ends(s, u))
    BY <1>1, ChainKeeps
  <2> QED BY <1>5, <1>7, <2>1, <2>2
<1> QED BY <1>3, <1>4, <1>6, <1>7

-----------------------------------------------------------------------------
\* What a step may leave of what was shown, asked and saved.
Right(s, waits, blame) ==
  /\ s \in Members /\ Past(s)
  /\ "late" \notin blame => SavedAreOwn(s) /\ (~waits => ShownIsOwn(s))
  /\ {"stray", "skipped"} \cap blame = {} => Accounted(s)

LEMMA LyricsParts ==
  /\ LyricsInv <=> LyricsType /\ Right(lrcM, lrcDebounce, lrcBlame)
  /\ LyricsInv => Words!TypeOK /\ Words!LyricsOfTheTrack /\ Words!LoadingIsAccounted
<1>1. Words!LyricsOfTheTrack <=>
        ("late" \notin lrcBlame => SavedAreOwn(lrcM) /\ (~lrcDebounce => ShownIsOwn(lrcM)))
  BY DEF Words!LyricsOfTheTrack, SavedAreOwn, ShownIsOwn
<1>2. LyricsInv <=> LyricsType /\ Right(lrcM, lrcDebounce, lrcBlame)
  BY <1>1 DEF LyricsInv, LyricsType, Right
<1>3. LyricsInv => Words!LoadingIsAccounted
  BY DEF LyricsInv, Words!LoadingIsAccounted, Accounted, Awaited
<1>4. LyricsType => Words!TypeOK
  BY DEF LyricsType, Words!TypeOK, Members, Found, Songs
<1> QED BY <1>2, <1>3, <1>4 DEF LyricsInv

LEMMA LyricsInit == Words!Init => LyricsInv
<1> SUFFICES ASSUME Words!Init PROVE LyricsInv
  OBVIOUS
<1>1. lrcM \in Members
  <2>1. NoService \in Found /\ NoService \in Songs /\ 0 \in Nat /\ "Local" \in Words!Backends
        /\ FALSE \in BOOLEAN /\ {} \in SUBSET Words!Replies /\ {} \in SUBSET Words!Candidates
        /\ [t \in Tracks |-> NoService] \in [Tracks -> Found]
    BY DEF Found, Songs, Words!Backends
  <2> QED BY Zenon, <2>1 DEF Words!Init, Members
<1>2. lrcM.calls = {} /\ ~lrcM.loading /\ ~lrcM.has /\ lrcM.candidates = {}
      /\ lrcM.saved = [t \in Tracks |-> NoService]
  BY DEF Words!Init
<1>3. LyricsType
  <2>1. /\ lrcDebounce \in BOOLEAN /\ lrcPreferred \in Words!Preferences
        /\ lrcChanges = 0 /\ lrcBlame = {}
    BY DEF Words!Init
  <2> QED BY <1>1, <2>1, ChangesAssumption DEF LyricsType
<1>4. Past(lrcM) /\ Accounted(lrcM) /\ SavedAreOwn(lrcM) /\ ShownIsOwn(lrcM)
  BY <1>2 DEF Past, Accounted, Awaited, Words!Current, SavedAreOwn, ShownIsOwn
<1> QED BY <1>1, <1>3, <1>4, LyricsParts DEF Right

LEMMA LyricsStep == LyricsInv /\ [Words!Next]_Words!vars => LyricsInv'
<1> SUFFICES ASSUME LyricsInv, [Words!Next]_Words!vars PROVE LyricsInv'
  OBVIOUS
<1>0. LyricsType /\ Right(lrcM, lrcDebounce, lrcBlame)
  BY LyricsParts
<1>p. LyricsType' /\ Right(lrcM', lrcDebounce', lrcBlame') => LyricsInv'
  BY DEF LyricsInv, Right, Words!LyricsOfTheTrack, SavedAreOwn, ShownIsOwn
<1>c. Words!Changed => lrcChanges' \in 0 .. LyricChanges
  BY <1>0, ChangesAssumption DEF Words!Changed, LyricsType
<1>1. ASSUME NEW t \in Songs, Words!SetTrack(t) PROVE LyricsInv'
  <2>1. lrcM' = [lrcM EXCEPT !.track = t] /\ lrcDebounce' /\ UNCHANGED <<lrcPreferred, lrcBlame>>
        /\ lrcChanges' \in 0 .. LyricChanges /\ lrcM \in Members
    BY <1>0, <1>1, <1>c DEF Words!SetTrack, LyricsType
  <2>2. /\ lrcM' \in Members /\ lrcM'.req = lrcM.req /\ lrcM'.calls = lrcM.calls
        /\ lrcM'.loading = lrcM.loading /\ lrcM'.saved = lrcM.saved
    BY <2>1 DEF Members
  <2>3. LyricsType'
    BY <1>0, <1>1, <2>1, <2>2 DEF LyricsType, Words!SetTrack
  <2>4. Right(lrcM', lrcDebounce', lrcBlame')
    BY <1>0, <2>1, <2>2 DEF Right, Past, SavedAreOwn, Accounted, Awaited, Words!Current
  <2> QED BY <1>p, <2>3, <2>4
<1>2. ASSUME Words!ClearTrack PROVE LyricsInv'
  <2> DEFINE s == Words!CancelInFlight(lrcM)
  <2>1. /\ lrcM' = [s EXCEPT !.track = NoService, !.candidates = {}, !.has = FALSE, !.loading = FALSE]
        /\ lrcBlame' = IF Awaited(s) = {} THEN lrcBlame ELSE lrcBlame \cup {"stray"}
        /\ UNCHANGED <<lrcDebounce, lrcPreferred>> /\ lrcChanges' \in 0 .. LyricChanges
    <3>1. lrcM' = [s EXCEPT !.track = NoService, !.candidates = {}, !.has = FALSE, !.loading = FALSE]
      BY <1>2 DEF Words!ClearTrack
    <3>2. lrcBlame' = IF Awaited(s) = {} THEN lrcBlame ELSE lrcBlame \cup {"stray"}
      BY <1>2 DEF Words!ClearTrack, Awaited
    <3>3. UNCHANGED <<lrcDebounce, lrcPreferred>> /\ Words!Changed
      BY <1>2 DEF Words!ClearTrack
    <3> QED BY <1>c, <3>1, <3>2, <3>3
  <2>2. s \in Members /\ Keeps(lrcM, s) /\ Past(s)
    BY <1>0, CancelKeeps DEF Right
  <2> HIDE DEF s
  <2>3. /\ lrcM' \in Members /\ lrcM'.track = NoService /\ lrcM'.candidates = {} /\ ~lrcM'.has
        /\ ~lrcM'.loading /\ lrcM'.req = s.req /\ lrcM'.calls = s.calls /\ lrcM'.saved = s.saved
    <3>1. NoService \in Songs /\ {} \in SUBSET Words!Candidates /\ FALSE \in BOOLEAN
      BY DEF Songs
    <3>2. [s EXCEPT !.track = NoService, !.candidates = {}, !.has = FALSE, !.loading = FALSE] \in Members
      BY Zenon, <2>2, <3>1 DEF Members
    <3> QED BY <2>1, <2>2, <3>2 DEF Members
  <2>4. LyricsType'
    BY <1>0, <2>1, <2>3 DEF LyricsType
  <2>5. Awaited(lrcM') = Awaited(s) /\ Past(lrcM')
    BY <2>2, <2>3 DEF Past, Awaited, Words!Current
  <2>6. {"stray", "skipped"} \cap lrcBlame' = {} => Accounted(lrcM')
    BY <2>1, <2>2, <2>3, <2>5 DEF Accounted
  <2>7. "late" \notin lrcBlame' => SavedAreOwn(lrcM') /\ ShownIsOwn(lrcM')
    BY <1>0, <2>1, <2>2, <2>3 DEF Right, SavedAreOwn, ShownIsOwn, Keeps
  <2> QED BY <1>p, <2>3, <2>4, <2>5, <2>6, <2>7 DEF Right
<1>3. ASSUME lrcM' = lrcM, lrcDebounce', UNCHANGED lrcBlame, Words!Changed,
             lrcPreferred' \in Words!Preferences
      PROVE  LyricsInv'
  BY <1>0, <1>3, <1>c, <1>p DEF LyricsType, Right
<1>4. ASSUME NEW b \in Words!Preferences, Words!SetPreferredBackend(b) PROVE LyricsInv'
  BY <1>3, <1>4 DEF Words!SetPreferredBackend
<1>5. ASSUME Words!Refresh PROVE LyricsInv'
  BY <1>0, <1>3, <1>5 DEF Words!Refresh, LyricsType
<1>6. ASSUME Words!LoadNothing PROVE LyricsInv'
  <2>1. /\ lrcM' = [lrcM EXCEPT !.has = FALSE, !.candidates = {}, !.loading = FALSE]
        /\ lrcBlame' = IF Awaited(lrcM) = {} THEN lrcBlame ELSE lrcBlame \cup {"stray"}
        /\ ~lrcDebounce' /\ lrcDebounce' \in BOOLEAN /\ UNCHANGED <<lrcPreferred, lrcChanges>>
    BY <1>6 DEF Words!LoadNothing, Awaited
  <2>2. /\ lrcM' \in Members /\ lrcM'.candidates = {} /\ ~lrcM'.has /\ ~lrcM'.loading
        /\ lrcM'.req = lrcM.req /\ lrcM'.calls = lrcM.calls /\ lrcM'.saved = lrcM.saved
    <3>1. {} \in SUBSET Words!Candidates /\ FALSE \in BOOLEAN
      OBVIOUS
    <3>2. [lrcM EXCEPT !.has = FALSE, !.candidates = {}, !.loading = FALSE] \in Members
      BY Zenon, <1>0, <3>1 DEF Members, Right
    <3> QED BY <1>0, <2>1, <3>2 DEF Members, Right
  <2>3. LyricsType'
    BY <1>0, <2>1, <2>2 DEF LyricsType
  <2>4. Awaited(lrcM') = Awaited(lrcM) /\ Past(lrcM')
    BY <1>0, <2>2 DEF Right, Past, Awaited, Words!Current
  <2>5. Right(lrcM', lrcDebounce', lrcBlame')
    BY <1>0, <2>1, <2>2, <2>4 DEF Right, Accounted, SavedAreOwn, ShownIsOwn
  <2> QED BY <1>p, <2>3, <2>5
<1>7. ASSUME NEW onDisk \in BOOLEAN, Words!Load(onDisk) PROVE LyricsInv'
  <2>1. /\ lrcM' \in Members /\ Past(lrcM') /\ lrcM'.track = lrcM.track
        /\ SavedAreOwn(lrcM) => SavedAreOwn(lrcM') /\ ShownIsOwn(lrcM')
        /\ "skipped" \notin lrcBlame' => Accounted(lrcM')
        /\ lrcBlame \ {"stray", "skipped"} \subseteq lrcBlame'
        /\ lrcBlame' \subseteq {"late", "skipped"}
        /\ ~lrcDebounce' /\ UNCHANGED <<lrcPreferred, lrcChanges>>
    BY <1>0, <1>7, LoadShows DEF Right
  <2>2. LyricsType'
    BY <1>0, <1>7, <2>1 DEF LyricsType, Words!Load
  <2>3. Right(lrcM', lrcDebounce', lrcBlame')
    BY <1>0, <2>1 DEF Right
  <2> QED BY <1>p, <2>2, <2>3
<1>8. ASSUME NEW r \in lrcM.calls, Words!Superseded(r) PROVE LyricsInv'
  <2>1. lrcM' = Words!Arrived(r) /\ r.req # lrcM.req
        /\ UNCHANGED <<lrcDebounce, lrcPreferred, lrcChanges, lrcBlame>>
    BY <1>8 DEF Words!Superseded, Words!Arrived
  <2>2. /\ lrcM' \in Members /\ Keeps(lrcM, lrcM') /\ lrcM'.loading = lrcM.loading /\ Past(lrcM')
        /\ Awaited(lrcM') = Awaited(lrcM)
    BY <1>0, <2>1, ArrivedKeeps DEF Right
  <2>3. LyricsType'
    BY <1>0, <2>1, <2>2 DEF LyricsType
  <2>4. Right(lrcM', lrcDebounce', lrcBlame')
    BY <1>0, <2>1, <2>2 DEF Right, Keeps, Accounted, SavedAreOwn, ShownIsOwn
  <2> QED BY <1>p, <2>3, <2>4
<1>9. ASSUME NEW r \in lrcM.calls, Words!Answered(r) PROVE LyricsInv'
  <2>1. /\ Outcome(lrcM')
        /\ r.of = lrcM.track /\ SavedAreOwn(lrcM) => SavedAreOwn(lrcM')
        /\ r.of = lrcM.track /\ ShownIsOwn(lrcM) => ShownIsOwn(lrcM')
    BY <1>0, <1>9, AnsweredShows DEF Right
  <2>2. /\ lrcBlame' = IF r.of # lrcM.track THEN lrcBlame \cup {"late"} ELSE lrcBlame
        /\ UNCHANGED <<lrcDebounce, lrcPreferred, lrcChanges>>
    BY <1>9 DEF Words!Answered, Words!Late
  <2>3. LyricsType'
    BY <1>0, <2>1, <2>2 DEF LyricsType, Outcome
  <2>4. Right(lrcM', lrcDebounce', lrcBlame')
    BY <1>0, <2>1, <2>2 DEF Right, Outcome
  <2> QED BY <1>p, <2>3, <2>4
<1>10. ASSUME NEW r \in lrcM.calls, Words!Failed(r) PROVE LyricsInv'
  <2>1. /\ Outcome(lrcM')
        /\ SavedAreOwn(lrcM) => SavedAreOwn(lrcM')
        /\ ShownIsOwn(lrcM) => ShownIsOwn(lrcM')
    BY <1>0, <1>10, FailedShows DEF Right
  <2>2. UNCHANGED <<lrcDebounce, lrcPreferred, lrcChanges, lrcBlame>>
    BY <1>10 DEF Words!Failed
  <2>3. LyricsType'
    BY <1>0, <2>1, <2>2 DEF LyricsType, Outcome
  <2>4. Right(lrcM', lrcDebounce', lrcBlame')
    BY <1>0, <2>1, <2>2 DEF Right, Outcome
  <2> QED BY <1>p, <2>3, <2>4
<1>11. ASSUME UNCHANGED Words!vars PROVE LyricsInv'
  BY <1>0, <1>11, <1>p DEF Words!vars, LyricsType, Right
<1> QED BY <1>1, <1>2, <1>4, <1>5, <1>6, <1>7, <1>8, <1>9, <1>10, <1>11
        DEF Words!Next, Words!Reply, Songs

(* LyricsAreRight: once a load ran, the lyrics on display, those offered   *)
(* and the selections that were saved are of the track, however many       *)
(* tracks came and went while replies of theirs were on the way; and the   *)
(* spinner shows exactly while a reply is awaited that may end it.         *)
THEOREM LyricsAreOfTheTrack == DeskSpec => []LyricsAreRight
<1>1. LyricsInv => LyricsAreRight
  BY LyricsParts DEF LyricsAreRight
<1> QED BY <1>1, EachKeepsItsSpec, LyricsInit, LyricsStep, PTL DEF Words!Spec

-----------------------------------------------------------------------------
(***************************************************************************)
(* The list on the screen.  Numbers first: a set of numbers with 0 and the *)
(* next of each of its numbers has them all, and what computes a value from*)
(* the one before has one for every number.                                *)
(***************************************************************************)
LEMMA LeastNumber ==
  ASSUME NEW S \in SUBSET Nat, S # {}
  PROVE  \E m \in S : \A k \in S : m <= k
<1> DEFINE R == OpToRel(<, Nat)
<1>1. IsWellFoundedOn(R, Nat)
  BY NatLessThanWellFounded
<1>2. \A x \in Nat, y \in Nat : x < y => <<x, y>> \in R
  BY DEF OpToRel
<1> HIDE DEF R
<1>3. \E x \in S : \A y \in S : ~ (<<y, x>> \in R)
  BY <1>1, WFMin
<1>4. PICK m \in S : \A y \in S : ~ (<<y, m>> \in R)
  BY <1>3
<1>5. ASSUME NEW k \in S PROVE m <= k
  <2>1. m \in Nat /\ k \in Nat
    BY <1>4, <1>5
  <2>2. ~ (k < m)
    BY <1>2, <1>4, <1>5, <2>1
  <2> QED BY <2>1, <2>2
<1> QED BY <1>4, <1>5

LEMMA EveryNumber ==
  ASSUME NEW P \in SUBSET Nat, 0 \in P, \A n \in P : n + 1 \in P
  PROVE  P = Nat
<1> SUFFICES ASSUME Nat \ P # {} PROVE FALSE
  OBVIOUS
<1>1. PICK m \in Nat \ P : \A k \in Nat \ P : m <= k
  <2>1. Nat \ P \in SUBSET Nat /\ Nat \ P # {}
    OBVIOUS
  <2> QED BY ONLY <2>1, LeastNumber
<1>2. m # 0 /\ m - 1 \in Nat /\ m - 1 \in P
  BY <1>1
<1>3. (m - 1) + 1 = m
  BY <1>1
<1> QED BY <1>1, <1>2, <1>3

(* A function that is given by its first value and by what each step makes *)
(* of a value exists.                                                      *)
Stepwise(f, A, a, m, g) ==
  f \in [0 .. m -> A] /\ f = [n \in 0 .. m |-> IF n = 0 THEN a ELSE g[n][f[n - 1]]]

LEMMA StepsExist ==
  ASSUME NEW A, NEW a \in A, NEW m \in Nat, NEW g \in [1 .. m -> [A -> A]]
  PROVE  \E f : Stepwise(f, A, a, m, g)
<1> DEFINE Good(f, k) == f \in [0 .. k -> A] /\ f[0] = a /\ \A n \in 1 .. k : f[n] = g[n][f[n - 1]]
           P == {k \in Nat : k <= m => \E f : Good(f, k)}
<1>1. 0 \in P
  <2> DEFINE f == [n \in 0 .. 0 |-> a]
  <2>1. Good(f, 0)
    OBVIOUS
  <2> QED BY <2>1
<1>2. ASSUME NEW k \in P PROVE k + 1 \in P
  <2>0. k \in Nat /\ k + 1 \in Nat
    OBVIOUS
  <2>1. CASE k + 1 <= m
    <3>1. PICK f : Good(f, k)
      BY <2>1
    <3>2. f[k] \in A /\ k + 1 \in 1 .. m
      BY <2>1, <3>1
    <3>3. g[k + 1][f[k]] \in A
      BY <3>2
    <3> DEFINE h == [n \in 0 .. k + 1 |-> IF n <= k THEN f[n] ELSE g[k + 1][f[k]]]
    <3>4. h \in [0 .. k + 1 -> A] /\ h[0] = a
      BY <3>1, <3>3
    <3>5. ASSUME NEW n \in 1 .. k + 1 PROVE h[n] = g[n][h[n - 1]]
      <4>1. CASE n <= k
        <5>1. n \in 1 .. k /\ n - 1 \in 0 .. k
          BY <4>1
        <5>2. h[n] = f[n] /\ h[n - 1] = f[n - 1]
          BY <5>1
        <5> QED BY <3>1, <5>1, <5>2
      <4>2. CASE n = k + 1
        BY <4>2
      <4> QED BY <4>1, <4>2
    <3>6. Good(h, k + 1)
      BY <3>4, <3>5
    <3> HIDE DEF h, Good
    <3> QED BY <2>0, <3>6
  <2>2. CASE ~ (k + 1 <= m)
    BY <2>0, <2>2
  <2> QED BY <2>1, <2>2
<1> HIDE DEF P
<1>3. P = Nat
  <2>1. P \in SUBSET Nat
    BY DEF P
  <2> QED BY ONLY <2>1, <1>1, <1>2, EveryNumber
<1>4. PICK f : Good(f, m)
  BY <1>3 DEF P
<1>5. f = [n \in 0 .. m |-> IF n = 0 THEN a ELSE g[n][f[n - 1]]]
  BY <1>4
<1> QED BY <1>4, <1>5 DEF Stepwise

(* The greatest of finitely many numbers is one of them. *)
LEMMA GreatestExists ==
  ASSUME NEW S \in SUBSET Int, S # {}, IsFiniteSet(S)
  PROVE  \E m \in S : \A k \in S : m >= k
<1> DEFINE Good(n) == \A T \in SUBSET Int : IsFiniteSet(T) /\ Cardinality(T) = n /\ T # {}
                          => \E m \in T : \A k \in T : m >= k
           P == {n \in Nat : Good(n)}
<1>1. 0 \in P
  BY FS_EmptySet
<1>2. ASSUME NEW n \in P PROVE n + 1 \in P
  <2> SUFFICES ASSUME NEW T \in SUBSET Int, IsFiniteSet(T), Cardinality(T) = n + 1, T # {}
               PROVE  \E m \in T : \A k \in T : m >= k
    OBVIOUS
  <2>1. PICK x \in T : TRUE
    OBVIOUS
  <2>2. IsFiniteSet(T \ {x}) /\ Cardinality(T \ {x}) = n
    <3>1. IsFiniteSet(T \ {x}) /\ Cardinality(T \ {x}) = Cardinality(T) - 1
      BY <2>1, FS_RemoveElement
    <3> QED BY <3>1
  <2>3. CASE T \ {x} = {}
    <3>1. \A k \in T : x >= k
      BY <2>1, <2>3
    <3> QED BY <2>1, <3>1
  <2>4. CASE T \ {x} # {}
    <3>1. PICK m \in T \ {x} : \A k \in T \ {x} : m >= k
      BY <2>2, <2>4
    <3>2. CASE x >= m
      <4>1. \A k \in T : x >= k
        BY <2>1, <3>1, <3>2
      <4> QED BY <2>1, <4>1
    <3>3. CASE ~(x >= m)
      <4>1. \A k \in T : m >= k
        BY <2>1, <3>1, <3>3
      <4> QED BY <3>1, <4>1
    <3> QED BY <3>2, <3>3
  <2> QED BY <2>3, <2>4
<1> HIDE DEF P
<1>3. P = Nat
  <2>1. P \in SUBSET Nat
    BY DEF P
  <2> QED BY ONLY <2>1, <1>1, <1>2, EveryNumber
<1>4. Cardinality(S) \in Nat
  BY FS_CardinalityType
<1> QED BY <1>3, <1>4 DEF P

-----------------------------------------------------------------------------
(* Sums of finitely many numbers are numbers.                              *)
LEMMA SumIsNumber ==
  ASSUME NEW D, IsFiniteSet(D), NEW f \in [D -> Nat]
  PROVE  IsFiniteSet(Units(f)) /\ SumOf(f) \in Nat
<1> DEFINE column(x) == {x} \X (1 .. f[x])
           columns == {column(x) : x \in D}
           g == [x \in D |-> column(x)]
<1>1. ASSUME NEW x \in D
      PROVE  IsFiniteSet(column(x)) /\ Cardinality(column(x)) = f[x]
  <2>1. IsFiniteSet({x}) /\ Cardinality({x}) = 1
    BY FS_Singleton
  <2>2. f[x] \in Nat
    OBVIOUS
  <2>3. IsFiniteSet(1 .. f[x]) /\ Cardinality(1 .. f[x]) = f[x]
    BY <2>2, FS_Interval
  <2>4. /\ IsFiniteSet({x} \X (1 .. f[x]))
        /\ Cardinality({x} \X (1 .. f[x])) = Cardinality({x}) * Cardinality(1 .. f[x])
    BY <2>1, <2>3, FS_Product
  <2> QED BY <2>1, <2>2, <2>3, <2>4
<1> HIDE DEF column
<1>2. g \in Surjection(D, columns)
  BY DEF Surjection
<1>3. IsFiniteSet(columns)
  BY <1>2, FS_Surjection
<1>4. IsFiniteSet(UNION columns)
  BY <1>1, <1>3, FS_UNION
<1>5. Units(f) = UNION columns
  BY DEF Units, column
<1>6. SumOf(f) \in Nat
  BY <1>4, <1>5, FS_CardinalityType DEF SumOf
<1> QED BY <1>4, <1>5, <1>6

(* A sum is that of its parts. *)
LEMMA SumOfParts ==
  ASSUME NEW D, IsFiniteSet(D), NEW f \in [D -> Nat], NEW A \in SUBSET D
  PROVE  SumOf(f) = SumOf([x \in A |-> f[x]]) + SumOf([x \in D \ A |-> f[x]])
<1> DEFINE a == [x \in A |-> f[x]]
           b == [x \in D \ A |-> f[x]]
<1>1. IsFiniteSet(A) /\ IsFiniteSet(D \ A)
  BY FS_Subset
<1>2. a \in [A -> Nat] /\ b \in [D \ A -> Nat]
  OBVIOUS
<1>3. IsFiniteSet(Units(a)) /\ IsFiniteSet(Units(b))
  BY <1>1, <1>2, SumIsNumber
<1>4. (\A u \in Units(a) : u[1] \in A) /\ (\A u \in Units(b) : u[1] \in D \ A)
  BY DEF Units
<1>5. Units(a) \cap Units(b) = {}
  BY <1>4
<1>6. Units(f) = Units(a) \cup Units(b)
  BY DEF Units
<1> HIDE DEF a, b
<1>7. Cardinality(Units(a) \cup Units(b)) = Cardinality(Units(a)) + Cardinality(Units(b))
  <2>1. Cardinality(Units(a) \cap Units(b)) = 0
    BY <1>5, FS_EmptySet
  <2>2. Cardinality(Units(a) \cup Units(b))
          = Cardinality(Units(a)) + Cardinality(Units(b)) - Cardinality(Units(a) \cap Units(b))
    BY <1>3, FS_Union
  <2>3. Cardinality(Units(a)) \in Nat /\ Cardinality(Units(b)) \in Nat
    BY <1>3, FS_CardinalityType
  <2> QED BY <2>1, <2>2, <2>3
<1>8. SumOf(f) = SumOf(a) + SumOf(b)
  BY <1>6, <1>7 DEF SumOf
<1> QED BY <1>8 DEF a, b

(* Numbers that change places have the same sum. *)
LEMMA SumCarried ==
  ASSUME NEW D, IsFiniteSet(D), NEW f \in [D -> Nat], NEW E, NEW g \in [E -> Nat],
         NEW to \in [D -> E], \A x, y \in D : to[x] = to[y] => x = y,
         \A e \in E : \E x \in D : to[x] = e, \A x \in D : g[to[x]] = f[x]
  PROVE  /\ SumOf(g) = SumOf(f)
         /\ IsFiniteSet(E) /\ Cardinality(E) = Cardinality(D)
<1> DEFINE h == [u \in Units(f) |-> <<to[u[1]], u[2]>>]
<1>1. IsFiniteSet(Units(f))
  BY SumIsNumber
<1>2. \A u \in Units(f) : u = <<u[1], u[2]>> /\ u[1] \in D /\ u[2] \in 1 .. f[u[1]]
  BY DEF Units
<1>3. \A x \in D : \A k \in 1 .. f[x] : <<x, k>> \in Units(f)
  BY DEF Units
<1>4. \A u \in Units(g) : u = <<u[1], u[2]>> /\ u[1] \in E /\ u[2] \in 1 .. g[u[1]]
  BY DEF Units
<1>5. \A x \in E : \A k \in 1 .. g[x] : <<x, k>> \in Units(g)
  BY DEF Units
<1>6. h \in [Units(f) -> Units(g)]
  BY <1>2, <1>5
<1>7. \A u, w \in Units(f) : h[u] = h[w] => u = w
  BY <1>2
<1>8. ASSUME NEW w \in Units(g) PROVE \E u \in Units(f) : h[u] = w
  <2>1. PICK x \in D : to[x] = w[1]
    BY <1>4
  <2>2. <<x, w[2]>> \in Units(f)
    BY <1>3, <1>4, <2>1
  <2>3. h[<<x, w[2]>>] = w
    BY <1>4, <2>1, <2>2
  <2> QED BY <2>2, <2>3
<1>9. h \in Bijection(Units(f), Units(g))
  BY <1>6, <1>7, <1>8 DEF Bijection, Injection, IsInjective, Surjection
<1> HIDE DEF h
<1>10. SumOf(g) = SumOf(f)
  BY <1>1, <1>9, FS_Bijection DEF SumOf, ExistsBijection
<1>11. to \in Bijection(D, E)
  BY DEF Bijection, Injection, IsInjective, Surjection
<1>12. IsFiniteSet(E) /\ Cardinality(E) = Cardinality(D)
  BY <1>11, FS_Bijection DEF ExistsBijection
<1> QED BY <1>10, <1>12

(* The operators of the list are those of its modules. *)
LEMMA ListOperators ==
  ASSUME NEW f
  PROVE  View!SumOf(f) = SumOf(f) /\ View!Cardinality(f) = Cardinality(f)
<1>1. View!SumOf(f) = SumOf(f)
  BY Zenon DEF View!SumOf, View!Units, View!Cardinality, SumOf, Units, Cardinality
<1>2. View!Cardinality(f) = Cardinality(f)
  BY Zenon DEF View!Cardinality, Cardinality
<1> QED BY <1>1, <1>2

(* Spacing and heights are numbers, so the rows end at numbers. *)
LEMMA EndsAre ==
  ASSUME NEW heights \in Seq(Nat)
  PROVE  /\ View!Ends(heights) \in [0 .. Len(heights) -> Nat]
         /\ View!Total(heights) \in Nat
<1> DEFINE n == Len(heights)
           g == [i \in 1 .. n |-> [e \in Nat |-> View!NextEnd(e, heights[i])]]
           Steps(f) == [i \in 0 .. n |-> IF i = 0 THEN 0 ELSE View!NextEnd(f[i - 1], heights[i])]
<1>1. n \in Nat /\ heights \in [1 .. n -> Nat]
  OBVIOUS
<1>2. g \in [1 .. n -> [Nat -> Nat]]
  <2> SUFFICES ASSUME NEW i \in 1 .. n, NEW e \in Nat PROVE View!NextEnd(e, heights[i]) \in Nat
    OBVIOUS
  <2>1. heights[i] \in Nat /\ Spacing \in Nat
    BY <1>1, RowsAssumption
  <2> QED BY <2>1 DEF View!NextEnd
<1>3. PICK f : Stepwise(f, Nat, 0, n, g)
  <2> HIDE DEF g, n
  <2>1. 0 \in Nat
    OBVIOUS
  <2> QED BY ONLY <1>1, <1>2, <2>1, StepsExist
<1>4. f \in [0 .. n -> Nat] /\ f = [i \in 0 .. n |-> IF i = 0 THEN 0 ELSE g[i][f[i - 1]]]
  BY <1>3 DEF Stepwise
<1>5. f = Steps(f)
  <2>1. ASSUME NEW i \in 0 .. n, i # 0 PROVE g[i][f[i - 1]] = View!NextEnd(f[i - 1], heights[i])
    <3>1. i \in 1 .. n /\ i - 1 \in 0 .. n
      BY <1>1, <2>1
    <3>2. f[i - 1] \in Nat
      BY <1>4, <3>1
    <3> QED BY <3>1, <3>2
  <2> HIDE DEF g, n
  <2> QED BY <1>4, <2>1
<1>6. \A h : h = Steps(h) => h \in [0 .. n -> Nat]
  <2> SUFFICES ASSUME NEW h, h = Steps(h) PROVE h \in [0 .. n -> Nat]
    OBVIOUS
  <2> DEFINE P == {i \in Nat : i <= n => h[i] \in Nat}
  <2>0. /\ DOMAIN h = 0 .. n /\ h = [i \in 0 .. n |-> h[i]]
        /\ \A i \in 0 .. n : h[i] = IF i = 0 THEN 0 ELSE View!NextEnd(h[i - 1], heights[i])
    OBVIOUS
  <2>1. 0 \in P
    BY <1>1, <2>0
  <2>2. ASSUME NEW i \in P PROVE i + 1 \in P
    <3> SUFFICES ASSUME i + 1 <= n PROVE h[i + 1] \in Nat
      OBVIOUS
    <3>1. i + 1 \in 1 .. n /\ i + 1 \in 0 .. n /\ i + 1 # 0 /\ (i + 1) - 1 = i /\ h[i] \in Nat
      BY <1>1
    <3>2. h[i + 1] = View!NextEnd(h[i], heights[i + 1])
      <4> HIDE DEF n, P
      <4> QED BY <2>0, <3>1
    <3>3. heights[i + 1] \in Nat /\ Spacing \in Nat
      BY <1>1, <3>1, RowsAssumption
    <3> HIDE DEF n, P
    <3> QED BY <3>1, <3>2, <3>3, SMTT(30) DEF View!NextEnd
  <2> HIDE DEF P
  <2>3. P = Nat
    <3>1. P \in SUBSET Nat
      BY DEF P
    <3> QED BY ONLY <3>1, <2>1, <2>2, EveryNumber
  <2>4. \A i \in 0 .. n : h[i] \in Nat
    <3> SUFFICES ASSUME NEW i \in 0 .. n PROVE h[i] \in Nat
      OBVIOUS
    <3>1. i \in Nat /\ i <= n
      BY <1>1
    <3>2. i \in P
      BY <2>3, <3>1
    <3> QED BY ONLY <3>1, <3>2 DEF P
  <2> HIDE DEF n
  <2> QED BY <2>0, <2>4
<1>7. View!Ends(heights) = CHOOSE h : h = Steps(h)
  BY Zenon DEF View!Ends
<1>8. View!Ends(heights) = Steps(View!Ends(heights))
  <2> HIDE DEF Steps
  <2> QED BY Zenon, <1>5, <1>7
<1>9. View!Ends(heights) \in [0 .. n -> Nat]
  <2> HIDE DEF Steps
  <2> QED BY <1>6, <1>8
<1>10. View!Total(heights) \in Nat
  <2>1. n \in 0 .. n
    BY <1>1
  <2> QED BY <1>9, <2>1 DEF View!Total
<1> QED BY <1>9, <1>10

(* The greatest of finitely many numbers. *)
LEMMA GreatestIs ==
  ASSUME NEW S \in SUBSET Int, S # {}, IsFiniteSet(S)
  PROVE  View!Max(S) \in S /\ \A k \in S : View!Max(S) >= k
<1>1. PICK m \in S : \A k \in S : m >= k
  BY GreatestExists
<1> QED BY <1>1 DEF View!Max

-----------------------------------------------------------------------------
LEMMA Joined ==
  ASSUME NEW S, NEW a \in Seq(S), NEW b \in Seq(S)
  PROVE  /\ a \o b \in Seq(S) /\ Len(a \o b) = Len(a) + Len(b)
         /\ \A i \in 1 .. Len(a) : (a \o b)[i] = a[i]
         /\ \A i \in 1 .. Len(b) : (a \o b)[Len(a) + i] = b[i]
<1>1. a \o b \in Seq(S) /\ Len(a \o b) = Len(a) + Len(b)
  OBVIOUS
<1>2. Len(a) \in Nat /\ Len(b) \in Nat
  OBVIOUS
<1>3. ASSUME NEW i \in 1 .. Len(a) PROVE (a \o b)[i] = a[i]
  <2>1. i \in 1 .. Len(a) + Len(b) /\ i <= Len(a)
    BY <1>2
  <2> QED BY <2>1
<1>4. ASSUME NEW i \in 1 .. Len(b) PROVE (a \o b)[Len(a) + i] = b[i]
  <2>1. Len(a) + i \in 1 .. Len(a) + Len(b) /\ ~(Len(a) + i <= Len(a)) /\ (Len(a) + i) - Len(a) = i
    BY <1>2
  <2> QED BY <2>1
<1> QED BY <1>1, <1>3, <1>4

(* What is cut out of a sequence and put into it moves the rest.           *)
LEMMA CutIs ==
  ASSUME NEW S, NEW s \in Seq(S), NEW first \in Int, NEW last \in Int,
         1 <= first, first <= last, last <= Len(s)
  PROVE  LET c == View!Cut(s, first, last)
             n == last - first + 1
         IN  /\ c \in Seq(S) /\ Len(c) = Len(s) - n
             /\ \A i \in 1 .. Len(s) :
                  /\ i < first => c[i] = s[i]
                  /\ i > last => c[i - n] = s[i]
<1> DEFINE a == SubSeq(s, 1, first - 1)
           b == SubSeq(s, last + 1, Len(s))
<1>0. Len(s) \in Nat
  OBVIOUS
<1>1. /\ a \in Seq(S) /\ Len(a) = first - 1
      /\ \A i \in 1 .. first - 1 : a[i] = s[i]
  <2>1. 1 \in 1 .. Len(s) /\ first - 1 \in Int
    BY <1>0
  <2> QED BY <1>0, <2>1
<1>2. /\ b \in Seq(S) /\ Len(b) = Len(s) - last
      /\ \A i \in 1 .. Len(s) - last : b[i] = s[last + i]
  BY <1>0
<1> HIDE DEF a, b
<1>3. /\ a \o b \in Seq(S) /\ Len(a \o b) = Len(a) + Len(b)
      /\ \A i \in 1 .. Len(a) : (a \o b)[i] = a[i]
      /\ \A i \in 1 .. Len(b) : (a \o b)[Len(a) + i] = b[i]
  <2>1. a \in Seq(S) /\ b \in Seq(S)
    BY <1>1, <1>2
  <2> QED BY ONLY <2>1, Joined
<1>4. View!Cut(s, first, last) = a \o b
  BY DEF View!Cut, a, b
<1> DEFINE c == View!Cut(s, first, last)
<1>5. c \in Seq(S) /\ Len(c) = Len(s) - (last - first + 1)
  BY <1>0, <1>1, <1>2, <1>3, <1>4
<1>6. ASSUME NEW i \in 1 .. Len(s), i < first PROVE c[i] = s[i]
  <2>1. i \in 1 .. first - 1
    BY <1>0, <1>6
  <2> QED BY <1>1, <1>3, <1>4, <2>1
<1>7. ASSUME NEW i \in 1 .. Len(s), i > last PROVE c[i - (last - first + 1)] = s[i]
  <2>1. i - last \in 1 .. Len(b) /\ last + (i - last) = i /\ Len(a) + (i - last) = i - (last - first + 1)
    BY <1>0, <1>1, <1>2, <1>7
  <2>2. b[i - last] = s[i]
    BY <1>2, <2>1
  <2> QED BY <1>3, <1>4, <2>1, <2>2
<1> QED BY <1>5, <1>6, <1>7

Puts(S, s, r, first) == s \in Seq(S) /\ r \in Seq(S) /\ first \in 1 .. Len(s) + 1

LEMMA SpreadIs ==
  ASSUME NEW S, NEW s, NEW r, NEW first, Puts(S, s, r, first)
  PROVE  LET c == View!Spread(s, first, r)
         IN  /\ c \in Seq(S) /\ Len(c) = Len(s) + Len(r)
             /\ \A i \in 1 .. Len(s) :
                  /\ i < first => c[i] = s[i]
                  /\ i >= first => c[i + Len(r)] = s[i]
             /\ \A i \in 1 .. Len(r) : c[first - 1 + i] = r[i]
<1> DEFINE a == SubSeq(s, 1, first - 1)
           b == SubSeq(s, first, Len(s))
<1>0. /\ s \in Seq(S) /\ r \in Seq(S)
      /\ Len(s) \in Nat /\ Len(r) \in Nat /\ first \in Int /\ 1 <= first /\ first <= Len(s) + 1
  BY DEF Puts
<1>1. /\ a \in Seq(S) /\ Len(a) = first - 1
      /\ \A i \in 1 .. first - 1 : a[i] = s[i]
  BY <1>0
<1>2. /\ b \in Seq(S) /\ Len(b) = Len(s) - first + 1
      /\ \A i \in 1 .. Len(s) - first + 1 : b[i] = s[first - 1 + i]
  BY <1>0
<1> HIDE DEF a, b
<1>3. /\ a \o r \in Seq(S) /\ Len(a \o r) = first - 1 + Len(r)
      /\ \A i \in 1 .. first - 1 : (a \o r)[i] = s[i]
      /\ \A i \in 1 .. Len(r) : (a \o r)[first - 1 + i] = r[i]
  <2>1. /\ a \o r \in Seq(S) /\ Len(a \o r) = Len(a) + Len(r)
        /\ \A i \in 1 .. Len(a) : (a \o r)[i] = a[i]
        /\ \A i \in 1 .. Len(r) : (a \o r)[Len(a) + i] = r[i]
    <3>1. a \in Seq(S) /\ r \in Seq(S)
      BY <1>0, <1>1
    <3> QED BY ONLY <3>1, Joined
  <2> QED BY ONLY <1>0, <1>1, <2>1
<1> DEFINE c == (a \o r) \o b
<1>4. /\ c \in Seq(S) /\ Len(c) = Len(a \o r) + Len(b)
      /\ \A i \in 1 .. Len(a \o r) : c[i] = (a \o r)[i]
      /\ \A i \in 1 .. Len(b) : c[Len(a \o r) + i] = b[i]
  <2>1. a \o r \in Seq(S) /\ b \in Seq(S)
    BY <1>2, <1>3
  <2> QED BY ONLY <2>1, Joined
<1> HIDE DEF c
<1>5. c \in Seq(S) /\ Len(c) = Len(s) + Len(r)
  BY <1>0, <1>2, <1>3, <1>4
<1>6. ASSUME NEW i \in 1 .. Len(s), i < first PROVE c[i] = s[i]
  <2>1. i \in 1 .. first - 1 /\ i \in 1 .. Len(a \o r)
    BY <1>0, <1>3, <1>6
  <2> QED BY <1>3, <1>4, <2>1
<1>7. ASSUME NEW i \in 1 .. Len(s), i >= first PROVE c[i + Len(r)] = s[i]
  <2>1. /\ i - (first - 1) \in 1 .. Len(b) /\ i - (first - 1) \in 1 .. Len(s) - first + 1
        /\ first - 1 + (i - (first - 1)) = i
        /\ Len(a \o r) + (i - (first - 1)) = i + Len(r)
    BY <1>0, <1>2, <1>3, <1>7
  <2>2. b[i - (first - 1)] = s[i]
    BY <1>2, <2>1
  <2> QED BY <1>4, <2>1, <2>2
<1>8. ASSUME NEW i \in 1 .. Len(r) PROVE c[first - 1 + i] = r[i]
  <2>1. first - 1 + i \in 1 .. Len(a \o r)
    BY <1>0, <1>3
  <2> QED BY <1>3, <1>4, <2>1
<1>9. View!Spread(s, first, r) = c
  BY DEF View!Spread, a, b, c
<1> QED BY <1>5, <1>6, <1>7, <1>8, <1>9

Pieces(S, a, b, c, d) == a \in Seq(S) /\ b \in Seq(S) /\ c \in Seq(S) /\ d \in Seq(S)

LEMMA FourJoined ==
  ASSUME NEW S, NEW a, NEW b, NEW c, NEW d, Pieces(S, a, b, c, d)
  PROVE  LET s == a \o b \o c \o d
         IN  /\ s \in Seq(S) /\ Len(s) = Len(a) + Len(b) + Len(c) + Len(d)
             /\ \A i \in 1 .. Len(a) : s[i] = a[i]
             /\ \A i \in 1 .. Len(b) : s[Len(a) + i] = b[i]
             /\ \A i \in 1 .. Len(c) : s[Len(a) + Len(b) + i] = c[i]
             /\ \A i \in 1 .. Len(d) : s[Len(a) + Len(b) + Len(c) + i] = d[i]
<1> DEFINE ab == a \o b
           abc == ab \o c
           s == abc \o d
<1>a. a \in Seq(S) /\ b \in Seq(S) /\ c \in Seq(S) /\ d \in Seq(S)
  BY DEF Pieces
<1>0. Len(a) \in Nat /\ Len(b) \in Nat /\ Len(c) \in Nat /\ Len(d) \in Nat
  BY <1>a
<1>1. /\ ab \in Seq(S) /\ Len(ab) = Len(a) + Len(b)
      /\ \A i \in 1 .. Len(a) : ab[i] = a[i]
      /\ \A i \in 1 .. Len(b) : ab[Len(a) + i] = b[i]
  BY <1>a, Joined
<1> HIDE DEF ab
<1>2. /\ abc \in Seq(S) /\ Len(abc) = Len(ab) + Len(c)
      /\ \A i \in 1 .. Len(ab) : abc[i] = ab[i]
      /\ \A i \in 1 .. Len(c) : abc[Len(ab) + i] = c[i]
  <2>1. ab \in Seq(S)
    BY <1>1
  <2> QED BY ONLY <2>1, <1>a, Joined
<1> HIDE DEF abc
<1>3. /\ s \in Seq(S) /\ Len(s) = Len(abc) + Len(d)
      /\ \A i \in 1 .. Len(abc) : s[i] = abc[i]
      /\ \A i \in 1 .. Len(d) : s[Len(abc) + i] = d[i]
  <2>1. abc \in Seq(S)
    BY <1>2
  <2> QED BY ONLY <2>1, <1>a, Joined
<1> HIDE DEF s
<1>4. Len(ab) = Len(a) + Len(b) /\ Len(abc) = Len(a) + Len(b) + Len(c)
      /\ Len(s) = Len(a) + Len(b) + Len(c) + Len(d)
  BY <1>0, <1>1, <1>2, <1>3
<1>5. ASSUME NEW i \in 1 .. Len(a) PROVE s[i] = a[i]
  <2>1. i \in 1 .. Len(ab) /\ i \in 1 .. Len(abc)
    BY <1>0, <1>4
  <2> QED BY <1>1, <1>2, <1>3, <2>1
<1>6. ASSUME NEW i \in 1 .. Len(b) PROVE s[Len(a) + i] = b[i]
  <2>1. Len(a) + i \in 1 .. Len(ab) /\ Len(a) + i \in 1 .. Len(abc)
    BY <1>0, <1>4
  <2> QED BY <1>1, <1>2, <1>3, <2>1
<1>7. ASSUME NEW i \in 1 .. Len(c) PROVE s[Len(a) + Len(b) + i] = c[i]
  <2>1. Len(a) + Len(b) + i = Len(ab) + i /\ Len(ab) + i \in 1 .. Len(abc)
    BY <1>0, <1>4
  <2> QED BY <1>2, <1>3, <2>1
<1>8. ASSUME NEW i \in 1 .. Len(d) PROVE s[Len(a) + Len(b) + Len(c) + i] = d[i]
  <2>1. Len(a) + Len(b) + Len(c) + i = Len(abc) + i
    BY <1>0, <1>4
  <2> QED BY <1>3, <2>1
<1>9. s = a \o b \o c \o d
  BY DEF s, abc, ab
<1> QED BY <1>3, <1>4, <1>5, <1>6, <1>7, <1>8, <1>9

LEMMA PieceIs ==
  ASSUME NEW S, NEW s \in Seq(S), NEW m \in Int, NEW n \in Int, 1 <= m, m <= n + 1, n <= Len(s)
  PROVE  LET p == SubSeq(s, m, n)
         IN  /\ p \in Seq(S) /\ Len(p) = n - m + 1
             /\ \A i \in 1 .. Len(p) : p[i] = s[m - 1 + i]
<1>1. Len(s) \in Nat
  OBVIOUS
<1>2. SubSeq(s, m, n) \in Seq(S) /\ Len(SubSeq(s, m, n)) = n - m + 1
  BY <1>1
<1>3. \A i \in 1 .. n - m + 1 : SubSeq(s, m, n)[i] = s[m - 1 + i]
  BY <1>1
<1> QED BY <1>2, <1>3

Shifts(n, start, end, row) ==
  /\ n \in Nat /\ start \in Int /\ end \in Int /\ row \in Int
  /\ 1 <= start /\ start <= end /\ end <= n
  /\ 1 <= row /\ row <= n + 1 /\ (row < start \/ row > end + 1)

Moves(s, start, end, row) == Shifts(Len(s), start, end, row)

(* The rows of a move change places with each other. *)
LEMMA MovedIndexIs ==
  ASSUME NEW n, NEW start, NEW end, NEW row, Shifts(n, start, end, row)
  PROVE  /\ View!Dest(start, end, row) \in 1 .. n - (end - start)
         /\ \A i \in 1 .. n : View!MovedIndex(start, end, row, i) \in 1 .. n
         /\ \A i, j \in 1 .. n : View!MovedIndex(start, end, row, i) = View!MovedIndex(start, end, row, j) => i = j
         /\ \A k \in 1 .. n : \E i \in 1 .. n : View!MovedIndex(start, end, row, i) = k
<1>0. /\ n \in Nat /\ start \in Int /\ end \in Int /\ row \in Int
      /\ 1 <= start /\ start <= end /\ end <= n
      /\ 1 <= row /\ row <= n + 1 /\ (row < start \/ row > end + 1)
  BY DEF Shifts
<1>1. View!Dest(start, end, row) \in 1 .. n - (end - start)
  BY <1>0 DEF View!Dest
<1> DEFINE to(i) == View!MovedIndex(start, end, row, i)
           d == View!Dest(start, end, row)
           m == end - start + 1
<1>2. d \in Int /\ m \in Int /\ 1 <= m /\ 1 <= d /\ d + m <= n + 1 /\ m = end - start + 1
  BY <1>0, <1>1
<1>3. \A i \in 1 .. n :
        /\ i \in start .. end => to(i) = d + (i - start)
        /\ i < start => to(i) = IF i >= d THEN i + m ELSE i
        /\ i > end => to(i) = IF i - m >= d THEN i ELSE i - m
  BY <1>0, <1>1 DEF View!MovedIndex
<1> HIDE DEF to, d, m
<1>4. \A i \in 1 .. n : to(i) \in 1 .. n
  BY <1>0, <1>2, <1>3
<1>5. \A i, j \in 1 .. n : to(i) = to(j) => i = j
  BY <1>0, <1>2, <1>3
<1>6. ASSUME NEW k \in 1 .. n PROVE \E i \in 1 .. n : to(i) = k
  <2>1. CASE k \in d .. d + m - 1
    <3>1. start + (k - d) \in 1 .. n /\ to(start + (k - d)) = k
      BY <1>0, <1>2, <1>3, <2>1
    <3> QED BY <3>1
  <2>2. CASE k < d
    <3>1. CASE k < start
      BY <1>0, <1>2, <1>3, <2>2, <3>1
    <3>2. CASE k >= start
      <4>1. k + m \in 1 .. n /\ to(k + m) = k
        BY <1>0, <1>2, <1>3, <2>2, <3>2
      <4> QED BY <4>1
    <3> QED BY <1>0, <3>1, <3>2
  <2>3. CASE k >= d + m
    <3>1. CASE k - m < start
      <4>1. k - m \in 1 .. n /\ to(k - m) = k
        BY <1>0, <1>2, <1>3, <2>3, <3>1
      <4> QED BY <4>1
    <3>2. CASE k - m >= start
      BY <1>0, <1>2, <1>3, <2>3, <3>2
    <3> QED BY <1>0, <1>2, <3>1, <3>2
  <2> QED BY <1>0, <1>2, <2>1, <2>2, <2>3
<1> QED BY <1>1, <1>4, <1>5, <1>6 DEF to

(* The model moves its rows there, *)
LEMMA ModelMovedIs ==
  ASSUME NEW S, NEW s \in Seq(S), NEW start \in Int, NEW end \in Int, NEW row \in Int,
         Moves(s, start, end, row)
  PROVE  LET m == View!ModelMoved(s, start, end, row)
         IN  /\ m \in Seq(S) /\ Len(m) = Len(s)
             /\ \A i \in 1 .. Len(s) : m[View!MovedIndex(start, end, row, i)] = s[i]
<1>0. /\ Len(s) \in Nat /\ 1 <= start /\ start <= end /\ end <= Len(s)
      /\ 1 <= row /\ row <= Len(s) + 1 /\ (row < start \/ row > end + 1)
  BY DEF Moves, Shifts
<1>1. CASE row < start
  <2> DEFINE a == SubSeq(s, 1, row - 1)
             b == SubSeq(s, start, end)
             c == SubSeq(s, row, start - 1)
             d == SubSeq(s, end + 1, Len(s))
             m == a \o b \o c \o d
  <2>1. /\ a \in Seq(S) /\ Len(a) = row - 1 /\ \A i \in 1 .. Len(a) : a[i] = s[1 - 1 + i]
        /\ b \in Seq(S) /\ Len(b) = end - start + 1 /\ \A i \in 1 .. Len(b) : b[i] = s[start - 1 + i]
        /\ c \in Seq(S) /\ Len(c) = start - row /\ \A i \in 1 .. Len(c) : c[i] = s[row - 1 + i]
        /\ d \in Seq(S) /\ Len(d) = Len(s) - end /\ \A i \in 1 .. Len(d) : d[i] = s[(end + 1) - 1 + i]
    <3>1. /\ a \in Seq(S) /\ Len(a) = (row - 1) - 1 + 1 /\ \A i \in 1 .. Len(a) : a[i] = s[1 - 1 + i]
      BY <1>0, <1>1, PieceIs
    <3>2. /\ b \in Seq(S) /\ Len(b) = end - start + 1 /\ \A i \in 1 .. Len(b) : b[i] = s[start - 1 + i]
      BY <1>0, <1>1, PieceIs
    <3>3. /\ c \in Seq(S) /\ Len(c) = (start - 1) - row + 1 /\ \A i \in 1 .. Len(c) : c[i] = s[row - 1 + i]
      BY <1>0, <1>1, PieceIs
    <3>4. /\ d \in Seq(S) /\ Len(d) = Len(s) - (end + 1) + 1 /\ \A i \in 1 .. Len(d) : d[i] = s[(end + 1) - 1 + i]
      BY <1>0, <1>1, PieceIs
    <3> HIDE DEF a, b, c, d
    <3> QED BY <1>0, <3>1, <3>2, <3>3, <3>4
  <2> HIDE DEF a, b, c, d
  <2>0. Len(a) = row - 1 /\ Len(b) = end - start + 1 /\ Len(c) = start - row /\ Len(d) = Len(s) - end
    BY <2>1
  <2>2. /\ m \in Seq(S) /\ Len(m) = Len(a) + Len(b) + Len(c) + Len(d)
        /\ \A i \in 1 .. Len(a) : m[i] = a[i]
        /\ \A i \in 1 .. Len(b) : m[Len(a) + i] = b[i]
        /\ \A i \in 1 .. Len(c) : m[Len(a) + Len(b) + i] = c[i]
        /\ \A i \in 1 .. Len(d) : m[Len(a) + Len(b) + Len(c) + i] = d[i]
    <3>1. Pieces(S, a, b, c, d)
      BY <2>1 DEF Pieces
    <3> QED BY ONLY <3>1, FourJoined DEF m
  <2> HIDE DEF m
  <2>3. Len(m) = Len(s)
    BY <1>0, <2>1, <2>2
  <2>4. ASSUME NEW i \in 1 .. Len(s) PROVE m[View!MovedIndex(start, end, row, i)] = s[i]
    <3> DEFINE k == View!MovedIndex(start, end, row, i)
    <3>0. /\ i \in Int /\ 1 <= i /\ i <= Len(s)
          /\ i < row => k = i
          /\ i >= row /\ i < start => k = i + (end - start + 1)
          /\ i >= start /\ i <= end => k = row + (i - start)
          /\ i > end => k = i
      BY <1>0, <1>1 DEF View!MovedIndex, View!Dest
    <3> HIDE DEF k
    <3>1. CASE i < row
      <4>1. k = i /\ i \in 1 .. Len(a) /\ 1 - 1 + i = i
        BY ONLY <1>0, <1>1, <2>0, <3>0, <3>1
      <4> QED BY <2>1, <2>2, <4>1 DEF k
    <3>2. CASE i >= row /\ i < start
      <4>1. /\ i - (row - 1) \in 1 .. Len(c) /\ k = Len(a) + Len(b) + (i - (row - 1))
            /\ row - 1 + (i - (row - 1)) = i
        BY ONLY <1>0, <1>1, <2>0, <3>0, <3>2
      <4>2. m[Len(a) + Len(b) + (i - (row - 1))] = c[i - (row - 1)]
        BY <2>2, <4>1
      <4> QED BY <2>1, <4>1, <4>2 DEF k
    <3>3. CASE i >= start /\ i <= end
      <4>1. /\ i - (start - 1) \in 1 .. Len(b) /\ k = Len(a) + (i - (start - 1))
            /\ start - 1 + (i - (start - 1)) = i
        BY ONLY <1>0, <1>1, <2>0, <3>0, <3>3
      <4>2. m[Len(a) + (i - (start - 1))] = b[i - (start - 1)]
        BY <2>2, <4>1
      <4> QED BY <2>1, <4>1, <4>2 DEF k
    <3>4. CASE i > end
      <4>1. /\ i - end \in 1 .. Len(d) /\ k = Len(a) + Len(b) + Len(c) + (i - end)
            /\ (end + 1) - 1 + (i - end) = i
        BY ONLY <1>0, <1>1, <2>0, <3>0, <3>4
      <4>2. m[Len(a) + Len(b) + Len(c) + (i - end)] = d[i - end]
        BY <2>2, <4>1
      <4> QED BY <2>1, <4>1, <4>2 DEF k
    <3> QED BY <1>0, <3>0, <3>1, <3>2, <3>3, <3>4
  <2>5. View!ModelMoved(s, start, end, row) = m
    BY <1>1 DEF View!ModelMoved, m, a, b, c, d
  <2> QED BY <2>2, <2>3, <2>4, <2>5
<1>2. CASE row > end + 1
  <2> DEFINE a == SubSeq(s, 1, start - 1)
             b == SubSeq(s, end + 1, row - 1)
             c == SubSeq(s, start, end)
             d == SubSeq(s, row, Len(s))
             m == a \o b \o c \o d
  <2>1. /\ a \in Seq(S) /\ Len(a) = start - 1 /\ \A i \in 1 .. Len(a) : a[i] = s[1 - 1 + i]
        /\ b \in Seq(S) /\ Len(b) = row - 1 - end /\ \A i \in 1 .. Len(b) : b[i] = s[(end + 1) - 1 + i]
        /\ c \in Seq(S) /\ Len(c) = end - start + 1 /\ \A i \in 1 .. Len(c) : c[i] = s[start - 1 + i]
        /\ d \in Seq(S) /\ Len(d) = Len(s) - row + 1 /\ \A i \in 1 .. Len(d) : d[i] = s[row - 1 + i]
    <3>1. /\ a \in Seq(S) /\ Len(a) = (start - 1) - 1 + 1 /\ \A i \in 1 .. Len(a) : a[i] = s[1 - 1 + i]
      BY <1>0, <1>2, PieceIs
    <3>2. /\ b \in Seq(S) /\ Len(b) = (row - 1) - (end + 1) + 1 /\ \A i \in 1 .. Len(b) : b[i] = s[(end + 1) - 1 + i]
      BY <1>0, <1>2, PieceIs
    <3>3. /\ c \in Seq(S) /\ Len(c) = end - start + 1 /\ \A i \in 1 .. Len(c) : c[i] = s[start - 1 + i]
      BY <1>0, <1>2, PieceIs
    <3>4. /\ d \in Seq(S) /\ Len(d) = Len(s) - row + 1 /\ \A i \in 1 .. Len(d) : d[i] = s[row - 1 + i]
      BY <1>0, <1>2, PieceIs
    <3> HIDE DEF a, b, c, d
    <3> QED BY <1>0, <3>1, <3>2, <3>3, <3>4
  <2> HIDE DEF a, b, c, d
  <2>0. /\ Len(a) = start - 1 /\ Len(b) = row - 1 - end /\ Len(c) = end - start + 1
        /\ Len(d) = Len(s) - row + 1
    BY <2>1
  <2>2. /\ m \in Seq(S) /\ Len(m) = Len(a) + Len(b) + Len(c) + Len(d)
        /\ \A i \in 1 .. Len(a) : m[i] = a[i]
        /\ \A i \in 1 .. Len(b) : m[Len(a) + i] = b[i]
        /\ \A i \in 1 .. Len(c) : m[Len(a) + Len(b) + i] = c[i]
        /\ \A i \in 1 .. Len(d) : m[Len(a) + Len(b) + Len(c) + i] = d[i]
    <3>1. Pieces(S, a, b, c, d)
      BY <2>1 DEF Pieces
    <3> QED BY ONLY <3>1, FourJoined DEF m
  <2> HIDE DEF m
  <2>3. Len(m) = Len(s)
    BY <1>0, <2>1, <2>2
  <2>4. ASSUME NEW i \in 1 .. Len(s) PROVE m[View!MovedIndex(start, end, row, i)] = s[i]
    <3> DEFINE k == View!MovedIndex(start, end, row, i)
    <3>0. /\ i \in Int /\ 1 <= i /\ i <= Len(s)
          /\ i < start => k = i
          /\ i > end /\ i < row => k = i - (end - start + 1)
          /\ i >= start /\ i <= end => k = (row - (end - start + 1)) + (i - start)
          /\ i >= row => k = i
      BY <1>0, <1>2 DEF View!MovedIndex, View!Dest
    <3> HIDE DEF k
    <3>1. CASE i < start
      <4>1. k = i /\ i \in 1 .. Len(a) /\ 1 - 1 + i = i
        BY ONLY <1>0, <1>2, <2>0, <3>0, <3>1
      <4> QED BY <2>1, <2>2, <4>1 DEF k
    <3>2. CASE i > end /\ i < row
      <4>1. i - end \in 1 .. Len(b) /\ k = Len(a) + (i - end) /\ (end + 1) - 1 + (i - end) = i
        BY ONLY <1>0, <1>2, <2>0, <3>0, <3>2
      <4>2. m[Len(a) + (i - end)] = b[i - end]
        BY <2>2, <4>1
      <4> QED BY <2>1, <4>1, <4>2 DEF k
    <3>3. CASE i >= start /\ i <= end
      <4>1. /\ i - (start - 1) \in 1 .. Len(c) /\ k = Len(a) + Len(b) + (i - (start - 1))
            /\ start - 1 + (i - (start - 1)) = i
        BY ONLY <1>0, <1>2, <2>0, <3>0, <3>3
      <4>2. m[Len(a) + Len(b) + (i - (start - 1))] = c[i - (start - 1)]
        BY <2>2, <4>1
      <4> QED BY <2>1, <4>1, <4>2 DEF k
    <3>4. CASE i >= row
      <4>1. /\ i - (row - 1) \in 1 .. Len(d) /\ k = Len(a) + Len(b) + Len(c) + (i - (row - 1))
            /\ row - 1 + (i - (row - 1)) = i
        BY ONLY <1>0, <1>2, <2>0, <3>0, <3>4
      <4>2. m[Len(a) + Len(b) + Len(c) + (i - (row - 1))] = d[i - (row - 1)]
        BY <2>2, <4>1
      <4> QED BY <2>1, <4>1, <4>2 DEF k
    <3> QED BY <1>0, <3>0, <3>1, <3>2, <3>3, <3>4
  <2>5. View!ModelMoved(s, start, end, row) = m
    <3>1. ~(row < start)
      BY <1>0, <1>2
    <3> QED BY <3>1 DEF View!ModelMoved, m, a, b, c, d
  <2> QED BY <2>2, <2>3, <2>4, <2>5
<1> QED BY <1>0, <1>1, <1>2

(* and so does the list with its records. *)
LEMMA RecordsMoved ==
  ASSUME NEW S, NEW s \in Seq(S), NEW start \in Int, NEW end \in Int, NEW row \in Int,
         Moves(s, start, end, row)
  PROVE  LET m == View!Spread(View!Cut(s, start, end), View!Dest(start, end, row), SubSeq(s, start, end))
         IN  /\ m \in Seq(S) /\ Len(m) = Len(s)
             /\ \A i \in 1 .. Len(s) : m[View!MovedIndex(start, end, row, i)] = s[i]
<1> DEFINE c == View!Cut(s, start, end)
           d == View!Dest(start, end, row)
           p == SubSeq(s, start, end)
           n == end - start + 1
           m == View!Spread(c, d, p)
<1>0. /\ Len(s) \in Nat /\ 1 <= start /\ start <= end /\ end <= Len(s)
      /\ 1 <= row /\ row <= Len(s) + 1 /\ (row < start \/ row > end + 1)
  BY DEF Moves, Shifts
<1>1. /\ c \in Seq(S) /\ Len(c) = Len(s) - n
      /\ \A i \in 1 .. Len(s) : (i < start => c[i] = s[i]) /\ (i > end => c[i - n] = s[i])
  BY <1>0, CutIs
<1>2. p \in Seq(S) /\ Len(p) = n /\ \A i \in 1 .. Len(p) : p[i] = s[start - 1 + i]
  BY <1>0, PieceIs
<1>3. d \in 1 .. Len(c) + 1
  <2>1. d \in 1 .. Len(s) - (end - start)
    BY MovedIndexIs DEF Moves
  <2> HIDE DEF c, d
  <2> QED BY <1>0, <1>1, <2>1
<1> HIDE DEF c, d, p
<1>4. /\ m \in Seq(S) /\ Len(m) = Len(c) + Len(p)
      /\ \A i \in 1 .. Len(c) : (i < d => m[i] = c[i]) /\ (i >= d => m[i + Len(p)] = c[i])
      /\ \A i \in 1 .. Len(p) : m[d - 1 + i] = p[i]
  <2>1. Puts(S, c, p, d)
    BY <1>1, <1>2, <1>3 DEF Puts
  <2> QED BY ONLY <2>1, SpreadIs DEF m
<1> HIDE DEF m
<1>5. Len(m) = Len(s)
  BY <1>0, <1>1, <1>2, <1>4
<1>6. ASSUME NEW i \in 1 .. Len(s) PROVE m[View!MovedIndex(start, end, row, i)] = s[i]
  <2> DEFINE k == View!MovedIndex(start, end, row, i)
  <2>0. /\ i \in Int /\ 1 <= i /\ i <= Len(s) /\ d \in Int
        /\ i \in start .. end => k = d + (i - start)
        /\ i < start => k = IF i >= d THEN i + n ELSE i
        /\ i > end => k = IF i - n >= d THEN (i - n) + n ELSE i - n
    BY <1>0, <1>3 DEF View!MovedIndex, d
  <2> HIDE DEF k
  <2>1. CASE i < start
    <3>1. i \in 1 .. Len(c) /\ c[i] = s[i]
      BY <1>0, <1>1, <2>0, <2>1
    <3>2. CASE i >= d
      <4>1. m[i + Len(p)] = c[i] /\ k = i + n
        BY <1>4, <2>0, <2>1, <3>1, <3>2
      <4> QED BY <1>2, <3>1, <4>1 DEF k
    <3>3. CASE i < d
      <4>1. m[i] = c[i] /\ k = i
        BY <1>4, <2>0, <2>1, <3>1, <3>3
      <4> QED BY <3>1, <4>1 DEF k
    <3> QED BY <2>0, <3>2, <3>3
  <2>2. CASE i > end
    <3>1. i - n \in 1 .. Len(c) /\ c[i - n] = s[i]
      BY <1>0, <1>1, <2>0, <2>2
    <3>2. CASE i - n >= d
      <4>1. m[(i - n) + Len(p)] = c[i - n] /\ k = (i - n) + n
        BY <1>4, <2>0, <2>2, <3>1, <3>2
      <4> QED BY <1>2, <3>1, <4>1 DEF k
    <3>3. CASE i - n < d
      <4>1. m[i - n] = c[i - n] /\ k = i - n
        BY <1>4, <2>0, <2>2, <3>1, <3>3
      <4> QED BY <3>1, <4>1 DEF k
    <3> QED BY <1>0, <2>0, <3>2, <3>3
  <2>3. CASE i >= start /\ i <= end
    <3>1. /\ i - start + 1 \in 1 .. Len(p) /\ start - 1 + (i - start + 1) = i
          /\ k = d - 1 + (i - start + 1)
      BY <1>0, <1>2, <2>0, <2>3
    <3>2. m[d - 1 + (i - start + 1)] = p[i - start + 1] /\ p[i - start + 1] = s[i]
      BY <1>2, <1>4, <3>1
    <3> QED BY <3>1, <3>2 DEF k
  <2> QED BY <1>0, <2>0, <2>1, <2>2, <2>3
<1> QED BY <1>4, <1>5, <1>6 DEF m, c, d, p

-----------------------------------------------------------------------------
(***************************************************************************)
(* The running average, and what moving the records and measuring the      *)
(* delegates leave of it.                                                  *)
(***************************************************************************)
RecordList == Seq(View!Records)

Known(lay) == {i \in DOMAIN lay : lay[i].known}

HeightsOf(lay, I) == [i \in I |-> lay[i].height]

Averages(avg, lay) ==
  /\ avg.count = Cardinality(Known(lay))
  /\ avg.sum = SumOf(HeightsOf(lay, Known(lay)))

LEMMA HeightsAreNumbers == Heights \cup {0} \in SUBSET Nat
BY RowsAssumption

LEMMA RecordIs ==
  ASSUME NEW lay \in RecordList, NEW i \in DOMAIN lay
  PROVE  /\ i \in Nat /\ lay[i] \in View!Records
         /\ lay[i].height \in Heights \cup {0} /\ lay[i].height \in Nat
         /\ lay[i].known \in BOOLEAN /\ lay[i].at \in Int
<1>1. i \in 1 .. Len(lay) /\ Len(lay) \in Nat
  BY DEF RecordList
<1>2. lay[i] \in View!Records
  BY <1>1 DEF RecordList
<1> QED BY <1>1, <1>2, HeightsAreNumbers DEF View!Records

LEMMA KnownIs ==
  ASSUME NEW lay \in RecordList, NEW I, I \subseteq DOMAIN lay
  PROVE  /\ IsFiniteSet(I) /\ Cardinality(I) \in Nat
         /\ HeightsOf(lay, I) \in [I -> Nat] /\ SumOf(HeightsOf(lay, I)) \in Nat
<1>1. DOMAIN lay = 1 .. Len(lay) /\ Len(lay) \in Nat
  BY DEF RecordList
<1>2. IsFiniteSet(1 .. Len(lay))
  BY <1>1, FS_Interval
<1>3. IsFiniteSet(I)
  BY <1>1, <1>2, FS_Subset
<1>4. HeightsOf(lay, I) \in [I -> Nat]
  BY RecordIs DEF HeightsOf
<1> QED BY <1>3, <1>4, SumIsNumber, FS_CardinalityType

LEMMA AverageIs == View!AverageIsTrue <=> Averages(viewAverage, viewLayout)
<1>1. View!AverageIsTrue <=>
        /\ viewAverage.count = View!Cardinality(Known(viewLayout))
        /\ viewAverage.sum = View!SumOf(HeightsOf(viewLayout, Known(viewLayout)))
  BY Zenon DEF View!AverageIsTrue, Known, HeightsOf
<1>2. View!Cardinality(Known(viewLayout)) = Cardinality(Known(viewLayout))
  BY ListOperators
<1>3. View!SumOf(HeightsOf(viewLayout, Known(viewLayout))) = SumOf(HeightsOf(viewLayout, Known(viewLayout)))
  BY ListOperators
<1> QED BY <1>1, <1>2, <1>3 DEF Averages

(* The records at D go to new places and have nothing measured between.    *)
Rekeys(lay, new, D, to) ==
  /\ lay \in RecordList /\ new \in RecordList
  /\ D \subseteq DOMAIN lay /\ to \in [D -> DOMAIN new]
  /\ \A i, j \in D : to[i] = to[j] => i = j
  /\ \A i \in D : new[to[i]] = lay[i]
  /\ \A k \in DOMAIN new : new[k].known => \E i \in D : to[i] = k

LEMMA AverageRekeyed ==
  ASSUME NEW lay, NEW new, NEW D, NEW to, Rekeys(lay, new, D, to)
  PROVE  /\ SumOf(HeightsOf(new, Known(new))) = SumOf(HeightsOf(lay, Known(lay) \cap D))
         /\ Cardinality(Known(new)) = Cardinality(Known(lay) \cap D)
<1> DEFINE K == Known(lay) \cap D
           E == Known(new)
           f == HeightsOf(lay, K)
           g == HeightsOf(new, E)
           there == [i \in K |-> to[i]]
<1>0. /\ lay \in RecordList /\ new \in RecordList
      /\ D \subseteq DOMAIN lay /\ to \in [D -> DOMAIN new]
      /\ \A i, j \in D : to[i] = to[j] => i = j
      /\ \A i \in D : new[to[i]] = lay[i]
      /\ \A k \in DOMAIN new : new[k].known => \E i \in D : to[i] = k
  BY DEF Rekeys
<1>1. K \subseteq DOMAIN lay /\ E \subseteq DOMAIN new
  BY DEF Known
<1>2. IsFiniteSet(K) /\ f \in [K -> Nat] /\ g \in [E -> Nat]
  <2> HIDE DEF K, E
  <2> QED BY <1>0, <1>1, KnownIs
<1>3. there \in [K -> E]
  BY <1>0 DEF Known
<1>4. \A x, y \in K : there[x] = there[y] => x = y
  BY <1>0
<1>5. ASSUME NEW e \in E PROVE \E x \in K : there[x] = e
  <2>1. e \in DOMAIN new /\ new[e].known
    BY DEF Known
  <2>2. PICK x \in D : to[x] = e
    BY <1>0, <2>1
  <2>3. x \in K
    BY <1>0, <2>1, <2>2 DEF Known
  <2> QED BY <2>2, <2>3
<1>6. \A x \in K : g[there[x]] = f[x]
  BY <1>0, <1>3 DEF HeightsOf
<1> HIDE DEF K, E, f, g, there
<1>7. SumOf(g) = SumOf(f) /\ Cardinality(E) = Cardinality(K)
  BY ONLY <1>2, <1>3, <1>4, <1>5, <1>6, SumCarried
<1> QED BY <1>7 DEF K, E, f, g

(* Taking a part of the known records out of the average. *)
LEMMA AverageWithout ==
  ASSUME NEW lay \in RecordList, NEW avg, Averages(avg, lay), NEW I, I \subseteq Known(lay)
  PROVE  /\ avg.sum - SumOf(HeightsOf(lay, I)) = SumOf(HeightsOf(lay, Known(lay) \ I))
         /\ avg.count - Cardinality(I) = Cardinality(Known(lay) \ I)
<1> DEFINE K == Known(lay)
           f == HeightsOf(lay, K)
<1>1. K \subseteq DOMAIN lay /\ I \subseteq DOMAIN lay /\ K \ I \subseteq DOMAIN lay
  BY DEF Known
<1>2. /\ IsFiniteSet(K) /\ f \in [K -> Nat] /\ SumOf(HeightsOf(lay, I)) \in Nat
      /\ SumOf(HeightsOf(lay, K \ I)) \in Nat /\ Cardinality(I) \in Nat /\ Cardinality(K \ I) \in Nat
      /\ IsFiniteSet(I)
  <2> HIDE DEF K
  <2> QED BY <1>1, KnownIs
<1>3. [i \in I |-> f[i]] = HeightsOf(lay, I) /\ [i \in K \ I |-> f[i]] = HeightsOf(lay, K \ I)
  BY DEF HeightsOf
<1>4. SumOf(f) = SumOf([i \in I |-> f[i]]) + SumOf([i \in K \ I |-> f[i]])
  <2> HIDE DEF K, f
  <2>1. I \in SUBSET K
    BY DEF K
  <2> QED BY ONLY <1>2, <2>1, SumOfParts
<1>5. Cardinality(K) = Cardinality(I) + Cardinality(K \ I)
  <2> HIDE DEF K
  <2>1. I \subseteq K
    BY DEF K
  <2>2. Cardinality(K \ I) = Cardinality(K) - Cardinality(K \cap I) /\ K \cap I = I
    BY <1>2, <2>1, FS_Difference
  <2>3. Cardinality(K) \in Nat
    BY <1>2, FS_CardinalityType
  <2> QED BY <1>2, <2>2, <2>3
<1>6. avg.sum = SumOf(f) /\ avg.count = Cardinality(K)
  BY DEF Averages
<1> HIDE DEF f, K
<1>7. avg.sum - SumOf(HeightsOf(lay, I)) = SumOf(HeightsOf(lay, K \ I))
  BY <1>2, <1>3, <1>4, <1>6
<1>8. avg.count - Cardinality(I) = Cardinality(K \ I)
  BY <1>2, <1>5, <1>6
<1> QED BY <1>7, <1>8 DEF K

(* Measuring: the records at the indices of new have those heights.        *)
Measures(lay, new) ==
  /\ lay \in RecordList /\ DOMAIN new \subseteq DOMAIN lay
  /\ new \in [DOMAIN new -> Heights]

LEMMA LearnedIs ==
  ASSUME NEW lay, NEW new, Measures(lay, new)
  PROVE  LET lay2 == View!Learned(lay, new)
         IN  /\ lay2 \in RecordList /\ Len(lay2) = Len(lay) /\ DOMAIN lay2 = DOMAIN lay
             /\ \A i \in DOMAIN lay :
                  /\ lay2[i].at = lay[i].at
                  /\ i \in DOMAIN new => lay2[i].known /\ lay2[i].height = new[i]
                  /\ i \notin DOMAIN new => lay2[i] = lay[i]
             /\ DOMAIN new = {} => lay2 = lay
<1> DEFINE lay2 == View!Learned(lay, new)
<1>0. lay \in RecordList /\ DOMAIN new \subseteq DOMAIN lay /\ new \in [DOMAIN new -> Heights]
  BY DEF Measures
<1>1. DOMAIN lay = 1 .. Len(lay) /\ Len(lay) \in Nat /\ lay \in [DOMAIN lay -> View!Records]
  BY <1>0 DEF RecordList
<1>2. lay2 = [i \in DOMAIN lay |-> IF i \in DOMAIN new
                THEN [lay[i] EXCEPT !.height = new[i], !.known = TRUE] ELSE lay[i]]
  BY Zenon DEF View!Learned
<1>3. ASSUME NEW i \in DOMAIN lay
      PROVE  /\ lay2[i] \in View!Records /\ lay2[i].at = lay[i].at
             /\ i \in DOMAIN new => lay2[i].known /\ lay2[i].height = new[i]
             /\ i \notin DOMAIN new => lay2[i] = lay[i]
  <2>1. lay[i] \in View!Records
    BY <1>0, RecordIs
  <2>2. CASE i \in DOMAIN new
    <3>1. lay2[i] = [lay[i] EXCEPT !.height = new[i], !.known = TRUE]
      BY <1>2, <2>2
    <3>2. new[i] \in Heights
      BY <1>0, <2>2
    <3> HIDE DEF lay2
    <3> QED BY <2>1, <2>2, <3>1, <3>2 DEF View!Records
  <2>3. CASE i \notin DOMAIN new
    <3>1. lay2[i] = lay[i]
      BY <1>2, <2>3
    <3> HIDE DEF lay2
    <3> QED BY <2>1, <2>3, <3>1
  <2> QED BY <2>2, <2>3
<1>4. DOMAIN lay2 = DOMAIN lay
  BY <1>2
<1>5. lay2 \in [1 .. Len(lay) -> View!Records]
  <2>1. lay2 = [i \in DOMAIN lay2 |-> lay2[i]]
    BY <1>2
  <2> HIDE DEF lay2
  <2> QED BY <1>1, <1>3, <1>4, <2>1
<1>6. lay2 \in RecordList /\ Len(lay2) = Len(lay)
  <2> HIDE DEF lay2
  <2> QED BY <1>1, <1>5 DEF RecordList
<1>7. DOMAIN new = {} => lay2 = lay
  BY <1>1, <1>2
<1> HIDE DEF lay2
<1>8. QED BY <1>3, <1>4, <1>6, <1>7 DEF lay2

LEMMA TrackedIs ==
  ASSUME NEW lay, NEW new, Measures(lay, new), NEW avg, Averages(avg, lay)
  PROVE  Averages(View!Tracked(avg, lay, new), View!Learned(lay, new))
<1> DEFINE lay2 == View!Learned(lay, new)
           I == DOMAIN new
           K == Known(lay)
           again == {i \in I : lay[i].known}
           K2 == Known(lay2)
<1>0. lay \in RecordList /\ I \subseteq DOMAIN lay /\ new \in [I -> Heights]
  BY DEF Measures
<1>1. /\ lay2 \in RecordList /\ DOMAIN lay2 = DOMAIN lay
      /\ \A i \in DOMAIN lay :
           /\ i \in I => lay2[i].known /\ lay2[i].height = new[i]
           /\ i \notin I => lay2[i] = lay[i]
  BY LearnedIs
<1>2. View!Tracked(avg, lay, new) =
        [sum |-> avg.sum - View!SumOf(HeightsOf(lay, again)) + View!SumOf(new),
         count |-> avg.count - View!Cardinality(again) + View!Cardinality(I)]
  BY Zenon DEF View!Tracked, HeightsOf
<1>3. /\ View!SumOf(HeightsOf(lay, again)) = SumOf(HeightsOf(lay, again))
      /\ View!SumOf(new) = SumOf(new)
      /\ View!Cardinality(again) = Cardinality(again) /\ View!Cardinality(I) = Cardinality(I)
  BY ListOperators
<1> HIDE DEF lay2
<1>4. again \subseteq K /\ K \ again = K \ I
  BY <1>0 DEF Known
<1>5. /\ avg.sum - SumOf(HeightsOf(lay, again)) = SumOf(HeightsOf(lay, K \ I))
      /\ avg.count - Cardinality(again) = Cardinality(K \ I)
  <2>1. /\ avg.sum - SumOf(HeightsOf(lay, again)) = SumOf(HeightsOf(lay, K \ again))
        /\ avg.count - Cardinality(again) = Cardinality(K \ again)
    <3> HIDE DEF again
    <3> QED BY <1>0, <1>4, AverageWithout
  <2> QED BY <1>4, <2>1
<1>6. K2 = I \cup (K \ I)
  BY <1>0, <1>1 DEF Known
<1>7. /\ K2 \subseteq DOMAIN lay2 /\ I \subseteq DOMAIN lay2 /\ K \ I \subseteq DOMAIN lay
      /\ I \subseteq K2 /\ K2 \ I = K \ I
  BY <1>0, <1>1, <1>6 DEF Known
<1>8. HeightsOf(lay2, I) = new
  BY <1>0, <1>1, <1>7 DEF HeightsOf
<1>9. HeightsOf(lay2, K \ I) = HeightsOf(lay, K \ I)
  BY <1>1, <1>7 DEF HeightsOf
<1> HIDE DEF K, K2, again, I
<1>10. /\ IsFiniteSet(K2) /\ HeightsOf(lay2, K2) \in [K2 -> Nat] /\ IsFiniteSet(I)
       /\ Cardinality(I) \in Nat /\ Cardinality(K2) \in Nat /\ Cardinality(K \ I) \in Nat
       /\ SumOf(HeightsOf(lay2, I)) \in Nat /\ SumOf(HeightsOf(lay, K \ I)) \in Nat
  BY <1>0, <1>1, <1>7, KnownIs
<1>11. SumOf(HeightsOf(lay2, K2)) = SumOf(HeightsOf(lay2, I)) + SumOf(HeightsOf(lay2, K2 \ I))
  <2> DEFINE f == HeightsOf(lay2, K2)
  <2>1. [i \in I |-> f[i]] = HeightsOf(lay2, I) /\ [i \in K2 \ I |-> f[i]] = HeightsOf(lay2, K2 \ I)
    BY <1>7 DEF HeightsOf
  <2>2. I \in SUBSET K2
    BY <1>7
  <2> HIDE DEF f
  <2>3. SumOf(f) = SumOf([i \in I |-> f[i]]) + SumOf([i \in K2 \ I |-> f[i]])
    <3>1. f \in [K2 -> Nat] /\ IsFiniteSet(K2)
      BY <1>10 DEF f
    <3> QED BY ONLY <2>2, <3>1, SumOfParts
  <2> QED BY <2>1, <2>3 DEF f
<1>12. Cardinality(K2) = Cardinality(I) + Cardinality(K \ I)
  <2>1. Cardinality(K2 \ I) = Cardinality(K2) - Cardinality(K2 \cap I) /\ K2 \cap I = I
    BY <1>7, <1>10, FS_Difference
  <2>2. K2 \ I = K \ I
    BY <1>7
  <2>3. Cardinality(K \ I) = Cardinality(K2) - Cardinality(I)
    BY ONLY <2>1, <2>2
  <2> QED BY ONLY <1>10, <2>3
<1>13. SumOf(HeightsOf(lay2, K2)) = (avg.sum - SumOf(HeightsOf(lay, again))) + SumOf(new)
  BY <1>5, <1>7, <1>8, <1>9, <1>10, <1>11
<1>14. Cardinality(K2) = (avg.count - Cardinality(again)) + Cardinality(I)
  BY <1>5, <1>10, <1>12
<1>15. Averages(View!Tracked(avg, lay, new), lay2)
  BY <1>2, <1>3, <1>13, <1>14 DEF Averages, K2
<1> QED BY <1>15 DEF lay2

-----------------------------------------------------------------------------
(* Delegates are given the indices of their rows.                          *)
Remaps(del, D, to) == DOMAIN del = D /\ DOMAIN to = D /\ \A i, j \in D : to[i] = to[j] => i = j

LEMMA RemappedIs ==
  ASSUME NEW del, NEW D, NEW to, Remaps(del, D, to)
  PROVE  /\ \A k : k \in DOMAIN View!Remapped(del, to) <=> \E i \in D : to[i] = k
         /\ \A i \in D : View!Remapped(del, to)[to[i]] = del[i]
<1> DEFINE at(k) == CHOOSE i \in DOMAIN del : to[i] = k
<1>1. View!Remapped(del, to) = [k \in {to[i] : i \in D} |-> del[at(k)]]
  BY DEF View!Remapped, Remaps
<1>2. ASSUME NEW i \in D PROVE View!Remapped(del, to)[to[i]] = del[i]
  <2>1. at(to[i]) \in D /\ to[at(to[i])] = to[i]
    BY DEF Remaps
  <2>2. at(to[i]) = i
    BY <2>1 DEF Remaps
  <2> QED BY <1>1, <2>2
<1> QED BY <1>1, <1>2

-----------------------------------------------------------------------------
(* Each delegate is that of its row, and is as high as the record says.    *)
Follow(del, mod, lay, heights) ==
  \A i \in DOMAIN del :
    /\ del[i].row = mod[i]
    /\ ~del[i].pending => lay[i].known /\ lay[i].height = heights[mod[i]]

ListOK(mod, heights, lay, avg, del) ==
  /\ mod \in Seq(Rows) /\ heights \in [Rows -> Heights]
  /\ lay \in RecordList /\ Len(lay) = Len(mod)
  /\ DOMAIN del \subseteq DOMAIN mod /\ \A i \in DOMAIN del : del[i] \in View!Delegates
  /\ Follow(del, mod, lay, heights)
  /\ Averages(avg, lay)

(* Rows that come, go and move take their records and delegates with them. *)
LEMMA ListRekeyed ==
  ASSUME NEW mod, NEW heights, NEW lay, NEW avg, NEW del, ListOK(mod, heights, lay, avg, del),
         NEW mod2 \in Seq(Rows), NEW lay2, Len(lay2) = Len(mod2),
         NEW D, NEW to, Rekeys(lay, lay2, D, to), \A i \in D : mod2[to[i]] = mod[i],
         NEW kept, NEW E, E \subseteq D \cap DOMAIN del, DOMAIN kept = E, \A i \in E : kept[i] = del[i],
         NEW there, DOMAIN there = E, \A i \in E : there[i] = to[i],
         NEW avg2, avg2.sum = SumOf(HeightsOf(lay, Known(lay) \cap D)),
         avg2.count = Cardinality(Known(lay) \cap D)
  PROVE  ListOK(mod2, heights, lay2, avg2, View!Remapped(kept, there))
<1> DEFINE del2 == View!Remapped(kept, there)
<1>0. /\ lay \in RecordList /\ lay2 \in RecordList /\ DOMAIN lay2 = DOMAIN mod2
      /\ D \subseteq DOMAIN lay /\ to \in [D -> DOMAIN lay2]
      /\ \A i, j \in D : to[i] = to[j] => i = j
      /\ \A i \in D : lay2[to[i]] = lay[i]
  BY DEF Rekeys, RecordList
<1>1. (\A k : k \in DOMAIN del2 <=> \E i \in E : there[i] = k) /\ \A i \in E : del2[there[i]] = kept[i]
  <2>1. \A i, j \in E : there[i] = there[j] => i = j
    BY <1>0
  <2>2. Remaps(kept, E, there)
    BY <2>1 DEF Remaps
  <2>3. /\ \A k : k \in DOMAIN View!Remapped(kept, there) <=> \E i \in E : there[i] = k
        /\ \A i \in E : View!Remapped(kept, there)[there[i]] = kept[i]
    BY ONLY <2>2, RemappedIs
  <2> QED BY ONLY <2>3 DEF del2
<1> HIDE DEF del2
<1>2. \A k \in DOMAIN del2 : \E i \in E : k = to[i] /\ del2[k] = del[i] /\ i \in D /\ i \in DOMAIN del
  BY <1>1
<1>3. ASSUME NEW k \in DOMAIN del2
      PROVE  /\ k \in DOMAIN mod2 /\ del2[k] \in View!Delegates /\ del2[k].row = mod2[k]
             /\ ~del2[k].pending => lay2[k].known /\ lay2[k].height = heights[mod2[k]]
  <2>1. PICK i \in E : k = to[i] /\ del2[k] = del[i] /\ i \in D /\ i \in DOMAIN del
    BY <1>2
  <2>2. mod2[k] = mod[i] /\ lay2[k] = lay[i] /\ k \in DOMAIN mod2
    BY <1>0, <2>1
  <2>3. /\ del[i] \in View!Delegates /\ del[i].row = mod[i]
        /\ ~del[i].pending => lay[i].known /\ lay[i].height = heights[mod[i]]
    BY <2>1 DEF ListOK, Follow
  <2> QED BY <2>1, <2>2, <2>3
<1>4. Averages(avg2, lay2)
  <2>1. /\ SumOf(HeightsOf(lay2, Known(lay2))) = SumOf(HeightsOf(lay, Known(lay) \cap D))
        /\ Cardinality(Known(lay2)) = Cardinality(Known(lay) \cap D)
    BY AverageRekeyed
  <2> QED BY <2>1 DEF Averages
<1>5. heights \in [Rows -> Heights]
  BY DEF ListOK
<1>6. Follow(del2, mod2, lay2, heights)
  BY <1>3 DEF Follow
<1>7. DOMAIN del2 \subseteq DOMAIN mod2 /\ \A k \in DOMAIN del2 : del2[k] \in View!Delegates
  BY <1>3
<1> QED BY <1>0, <1>4, <1>5, <1>6, <1>7 DEF ListOK, del2

LEMMA AllStay ==
  ASSUME NEW lay \in RecordList, NEW avg, Averages(avg, lay)
  PROVE  /\ avg.sum = SumOf(HeightsOf(lay, Known(lay) \cap DOMAIN lay))
         /\ avg.count = Cardinality(Known(lay) \cap DOMAIN lay)
<1>1. Known(lay) \cap DOMAIN lay = Known(lay)
  BY DEF Known
<1> QED BY <1>1 DEF Averages

LEMMA UnknownIs == View!Unknown \in View!Records /\ ~View!Unknown.known
BY DEF View!Unknown, View!Records

Coming(mod, heights, lay, avg, del, first, rows) ==
  ListOK(mod, heights, lay, avg, del) /\ first \in 1 .. Len(mod) + 1 /\ rows \in Seq(Rows)

Came(mod, heights, lay, avg, del, first, rows) ==
  ListOK(View!Spread(mod, first, rows), heights,
         View!Spread(lay, first, [i \in 1 .. Len(rows) |-> View!Unknown]), avg,
         View!Remapped(del, [i \in DOMAIN del |-> IF i >= first THEN i + Len(rows) ELSE i]))

LEMMA RowsCome ==
  ASSUME NEW mod, NEW heights, NEW lay, NEW avg, NEW del, NEW first, NEW rows,
         Coming(mod, heights, lay, avg, del, first, rows)
  PROVE  Came(mod, heights, lay, avg, del, first, rows)
<1> DEFINE n == Len(rows)
           blank == [i \in 1 .. n |-> View!Unknown]
           mod2 == View!Spread(mod, first, rows)
           lay2 == View!Spread(lay, first, blank)
           to == [i \in 1 .. Len(mod) |-> IF i >= first THEN i + n ELSE i]
           there == [i \in DOMAIN del |-> IF i >= first THEN i + n ELSE i]
<1>c. /\ ListOK(mod, heights, lay, avg, del)
      /\ first \in 1 .. Len(mod) + 1 /\ rows \in Seq(Rows)
  BY DEF Coming
<1>0. /\ n \in Nat /\ mod \in Seq(Rows) /\ lay \in RecordList /\ Len(lay) = Len(mod) /\ Len(mod) \in Nat
      /\ DOMAIN lay = 1 .. Len(mod) /\ DOMAIN del \subseteq 1 .. Len(mod) /\ Averages(avg, lay)
      /\ first \in Int /\ 1 <= first /\ first <= Len(mod) + 1
  BY <1>c DEF ListOK, RecordList
<1>1. blank \in Seq(View!Records) /\ Len(blank) = n /\ \A i \in 1 .. n : ~blank[i].known
  <2>1. blank \in [1 .. n -> View!Records]
    BY UnknownIs
  <2>2. \A i \in 1 .. n : blank[i] = View!Unknown
    OBVIOUS
  <2> HIDE DEF blank, n
  <2> QED BY <1>0, <2>1, <2>2, UnknownIs
<1>2. /\ mod2 \in Seq(Rows) /\ Len(mod2) = Len(mod) + n
      /\ \A i \in 1 .. Len(mod) : (i < first => mod2[i] = mod[i]) /\ (i >= first => mod2[i + n] = mod[i])
  <2>1. Puts(Rows, mod, rows, first)
    BY <1>0, <1>c DEF Puts
  <2> QED BY ONLY <2>1, SpreadIs
<1> HIDE DEF n, blank
<1>3. /\ lay2 \in Seq(View!Records) /\ Len(lay2) = Len(lay) + Len(blank)
      /\ \A i \in 1 .. Len(lay) : (i < first => lay2[i] = lay[i])
                                  /\ (i >= first => lay2[i + Len(blank)] = lay[i])
      /\ \A i \in 1 .. Len(blank) : lay2[first - 1 + i] = blank[i]
  <2>1. Puts(View!Records, lay, blank, first)
    BY <1>0, <1>1 DEF Puts, RecordList
  <2> QED BY ONLY <2>1, SpreadIs DEF lay2
<1> HIDE DEF lay2, mod2
<1>4. /\ DOMAIN lay2 = 1 .. Len(mod) + n /\ Len(lay2) = Len(mod2) /\ lay2 \in RecordList
  BY <1>0, <1>1, <1>2, <1>3 DEF RecordList
<1>5. \A i \in 1 .. Len(mod) : to[i] \in 1 .. Len(mod) + n
  BY <1>0
<1>6. \A i \in 1 .. Len(mod) : lay2[to[i]] = lay[i] /\ mod2[to[i]] = mod[i]
  BY <1>0, <1>1, <1>2, <1>3
<1>7. \A i, j \in 1 .. Len(mod) : to[i] = to[j] => i = j
  BY <1>0
<1>8. ASSUME NEW k \in 1 .. Len(mod) + n, lay2[k].known PROVE \E i \in 1 .. Len(mod) : to[i] = k
  <2>1. CASE k < first
    <3>1. k \in 1 .. Len(mod) /\ to[k] = k
      BY <1>0, <2>1
    <3> QED BY <3>1
  <2>2. CASE k >= first /\ k < first + n
    <3>1. k - (first - 1) \in 1 .. Len(blank) /\ first - 1 + (k - (first - 1)) = k
      BY <1>0, <1>1, <2>2
    <3>2. ~lay2[k].known
      BY <1>1, <1>3, <3>1
    <3> QED BY <1>8, <3>2
  <2>3. CASE k >= first + n
    <3>1. k - n \in 1 .. Len(mod) /\ to[k - n] = k
      BY <1>0, <2>3
    <3> QED BY <3>1
  <2> QED BY <1>0, <2>1, <2>2, <2>3
<1>9. to \in [1 .. Len(mod) -> 1 .. Len(mod) + n]
  BY <1>5
<1> DEFINE D == 1 .. Len(mod)
<1>10. \A i \in DOMAIN del : there[i] = to[i]
  BY <1>0
<1>11. DOMAIN there = DOMAIN del
  OBVIOUS
<1> HIDE DEF to, there
<1>12. Rekeys(lay, lay2, D, to)
  BY <1>0, <1>4, <1>6, <1>7, <1>8, <1>9 DEF Rekeys
<1>13. /\ avg.sum = SumOf(HeightsOf(lay, Known(lay) \cap D))
       /\ avg.count = Cardinality(Known(lay) \cap D)
  BY <1>0, AllStay
<1>14. DOMAIN del \subseteq D \cap DOMAIN del
  BY <1>0
<1>15. \A i \in D : mod2[to[i]] = mod[i]
  BY <1>6
<1> HIDE DEF D
<1>16. ListOK(mod2, heights, lay2, avg, View!Remapped(del, there))
  BY <1>c, <1>2, <1>4, <1>10, <1>11, <1>12, <1>13, <1>14, <1>15, ListRekeyed, SMTT(30)
<1> QED BY <1>16, Zenon DEF Came, mod2, lay2, there, blank, n

Going(mod, heights, lay, avg, del, first, last) ==
  /\ ListOK(mod, heights, lay, avg, del)
  /\ first \in Int /\ last \in Int /\ 1 <= first /\ first <= last /\ last <= Len(mod)

Gone(mod, heights, lay, avg, del, first, last) ==
  LET n == last - first + 1
      gone == first .. last
      known == {i \in gone : lay[i].known}
  IN  ListOK(View!Cut(mod, first, last), heights, View!Cut(lay, first, last),
             [sum |-> avg.sum - View!SumOf([i \in known |-> lay[i].height]),
              count |-> avg.count - View!Cardinality(known)],
             View!Remapped([i \in DOMAIN del \ gone |-> del[i]],
                           [i \in DOMAIN del \ gone |-> IF i > last THEN i - n ELSE i]))

LEMMA RowsGo ==
  ASSUME NEW mod, NEW heights, NEW lay, NEW avg, NEW del, NEW first, NEW last,
         Going(mod, heights, lay, avg, del, first, last)
  PROVE  Gone(mod, heights, lay, avg, del, first, last)
<1> DEFINE n == last - first + 1
           gone == first .. last
           known == {i \in gone : lay[i].known}
           mod2 == View!Cut(mod, first, last)
           lay2 == View!Cut(lay, first, last)
           avg2 == [sum |-> avg.sum - View!SumOf([i \in known |-> lay[i].height]),
                    count |-> avg.count - View!Cardinality(known)]
           D == 1 .. Len(mod) \ gone
           E == DOMAIN del \ gone
           to == [i \in D |-> IF i > last THEN i - n ELSE i]
           kept == [i \in E |-> del[i]]
           there == [i \in E |-> IF i > last THEN i - n ELSE i]
<1>c. /\ ListOK(mod, heights, lay, avg, del)
      /\ first \in Int /\ last \in Int /\ 1 <= first /\ first <= last /\ last <= Len(mod)
  BY DEF Going
<1>0. /\ mod \in Seq(Rows) /\ lay \in RecordList /\ Len(lay) = Len(mod) /\ Len(mod) \in Nat
      /\ DOMAIN lay = 1 .. Len(mod) /\ DOMAIN del \subseteq 1 .. Len(mod) /\ Averages(avg, lay)
      /\ n \in Int /\ n = last - first + 1
  BY <1>c DEF ListOK, RecordList
<1>1. /\ mod2 \in Seq(Rows) /\ Len(mod2) = Len(mod) - n
      /\ \A i \in 1 .. Len(mod) : (i < first => mod2[i] = mod[i]) /\ (i > last => mod2[i - n] = mod[i])
  BY <1>c, <1>0, CutIs
<1>2. /\ lay2 \in RecordList /\ Len(lay2) = Len(mod) - n
      /\ \A i \in 1 .. Len(mod) : (i < first => lay2[i] = lay[i]) /\ (i > last => lay2[i - n] = lay[i])
  <2>1. lay \in Seq(View!Records) /\ last <= Len(lay)
    BY <1>c, <1>0 DEF RecordList
  <2>2. /\ lay2 \in Seq(View!Records) /\ Len(lay2) = Len(lay) - (last - first + 1)
        /\ \A i \in 1 .. Len(lay) : (i < first => lay2[i] = lay[i])
                                     /\ (i > last => lay2[i - (last - first + 1)] = lay[i])
    BY ONLY <1>c, <2>1, CutIs DEF lay2
  <2> QED BY <1>c, <1>0, <2>2 DEF RecordList
<1> HIDE DEF mod2, lay2, n
<1>3. DOMAIN lay2 = 1 .. Len(mod) - n
  BY <1>2 DEF RecordList
<1>4. \A i \in D : (i < first \/ i > last) /\ i \in 1 .. Len(mod)
  BY <1>c, <1>0
<1>5. \A i \in D : to[i] \in 1 .. Len(mod) - n
  BY <1>c, <1>0, <1>4
<1>6. \A i \in D : lay2[to[i]] = lay[i] /\ mod2[to[i]] = mod[i]
  BY <1>c, <1>0, <1>1, <1>2, <1>4
<1>7. \A i, j \in D : to[i] = to[j] => i = j
  BY <1>c, <1>0, <1>4
<1>8. ASSUME NEW k \in 1 .. Len(mod) - n PROVE \E i \in D : to[i] = k
  <2>1. CASE k < first
    <3>1. k \in D /\ to[k] = k
      BY <1>c, <1>0, <2>1
    <3> QED BY <3>1
  <2>2. CASE k >= first
    <3>1. k + n \in D /\ to[k + n] = k
      BY <1>c, <1>0, <2>2
    <3> QED BY <3>1
  <2> QED BY <1>c, <1>0, <2>1, <2>2
<1>9. to \in [D -> 1 .. Len(mod) - n]
  BY <1>5
<1>10. E \subseteq D \cap DOMAIN del
  BY <1>c, <1>0
<1>11. DOMAIN kept = E /\ DOMAIN there = E /\ \A i \in E : kept[i] = del[i]
  OBVIOUS
<1>12. \A i \in E : there[i] = to[i]
  BY <1>10
<1>13. Known(lay) \cap D = Known(lay) \ known /\ known \subseteq Known(lay)
  BY <1>c, <1>0 DEF Known
<1>14. avg2.sum = avg.sum - SumOf(HeightsOf(lay, known)) /\ avg2.count = avg.count - Cardinality(known)
  <2>1. View!SumOf([i \in known |-> lay[i].height]) = SumOf(HeightsOf(lay, known))
    BY ListOperators DEF HeightsOf
  <2>2. View!Cardinality(known) = Cardinality(known)
    BY ListOperators
  <2> QED BY <2>1, <2>2
<1>15. D \subseteq DOMAIN lay
  BY <1>c, <1>0
<1> HIDE DEF to, kept, there, D, E, known, avg2
<1>16. Rekeys(lay, lay2, D, to)
  BY <1>c, <1>0, <1>2, <1>3, <1>6, <1>7, <1>8, <1>9, <1>15 DEF Rekeys
<1>17. /\ avg2.sum = SumOf(HeightsOf(lay, Known(lay) \cap D))
       /\ avg2.count = Cardinality(Known(lay) \cap D)
  <2>1. /\ avg.sum - SumOf(HeightsOf(lay, known)) = SumOf(HeightsOf(lay, Known(lay) \ known))
        /\ avg.count - Cardinality(known) = Cardinality(Known(lay) \ known)
    BY <1>c, <1>0, <1>13, AverageWithout
  <2> QED BY <1>13, <1>14, <2>1
<1>18. Len(lay2) = Len(mod2) /\ \A i \in D : mod2[to[i]] = mod[i]
  BY <1>1, <1>2, <1>6
<1>19. ListOK(mod2, heights, lay2, avg2, View!Remapped(kept, there))
  BY <1>c, <1>1, <1>10, <1>11, <1>12, <1>16, <1>17, <1>18, ListRekeyed
<1> QED BY <1>19, Zenon DEF Gone, mod2, lay2, avg2, kept, there, E, known, n

Moving(mod, heights, lay, avg, del, start, end, row) ==
  ListOK(mod, heights, lay, avg, del) /\ Moves(mod, start, end, row)

Moved(mod, heights, lay, avg, del, start, end, row) ==
  ListOK(View!ModelMoved(mod, start, end, row), heights,
         View!Spread(View!Cut(lay, start, end), View!Dest(start, end, row), SubSeq(lay, start, end)),
         avg,
         View!Remapped(del, [i \in DOMAIN del |-> View!MovedIndex(start, end, row, i)]))

LEMMA RowsMove ==
  ASSUME NEW mod, NEW heights, NEW lay, NEW avg, NEW del, NEW start, NEW end, NEW row,
         Moving(mod, heights, lay, avg, del, start, end, row)
  PROVE  Moved(mod, heights, lay, avg, del, start, end, row)
<1> DEFINE mod2 == View!ModelMoved(mod, start, end, row)
           lay2 == View!Spread(View!Cut(lay, start, end), View!Dest(start, end, row), SubSeq(lay, start, end))
           D == 1 .. Len(mod)
           to == [i \in D |-> View!MovedIndex(start, end, row, i)]
           there == [i \in DOMAIN del |-> View!MovedIndex(start, end, row, i)]
<1>c. /\ ListOK(mod, heights, lay, avg, del) /\ Moves(mod, start, end, row)
      /\ start \in Int /\ end \in Int /\ row \in Int
  BY DEF Moving, Moves, Shifts
<1>0. /\ mod \in Seq(Rows) /\ lay \in RecordList /\ Len(lay) = Len(mod) /\ Len(mod) \in Nat
      /\ DOMAIN lay = D /\ DOMAIN del \subseteq D /\ Averages(avg, lay)
  BY <1>c DEF ListOK, RecordList
<1>1. mod2 \in Seq(Rows) /\ Len(mod2) = Len(mod) /\ \A i \in D : mod2[View!MovedIndex(start, end, row, i)] = mod[i]
  BY <1>c, <1>0, ModelMovedIs
<1>2. lay2 \in RecordList /\ Len(lay2) = Len(lay) /\ \A i \in D : lay2[View!MovedIndex(start, end, row, i)] = lay[i]
  <2>1. Moves(lay, start, end, row)
    BY <1>c, <1>0 DEF Moves
  <2>2. lay \in Seq(View!Records)
    BY <1>0 DEF RecordList
  <2>3. lay2 \in Seq(View!Records) /\ Len(lay2) = Len(lay) /\ \A i \in 1 .. Len(lay) : lay2[View!MovedIndex(start, end, row, i)] = lay[i]
    BY ONLY <1>c, <2>1, <2>2, RecordsMoved DEF lay2
  <2> QED BY <1>0, <2>3 DEF RecordList
<1>3. /\ \A i \in D : View!MovedIndex(start, end, row, i) \in D
      /\ \A i, j \in D : View!MovedIndex(start, end, row, i) = View!MovedIndex(start, end, row, j) => i = j
      /\ \A k \in D : \E i \in D : View!MovedIndex(start, end, row, i) = k
  <2>1. Shifts(Len(mod), start, end, row)
    BY <1>c DEF Moves
  <2> QED BY <2>1, MovedIndexIs
<1> HIDE DEF mod2, lay2
<1>4. DOMAIN lay2 = D /\ Len(lay2) = Len(mod2)
  BY <1>0, <1>1, <1>2 DEF RecordList
<1>5. \A i \in D : to[i] = View!MovedIndex(start, end, row, i)
  OBVIOUS
<1>6. to \in [D -> D]
  BY <1>3
<1>7. DOMAIN there = DOMAIN del /\ \A i \in DOMAIN del : there[i] = to[i]
  BY <1>0
<1> HIDE DEF to, there, D
<1>8. Rekeys(lay, lay2, D, to)
  BY <1>0, <1>2, <1>3, <1>4, <1>5, <1>6 DEF Rekeys
<1>9. \A i \in D : mod2[to[i]] = mod[i]
  BY <1>1, <1>5
<1>10. /\ avg.sum = SumOf(HeightsOf(lay, Known(lay) \cap D))
       /\ avg.count = Cardinality(Known(lay) \cap D)
  BY <1>0, AllStay
<1>11. DOMAIN del \subseteq D \cap DOMAIN del
  BY <1>0
<1>l. ListOK(mod, heights, lay, avg, del)
  BY <1>c
<1>12. ListOK(mod2, heights, lay2, avg, View!Remapped(del, there))
  BY ONLY <1>l, <1>1, <1>4, <1>7, <1>8, <1>9, <1>10, <1>11, ListRekeyed
<1> QED BY <1>12, Zenon DEF Moved, mod2, lay2, there

-----------------------------------------------------------------------------
(* The heights of the layout are numbers, whatever is known of them. *)
LEMMA LayoutHeightsAre ==
  ASSUME NEW lay \in RecordList, NEW avg, Averages(avg, lay)
  PROVE  /\ View!Estimate(avg) \in Nat
         /\ View!LayoutHeights(lay, avg) \in Seq(Nat)
         /\ Len(View!LayoutHeights(lay, avg)) = Len(lay)
         /\ \A i \in DOMAIN lay : /\ View!LayoutHeights(lay, avg)[i] = View!LayoutHeight(lay[i], avg)
                                  /\ View!LayoutHeight(lay[i], avg) \in Nat
<1>1. avg.sum \in Nat /\ avg.count \in Nat
  BY KnownIs DEF Averages, Known
<1>2. View!Estimate(avg) \in Nat
  <2> DEFINE s == avg.sum
             c == avg.count
  <2>1. s \in Nat /\ c \in Nat
    BY <1>1
  <2> HIDE DEF s, c
  <2>2. c > 0 => s \div c \in Nat
    BY <2>1
  <2> QED BY <2>2, RowsAssumption DEF View!Estimate, s, c
<1>3. ASSUME NEW i \in DOMAIN lay PROVE View!LayoutHeight(lay[i], avg) \in Nat
  BY <1>2, RecordIs DEF View!LayoutHeight
<1>4. Len(lay) \in Nat /\ DOMAIN lay = 1 .. Len(lay)
  BY DEF RecordList
<1>5. View!LayoutHeights(lay, avg) = [i \in 1 .. Len(lay) |-> View!LayoutHeight(lay[i], avg)]
  BY <1>4 DEF View!LayoutHeights
<1> DEFINE hs == View!LayoutHeights(lay, avg)
<1>6. hs \in [1 .. Len(lay) -> Nat] /\ \A i \in 1 .. Len(lay) : hs[i] = View!LayoutHeight(lay[i], avg)
  BY <1>3, <1>4, <1>5
<1> HIDE DEF hs
<1>7. hs \in Seq(Nat) /\ Len(hs) = Len(lay)
  BY <1>4, <1>6
<1> QED BY <1>2, <1>3, <1>4, <1>6, <1>7 DEF hs

(* Records at their places are the same records; placing them twice is     *)
(* placing them once.                                                      *)
LEMMA PositionedIs ==
  ASSUME NEW lay \in RecordList, NEW avg, Averages(avg, lay)
  PROVE  LET ends == View!Ends(View!LayoutHeights(lay, avg))
             new == View!Positioned(lay, avg, ends)
         IN  /\ new \in RecordList /\ Len(new) = Len(lay) /\ DOMAIN new = DOMAIN lay
             /\ \A i \in DOMAIN lay : new[i].known = lay[i].known /\ new[i].height = lay[i].height
             /\ Averages(avg, new)
             /\ View!LayoutHeights(new, avg) = View!LayoutHeights(lay, avg)
             /\ View!Positioned(new, avg, ends) = new
             /\ ends[Len(lay)] \in Nat
<1> DEFINE hs == View!LayoutHeights(lay, avg)
           ends == View!Ends(hs)
           new == View!Positioned(lay, avg, ends)
           at(i) == IF View!LayoutHeight(lay[i], avg) = 0 THEN ends[i - 1]
                    ELSE ends[i] - View!LayoutHeight(lay[i], avg)
<1>0. Len(lay) \in Nat /\ DOMAIN lay = 1 .. Len(lay)
  BY DEF RecordList
<1>1. hs \in Seq(Nat) /\ Len(hs) = Len(lay) /\ \A i \in DOMAIN lay : View!LayoutHeight(lay[i], avg) \in Nat
  BY LayoutHeightsAre
<1>2. ends \in [0 .. Len(lay) -> Nat]
  BY <1>1, EndsAre
<1>3. ends[Len(lay)] \in Nat
  BY <1>0, <1>2
<1>4. new = [i \in 1 .. Len(lay) |-> [lay[i] EXCEPT !.at = at(i)]]
  BY Zenon, <1>0 DEF View!Positioned
<1> HIDE DEF hs, ends
<1>5. ASSUME NEW i \in 1 .. Len(lay) PROVE at(i) \in Int
  BY <1>0, <1>1, <1>2
<1> HIDE DEF at, new
<1>6. ASSUME NEW i \in 1 .. Len(lay)
      PROVE  /\ new[i] \in View!Records /\ new[i].known = lay[i].known /\ new[i].height = lay[i].height
             /\ new[i].at = at(i)
  <2>1. lay[i] \in View!Records
    BY <1>0, RecordIs
  <2>2. new[i] = [lay[i] EXCEPT !.at = at(i)]
    BY <1>4
  <2> QED BY <1>5, <2>1, <2>2 DEF View!Records
<1>7. new \in [1 .. Len(lay) -> View!Records]
  BY <1>4, <1>6
<1>8. new \in RecordList /\ Len(new) = Len(lay) /\ DOMAIN new = DOMAIN lay
  BY <1>0, <1>7 DEF RecordList
<1>9. Averages(avg, new)
  <2>1. Known(new) = Known(lay)
    BY <1>0, <1>6, <1>8 DEF Known
  <2>2. HeightsOf(new, Known(new)) = HeightsOf(lay, Known(lay))
    <3>1. \A i \in Known(lay) : new[i].height = lay[i].height
      BY <1>0, <1>6 DEF Known
    <3> QED BY <2>1, <3>1 DEF HeightsOf
  <2> QED BY <2>1, <2>2 DEF Averages
<1>10. \A i \in 1 .. Len(lay) : View!LayoutHeight(new[i], avg) = View!LayoutHeight(lay[i], avg)
  BY <1>6 DEF View!LayoutHeight
<1>11. View!LayoutHeights(new, avg) = hs
  BY <1>0, <1>8, <1>10 DEF View!LayoutHeights, hs
<1>12. View!Positioned(new, avg, ends) = new
  <2> DEFINE again == View!Positioned(new, avg, ends)
             at2(i) == IF View!LayoutHeight(new[i], avg) = 0 THEN ends[i - 1]
                       ELSE ends[i] - View!LayoutHeight(new[i], avg)
  <2>1. again = [i \in 1 .. Len(lay) |-> [new[i] EXCEPT !.at = at2(i)]]
    BY Zenon, <1>0, <1>8 DEF View!Positioned
  <2>2. \A i \in 1 .. Len(lay) : at2(i) = at(i)
    BY <1>10 DEF at
  <2> HIDE DEF again, at2
  <2>3. ASSUME NEW i \in 1 .. Len(lay) PROVE again[i] = new[i]
    <3>1. again[i] = [new[i] EXCEPT !.at = new[i].at]
      BY <1>6, <2>1, <2>2
    <3> QED BY <1>6, <3>1 DEF View!Records
  <2>4. new = [i \in 1 .. Len(lay) |-> new[i]]
    BY <1>7
  <2> QED BY <2>1, <2>3, <2>4 DEF again
<1> QED BY <1>3, <1>0, <1>6, <1>8, <1>9, <1>11, <1>12 DEF new, hs, ends

(* The content ends below what is lowest. *)
LEMMA ContentIs ==
  ASSUME NEW lay \in RecordList, NEW avg, Averages(avg, lay), NEW del,
         viewTall \in [Rows -> Heights], DOMAIN del \subseteq DOMAIN lay,
         \A i \in DOMAIN del : del[i] \in View!Delegates,
         viewDying \subseteq View!Leaving, IsFiniteSet(viewDying)
  PROVE  /\ View!ContentHeight(lay, avg, del) \in Nat
         /\ viewDying = {} /\ DOMAIN del = DOMAIN lay
              /\ (\A i \in DOMAIN lay : lay[i].known /\ viewTall[del[i].row] = lay[i].height)
            => View!ContentHeight(lay, avg, del) = View!Total(View!LayoutHeights(lay, avg))
<1> DEFINE heights == [i \in DOMAIN lay |-> IF i \in DOMAIN del THEN viewTall[del[i].row]
                                            ELSE View!LayoutHeight(lay[i], avg)]
           shown == {x \in viewDying : x.height > 0}
           lows == {d.y + d.height : d \in shown}
           t == View!Total(heights)
<1>0. Len(lay) \in Nat /\ DOMAIN lay = 1 .. Len(lay)
  BY DEF RecordList
<1>1. View!ContentHeight(lay, avg, del) = View!Max({t} \cup lows)
  BY Zenon DEF View!ContentHeight
<1>2. \A i \in DOMAIN lay : View!LayoutHeight(lay[i], avg) \in Nat
  BY LayoutHeightsAre
<1>3. \A i \in DOMAIN del : viewTall[del[i].row] \in Nat
  BY RowsAssumption DEF View!Delegates
<1>4. heights \in [1 .. Len(lay) -> Nat]
  BY <1>0, <1>2, <1>3
<1>5. t \in Nat
  <2> HIDE DEF heights
  <2>1. heights \in Seq(Nat)
    BY <1>0, <1>4
  <2> QED BY <2>1, EndsAre
<1>6. lows \in SUBSET Int /\ IsFiniteSet(lows)
  <2>1. ASSUME NEW d \in shown PROVE d.y + d.height \in Int
    <3>1. d \in View!Leaving
      OBVIOUS
    <3>2. d.y \in Int /\ d.height \in Heights
      <4> HIDE DEF shown
      <4> QED BY ONLY <3>1 DEF View!Leaving
    <3>3. Heights \subseteq Nat
      BY RowsAssumption
    <3> DEFINE y == d.y
               h == d.height
    <3>4. y \in Int /\ h \in Nat
      BY ONLY <3>2, <3>3
    <3> HIDE DEF y, h
    <3>5. y + h \in Int
      BY ONLY <3>4
    <3> QED BY ONLY <3>5 DEF y, h
  <2>2. IsFiniteSet(shown)
    BY FS_Subset
  <2> HIDE DEF shown
  <2>3. IsFiniteSet(lows)
    <3> DEFINE f == [d \in shown |-> d.y + d.height]
    <3>1. f \in Surjection(shown, lows)
      BY DEF Surjection
    <3> HIDE DEF f, lows
    <3> QED BY <2>2, <3>1, FS_Surjection
  <2> QED BY <2>1, <2>3
<1> DEFINE all == {t} \cup lows
<1>7. all \in SUBSET Int /\ IsFiniteSet(all) /\ all # {} /\ t \in all
  <2> HIDE DEF t, lows
  <2>1. IsFiniteSet({t})
    BY FS_Singleton
  <2>2. IsFiniteSet({t} \cup lows)
    BY <1>6, <2>1, FS_Union
  <2> QED BY <1>5, <1>6, <2>2
<1>8. View!Max(all) \in all /\ View!Max(all) >= t
  <2> HIDE DEF all, t
  <2> QED BY <1>7, GreatestIs
<1>9. View!ContentHeight(lay, avg, del) \in Nat
  <2> DEFINE g == View!Max(all)
  <2>1. g \in Int /\ g >= t
    BY <1>7, <1>8
  <2> HIDE DEF g, t, all
  <2>2. g \in Nat
    BY <1>5, <2>1
  <2> QED BY <1>1, <2>2 DEF g, all
<1>10. ASSUME viewDying = {}, DOMAIN del = DOMAIN lay,
              \A i \in DOMAIN lay : lay[i].known /\ viewTall[del[i].row] = lay[i].height
       PROVE  View!ContentHeight(lay, avg, del) = View!Total(View!LayoutHeights(lay, avg))
  <2>1. \A i \in DOMAIN lay : viewTall[del[i].row] = View!LayoutHeight(lay[i], avg)
    BY <1>10 DEF View!LayoutHeight
  <2>2. heights = View!LayoutHeights(lay, avg)
    BY <1>10, <2>1 DEF View!LayoutHeights
  <2>3. all = {t}
    BY <1>10
  <2> HIDE DEF heights, all, lows
  <2>4. View!Max(all) = t
    BY <1>8, <2>3
  <2> QED BY <1>1, <2>2, <2>4 DEF all, lows
<1> QED BY <1>9, <1>10

LEMMA RangeIs ==
  ASSUME NEW lay, NEW avg, NEW ext
  PROVE  View!VisibleRange(lay, avg, ext) \subseteq DOMAIN lay
BY Zenon DEF View!VisibleRange

-----------------------------------------------------------------------------
(***************************************************************************)
(* What holds of the view between any two steps.  NoHoles speaks of the    *)
(* moments without work and is not inductive: a pass may end while delegates*)
(* still wait to be revealed.  Once no pass is asked for, though, what is  *)
(* pending waits for its timer, every row in sight has a delegate, those   *)
(* that are shown are at their places, and nothing but the revealing of    *)
(* them, which asks for a pass, is missing.                                *)
(***************************************************************************)
AtRest(sight, ext, lay, avg, del) ==
  LET ends == View!Ends(View!LayoutHeights(lay, avg))
  IN  /\ ext = ends[Len(lay)] /\ lay = View!Positioned(lay, avg, ends)
      /\ \A i \in sight :
            /\ i \in DOMAIN del
            /\ ~del[i].pending /\ lay[i].height > 0 => del[i].y = lay[i].at

ContentAtRest(moving, mod, ext, cont, del) ==
  ~moving /\ DOMAIN del = DOMAIN mod /\ (\A i \in DOMAIN del : ~del[i].pending) => cont = ext

Waiting(del) == \A i \in DOMAIN del : del[i].pending => del[i].waiting

ViewRested ==
  ~viewPolish =>
    /\ Waiting(viewLive)
    /\ ~viewRelayout =>
         /\ AtRest(View!VisibleRange(viewLayout, viewAverage, viewExtent),
                   viewExtent, viewLayout, viewAverage, viewLive)
         /\ ContentAtRest(viewAnimated, viewModel, viewExtent, viewContent, viewLive)

ViewList == ListOK(viewModel, viewTall, viewLayout, viewAverage, viewLive)

Pair(avg) == avg = [sum |-> avg.sum, count |-> avg.count]

Fading(moving, dying) ==
  dying \subseteq View!Leaving /\ IsFiniteSet(dying) /\ (~moving => dying = {})

ViewTypes ==
  /\ viewViewport \in Viewports /\ viewAnimated \in BOOLEAN
  /\ Pair(viewAverage) /\ viewExtent \in Nat /\ viewContent \in Nat
  /\ Fading(viewAnimated, viewDying)
  /\ viewPolish \in BOOLEAN /\ viewRelayout \in BOOLEAN /\ viewChanges \in 0 .. RowChanges

ViewInv == ViewList /\ ViewTypes /\ ViewRested

-----------------------------------------------------------------------------
LEMMA RecordsAre ==
  ASSUME ViewList
  PROVE  /\ viewLayout \in RecordList /\ Len(viewLayout) = Len(viewModel)
         /\ Len(viewModel) \in Nat /\ DOMAIN viewLayout = 1 .. Len(viewModel)
         /\ DOMAIN viewModel = 1 .. Len(viewModel)
         /\ DOMAIN viewLive \subseteq 1 .. Len(viewModel)
         /\ viewModel \in Seq(Rows) /\ viewTall \in [Rows -> Heights]
         /\ Averages(viewAverage, viewLayout)
         /\ Follow(viewLive, viewModel, viewLayout, viewTall)
         /\ \A i \in DOMAIN viewLive : viewLive[i] \in View!Delegates
BY DEF ViewList, ListOK, RecordList

(* A pass that is asked for makes up for everything. *)
LEMMA AskedFor ==
  ASSUME viewPolish' = TRUE
  PROVE  ViewRested'
BY DEF ViewRested

LEMMA TypesStay ==
  ASSUME ViewTypes, viewViewport' \in Viewports, viewAnimated' = viewAnimated,
         Pair(viewAverage'), viewExtent' \in Nat, viewContent' \in Nat,
         Fading(viewAnimated, viewDying'), viewPolish' \in BOOLEAN, viewRelayout' \in BOOLEAN,
         viewChanges' = viewChanges \/ (viewChanges < RowChanges /\ viewChanges' = viewChanges + 1)
  PROVE  ViewTypes'
<1>1. viewChanges' \in 0 .. RowChanges
  <2> DEFINE c == viewChanges
             d == viewChanges'
  <2>1. c \in 0 .. RowChanges /\ RowChanges \in Nat /\ (d = c \/ (c < RowChanges /\ d = c + 1))
    BY RowsAssumption DEF ViewTypes
  <2> HIDE DEF c, d
  <2>2. d \in 0 .. RowChanges
    BY <2>1
  <2> QED BY <2>2 DEF d
<1>2. viewAnimated' \in BOOLEAN /\ Fading(viewAnimated', viewDying')
  BY Zenon DEF ViewTypes
<1> QED BY ONLY <1>1, <1>2, viewViewport' \in Viewports, Pair(viewAverage'), viewExtent' \in Nat,
          viewContent' \in Nat, viewPolish' \in BOOLEAN, viewRelayout' \in BOOLEAN, Zenon
  DEF ViewTypes

LEMMA ViewInsert ==
  ASSUME ViewInv, NEW first \in 1 .. Len(viewModel) + 1, NEW r \in Rows, View!InsertRows(first, <<r>>)
  PROVE  ViewInv'
<1>1. /\ viewModel' = View!Spread(viewModel, first, <<r>>)
      /\ viewLayout' = View!Spread(viewLayout, first, [i \in 1 .. Len(<<r>>) |-> View!Unknown])
      /\ viewLive' = View!Remapped(viewLive, [i \in DOMAIN viewLive |-> IF i >= first THEN i + Len(<<r>>) ELSE i])
      /\ viewPolish' = TRUE /\ viewChanges < RowChanges /\ viewChanges' = viewChanges + 1
      /\ viewTall' = viewTall /\ viewViewport' = viewViewport /\ viewAnimated' = viewAnimated
      /\ viewAverage' = viewAverage /\ viewExtent' = viewExtent /\ viewContent' = viewContent
      /\ viewDying' = viewDying /\ viewRelayout' = viewRelayout
  BY Zenon DEF View!InsertRows, View!Changed
<1>2. ViewList'
  <2>1. <<r>> \in Seq(Rows)
    OBVIOUS
  <2>2. ListOK(View!Spread(viewModel, first, <<r>>), viewTall,
               View!Spread(viewLayout, first, [i \in 1 .. Len(<<r>>) |-> View!Unknown]), viewAverage,
               View!Remapped(viewLive, [i \in DOMAIN viewLive |-> IF i >= first THEN i + Len(<<r>>) ELSE i]))
    <3>1. Coming(viewModel, viewTall, viewLayout, viewAverage, viewLive, first, <<r>>)
      BY <2>1 DEF ViewInv, ViewList, Coming
    <3>2. Came(viewModel, viewTall, viewLayout, viewAverage, viewLive, first, <<r>>)
      BY ONLY <3>1, RowsCome, Zenon
    <3> QED BY ONLY <3>2, Zenon DEF Came
  <2> QED BY ONLY <1>1, <2>2, Zenon DEF ViewList
<1>3. ViewTypes'
  <2>1. /\ ViewTypes /\ Pair(viewAverage) /\ Fading(viewAnimated, viewDying)
        /\ viewViewport \in Viewports /\ viewExtent \in Nat /\ viewContent \in Nat
        /\ viewRelayout \in BOOLEAN
    BY DEF ViewInv, ViewTypes
  <2> QED BY ONLY <1>1, <2>1, TypesStay
<1> QED BY <1>1, <1>2, <1>3, AskedFor DEF ViewInv

(* What leaves with an animation is what was shown. *)
LEMMA FadingIs ==
  ASSUME ViewInv, NEW I
  PROVE  Fading(viewAnimated, viewDying \cup View!Dying(viewLive, I))
<1> DEFINE J == {k \in I \cap DOMAIN viewLive : ~viewLive[k].pending}
           left(i) == [row |-> viewLive[i].row, y |-> viewLive[i].y, height |-> viewTall[viewLive[i].row]]
           L == {left(i) : i \in J}
<1>1. View!Dying(viewLive, I) = IF ~viewAnimated THEN {} ELSE L
  BY Zenon DEF View!Dying
<1>2. IsFiniteSet(L)
  <2>1. IsFiniteSet(J)
    <3>1. IsFiniteSet(1 .. Len(viewModel))
      BY RecordsAre, FS_Interval DEF ViewInv
    <3> QED BY <3>1, RecordsAre, FS_Subset DEF ViewInv
  <2> DEFINE f == [i \in J |-> left(i)]
  <2>2. f \in Surjection(J, L)
    BY DEF Surjection
  <2> HIDE DEF f, L, J
  <2> QED BY <2>1, <2>2, FS_Surjection
<1>3. L \subseteq View!Leaving
  <2>1. ASSUME NEW i \in J PROVE left(i) \in View!Leaving
    <3>1. viewLive[i] \in View!Delegates /\ viewTall \in [Rows -> Heights]
      BY RecordsAre DEF ViewInv
    <3> QED BY <3>1 DEF View!Delegates, View!Leaving
  <2> QED BY <2>1
<1> HIDE DEF L
<1>4. Fading(viewAnimated, viewDying)
  BY DEF ViewInv, ViewTypes
<1>5. CASE ~viewAnimated
  BY <1>1, <1>4, <1>5, FS_EmptySet DEF Fading
<1>6. CASE viewAnimated
  <2>1. IsFiniteSet(viewDying \cup L)
    BY <1>2, <1>4, FS_Union DEF Fading
  <2> QED BY <1>1, <1>3, <1>4, <1>6, <2>1 DEF Fading
<1> QED BY <1>5, <1>6

LEMMA ViewRemove ==
  ASSUME ViewInv, NEW first \in DOMAIN viewModel, NEW last \in DOMAIN viewModel,
         View!RemoveRows(first, last)
  PROVE  ViewInv'
<1> DEFINE n == last - first + 1
           gone == first .. last
           known == {i \in gone : viewLayout[i].known}
           mod2 == View!Cut(viewModel, first, last)
           lay2 == View!Cut(viewLayout, first, last)
           avg2 == [sum |-> viewAverage.sum - View!SumOf([i \in known |-> viewLayout[i].height]),
                    count |-> viewAverage.count - View!Cardinality(known)]
           live2 == View!Remapped([i \in DOMAIN viewLive \ gone |-> viewLive[i]],
                                  [i \in DOMAIN viewLive \ gone |-> IF i > last THEN i - n ELSE i])
<1>1. /\ 1 <= first /\ first <= last /\ last <= Len(viewModel)
      /\ viewModel' = mod2 /\ viewLayout' = lay2
      /\ viewDying' = viewDying \cup View!Dying(viewLive, gone)
      /\ viewAverage' = avg2 /\ viewLive' = live2
      /\ viewPolish' = TRUE /\ viewChanges < RowChanges /\ viewChanges' = viewChanges + 1
      /\ viewTall' = viewTall /\ viewViewport' = viewViewport /\ viewAnimated' = viewAnimated
      /\ viewExtent' = viewExtent /\ viewContent' = viewContent /\ viewRelayout' = viewRelayout
  BY Zenon DEF View!RemoveRows, View!Changed
<1>2. ListOK(mod2, viewTall, lay2, avg2, live2)
  <2>1. first \in Int /\ last \in Int
    BY RecordsAre DEF ViewInv
  <2>2. ListOK(viewModel, viewTall, viewLayout, viewAverage, viewLive)
    BY DEF ViewInv, ViewList
  <2>3. Going(viewModel, viewTall, viewLayout, viewAverage, viewLive, first, last)
    BY ONLY <1>1, <2>1, <2>2, Zenon DEF Going
  <2>4. Gone(viewModel, viewTall, viewLayout, viewAverage, viewLive, first, last)
    BY ONLY <2>3, RowsGo, Zenon
  <2> QED BY ONLY <2>4, Zenon DEF Gone
<1>3. Pair(avg2)
  BY DEF Pair
<1>4. Fading(viewAnimated, viewDying \cup View!Dying(viewLive, gone))
  BY FadingIs
<1> HIDE DEF gone, mod2, lay2, avg2, live2
<1>5. ViewList'
  BY ONLY <1>1, <1>2, Zenon DEF ViewList
<1>6. ViewTypes'
  <2>1. /\ ViewTypes /\ viewViewport \in Viewports /\ viewExtent \in Nat /\ viewContent \in Nat
        /\ viewRelayout \in BOOLEAN
    BY DEF ViewInv, ViewTypes
  <2> QED BY ONLY <1>1, <1>3, <1>4, <2>1, TypesStay
<1> QED BY <1>1, <1>5, <1>6, AskedFor DEF ViewInv

LEMMA ViewMove ==
  ASSUME ViewInv, NEW start \in DOMAIN viewModel, NEW end \in DOMAIN viewModel,
         NEW row \in 1 .. Len(viewModel) + 1, View!MoveRows(start, end, row)
  PROVE  ViewInv'
<1> DEFINE mod2 == View!ModelMoved(viewModel, start, end, row)
           lay2 == View!Spread(View!Cut(viewLayout, start, end), View!Dest(start, end, row),
                               SubSeq(viewLayout, start, end))
           live2 == View!Remapped(viewLive, [i \in DOMAIN viewLive |-> View!MovedIndex(start, end, row, i)])
<1>1. /\ 1 <= start /\ start <= end /\ end <= Len(viewModel)
      /\ row \in (1 .. Len(viewModel) + 1) \ (start .. end + 1)
      /\ viewModel' = mod2 /\ viewLayout' = lay2 /\ viewLive' = live2
      /\ viewPolish' = TRUE /\ viewChanges < RowChanges /\ viewChanges' = viewChanges + 1
      /\ viewTall' = viewTall /\ viewViewport' = viewViewport /\ viewAnimated' = viewAnimated
      /\ viewAverage' = viewAverage /\ viewExtent' = viewExtent /\ viewContent' = viewContent
      /\ viewDying' = viewDying /\ viewRelayout' = viewRelayout
  BY Zenon DEF View!MoveRows, View!Changed
<1> HIDE DEF mod2, lay2, live2
<1>2. ListOK(mod2, viewTall, lay2, viewAverage, live2)
  <2>1. start \in Int /\ end \in Int /\ row \in Int
    BY RecordsAre DEF ViewInv
  <2>2. ListOK(viewModel, viewTall, viewLayout, viewAverage, viewLive)
    BY DEF ViewInv, ViewList
  <2>3. Moves(viewModel, start, end, row)
    <3>1. Len(viewModel) \in Nat
      BY RecordsAre DEF ViewInv
    <3> QED BY ONLY <1>1, <2>1, <3>1 DEF Moves, Shifts
  <2>4. Moving(viewModel, viewTall, viewLayout, viewAverage, viewLive, start, end, row)
    BY ONLY <2>2, <2>3, Zenon DEF Moving
  <2>5. Moved(viewModel, viewTall, viewLayout, viewAverage, viewLive, start, end, row)
    BY ONLY <2>4, RowsMove, Zenon
  <2> QED BY ONLY <2>5, Zenon DEF Moved, mod2, lay2, live2
<1>3. ViewList'
  BY ONLY <1>1, <1>2, Zenon DEF ViewList
<1>4. ViewTypes'
  <2>1. /\ ViewTypes /\ Pair(viewAverage) /\ Fading(viewAnimated, viewDying)
        /\ viewViewport \in Viewports /\ viewExtent \in Nat /\ viewContent \in Nat
        /\ viewRelayout \in BOOLEAN
    BY DEF ViewInv, ViewTypes
  <2> QED BY ONLY <1>1, <2>1, TypesStay
<1> QED BY <1>1, <1>3, <1>4, AskedFor DEF ViewInv

-----------------------------------------------------------------------------
(* A list of new rows has nothing measured and no delegates. *)
LEMMA BlankIsOK ==
  ASSUME NEW mod \in Seq(Rows), NEW heights \in [Rows -> Heights]
  PROVE  ListOK(mod, heights, [i \in DOMAIN mod |-> View!Unknown], [sum |-> 0, count |-> 0], <<>>)
<1> DEFINE blank == [i \in DOMAIN mod |-> View!Unknown]
<1>1. /\ blank \in [1 .. Len(mod) -> View!Records] /\ Len(mod) \in Nat /\ DOMAIN mod = 1 .. Len(mod)
      /\ \A i \in 1 .. Len(mod) : ~blank[i].known
  BY UnknownIs
<1> HIDE DEF blank
<1>2. blank \in RecordList /\ Len(blank) = Len(mod) /\ DOMAIN blank = 1 .. Len(mod)
  BY <1>1 DEF RecordList
<1>3. Known(blank) = {}
  BY <1>1, <1>2 DEF Known
<1>4. Averages([sum |-> 0, count |-> 0], blank)
  <2>1. Cardinality({}) = 0
    BY FS_EmptySet
  <2>2. SumOf(HeightsOf(blank, {})) = 0
    <3>1. Units(HeightsOf(blank, {})) = {}
      BY DEF Units, HeightsOf
    <3> QED BY <2>1, <3>1 DEF SumOf
  <2> QED BY <1>3, <2>1, <2>2 DEF Averages
<1>5. DOMAIN <<>> = {}
  OBVIOUS
<1>6. Follow(<<>>, mod, blank, heights)
  BY <1>5 DEF Follow
<1> QED BY <1>2, <1>4, <1>5, <1>6 DEF ListOK, blank

LEMMA ListsAre ==
  ASSUME NEW rows \in View!BoundedSeq(Rows, MaxRows)
  PROVE  rows \in Seq(Rows)
<1>1. PICK m \in 0 .. MaxRows : rows \in [1 .. m -> Rows]
  BY DEF View!BoundedSeq, View!SeqOf
<1>2. m \in Nat
  BY <1>1, RowsAssumption
<1> QED BY <1>1, <1>2

LEMMA ViewReset ==
  ASSUME ViewInv, NEW rows \in Seq(Rows), View!Reset(rows)
  PROVE  ViewInv'
<1>1. /\ viewModel' = rows /\ viewChanges < RowChanges /\ viewChanges' = viewChanges + 1
      /\ viewTall' = viewTall /\ viewViewport' = viewViewport /\ viewAnimated' = viewAnimated
      /\ viewExtent' = viewExtent /\ viewContent' = viewContent /\ viewRelayout' = viewRelayout
  BY Zenon DEF View!Reset, View!Changed
<1>2. /\ ViewTypes /\ Pair(viewAverage) /\ Fading(viewAnimated, viewDying)
      /\ viewViewport \in Viewports /\ viewExtent \in Nat /\ viewContent \in Nat
      /\ viewRelayout \in BOOLEAN /\ viewPolish \in BOOLEAN
  BY DEF ViewInv, ViewTypes
<1> DEFINE same == Len(rows) = Len(viewLayout) /\ \A i \in DOMAIN viewLive : viewLive[i].row = rows[i]
<1>3. CASE same
  <2>1. /\ viewLayout' = viewLayout /\ viewAverage' = viewAverage /\ viewLive' = viewLive
        /\ viewDying' = viewDying /\ viewPolish' = viewPolish
    BY Zenon, <1>3 DEF View!Reset
  <2>2. ListOK(rows, viewTall, viewLayout, viewAverage, viewLive)
    <3>1. Follow(viewLive, rows, viewLayout, viewTall)
      <4>1. ASSUME NEW i \in DOMAIN viewLive PROVE rows[i] = viewModel[i]
        BY <1>3, RecordsAre DEF ViewInv, Follow
      <4> QED BY <1>3, <4>1, RecordsAre DEF ViewInv, Follow
    <3>2. DOMAIN rows = DOMAIN viewModel
      BY <1>3, RecordsAre DEF ViewInv
    <3>3. ListOK(viewModel, viewTall, viewLayout, viewAverage, viewLive)
      BY DEF ViewInv, ViewList
    <3> QED BY ONLY <1>3, <3>1, <3>2, <3>3, rows \in Seq(Rows) DEF ListOK
  <2>3. ViewList'
    BY ONLY <1>1, <2>1, <2>2, Zenon DEF ViewList
  <2>4. ViewTypes'
    BY ONLY <1>1, <1>2, <2>1, TypesStay
  <2>5. ViewRested'
    <3>1. View!VisibleRange(viewLayout, viewAverage, viewExtent)'
            = View!VisibleRange(viewLayout, viewAverage, viewExtent)
      BY ONLY <1>1, <2>1, Zenon DEF View!VisibleRange, View!Effective
    <3>2. DOMAIN rows = DOMAIN viewModel
      BY <1>3, RecordsAre DEF ViewInv
    <3>3. ViewRested
      BY DEF ViewInv
    <3> QED BY ONLY <1>1, <2>1, <3>1, <3>2, <3>3 DEF ViewRested, ContentAtRest
  <2> QED BY <2>3, <2>4, <2>5 DEF ViewInv
<1>4. CASE ~same
  <2>1. /\ viewLayout' = [i \in DOMAIN rows |-> View!Unknown]
        /\ viewAverage' = [sum |-> 0, count |-> 0] /\ viewLive' = <<>> /\ viewDying' = {}
        /\ viewPolish' = TRUE
    BY Zenon, <1>4 DEF View!Reset, View!ResetContent
  <2>2. ListOK(rows, viewTall, [i \in DOMAIN rows |-> View!Unknown], [sum |-> 0, count |-> 0], <<>>)
    BY BlankIsOK, RecordsAre DEF ViewInv
  <2>3. ViewList'
    BY ONLY <1>1, <2>1, <2>2, Zenon DEF ViewList
  <2>4. Pair(viewAverage') /\ Fading(viewAnimated, viewDying')
    BY <2>1, FS_EmptySet DEF Pair, Fading
  <2>5. ViewTypes'
    BY ONLY <1>1, <1>2, <2>1, <2>4, TypesStay
  <2> QED BY <2>1, <2>3, <2>5, AskedFor DEF ViewInv
<1> QED BY <1>3, <1>4

LEMMA ViewScroll ==
  ASSUME ViewInv, NEW v \in Viewports, View!SetViewport(v)
  PROVE  ViewInv'
<1>1. /\ viewViewport' = v /\ viewPolish' = TRUE
      /\ viewChanges < RowChanges /\ viewChanges' = viewChanges + 1
      /\ viewModel' = viewModel /\ viewTall' = viewTall /\ viewAnimated' = viewAnimated
      /\ viewLayout' = viewLayout /\ viewAverage' = viewAverage /\ viewExtent' = viewExtent
      /\ viewContent' = viewContent /\ viewLive' = viewLive /\ viewDying' = viewDying
      /\ viewRelayout' = viewRelayout
  BY Zenon DEF View!SetViewport, View!Changed
<1>2. /\ ViewTypes /\ Pair(viewAverage) /\ Fading(viewAnimated, viewDying)
      /\ viewExtent \in Nat /\ viewContent \in Nat /\ viewRelayout \in BOOLEAN
  BY DEF ViewInv, ViewTypes
<1>3. ViewTypes'
  BY ONLY <1>1, <1>2, v \in Viewports, TypesStay
<1>4. ViewList'
  BY <1>1 DEF ViewInv, ViewList
<1> QED BY <1>1, <1>3, <1>4, AskedFor DEF ViewInv

-----------------------------------------------------------------------------
(* What is measured follows: the delegates at hit have the heights of new. *)
LEMMA Relearned ==
  ASSUME NEW mod, NEW heights, NEW lay, NEW avg, NEW del, ListOK(mod, heights, lay, avg, del),
         NEW heights2 \in [Rows -> Heights], NEW new, Measures(lay, new),
         NEW del2, DOMAIN del2 = DOMAIN del,
         \A i \in DOMAIN del : del2[i] \in View!Delegates /\ del2[i].row = del[i].row,
         \A i \in DOMAIN del : ~del2[i].pending =>
            IF i \in DOMAIN new THEN new[i] = heights2[mod[i]]
            ELSE ~del[i].pending /\ heights2[mod[i]] = lay[i].height
  PROVE  ListOK(mod, heights2, View!Learned(lay, new), View!Tracked(avg, lay, new), del2)
<1> DEFINE lay2 == View!Learned(lay, new)
           avg2 == View!Tracked(avg, lay, new)
<1>0. /\ mod \in Seq(Rows) /\ lay \in RecordList /\ Len(lay) = Len(mod)
      /\ DOMAIN del \subseteq DOMAIN mod /\ Averages(avg, lay)
      /\ Follow(del, mod, lay, heights) /\ DOMAIN lay = DOMAIN mod
  BY DEF ListOK, RecordList
<1>1. /\ lay2 \in RecordList /\ Len(lay2) = Len(lay)
      /\ \A i \in DOMAIN lay : /\ i \in DOMAIN new => lay2[i].known /\ lay2[i].height = new[i]
                               /\ i \notin DOMAIN new => lay2[i] = lay[i]
  BY LearnedIs
<1>2. Averages(avg2, lay2)
  BY <1>0, TrackedIs
<1> HIDE DEF lay2, avg2
<1>3. ASSUME NEW i \in DOMAIN del
      PROVE  /\ del2[i].row = mod[i]
             /\ ~del2[i].pending => lay2[i].known /\ lay2[i].height = heights2[mod[i]]
  <2>1. del[i].row = mod[i] /\ (~del[i].pending => lay[i].known) /\ i \in DOMAIN lay
    BY <1>0 DEF Follow
  <2> QED BY <1>1, <2>1
<1>4. Follow(del2, mod, lay2, heights2)
  BY <1>3 DEF Follow
<1> QED BY <1>0, <1>1, <1>2, <1>4 DEF ListOK, lay2, avg2

(* Measuring nothing changes nothing. *)
LEMMA NothingLearned ==
  ASSUME NEW lay, NEW avg, Averages(avg, lay), Pair(avg), NEW new, Measures(lay, new), DOMAIN new = {}
  PROVE  View!Learned(lay, new) = lay /\ View!Tracked(avg, lay, new) = avg
<1> DEFINE avg2 == View!Tracked(avg, lay, new)
<1>1. View!Learned(lay, new) = lay
  BY LearnedIs
<1>2. Averages(avg2, lay)
  BY <1>1, TrackedIs
<1>3. Pair(avg2)
  BY Zenon DEF View!Tracked, Pair
<1> HIDE DEF avg2
<1>4. avg2 = avg
  BY <1>2, <1>3 DEF Averages, Pair
<1> QED BY <1>1, <1>4 DEF avg2

-----------------------------------------------------------------------------
LEMMA ViewHeight ==
  ASSUME ViewInv, NEW r \in Rows, NEW h \in Heights, View!HeightChanges(r, h)
  PROVE  ViewInv'
<1> DEFINE hit == {i \in DOMAIN viewLive : /\ viewLive[i].row = r /\ ~viewLive[i].pending
                                           /\ viewLayout[i].height # h}
           new == [i \in hit |-> h]
           tall2 == [viewTall EXCEPT ![r] = h]
           lay2 == View!Learned(viewLayout, new)
           avg2 == View!Tracked(viewAverage, viewLayout, new)
<1>1. /\ viewTall' = tall2 /\ viewLayout' = lay2 /\ viewAverage' = avg2
      /\ viewRelayout' = (viewRelayout \/ hit # {})
      /\ viewChanges < RowChanges /\ viewChanges' = viewChanges + 1
      /\ viewModel' = viewModel /\ viewViewport' = viewViewport /\ viewAnimated' = viewAnimated
      /\ viewExtent' = viewExtent /\ viewContent' = viewContent /\ viewLive' = viewLive
      /\ viewDying' = viewDying /\ viewPolish' = viewPolish
  BY Zenon DEF View!HeightChanges, View!Changed
<1>2. ListOK(viewModel, viewTall, viewLayout, viewAverage, viewLive)
  BY DEF ViewInv, ViewList
<1>3. Measures(viewLayout, new)
  BY RecordsAre DEF ViewInv, Measures
<1>4. tall2 \in [Rows -> Heights]
  BY RecordsAre DEF ViewInv
<1>5. ASSUME NEW i \in DOMAIN viewLive, ~viewLive[i].pending
      PROVE  IF i \in DOMAIN new THEN new[i] = tall2[viewModel[i]]
             ELSE ~viewLive[i].pending /\ tall2[viewModel[i]] = viewLayout[i].height
  <2>1. /\ viewLive[i].row = viewModel[i] /\ viewModel[i] \in Rows
        /\ viewLayout[i].height = viewTall[viewModel[i]] /\ viewTall \in [Rows -> Heights]
    BY <1>5, RecordsAre DEF ViewInv, Follow
  <2>2. CASE i \in hit
    BY <2>1, <2>2
  <2>3. CASE i \notin hit
    BY <1>5, <2>1, <2>3
  <2> QED BY <2>2, <2>3
<1>6. DOMAIN new = hit
  OBVIOUS
<1>7. ListOK(viewModel, tall2, lay2, avg2, viewLive)
  <2>1. \A i \in DOMAIN viewLive : viewLive[i] \in View!Delegates /\ viewLive[i].row = viewLive[i].row
    BY RecordsAre DEF ViewInv
  <2> HIDE DEF new, tall2
  <2> QED BY ONLY <1>2, <1>3, <1>4, <1>5, <2>1, Relearned
<1>8. Pair(avg2)
  BY Zenon DEF View!Tracked, Pair
<1>9. hit = {} => lay2 = viewLayout /\ avg2 = viewAverage
  <2>1. Averages(viewAverage, viewLayout) /\ Pair(viewAverage)
    BY RecordsAre DEF ViewInv, ViewTypes
  <2> HIDE DEF new, hit
  <2> QED BY ONLY <1>3, <1>6, <2>1, NothingLearned
<1> HIDE DEF new, tall2, lay2, avg2, hit
<1>10. ViewList'
  BY ONLY <1>1, <1>7, Zenon DEF ViewList
<1>11. ViewTypes'
  <2>1. /\ ViewTypes /\ Fading(viewAnimated, viewDying) /\ viewViewport \in Viewports
        /\ viewExtent \in Nat /\ viewContent \in Nat /\ viewPolish \in BOOLEAN
    BY DEF ViewInv, ViewTypes
  <2>2. viewRelayout' \in BOOLEAN
    BY ONLY <1>1, Zenon
  <2> QED BY ONLY <1>1, <1>8, <2>1, <2>2, TypesStay
<1>12. ViewRested'
  <2>1. ViewRested
    BY DEF ViewInv
  <2>2. CASE hit = {}
    <3>1. viewLayout' = viewLayout /\ viewAverage' = viewAverage /\ (viewRelayout' <=> viewRelayout)
      BY <1>1, <1>9, <2>2
    <3>2. View!VisibleRange(viewLayout, viewAverage, viewExtent)'
            = View!VisibleRange(viewLayout, viewAverage, viewExtent)
      BY ONLY <1>1, <3>1, Zenon DEF View!VisibleRange, View!Effective
    <3> QED BY ONLY <1>1, <2>1, <3>1, <3>2 DEF ViewRested
  <2>3. CASE hit # {}
    BY ONLY <1>1, <2>1, <2>3 DEF ViewRested
  <2> QED BY <2>2, <2>3
<1> QED BY <1>10, <1>11, <1>12 DEF ViewInv

LEMMA ViewDie ==
  ASSUME ViewInv, NEW d \in viewDying, View!Die(d)
  PROVE  ViewInv'
<1>1. /\ viewDying' = viewDying \ {d}
      /\ viewModel' = viewModel /\ viewTall' = viewTall /\ viewViewport' = viewViewport
      /\ viewAnimated' = viewAnimated /\ viewLayout' = viewLayout /\ viewAverage' = viewAverage
      /\ viewExtent' = viewExtent /\ viewContent' = viewContent /\ viewLive' = viewLive
      /\ viewPolish' = viewPolish /\ viewRelayout' = viewRelayout /\ viewChanges' = viewChanges
  BY Zenon DEF View!Die
<1>2. /\ ViewTypes /\ Pair(viewAverage) /\ Fading(viewAnimated, viewDying)
      /\ viewViewport \in Viewports /\ viewExtent \in Nat /\ viewContent \in Nat
      /\ viewRelayout \in BOOLEAN /\ viewPolish \in BOOLEAN
  BY DEF ViewInv, ViewTypes
<1>3. Fading(viewAnimated, viewDying')
  BY <1>1, <1>2, FS_Subset DEF Fading
<1>4. ViewTypes'
  BY ONLY <1>1, <1>2, <1>3, TypesStay
<1>5. ViewList'
  BY <1>1 DEF ViewInv, ViewList
<1>6. ViewRested'
  <2>1. ViewRested
    BY DEF ViewInv
  <2>2. View!VisibleRange(viewLayout, viewAverage, viewExtent)'
          = View!VisibleRange(viewLayout, viewAverage, viewExtent)
    BY ONLY <1>1, Zenon DEF View!VisibleRange, View!Effective
  <2> QED BY ONLY <1>1, <2>1, <2>2 DEF ViewRested
<1> QED BY <1>4, <1>5, <1>6 DEF ViewInv

-----------------------------------------------------------------------------
(* Records that are placed stay those of their rows. *)
LEMMA PlacedIsOK ==
  ASSUME NEW mod, NEW heights, NEW lay, NEW avg, NEW del, ListOK(mod, heights, lay, avg, del)
  PROVE  ListOK(mod, heights, View!Positioned(lay, avg, View!Ends(View!LayoutHeights(lay, avg))), avg, del)
<1> DEFINE lay2 == View!Positioned(lay, avg, View!Ends(View!LayoutHeights(lay, avg)))
<1>0. /\ lay \in RecordList /\ Averages(avg, lay) /\ DOMAIN lay = DOMAIN mod
      /\ Follow(del, mod, lay, heights) /\ DOMAIN del \subseteq DOMAIN mod
  BY DEF ListOK, RecordList
<1>1. /\ lay2 \in RecordList /\ Len(lay2) = Len(lay)
      /\ \A i \in DOMAIN lay : lay2[i].known = lay[i].known /\ lay2[i].height = lay[i].height
      /\ Averages(avg, lay2)
  BY <1>0, PositionedIs
<1> HIDE DEF lay2
<1>2. Follow(del, mod, lay2, heights)
  BY <1>0, <1>1 DEF Follow
<1> QED BY <1>1, <1>2 DEF ListOK, lay2

LEMMA ViewRelays ==
  ASSUME ViewInv, View!Relayout
  PROVE  ViewInv'
<1> DEFINE ends == View!Ends(View!LayoutHeights(viewLayout, viewAverage))
           lay2 == View!Positioned(viewLayout, viewAverage, ends)
<1>1. /\ viewRelayout' = FALSE /\ viewPolish' = TRUE
      /\ viewLayout' = lay2 /\ viewExtent' = ends[Len(viewLayout)]
      /\ viewContent' = View!ContentHeight(viewLayout, viewAverage, viewLive)
      /\ viewModel' = viewModel /\ viewTall' = viewTall /\ viewViewport' = viewViewport
      /\ viewAnimated' = viewAnimated /\ viewAverage' = viewAverage /\ viewLive' = viewLive
      /\ viewDying' = viewDying /\ viewChanges' = viewChanges
  BY Zenon DEF View!Relayout
<1>2. /\ ViewTypes /\ Pair(viewAverage) /\ Fading(viewAnimated, viewDying)
      /\ viewViewport \in Viewports
  BY DEF ViewInv, ViewTypes
<1>3. ends[Len(viewLayout)] \in Nat
  BY RecordsAre, PositionedIs DEF ViewInv
<1>4. View!ContentHeight(viewLayout, viewAverage, viewLive) \in Nat
  BY <1>2, RecordsAre, ContentIs DEF ViewInv, Fading
<1>5. ListOK(viewModel, viewTall, lay2, viewAverage, viewLive)
  BY PlacedIsOK DEF ViewInv, ViewList
<1> HIDE DEF ends, lay2
<1>6. ViewList'
  BY ONLY <1>1, <1>5, Zenon DEF ViewList
<1>7. ViewTypes'
  BY ONLY <1>1, <1>2, <1>3, <1>4, TypesStay
<1> QED BY <1>1, <1>6, <1>7, AskedFor DEF ViewInv

LEMMA ViewReveal ==
  ASSUME ViewInv, NEW i \in DOMAIN viewLive, View!Reveal(i)
  PROVE  ViewInv'
<1> DEFINE new == View!Measured(viewLive, {i})
           lay2 == View!Learned(viewLayout, new)
           avg2 == View!Tracked(viewAverage, viewLayout, new)
           live2 == [viewLive EXCEPT ![i].pending = FALSE, ![i].waiting = FALSE, ![i].y = viewLayout[i].at]
<1>1. /\ viewLive' = live2 /\ viewLayout' = lay2 /\ viewAverage' = avg2 /\ viewPolish' = TRUE
      /\ viewModel' = viewModel /\ viewTall' = viewTall /\ viewViewport' = viewViewport
      /\ viewAnimated' = viewAnimated /\ viewExtent' = viewExtent /\ viewContent' = viewContent
      /\ viewDying' = viewDying /\ viewRelayout' = viewRelayout /\ viewChanges' = viewChanges
  BY Zenon DEF View!Reveal
<1>2. ListOK(viewModel, viewTall, viewLayout, viewAverage, viewLive)
  BY DEF ViewInv, ViewList
<1>3. DOMAIN new = {i} /\ new[i] = viewTall[viewLive[i].row]
  BY DEF View!Measured
<1>4. viewLive[i].row = viewModel[i] /\ viewLive[i].row \in Rows /\ viewTall \in [Rows -> Heights]
  BY RecordsAre DEF ViewInv, Follow
<1>5. Measures(viewLayout, new)
  <2>1. new \in [{i} -> Heights]
    BY <1>4 DEF View!Measured
  <2> HIDE DEF new
  <2> QED BY <1>3, <2>1, RecordsAre DEF ViewInv, Measures
<1>6. DOMAIN live2 = DOMAIN viewLive
  OBVIOUS
<1>7. ASSUME NEW k \in DOMAIN viewLive
      PROVE  /\ live2[k] \in View!Delegates /\ live2[k].row = viewLive[k].row
             /\ k # i => live2[k] = viewLive[k]
  <2>1. viewLive[k] \in View!Delegates /\ viewLayout[i].at \in Int
    BY RecordsAre, RecordIs DEF ViewInv
  <2>2. k # i => live2[k] = viewLive[k]
    OBVIOUS
  <2>3. CASE k = i
    <3>1. live2[k] = [viewLive[k] EXCEPT !.pending = FALSE, !.waiting = FALSE, !.y = viewLayout[i].at]
      BY <2>3
    <3> QED BY <2>1, <2>3, <3>1 DEF View!Delegates
  <2> QED BY <2>1, <2>2, <2>3
<1> HIDE DEF new, live2
<1>8. ASSUME NEW k \in DOMAIN viewLive, ~live2[k].pending
      PROVE  IF k \in DOMAIN new THEN new[k] = viewTall[viewModel[k]]
             ELSE ~viewLive[k].pending /\ viewTall[viewModel[k]] = viewLayout[k].height
  <2>1. CASE k = i
    BY <1>3, <1>4, <2>1
  <2>2. CASE k # i
    BY <1>3, <1>7, <1>8, <2>2, RecordsAre DEF ViewInv, Follow
  <2> QED BY <2>1, <2>2
<1>9. ListOK(viewModel, viewTall, lay2, avg2, live2)
  BY ONLY <1>2, <1>4, <1>5, <1>6, <1>7, <1>8, Relearned
<1>10. Pair(avg2)
  BY Zenon DEF View!Tracked, Pair
<1> HIDE DEF lay2, avg2
<1>11. ViewList'
  BY ONLY <1>1, <1>9, Zenon DEF ViewList
<1>12. ViewTypes'
  <2>1. /\ ViewTypes /\ Fading(viewAnimated, viewDying) /\ viewViewport \in Viewports
        /\ viewExtent \in Nat /\ viewContent \in Nat /\ viewRelayout \in BOOLEAN
    BY DEF ViewInv, ViewTypes
  <2> QED BY ONLY <1>1, <1>10, <2>1, TypesStay
<1> QED BY <1>1, <1>11, <1>12, AskedFor DEF ViewInv

-----------------------------------------------------------------------------
(* A delegate that is put in its place is the same delegate. *)
LEMMA PlacingIs ==
  ASSUME NEW d \in View!Delegates, NEW record \in View!Records
  PROVE  LET p == View!Placed(d, record)
         IN  /\ p \in View!Delegates /\ p.row = d.row /\ p.pending = d.pending /\ p.waiting = d.waiting
             /\ ~d.pending /\ record.height > 0 => p.y = record.at
<1>1. CASE d.pending \/ (record.known /\ record.height = 0)
  <2>1. View!Placed(d, record) = d
    BY <1>1 DEF View!Placed
  <2>2. record.height = 0 => ~(record.height > 0)
    OBVIOUS
  <2> QED BY <1>1, <2>1, <2>2
<1>2. CASE ~(d.pending \/ (record.known /\ record.height = 0))
  <2>1. View!Placed(d, record) = [d EXCEPT !.y = record.at]
    BY <1>2 DEF View!Placed
  <2>2. record.at \in Int
    BY DEF View!Records
  <2> QED BY <2>1, <2>2 DEF View!Delegates
<1> QED BY <1>1, <1>2

LEMMA ViewPolishes ==
  ASSUME ViewInv, View!Polish
  PROVE  ViewInv'
<1> DEFINE pending == {i \in DOMAIN viewLive : viewLive[i].pending}
           revealed == IF ReadyDelay THEN {} ELSE pending
           flushed(i) == [viewLive[i] EXCEPT !.pending = @ /\ ReadyDelay,
                                             !.waiting = viewLive[i].pending /\ ReadyDelay]
           made(i) == [row |-> viewModel[i], y |-> 0, pending |-> TRUE, waiting |-> FALSE]
           measured == View!Measured(viewLive, revealed)
           kept == [i \in DOMAIN viewLive |-> flushed(i)]
<1> DEFINE body(learned, avg, ends, lay, visible, gone) ==
             LET outside == View!Outside(viewLive, visible, ends[Len(lay)])
                 missing == visible \ DOMAIN viewLive
                 new     == View!FirstMissing(missing, Creates)
             IN  /\ viewLive' = [i \in (DOMAIN viewLive \ gone) \cup new |->
                                  IF i \in new THEN [made(i) EXCEPT !.y = lay[i].at]
                                  ELSE View!Placed(flushed(i), lay[i])]
                 /\ viewLayout' = lay
                 /\ viewAverage' = avg /\ viewExtent' = ends[Len(lay)]
                 /\ viewContent' = View!ContentHeight(learned, avg, viewLive)
                 /\ viewPolish' = (revealed # {} \/ new # {} \/ gone # outside \/ new # missing)
<1>1. \E learned \in {View!Learned(viewLayout, measured)} :
      \E avg \in {View!Tracked(viewAverage, viewLayout, measured)} :
      \E ends \in {View!Ends(View!LayoutHeights(learned, avg))} :
      \E lay \in {View!Positioned(learned, avg, ends)} :
      \E visible \in {View!VisibleRange(lay, avg, ends[Len(lay)])} :
      \E gone : body(learned, avg, ends, lay, visible, gone)
  <2>1. \E learned \in {View!Learned(viewLayout, measured)} :
        \E avg \in {View!Tracked(viewAverage, viewLayout, measured)} :
        \E ends \in {View!Ends(View!LayoutHeights(learned, avg))} :
        \E lay \in {View!Positioned(learned, avg, ends)} :
        \E visible \in {View!VisibleRange(lay, avg, ends[Len(lay)])} :
          LET outside == View!Outside(viewLive, visible, ends[Len(lay)])
          IN  \E gone \in View!kSubset(View!Min({Destroys, View!Cardinality(outside)}), outside) :
                body(learned, avg, ends, lay, visible, gone)
    BY Zenon DEF View!Polish
  <2> HIDE DEF body, measured
  <2> QED BY ONLY <2>1, Zenon
<1> HIDE DEF body, measured
<1>2. PICK learned \in {View!Learned(viewLayout, measured)} :
      \E avg \in {View!Tracked(viewAverage, viewLayout, measured)} :
      \E ends \in {View!Ends(View!LayoutHeights(learned, avg))} :
      \E lay \in {View!Positioned(learned, avg, ends)} :
      \E visible \in {View!VisibleRange(lay, avg, ends[Len(lay)])} :
      \E gone : body(learned, avg, ends, lay, visible, gone)
  BY ONLY <1>1, Zenon
<1>3. PICK avg \in {View!Tracked(viewAverage, viewLayout, measured)} :
      \E ends \in {View!Ends(View!LayoutHeights(learned, avg))} :
      \E lay \in {View!Positioned(learned, avg, ends)} :
      \E visible \in {View!VisibleRange(lay, avg, ends[Len(lay)])} :
      \E gone : body(learned, avg, ends, lay, visible, gone)
  BY ONLY <1>2, Zenon
<1>4. PICK ends \in {View!Ends(View!LayoutHeights(learned, avg))} :
      \E lay \in {View!Positioned(learned, avg, ends)} :
      \E visible \in {View!VisibleRange(lay, avg, ends[Len(lay)])} :
      \E gone : body(learned, avg, ends, lay, visible, gone)
  BY ONLY <1>3, Zenon
<1>5. PICK lay \in {View!Positioned(learned, avg, ends)} :
      \E visible \in {View!VisibleRange(lay, avg, ends[Len(lay)])} :
      \E gone : body(learned, avg, ends, lay, visible, gone)
  BY ONLY <1>4, Zenon
<1>6. PICK visible \in {View!VisibleRange(lay, avg, ends[Len(lay)])} :
      \E gone : body(learned, avg, ends, lay, visible, gone)
  BY ONLY <1>5, Zenon
<1>7. PICK gone : body(learned, avg, ends, lay, visible, gone)
  BY ONLY <1>6, Zenon
<1> DEFINE outside == View!Outside(viewLive, visible, ends[Len(lay)])
           missing == visible \ DOMAIN viewLive
           new == View!FirstMissing(missing, Creates)
           after == [i \in (DOMAIN viewLive \ gone) \cup new |->
                       IF i \in new THEN [made(i) EXCEPT !.y = lay[i].at]
                       ELSE View!Placed(flushed(i), lay[i])]
<1>8. /\ viewLayout' = lay /\ viewAverage' = avg /\ viewExtent' = ends[Len(lay)]
      /\ viewContent' = View!ContentHeight(learned, avg, viewLive)
      /\ viewLive' = after
      /\ viewPolish' = (revealed # {} \/ new # {} \/ gone # outside \/ new # missing)
      /\ viewModel' = viewModel /\ viewTall' = viewTall /\ viewViewport' = viewViewport
      /\ viewAnimated' = viewAnimated /\ viewDying' = viewDying /\ viewRelayout' = viewRelayout
      /\ viewChanges' = viewChanges
  BY Zenon, <1>7 DEF View!Polish, body
<1>9. /\ learned = View!Learned(viewLayout, measured)
      /\ avg = View!Tracked(viewAverage, viewLayout, measured)
      /\ ends = View!Ends(View!LayoutHeights(learned, avg))
      /\ lay = View!Positioned(learned, avg, View!Ends(View!LayoutHeights(learned, avg)))
      /\ visible = View!VisibleRange(lay, avg, ends[Len(lay)])
  OBVIOUS
<1>10. /\ ViewTypes /\ Pair(viewAverage) /\ Fading(viewAnimated, viewDying)
      /\ viewViewport \in Viewports /\ viewRelayout \in BOOLEAN /\ ViewRested
      /\ viewDying \subseteq View!Leaving /\ IsFiniteSet(viewDying) /\ (~viewAnimated => viewDying = {})
  BY DEF ViewInv, ViewTypes, Fading
<1>11. /\ viewLayout \in RecordList /\ DOMAIN viewLayout = DOMAIN viewModel
      /\ DOMAIN viewLive \subseteq DOMAIN viewModel /\ viewModel \in Seq(Rows)
      /\ viewTall \in [Rows -> Heights] /\ Averages(viewAverage, viewLayout)
      /\ ListOK(viewModel, viewTall, viewLayout, viewAverage, viewLive)
  BY RecordsAre DEF ViewInv, ViewList
<1>12. ASSUME NEW i \in DOMAIN viewLive
      PROVE  /\ viewLive[i] \in View!Delegates /\ viewLive[i].row = viewModel[i]
             /\ viewModel[i] \in Rows /\ viewTall[viewModel[i]] \in Heights
             /\ viewLive[i].pending \in BOOLEAN
             /\ ~viewLive[i].pending => /\ viewLayout[i].known
                                        /\ viewLayout[i].height = viewTall[viewModel[i]]
  BY RecordsAre DEF ViewInv, Follow, View!Delegates
<1>13. revealed \subseteq pending /\ pending \subseteq DOMAIN viewLive /\ (~ReadyDelay => revealed = pending)
  OBVIOUS
<1>14. DOMAIN measured = revealed /\ \A i \in revealed : measured[i] = viewTall[viewModel[i]]
  BY <1>12, <1>13 DEF View!Measured, measured
<1>15. Measures(viewLayout, measured)
  <2>1. measured \in [revealed -> Heights]
    BY <1>12, <1>13 DEF View!Measured, measured
  <2> HIDE DEF measured, revealed
  <2> QED BY <1>11, <1>13, <1>14, <2>1 DEF Measures
<1>16. ASSUME NEW i \in DOMAIN viewLive
       PROVE  /\ kept[i] = flushed(i) /\ flushed(i) \in View!Delegates
              /\ flushed(i).row = viewModel[i] /\ flushed(i).waiting = flushed(i).pending
              /\ flushed(i).pending = (viewLive[i].pending /\ ReadyDelay)
  <2>1. (viewLive[i].pending /\ ReadyDelay) \in BOOLEAN
    BY <1>12, RowsAssumption
  <2> QED BY <1>12, <2>1 DEF View!Delegates
<1> HIDE DEF flushed
<1>17. ListOK(viewModel, viewTall, learned, avg, kept)
  <2>1. ASSUME NEW i \in DOMAIN viewLive, ~kept[i].pending
        PROVE  IF i \in DOMAIN measured THEN measured[i] = viewTall[viewModel[i]]
               ELSE ~viewLive[i].pending /\ viewTall[viewModel[i]] = viewLayout[i].height
    BY <1>12, <1>14, <1>16, <2>1
  <2>2. DOMAIN kept = DOMAIN viewLive
    OBVIOUS
  <2>3. \A i \in DOMAIN viewLive : kept[i] \in View!Delegates /\ kept[i].row = viewLive[i].row
    BY <1>12, <1>16
  <2> HIDE DEF kept, measured
  <2>4. ListOK(viewModel, viewTall, View!Learned(viewLayout, measured),
               View!Tracked(viewAverage, viewLayout, measured), kept)
    BY ONLY <1>11, <1>15, <2>1, <2>2, <2>3, Relearned
  <2> QED BY ONLY <1>9, <2>4
<1>18. ListOK(viewModel, viewTall, lay, avg, kept)
  <2> HIDE DEF kept
  <2> QED BY ONLY <1>9, <1>17, PlacedIsOK
<1>19. /\ learned \in RecordList /\ Averages(avg, learned) /\ Len(learned) = Len(viewModel)
       /\ DOMAIN learned = DOMAIN viewModel
  <2> HIDE DEF kept
  <2> QED BY ONLY <1>17 DEF ListOK, RecordList
<1>20. /\ lay \in RecordList /\ Len(lay) = Len(learned) /\ DOMAIN lay = DOMAIN learned
       /\ \A i \in DOMAIN learned : lay[i].known = learned[i].known /\ lay[i].height = learned[i].height
       /\ View!LayoutHeights(lay, avg) = View!LayoutHeights(learned, avg)
       /\ View!Positioned(lay, avg, ends) = lay /\ ends[Len(lay)] \in Nat
  <2> HIDE DEF measured
  <2> QED BY ONLY <1>9, <1>19, PositionedIs
<1>21. visible \subseteq DOMAIN lay /\ outside \cap visible = {} /\ new \subseteq missing
  <2>1. visible \subseteq DOMAIN lay
    BY ONLY <1>9, RangeIs
  <2>2. outside \cap visible = {}
    BY Zenon DEF View!Outside
  <2>3. new \subseteq missing
    BY Zenon DEF View!FirstMissing
  <2> QED BY ONLY <2>1, <2>2, <2>3
<1>22. Pair(avg)
  <2>1. Pair(View!Tracked(viewAverage, viewLayout, measured))
    BY Zenon DEF View!Tracked, Pair
  <2> QED BY ONLY <1>9, <2>1
<1>23. View!ContentHeight(learned, avg, viewLive) \in Nat
  BY ONLY <1>10, <1>11, <1>12, <1>19, ContentIs
<1>24. /\ DOMAIN after = (DOMAIN viewLive \ gone) \cup new
       /\ \A i \in new : after[i] = [made(i) EXCEPT !.y = lay[i].at]
       /\ \A i \in DOMAIN viewLive \ gone : i \notin new => after[i] = View!Placed(kept[i], lay[i])
  <2> HIDE DEF made, new
  <2> QED BY <1>16
<1>25. missing \cap DOMAIN viewLive = {} /\ missing \subseteq visible /\ visible \subseteq missing \cup DOMAIN viewLive
  OBVIOUS
<1>26. ASSUME NEW i \in new
       PROVE  /\ after[i] \in View!Delegates /\ after[i].row = viewModel[i] /\ after[i].pending
              /\ i \in DOMAIN viewModel
  <2>1. i \in DOMAIN lay /\ i \in DOMAIN viewModel
    <3> HIDE DEF new, missing
    <3> QED BY <1>19, <1>20, <1>21, <1>25
  <2>2. lay[i].at \in Int /\ viewModel[i] \in Rows
    BY <1>11, <1>20, <2>1, RecordIs
  <2>3. after[i] = [row |-> viewModel[i], y |-> lay[i].at, pending |-> TRUE, waiting |-> FALSE]
    <3>1. after[i] = [made(i) EXCEPT !.y = lay[i].at]
      BY <1>24
    <3> HIDE DEF new, after
    <3> QED BY <3>1
  <2> HIDE DEF after, new
  <2> QED BY ONLY <2>1, <2>2, <2>3 DEF View!Delegates
<1> HIDE DEF after, made, kept, new, missing, outside, measured, revealed, pending
<1>27. ASSUME NEW i \in DOMAIN viewLive
       PROVE  /\ kept[i] \in View!Delegates /\ kept[i].row = viewModel[i]
              /\ kept[i].waiting = kept[i].pending
              /\ kept[i].pending = (viewLive[i].pending /\ ReadyDelay)
              /\ lay[i] \in View!Records
  BY <1>11, <1>16, <1>19, <1>20, RecordIs
<1>28. ASSUME NEW i \in DOMAIN after, i \notin new
       PROVE  /\ i \in DOMAIN viewLive /\ after[i] \in View!Delegates
              /\ after[i].row = viewModel[i] /\ after[i].pending = kept[i].pending
              /\ after[i].waiting = kept[i].waiting
              /\ ~after[i].pending /\ lay[i].height > 0 => after[i].y = lay[i].at
  <2>1. i \in DOMAIN viewLive /\ after[i] = View!Placed(kept[i], lay[i])
    BY <1>24, <1>28
  <2> QED BY <1>27, <2>1, PlacingIs
<1>29. ListOK(viewModel, viewTall, lay, avg, after)
  <2>1. Follow(after, viewModel, lay, viewTall)
    <3>1. ASSUME NEW i \in DOMAIN after, ~after[i].pending
          PROVE  lay[i].known /\ lay[i].height = viewTall[viewModel[i]]
      <4>1. i \notin new
        BY <1>26, <3>1
      <4>2. i \in DOMAIN kept /\ ~kept[i].pending
        BY <1>28, <3>1, <4>1 DEF kept
      <4> QED BY <1>18, <4>2 DEF ListOK, Follow
    <3> QED BY <1>26, <1>28, <3>1 DEF Follow
  <2>2. DOMAIN after \subseteq DOMAIN viewModel
    BY <1>11, <1>24, <1>26
  <2>3. \A i \in DOMAIN after : after[i] \in View!Delegates
    BY <1>26, <1>28
  <2> QED BY <1>18, <2>1, <2>2, <2>3 DEF ListOK
<1>31. ViewList'
  BY ONLY <1>8, <1>29, Zenon DEF ViewList
<1>32. ViewTypes'
  <2>1. viewPolish' \in BOOLEAN
    BY ONLY <1>8, Zenon
  <2> QED BY ONLY <1>8, <1>10, <1>20, <1>22, <1>23, <2>1, TypesStay
<1>33. ViewRested'
  <2> SUFFICES ASSUME ~viewPolish' PROVE ViewRested'
    BY DEF ViewRested
  <2>1. revealed = {} /\ new = {} /\ gone = outside /\ missing = {}
    BY <1>8
  <2>2. /\ DOMAIN after = DOMAIN viewLive \ outside
        /\ \A i \in DOMAIN after : i \notin new
    BY ONLY <1>24, <2>1
  <2>3. Waiting(after)
    BY <1>27, <1>28, <2>2 DEF Waiting
  <2>4. View!VisibleRange(viewLayout, viewAverage, viewExtent)' = visible
    BY ONLY <1>8, <1>9 DEF View!VisibleRange, View!Effective
  <2>5. AtRest(visible, ends[Len(lay)], lay, avg, after)
    <3>1. View!Ends(View!LayoutHeights(lay, avg)) = ends
      BY ONLY <1>20, <1>9
    <3>2. ASSUME NEW i \in visible
          PROVE  i \in DOMAIN after /\ (~after[i].pending /\ lay[i].height > 0 => after[i].y = lay[i].at)
      <4>1. i \in DOMAIN after
        BY <1>21, <1>25, <2>1, <2>2
      <4> QED BY <1>28, <2>2, <4>1
    <3> QED BY ONLY <1>20, <3>1, <3>2 DEF AtRest
  <2>6. ContentAtRest(viewAnimated, viewModel, ends[Len(lay)],
                      View!ContentHeight(learned, avg, viewLive), after)
    <3> SUFFICES ASSUME ~viewAnimated, DOMAIN after = DOMAIN viewModel, \A i \in DOMAIN after : ~after[i].pending
                 PROVE  View!ContentHeight(learned, avg, viewLive) = ends[Len(lay)]
      BY DEF ContentAtRest
    <3>1. DOMAIN viewLive = DOMAIN learned
      BY <1>11, <1>19, <2>2
    <3>2. ASSUME NEW i \in DOMAIN learned
          PROVE  learned[i].known /\ viewTall[viewLive[i].row] = learned[i].height
      <4>1. i \in DOMAIN after /\ ~after[i].pending /\ i \in DOMAIN kept
        BY <1>19, <3>1 DEF kept
      <4>2. ~kept[i].pending /\ viewLive[i].row = viewModel[i]
        BY <1>12, <1>28, <2>2, <3>1, <4>1
      <4> QED BY <1>17, <4>1, <4>2 DEF ListOK, Follow
    <3>3. View!ContentHeight(learned, avg, viewLive) = View!Total(View!LayoutHeights(learned, avg))
      <4>1. viewDying = {} /\ DOMAIN viewLive = DOMAIN learned
              /\ (\A i \in DOMAIN learned : learned[i].known /\ viewTall[viewLive[i].row] = learned[i].height)
            => View!ContentHeight(learned, avg, viewLive) = View!Total(View!LayoutHeights(learned, avg))
        <5>1. \A i \in DOMAIN viewLive : viewLive[i] \in View!Delegates
          BY ONLY <1>12
        <5>2. DOMAIN viewLive \subseteq DOMAIN learned
          BY ONLY <1>11, <1>19
        <5> QED BY ONLY <1>10, <1>11, <5>1, <5>2, <1>19, ContentIs, Zenon
      <4> QED BY <1>10, <3>1, <3>2, <4>1
    <3>4. View!Total(View!LayoutHeights(learned, avg)) = ends[Len(lay)]
      <4>1. Len(View!LayoutHeights(learned, avg)) = Len(lay)
        BY <1>19, <1>20, LayoutHeightsAre
      <4> QED BY ONLY <1>9, <4>1 DEF View!Total
    <3> QED BY <3>3, <3>4
  <2> QED BY ONLY <1>8, <2>3, <2>4, <2>5, <2>6 DEF ViewRested
<1> QED BY <1>31, <1>32, <1>33 DEF ViewInv

-----------------------------------------------------------------------------
LEMMA ViewStarts ==
  ASSUME View!Init
  PROVE  ViewInv
<1>1. /\ viewModel \in Seq(Rows) /\ viewTall \in [Rows -> Heights] /\ viewViewport \in Viewports
      /\ viewAnimated \in BOOLEAN
      /\ viewLayout = [i \in DOMAIN viewModel |-> View!Unknown]
      /\ viewAverage = [sum |-> 0, count |-> 0] /\ viewExtent = 0 /\ viewContent = 0
      /\ viewLive = <<>> /\ viewDying = {} /\ viewPolish = TRUE /\ viewRelayout = FALSE
      /\ viewChanges = 0
  BY ListsAre DEF View!Init
<1>2. ViewList
  BY <1>1, BlankIsOK DEF ViewList
<1>3. ViewTypes
  <2>1. Pair(viewAverage)
    BY <1>1 DEF Pair
  <2>2. Fading(viewAnimated, viewDying)
    BY <1>1, FS_EmptySet DEF Fading
  <2>3. viewChanges \in 0 .. RowChanges
    BY <1>1, RowsAssumption
  <2> QED BY <1>1, <2>1, <2>2, <2>3 DEF ViewTypes
<1>4. ViewRested
  BY <1>1 DEF ViewRested
<1> QED BY <1>2, <1>3, <1>4 DEF ViewInv

LEMMA ViewGoesOn ==
  ASSUME ViewInv, View!Next
  PROVE  ViewInv'
<1>1. /\ DOMAIN viewModel = 1 .. Len(viewModel)
  BY RecordsAre DEF ViewInv
<1>2. ASSUME NEW first \in 1 .. Len(viewModel) + 1, NEW r \in Rows, View!InsertRows(first, <<r>>)
      PROVE  ViewInv'
  BY <1>2, ViewInsert
<1>3. ASSUME NEW first \in DOMAIN viewModel, NEW last \in DOMAIN viewModel, View!RemoveRows(first, last)
      PROVE  ViewInv'
  BY <1>3, ViewRemove
<1>4. ASSUME NEW start \in DOMAIN viewModel, NEW end \in DOMAIN viewModel,
             NEW row \in 1 .. Len(viewModel) + 1, View!MoveRows(start, end, row)
      PROVE  ViewInv'
  BY <1>4, ViewMove
<1>5. ASSUME NEW rows \in View!BoundedSeq(Rows, MaxRows), View!Reset(rows)
      PROVE  ViewInv'
  BY <1>5, ListsAre, ViewReset
<1>6. ASSUME NEW v \in Viewports, View!SetViewport(v)
      PROVE  ViewInv'
  BY <1>6, ViewScroll
<1>7. ASSUME NEW r \in Rows, NEW h \in Heights, View!HeightChanges(r, h)
      PROVE  ViewInv'
  BY <1>7, ViewHeight
<1>8. View!Polish => ViewInv'
  BY ViewPolishes
<1>9. View!Relayout => ViewInv'
  BY ViewRelays
<1>10. ASSUME NEW i \in DOMAIN viewLive, View!Reveal(i)
       PROVE  ViewInv'
  BY <1>10, ViewReveal
<1>11. ASSUME NEW d \in viewDying, View!Die(d)
       PROVE  ViewInv'
  BY <1>11, ViewDie
<1> QED BY Zenon, <1>2, <1>3, <1>4, <1>5, <1>6, <1>7, <1>8, <1>9, <1>10, <1>11
        DEF View!Next, View!Change, View!Step

-----------------------------------------------------------------------------
(* What the view promises between its steps. *)
LEMMA ViewKeepsItsPromise ==
  ASSUME ViewInv
  PROVE  /\ View!TypeOK /\ View!DelegatesFollowRows /\ View!AverageIsTrue
         /\ View!NoHoles /\ View!ContentIsRows
<1>1. View!TypeOK
  <2>1. viewAverage.sum \in Nat /\ viewAverage.count \in Nat
    BY RecordsAre, KnownIs DEF ViewInv, Averages, Known
  <2> QED BY <2>1, RecordsAre DEF ViewInv, ViewTypes, Fading, View!TypeOK, RecordList
<1>2. View!DelegatesFollowRows
  BY RecordsAre DEF ViewInv, Follow, View!DelegatesFollowRows
<1>3. View!AverageIsTrue
  BY RecordsAre, AverageIs DEF ViewInv
<1>4. View!Settled => \A i \in DOMAIN viewLive : ~viewLive[i].pending
  <2>1. \A i \in DOMAIN viewLive : viewLive[i].pending \in BOOLEAN
    BY RecordsAre DEF ViewInv, View!Delegates
  <2> QED BY <2>1 DEF ViewInv, ViewRested, Waiting, View!Settled
<1>5. View!NoHoles
  <2> SUFFICES ASSUME View!Settled PROVE View!NoHoles
    BY Zenon DEF View!NoHoles
  <2>1. AtRest(View!VisibleRange(viewLayout, viewAverage, viewExtent),
               viewExtent, viewLayout, viewAverage, viewLive)
    BY DEF ViewInv, ViewRested, View!Settled
  <2> QED BY <1>4, <2>1 DEF AtRest, View!NoHoles
<1>6. View!ContentIsRows
  BY <1>4 DEF ViewInv, ViewRested, ContentAtRest, View!Settled, View!ContentIsRows
<1> QED BY <1>1, <1>2, <1>3, <1>5, <1>6

(* LazyListView: whatever rows come, go and move and however heights       *)
(* change, delegates, records and the average follow the rows, and at rest *)
(* every row in sight is shown at its place.                               *)
THEOREM ViewShowsItsRows == DeskSpec => []ViewFollowsRows
<1> DEFINE RowsInv == part = "rows" => ViewInv
<1>1. DeskInit => RowsInv
  BY ViewStarts DEF DeskInit
<1>2. RowsInv /\ [DeskNext]_deskVars => RowsInv'
  <2> SUFFICES ASSUME RowsInv, [DeskNext]_deskVars, part' = "rows" PROVE ViewInv'
    OBVIOUS
  <2>1. part = "rows" /\ (View!Next \/ UNCHANGED viewVars)
    BY DEF DeskNext, deskVars
  <2>2. ASSUME UNCHANGED viewVars PROVE ViewInv'
    <3>1. /\ viewModel' = viewModel /\ viewTall' = viewTall /\ viewViewport' = viewViewport
          /\ viewAnimated' = viewAnimated /\ viewLayout' = viewLayout /\ viewAverage' = viewAverage
          /\ viewExtent' = viewExtent /\ viewContent' = viewContent /\ viewLive' = viewLive
          /\ viewDying' = viewDying /\ viewPolish' = viewPolish /\ viewRelayout' = viewRelayout
          /\ viewChanges' = viewChanges
      BY <2>2 DEF viewVars
    <3>2. View!VisibleRange(viewLayout, viewAverage, viewExtent)'
            = View!VisibleRange(viewLayout, viewAverage, viewExtent)
      BY ONLY <3>1, Zenon DEF View!VisibleRange, View!Effective
    <3>3. ViewInv
      BY <2>1
    <3> QED BY ONLY <3>1, <3>2, <3>3 DEF ViewInv, ViewList, ViewTypes, ViewRested
  <2> QED BY <2>1, <2>2, ViewGoesOn
<1>3. RowsInv => ViewFollowsRows
  BY ViewKeepsItsPromise DEF ViewFollowsRows
<1> QED BY <1>1, <1>2, <1>3, PTL DEF DeskSpec

=============================================================================
