----------------------------- MODULE PanelProofs -----------------------------
(***************************************************************************)
(* What the panels are told, for any cards, settings, keyboards, requests, *)
(* programs and threads: the GPU, the compositor, the calculator, the      *)
(* network, the disks, the cards that cannot be stopped and the calls of   *)
(* their adapters.                                                         *)
(***************************************************************************)
EXTENDS MCPanel, Sums, Integers, Sequences, FiniteSetTheorems,
        SequenceTheorems, TLAPS

(***************************************************************************)
(* Whichever component runs, each of them keeps to its specification.      *)
(***************************************************************************)
LEMMA EachKeepsItsSpec ==
  PanelSpec => /\ C!Spec /\ Graphics!Spec /\ Hypr!Spec /\ Calculator!Spec
               /\ Traffic!Spec /\ Disks!Spec
<1>1. PanelInit => /\ C!Init /\ Graphics!Init /\ Hypr!Init /\ Calculator!Init
                   /\ Traffic!Init /\ Disks!Init
  BY DEF PanelInit
<1>2. [PanelNext]_panelVars => /\ [C!Next]_C!vars
                               /\ [Graphics!Next]_Graphics!vars
                               /\ [Hypr!Next]_Hypr!vars
                               /\ [Calculator!Next]_Calculator!vars
                               /\ [Traffic!Next]_Traffic!vars
                               /\ [Disks!Next]_Disks!vars
  <2>1. PanelNext => /\ C!Next \/ UNCHANGED twoVars
                     /\ Graphics!Next \/ UNCHANGED gpuVars
                     /\ Hypr!Next \/ UNCHANGED hyprVars
                     /\ Calculator!Next \/ UNCHANGED calcVars
                     /\ Traffic!Next \/ UNCHANGED netVars
                     /\ Disks!Next \/ UNCHANGED diskVars
    BY DEF PanelNext
  <2>2. UNCHANGED panelVars => UNCHANGED <<twoVars, gpuVars, hyprVars, calcVars, netVars, diskVars>>
    BY DEF panelVars
  <2>3. UNCHANGED twoVars => UNCHANGED C!vars
    BY DEF twoVars, C!vars, C!cardVars, C!callVars, C!probeVars, C!timerVars
  <2>4. UNCHANGED gpuVars => UNCHANGED Graphics!vars
    BY DEF gpuVars, Graphics!vars
  <2>5. UNCHANGED hyprVars => UNCHANGED Hypr!vars
    BY DEF hyprVars, Hypr!vars
  <2>6. UNCHANGED calcVars => UNCHANGED Calculator!vars
    BY DEF calcVars, Calculator!vars
  <2>7. UNCHANGED netVars => UNCHANGED Traffic!vars
    BY DEF netVars, Traffic!vars
  <2>8. UNCHANGED diskVars => UNCHANGED Disks!vars
    BY DEF diskVars, Disks!vars
  <2> QED BY <2>1, <2>2, <2>3, <2>4, <2>5, <2>6, <2>7, <2>8
<1> QED BY <1>1, <1>2, PTL
        DEF PanelSpec, C!Spec, Graphics!Spec, Hypr!Spec, Calculator!Spec,
            Traffic!Spec, Disks!Spec
-----------------------------------------------------------------------------
(***************************************************************************)
(* The GPU.  A chain of programs that still runs is the only one of its    *)
(* generation and has told no name yet; a sample of this generation is     *)
(* none of a missing GPU, unless the chain found that out meanwhile.       *)
(***************************************************************************)
GpuType ==
  /\ gpuGeneration \in Nat /\ gpuSample \in Int /\ gpuSample <= gpuGeneration
  /\ gpuUserType \in Graphics!Types \cup {"Auto"} /\ gpuType \in Graphics!Types
  /\ gpuDetecting \in BOOLEAN /\ gpuMoved \in BOOLEAN
  /\ gpuProbes \subseteq Int \X Int
  /\ \A p \in gpuProbes : p[1] <= gpuGeneration

\* The chain that runs, and what it may still ask.
ChainInv ==
  /\ gpuDetecting => \E p \in gpuProbes : \A q \in gpuProbes : q[1] = gpuGeneration <=> q = p
  /\ ~gpuDetecting => \A p \in gpuProbes : p[1] # gpuGeneration
  /\ \A p \in gpuProbes : p[1] = gpuGeneration =>
       /\ p[2] >= Graphics!Nvidia
       /\ gpuUserType # "None"
       /\ gpuUserType = "Generic" => p[2] >= Graphics!FirstGeneric
       /\ gpuName[1] = Graphics!Nothing

\* What is shown of the GPU.
FoundInv ==
  /\ gpuName[1] # Graphics!Nothing =>
       gpuName[2] = gpuGeneration /\ (gpuName[1] = Graphics!Nvidia => gpuType = "Nvidia")
  /\ gpuUserType # "Auto" => gpuType = gpuUserType
  /\ gpuType = "None" /\ ~gpuMoved => gpuUsage = "None" /\ gpuSample # gpuGeneration

GpuInv == GpuType /\ ChainInv /\ FoundInv

LEMMA GpuInit == Graphics!Init => GpuInv
<1> SUFFICES ASSUME Graphics!Init PROVE GpuInv
  OBVIOUS
<1> USE DEF Graphics!Init, Graphics!Types, Graphics!Nothing, Graphics!Nvidia,
            Graphics!FirstGeneric
<1> DEFINE first == <<1, IF gpuUserType = "Generic" THEN 1 ELSE 0>>
<1>0. /\ first \in Int \X Int /\ first[1] = 1 /\ first[2] \in {0, 1}
      /\ gpuUserType = "Generic" => first[2] = 1
      /\ gpuProbes = IF gpuUserType = "None" THEN {} ELSE {first}
  OBVIOUS
<1> HIDE DEF first
<1>1. GpuType
  <2>1. gpuDetecting \in BOOLEAN /\ gpuMoved \in BOOLEAN
    OBVIOUS
  <2>2. gpuGeneration = 1 /\ gpuSample = -1
    OBVIOUS
  <2>3. gpuUserType \in Graphics!Types \cup {"Auto"} /\ gpuType \in Graphics!Types
    OBVIOUS
  <2>4. gpuProbes \subseteq Int \X Int /\ \A p \in gpuProbes : p[1] <= 1
    BY <1>0
  <2> QED BY <2>1, <2>2, <2>3, <2>4 DEF GpuType
<1>2. ChainInv
  <2>1. gpuName[1] = -1 /\ gpuGeneration = 1 /\ gpuDetecting = (gpuUserType # "None")
    OBVIOUS
  <2>2. CASE gpuUserType = "None"
    BY <1>0, <2>1, <2>2 DEF ChainInv
  <2>3. CASE gpuUserType # "None"
    <3>1. gpuProbes = {first}
      BY <1>0, <2>3
    <3>2. gpuDetecting
      BY <2>1, <2>3
    <3>3. \A p \in gpuProbes : p = first /\ p[1] = gpuGeneration
      BY <1>0, <2>1, <3>1
    <3> HIDE DEF Graphics!Init
    <3> QED BY <1>0, <2>1, <2>3, <3>1, <3>2, <3>3 DEF ChainInv
  <2> QED BY <2>2, <2>3
<1>3. FoundInv
  BY DEF FoundInv
<1> QED BY <1>1, <1>2, <1>3 DEF GpuInv

LEMMA GpuStep ==
  ASSUME GpuInv, [Graphics!Next]_Graphics!vars
  PROVE  GpuInv'
<1> USE DEF Graphics!Types, Graphics!Nothing, Graphics!Nvidia, Graphics!FirstGeneric
<1>0. GpuType /\ ChainInv /\ FoundInv
  BY DEF GpuInv
<1>1. ASSUME NEW u \in Graphics!Types \cup {"Auto"}, Graphics!SetUserType(u)
      PROVE  GpuInv'
  <2> DEFINE first == <<gpuGeneration + 1, IF u = "Generic" THEN Graphics!FirstGeneric
                                                              ELSE Graphics!Nvidia>>
  <2>1. /\ gpuGeneration' = gpuGeneration + 1 /\ gpuUserType' = u
        /\ gpuName' = <<Graphics!Nothing, 0>>
        /\ gpuDetecting' = (u # "None")
        /\ gpuProbes' = IF u = "None" THEN gpuProbes ELSE gpuProbes \cup {first}
        /\ gpuSample' = gpuSample /\ gpuMoved' = gpuMoved
        /\ gpuType' = IF u = "Auto" THEN gpuType ELSE u
        /\ gpuUsage' = IF u = "None" /\ gpuType # "None" THEN "None" ELSE gpuUsage
    BY <1>1 DEF Graphics!SetUserType, Graphics!ResolveGpu, Graphics!SetType
  <2>2. GpuType'
    BY <1>0, <2>1 DEF GpuType
  <2>3. ChainInv'
    <3>1. \A p \in gpuProbes : p[1] # gpuGeneration + 1
      BY <1>0 DEF GpuType
    <3>2. first[1] = gpuGeneration + 1 /\ first[2] \in {0, 1} /\ (u = "Generic" => first[2] = 1)
      OBVIOUS
    <3>3. gpuName'[1] = -1
      BY <2>1
    <3> HIDE DEF first
    <3>4. CASE u = "None"
      BY <2>1, <3>1, <3>4 DEF ChainInv
    <3>5. CASE u # "None"
      <4>1. \A p \in gpuProbes' : p[1] = gpuGeneration' <=> p = first
        BY <2>1, <3>1, <3>2, <3>5
      <4>2. first \in gpuProbes' /\ gpuDetecting'
        BY <2>1, <3>5
      <4> QED BY <2>1, <3>2, <3>3, <3>5, <4>1, <4>2 DEF ChainInv
    <3> QED BY <3>4, <3>5
  <2>4. FoundInv'
    BY <1>0, <2>1 DEF FoundInv, GpuType
  <2> QED BY <2>2, <2>3, <2>4 DEF GpuInv
<1>2. ASSUME NEW p \in gpuProbes, NEW answers \in BOOLEAN, Graphics!ProbeAnswers(p, answers)
      PROVE  GpuInv'
  <2>1. CASE p[1] = gpuGeneration
    <3> DEFINE typed == gpuUserType = "Auto" /\ p[2] = 0
               ends  == ~gpuDetecting'
               next  == <<gpuGeneration, p[2] + 1>>
    <3>0. p[2] \in Int /\ p[2] >= 0 /\ gpuUserType # "None" /\ gpuName[1] = -1
          /\ (gpuUserType = "Generic" => p[2] >= 1)
          /\ \A q \in gpuProbes \ {p} : q[1] # gpuGeneration
      BY <1>0, <2>1 DEF GpuType, ChainInv
    <3>1. /\ UNCHANGED <<gpuUserType, gpuGeneration, gpuSample>>
          /\ gpuProbes' = (gpuProbes \ {p}) \cup IF gpuDetecting' THEN {next} ELSE {}
          /\ gpuMoved' = (gpuMoved \/ (typed /\ ~answers /\ gpuSample = gpuGeneration))
          /\ gpuName' = IF answers THEN <<p[2], gpuGeneration>>
                        ELSE IF ends THEN <<-1, 0>> ELSE gpuName
          /\ gpuDetecting' \in BOOLEAN
          /\ answers => ~gpuDetecting'
      BY <1>2, <2>1 DEF Graphics!ProbeAnswers, Graphics!Found
    <3>2. /\ typed => /\ gpuType' \in {"None", "Generic", "Nvidia"}
                      /\ answers => gpuType' = "Nvidia"
                      /\ gpuType' = "None" => ~answers
                      /\ gpuUsage' = IF gpuType' = "None" /\ gpuType' # gpuType THEN "None"
                                     ELSE gpuUsage
          /\ ~typed => UNCHANGED <<gpuType, gpuUsage>>
      BY <1>2, <2>1 DEF Graphics!ProbeAnswers, Graphics!Found, Graphics!SetType
    <3>3. GpuType'
      <4>1. next \in Int \X Int /\ next[1] = gpuGeneration
        BY <1>0, <3>0 DEF GpuType
      <4>2. gpuMoved' \in BOOLEAN
        BY <3>1
      <4>3. gpuType' \in Graphics!Types
        BY <1>0, <3>2 DEF GpuType
      <4> HIDE DEF next, typed, ends
      <4> QED BY <1>0, <3>1, <4>1, <4>2, <4>3 DEF GpuType
    <3>4. ChainInv'
      <4>1. next[1] = gpuGeneration /\ next[2] = p[2] + 1
        OBVIOUS
      <4>2. CASE gpuDetecting'
        <5>1. ~answers /\ gpuName'[1] = -1
          BY <3>0, <3>1, <4>2
        <5> HIDE DEF next, typed, ends
        <5>2. \A q \in gpuProbes' : q[1] = gpuGeneration <=> q = next
          BY <3>0, <3>1, <4>1, <4>2
        <5>3. next \in gpuProbes'
          BY <3>1, <4>2
        <5> QED BY <3>0, <3>1, <4>1, <4>2, <5>1, <5>2, <5>3 DEF ChainInv
      <4>3. CASE ~gpuDetecting'
        BY <3>0, <3>1, <4>3 DEF ChainInv
      <4> QED BY <4>2, <4>3
    <3>5. FoundInv'
      <4>1. CASE answers
        <5>1. gpuName'[1] = p[2] /\ gpuName'[2] = gpuGeneration
          BY <3>1, <4>1
        <5>2. p[2] = 0 => gpuType' = "Nvidia"
          BY <1>0, <3>0, <3>2, <4>1 DEF FoundInv, GpuType
        <5>3. gpuType' = "None" => gpuType = "None" /\ gpuUsage' = gpuUsage
          BY <3>2, <4>1
        <5> QED BY <1>0, <3>1, <3>2, <4>1, <5>1, <5>2, <5>3 DEF FoundInv, GpuType
      <4>2. CASE ~answers
        <5>1. gpuName'[1] = -1
          BY <3>0, <3>1, <4>2
        <5>2. gpuUserType # "Auto" => gpuType' = gpuUserType
          BY <1>0, <3>2 DEF FoundInv
        <5>3. gpuType' = "None" /\ ~gpuMoved' => gpuUsage' = "None" /\ gpuSample # gpuGeneration
          BY <1>0, <3>1, <3>2, <4>2 DEF FoundInv, GpuType
        <5> QED BY <3>1, <5>1, <5>2, <5>3 DEF FoundInv
      <4> QED BY <4>1, <4>2
    <3> QED BY <3>3, <3>4, <3>5 DEF GpuInv
  <2>2. CASE p[1] # gpuGeneration
    <3>1. /\ gpuProbes' = gpuProbes \ {p}
          /\ UNCHANGED <<gpuUserType, gpuType, gpuName, gpuDetecting, gpuGeneration,
                         gpuSample, gpuUsage, gpuMoved>>
      BY <1>2, <2>2 DEF Graphics!ProbeAnswers
    <3> QED BY <1>0, <2>2, <3>1 DEF GpuInv, GpuType, ChainInv, FoundInv
  <2> QED BY <2>1, <2>2
<1>3. CASE Graphics!Start \/ Graphics!Tick
  <2>1. /\ UNCHANGED <<gpuUserType, gpuType, gpuName, gpuDetecting, gpuGeneration, gpuProbes>>
        /\ IF gpuType = "Nvidia"
             THEN gpuSample' = (IF gpuSample = -1 THEN gpuGeneration ELSE gpuSample)
                  /\ UNCHANGED gpuUsage
             ELSE gpuUsage' = gpuType /\ UNCHANGED gpuSample
        /\ gpuMoved' = (gpuMoved /\ (gpuType # "None" \/ gpuSample # -1))
    BY <1>3 DEF Graphics!Start, Graphics!Tick, Graphics!Sample
  <2>2. GpuType'
    BY <1>0, <2>1 DEF GpuType
  <2>3. ChainInv'
    BY <1>0, <2>1 DEF ChainInv
  <2>4. FoundInv'
    BY <1>0, <2>1 DEF FoundInv, GpuType
  <2> QED BY <2>2, <2>3, <2>4 DEF GpuInv
<1>4. CASE Graphics!Stop
  BY <1>0, <1>4 DEF Graphics!Stop, GpuInv, GpuType, ChainInv, FoundInv
<1>5. ASSUME NEW answers \in BOOLEAN, Graphics!SampleAnswers(answers)
      PROVE  GpuInv'
  BY <1>0, <1>5 DEF Graphics!SampleAnswers, GpuInv, GpuType, ChainInv, FoundInv
<1>6. CASE UNCHANGED Graphics!vars
  BY <1>0, <1>6 DEF Graphics!vars, GpuInv, GpuType, ChainInv, FoundInv
<1> QED BY <1>1, <1>2, <1>3, <1>4, <1>5, <1>6 DEF Graphics!Next

(***************************************************************************)
(* However the settings, the programs and the samples overlap, what is     *)
(* shown of the GPU is what the current chain found.                       *)
(***************************************************************************)
LEMMA GpuShown == Graphics!Spec => []Graphics!GpuIsResolved
<1>1. GpuInv => Graphics!GpuIsResolved
  <2> SUFFICES ASSUME GpuInv
               PROVE  \E ps \in {{p \in gpuProbes : p[1] = gpuGeneration}} :
                        IF gpuDetecting THEN \E p \in ps : ps = {p} ELSE ps = {}
    BY DEF GpuInv, FoundInv, Graphics!GpuIsResolved
  <2> DEFINE ps == {p \in gpuProbes : p[1] = gpuGeneration}
  <2>1. gpuDetecting => \E p \in ps : ps = {p}
    BY DEF GpuInv, ChainInv
  <2>2. ~gpuDetecting => ps = {}
    BY DEF GpuInv, ChainInv
  <2> QED BY <2>1, <2>2
<1> QED BY <1>1, GpuInit, GpuStep, PTL DEF Graphics!Spec
-----------------------------------------------------------------------------
(***************************************************************************)
(* The calculator.  An evaluation is known by its generation, and the one  *)
(* of the current generation is of the last expression.                    *)
(***************************************************************************)
CalcInv ==
  /\ calcGeneration \in Nat /\ calcBusy \in BOOLEAN
  /\ \A job \in calcJobs :
       /\ job = [gen |-> job.gen, expr |-> job.expr, at |-> job.at]
       /\ job.gen \in 1 .. calcGeneration
       /\ job.gen = calcGeneration => job.expr = calcAsked
  /\ \A i, j \in calcJobs : i.gen = j.gen => i = j
  /\ Calculator!ResultIsOfTheLast

LEMMA CalcInit == Calculator!Init => CalcInv
<1> SUFFICES ASSUME Calculator!Init PROVE CalcInv
  OBVIOUS
<1>1. calcGeneration = 0 /\ calcJobs = {} /\ calcBusy = FALSE /\ calcResult = calcAsked
  BY DEF Calculator!Init
<1>2. calcSeen = <<calcResult, calcBusy>>
  BY DEF Calculator!Init
<1> QED BY <1>1, <1>2 DEF CalcInv, Calculator!ResultIsOfTheLast

\* A thread takes up the evaluation or ends it: it stays the same evaluation.
LEMMA CalcMoves ==
  ASSUME CalcInv, NEW job \in calcJobs, NEW at,
         calcJobs' = (calcJobs \ {job}) \cup {[job EXCEPT !.at = at]},
         UNCHANGED <<calcGeneration, calcResult, calcBusy, calcAsked, calcSeen>>
  PROVE  CalcInv'
<1> DEFINE moved == [job EXCEPT !.at = at]
<1>1. moved.gen = job.gen /\ moved.expr = job.expr
      /\ moved = [gen |-> moved.gen, expr |-> moved.expr, at |-> moved.at]
  BY DEF CalcInv
<1>2. calcJobs' = (calcJobs \ {job}) \cup {moved}
  OBVIOUS
<1> HIDE DEF moved
<1>3. (\E j \in calcJobs' : j.gen = calcGeneration) <=> \E j \in calcJobs : j.gen = calcGeneration
  BY <1>1, <1>2
<1>4. \A j \in calcJobs' : /\ j = [gen |-> j.gen, expr |-> j.expr, at |-> j.at]
                           /\ j.gen \in 1 .. calcGeneration
                           /\ j.gen = calcGeneration => j.expr = calcAsked
  BY <1>1, <1>2 DEF CalcInv
<1>5. \A i, j \in calcJobs' : i.gen = j.gen => i = j
  BY <1>1, <1>2 DEF CalcInv
<1> QED BY <1>3, <1>4, <1>5 DEF CalcInv, Calculator!ResultIsOfTheLast

LEMMA CalcStep ==
  ASSUME CalcInv, [Calculator!Next]_Calculator!vars
  PROVE  CalcInv'
<1> USE DEF CalcInv, Calculator!ResultIsOfTheLast
<1>1. ASSUME NEW expr, Calculator!EvalAsync(expr)
      PROVE  CalcInv'
  <2> DEFINE job == [gen |-> calcGeneration + 1, expr |-> expr, at |-> "queued"]
  <2>0. /\ calcGeneration' = calcGeneration + 1 /\ calcAsked' = expr
        /\ calcSeen' = <<calcResult', calcBusy'>>
    BY <1>1 DEF Calculator!EvalAsync, Calculator!Told
  <2>1. CASE expr = ""
    <3>1. calcJobs' = calcJobs /\ calcBusy' = FALSE /\ calcResult' = calcAsked'
      BY <1>1, <2>0, <2>1 DEF Calculator!EvalAsync, Calculator!SetBusy
    <3>2. \A j \in calcJobs' : j.gen # calcGeneration'
      BY <2>0, <3>1
    <3>3. calcBusy' \in BOOLEAN
      BY <3>1
    <3> QED BY <2>0, <3>1, <3>2, <3>3
  <2>2. CASE expr # ""
    <3>1. calcJobs' = calcJobs \cup {job} /\ calcBusy' = TRUE /\ calcResult' = calcResult
      BY <1>1, <2>2 DEF Calculator!EvalAsync, Calculator!SetBusy
    <3>2. job.gen = calcGeneration + 1 /\ job.expr = expr
          /\ job = [gen |-> job.gen, expr |-> job.expr, at |-> job.at]
      OBVIOUS
    <3> HIDE DEF job
    <3> QED BY <2>0, <3>1, <3>2
  <2> QED BY <2>1, <2>2
<1>2. ASSUME NEW job \in calcJobs, Calculator!Evaluate(job) \/ Calculator!Finish(job)
      PROVE  CalcInv'
  BY <1>2, CalcMoves DEF Calculator!Evaluate, Calculator!Finish
<1>3. ASSUME NEW job \in calcJobs, Calculator!ApplyResult(job)
      PROVE  CalcInv'
  BY <1>3 DEF Calculator!ApplyResult, Calculator!SetBusy, Calculator!Told
<1>4. CASE UNCHANGED Calculator!vars
  <2>1. UNCHANGED <<calcGeneration, calcResult, calcBusy, calcJobs, calcAsked, calcSeen>>
    BY <1>4 DEF Calculator!vars
  <2>2. calcJobs' = calcJobs /\ calcGeneration' = calcGeneration /\ calcAsked' = calcAsked
        /\ (calcBusy' <=> calcBusy) /\ calcBusy' \in BOOLEAN /\ calcResult' = calcResult
        /\ calcSeen' = <<calcResult', calcBusy'>>
    BY <2>1
  <2> QED BY <2>2
<1> QED BY <1>1, <1>2, <1>3, <1>4 DEF Calculator!Next

(***************************************************************************)
(* However the threads overtake each other, the calculator is busy exactly *)
(* while the last expression is evaluated, and then shows its result.      *)
(***************************************************************************)
LEMMA CalculatorShows == Calculator!Spec => []Calculator!ResultIsOfTheLast
<1>1. CalcInv => Calculator!ResultIsOfTheLast
  BY DEF CalcInv
<1> QED BY <1>1, CalcInit, CalcStep, PTL DEF Calculator!Spec
-----------------------------------------------------------------------------
(***************************************************************************)
(* The compositor.  The copy may differ from what the compositor has only  *)
(* while an event or an applied option will still ask for it again, or a   *)
(* refresh that will bring it is on its way.                               *)
(***************************************************************************)
Keyboards == Addresses \X HyprValues

\* What a reply about the keyboards may say.
Devices == UNION {[A -> HyprValues] : A \in SUBSET Addresses}

Events == {Hypr!Event(kind) : kind \in Hypr!Kinds}

ReplyIsIn(kind) == hyprRefresh[kind] # Hypr!NoRequest /\ hyprRefresh[kind][1] = "answered"

HyprType ==
  /\ hyprKeyboards \in Seq(Keyboards)
  /\ hyprPlugged \in Devices
  /\ hyprEvents \in Seq(Events)
  /\ hyprRefresh = [kind \in Hypr!Kinds |-> hyprRefresh[kind]]
  /\ ReplyIsIn("devices") => hyprRefresh["devices"][2] \in Devices

\* No address twice.
Distinct(ks) == \A i, j \in DOMAIN ks : ks[i][1] = ks[j][1] => i = j

\* The keyboards of a reply, as a set.
Described(devices) == {<<x, devices[x]>> : x \in DOMAIN devices}

LEMMA SameCardinality == \A S : Hypr!Cardinality(S) = Cardinality(S)
BY DEF Hypr!Cardinality, Cardinality

\* A function on 1 .. n is a sequence of that length.
LEMMA SequenceOf ==
  ASSUME NEW S, NEW n \in Nat, NEW f \in [1 .. n -> S]
  PROVE  f \in Seq(S) /\ Len(f) = n
<1>1. f \in Seq(S)
  BY SeqDef
<1>2. Len(f) \in Nat /\ DOMAIN f = 1 .. Len(f)
  BY <1>1, LenProperties
<1> QED BY <1>1, <1>2

(***************************************************************************)
(* A reply about the keyboards leaves exactly those it names, each once,   *)
(* with what it says of them.                                              *)
(***************************************************************************)
LEMMA KeyboardsUpdated ==
  ASSUME hyprKeyboards \in Seq(Keyboards), Distinct(hyprKeyboards),
         NEW A \in SUBSET Addresses, NEW devices \in [A -> HyprValues],
         NEW fresh \in Hypr!SetToSeqs(A \ {k[1] : k \in Hypr!ToSet(hyprKeyboards)}),
         Hypr!UpdateKeyboards(devices, fresh)
  PROVE  /\ hyprKeyboards' \in Seq(Keyboards)
         /\ Distinct(hyprKeyboards')
         /\ Hypr!ToSet(hyprKeyboards') = Described(devices)
<1> DEFINE kept == {i \in DOMAIN hyprKeyboards : hyprKeyboards[i][1] \in A}
           old  == {hyprKeyboards[i][1] : i \in kept}
           new  == A \ {k[1] : k \in Hypr!ToSet(hyprKeyboards)}
           n    == Cardinality(kept)
           m    == Cardinality(new)
<1>1. PICK stay \in [1 .. n -> kept] :
        /\ Hypr!ToSet(stay) = kept
        /\ \A i, j \in DOMAIN stay : i < j => stay[i] < stay[j]
        /\ Hypr!ToSet(fresh) = A \ old
        /\ hyprKeyboards' =
             [i \in DOMAIN stay |-> <<hyprKeyboards[stay[i]][1], devices[hyprKeyboards[stay[i]][1]]>>]
             \o [i \in DOMAIN fresh |-> <<fresh[i], devices[fresh[i]]>>]
  BY SameCardinality DEF Hypr!UpdateKeyboards
<1>2. n \in Nat /\ m \in Nat
  <2>1. IsFiniteSet(DOMAIN hyprKeyboards)
    <3>1. Len(hyprKeyboards) \in Nat /\ DOMAIN hyprKeyboards = 1 .. Len(hyprKeyboards)
      BY LenProperties
    <3>2. IsFiniteSet(1 .. Len(hyprKeyboards))
      BY <3>1, FS_Interval
    <3> QED BY <3>1, <3>2
  <2>2. IsFiniteSet(kept) /\ IsFiniteSet(new)
    BY <2>1, FS_Subset, AddressesAssumption
  <2> QED BY <2>2, FS_CardinalityType
<1>3. fresh \in [1 .. m -> new] /\ \A i, j \in 1 .. m : i # j => fresh[i] # fresh[j]
  BY SameCardinality DEF Hypr!SetToSeqs
<1> DEFINE s == [i \in 1 .. n |-> <<hyprKeyboards[stay[i]][1], devices[hyprKeyboards[stay[i]][1]]>>]
           t == [i \in 1 .. m |-> <<fresh[i], devices[fresh[i]]>>]
<1>4. hyprKeyboards' = s \o t
  BY <1>1, <1>3
<1>5. \A i \in 1 .. n : /\ stay[i] \in DOMAIN hyprKeyboards
                        /\ s[i][1] = hyprKeyboards[stay[i]][1]
                        /\ s[i][1] \in old /\ s[i][1] \in A
                        /\ s[i] = <<s[i][1], devices[s[i][1]]>>
  BY <1>1
<1>6. \A i \in 1 .. m : /\ t[i][1] = fresh[i] /\ t[i][1] \in A /\ t[i][1] \notin old
                        /\ t[i] = <<t[i][1], devices[t[i][1]]>>
  <2>1. \A i \in 1 .. m : fresh[i] \in A \ old
    BY <1>1, <1>3 DEF Hypr!ToSet
  <2> QED BY <2>1
<1>7. s \in Seq(Keyboards) /\ t \in Seq(Keyboards) /\ Len(s) = n /\ Len(t) = m
  <2>1. \A x \in A : <<x, devices[x]>> \in Keyboards
    BY DEF Keyboards
  <2>2. \A i \in 1 .. n : s[i] \in Keyboards
    BY <1>5, <2>1
  <2>3. \A i \in 1 .. m : t[i] \in Keyboards
    BY <1>6, <2>1
  <2>4. s \in [1 .. n -> Keyboards] /\ t \in [1 .. m -> Keyboards]
    BY <2>2, <2>3
  <2> HIDE DEF s, t, n, m
  <2>5. s \in Seq(Keyboards) /\ Len(s) = n
    BY <1>2, <2>4, SequenceOf
  <2>6. t \in Seq(Keyboards) /\ Len(t) = m
    BY <1>2, <2>4, SequenceOf
  <2> QED BY <2>5, <2>6
<1>8. \A i, j \in 1 .. n : s[i][1] = s[j][1] => i = j
  <2> SUFFICES ASSUME NEW i \in 1 .. n, NEW j \in 1 .. n, s[i][1] = s[j][1] PROVE i = j
    OBVIOUS
  <2>1. stay[i] = stay[j]
    BY <1>5 DEF Distinct
  <2>2. stay[i] \in Nat
    BY <1>5, LenProperties
  <2>3. i \in DOMAIN stay /\ j \in DOMAIN stay
    OBVIOUS
  <2>4. \A k, l \in DOMAIN stay : k < l => stay[k] < stay[l]
    BY ONLY <1>1
  <2>5. ~(i < j) /\ ~(j < i)
    BY ONLY <2>1, <2>2, <2>3, <2>4
  <2> QED BY <1>2, <2>5
<1>9. \A i, j \in 1 .. m : t[i][1] = t[j][1] => i = j
  BY <1>3, <1>6
<1>10. ASSUME NEW x \in old PROVE \E i \in 1 .. n : s[i][1] = x
  <2>1. PICK k \in kept : x = hyprKeyboards[k][1]
    OBVIOUS
  <2>2. PICK i \in 1 .. n : stay[i] = k
    BY <1>1 DEF Hypr!ToSet
  <2> QED BY <1>5, <2>1, <2>2
<1>11. \A x \in A \ old : \E i \in 1 .. m : t[i][1] = x
  BY <1>1, <1>3, <1>6 DEF Hypr!ToSet
<1>12. old \subseteq A
  OBVIOUS
<1> HIDE DEF s, t, old, n, m, kept, new
<1>13. /\ hyprKeyboards' \in Seq(Keyboards) /\ DOMAIN hyprKeyboards' = 1 .. n + m
       /\ \A i \in 1 .. n : hyprKeyboards'[i] = s[i]
       /\ \A i \in 1 .. m : hyprKeyboards'[n + i] = t[i]
  <2>1. /\ s \o t \in Seq(Keyboards) /\ Len(s \o t) = n + m
        /\ \A i \in 1 .. n + m : (s \o t)[i] = IF i <= n THEN s[i] ELSE t[i - n]
    BY <1>7, ConcatProperties
  <2>2. DOMAIN (s \o t) = 1 .. n + m
    BY <2>1, LenProperties
  <2>3. ASSUME NEW i \in 1 .. m PROVE (s \o t)[n + i] = t[i]
    <3>1. n + i \in 1 .. n + m /\ ~(n + i <= n) /\ (n + i) - n = i
      BY <1>2
    <3> QED BY <2>1, <3>1
  <2>4. ASSUME NEW i \in 1 .. n PROVE (s \o t)[i] = s[i]
    <3>1. i \in 1 .. n + m /\ i <= n
      BY <1>2
    <3> QED BY <2>1, <3>1
  <2> QED BY <1>4, <2>1, <2>2, <2>3, <2>4
<1>14. \A i \in 1 .. n + m : i \in 1 .. n \/ \E j \in 1 .. m : i = n + j
  <2> SUFFICES ASSUME NEW i \in 1 .. n + m, i \notin 1 .. n PROVE \E j \in 1 .. m : i = n + j
    OBVIOUS
  <2>1. i - n \in 1 .. m /\ i = n + (i - n)
    BY <1>2
  <2> QED BY <2>1
<1>15. Distinct(hyprKeyboards')
  <2> SUFFICES ASSUME NEW i \in 1 .. n + m, NEW j \in 1 .. n + m,
                      hyprKeyboards'[i][1] = hyprKeyboards'[j][1]
               PROVE  i = j
    BY <1>13 DEF Distinct
  <2>1. CASE i \in 1 .. n /\ j \in 1 .. n
    BY <1>8, <1>13, <2>1
  <2>2. CASE i \in 1 .. n /\ j \notin 1 .. n
    BY <1>5, <1>6, <1>13, <1>14, <2>2
  <2>3. CASE i \notin 1 .. n /\ j \in 1 .. n
    BY <1>5, <1>6, <1>13, <1>14, <2>3
  <2>4. CASE i \notin 1 .. n /\ j \notin 1 .. n
    BY <1>9, <1>13, <1>14, <2>4
  <2> QED BY <2>1, <2>2, <2>3, <2>4
<1>16. Hypr!ToSet(hyprKeyboards') = Described(devices)
  <2>1. ASSUME NEW i \in 1 .. n + m PROVE \E x \in A : hyprKeyboards'[i] = <<x, devices[x]>>
    <3>1. CASE i \in 1 .. n
      <4>1. s[i][1] \in A /\ hyprKeyboards'[i] = <<s[i][1], devices[s[i][1]]>>
        BY <1>5, <1>13, <3>1
      <4> QED BY <4>1
    <3>2. CASE i \notin 1 .. n
      <4>1. PICK j \in 1 .. m : i = n + j
        BY <1>14, <3>2
      <4>2. t[j][1] \in A /\ hyprKeyboards'[i] = <<t[j][1], devices[t[j][1]]>>
        BY <1>6, <1>13, <4>1
      <4> QED BY <4>2
    <3> QED BY <3>1, <3>2
  <2>2. ASSUME NEW x \in A PROVE \E i \in 1 .. n + m : hyprKeyboards'[i] = <<x, devices[x]>>
    <3>1. CASE x \in old
      <4>1. PICK i \in 1 .. n : s[i][1] = x
        BY <1>10, <3>1
      <4>2. i \in 1 .. n + m /\ hyprKeyboards'[i] = <<x, devices[x]>>
        BY <1>2, <1>5, <1>13, <4>1
      <4> QED BY <4>2
    <3>2. CASE x \notin old
      <4>1. PICK i \in 1 .. m : t[i][1] = x
        BY <1>11, <3>2
      <4>2. n + i \in 1 .. n + m /\ hyprKeyboards'[n + i] = <<x, devices[x]>>
        BY <1>2, <1>6, <1>13, <4>1
      <4> QED BY <4>2
    <3> QED BY <3>1, <3>2
  <2>3. Described(devices) = {<<x, devices[x]>> : x \in A}
    BY DEF Described
  <2>4. Hypr!ToSet(hyprKeyboards') = {hyprKeyboards'[i] : i \in 1 .. n + m}
    BY <1>13 DEF Hypr!ToSet
  <2>5. ASSUME NEW k \in Described(devices) PROVE k \in Hypr!ToSet(hyprKeyboards')
    BY <2>2, <2>3, <2>4
  <2>6. ASSUME NEW k \in Hypr!ToSet(hyprKeyboards') PROVE k \in Described(devices)
    BY <2>1, <2>3, <2>4
  <2> QED BY <2>5, <2>6
<1> QED BY <1>13, <1>15, <1>16

\* An event that will ask again is on its way; so is a request that was applied.
Announced(kind) == \E i \in DOMAIN hyprEvents : hyprEvents[i] = Hypr!Event(kind)

OptionsStale ==
  \/ Announced("options")
  \/ \E r \in hyprApplying : r[1] = "answered"
  \/ "applied" \in hyprLost

OptionsInv ==
  ~OptionsStale =>
    /\ ReplyIsIn("options") => hyprRefresh["options"][2] = hyprSetting
    /\ hyprRefresh["options"] = Hypr!NoRequest /\ "options" \notin hyprLost =>
         hyprOptions = hyprSetting

DevicesInv ==
  ~Announced("devices") =>
    /\ ReplyIsIn("devices") => hyprRefresh["devices"][2] = hyprPlugged
    /\ hyprRefresh["devices"] = Hypr!NoRequest /\ "devices" \notin hyprLost =>
         Hypr!ToSet(hyprKeyboards) = Described(hyprPlugged)

HyprInv ==
  /\ HyprType
  /\ Distinct(hyprKeyboards)
  /\ hyprTold = <<hyprOptions, hyprKeyboards>>
  /\ OptionsInv
  /\ DevicesInv

LEMMA AskedIsNoRequest == <<"asked">> # Hypr!NoRequest /\ <<"asked">>[1] # "answered"
BY DEF Hypr!NoRequest

\* Kind k of what is asked for stays as it was, is asked again, or its reply is lost.
StillAsked(k) ==
  \/ hyprRefresh'[k] \in {hyprRefresh[k], <<"asked">>}
  \/ hyprRefresh'[k] = Hypr!NoRequest /\ k \in hyprLost'

(***************************************************************************)
(* Steps that take over no reply: whatever changes in the compositor is    *)
(* announced, and whatever was announced is asked for.                     *)
(***************************************************************************)
LEMMA HyprMeanwhile ==
  ASSUME HyprInv, UNCHANGED <<hyprOptions, hyprKeyboards, hyprTold>>,
         hyprPlugged' \in Devices, hyprEvents' \in Seq(Events),
         hyprRefresh' = [kind \in Hypr!Kinds |-> hyprRefresh'[kind]],
         StillAsked("options"), StillAsked("devices"), hyprLost \subseteq hyprLost',
         hyprSetting' = hyprSetting \/ OptionsStale',
         hyprPlugged' = hyprPlugged \/ Announced("devices")',
         OptionsStale => OptionsStale' \/ hyprRefresh'["options"] = <<"asked">>,
         Announced("devices") => Announced("devices")' \/ hyprRefresh'["devices"] = <<"asked">>
  PROVE  HyprInv'
<1>1. HyprType'
  BY AskedIsNoRequest DEF HyprInv, HyprType, StillAsked, ReplyIsIn
<1>2. OptionsInv'
  BY AskedIsNoRequest DEF HyprInv, OptionsInv, StillAsked, ReplyIsIn
<1>3. DevicesInv'
  BY AskedIsNoRequest DEF HyprInv, DevicesInv, StillAsked, ReplyIsIn
<1> QED BY <1>1, <1>2, <1>3 DEF HyprInv

\* An announcement comes last, and what was announced before stays.
LEMMA AnnounceAdds ==
  ASSUME NEW kind \in Hypr!Kinds, hyprEvents \in Seq(Events), Hypr!Announce(kind)
  PROVE  /\ hyprEvents' \in Seq(Events) /\ Announced(kind)'
         /\ \A k \in Hypr!Kinds : Announced(k) => Announced(k)'
<1>1. Hypr!Event(kind) \in Events /\ hyprEvents' = Append(hyprEvents, Hypr!Event(kind))
  BY DEF Events, Hypr!Announce
<1>2. /\ hyprEvents' \in Seq(Events) /\ DOMAIN hyprEvents' = 1 .. Len(hyprEvents) + 1
      /\ \A i \in 1 .. Len(hyprEvents) : hyprEvents'[i] = hyprEvents[i]
      /\ hyprEvents'[Len(hyprEvents) + 1] = Hypr!Event(kind)
      /\ Len(hyprEvents) \in Nat /\ DOMAIN hyprEvents = 1 .. Len(hyprEvents)
  BY <1>1, AppendProperties, LenProperties
<1>3. Announced(kind)'
  <2>1. Len(hyprEvents) + 1 \in DOMAIN hyprEvents'
    BY <1>2
  <2> QED BY <1>2, <2>1 DEF Announced, Hypr!Event
<1>4. ASSUME NEW k \in Hypr!Kinds, Announced(k) PROVE Announced(k)'
  <2>1. PICK i \in DOMAIN hyprEvents : hyprEvents[i] = Hypr!Event(k)
    BY <1>4 DEF Announced
  <2>2. i \in DOMAIN hyprEvents' /\ hyprEvents'[i] = Hypr!Event(k)
    BY <1>2, <2>1
  <2> QED BY <2>2 DEF Announced, Hypr!Event
<1> QED BY <1>2, <1>3, <1>4

\* What is announced is read at once or is announced still.
LEMMA ReadTakesFirst ==
  ASSUME hyprEvents \in Seq(Events), hyprEvents # <<>>, hyprEvents' = Tail(hyprEvents)
  PROVE  /\ hyprEvents' \in Seq(Events)
         /\ \A k \in Hypr!Kinds :
              Announced(k) => Head(hyprEvents) = Hypr!Event(k) \/ Announced(k)'
<1>1. /\ hyprEvents' \in Seq(Events) /\ Len(hyprEvents') = Len(hyprEvents) - 1
      /\ \A i \in 1 .. Len(hyprEvents) - 1 : hyprEvents'[i] = hyprEvents[i + 1]
      /\ Head(hyprEvents) = hyprEvents[1]
  BY HeadTailProperties
<1>2. /\ Len(hyprEvents) \in Nat /\ DOMAIN hyprEvents = 1 .. Len(hyprEvents)
      /\ DOMAIN hyprEvents' = 1 .. Len(hyprEvents) - 1
  BY <1>1, LenProperties
<1>3. ASSUME NEW k \in Hypr!Kinds, Announced(k), Head(hyprEvents) # Hypr!Event(k)
      PROVE  Announced(k)'
  <2>1. PICK i \in DOMAIN hyprEvents : hyprEvents[i] = Hypr!Event(k)
    BY <1>3 DEF Announced
  <2>2. i - 1 \in DOMAIN hyprEvents' /\ hyprEvents'[i - 1] = Hypr!Event(k)
    BY <1>1, <1>2, <1>3, <2>1
  <2> QED BY <2>2 DEF Announced, Hypr!Event
<1> QED BY <1>1, <1>3

LEMMA HyprInit == Hypr!Init => HyprInv
<1> SUFFICES ASSUME Hypr!Init PROVE HyprInv
  OBVIOUS
<1>1. /\ hyprRefresh = [k \in Hypr!Kinds |-> <<"asked">>] /\ hyprEvents = <<>>
      /\ hyprKeyboards = <<>> /\ hyprTold = <<hyprOptions, hyprKeyboards>>
  BY DEF Hypr!Init
<1>4. hyprPlugged \in Devices
  BY Zenon DEF Hypr!Init, Devices
<1>2. ~ReplyIsIn("options") /\ ~ReplyIsIn("devices")
      /\ hyprRefresh["options"] # Hypr!NoRequest /\ hyprRefresh["devices"] # Hypr!NoRequest
  BY <1>1, AskedIsNoRequest DEF ReplyIsIn, Hypr!Kinds
<1>3. Distinct(hyprKeyboards)
  BY <1>1 DEF Distinct
<1> QED BY <1>1, <1>2, <1>3, <1>4 DEF HyprInv, HyprType, OptionsInv, DevicesInv

LEMMA HyprStep ==
  ASSUME HyprInv, [Hypr!Next]_Hypr!vars
  PROVE  HyprInv'
<1> USE DEF Hypr!Compositor, Hypr!Copies
<1>0. HyprType
  BY DEF HyprInv
<1>1. ASSUME NEW o \in HyprOptions, NEW v \in HyprValues, Hypr!ApplyOptions(o, v)
      PROVE  HyprInv'
  <2>1. /\ UNCHANGED <<hyprOptions, hyprKeyboards, hyprTold, hyprSetting, hyprPlugged,
                       hyprRefresh, hyprEvents, hyprLost>>
        /\ hyprApplying \subseteq hyprApplying'
    BY <1>1 DEF Hypr!ApplyOptions
  <2>2. StillAsked("options") /\ StillAsked("devices")
    BY <2>1 DEF StillAsked
  <2> QED BY <1>0, <2>1, <2>2, HyprMeanwhile DEF HyprType, OptionsStale, Announced
<1>2. ASSUME NEW kind \in Hypr!Kinds, Hypr!QmlRefreshes(kind)
      PROVE  HyprInv'
  <2>1. /\ UNCHANGED <<hyprOptions, hyprKeyboards, hyprTold, hyprSetting, hyprPlugged,
                       hyprApplying, hyprEvents, hyprLost>>
        /\ hyprRefresh' = [hyprRefresh EXCEPT ![kind] = <<"asked">>]
    BY <1>2 DEF Hypr!QmlRefreshes, Hypr!Refresh
  <2>2. StillAsked("options") /\ StillAsked("devices")
    BY <1>0, <2>1 DEF StillAsked, HyprType, Hypr!Kinds
  <2> QED BY <1>0, <2>1, <2>2, HyprMeanwhile DEF HyprType, OptionsStale, Announced
<1>3. ASSUME NEW kind \in Hypr!Kinds, Hypr!Answer(kind)
      PROVE  HyprInv'
  <2>1. /\ UNCHANGED <<hyprOptions, hyprKeyboards, hyprTold, hyprSetting, hyprPlugged,
                       hyprApplying, hyprEvents, hyprLost>>
        /\ hyprRefresh' = [hyprRefresh EXCEPT ![kind] =
             <<"answered", IF kind = "options" THEN hyprSetting ELSE hyprPlugged>>]
    BY <1>3 DEF Hypr!Answer
  <2>2. CASE kind = "options"
    <3>1. /\ hyprRefresh'["options"] = <<"answered", hyprSetting>>
          /\ hyprRefresh'["devices"] = hyprRefresh["devices"]
          /\ hyprRefresh' = [k \in Hypr!Kinds |-> hyprRefresh'[k]]
      BY <1>0, <2>1, <2>2 DEF HyprType, Hypr!Kinds
    <3>2. hyprRefresh'["options"] # Hypr!NoRequest /\ hyprRefresh'["options"][2] = hyprSetting
      BY <3>1 DEF Hypr!NoRequest
    <3> QED BY <2>1, <3>1, <3>2 DEF HyprInv, HyprType, OptionsInv, DevicesInv, ReplyIsIn,
                                    Announced, OptionsStale
  <2>3. CASE kind = "devices"
    <3>1. /\ hyprRefresh'["devices"] = <<"answered", hyprPlugged>>
          /\ hyprRefresh'["options"] = hyprRefresh["options"]
          /\ hyprRefresh' = [k \in Hypr!Kinds |-> hyprRefresh'[k]]
      BY <1>0, <2>1, <2>3 DEF HyprType, Hypr!Kinds
    <3>2. hyprRefresh'["devices"] # Hypr!NoRequest /\ hyprRefresh'["devices"][2] = hyprPlugged
      BY <3>1 DEF Hypr!NoRequest
    <3> QED BY <2>1, <3>1, <3>2 DEF HyprInv, HyprType, OptionsInv, DevicesInv, ReplyIsIn,
                                    Announced, OptionsStale
  <2> QED BY <2>2, <2>3 DEF Hypr!Kinds
<1>4. ASSUME Hypr!Announce("options"), UNCHANGED <<hyprPlugged, hyprRefresh, hyprApplying,
             hyprLost, hyprOptions, hyprKeyboards, hyprTold>>
      PROVE  HyprInv'
  <2>1. StillAsked("options") /\ StillAsked("devices")
    BY <1>4 DEF StillAsked
  <2>2. "options" \in Hypr!Kinds /\ "devices" \in Hypr!Kinds
    BY DEF Hypr!Kinds
  <2>3. hyprEvents' \in Seq(Events) /\ Announced("options")'
        /\ (Announced("devices") => Announced("devices")')
    BY <1>0, <1>4, <2>2, AnnounceAdds DEF HyprType
  <2> QED BY <1>0, <1>4, <2>1, <2>3, HyprMeanwhile DEF HyprType, OptionsStale
<1>5. ASSUME NEW A \in SUBSET Addresses, NEW devices \in [A -> HyprValues], Hypr!Plug(devices)
      PROVE  HyprInv'
  <2>1. /\ hyprPlugged' = devices /\ Hypr!Announce("devices")
        /\ UNCHANGED <<hyprSetting, hyprRefresh, hyprApplying, hyprLost,
                       hyprOptions, hyprKeyboards, hyprTold>>
    BY <1>5 DEF Hypr!Plug
  <2>2. StillAsked("options") /\ StillAsked("devices") /\ hyprPlugged' \in Devices
    BY <2>1 DEF StillAsked, Devices
  <2>3. "options" \in Hypr!Kinds /\ "devices" \in Hypr!Kinds
    BY DEF Hypr!Kinds
  <2>4. hyprEvents' \in Seq(Events) /\ Announced("devices")'
        /\ (Announced("options") => Announced("options")')
    BY <1>0, <2>1, <2>3, AnnounceAdds DEF HyprType
  <2> QED BY <1>0, <2>1, <2>2, <2>4, HyprMeanwhile DEF HyprType, OptionsStale
<1>6. ASSUME NEW r \in hyprApplying, Hypr!Apply(r)
      PROVE  HyprInv'
  <2>1. /\ <<"answered">> \in hyprApplying'
        /\ UNCHANGED <<hyprPlugged, hyprRefresh, hyprEvents, hyprLost,
                       hyprOptions, hyprKeyboards, hyprTold>>
    BY <1>6 DEF Hypr!Apply
  <2>2. StillAsked("options") /\ StillAsked("devices") /\ OptionsStale'
    BY <2>1 DEF StillAsked, OptionsStale
  <2> QED BY <1>0, <2>1, <2>2, HyprMeanwhile DEF HyprType, Announced
<1>7. ASSUME Hypr!ReadEvent
      PROVE  HyprInv'
  <2>1. PICK kind \in Hypr!Kinds : /\ Head(hyprEvents) = Hypr!Event(kind)
                                   /\ hyprRefresh' = [hyprRefresh EXCEPT ![kind] = <<"asked">>]
    BY <1>7 DEF Hypr!ReadEvent, Hypr!Refresh
  <2>2. /\ hyprEvents # <<>> /\ hyprEvents' = Tail(hyprEvents)
        /\ UNCHANGED <<hyprSetting, hyprPlugged, hyprApplying, hyprLost,
                       hyprOptions, hyprKeyboards, hyprTold>>
    BY <1>7 DEF Hypr!ReadEvent
  <2>3. /\ hyprEvents' \in Seq(Events)
        /\ \A k \in Hypr!Kinds : Announced(k) => Head(hyprEvents) = Hypr!Event(k) \/ Announced(k)'
    BY <1>0, <2>2, ReadTakesFirst DEF HyprType
  <2>4. \A k \in Hypr!Kinds : Hypr!Event(kind) = Hypr!Event(k) => kind = k
    BY DEF Hypr!Kinds, Hypr!Event
  <2>5. \A k \in Hypr!Kinds : /\ StillAsked(k)
                              /\ Announced(k) => Announced(k)' \/ hyprRefresh'[k] = <<"asked">>
    BY <1>0, <2>1, <2>3, <2>4 DEF StillAsked, HyprType
  <2>6. "options" \in Hypr!Kinds /\ "devices" \in Hypr!Kinds
    BY DEF Hypr!Kinds
  <2> QED BY <1>0, <2>1, <2>2, <2>3, <2>5, <2>6, HyprMeanwhile DEF HyprType, OptionsStale
<1>8. ASSUME NEW kind \in Hypr!Kinds, Hypr!Fail(kind)
      PROVE  HyprInv'
  <2>1. /\ hyprRefresh' = [hyprRefresh EXCEPT ![kind] = Hypr!NoRequest]
        /\ hyprLost' = hyprLost \cup {kind}
        /\ UNCHANGED <<hyprSetting, hyprPlugged, hyprApplying, hyprEvents,
                       hyprOptions, hyprKeyboards, hyprTold>>
    BY <1>8 DEF Hypr!Fail
  <2>2. StillAsked("options") /\ StillAsked("devices")
    BY <1>0, <2>1 DEF StillAsked, HyprType, Hypr!Kinds
  <2> QED BY <1>0, <2>1, <2>2, HyprMeanwhile DEF HyprType, OptionsStale, Announced
<1>9. ASSUME NEW r \in hyprApplying, NEW ok \in BOOLEAN, Hypr!Applied(r, ok)
      PROVE  HyprInv'
  <2>1. /\ r[1] = "answered" \/ ~ok
        /\ hyprApplying' = hyprApplying \ {r}
        /\ hyprRefresh' = IF ok THEN [hyprRefresh EXCEPT !["options"] = <<"asked">>]
                                ELSE hyprRefresh
        /\ hyprLost' = IF ok \/ r[1] = "asked" THEN hyprLost ELSE hyprLost \cup {"applied"}
        /\ UNCHANGED <<hyprSetting, hyprPlugged, hyprEvents,
                       hyprOptions, hyprKeyboards, hyprTold>>
    BY <1>9 DEF Hypr!Applied, Hypr!Refresh
  <2>2. /\ StillAsked("options") /\ StillAsked("devices")
        /\ hyprRefresh' = [k \in Hypr!Kinds |-> hyprRefresh'[k]]
        /\ ok => hyprRefresh'["options"] = <<"asked">>
    BY <1>0, <2>1 DEF StillAsked, HyprType, Hypr!Kinds
  <2>3. OptionsStale => OptionsStale' \/ hyprRefresh'["options"] = <<"asked">>
    <3>1. CASE ok
      BY <2>2, <3>1
    <3>2. CASE ~ok /\ r[1] = "answered"
      BY <2>1, <3>2 DEF OptionsStale
    <3>3. CASE ~ok /\ r[1] # "answered"
      BY <2>1, <3>3 DEF OptionsStale, Announced
    <3> QED BY <3>1, <3>2, <3>3
  <2> QED BY <1>0, <2>1, <2>2, <2>3, HyprMeanwhile DEF HyprType, Announced
<1>10. ASSUME NEW kind, kind = "options", NEW whole \in BOOLEAN, Hypr!Reply(kind, whole)
       PROVE  HyprInv'
  <2>1. /\ ReplyIsIn("options")
        /\ hyprRefresh' = [hyprRefresh EXCEPT !["options"] = Hypr!NoRequest]
        /\ hyprOptions' = IF whole THEN hyprRefresh["options"][2] ELSE hyprOptions
        /\ hyprTold' = <<hyprOptions', hyprKeyboards'>>
        /\ hyprLost' = IF whole THEN hyprLost \ {"options"} ELSE hyprLost \cup {"options"}
        /\ UNCHANGED <<hyprSetting, hyprPlugged, hyprApplying, hyprEvents, hyprKeyboards>>
    BY <1>10 DEF Hypr!Reply, Hypr!SetOptions, Hypr!Told, ReplyIsIn
  <2>2. /\ hyprRefresh'["options"] = Hypr!NoRequest
        /\ hyprRefresh'["devices"] = hyprRefresh["devices"]
        /\ hyprRefresh' = [k \in Hypr!Kinds |-> hyprRefresh'[k]]
    BY <1>0, <2>1 DEF HyprType, Hypr!Kinds
  <2>3. OptionsStale => OptionsStale'
    BY <2>1 DEF OptionsStale, Announced
  <2>4. HyprType'
    BY <1>0, <2>1, <2>2 DEF HyprType, ReplyIsIn
  <2>5. OptionsInv'
    BY <2>1, <2>2, <2>3 DEF HyprInv, OptionsInv, ReplyIsIn
  <2>6. DevicesInv'
    BY <2>1, <2>2 DEF HyprInv, DevicesInv, ReplyIsIn, Announced
  <2> QED BY <2>1, <2>4, <2>5, <2>6 DEF HyprInv
<1>11. ASSUME NEW kind, kind = "devices", NEW whole \in BOOLEAN, Hypr!Reply(kind, whole)
       PROVE  HyprInv'
  <2> DEFINE devices == hyprRefresh["devices"][2]
  <2>1. /\ ReplyIsIn("devices")
        /\ hyprRefresh' = [hyprRefresh EXCEPT !["devices"] = Hypr!NoRequest]
        /\ hyprTold' = <<hyprOptions', hyprKeyboards'>>
        /\ hyprLost' = IF whole THEN hyprLost \ {"devices"} ELSE hyprLost \cup {"devices"}
        /\ UNCHANGED <<hyprSetting, hyprPlugged, hyprApplying, hyprEvents, hyprOptions>>
    BY <1>11 DEF Hypr!Reply, Hypr!Told, ReplyIsIn
  <2>2. /\ hyprRefresh'["devices"] = Hypr!NoRequest
        /\ hyprRefresh'["options"] = hyprRefresh["options"]
        /\ hyprRefresh' = [k \in Hypr!Kinds |-> hyprRefresh'[k]]
    BY <1>0, <2>1 DEF HyprType, Hypr!Kinds
  <2>3. ~ReplyIsIn("devices")'
    BY <2>2 DEF ReplyIsIn
  <2>4. /\ hyprKeyboards' \in Seq(Keyboards) /\ Distinct(hyprKeyboards')
        /\ whole => Hypr!ToSet(hyprKeyboards') = Described(devices)
    <3>1. CASE ~whole
      <4>1. hyprKeyboards' = <<>>
        BY <1>11, <3>1 DEF Hypr!Reply
      <4> QED BY <3>1, <4>1 DEF Distinct
    <3>2. CASE whole
      <4>1. PICK A \in SUBSET Addresses : devices \in [A -> HyprValues]
        BY <1>0, <2>1 DEF HyprType, Devices
      <4>2. PICK fresh \in Hypr!SetToSeqs(A \ {k[1] : k \in Hypr!ToSet(hyprKeyboards)}) :
              Hypr!UpdateKeyboards(devices, fresh)
        BY <1>11, <3>2, <4>1 DEF Hypr!Reply
      <4> HIDE DEF devices
      <4> QED BY <1>0, <4>1, <4>2, KeyboardsUpdated DEF HyprInv, HyprType
    <3> QED BY <3>1, <3>2
  <2>5. HyprType'
    BY <1>0, <2>1, <2>2, <2>3, <2>4 DEF HyprType
  <2>6. OptionsInv'
    BY <2>1, <2>2 DEF HyprInv, OptionsInv, ReplyIsIn, OptionsStale, Announced
  <2>7. DevicesInv'
    <3>1. whole /\ ~Announced("devices") => devices = hyprPlugged
      BY <2>1 DEF HyprInv, DevicesInv
    <3>2. ~whole => "devices" \in hyprLost'
      BY <2>1
    <3> QED BY <2>1, <2>3, <2>4, <3>1, <3>2 DEF DevicesInv, Announced
  <2> QED BY <2>1, <2>4, <2>5, <2>6, <2>7 DEF HyprInv
<1>12. CASE UNCHANGED Hypr!vars
  <2>1. UNCHANGED <<hyprSetting, hyprPlugged, hyprOptions, hyprKeyboards, hyprRefresh,
                    hyprApplying, hyprEvents, hyprLost, hyprTold>>
    BY <1>12 DEF Hypr!vars
  <2> QED BY <1>0, <2>1, HyprMeanwhile DEF HyprType, StillAsked, OptionsStale, Announced
<1>13. ASSUME NEW s \in [HyprOptions -> HyprValues], Hypr!Reload(s)
       PROVE  HyprInv'
  BY <1>4, <1>13 DEF Hypr!Reload
<1>14. ASSUME NEW kind \in Hypr!Kinds, NEW whole \in BOOLEAN, Hypr!Reply(kind, whole)
       PROVE  HyprInv'
  <2>1. CASE kind = "options"
    BY <1>10, <1>14, <2>1
  <2>2. CASE kind = "devices"
    BY <1>11, <1>14, <2>2
  <2> QED BY <2>1, <2>2 DEF Hypr!Kinds
<1> QED
  BY <1>1, <1>2, <1>3, <1>5, <1>6, <1>7, <1>8, <1>9, <1>12, <1>13, <1>14 DEF Hypr!Next

(***************************************************************************)
(* At rest the shell's copy is what the compositor has, whatever changed   *)
(* while requests were on their way, unless the last reply was lost.       *)
(***************************************************************************)
LEMMA CompositorShows == Hypr!Spec => []Hypr!CopyIsCurrent
<1>1. HyprInv => Hypr!CopyIsCurrent
  <2> SUFFICES ASSUME HyprInv PROVE Hypr!CopyIsCurrent
    OBVIOUS
  <2>1. hyprEvents = <<>> => ~Announced("devices") /\ ~Announced("options")
    BY DEF Announced
  <2>2. hyprEvents = <<>> /\ hyprApplying = {} /\ "applied" \notin hyprLost => ~OptionsStale
    BY <2>1 DEF OptionsStale
  <2> QED BY <2>1, <2>2 DEF HyprInv, Distinct, OptionsInv, DevicesInv, Described, Hypr!CopyIsCurrent
<1> QED BY <1>1, HyprInit, HyprStep, PTL DEF Hypr!Spec
-----------------------------------------------------------------------------
(***************************************************************************)
(* For any settings, programs, requests, keyboards and threads, what is    *)
(* shown of the GPU, the compositor and the calculator is current.         *)
(***************************************************************************)
THEOREM ShownAnswersAreCurrent == PanelSpec => []AnswersAreCurrent
<1>1. /\ Graphics!GpuIsResolved
      /\ Hypr!CopyIsCurrent
      /\ Calculator!ResultIsOfTheLast
      => AnswersAreCurrent
  BY DEF AnswersAreCurrent
<1> QED BY <1>1, EachKeepsItsSpec, GpuShown, CompositorShows, CalculatorShows, PTL
-----------------------------------------------------------------------------
(* Sums, as the number of the units that are summed.                       *)

(* Sums of finitely many numbers are numbers.                              *)
LEMMA SumIsNumber ==
  ASSUME NEW D, IsFiniteSet(D), NEW f \in [D -> Nat]
  PROVE  IsFiniteSet(Units(f)) /\ SumOf(f) \in Nat
<1> DEFINE column(x) == {x} \X (1 .. f[x])
           columns == {column(x) : x \in D}
           g == [x \in D |-> column(x)]
<1>1. ASSUME NEW x \in D
      PROVE  IsFiniteSet(column(x)) /\ Cardinality(column(x)) = f[x]
  <2>1. IsFiniteSet({x}) /\ Cardinality({x}) = 1
    BY FS_Singleton
  <2>2. f[x] \in Nat
    OBVIOUS
  <2>3. IsFiniteSet(1 .. f[x]) /\ Cardinality(1 .. f[x]) = f[x]
    BY <2>2, FS_Interval
  <2>4. /\ IsFiniteSet({x} \X (1 .. f[x]))
        /\ Cardinality({x} \X (1 .. f[x])) = Cardinality({x}) * Cardinality(1 .. f[x])
    BY <2>1, <2>3, FS_Product
  <2> QED BY <2>1, <2>2, <2>3, <2>4
<1> HIDE DEF column
<1>2. g \in Surjection(D, columns)
  BY DEF Surjection
<1>3. IsFiniteSet(columns)
  BY <1>2, FS_Surjection
<1>4. IsFiniteSet(UNION columns)
  BY <1>1, <1>3, FS_UNION
<1>5. Units(f) = UNION columns
  BY DEF Units, column
<1>6. SumOf(f) \in Nat
  BY <1>4, <1>5, FS_CardinalityType DEF SumOf
<1> QED BY <1>4, <1>5, <1>6

(* A number more or less: the sum without it and the number itself.        *)
LEMMA SumSplits ==
  ASSUME NEW D, IsFiniteSet(D), NEW f \in [D -> Nat], NEW x \in D
  PROVE  SumOf(f) = f[x] + SumOf([y \in D \ {x} |-> f[y]])
<1> DEFINE rest == [y \in D \ {x} |-> f[y]]
           own == {x} \X (1 .. f[x])
<1>1. IsFiniteSet(D \ {x}) /\ rest \in [D \ {x} -> Nat]
  BY FS_RemoveElement
<1>2. IsFiniteSet(Units(rest))
  BY <1>1, SumIsNumber
<1>3. IsFiniteSet(own) /\ Cardinality(own) = f[x]
  <2>1. IsFiniteSet({x}) /\ Cardinality({x}) = 1
    BY FS_Singleton
  <2>2. f[x] \in Nat
    OBVIOUS
  <2>3. IsFiniteSet(1 .. f[x]) /\ Cardinality(1 .. f[x]) = f[x]
    BY <2>2, FS_Interval
  <2>4. /\ IsFiniteSet({x} \X (1 .. f[x]))
        /\ Cardinality({x} \X (1 .. f[x])) = Cardinality({x}) * Cardinality(1 .. f[x])
    BY <2>1, <2>3, FS_Product
  <2> QED BY <2>1, <2>2, <2>3, <2>4
<1>4. \A u \in Units(rest) : u[1] \in D \ {x}
  BY DEF Units
<1>5. \A u \in own : u[1] = x
  OBVIOUS
<1>6. own \cap Units(rest) = {}
  BY <1>4, <1>5
<1>7. Units(f) = own \cup Units(rest)
  BY DEF Units
<1>8. Cardinality(own \cap Units(rest)) = 0
  BY <1>6, FS_EmptySet
<1>9. Cardinality(own \cup Units(rest))
        = Cardinality(own) + Cardinality(Units(rest)) - Cardinality(own \cap Units(rest))
  BY <1>2, <1>3, FS_Union
<1>10. Cardinality(Units(rest)) \in Nat /\ f[x] \in Nat
  BY <1>2, FS_CardinalityType
<1> HIDE DEF own, rest
<1>11. SumOf(f) = f[x] + SumOf(rest)
  BY <1>3, <1>7, <1>8, <1>9, <1>10 DEF SumOf
<1> QED BY <1>11 DEF rest

LEMMA SumOfNone ==
  ASSUME NEW f, DOMAIN f = {}
  PROVE  SumOf(f) = 0
<1>1. Units(f) = {}
  BY DEF Units
<1> QED BY <1>1, FS_EmptySet DEF SumOf
-----------------------------------------------------------------------------
(* The operators of an instance are those of its module.                   *)
LEMMA SumsAreSums ==
  ASSUME NEW f
  PROVE  Traffic!SumOf(f) = SumOf(f)
BY Zenon DEF Traffic!SumOf, Traffic!Units, Traffic!Cardinality, SumOf, Units, Cardinality

(***************************************************************************)
(* The network.  What the counters have and the total has not is what went *)
(* through since the last tick, unless an interface took some of it away.  *)
(***************************************************************************)
NetType ==
  /\ DOMAIN netCounter \subseteq Interfaces /\ netCounter \in [DOMAIN netCounter -> Nat]
  /\ netInitialized \in BOOLEAN /\ netGone \in BOOLEAN
  /\ netPrev \in Nat /\ netTotal \in Nat /\ netCarried \in Nat /\ netAtTick \in Nat

NetInv ==
  /\ NetType
  /\ netAtTick <= netCarried
  /\ ~netInitialized => netTotal = 0 /\ netAtTick = 0
  /\ netInitialized =>
       /\ SumOf(netCounter) <= netPrev + (netCarried - netAtTick)
       /\ ~netGone => SumOf(netCounter) = netPrev + (netCarried - netAtTick)
  /\ Traffic!TotalIsCarried

LEMMA NetSum ==
  ASSUME NetType
  PROVE  IsFiniteSet(DOMAIN netCounter) /\ SumOf(netCounter) \in Nat
<1>1. IsFiniteSet(DOMAIN netCounter)
  BY InterfacesAssumption, FS_Subset DEF NetType
<1> QED BY <1>1, SumIsNumber DEF NetType

LEMMA NetInit == Traffic!Init => NetInv
<1> SUFFICES ASSUME Traffic!Init PROVE NetInv
  OBVIOUS
<1>1. NetType
  <2>1. PICK I \in SUBSET Interfaces : netCounter \in [I -> 0 .. 1]
    BY DEF Traffic!Init
  <2>2. DOMAIN netCounter = I /\ netCounter \in [I -> Nat]
    BY <2>1
  <2>3. /\ netInitialized = FALSE /\ netGone = FALSE
        /\ netPrev = 0 /\ netTotal = 0 /\ netCarried = 0 /\ netAtTick = 0
    BY DEF Traffic!Init
  <2> QED BY <2>1, <2>2, <2>3 DEF NetType
<1>2. /\ netInitialized = FALSE /\ netTotal = 0 /\ netAtTick = 0 /\ netCarried = 0
      /\ netShown = 0
  BY DEF Traffic!Init
<1> QED BY <1>1, <1>2 DEF NetInv, Traffic!TotalIsCarried

(* A tick, if the counters can be read.                                    *)
LEMMA NetTick ==
  ASSUME NetInv, NEW opened, Traffic!Tick(opened), UNCHANGED netCounter
  PROVE  NetInv'
<1> DEFINE s == SumOf(netCounter)
<1>1. NetType /\ s \in Nat
  BY NetSum DEF NetInv
<1>2. SumOf(netCounter)' = s
  OBVIOUS
<1>3. Traffic!SumOf(netCounter) = s
  BY SumsAreSums
<1>4. CASE ~opened
  <2>1. UNCHANGED <<netInitialized, netPrev, netTotal, netCarried, netAtTick, netGone, netShown>>
    BY <1>4 DEF Traffic!Tick
  <2> QED BY <2>1, <1>2 DEF NetInv, NetType, Traffic!TotalIsCarried
<1>5. CASE opened /\ netInitialized
  <2>1. /\ netInitialized' = TRUE /\ netPrev' = s /\ netTotal' = netTotal + Traffic!Delta(s)
        /\ netShown' = netTotal' /\ netAtTick' = netCarried
        /\ netCarried' = netCarried /\ netGone' = netGone
    BY <1>3, <1>5 DEF Traffic!Tick
  <2>2. Traffic!Delta(s) = IF s >= netPrev THEN s - netPrev ELSE 0
    BY DEF Traffic!Delta
  <2>3. /\ netPrev \in Nat /\ netTotal \in Nat /\ netCarried \in Nat /\ netAtTick \in Nat
        /\ netAtTick <= netCarried /\ s <= netPrev + (netCarried - netAtTick)
        /\ netTotal <= netAtTick
        /\ ~netGone => s = netPrev + (netCarried - netAtTick) /\ netTotal = netAtTick
    BY <1>5 DEF NetInv, NetType, Traffic!TotalIsCarried
  <2> HIDE DEF s
  <2>4. /\ Traffic!Delta(s) \in Nat /\ Traffic!Delta(s) <= netCarried - netAtTick
        /\ ~netGone => Traffic!Delta(s) = netCarried - netAtTick
    BY <2>2, <2>3, <1>1
  <2>5. NetType'
    BY <2>1, <2>3, <2>4, <1>1 DEF NetType
  <2>6. Traffic!TotalIsCarried'
    BY <2>1, <2>3, <2>4 DEF Traffic!TotalIsCarried
  <2>7. s <= s + (netCarried - netCarried) /\ s = s + (netCarried - netCarried)
    BY <2>3, <1>1
  <2> QED BY <2>1, <2>3, <2>5, <2>6, <2>7, <1>2 DEF NetInv
<1>6. CASE opened /\ ~netInitialized
  <2>1. /\ netInitialized' = TRUE /\ netPrev' = s
        /\ netTotal' = netTotal /\ netShown' = netShown
        /\ netCarried' = 0 /\ netAtTick' = 0 /\ netGone' = FALSE
    BY <1>3, <1>6 DEF Traffic!Tick
  <2>2. netTotal = 0 /\ netShown = netTotal
    BY <1>6 DEF NetInv, Traffic!TotalIsCarried
  <2> HIDE DEF s
  <2>3. NetType'
    BY <2>1, <1>1 DEF NetType
  <2>4. Traffic!TotalIsCarried'
    BY <2>1, <2>2 DEF Traffic!TotalIsCarried
  <2>5. s <= s + (0 - 0) /\ s = s + (0 - 0)
    BY <1>1
  <2> QED BY <2>1, <2>3, <2>4, <2>5, <1>2 DEF NetInv
<1> QED BY <1>4, <1>5, <1>6

(* The kernel: bytes go through, interfaces come and go.                   *)
LEMMA NetKernel ==
  ASSUME NetInv, NetType',
         netInitialized' = netInitialized, netPrev' = netPrev, netTotal' = netTotal,
         netAtTick' = netAtTick, netShown' = netShown,
         \/ netCarried' = netCarried + 1 /\ SumOf(netCounter)' = SumOf(netCounter) + 1
              /\ netGone' = netGone
         \/ netCarried' = netCarried /\ SumOf(netCounter)' = SumOf(netCounter)
              /\ netGone' = netGone
         \/ netCarried' = netCarried /\ SumOf(netCounter)' < SumOf(netCounter) /\ netGone' = TRUE
  PROVE  NetInv'
<1>1. NetType /\ SumOf(netCounter) \in Nat
  BY NetSum DEF NetInv
<1>2. SumOf(netCounter)' \in Nat
  <2>1. IsFiniteSet(DOMAIN netCounter')
    BY InterfacesAssumption, FS_Subset DEF NetType
  <2> QED BY <2>1, SumIsNumber DEF NetType
<1>3. /\ netPrev \in Nat /\ netTotal \in Nat /\ netCarried \in Nat /\ netAtTick \in Nat
      /\ netAtTick <= netCarried
  BY DEF NetInv, NetType
<1>4. Traffic!TotalIsCarried'
  BY DEF NetInv, Traffic!TotalIsCarried
<1>5. netAtTick' <= netCarried'
  BY <1>3
<1>6. netInitialized => /\ SumOf(netCounter)' <= netPrev + (netCarried' - netAtTick)
                        /\ ~netGone' => SumOf(netCounter)' = netPrev + (netCarried' - netAtTick)
  BY <1>1, <1>2, <1>3 DEF NetInv
<1> QED BY <1>4, <1>5, <1>6 DEF NetInv

LEMMA NetStep ==
  ASSUME NetInv, [Traffic!Next]_Traffic!vars
  PROVE  NetInv'
<1> DEFINE D == DOMAIN netCounter
<1>1. NetType /\ IsFiniteSet(D) /\ SumOf(netCounter) \in Nat
  BY NetSum DEF NetInv
<1>2. netCounter \in [D -> Nat] /\ D \subseteq Interfaces
  BY <1>1 DEF NetType
<1>3. ASSUME NEW i \in D
      PROVE  LET rest == [j \in D \ {i} |-> netCounter[j]]
             IN  SumOf(netCounter) = netCounter[i] + SumOf(rest) /\ SumOf(rest) \in Nat
  <2> DEFINE rest == [j \in D \ {i} |-> netCounter[j]]
  <2>1. SumOf(netCounter) = netCounter[i] + SumOf(rest)
    BY <1>1, <1>2, SumSplits
  <2>2. IsFiniteSet(D \ {i}) /\ rest \in [D \ {i} -> Nat]
    BY <1>1, <1>2, FS_RemoveElement
  <2>3. SumOf(rest) \in Nat
    BY <2>2, SumIsNumber
  <2> QED BY <2>1, <2>3
<1>4. ASSUME NEW opened \in BOOLEAN, Traffic!Start(opened) \/ Traffic!Timer(opened) PROVE NetInv'
  <2>1. Traffic!Tick(opened) /\ UNCHANGED netCounter
    BY <1>4 DEF Traffic!Start, Traffic!Timer, Traffic!Unmoved
  <2> QED BY <2>1, NetTick
<1>5. CASE Traffic!Stop \/ UNCHANGED Traffic!vars
  <2>1. UNCHANGED <<netCounter, netInitialized, netPrev, netTotal, netCarried, netAtTick,
                    netGone, netShown>>
    BY <1>5 DEF Traffic!Stop, Traffic!Unmoved, Traffic!vars
  <2> QED BY <2>1 DEF NetInv, NetType, Traffic!TotalIsCarried
<1>6. ASSUME NEW i \in D, Traffic!Traffic(i) PROVE NetInv'
  <2> DEFINE rest == [j \in D \ {i} |-> netCounter[j]]
             now  == [netCounter EXCEPT ![i] = @ + 1]
  <2>1. /\ netCounter' = now /\ netCarried' = netCarried + 1 /\ netGone' = netGone
        /\ UNCHANGED <<netInitialized, netPrev, netTotal, netAtTick, netShown>>
    BY <1>6 DEF Traffic!Traffic, Traffic!Kernel
  <2>2. now \in [D -> Nat] /\ now[i] = netCounter[i] + 1 /\ netCounter[i] \in Nat
    BY <1>2
  <2>3. [j \in D \ {i} |-> now[j]] = rest
    BY <1>2
  <2>4. SumOf(now) = now[i] + SumOf(rest)
    BY <1>1, <2>2, <2>3, SumSplits
  <2>5. SumOf(netCounter) = netCounter[i] + SumOf(rest) /\ SumOf(rest) \in Nat
    BY <1>3
  <2>6. SumOf(now) = SumOf(netCounter) + 1
    BY <2>2, <2>4, <2>5
  <2>7. NetType'
    <3>1. DOMAIN now = D
      BY <2>2
    <3>2. netCarried + 1 \in Nat
      BY <1>1 DEF NetType
    <3> HIDE DEF now
    <3> QED BY <1>1, <1>2, <2>1, <2>2, <3>1, <3>2 DEF NetType
  <2> HIDE DEF now
  <2>8. SumOf(netCounter)' = SumOf(netCounter) + 1
    BY <2>1, <2>6
  <2> QED BY <2>1, <2>7, <2>8, NetKernel
<1>7. ASSUME NEW i \in Interfaces \ D, Traffic!Comes(i) PROVE NetInv'
  <2> DEFINE now == [j \in D \cup {i} |-> IF j = i THEN 0 ELSE netCounter[j]]
  <2>1. /\ netCounter' = now /\ netCarried' = netCarried /\ netGone' = netGone
        /\ UNCHANGED <<netInitialized, netPrev, netTotal, netAtTick, netShown>>
    BY <1>7 DEF Traffic!Comes, Traffic!Kernel
  <2>2. now \in [D \cup {i} -> Nat] /\ now[i] = 0
    BY <1>2
  <2>3. [j \in (D \cup {i}) \ {i} |-> now[j]] = netCounter
    BY <1>2, <1>7
  <2>4. IsFiniteSet(D \cup {i})
    BY <1>1, FS_AddElement
  <2>5. SumOf(now) = now[i] + SumOf(netCounter)
    <3>1. i \in D \cup {i}
      OBVIOUS
    <3> HIDE DEF now
    <3> QED BY <3>1, <2>2, <2>3, <2>4, SumSplits
  <2>6. SumOf(now) = SumOf(netCounter)
    BY <2>2, <2>5, <1>1
  <2>7. NetType'
    <3>1. DOMAIN now = D \cup {i} /\ D \cup {i} \subseteq Interfaces
      BY <1>2, <1>7, <2>2
    <3> HIDE DEF now
    <3> QED BY <1>1, <2>1, <2>2, <3>1 DEF NetType
  <2> HIDE DEF now
  <2>8. SumOf(netCounter)' = SumOf(netCounter)
    BY <2>1, <2>6
  <2> QED BY <2>1, <2>7, <2>8, NetKernel
<1>8. ASSUME NEW i \in D, Traffic!Leaves(i) PROVE NetInv'
  <2> DEFINE rest == [j \in D \ {i} |-> netCounter[j]]
  <2>1. /\ netCounter' = rest /\ netCarried' = netCarried
        /\ netGone' = (netGone \/ netCounter[i] > 0)
        /\ UNCHANGED <<netInitialized, netPrev, netTotal, netAtTick, netShown>>
    BY <1>8 DEF Traffic!Leaves, Traffic!Kernel
  <2>2. rest \in [D \ {i} -> Nat] /\ netCounter[i] \in Nat
    BY <1>2
  <2>3. SumOf(netCounter) = netCounter[i] + SumOf(rest) /\ SumOf(rest) \in Nat
    BY <1>3
  <2>4. NetType'
    <3>1. DOMAIN rest = D \ {i} /\ D \ {i} \subseteq Interfaces
      BY <1>2
    <3>2. (netGone \/ netCounter[i] > 0) \in BOOLEAN
      OBVIOUS
    <3> HIDE DEF rest
    <3> QED BY <1>1, <2>1, <2>2, <3>1, <3>2 DEF NetType
  <2> HIDE DEF rest
  <2>5. CASE netCounter[i] = 0
    <3>1. netGone' = netGone
      BY <2>1, <2>5, <1>1 DEF NetType
    <3>2. SumOf(netCounter)' = SumOf(netCounter)
      BY <2>1, <2>3, <2>5
    <3> QED BY <2>1, <2>4, <3>1, <3>2, NetKernel
  <2>6. CASE netCounter[i] > 0
    <3>1. netGone' = TRUE
      BY <2>1, <2>6
    <3>2. SumOf(netCounter)' < SumOf(netCounter)
      BY <2>1, <2>2, <2>3, <2>6
    <3> QED BY <2>1, <2>4, <3>1, <3>2, NetKernel
  <2> QED BY <2>2, <2>5, <2>6
<1> QED BY <1>4, <1>5, <1>6, <1>7, <1>8 DEF Traffic!Next
-----------------------------------------------------------------------------
(***************************************************************************)
(* A finite set can be put into any order that compares all of it.         *)
(***************************************************************************)
Orders(R, S) ==
  /\ \A x \in S : <<x, x>> \notin R
  /\ \A x, y, z \in S : <<x, y>> \in R /\ <<y, z>> \in R => <<x, z>> \in R
  /\ \A x, y \in S : x # y => <<x, y>> \in R \/ <<y, x>> \in R

InOrder(s, n, R) == \A i, j \in 1 .. n : i < j => <<s[i], s[j]>> \in R

LEMMA OrderExists ==
  ASSUME NEW S, IsFiniteSet(S), NEW R, Orders(R, S)
  PROVE  \E s \in [1 .. Cardinality(S) -> S] : InOrder(s, Cardinality(S), R)
<1> DEFINE n == Cardinality(S)
           below(x) == {y \in S : <<y, x>> \in R}
           place == [x \in S |-> Cardinality(below(x)) + 1]
<1>0. n \in Nat
  BY FS_CardinalityType
<1>1. ASSUME NEW x \in S
      PROVE  IsFiniteSet(below(x)) /\ Cardinality(below(x)) \in Nat /\ Cardinality(below(x)) < n
  <2>1. below(x) \in SUBSET (S \ {x}) /\ below(x) \in SUBSET S
    BY DEF Orders
  <2>2. IsFiniteSet(S \ {x}) /\ Cardinality(S \ {x}) = n - 1
    BY FS_RemoveElement
  <2> HIDE DEF below
  <2>3. IsFiniteSet(below(x)) /\ Cardinality(below(x)) <= n - 1
    BY <2>1, <2>2, FS_Subset
  <2>4. Cardinality(below(x)) \in Nat
    BY <2>3, FS_CardinalityType
  <2> HIDE DEF n
  <2> QED BY <1>0, <2>3, <2>4
<1>2. ASSUME NEW x \in S, NEW y \in S, <<x, y>> \in R
      PROVE  Cardinality(below(x)) < Cardinality(below(y))
  <2>1. below(x) \in SUBSET below(y) /\ x \in below(y) /\ x \notin below(x)
    BY <1>2 DEF Orders
  <2>2. IsFiniteSet(below(y)) /\ IsFiniteSet(below(x))
    BY <1>1
  <2>3. Cardinality(below(x)) \in Nat /\ Cardinality(below(y)) \in Nat
    BY <1>1
  <2> HIDE DEF below
  <2>4. Cardinality(below(x)) <= Cardinality(below(y)) /\ Cardinality(below(x)) # Cardinality(below(y))
    BY <2>1, <2>2, FS_Subset
  <2> QED BY <2>3, <2>4
<1> HIDE DEF below
<1>3. place \in [S -> 1 .. n]
  <2> SUFFICES ASSUME NEW x \in S PROVE Cardinality(below(x)) + 1 \in 1 .. n
    OBVIOUS
  <2> HIDE DEF n
  <2> QED BY <1>0, <1>1
<1>4. \A x, y \in S : <<x, y>> \in R => place[x] < place[y]
  BY <1>1, <1>2
<1>5. \A x, y \in S : place[x] = place[y] => x = y
  <2> HIDE DEF place, n
  <2> SUFFICES ASSUME NEW x \in S, NEW y \in S, x # y PROVE place[x] # place[y]
    OBVIOUS
  <2>1. place[x] \in Int /\ place[y] \in Int
    BY <1>3
  <2>2. place[x] < place[y] \/ place[y] < place[x]
    BY <1>4 DEF Orders
  <2> QED BY <2>1, <2>2
<1> HIDE DEF place
<1>6. place \in Injection(S, 1 .. n)
  BY <1>3, <1>5 DEF Injection, IsInjective
<1>7. place \in Surjection(S, 1 .. n)
  <2>1. IsFiniteSet(1 .. n) /\ Cardinality(1 .. n) = n
    BY <1>0, FS_Interval
  <2> QED BY <1>6, <2>1, FS_Injection
<1>8. \A i \in 1 .. n : \E x \in S : place[x] = i
  BY <1>7 DEF Surjection
<1> DEFINE s == [i \in 1 .. n |-> CHOOSE x \in S : place[x] = i]
<1>9. \A i \in 1 .. n : s[i] \in S /\ place[s[i]] = i
  BY <1>8
<1>10. s \in [1 .. n -> S]
  BY <1>9
<1> HIDE DEF s
<1>11. ASSUME NEW i \in 1 .. n, NEW j \in 1 .. n, i < j PROVE <<s[i], s[j]>> \in R
  <2>1. s[i] \in S /\ s[j] \in S /\ place[s[i]] = i /\ place[s[j]] = j
    BY <1>9
  <2>2. i \in Int /\ j \in Int
    OBVIOUS
  <2>3. s[i] # s[j]
    BY <1>11, <2>1, <2>2
  <2>4. CASE <<s[j], s[i]>> \in R
    <3>1. j < i
      BY <1>4, <2>1, <2>4
    <3> QED BY <1>11, <2>2, <3>1
  <2> QED BY <2>1, <2>3, <2>4 DEF Orders
<1>12. InOrder(s, n, R)
  BY <1>11 DEF InOrder
<1> QED BY <1>10, <1>12

(* Then all of the set is there, and nothing twice.                        *)
LEMMA OrderedIsAll ==
  ASSUME NEW S, IsFiniteSet(S), NEW R, Orders(R, S),
         NEW s \in [1 .. Cardinality(S) -> S], InOrder(s, Cardinality(S), R)
  PROVE  \A x \in S : \E i \in 1 .. Cardinality(S) : s[i] = x
<1> DEFINE n == Cardinality(S)
<1>0. n \in Nat
  BY FS_CardinalityType
<1>1. ASSUME NEW i \in 1 .. n, NEW j \in 1 .. n, s[i] = s[j] PROVE i = j
  <2>1. s[i] \in S /\ ~(i < j) /\ ~(j < i)
    BY <1>1 DEF InOrder, Orders
  <2> QED BY <2>1
<1>2. s \in Injection(1 .. n, S)
  BY <1>1 DEF Injection, IsInjective
<1>3. IsFiniteSet(1 .. n) /\ Cardinality(1 .. n) = n
  BY <1>0, FS_Interval
<1>4. s \in Surjection(1 .. n, S)
  BY <1>2, <1>3, FS_Injection
<1> QED BY <1>4 DEF Surjection

(***************************************************************************)
(* The disks.  Sizes, and what a scan may find.                            *)
(***************************************************************************)
Sizes    == [used : Nat, total : Nat, root : BOOLEAN]
Findings == UNION {[K -> Sizes] : K \in SUBSET DOMAIN DiskRank}
DiskRecords == [mount : DOMAIN DiskRank, born : Nat, used : Nat, total : Nat, root : BOOLEAN]

(* The operators of an instance are those of its module.                   *)
LEMMA DiskOperators ==
  /\ \A f : Disks!SumOf(f) = SumOf(f)
  /\ \A S : Disks!Cardinality(S) = Cardinality(S)
<1>1. ASSUME NEW f PROVE Disks!SumOf(f) = SumOf(f)
  BY Zenon DEF Disks!SumOf, Disks!Units, Disks!Cardinality, SumOf, Units, Cardinality
<1>2. ASSUME NEW S PROVE Disks!Cardinality(S) = Cardinality(S)
  BY Zenon DEF Disks!Cardinality, Cardinality
<1> QED BY <1>1, <1>2

(* What is folded are disks with sizes.                                    *)
LEMMA FoldedAreFindings ==
  ASSUME NEW vs \in SUBSET Volumes, NEW f \in Disks!Folded(vs)
  PROVE  f \in Findings
<1> DEFINE keys(W) == UNION {IF v.device \in DOMAIN PoolOf THEN {PoolOf[v.device]}
                             ELSE Disks!Disks(v.device) : v \in W}
           On(W, k) == {v \in W : k \in Disks!Disks(v.device)
                                  \/ (v.device \in DOMAIN PoolOf /\ PoolOf[v.device] = k)}
           Entry(W, k) ==
             IF \E v \in On(W, k) : v.device \in DOMAIN PoolOf
             THEN {[used |-> v.used, total |-> v.total, root |-> Disks!Rooted(vs, v)] :
                      v \in {w \in On(W, k) : Disks!Representative(vs, On(W, k), w)}}
             ELSE {[used |-> Disks!SumOf([v \in On(W, k) |-> v.used]),
                    total |-> Disks!SumOf([v \in On(W, k) |-> v.total]),
                    root |-> \E v \in On(W, k) : Disks!Rooted(vs, v)]}
<1>1. PICK W \in Disks!Collected(vs) :
        f \in {g \in [keys(W) -> UNION {Entry(W, k) : k \in keys(W)}] :
                  \A k \in keys(W) : g[k] \in Entry(W, k)}
  BY DEF Disks!Folded
<1>2. W \subseteq Volumes
  BY DEF Disks!Collected
<1>3. keys(W) \subseteq DOMAIN DiskRank
  BY <1>2, VolumesAssumption, DisksAssumption
<1>4. ASSUME NEW k \in keys(W) PROVE Entry(W, k) \subseteq Sizes
  <2>1. On(W, k) \subseteq Volumes /\ IsFiniteSet(On(W, k))
    BY <1>2, VolumesAssumption, FS_Subset
  <2> HIDE DEF On
  <2>2. \A v : Disks!Rooted(vs, v) \in BOOLEAN
    BY DEF Disks!Rooted
  <2>3. CASE \E v \in On(W, k) : v.device \in DOMAIN PoolOf
    <3> SUFFICES ASSUME NEW v \in On(W, k)
                 PROVE  [used |-> v.used, total |-> v.total, root |-> Disks!Rooted(vs, v)] \in Sizes
      BY <2>3
    <3> QED BY <2>1, <2>2, VolumesAssumption DEF Sizes
  <2>4. CASE ~\E v \in On(W, k) : v.device \in DOMAIN PoolOf
    <3>1. /\ [v \in On(W, k) |-> v.used] \in [On(W, k) -> Nat]
          /\ [v \in On(W, k) |-> v.total] \in [On(W, k) -> Nat]
      BY <2>1, VolumesAssumption
    <3>2. /\ SumOf([v \in On(W, k) |-> v.used]) \in Nat
          /\ SumOf([v \in On(W, k) |-> v.total]) \in Nat
      BY <2>1, <3>1, SumIsNumber
    <3>3. /\ Disks!SumOf([v \in On(W, k) |-> v.used]) \in Nat
          /\ Disks!SumOf([v \in On(W, k) |-> v.total]) \in Nat
      BY ONLY <3>2, DiskOperators
    <3>4. (\E v \in On(W, k) : Disks!Rooted(vs, v)) \in BOOLEAN
      OBVIOUS
    <3> QED BY <2>4, <3>3, <3>4 DEF Sizes
  <2> QED BY <2>3, <2>4
<1> HIDE DEF keys, Entry
<1>5. f \in [keys(W) -> Sizes]
  <2>1. f \in [keys(W) -> UNION {Entry(W, k) : k \in keys(W)}]
    BY <1>1
  <2> QED BY <2>1, <1>1, <1>4
<1> QED BY <1>3, <1>5 DEF Findings

(* Sorting gives a list of all disks in the order of Before.               *)
LEMMA SortedIs ==
  ASSUME NEW S \in SUBSET DiskRecords, IsFiniteSet(S),
         \A x, y \in S : x.mount = y.mount => x = y,
         NEW s, s = Disks!Sorted(S)
  PROVE  /\ s \in Seq(DiskRecords)
         /\ \A i, j \in DOMAIN s : i < j => Disks!Before(s[i], s[j]) /\ s[i].mount # s[j].mount
         /\ \A i \in DOMAIN s : s[i] \in S
         /\ \A x \in S : \E i \in DOMAIN s : s[i] = x
<1> DEFINE n == Cardinality(S)
           R == {p \in S \X S : Disks!Before(p[1], p[2])}
<1>0. n \in Nat
  BY FS_CardinalityType
<1>1. \A x, y \in S : <<x, y>> \in R <=> Disks!Before(x, y)
  OBVIOUS
<1>2. \A x \in S : x.root \in BOOLEAN /\ x.mount \in DOMAIN DiskRank /\ DiskRank[x.mount] \in Nat
  BY VolumesAssumption DEF DiskRecords
<1>3. Orders(R, S)
  <2>1. ASSUME NEW x \in S PROVE <<x, x>> \notin R
    BY <1>1, <1>2 DEF Disks!Before
  <2>2. ASSUME NEW x \in S, NEW y \in S, NEW z \in S, <<x, y>> \in R, <<y, z>> \in R
        PROVE  <<x, z>> \in R
    <3>1. Disks!Before(x, y) /\ Disks!Before(y, z)
      BY <1>1, <2>2
    <3> HIDE DEF R
    <3>2. Disks!Before(x, z)
      BY <1>2, <3>1 DEF Disks!Before
    <3> QED BY <1>1, <3>2
  <2>3. ASSUME NEW x \in S, NEW y \in S, x # y PROVE <<x, y>> \in R \/ <<y, x>> \in R
    <3>1. DiskRank[x.mount] # DiskRank[y.mount]
      BY <1>2, <2>3, VolumesAssumption
    <3> HIDE DEF R
    <3>2. Disks!Before(x, y) \/ Disks!Before(y, x)
      BY <1>2, <3>1 DEF Disks!Before
    <3> QED BY <1>1, <3>2
  <2> QED BY <2>1, <2>2, <2>3 DEF Orders
<1> HIDE DEF n, R
<1>4. \A t \in [1 .. n -> S] :
        InOrder(t, n, R) <=> \A i, j \in 1 .. n : i < j => Disks!Before(t[i], t[j])
  BY <1>1 DEF InOrder
<1>5. \E t \in [1 .. n -> S] : InOrder(t, n, R)
  BY <1>3, OrderExists DEF n
<1>6. s = CHOOSE t \in [1 .. n -> S] : \A i, j \in 1 .. n : i < j => Disks!Before(t[i], t[j])
  BY Zenon, DiskOperators DEF Disks!Sorted, n
<1>7. s \in [1 .. n -> S] /\ \A i, j \in 1 .. n : i < j => Disks!Before(s[i], s[j])
  BY <1>4, <1>5, <1>6
<1>8. InOrder(s, n, R)
  BY <1>4, <1>7
<1>9. \A x \in S : \E i \in 1 .. n : s[i] = x
  BY <1>3, <1>7, <1>8, OrderedIsAll DEF n
<1>10. DOMAIN s = 1 .. n /\ s \in [1 .. n -> DiskRecords]
  BY <1>7
<1>11. s \in Seq(DiskRecords)
  BY <1>0, <1>10, SeqDef
<1>12. ASSUME NEW i \in 1 .. n, NEW j \in 1 .. n, i < j PROVE s[i].mount # s[j].mount
  <2>1. s[i] \in S /\ s[j] \in S /\ Disks!Before(s[i], s[j])
    BY <1>7, <1>12
  <2> SUFFICES ASSUME s[i] = s[j] PROVE FALSE
    BY <2>1
  <2>2. <<s[i], s[i]>> \in R
    BY <1>1, <2>1
  <2> QED BY <1>3, <2>1, <2>2 DEF Orders
<1> QED BY <1>7, <1>9, <1>10, <1>11, <1>12

(* Percentages are compared like numbers.                                  *)
LEMMA SameTwice ==
  ASSUME NEW p \in Nat \X Nat, NEW q \in Nat \X Nat, NEW r \in Nat \X Nat,
         Disks!SamePercentage(p, q), Disks!SamePercentage(r, q)
  PROVE  Disks!SamePercentage(p, r)
<1> DEFINE u == p[1]  w == p[2]  c == q[1]  d == q[2]  e == r[1]  f == r[2]
<1>1. u \in Nat /\ w \in Nat /\ c \in Nat /\ d \in Nat /\ e \in Nat /\ f \in Nat
  OBVIOUS
<1>2. /\ IF w * d = 0 THEN (w = 0 \/ u = 0) /\ (d = 0 \/ c = 0) ELSE u * d = c * w
      /\ IF f * d = 0 THEN (f = 0 \/ e = 0) /\ (d = 0 \/ c = 0) ELSE e * d = c * f
  BY DEF Disks!SamePercentage
<1> SUFFICES IF w * f = 0 THEN (w = 0 \/ u = 0) /\ (f = 0 \/ e = 0) ELSE u * f = e * w
  BY DEF Disks!SamePercentage
<1> HIDE DEF u, w, c, d, e, f
<1>3. \A x, y \in Nat : x * y = 0 <=> (x = 0 \/ y = 0)
  OBVIOUS
<1>4. CASE w = 0 \/ f = 0 \/ d = 0
  BY <1>1, <1>2, <1>3, <1>4
<1>5. CASE w # 0 /\ f # 0 /\ d # 0
  <2>1. w * f # 0 /\ u * d = c * w /\ e * d = c * f
    BY <1>1, <1>2, <1>3, <1>5
  <2>2. (u * f) * d = (e * w) * d
    <3>1. (u * f) * d = (u * d) * f
      BY <1>1
    <3>2. (e * w) * d = (e * d) * w
      BY <1>1
    <3>3. (c * w) * f = (c * f) * w
      BY <1>1
    <3> QED BY <2>1, <3>1, <3>2, <3>3
  <2>3. \A x, y \in Nat : x * d = y * d => x = y
    BY <1>1, <1>5
  <2>4. u * f \in Nat /\ e * w \in Nat
    BY <1>1
  <2> QED BY <2>1, <2>2, <2>3, <2>4
<1> QED BY <1>4, <1>5

DiskIds == {Disks!Id(diskDisks[i]) : i \in DOMAIN diskDisks}

DiskType ==
  /\ diskMounted \subseteq Volumes
  /\ diskJob # NoEntry => diskJob \in [found : Findings, finished : BOOLEAN]
  /\ diskDisks \in Seq(DiskRecords) /\ diskMade \in Nat
  /\ \A i \in DOMAIN diskDisks : diskDisks[i].born <= diskMade
  /\ \A id \in diskDying : id[2] \in Nat /\ id[2] <= diskMade
  /\ diskSeenPercentage \in Nat \X Nat

DiskInv == DiskType /\ Disks!DisksAreTrue

LEMMA PercentageIs ==
  ASSUME NEW ds \in Seq(DiskRecords)
  PROVE  Disks!Percentage(ds) \in Nat \X Nat
<1>1. IsFiniteSet(DOMAIN ds)
  <2>1. Len(ds) \in Nat /\ DOMAIN ds = 1 .. Len(ds)
    OBVIOUS
  <2> QED BY <2>1, FS_Interval
<1>2. /\ [i \in DOMAIN ds |-> ds[i].used] \in [DOMAIN ds -> Nat]
      /\ [i \in DOMAIN ds |-> ds[i].total] \in [DOMAIN ds -> Nat]
  <2>1. \A i \in DOMAIN ds : ds[i] \in DiskRecords
    OBVIOUS
  <2> QED BY <2>1 DEF DiskRecords
<1>3. /\ SumOf([i \in DOMAIN ds |-> ds[i].used]) \in Nat
      /\ SumOf([i \in DOMAIN ds |-> ds[i].total]) \in Nat
  BY <1>1, <1>2, SumIsNumber
<1>4. /\ Disks!SumOf([i \in DOMAIN ds |-> ds[i].used]) \in Nat
      /\ Disks!SumOf([i \in DOMAIN ds |-> ds[i].total]) \in Nat
  BY ONLY <1>3, DiskOperators
<1> QED BY <1>4 DEF Disks!Percentage

LEMMA DiskInit == Disks!Init => DiskInv
<1> SUFFICES ASSUME Disks!Init PROVE DiskInv
  OBVIOUS
<1>1. /\ diskMounted \in SUBSET Volumes /\ diskJob = NoEntry /\ diskDisks = <<>>
      /\ diskManual = NoEntry /\ diskDying = {} /\ diskMade = 0
      /\ diskSeenDisks = <<>> /\ diskSeenPrimary = NoEntry
      /\ diskSeenPercentage = <<0, 0>>
  BY DEF Disks!Init
<1>2. DiskType
  BY <1>1 DEF DiskType
<1>3. Disks!Percentage(diskDisks) = <<0, 0>>
  <2>1. DOMAIN diskDisks = {}
    BY <1>1
  <2>2. /\ SumOf([i \in DOMAIN diskDisks |-> diskDisks[i].used]) = 0
        /\ SumOf([i \in DOMAIN diskDisks |-> diskDisks[i].total]) = 0
    BY <2>1, SumOfNone
  <2>3. /\ Disks!SumOf([i \in DOMAIN diskDisks |-> diskDisks[i].used]) = 0
        /\ Disks!SumOf([i \in DOMAIN diskDisks |-> diskDisks[i].total]) = 0
    BY ONLY <2>2, DiskOperators
  <2> QED BY <2>3 DEF Disks!Percentage
<1>4. Disks!SamePercentage(diskSeenPercentage, Disks!Percentage(diskDisks))
  BY <1>1, <1>3 DEF Disks!SamePercentage
<1>5. diskSeenPrimary = Disks!PrimaryDisk(diskManual, diskDisks)
  BY <1>1 DEF Disks!PrimaryDisk
<1>6. diskSeenDisks = Disks!Ids(diskDisks)
  BY <1>1 DEF Disks!Ids
<1>7. DOMAIN diskDisks = {}
  BY <1>1
<1> QED BY <1>1, <1>2, <1>4, <1>5, <1>6, <1>7 DEF DiskInv, Disks!DisksAreTrue

(* The steps that change none of the objects.                              *)
LEMMA DiskSmallStep ==
  ASSUME DiskInv, Disks!Tick \/ Disks!Finish \/ (\E vs \in SUBSET Volumes : Disks!Mount(vs))
                    \/ UNCHANGED Disks!vars
  PROVE  DiskInv'
<1>1. DiskType /\ Disks!DisksAreTrue
  BY DEF DiskInv
<1>2. UNCHANGED <<diskDisks, diskManual, diskDying, diskMade, diskSeenDisks, diskSeenPrimary,
                  diskSeenPercentage, diskOverlooked>>
  BY DEF Disks!Tick, Disks!Finish, Disks!Mount, Disks!vars, Disks!Shell
<1>3. diskMounted' \in SUBSET Volumes
  BY <1>1 DEF DiskType, Disks!Tick, Disks!Finish, Disks!Mount, Disks!vars
<1>4. diskJob' # NoEntry => diskJob' \in [found : Findings, finished : BOOLEAN]
  <2>1. CASE Disks!Tick
    <3>1. PICK f \in Disks!Folded(diskMounted) : diskJob' = [found |-> f, finished |-> FALSE]
      BY <2>1 DEF Disks!Tick
    <3>2. f \in Findings
      BY <1>1, FoldedAreFindings DEF DiskType
    <3> QED BY <3>1, <3>2
  <2>2. CASE Disks!Finish
    <3>1. diskJob # NoEntry /\ diskJob' = [diskJob EXCEPT !.finished = TRUE]
      BY <2>2 DEF Disks!Finish, Disks!Running
    <3>2. diskJob \in [found : Findings, finished : BOOLEAN]
      BY <1>1, <3>1 DEF DiskType
    <3> QED BY <3>1, <3>2
  <2>3. CASE (\E vs \in SUBSET Volumes : Disks!Mount(vs)) \/ UNCHANGED Disks!vars
    BY <2>3, <1>1 DEF Disks!Mount, Disks!vars, DiskType
  <2> QED BY <2>1, <2>2, <2>3
<1>5. Disks!DisksAreTrue'
  <2>1. Disks!Percentage(diskDisks)' = Disks!Percentage(diskDisks)
    BY <1>2 DEF Disks!Percentage
  <2>2. Disks!PrimaryDisk(diskManual, diskDisks)' = Disks!PrimaryDisk(diskManual, diskDisks)
    BY <1>2
  <2> QED BY <1>1, <1>2, <2>1, <2>2 DEF Disks!DisksAreTrue, Disks!ToSet
<1>6. DiskType'
  BY <1>1, <1>2, <1>3, <1>4 DEF DiskType
<1> QED BY <1>5, <1>6 DEF DiskInv

(* What the invariant says of the identities of the disks.                 *)
LEMMA IdsAre ==
  /\ {Disks!Id(d) : d \in Disks!ToSet(diskDisks)} = DiskIds
  /\ \A m : (\E d \in Disks!ToSet(diskDisks) : Disks!Id(d) = m) <=> m \in DiskIds
  /\ diskDisks # <<>> /\ diskDisks \in Seq(DiskRecords) => Disks!Id(diskDisks[1]) \in DiskIds
<1>1. Disks!ToSet(diskDisks) = {diskDisks[i] : i \in DOMAIN diskDisks}
  BY DEF Disks!ToSet
<1>2. diskDisks # <<>> /\ diskDisks \in Seq(DiskRecords) => 1 \in DOMAIN diskDisks
  OBVIOUS
<1> QED BY <1>1, <1>2 DEF DiskIds

(* An object that was to be deleted is: nobody holds it any more.          *)
LEMMA DiskDelete ==
  ASSUME DiskInv, NEW id \in diskDying, Disks!Delete(id)
  PROVE  DiskInv'
<1>1. DiskType /\ Disks!DisksAreTrue
  BY DEF DiskInv
<1>2. /\ diskDying' = diskDying \ {id}
      /\ diskManual' = IF diskManual = id THEN NoEntry ELSE diskManual
      /\ diskSeenPrimary' = IF diskSeenPrimary = id THEN NoEntry ELSE diskSeenPrimary
      /\ UNCHANGED <<diskMounted, diskJob, diskDisks, diskMade, diskSeenDisks,
                     diskSeenPercentage, diskOverlooked>>
  BY DEF Disks!Delete
<1>3. id \notin DiskIds
  BY <1>1, IdsAre DEF Disks!DisksAreTrue
<1>4. diskManual # NoEntry => diskManual \in DiskIds
  BY <1>1, IdsAre DEF Disks!DisksAreTrue
<1>5. diskManual' = diskManual
  BY <1>2, <1>3, <1>4
<1>6. diskSeenPrimary = Disks!PrimaryDisk(diskManual, diskDisks) =>
        diskSeenPrimary' = Disks!PrimaryDisk(diskManual, diskDisks)
  <2>1. diskDisks \in Seq(DiskRecords)
    BY <1>1 DEF DiskType
  <2>2. Disks!PrimaryDisk(diskManual, diskDisks) \in DiskIds \cup {NoEntry}
    BY <1>4, <2>1, IdsAre DEF Disks!PrimaryDisk
  <2> QED BY <1>2, <1>3, <2>2
<1>7. Disks!PrimaryDisk(diskManual', diskDisks') = Disks!PrimaryDisk(diskManual, diskDisks)
  BY <1>2, <1>5
<1>8. Disks!Percentage(diskDisks') = Disks!Percentage(diskDisks)
  BY <1>2
<1>9. Disks!ToSet(diskDisks') = Disks!ToSet(diskDisks)
  BY <1>2
<1>10. DiskType'
  BY <1>1, <1>2 DEF DiskType
<1>11. Disks!DisksAreTrue'
  BY <1>1, <1>2, <1>5, <1>6, <1>7, <1>8, <1>9 DEF Disks!DisksAreTrue
<1> QED BY <1>10, <1>11 DEF DiskInv

LEMMA DiskChosen ==
  ASSUME DiskInv, NEW id \in {NoEntry} \cup Disks!ToSet(diskSeenDisks),
         Disks!SetManualPrimaryDisk(id)
  PROVE  DiskInv'
<1>1. DiskType /\ Disks!DisksAreTrue
  BY DEF DiskInv
<1>2. /\ diskManual' = id /\ diskSeenPrimary' = Disks!PrimaryDisk(id, diskDisks)
      /\ UNCHANGED <<diskMounted, diskJob, diskDisks, diskDying, diskMade, diskSeenDisks,
                     diskSeenPercentage>>
  BY DEF Disks!SetManualPrimaryDisk
<1>3. id # NoEntry => id \in DiskIds
  <2>1. diskSeenDisks = Disks!Ids(diskDisks)
    BY <1>1 DEF Disks!DisksAreTrue
  <2> QED BY <2>1 DEF Disks!ToSet, Disks!Ids, DiskIds
<1>4. id # NoEntry => \E d \in Disks!ToSet(diskDisks) : Disks!Id(d) = id
  BY <1>3, IdsAre
<1>5. Disks!PrimaryDisk(diskManual', diskDisks') = Disks!PrimaryDisk(id, diskDisks)
  BY <1>2
<1>6. Disks!Percentage(diskDisks') = Disks!Percentage(diskDisks)
  BY <1>2
<1>7. Disks!ToSet(diskDisks') = Disks!ToSet(diskDisks)
  BY <1>2
<1>8. DiskType'
  BY <1>1, <1>2 DEF DiskType
<1>9. Disks!DisksAreTrue'
  BY <1>1, <1>2, <1>4, <1>5, <1>6, <1>7 DEF Disks!DisksAreTrue
<1> QED BY <1>8, <1>9 DEF DiskInv

(* What a scan found, merged into the objects: those of before stay.       *)
OldDisks == Disks!ToSet(diskDisks)
GoneDisks == {d \in OldDisks : d.mount \notin DOMAIN diskJob.found}
WasBorn(k) == {d.born : d \in {x \in OldDisks : x.mount = k}}
BornOf(k) == IF WasBorn(k) # {} THEN Disks!Max(WasBorn(k)) ELSE diskMade + 1
Merged(k) == [mount |-> k, born |-> BornOf(k), used |-> diskJob.found[k].used,
              total |-> diskJob.found[k].total, root |-> diskJob.found[k].root]
AllMerged == {Merged(k) : k \in DOMAIN diskJob.found}
NextDisks == Disks!Sorted(AllMerged)

LEMMA ApplyIs ==
  ASSUME Disks!ApplyDisks
  PROVE  /\ diskJob # NoEntry /\ diskJob' = NoEntry
         /\ diskDisks' = NextDisks
         /\ diskMade' = IF \E k \in DOMAIN diskJob.found : WasBorn(k) = {}
                        THEN diskMade + 1 ELSE diskMade
         /\ diskManual' = IF Disks!Cleared(GoneDisks) THEN NoEntry ELSE diskManual
         /\ diskDying' = diskDying \cup {Disks!Id(d) : d \in GoneDisks}
         /\ diskSeenDisks' =
              IF Disks!Ids(NextDisks) # Disks!Ids(diskDisks)
              THEN Disks!Ids(NextDisks) ELSE diskSeenDisks
         /\ diskSeenPercentage' =
              IF Disks!SamePercentage(Disks!Percentage(NextDisks), Disks!Percentage(diskDisks))
              THEN diskSeenPercentage ELSE Disks!Percentage(NextDisks)
         /\ IF Disks!PrimaryDisk(diskManual', NextDisks) # Disks!PrimaryDisk(diskManual', diskDisks)
            THEN diskSeenPrimary' = Disks!PrimaryDisk(diskManual', NextDisks)
            ELSE /\ UNCHANGED diskSeenPrimary
                 /\ diskOverlooked' = (diskOverlooked \/ (Disks!Cleared(GoneDisks)
                      /\ Disks!PrimaryDisk(diskManual', NextDisks) # diskManual))
         /\ UNCHANGED diskMounted
<1> USE DEF OldDisks, GoneDisks, WasBorn, BornOf, Merged, AllMerged, NextDisks
<1>1. diskJob # NoEntry /\ diskJob' = NoEntry /\ UNCHANGED diskMounted
  BY DEF Disks!ApplyDisks
<1>2. diskDisks' = NextDisks
  BY Zenon DEF Disks!ApplyDisks
<1>3. diskMade' = IF \E k \in DOMAIN diskJob.found : WasBorn(k) = {}
                  THEN diskMade + 1 ELSE diskMade
  BY Zenon DEF Disks!ApplyDisks
<1>4. diskManual' = IF Disks!Cleared(GoneDisks) THEN NoEntry ELSE diskManual
  BY Zenon DEF Disks!ApplyDisks
<1>5. diskDying' = diskDying \cup {Disks!Id(d) : d \in GoneDisks}
  BY Zenon DEF Disks!ApplyDisks
<1>6. diskSeenDisks' =
        IF Disks!Ids(NextDisks) # Disks!Ids(diskDisks)
        THEN Disks!Ids(NextDisks) ELSE diskSeenDisks
  BY ZenonT(60) DEF Disks!ApplyDisks
<1>7. diskSeenPercentage' =
        IF Disks!SamePercentage(Disks!Percentage(NextDisks), Disks!Percentage(diskDisks))
        THEN diskSeenPercentage ELSE Disks!Percentage(NextDisks)
  BY ZenonT(60) DEF Disks!ApplyDisks
<1>8. IF Disks!PrimaryDisk(diskManual', NextDisks) # Disks!PrimaryDisk(diskManual', diskDisks)
      THEN diskSeenPrimary' = Disks!PrimaryDisk(diskManual', NextDisks)
      ELSE /\ UNCHANGED diskSeenPrimary
           /\ diskOverlooked' = (diskOverlooked \/ (Disks!Cleared(GoneDisks)
                /\ Disks!PrimaryDisk(diskManual', NextDisks) # diskManual))
  BY ZenonT(60) DEF Disks!ApplyDisks
<1> QED BY ONLY <1>1, <1>2, <1>3, <1>4, <1>5, <1>6, <1>7, <1>8

(* A disk that stays keeps its object.                                     *)
LEMMA MergedIs ==
  ASSUME DiskInv, diskJob # NoEntry
  PROVE  /\ AllMerged \in SUBSET DiskRecords /\ IsFiniteSet(AllMerged)
         /\ \A x, y \in AllMerged : x.mount = y.mount => x = y
         /\ \A i \in DOMAIN diskDisks :
              diskDisks[i].mount \in DOMAIN diskJob.found =>
                \E x \in AllMerged : Disks!Id(x) = Disks!Id(diskDisks[i])
         /\ \A x \in AllMerged :
              \/ \E i \in DOMAIN diskDisks : Disks!Id(x) = Disks!Id(diskDisks[i])
              \/ x.born = diskMade + 1 /\ \E k \in DOMAIN diskJob.found : WasBorn(k) = {}
         /\ \A x \in AllMerged : x.mount \in DOMAIN diskJob.found
<1> DEFINE K == DOMAIN diskJob.found
<1>1. DiskType /\ Disks!DisksAreTrue
  BY DEF DiskInv
<1>2. diskJob.found \in Findings
  BY <1>1 DEF DiskType
<1>3. /\ K \subseteq DOMAIN DiskRank
      /\ \A k \in K : diskJob.found[k] \in Sizes
  BY <1>2 DEF Findings
<1>4. /\ \A i \in DOMAIN diskDisks : diskDisks[i] \in DiskRecords
      /\ \A i, j \in DOMAIN diskDisks : diskDisks[i].mount = diskDisks[j].mount => i = j
  <2>1. diskDisks \in Seq(DiskRecords)
    BY <1>1 DEF DiskType
  <2>2. \A i \in DOMAIN diskDisks : diskDisks[i] \in DiskRecords /\ i \in Int
    BY <2>1
  <2>3. \A i, j \in DOMAIN diskDisks : i < j => diskDisks[i].mount # diskDisks[j].mount
    BY <1>1 DEF Disks!DisksAreTrue
  <2>4. ASSUME NEW i \in DOMAIN diskDisks, NEW j \in DOMAIN diskDisks,
               diskDisks[i].mount = diskDisks[j].mount
        PROVE  i = j
    <3>1. ~(i < j) /\ ~(j < i) /\ i \in Int /\ j \in Int
      BY <2>2, <2>3, <2>4
    <3> QED BY <3>1
  <2> QED BY <2>2, <2>4
<1>5. ASSUME NEW i \in DOMAIN diskDisks
      PROVE  /\ WasBorn(diskDisks[i].mount) = {diskDisks[i].born}
             /\ BornOf(diskDisks[i].mount) = diskDisks[i].born
  <2>1. WasBorn(diskDisks[i].mount) = {diskDisks[i].born}
    BY <1>4 DEF WasBorn, OldDisks, Disks!ToSet
  <2>2. diskDisks[i].born \in Nat
    BY <1>4 DEF DiskRecords
  <2>3. Disks!Max({diskDisks[i].born}) = diskDisks[i].born
    BY <2>2 DEF Disks!Max
  <2> QED BY <2>1, <2>3 DEF BornOf
<1>6. ASSUME NEW k \in DOMAIN DiskRank, WasBorn(k) # {}
      PROVE  \E i \in DOMAIN diskDisks : diskDisks[i].mount = k
  BY <1>6 DEF WasBorn, OldDisks, Disks!ToSet
<1>7. ASSUME NEW k \in K PROVE BornOf(k) \in Nat
  <2>1. CASE WasBorn(k) = {}
    <3>1. diskMade \in Nat
      BY <1>1 DEF DiskType
    <3> QED BY <2>1, <3>1 DEF BornOf
  <2>2. CASE WasBorn(k) # {}
    <3>1. PICK i \in DOMAIN diskDisks : diskDisks[i].mount = k
      BY <1>3, <1>6, <2>2
    <3>2. BornOf(k) = diskDisks[i].born
      BY <1>5, <3>1
    <3> QED BY <1>4, <3>2 DEF DiskRecords
  <2> QED BY <2>1, <2>2
<1>8. AllMerged \in SUBSET DiskRecords
  <2> SUFFICES ASSUME NEW k \in K PROVE Merged(k) \in DiskRecords
    BY DEF AllMerged
  <2>1. diskJob.found[k] \in Sizes /\ k \in DOMAIN DiskRank /\ BornOf(k) \in Nat
    BY <1>3, <1>7
  <2> HIDE DEF K
  <2> QED BY <2>1 DEF Merged, DiskRecords, Sizes
<1>9. IsFiniteSet(AllMerged)
  <2>1. IsFiniteSet(K)
    BY <1>3, VolumesAssumption, FS_Subset
  <2>2. [k \in K |-> Merged(k)] \in Surjection(K, AllMerged)
    BY DEF Surjection, AllMerged
  <2> QED BY <2>1, <2>2, FS_Surjection
<1>10. \A k \in K : Merged(k).mount = k /\ Merged(k).born = BornOf(k)
  BY DEF Merged
<1>11. \A x, y \in AllMerged : x.mount = y.mount => x = y
  BY <1>10 DEF AllMerged
<1>12. \A x \in AllMerged : x.mount \in K
  BY <1>10 DEF AllMerged
<1>13. ASSUME NEW i \in DOMAIN diskDisks, diskDisks[i].mount \in K
       PROVE  \E x \in AllMerged : Disks!Id(x) = Disks!Id(diskDisks[i])
  <2>1. Disks!Id(Merged(diskDisks[i].mount)) = Disks!Id(diskDisks[i])
    BY <1>5, <1>10, <1>13 DEF Disks!Id
  <2> QED BY <1>13, <2>1 DEF AllMerged
<1>14. ASSUME NEW x \in AllMerged
       PROVE  \/ \E i \in DOMAIN diskDisks : Disks!Id(x) = Disks!Id(diskDisks[i])
              \/ x.born = diskMade + 1 /\ \E k \in K : WasBorn(k) = {}
  <2>1. PICK k \in K : x = Merged(k)
    BY DEF AllMerged
  <2>2. x.mount = k /\ x.born = BornOf(k)
    BY <1>10, <2>1
  <2>3. CASE WasBorn(k) = {}
    BY <2>2, <2>3 DEF BornOf
  <2>4. CASE WasBorn(k) # {}
    <3>1. PICK i \in DOMAIN diskDisks : diskDisks[i].mount = k
      BY <1>3, <1>6, <2>4
    <3>2. Disks!Id(x) = Disks!Id(diskDisks[i])
      BY <1>5, <2>2, <3>1 DEF Disks!Id
    <3> QED BY <3>2
  <2> QED BY <2>3, <2>4
<1> QED BY <1>8, <1>9, <1>11, <1>12, <1>13, <1>14

LEMMA DiskApply ==
  ASSUME DiskInv, Disks!ApplyDisks
  PROVE  DiskInv'
<1> DEFINE next == NextDisks
<1>1. DiskType /\ Disks!DisksAreTrue
  BY DEF DiskInv
<1>2. diskJob # NoEntry /\ diskJob' = NoEntry /\ diskDisks' = next
      /\ UNCHANGED diskMounted
      /\ diskDying' = diskDying \cup {Disks!Id(d) : d \in GoneDisks}
      /\ diskManual' = IF Disks!Cleared(GoneDisks) THEN NoEntry ELSE diskManual
  BY ApplyIs
<1>3. /\ next \in Seq(DiskRecords)
      /\ \A i, j \in DOMAIN next : i < j => Disks!Before(next[i], next[j]) /\ next[i].mount # next[j].mount
      /\ \A i \in DOMAIN next : next[i] \in AllMerged
      /\ \A x \in AllMerged : \E i \in DOMAIN next : next[i] = x
  <2>1. /\ AllMerged \in SUBSET DiskRecords /\ IsFiniteSet(AllMerged)
        /\ \A x, y \in AllMerged : x.mount = y.mount => x = y
    BY <1>2, MergedIs
  <2>2. next = Disks!Sorted(AllMerged)
    BY DEF NextDisks
  <2> HIDE DEF next
  <2> QED BY ONLY <2>1, <2>2, SortedIs
<1> HIDE DEF next
<1>4. /\ diskMade \in Nat /\ diskMade' \in Nat /\ diskMade <= diskMade'
      /\ (\E k \in DOMAIN diskJob.found : WasBorn(k) = {}) => diskMade' = diskMade + 1
  <2>1. diskMade \in Nat
    BY <1>1 DEF DiskType
  <2>2. diskMade' = IF \E k \in DOMAIN diskJob.found : WasBorn(k) = {}
                    THEN diskMade + 1 ELSE diskMade
    BY ApplyIs
  <2> QED BY <2>1, <2>2
<1>5. /\ \A i \in DOMAIN diskDisks : diskDisks[i] \in DiskRecords /\ diskDisks[i].born <= diskMade
      /\ \A id \in diskDying : id[2] \in Nat /\ id[2] <= diskMade
  <2>1. diskDisks \in Seq(DiskRecords)
    BY <1>1 DEF DiskType
  <2>2. \A i \in DOMAIN diskDisks : diskDisks[i] \in DiskRecords
    BY <2>1
  <2> QED BY <1>1, <2>2 DEF DiskType
<1>6. \A x \in AllMerged :
        \/ \E i \in DOMAIN diskDisks : Disks!Id(x) = Disks!Id(diskDisks[i])
        \/ x.born = diskMade + 1 /\ diskMade' = diskMade + 1
  BY <1>2, <1>4, MergedIs
<1>7. \A d \in GoneDisks : /\ d.mount \notin DOMAIN diskJob.found
                           /\ \E i \in DOMAIN diskDisks : d = diskDisks[i]
  BY DEF GoneDisks, OldDisks, Disks!ToSet
<1>8. DiskType'
  <2>1. \A i \in DOMAIN next : next[i].born <= diskMade'
    <3> SUFFICES ASSUME NEW i \in DOMAIN next PROVE next[i].born <= diskMade'
      OBVIOUS
    <3>1. next[i] \in AllMerged
      BY <1>3
    <3>2. CASE \E j \in DOMAIN diskDisks : Disks!Id(next[i]) = Disks!Id(diskDisks[j])
      <4>1. PICK j \in DOMAIN diskDisks : Disks!Id(next[i]) = Disks!Id(diskDisks[j])
        BY <3>2
      <4>2. next[i].born = diskDisks[j].born
        BY <4>1 DEF Disks!Id
      <4>3. diskDisks[j].born \in Nat /\ diskDisks[j].born <= diskMade
        BY <1>5 DEF DiskRecords
      <4> QED BY ONLY <1>4, <4>2, <4>3
    <3>3. CASE next[i].born = diskMade + 1 /\ diskMade' = diskMade + 1
      BY <1>4, <3>3
    <3> QED BY <1>6, <3>1, <3>2, <3>3
  <2>2. \A id \in diskDying' : id[2] \in Nat /\ id[2] <= diskMade'
    <3> SUFFICES ASSUME NEW id \in diskDying' PROVE id[2] \in Nat /\ id[2] <= diskMade
      BY <1>4
    <3>1. CASE id \in diskDying
      BY <1>5, <3>1
    <3>2. CASE id \notin diskDying
      <4>1. PICK d \in GoneDisks : id = Disks!Id(d)
        BY <1>2, <3>2
      <4>2. id[2] = d.born
        BY <4>1 DEF Disks!Id
      <4> QED BY <1>5, <1>7, <4>1, <4>2 DEF DiskRecords
    <3> QED BY <3>1, <3>2
  <2>3. diskSeenPercentage' \in Nat \X Nat
    <3>1. Disks!Percentage(next) \in Nat \X Nat /\ diskSeenPercentage \in Nat \X Nat
      BY <1>1, <1>3, PercentageIs DEF DiskType
    <3>2. diskSeenPercentage' \in {diskSeenPercentage, Disks!Percentage(next)}
      BY ApplyIs DEF next
    <3> QED BY <3>1, <3>2
  <2> QED BY <1>1, <1>2, <1>3, <1>4, <2>1, <2>2, <2>3 DEF DiskType
<1>9. ASSUME NEW i \in DOMAIN next PROVE Disks!Id(next[i]) \notin diskDying'
  <2>1. next[i] \in AllMerged /\ next[i].mount \in DOMAIN diskJob.found
    BY <1>2, <1>3, MergedIs
  <2>2. ASSUME NEW d \in GoneDisks PROVE Disks!Id(next[i]) # Disks!Id(d)
    BY <1>7, <2>1 DEF Disks!Id
  <2>3. Disks!Id(next[i]) \notin diskDying
    <3>1. CASE \E j \in DOMAIN diskDisks : Disks!Id(next[i]) = Disks!Id(diskDisks[j])
      <4>1. Disks!Id(next[i]) \in DiskIds
        BY <3>1 DEF DiskIds
      <4> QED BY <1>1, <4>1, IdsAre DEF Disks!DisksAreTrue
    <3>2. CASE next[i].born = diskMade + 1
      <4>1. Disks!Id(next[i])[2] = diskMade + 1
        BY <3>2 DEF Disks!Id
      <4> QED BY <1>4, <1>5, <4>1
    <3> QED BY <1>6, <2>1, <3>1, <3>2
  <2> QED BY <1>2, <2>2, <2>3
<1>10. ASSUME diskManual' # NoEntry
       PROVE  \E i \in DOMAIN next : Disks!Id(next[i]) = diskManual'
  <2>1. diskManual' = diskManual /\ ~Disks!Cleared(GoneDisks)
    BY <1>2, <1>10
  <2>2. diskManual \in DiskIds
    BY <1>1, <1>10, <2>1, IdsAre DEF Disks!DisksAreTrue
  <2>3. PICK j \in DOMAIN diskDisks : diskManual = Disks!Id(diskDisks[j])
    BY <2>2 DEF DiskIds
  <2>4. diskManual[1] = diskDisks[j].mount
    BY <2>3 DEF Disks!Id
  <2>5. diskDisks[j].mount \in DOMAIN diskJob.found
    <3> SUFFICES ASSUME diskDisks[j].mount \notin DOMAIN diskJob.found PROVE FALSE
      OBVIOUS
    <3>1. diskDisks[j] \in GoneDisks
      BY DEF GoneDisks, OldDisks, Disks!ToSet
    <3> QED BY <1>10, <2>1, <2>4, <3>1 DEF Disks!Cleared
  <2>6. PICK x \in AllMerged : Disks!Id(x) = Disks!Id(diskDisks[j])
    BY <1>2, <2>5, MergedIs
  <2> QED BY <1>3, <2>1, <2>3, <2>6
<1>11. diskSeenDisks' = Disks!Ids(next)
  <2>1. diskSeenDisks = Disks!Ids(diskDisks)
    BY <1>1 DEF Disks!DisksAreTrue
  <2>2. diskSeenDisks' =
              IF Disks!Ids(next) # Disks!Ids(diskDisks)
              THEN Disks!Ids(next) ELSE diskSeenDisks
    BY ApplyIs DEF next
  <2> QED BY ONLY <2>1, <2>2
<1>12. Disks!SamePercentage(diskSeenPercentage', Disks!Percentage(next))
  <2>1. /\ Disks!Percentage(next) \in Nat \X Nat /\ Disks!Percentage(diskDisks) \in Nat \X Nat
        /\ diskSeenPercentage \in Nat \X Nat
    BY <1>1, <1>3, PercentageIs DEF DiskType
  <2>2. diskSeenPercentage' =
          IF Disks!SamePercentage(Disks!Percentage(next), Disks!Percentage(diskDisks))
          THEN diskSeenPercentage ELSE Disks!Percentage(next)
    BY ApplyIs DEF next
  <2>3. Disks!SamePercentage(diskSeenPercentage, Disks!Percentage(diskDisks))
    BY <1>1 DEF Disks!DisksAreTrue
  <2>4. CASE Disks!SamePercentage(Disks!Percentage(next), Disks!Percentage(diskDisks))
    <3>1. Disks!SamePercentage(diskSeenPercentage, Disks!Percentage(next))
      BY <2>1, <2>3, <2>4, SameTwice
    <3> QED BY <2>2, <2>4, <3>1
  <2>5. CASE ~Disks!SamePercentage(Disks!Percentage(next), Disks!Percentage(diskDisks))
    <3>1. diskSeenPercentage' = Disks!Percentage(next)
      BY <2>2, <2>5
    <3>2. ASSUME NEW p \in Nat \X Nat PROVE Disks!SamePercentage(p, p)
      BY DEF Disks!SamePercentage
    <3> QED BY <2>1, <3>1, <3>2
  <2> QED BY <2>4, <2>5
<1>13. diskSeenPrimary' = Disks!PrimaryDisk(diskManual', next) \/ diskOverlooked'
  <2>1. IF Disks!PrimaryDisk(diskManual', next) # Disks!PrimaryDisk(diskManual', diskDisks)
        THEN diskSeenPrimary' = Disks!PrimaryDisk(diskManual', next)
        ELSE /\ diskSeenPrimary' = diskSeenPrimary
             /\ diskOverlooked' = (diskOverlooked \/ (Disks!Cleared(GoneDisks)
                      /\ Disks!PrimaryDisk(diskManual', next) # diskManual))
    BY ApplyIs DEF next
  <2>2. diskSeenPrimary = Disks!PrimaryDisk(diskManual, diskDisks) \/ diskOverlooked
    BY <1>1 DEF Disks!DisksAreTrue
  <2>3. CASE Disks!Cleared(GoneDisks)
    <3>1. Disks!PrimaryDisk(diskManual, diskDisks) = diskManual
      BY <2>3 DEF Disks!Cleared, Disks!PrimaryDisk
    <3> QED BY ONLY <2>1, <2>2, <2>3, <3>1
  <2>4. CASE ~Disks!Cleared(GoneDisks)
    <3>1. diskManual' = diskManual
      BY <1>2, <2>4
    <3> QED BY ONLY <2>1, <2>2, <2>4, <3>1
  <2> QED BY <2>3, <2>4
<1>14. Disks!DisksAreTrue'
  <2>1. Disks!ToSet(diskDisks') = {next[i] : i \in DOMAIN next}
    BY <1>2 DEF Disks!ToSet
  <2>2. diskDying' \cap {Disks!Id(d) : d \in Disks!ToSet(diskDisks')} = {}
    BY <1>9, <2>1
  <2>3. diskManual' # NoEntry => \E d \in Disks!ToSet(diskDisks') : Disks!Id(d) = diskManual'
    BY <1>10, <2>1
  <2> QED BY <1>2, <1>3, <1>11, <1>12, <1>13, <2>2, <2>3 DEF Disks!DisksAreTrue
<1> QED BY <1>8, <1>14 DEF DiskInv

LEMMA DiskStep ==
  ASSUME DiskInv, [Disks!Next]_Disks!vars
  PROVE  DiskInv'
BY DiskSmallStep, DiskDelete, DiskChosen, DiskApply DEF Disks!Next
-----------------------------------------------------------------------------
(***************************************************************************)
(* Whichever volumes are mounted and interfaces come and go, however the   *)
(* scans of the disks overtake the ticks, the disks shown are those of the *)
(* last scan, in order, the primary disk is one of them, and the total is  *)
(* of bytes that went through (Storage::applyDisks, NetworkUsage::tick).   *)
(***************************************************************************)
THEOREM MonitorsShowWhatIsThere == PanelSpec => []MonitorsAreRight
<1>1. DiskInv /\ NetInv => MonitorsAreRight
  BY DEF DiskInv, NetInv, MonitorsAreRight
<1>2. Disks!Spec => []DiskInv
  BY DiskInit, DiskStep, PTL DEF Disks!Spec
<1>3. Traffic!Spec => []NetInv
  BY NetInit, NetStep, PTL DEF Traffic!Spec
<1> QED BY <1>1, <1>2, <1>3, EachKeepsItsSpec, PTL
-----------------------------------------------------------------------------
\* The proofs about cards, for those of the second panel.
Cards == INSTANCE ServiceOrchestratorProofs WITH
    state <- twoState, busy <- twoBusy, action <- twoAction,
    dropped <- twoDropped, probe <- twoProbe, stale <- twoStale,
    later <- twoLater, visible <- twoVisible, timerOn <- twoTimerOn,
    target <- twoTarget, retries <- twoRetries, after <- twoAfter,
    current <- twoCurrent, Entries <- Pair, Can <- PairCan

LEMMA SameCards == C!Spec => Cards!Spec
<1>1. C!Init => Cards!Init
  BY DEF C!Init, Cards!Init
<1>2. [C!Next]_C!vars => [Cards!Next]_Cards!vars
  BY DEF C!Next, Cards!Next, C!Request, Cards!Request, C!Start, Cards!Start,
         C!Stop, Cards!Stop, C!Restart, Cards!Restart, C!SetAutostart,
         Cards!SetAutostart, C!ProbeOne, Cards!ProbeOne, C!RunAction,
         Cards!RunAction, C!CallAdapter, Cards!CallAdapter, C!ActionDone,
         Cards!ActionDone, C!DroppedActionDone, Cards!DroppedActionDone,
         C!Ended, Cards!Ended, C!Answered, Cards!Answered, C!RefreshAnswered,
         Cards!RefreshAnswered, C!VerifyAnswered, Cards!VerifyAnswered,
         C!VerifyBy, Cards!VerifyBy, C!TimerAnswered, Cards!TimerAnswered,
         C!StaleAnswered, Cards!StaleAnswered, C!StillRunning,
         Cards!StillRunning, C!TimerRetries, Cards!TimerRetries, C!Release,
         Cards!Release, C!Answer, Cards!Answer, C!Ask, Cards!Ask, C!Look,
         Cards!Look, C!Refresh, Cards!Refresh, C!SetPanelVisible,
         Cards!SetPanelVisible, C!RunLater, Cards!RunLater, C!TimerFires,
         Cards!TimerFires, C!Reload, Cards!Reload, C!vars, Cards!vars,
         C!cardVars, Cards!cardVars, C!callVars, Cards!callVars, C!probeVars,
         Cards!probeVars, C!timerVars, Cards!timerVars, C!Probes, Cards!Probes,
         C!Commands, Cards!Commands, C!States, Cards!States, C!Verifications,
         Cards!Verifications, C!RefreshClosure, Cards!RefreshClosure,
         C!VoidClosure, Cards!VoidClosure, C!Closures, Cards!Closures
<1> QED BY <1>1, <1>2, PTL DEF C!Spec, Cards!Spec

(***************************************************************************)
(* On a panel of any number of cards none of which can be stopped, no card *)
(* ever runs two commands at a time (runAction, finishAction).             *)
(***************************************************************************)
THEOREM PanelCommandsTakeTurns == PanelSpec => []CardsRunOneCommand
<1>1. Cards!NoneStops
  BY PairAssumption DEF Cards!NoneStops
<1>2. NoEntry \notin Pair /\ PairCan \in [Pair -> SUBSET Cards!Commands]
  BY PairAssumption DEF Cards!Commands, Commands
<1>3. Answers \subseteq Cards!States /\ MaxLater \in Nat \ {0}
  BY AnswersAssumption, MaxLaterAssumption DEF Cards!States, States
<1>4. Cards!Spec => []Cards!OneCommand
  BY <1>1, <1>2, <1>3, Cards!CommandsTakeTurns
<1>5. Cards!OneCommand => CardsRunOneCommand
  BY DEF Cards!OneCommand, CardsRunOneCommand, C!OneCommand
<1> QED BY <1>4, <1>5, SameCards, EachKeepsItsSpec, PTL
-----------------------------------------------------------------------------
(***************************************************************************)
(* The adapters' command runner implements AdapterCall, for any number of  *)
(* calls and of candidate commands, as far as safety goes.  A finished     *)
(* object never finishes again, and a call that waits has one object that  *)
(* is not finished, its last (OneOpen), as a candidate is only run by the  *)
(* finish of the one before it: so a call ends once.  The runner of the    *)
(* panel has three calls; this one has any.                                *)
(***************************************************************************)
CONSTANTS Calls, Candidates
VARIABLES asked, answers, created, active, finished, process
Adapter == INSTANCE CommandRunner
Call == INSTANCE AdapterCall

Counted == Candidates \in [Calls -> Nat]

Open == created \ finished

(* What the objects of a call say of it. *)
OneOpen ==
    /\ \A p, q \in Open : p[1] = q[1] => p = q
    /\ \A p \in Open : answers[p[1]] = 0 /\ \A q \in created : q[1] = p[1] => q[2] <= p[2]
    /\ \A c \in asked : answers[c] = 0 => \E p \in Open : p[1] = c

CallInv ==
    /\ asked \subseteq Calls
    /\ answers \in [Calls -> {0, 1}]
    /\ \A c \in Calls \ asked : answers[c] = 0
    /\ finished \subseteq created /\ active = Open
    /\ \A p \in created : p[1] \in asked /\ p[2] \in 1 .. Candidates[p[1]] /\ p = <<p[1], p[2]>>
    /\ OneOpen

LEMMA CallInit == Adapter!Init => CallInv /\ Call!Init
  BY DEF Adapter!Init, CallInv, OneOpen, Open, Call!Init

(* A turn of the event loop in which some open objects finish answers the  *)
(* calls they end and no others, and each call without an answer so far.   *)
LEMMA CallFinish ==
  ASSUME Counted, CallInv, NEW ps, ps \subseteq created, NEW good, NEW sys,
         Adapter!Finish(ps, good, sys), UNCHANGED asked
  PROVE  CallInv' /\ [Call!Next]_<<asked, answers>>
<1> DEFINE done == Adapter!Ending(ps \ finished, good)
           next == Adapter!Following(ps \ finished, good)
<1>1. /\ finished' = finished \cup (ps \ finished)
      /\ answers' = [c \in Calls |-> answers[c] + IF c \in done THEN 1 ELSE 0]
      /\ active' = (active \ (ps \ finished)) \cup next
      /\ created' = created \cup next
  BY DEF Adapter!Finish, Adapter!FinishAll, Adapter!RunCommand
<1>2. \A c \in done : \E p \in ps \ finished : c = p[1]
  BY DEF Adapter!Ending
<1>3. \A q \in next : \E p \in ps \ finished :
         /\ q = <<p[1], p[2] + 1>> /\ p \notin good /\ p[2] < Candidates[p[1]]
  BY DEF Adapter!Following
<1>4. \A p \in ps \ finished : p[1] \in done => p \in good \/ p[2] = Candidates[p[1]]
  <2> SUFFICES ASSUME NEW p \in ps \ finished, p[1] \in done
               PROVE  p \in good \/ p[2] = Candidates[p[1]]
    OBVIOUS
  <2>1. PICK q \in ps \ finished : q[1] = p[1] /\ (q \in good \/ q[2] = Candidates[q[1]])
    BY DEF Adapter!Ending
  <2>2. q = p
    BY <2>1 DEF CallInv, OneOpen, Open
  <2> QED BY <2>1, <2>2
<1> HIDE DEF done, next
<1>5. \A c \in done : c \in Calls /\ c \in asked /\ answers[c] = 0
  BY <1>2 DEF CallInv, OneOpen, Open
<1>6. answers' = [c \in Calls |-> IF c \in done THEN 1 ELSE answers[c]]
  BY <1>1, <1>5 DEF CallInv
<1>7. answers' \in [Calls -> {0, 1}] /\ \A c \in Calls : answers'[c] = IF c \in done THEN 1 ELSE answers[c]
  BY <1>6 DEF CallInv
<1>8. \A q \in next :
         /\ q[1] \in asked /\ q[2] \in 1 .. Candidates[q[1]] /\ q = <<q[1], q[2]>>
         /\ q[1] \notin done /\ answers[q[1]] = 0
         /\ \E p \in ps \ finished : p[1] = q[1]
  <2> SUFFICES ASSUME NEW q \in next
               PROVE  /\ q[1] \in asked /\ q[2] \in 1 .. Candidates[q[1]]
                      /\ q = <<q[1], q[2]>> /\ q[1] \notin done /\ answers[q[1]] = 0
                      /\ \E p \in ps \ finished : p[1] = q[1]
    OBVIOUS
  <2>1. PICK p \in ps \ finished :
           q = <<p[1], p[2] + 1>> /\ p \notin good /\ p[2] < Candidates[p[1]]
    BY <1>3
  <2>2. /\ p[1] \in asked /\ answers[p[1]] = 0 /\ p \in Open
        /\ p[2] \in Nat /\ p[2] >= 1 /\ Candidates[p[1]] \in Nat
    BY DEF CallInv, OneOpen, Open, Counted
  <2>3. p[1] \notin done
    BY <1>4, <2>1, <2>2 DEF Counted, CallInv
  <2> QED BY <2>1, <2>2, <2>3
<1>9. \A q, r \in next : q[1] = r[1] => q = r
  <2> SUFFICES ASSUME NEW q \in next, NEW r \in next, q[1] = r[1] PROVE q = r
    OBVIOUS
  <2>1. PICK p \in ps \ finished : q = <<p[1], p[2] + 1>>
    BY <1>3
  <2>2. PICK s \in ps \ finished : r = <<s[1], s[2] + 1>>
    BY <1>3
  <2>3. p = s
    BY <2>1, <2>2 DEF CallInv, OneOpen, Open
  <2> QED BY <2>1, <2>2, <2>3
<1>10. Open' = (Open \ ps) \cup next
  <2>1. ASSUME NEW q \in next PROVE q \notin created
    <3>1. PICK p \in ps \ finished : q = <<p[1], p[2] + 1>>
      BY <1>3
    <3>2. p \in Open /\ p[2] \in Nat
      BY DEF CallInv, Open, Counted
    <3> QED BY <3>1, <3>2 DEF CallInv, OneOpen
  <2>2. finished \subseteq created
    BY DEF CallInv
  <2> QED BY <1>1, <2>1, <2>2 DEF Open
<1>11. OneOpen'
  <2>1. ASSUME NEW p \in Open', NEW q \in Open', p[1] = q[1] PROVE p = q
    <3>1. CASE p \in next /\ q \in next
      BY <1>9, <2>1, <3>1
    <3>2. CASE p \in next /\ q \notin next
      BY <1>8, <1>10, <2>1, <3>2 DEF CallInv, OneOpen, Open
    <3>3. CASE p \notin next /\ q \in next
      BY <1>8, <1>10, <2>1, <3>3 DEF CallInv, OneOpen, Open
    <3>4. CASE p \notin next /\ q \notin next
      BY <1>10, <2>1, <3>4 DEF CallInv, OneOpen
    <3> QED BY <3>1, <3>2, <3>3, <3>4
  <2>2. ASSUME NEW p \in Open' PROVE answers'[p[1]] = 0
    <3>1. CASE p \in next
      BY <1>7, <1>8, <3>1 DEF CallInv
    <3>2. CASE p \notin next
      <4>1. p \in Open /\ p \notin ps /\ p[1] \in Calls
        BY <1>10, <3>2 DEF CallInv, Open
      <4>2. p[1] \notin done
        BY <1>2, <4>1 DEF CallInv, OneOpen, Open
      <4> QED BY <1>7, <4>1, <4>2 DEF CallInv, OneOpen
    <3> QED BY <3>1, <3>2
  <2>3. ASSUME NEW p \in Open', NEW q \in created', q[1] = p[1] PROVE q[2] <= p[2]
    <3>1. CASE q \in next
      <4>1. p = q /\ q[2] \in Int
        BY <1>8, <1>10, <2>1, <2>3, <3>1 DEF Open
      <4> QED BY <4>1
    <3>2. CASE q \in created /\ p \in Open
      BY <2>3, <3>2 DEF CallInv, OneOpen
    <3>3. CASE q \in created /\ p \in next
      <4>1. PICK r \in ps \ finished : p = <<r[1], r[2] + 1>>
        BY <1>3, <3>3
      <4>2. r \in Open /\ r[2] \in Nat /\ q[2] \in Nat
        BY <3>3 DEF CallInv, Open, Counted
      <4>3. q[2] <= r[2]
        BY <2>3, <3>3, <4>1, <4>2 DEF CallInv, OneOpen
      <4> QED BY <4>1, <4>2, <4>3
    <3> QED BY <1>1, <1>10, <3>1, <3>2, <3>3
  <2>4. ASSUME NEW c \in asked, answers'[c] = 0 PROVE \E p \in Open' : p[1] = c
    <3>1. c \in Calls /\ c \notin done /\ answers[c] = 0
      BY <1>7, <2>4 DEF CallInv
    <3>2. PICK p \in Open : p[1] = c
      BY <3>1 DEF CallInv, OneOpen
    <3>3. CASE p \in ps
      <4>1. p \in ps \ finished /\ p[2] \in 1 .. Candidates[p[1]] /\ Candidates[c] \in Nat
        BY <3>1, <3>3 DEF CallInv, Open, Counted
      <4>2. p[2] < Candidates[p[1]] /\ p \notin good
        BY <3>1, <3>2, <4>1 DEF done, Adapter!Ending
      <4>3. <<p[1], p[2] + 1>> \in next
        BY <4>1, <4>2 DEF next, Adapter!Following
      <4> QED BY <1>10, <3>2, <4>3
    <3>4. CASE p \notin ps
      BY <1>10, <3>2, <3>4
    <3> QED BY <3>3, <3>4
  <2> QED BY <2>1, <2>2, <2>3, <2>4 DEF OneOpen
<1>12. CallInv'
  <2>1. active' = Open'
    BY <1>1, <1>10 DEF CallInv, Open
  <2>2. \A p \in created' :
           p[1] \in asked' /\ p[2] \in 1 .. Candidates[p[1]] /\ p = <<p[1], p[2]>>
    BY <1>1, <1>8 DEF CallInv
  <2>3. \A c \in Calls \ asked' : answers'[c] = 0
    BY <1>5, <1>7 DEF CallInv
  <2>4. finished' \subseteq created'
    BY <1>1 DEF CallInv
  <2> QED BY <1>7, <1>11, <2>1, <2>2, <2>3, <2>4 DEF CallInv
<1>13. CASE done = {}
  <2>1. answers' = answers
    BY <1>6, <1>13 DEF CallInv
  <2> QED BY <1>12, <2>1
<1>14. CASE done # {}
  <2>1. Call!Answer(done)
    BY <1>5, <1>6, <1>14 DEF Call!Answer
  <2>2. done \in SUBSET Calls
    BY <1>5
  <2> QED BY <1>12, <2>1, <2>2 DEF Call!Next
<1> QED BY <1>13, <1>14

(* A call runs its first candidate, or is answered when it has none. *)
LEMMA CallAsked ==
  ASSUME Counted, CallInv, NEW c \in Calls, Adapter!Ask(c)
  PROVE  CallInv' /\ Call!Next
<1>1. c \notin asked /\ asked' = asked \cup {c} /\ answers[c] = 0
  BY DEF Adapter!Ask, CallInv
<1>2. CASE Candidates[c] = 0
  <2>1. answers' = [answers EXCEPT ![c] = 1] /\ UNCHANGED <<created, active, finished>>
    BY <1>1, <1>2 DEF Adapter!Ask, CallInv
  <2>2. \A p \in created : p[1] # c
    BY <1>1 DEF CallInv
  <2>3. CallInv'
    BY <1>1, <2>1, <2>2 DEF CallInv, OneOpen, Open
  <2>4. Call!AskAndAnswer(c)
    BY <1>1, <2>1 DEF Call!AskAndAnswer
  <2> QED BY <2>3, <2>4 DEF Call!Next
<1>3. CASE Candidates[c] # 0
  <2>1. /\ created' = created \cup {<<c, 1>>} /\ active' = active \cup {<<c, 1>>}
        /\ UNCHANGED <<answers, finished>>
    BY <1>3 DEF Adapter!Ask, Adapter!RunCommand
  <2>2. \A p \in created : p[1] # c
    BY <1>1 DEF CallInv
  <2> DEFINE new == <<c, 1>>
  <2>3. new[1] = c /\ new[2] = 1 /\ new = <<new[1], new[2]>> /\ 1 \in 1 .. Candidates[c]
    BY <1>3 DEF Counted
  <2> HIDE DEF new
  <2>4. new \notin created /\ new \notin finished
    BY <2>2, <2>3 DEF CallInv
  <2>5. Open' = Open \cup {new} /\ created' = created \cup {new} /\ active' = active \cup {new}
    BY <2>1, <2>4 DEF Open, new
  <2>6. OneOpen'
    <3>1. \A p, q \in Open' : p[1] = q[1] => p = q
      BY <2>2, <2>3, <2>5 DEF CallInv, OneOpen, Open
    <3>2. \A p \in Open' : answers'[p[1]] = 0
      BY <1>1, <2>1, <2>3, <2>5 DEF CallInv, OneOpen
    <3>3. \A p \in Open', q \in created' : q[1] = p[1] => q[2] <= p[2]
      BY <2>2, <2>3, <2>5 DEF CallInv, OneOpen, Open
    <3>4. \A d \in asked' : answers'[d] = 0 => \E p \in Open' : p[1] = d
      BY <1>1, <2>1, <2>3, <2>5 DEF CallInv, OneOpen
    <3> QED BY <3>1, <3>2, <3>3, <3>4 DEF OneOpen
  <2>7. CallInv'
    BY <1>1, <2>1, <2>6, <2>3, <2>5 DEF CallInv
  <2>8. Call!Ask(c)
    BY <1>1, <2>1 DEF Call!Ask
  <2> QED BY <2>7, <2>8 DEF Call!Next
<1> QED BY <1>2, <1>3

LEMMA CallStep ==
  ASSUME Counted, CallInv, [Adapter!Next]_Adapter!vars
  PROVE  CallInv' /\ [Call!Next]_<<asked, answers>>
<1>1. CASE UNCHANGED Adapter!vars
  BY <1>1 DEF Adapter!vars, CallInv, OneOpen, Open
<1>2. ASSUME NEW c \in Calls, Adapter!Ask(c) PROVE CallInv' /\ [Call!Next]_<<asked, answers>>
  BY <1>2, CallAsked
<1>3. ASSUME NEW p \in created, Adapter!Launch(p) \/ Adapter!Started(p)
      PROVE  CallInv' /\ [Call!Next]_<<asked, answers>>
  BY <1>3 DEF Adapter!Launch, Adapter!Started, CallInv, OneOpen, Open
<1>4. ASSUME NEW p \in created, Adapter!Exited(p)
      PROVE  CallInv' /\ [Call!Next]_<<asked, answers>>
  <2>1. PICK good \in SUBSET {p} : Adapter!Finish({p}, good, [process EXCEPT ![p] = "exited"])
    BY <1>4 DEF Adapter!Exited
  <2> QED BY <1>4, <2>1, CallFinish DEF Adapter!Exited
<1>5. ASSUME NEW p \in created, Adapter!RunWatchdog(p)
      PROVE  CallInv' /\ [Call!Next]_<<asked, answers>>
  BY <1>5, CallFinish DEF Adapter!RunWatchdog
<1>6. ASSUME NEW ps \in SUBSET Adapter!Unstarted, Adapter!Reap(ps)
      PROVE  CallInv' /\ [Call!Next]_<<asked, answers>>
  <2>1. ps \subseteq created
    BY DEF Adapter!Unstarted, CallInv, Open
  <2> QED BY <1>6, <2>1, CallFinish DEF Adapter!Reap
<1> QED BY <1>1, <1>2, <1>3, <1>4, <1>5, <1>6 DEF Adapter!Next

(* Every behaviour of the command runner is one of AdapterCall, fairness   *)
(* apart: a callback never runs twice, whatever its commands, watchdogs    *)
(* and late exits do (CommandProcess.finish and the fallback chains).      *)
THEOREM AnswersAtMostOnce ==
  ASSUME Counted
  PROVE  Adapter!Spec => Call!Init /\ [][Call!Next]_<<asked, answers>>
<1>1. Adapter!Init => CallInv /\ Call!Init
  BY CallInit
<1>2. CallInv /\ [Adapter!Next]_Adapter!vars => CallInv' /\ [Call!Next]_<<asked, answers>>
  BY CallStep
<1> QED BY <1>1, <1>2, PTL DEF Adapter!Spec

(* The candidates of a call run one after the other: one to wait for until *)
(* it is answered, none afterwards (runCommand, the run*Fallback chains).  *)
THEOREM CandidatesTakeTurns ==
  ASSUME Counted
  PROVE  Adapter!Spec => []Adapter!OneToWaitFor
<1>1. Adapter!Init => CallInv
  BY CallInit
<1>2. CallInv /\ [Adapter!Next]_Adapter!vars => CallInv'
  BY CallStep
<1>3. ASSUME CallInv PROVE Adapter!OneToWaitFor
  <2> SUFFICES ASSUME NEW c \in Calls
               PROVE  Cardinality({p \in active : p[1] = c}) =
                      IF c \in asked /\ answers[c] = 0 THEN 1 ELSE 0
    <3>1. \A S : Adapter!Cardinality(S) = Cardinality(S)
      BY DEF Adapter!Cardinality, Cardinality
    <3> QED BY <3>1 DEF Adapter!OneToWaitFor
  <2>1. CASE c \in asked /\ answers[c] = 0
    <3>1. PICK p \in Open : p[1] = c
      BY <1>3, <2>1 DEF CallInv, OneOpen
    <3>2. {q \in active : q[1] = c} = {p}
      BY <1>3, <3>1 DEF CallInv, OneOpen
    <3> QED BY <2>1, <3>2, FS_Singleton
  <2>2. CASE ~(c \in asked /\ answers[c] = 0)
    <3>1. {q \in active : q[1] = c} = {}
      BY <1>3, <2>2 DEF CallInv, OneOpen, Open
    <3> QED BY <2>2, <3>1, FS_EmptySet
  <2> QED BY <2>1, <2>2
<1> QED BY <1>1, <1>2, <1>3, PTL DEF Adapter!Spec
=============================================================================
