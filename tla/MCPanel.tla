------------------------------ MODULE MCPanel ------------------------------
(***************************************************************************)
(* What the panels of the shell are told, one component of which runs: one *)
(* card of the services panel with every command, two cards that cannot be *)
(* stopped and so never need the shared timer, the adapter that runs the   *)
(* commands of a card, and the monitors of the GPU, the disks, the network,*)
(* the compositor and the calculator.                                      *)
(***************************************************************************)
EXTENDS MCServiceOrchestrator, FiniteSets

CONSTANTS Pair, PairCan, GpuChanges, HyprOptions, HyprValues, Addresses,
          HyprChanges, Expressions, Evaluations, Volumes, Slaves, DiskOf,
          PoolOf, DiskRank, MaxScans, DiskChanges, Interfaces, MaxBytes,
          NetChanges

\* The cards of the second panel cannot be stopped.
ASSUME PairAssumption ==
    NoEntry \notin Pair /\ PairCan \in [Pair -> SUBSET (Commands \ {"stop"})]

\* A reply of the compositor holds finitely many keyboards.
ASSUME AddressesAssumption == IsFiniteSet(Addresses)

\* There are finitely many interfaces and volumes; a volume has sizes, and
\* disks are told apart by their names.
ASSUME InterfacesAssumption == IsFiniteSet(Interfaces)
ASSUME VolumesAssumption ==
    /\ IsFiniteSet(Volumes)
    /\ \A v \in Volumes : v.used \in Nat /\ v.total \in Nat /\ v.root \in BOOLEAN
    /\ \A v \in Volumes : v.device \in DOMAIN PoolOf => PoolOf[v.device] \in DOMAIN DiskRank
    /\ IsFiniteSet(DOMAIN DiskRank) /\ DiskRank \in [DOMAIN DiskRank -> Nat]
    /\ \A d, e \in DOMAIN DiskRank : DiskRank[d] = DiskRank[e] => d = e

\* The settings of a compositor that does not run.
FirstSettings == {[o \in HyprOptions |-> CHOOSE v \in HyprValues : TRUE]}

\* A volume on an encrypted array of two disks, one on a partition of one of
\* them, and two datasets of a pool.
SomeVolumes ==
    {[device |-> "luks", total |-> 4, used |-> 1, root |-> TRUE],
     [device |-> "sdb1", total |-> 8, used |-> 1, root |-> FALSE],
     [device |-> "tank/a", total |-> 4, used |-> 2, root |-> FALSE],
     [device |-> "tank/b", total |-> 4, used |-> 3, root |-> FALSE]}
SomeSlaves == "luks" :> {"md0"} @@ "md0" :> {"sda1", "sdb"}
SomeDisks  == "sda1" :> "sda" @@ "sdb1" :> "sdb"
SomePools  == "tank/a" :> "tank" @@ "tank/b" :> "tank"
NamesOrder == "sda" :> 1 @@ "sdb" :> 2 @@ "tank" :> 3

VARIABLE part   \* the component that runs

VARIABLES twoState, twoBusy, twoAction, twoDropped, twoProbe, twoStale,
          twoLater, twoVisible, twoTimerOn, twoTarget, twoRetries, twoAfter,
          twoCurrent
twoVars == <<twoState, twoBusy, twoAction, twoDropped, twoProbe, twoStale,
           twoLater, twoVisible, twoTimerOn, twoTarget, twoRetries, twoAfter,
           twoCurrent>>
C == INSTANCE ServiceOrchestrator WITH
    state <- twoState, busy <- twoBusy, action <- twoAction,
    dropped <- twoDropped, probe <- twoProbe, stale <- twoStale,
    later <- twoLater, visible <- twoVisible, timerOn <- twoTimerOn,
    target <- twoTarget, retries <- twoRetries, after <- twoAfter,
    current <- twoCurrent, Entries <- Pair, Can <- PairCan

VARIABLES runAsked, runAnswers, runCreated, runActive, runFinished, runProcess
runVars == <<runAsked, runAnswers, runCreated, runActive, runFinished,
           runProcess>>
Runner == INSTANCE CommandRunner WITH
    asked <- runAsked, answers <- runAnswers, created <- runCreated,
    active <- runActive, finished <- runFinished, process <- runProcess,
    Calls <- {"docker", "systemd", "none"},
    Candidates <- "docker" :> 2 @@ "systemd" :> 1 @@ "none" :> 0

VARIABLES gpuBusyFiles, gpuUserType, gpuType, gpuName, gpuDetecting,
          gpuGeneration, gpuProbes, gpuSample, gpuUsage, gpuRunning, gpuMoved
gpuVars == <<gpuBusyFiles, gpuUserType, gpuType, gpuName, gpuDetecting,
           gpuGeneration, gpuProbes, gpuSample, gpuUsage, gpuRunning, gpuMoved>>
Graphics == INSTANCE Gpu WITH
    busyFiles <- gpuBusyFiles, userType <- gpuUserType, type <- gpuType,
    name <- gpuName, detecting <- gpuDetecting, generation <- gpuGeneration,
    probes <- gpuProbes, sample <- gpuSample, usage <- gpuUsage,
    running <- gpuRunning, moved <- gpuMoved, MaxChanges <- GpuChanges

VARIABLES diskMounted, diskJob, diskDisks, diskManual, diskDying, diskMade,
          diskChanges, diskSeenDisks, diskSeenPrimary, diskSeenPercentage,
          diskOverlooked
diskVars == <<diskMounted, diskJob, diskDisks, diskManual, diskDying, diskMade,
           diskChanges, diskSeenDisks, diskSeenPrimary, diskSeenPercentage,
           diskOverlooked>>
Disks == INSTANCE Storage WITH
    mounted <- diskMounted, job <- diskJob, disks <- diskDisks,
    manual <- diskManual, dying <- diskDying, made <- diskMade,
    changes <- diskChanges, seenDisks <- diskSeenDisks,
    seenPrimary <- diskSeenPrimary, seenPercentage <- diskSeenPercentage,
    overlooked <- diskOverlooked, Volumes <- Volumes, Slaves <- Slaves,
    DiskOf <- DiskOf, PoolOf <- PoolOf, Rank <- DiskRank, Nothing <- NoEntry,
    MaxObjects <- MaxScans, MaxChanges <- DiskChanges

VARIABLES netCounter, netInitialized, netPrev, netTotal, netRefs, netChanges,
          netCarried, netAtTick, netGone, netShown
netVars == <<netCounter, netInitialized, netPrev, netTotal, netRefs,
           netChanges, netCarried, netAtTick, netGone, netShown>>
Traffic == INSTANCE NetworkUsage WITH
    counter <- netCounter, initialized <- netInitialized, prev <- netPrev,
    total <- netTotal, refs <- netRefs, changes <- netChanges,
    carried <- netCarried, atTick <- netAtTick, gone <- netGone,
    shown <- netShown, Interfaces <- Interfaces, MaxBytes <- MaxBytes,
    MaxChanges <- NetChanges

VARIABLES hyprSetting, hyprPlugged, hyprOptions, hyprKeyboards, hyprRefresh,
          hyprApplying, hyprEvents, hyprChanges, hyprLost, hyprTold
hyprVars == <<hyprSetting, hyprPlugged, hyprOptions, hyprKeyboards,
           hyprRefresh, hyprApplying, hyprEvents, hyprChanges, hyprLost,
           hyprTold>>
Hypr == INSTANCE HyprExtras WITH
    setting <- hyprSetting, plugged <- hyprPlugged, options <- hyprOptions,
    keyboards <- hyprKeyboards, refresh <- hyprRefresh,
    applying <- hyprApplying, events <- hyprEvents, changes <- hyprChanges,
    lost <- hyprLost, told <- hyprTold, Options <- HyprOptions,
    Values <- HyprValues, Addresses <- Addresses, MaxChanges <- HyprChanges

VARIABLES calcGeneration, calcResult, calcBusy, calcJobs, calcAsked, calcSeen
calcVars == <<calcGeneration, calcResult, calcBusy, calcJobs, calcAsked,
           calcSeen>>
Calculator == INSTANCE Qalculator WITH
    generation <- calcGeneration, result <- calcResult, busy <- calcBusy,
    jobs <- calcJobs, asked <- calcAsked, seen <- calcSeen,
    Expressions <- Expressions, MaxEvaluations <- Evaluations

----------------------------------------------------------------------------
\* Components that do not run are in one of their initial states.
PanelInit ==
    /\ part \in {"card", "cards", "runner", "gpu", "disks", "network",
                 "compositor", "calculator"}
    /\ Init
    /\ C!Init
    /\ Runner!Init
    /\ Graphics!Init
    /\ part = "gpu" \/ (gpuBusyFiles /\ gpuUserType = "Auto")
    /\ Disks!Init
    /\ part = "disks" \/ (diskMounted = Volumes)
    /\ Traffic!Init
    /\ part = "network" \/ (netCounter = <<>>)
    /\ Hypr!Init
    /\ part = "compositor" \/ (hyprPlugged = <<>> /\ hyprSetting \in FirstSettings)
    /\ Calculator!Init

PanelNext ==
    \/ part = "card" /\ Next /\ UNCHANGED <<part, twoVars, runVars, gpuVars,
         diskVars, netVars, hyprVars, calcVars>>
    \/ part = "cards" /\ C!Next /\ UNCHANGED <<part, vars, runVars, gpuVars,
         diskVars, netVars, hyprVars, calcVars>>
    \/ part = "runner" /\ Runner!Next /\ UNCHANGED <<part, vars, twoVars,
         gpuVars, diskVars, netVars, hyprVars, calcVars>>
    \/ part = "gpu" /\ Graphics!Next /\ UNCHANGED <<part, vars, twoVars,
         runVars, diskVars, netVars, hyprVars, calcVars>>
    \/ part = "disks" /\ Disks!Next /\ UNCHANGED <<part, vars, twoVars,
         runVars, gpuVars, netVars, hyprVars, calcVars>>
    \/ part = "network" /\ Traffic!Next /\ UNCHANGED <<part, vars, twoVars,
         runVars, gpuVars, diskVars, hyprVars, calcVars>>
    \/ part = "compositor" /\ Hypr!Next /\ UNCHANGED <<part, vars, twoVars,
         runVars, gpuVars, diskVars, netVars, calcVars>>
    \/ part = "calculator" /\ Calculator!Next /\ UNCHANGED <<part, vars,
         twoVars, runVars, gpuVars, diskVars, netVars, hyprVars>>

panelVars == <<part, vars, twoVars, runVars, gpuVars, diskVars, netVars,
           hyprVars, calcVars>>
PanelSpec == PanelInit /\ [][PanelNext]_panelVars

(* The fairness of the component that runs. *)
PanelFairSpec ==
    /\ PanelSpec
    /\ \A e \in Entries : /\ WF_vars(part = "card" /\ ActionDone(e))
                         /\ WF_vars(part = "card" /\ Answered(e))
    /\ WF_vars(part = "card" /\ RunLater) /\ WF_vars(part = "card" /\ TimerFires)
    /\ \A c \in {"docker", "systemd"} :
          /\ WF_runVars(part = "runner" /\ Runner!ReapOne(c))
          /\ WF_runVars(part = "runner" /\ Runner!StopOne(c))
----------------------------------------------------------------------------
\* Whatever a volume is resolved to is the name of a disk.
ASSUME DisksAssumption == \A v \in Volumes : Disks!Disks(v.device) \subseteq DOMAIN DiskRank

(* OneCommand of ServiceOrchestrator: no card has two commands running. *)
CardsRunOneCommand == C!OneCommand

(* CallsAreAnsweredOnce of CommandRunner: it implements AdapterCall. *)
AdaptersAnswerOnce == Runner!CallsAreAnsweredOnce

(* Storage and NetworkUsage: what the monitors show is of the disks that   *)
(* are mounted and of the bytes that went through.                         *)
MonitorsAreRight ==
    /\ part = "disks" => Disks!DisksAreTrue
    /\ part = "network" => Traffic!TotalIsCarried

(* Gpu, HyprExtras and Qalculator: however programs, replies and threads   *)
(* overtake each other, the GPU shown is the one that was resolved, at     *)
(* rest the options and keyboards are the compositor's, and the result is  *)
(* that of the last expression.                                            *)
AnswersAreCurrent ==
    /\ part = "gpu" => Graphics!GpuIsResolved
    /\ part = "compositor" => Hypr!CopyIsCurrent
    /\ part = "calculator" => Calculator!ResultIsOfTheLast
============================================================================
