---------------------------------- MODULE Gpu ----------------------------------
(***************************************************************************)
(* caelestia::services::Gpu: which GPU there is is found out by a chain of *)
(* programs, each asked when the one before had no answer; a change of the *)
(* setting starts a new chain while programs of the old one still run.     *)
(* Meanwhile the timer samples the usage, for NVIDIA by a program as well. *)
(* A sample is the type of GPU it was taken of; what is parsed from the    *)
(* output of a program is that it had an answer.                           *)
(***************************************************************************)
EXTENDS Integers

CONSTANT MaxChanges \* bound: changes of the setting

Types == {"None", "Generic", "Nvidia"}
Nvidia == 0         \* k_nvidiaSource
FirstGeneric == 1   \* k_firstGenericSource
Sources == 0 .. 2   \* nvidia-smi, glxinfo, lspci
Nothing == -1       \* an empty name, no usage and no sample

VARIABLES busyFiles, \* whether m_busyFiles has any
          userType, type, name,  \* name: the source that told it, and in which chain
          detecting,
          generation,
          probes,    \* programs of the chains that run: <<generation, source>>
          sample,    \* generation of the sample on its way, m_nvidiaQuerying without it
          usage,     \* m_percentage and m_temperature
          running,   \* the timer of TickingService
          moved      \* history: a chain found no NVIDIA GPU while a sample was on its way
vars == <<busyFiles, userType, type, name, detecting, generation, probes, sample, usage, running, moved>>

----------------------------------------------------------------------------
(* setType *)
SetType(t) ==
    /\ type' = t
    /\ usage' = IF t = "None" /\ t # type THEN "None" ELSE usage

(* resolveGpu for a setting, and tryNameSource: older chains are superseded. *)
ResolveGpu(u) ==
    /\ generation' = generation + 1
    /\ IF u # "Auto" THEN SetType(u) ELSE UNCHANGED <<type, usage>>
    /\ name' = <<Nothing, 0>>
    /\ detecting' = (u # "None")
    /\ probes' = IF u = "None" THEN probes
                 ELSE probes \cup {<<generation', IF u = "Generic" THEN FirstGeneric ELSE Nvidia>>}

Init ==
    /\ busyFiles \in BOOLEAN
    /\ userType \in Types \cup {"Auto"}
    /\ type = IF userType = "Auto" THEN "None" ELSE userType
    /\ name = <<Nothing, 0>> /\ detecting = (userType # "None")
    /\ generation = 1
    /\ probes = IF userType = "None" THEN {}
                ELSE {<<1, IF userType = "Generic" THEN FirstGeneric ELSE Nvidia>>}
    /\ sample = Nothing /\ usage = "None" /\ running = FALSE /\ moved = FALSE

(* gpuTypeChanged *)
SetUserType(u) ==
    /\ generation <= MaxChanges /\ u # userType
    /\ userType' = u
    /\ ResolveGpu(u)
    /\ UNCHANGED <<busyFiles, sample, running, moved>>

ProbeEnd == IF userType = "Nvidia" THEN FirstGeneric ELSE 3

(* finishNameSource of the current chain.  Under Auto the first program    *)
(* tells the type as well.                                                 *)
Found(index, answers) ==
    LET typed == userType = "Auto" /\ index = Nvidia
        found == IF answers THEN "Nvidia" ELSE IF busyFiles THEN "Generic" ELSE "None"
        ends  == answers \/ (typed /\ found = "None") \/ index + 1 >= ProbeEnd
    IN  /\ IF typed THEN SetType(found) ELSE UNCHANGED <<type, usage>>
        /\ moved' = (moved \/ (typed /\ found # "Nvidia" /\ sample = generation))
        /\ name' = IF answers THEN <<index, generation>>
                   ELSE IF ends THEN <<Nothing, 0>> ELSE name
        /\ detecting' = ~ends

(* Mutant: the answer of an older chain counts as well. *)
ProbeAnswersAny(p, answers) ==
    /\ Found(p[2], answers)
    /\ probes' = (probes \ {p}) \cup IF detecting' THEN {<<generation, p[2] + 1>>} ELSE {}
    /\ UNCHANGED <<busyFiles, userType, generation, sample, running>>

(* A program of a chain ends, with an answer or with nothing. *)
ProbeAnswers(p, answers) ==
    /\ IF p[1] = generation
       THEN /\ Found(p[2], answers)
            /\ probes' = (probes \ {p}) \cup IF detecting' THEN {<<generation, p[2] + 1>>} ELSE {}
       ELSE /\ probes' = probes \ {p}
            /\ UNCHANGED <<type, name, detecting, usage, moved>>
    /\ UNCHANGED <<busyFiles, userType, generation, sample, running>>

(* tick, for NVIDIA startNvidiaUsage *)
Sample ==
    /\ IF type = "Nvidia"
       THEN sample' = (IF sample = Nothing THEN generation ELSE sample) /\ UNCHANGED usage
       ELSE usage' = type /\ UNCHANGED sample
    /\ moved' = (moved /\ (type # "None" \/ sample # Nothing))
    /\ UNCHANGED <<busyFiles, userType, type, name, detecting, generation, probes>>

Start == ~running /\ running' = TRUE /\ Sample
Tick == running /\ UNCHANGED running /\ Sample
Stop ==
    /\ running /\ running' = FALSE
    /\ UNCHANGED <<busyFiles, userType, type, name, detecting, generation, probes, sample, usage, moved>>

(* The program of a sample ends; a sample of an older chain is dropped. *)
SampleAnswers(answers) ==
    /\ sample # Nothing /\ sample' = Nothing
    /\ usage' = IF answers /\ sample = generation THEN "Nvidia" ELSE usage
    /\ UNCHANGED <<busyFiles, userType, type, name, detecting, generation, probes, running, moved>>

Next ==
    \/ \E u \in Types \cup {"Auto"} : SetUserType(u)
    \/ \E p \in probes, answers \in BOOLEAN : ProbeAnswers(p, answers)
    \/ Start \/ Tick \/ Stop
    \/ \E answers \in BOOLEAN : SampleAnswers(answers)

Spec == Init /\ [][Next]_vars

----------------------------------------------------------------------------
(* However the settings, the programs and the samples overlap: detecting   *)
(* is true exactly while one program of the current chain runs, so it ends;*)
(* the name is what the current chain found and agrees with the type and   *)
(* the setting; and without a GPU no usage is shown.  Only a sample that   *)
(* was taken before the chain found no NVIDIA GPU may show one, until the  *)
(* next tick: resolveGpu alone makes samples stale.                        *)
GpuIsResolved ==
    /\ \E ps \in {{p \in probes : p[1] = generation}} :
          IF detecting THEN \E p \in ps : ps = {p} ELSE ps = {}
    /\ name[1] # Nothing => name[2] = generation /\ (name[1] = Nvidia => type = "Nvidia")
    /\ userType # "Auto" => type = userType
    /\ type = "None" /\ ~moved => usage = "None"
=============================================================================
