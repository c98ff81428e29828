----------------------------- MODULE CavaProvider ------------------------------
(***************************************************************************)
(* caelestia::services::CavaProvider and CavaProcessor: the bars of the    *)
(* visualiser.  The provider lives in the event loop, the processor in a   *)
(* thread of its own; the number of bars goes one way through a queue, the *)
(* values of the bars come back through another.                           *)
(***************************************************************************)
EXTENDS Integers, Sequences, FiniteSets, FiniteSetsExt

CONSTANTS MaxBars,
          Levels,     \* what cavacore puts out for a bar; multiples of 3 ^ (MaxBars - 1)
          MaxChanges, \* bound: changes of the number of bars
          MaxOutputs  \* bound: values that changed

VARIABLES bars, values,    \* of the provider
          toProcessor, toProvider, \* the queues: bars, and <<values, calls of setBars before>>
          pBars, pValues,  \* of the processor
          asked, pAsked,   \* history: calls of setBars that changed the bars, and those that arrived
          outputs,
          out,             \* history: what cavacore last put out
          fresh            \* history: values came since the last call
vars == <<bars, values, toProcessor, toProvider, pBars, pValues, asked, pAsked, outputs, out, fresh>>

----------------------------------------------------------------------------
(* The monstercat filter of process: a pass from the left and one from the *)
(* right, both carrying two thirds on.                                     *)
Maxi(a, b) == IF a > b THEN a ELSE b
Carried(c) == (c * 2) \div 3

FromLeft(o) ==
    LET f[i \in 0 .. Len(o)] == IF i = 0 THEN 0 ELSE Maxi(o[i], Carried(f[i - 1]))
    IN  [i \in 1 .. Len(o) |-> f[i]]

FromRight(o) ==
    LET f[i \in 1 .. Len(o) + 1] == IF i = Len(o) + 1 THEN 0 ELSE Maxi(o[i], Carried(f[i + 1]))
    IN  [i \in 1 .. Len(o) |-> f[i]]

(* Mutant: the pass from the right is forgotten. *)
SmoothedFromLeft(o) == FromLeft(o)

Smoothed(o) == [i \in 1 .. Len(o) |-> Maxi(FromLeft(o)[i], FromRight(o)[i])]

(* What the filter is for: a bar is as high as the highest of all bars     *)
(* after it fell off by a third for every bar in between.                  *)
FallOff[n \in Nat] == [level \in Nat |-> IF n = 0 THEN level ELSE Carried(FallOff[n - 1][level])]
Distance(i, j) == IF i > j THEN i - j ELSE j - i
Spectrum(o) == [i \in 1 .. Len(o) |-> Max({FallOff[Distance(i, j)][o[j]] : j \in 1 .. Len(o)})]

----------------------------------------------------------------------------
Init ==
    /\ bars = 0 /\ values = <<>> /\ toProcessor = <<>> /\ toProvider = <<>>
    /\ pBars = 0 /\ pValues = <<>>
    /\ asked = 0 /\ pAsked = 0 /\ outputs = 0 /\ out = <<>> /\ fresh = FALSE

(* CavaProvider::setBars: the values are cut or filled up at once. *)
SetBars(n) ==
    /\ asked < MaxChanges /\ n # bars
    /\ bars' = n /\ asked' = asked + 1 /\ fresh' = FALSE
    /\ values' = [i \in 1 .. n |-> IF i <= Len(values) THEN values[i] ELSE 0]
    /\ toProcessor' = Append(toProcessor, n)
    /\ UNCHANGED <<toProvider, pBars, pValues, pAsked, outputs, out>>

(* CavaProcessor::setBars, with reload when it changes. *)
ProcessorSetBars ==
    /\ toProcessor # <<>> /\ toProcessor' = Tail(toProcessor)
    /\ pBars' = Head(toProcessor) /\ pAsked' = pAsked + 1
    /\ UNCHANGED <<bars, values, toProvider, pValues, asked, outputs, out, fresh>>

(* process, called by the timer; values that are as before are not sent. *)
Process(o) ==
    /\ pBars # 0 /\ outputs < MaxOutputs
    /\ out' = o
    /\ IF Smoothed(o) # pValues
       THEN /\ pValues' = Smoothed(o) /\ outputs' = outputs + 1
            /\ toProvider' = Append(toProvider, <<Smoothed(o), pAsked>>)
       ELSE UNCHANGED <<pValues, outputs, toProvider>>
    /\ UNCHANGED <<bars, values, toProcessor, pBars, asked, pAsked, fresh>>

UpdateValues ==
    /\ toProvider # <<>> /\ toProvider' = Tail(toProvider)
    /\ values' = Head(toProvider)[1]
    /\ fresh' = (fresh \/ Head(toProvider)[2] = asked)
    /\ UNCHANGED <<bars, toProcessor, pBars, pValues, asked, pAsked, outputs, out>>

Next ==
    \/ \E n \in 0 .. MaxBars : SetBars(n)
    \/ ProcessorSetBars \/ UpdateValues
    \/ \E o \in [1 .. pBars -> Levels] : Process(o)

Spec == Init /\ [][Next]_vars

----------------------------------------------------------------------------
(* The values QML shows are those of a spectrum with as many bars as it    *)
(* asked for, once both queues are empty and values came since it asked.   *)
(* Until then there may be more or fewer: values of before are still on    *)
(* their way when setBars has cut the list; and none come when there are   *)
(* no bars any more or the values are as they were before.                 *)
BarsAreTheSpectrum ==
    /\ toProvider = <<>> /\ fresh => /\ Len(values) = bars /\ values = pValues
                                     /\ toProcessor = <<>> => bars = pBars
    /\ pBars # 0 /\ Len(out) = pBars => Smoothed(out) = Spectrum(out)
=============================================================================
