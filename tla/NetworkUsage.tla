----------------------------- MODULE NetworkUsage ------------------------------
(***************************************************************************)
(* caelestia::services::NetworkUsage on its TickingService: the bytes that *)
(* went through the network, from the counters the kernel keeps for each   *)
(* interface.  Interfaces come with a counter of zero and go with theirs;  *)
(* the ticks stop while nothing on the screen shows the usage.  The speeds *)
(* and their history are left out.                                         *)
(***************************************************************************)
EXTENDS Integers, Sums

CONSTANTS Interfaces,
          MaxBytes,   \* bound: what a counter reaches
          MaxChanges  \* bound: interfaces that come and go

VARIABLES counter,     \* interface |-> bytes, of those there are
          initialized, prev, total, \* m_initialized, m_prevRx, m_downloadTotal
          refs,        \* whether something shows it: the timer runs
          changes,
          carried,     \* history: bytes that went through since the first tick
          atTick,      \* history: carried when it was last counted
          gone,        \* history: an interface that had carried bytes left since the first tick
          shown        \* history: total as QML last read it
vars == <<counter, initialized, prev, total, refs, changes, carried, atTick, gone, shown>>

Init ==
    /\ counter \in UNION {[I -> 0 .. 1] : I \in SUBSET Interfaces}
    /\ initialized = FALSE /\ prev = 0 /\ total = 0 /\ refs = FALSE
    /\ changes = 0 /\ carried = 0 /\ atTick = 0 /\ gone = FALSE /\ shown = 0

(* Mutant: counters that went back count as if they had begun again. *)
DeltaFromZero(now) == IF now >= prev THEN now - prev ELSE now

(* What a counter grew by, nothing when it went back. *)
Delta(now) == IF now >= prev THEN now - prev ELSE 0

(* tick; nothing happens when /proc/net/dev cannot be opened. *)
Tick(opened) ==
    IF ~opened THEN UNCHANGED <<initialized, prev, total, carried, atTick, gone, shown>>
    ELSE /\ initialized' = TRUE /\ prev' = SumOf(counter)
         /\ IF initialized
            THEN /\ total' = total + Delta(SumOf(counter)) /\ shown' = total'
                 /\ atTick' = carried /\ UNCHANGED <<carried, gone>>
            ELSE UNCHANGED <<total, shown>> /\ carried' = 0 /\ atTick' = 0 /\ gone' = FALSE

Unmoved == UNCHANGED <<counter, changes>>

(* TickingService: start ticks at once, then the timer does. *)
Start(opened) == ~refs /\ refs' = TRUE /\ Tick(opened) /\ Unmoved
Timer(opened) == refs /\ UNCHANGED refs /\ Tick(opened) /\ Unmoved
Stop ==
    /\ refs /\ refs' = FALSE /\ Unmoved
    /\ UNCHANGED <<initialized, prev, total, carried, atTick, gone, shown>>

Kernel == UNCHANGED <<initialized, prev, total, refs, atTick, shown>>

Traffic(i) ==
    /\ counter[i] < MaxBytes
    /\ counter' = [counter EXCEPT ![i] = @ + 1] /\ carried' = carried + 1
    /\ UNCHANGED <<changes, gone>> /\ Kernel

Comes(i) ==
    /\ changes < MaxChanges /\ changes' = changes + 1
    /\ counter' = [j \in DOMAIN counter \cup {i} |-> IF j = i THEN 0 ELSE counter[j]]
    /\ UNCHANGED <<carried, gone>> /\ Kernel

Leaves(i) ==
    /\ changes < MaxChanges /\ changes' = changes + 1
    /\ counter' = [j \in DOMAIN counter \ {i} |-> counter[j]]
    /\ gone' = (gone \/ counter[i] > 0)
    /\ UNCHANGED carried /\ Kernel

Next ==
    \/ \E opened \in BOOLEAN : Start(opened) \/ Timer(opened)
    \/ Stop
    \/ \E i \in DOMAIN counter : Traffic(i) \/ Leaves(i)
    \/ \E i \in Interfaces \ DOMAIN counter : Comes(i)

Spec == Init /\ [][Next]_vars

----------------------------------------------------------------------------
(* The total never tells more bytes than went through, whichever           *)
(* interfaces come and go and however long nothing ticked; and it tells    *)
(* all of them as long as no interface left that had carried any: what its *)
(* counter takes away hides as much of the traffic of the others.          *)
TotalIsCarried ==
    /\ total <= atTick
    /\ ~gone => total = atTick
    /\ shown = total
=============================================================================
