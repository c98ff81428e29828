---------------------------- MODULE AudioCollector ----------------------------
(***************************************************************************)
(* caelestia::services::AudioCollector and its PipeWireWorker.  The        *)
(* real-time thread of PipeWire stores samples, the loop thread clears     *)
(* them when the stream pauses, processors read the latest ones, and the   *)
(* GUI thread starts and joins the loop thread.  The real-time thread must *)
(* not wait: when it does not get the lock it keeps the chunk in m_pending *)
(* until its next callback.                                                *)
(*                                                                         *)
(* A sample is the number of its place in the recording, a ring buffer the *)
(* sequence of what it holds (RingBuffer has its array).                   *)
(***************************************************************************)
EXTENDS Naturals, Sequences, SequencesExt

CONSTANTS Readers,    \* threads of the processors
          Capacity,   \* k_chunkSize
          Chunks,     \* numbers of samples a callback may bring
          None,       \* nobody
          MaxSamples, \* bound: samples recorded
          MaxReads,   \* bound: chunks read
          MaxTurns    \* bound: state changes of the stream, and starts

VARIABLES samples, pending,  \* m_samples, m_pending
          discard,           \* m_discardPending
          lock,              \* who holds m_samplesLock
          rt,                \* the real-time thread: where it is, its chunk
          clearing,          \* clearBuffer: where its caller is
          thread,            \* m_thread: "none", "running" or "ended"
          joining,           \* stop was requested, the GUI thread waits in join()
          quit,              \* pw_main_loop_quit
          stream,            \* the state of m_stream, "setup" before pw_stream_connect
          timer, idle,       \* m_timer and m_idle
          recorded, reads, turns,
          stale              \* history: samples a clear should have removed

buffers == <<samples, pending, discard, lock>>
worker  == <<quit, stream, timer, idle>>
gui     == <<thread, joining>>
bounds  == <<recorded, reads, turns>>
vars == <<buffers, rt, clearing, worker, gui, bounds, stale>>

----------------------------------------------------------------------------
Pushed(ring, new) ==
    LET all == ring \o new
    IN  SubSeq(all, 1 + (IF Len(all) > Capacity THEN Len(all) - Capacity ELSE 0), Len(all))

Init ==
    /\ samples = <<>> /\ pending = <<>> /\ discard = FALSE /\ lock = None
    /\ rt = [at |-> "idle", chunk |-> <<>>]
    /\ clearing = "no"
    /\ thread = "none" /\ joining = FALSE
    /\ quit = FALSE /\ stream = "off" /\ timer = "off" /\ idle = TRUE
    /\ recorded = 0 /\ reads = 0 /\ turns = 0
    /\ stale = [ids |-> {}, raced |-> FALSE]

(* clearBuffer, called by `who': take the lock and clear, then set the     *)
(* flag, then unlock.  The real-time thread may read the flag in between.  *)
ClearSamples(who) ==
    /\ clearing = "no" /\ lock = None
    /\ lock' = who /\ samples' = <<>> /\ clearing' = "cleared"
    /\ stale' = [ids |-> ToSet(samples \o pending), raced |-> FALSE]
    /\ UNCHANGED <<pending, discard>>

(* Mutant: the pending samples are not to be discarded. *)
FlagNothing ==
    /\ clearing = "cleared"
    /\ clearing' = "flagged"
    /\ UNCHANGED <<samples, pending, discard, lock, rt, worker, gui, bounds, stale>>

FlagPending ==
    /\ clearing = "cleared"
    /\ clearing' = "flagged" /\ discard' = TRUE
    /\ stale' = [stale EXCEPT !.raced = rt.at = "checked"]
    /\ UNCHANGED <<samples, pending, lock, rt, worker, gui, bounds>>

Unlock ==
    /\ clearing = "flagged"
    /\ clearing' = "no" /\ lock' = None
    /\ thread' = IF thread = "starting" THEN "running" ELSE thread
    /\ stream' = IF thread = "starting" THEN "setup" ELSE stream
    /\ timer'  = IF thread = "starting" THEN "fast" ELSE timer
    /\ UNCHANGED <<samples, pending, discard, rt, quit, idle, joining, bounds, stale>>

----------------------------------------------------------------------------
(* The GUI thread.  start() clears and spawns the loop thread, unless the  *)
(* old one was not joined; stop() waits for it to end.                     *)
Start ==
    /\ thread = "none" /\ turns < MaxTurns
    /\ turns' = turns + 1
    /\ ClearSamples("gui")
    /\ thread' = "starting" /\ idle' = TRUE /\ quit' = FALSE
    /\ UNCHANGED <<rt, stream, timer, joining, recorded, reads>>

Stop ==
    /\ thread \in {"running", "ended"} /\ ~joining
    /\ joining' = TRUE
    /\ UNCHANGED <<buffers, rt, clearing, worker, thread, bounds, stale>>

Join ==
    /\ joining /\ thread = "ended"
    /\ thread' = "none" /\ joining' = FALSE
    /\ UNCHANGED <<buffers, rt, clearing, worker, bounds, stale>>

----------------------------------------------------------------------------
(* The loop thread.  pw_stream_connect calls streamStateChanged for the    *)
(* state CONNECTING, and only then the loop runs.                          *)
Connect ==
    /\ thread = "running" /\ stream = "setup" /\ clearing = "no"
    /\ stream' = "connecting" /\ idle' = FALSE
    /\ UNCHANGED <<buffers, rt, clearing, quit, timer, gui, bounds, stale>>

LoopFree == thread = "running" /\ stream # "setup" /\ ~quit /\ clearing = "no"

HandleTimeout ==
    /\ LoopFree /\ timer # "off"
    /\ \/ /\ joining
          /\ quit' = TRUE
          /\ UNCHANGED <<buffers, clearing, stale, timer, idle>>
       \/ /\ ~joining /\ ~idle
          /\ ClearSamples("loop")            \* the timer is on time
          /\ UNCHANGED <<quit, timer, idle>>
       \/ /\ ~joining /\ ~idle              \* ten periods went by at once
          /\ idle' = TRUE /\ timer' = "slow"
          /\ UNCHANGED <<buffers, clearing, stale, quit>>
    /\ UNCHANGED <<rt, stream, gui, bounds>>

(* Mutant: a pause does not arm the timer again. *)
StreamStateChangedQuietly(s) ==
    /\ LoopFree /\ turns < MaxTurns
    /\ turns' = turns + 1
    /\ stream' = s /\ s # stream
    /\ idle' = FALSE
    /\ timer' = IF s = "streaming" THEN "off" ELSE timer
    /\ quit' = (s = "error")
    /\ UNCHANGED <<buffers, rt, clearing, gui, recorded, reads, stale>>

(* PAUSED arms the timer, STREAMING disarms it, and the other states leave *)
(* it as it was: a client that streamed and is UNCONNECTED has no timer.   *)
StreamStateChanged(s) ==
    /\ LoopFree /\ turns < MaxTurns
    /\ turns' = turns + 1
    /\ stream' = s /\ s # stream
    /\ idle' = FALSE
    /\ timer' = CASE s = "paused" -> "fast" [] s = "streaming" -> "off" [] OTHER -> timer
    /\ quit' = (s = "error")
    /\ UNCHANGED <<buffers, rt, clearing, gui, recorded, reads, stale>>

(* pw_main_loop_run returns; destroying the stream waits for a callback. *)
EndThread ==
    /\ thread = "running" /\ rt.at = "idle" /\ clearing = "no"
    /\ quit \/ stream = "setup"           \* or the set-up failed
    /\ thread' = "ended" /\ stream' = "off" /\ timer' = "off" /\ quit' = TRUE
    /\ UNCHANGED <<buffers, rt, clearing, idle, joining, bounds, stale>>

----------------------------------------------------------------------------
(* The real-time thread: processStream and loadChunk. *)
ProcessStream ==
    /\ thread = "running" /\ stream = "streaming" /\ rt.at = "idle"
    /\ \/ /\ joining
          /\ ~quit
          /\ quit' = TRUE
          /\ UNCHANGED <<pending, discard, rt, recorded>>
       \/ /\ ~joining
          /\ \E n \in Chunks :
                /\ recorded + n <= MaxSamples
                /\ recorded' = recorded + n
                /\ rt' = [at |-> "checked", chunk |-> [i \in 1..n |-> recorded + i]]
          /\ discard' = FALSE
          /\ pending' = IF discard THEN <<>> ELSE pending
          /\ UNCHANGED quit
    /\ UNCHANGED <<samples, lock, clearing, stream, timer, idle, gui, reads, turns, stale>>

TryLock ==
    /\ rt.at = "checked"
    /\ IF lock = None
       THEN /\ lock' = "rt"
            /\ rt' = [rt EXCEPT !.at = "locked"]
            /\ UNCHANGED pending
       ELSE /\ pending' = Pushed(pending, rt.chunk)
            /\ rt' = [at |-> "idle", chunk |-> <<>>]
            /\ UNCHANGED lock
    /\ UNCHANGED <<samples, discard, clearing, worker, gui, bounds, stale>>

(* Mutant: what waited in m_pending is dropped. *)
StoreChunkAlone ==
    /\ rt.at = "locked"
    /\ samples' = Pushed(samples, rt.chunk)
    /\ pending' = <<>>
    /\ rt' = [at |-> "idle", chunk |-> <<>>]
    /\ lock' = None
    /\ UNCHANGED <<discard, clearing, worker, gui, bounds, stale>>

StoreChunk ==
    /\ rt.at = "locked"
    /\ samples' = Pushed(Pushed(samples, pending), rt.chunk)
    /\ pending' = <<>>
    /\ rt' = [at |-> "idle", chunk |-> <<>>]
    /\ lock' = None
    /\ UNCHANGED <<discard, clearing, worker, gui, bounds, stale>>

(* readLatest: copy under the lock. *)
ReadLatest(r) ==
    /\ lock = None /\ reads < MaxReads
    /\ lock' = r /\ reads' = reads + 1
    /\ UNCHANGED <<samples, pending, discard, rt, clearing, worker, gui, recorded, turns, stale>>

EndRead(r) ==
    /\ lock = r
    /\ lock' = None
    /\ UNCHANGED <<samples, pending, discard, rt, clearing, worker, gui, bounds, stale>>

States == {"unconnected", "connecting", "paused", "streaming", "error"}
Worker == Connect \/ HandleTimeout \/ FlagPending \/ Unlock \/ EndThread
RealTime == ProcessStream \/ TryLock \/ StoreChunk

Next ==
    \/ Start \/ Stop \/ Join
    \/ Worker
    \/ \E s \in States : StreamStateChanged(s)
    \/ RealTime
    \/ \E r \in Readers : ReadLatest(r) \/ EndRead(r)

Spec == Init /\ [][Next]_vars

(* Threads run, readers finish, an armed timer fires and a stream that is  *)
(* streaming calls back.                                                   *)
Fairness ==
    /\ WF_vars(Worker) /\ WF_vars(RealTime) /\ WF_vars(Join)
    /\ WF_vars(\E r \in Readers : EndRead(r))
FairSpec == Spec /\ Fairness

----------------------------------------------------------------------------
TypeOK ==
    /\ samples \in Seq(1..MaxSamples) /\ pending \in Seq(1..MaxSamples)
    /\ discard \in BOOLEAN
    /\ lock \in Readers \cup {None, "rt", "gui", "loop"}
    /\ rt.at \in {"idle", "checked", "locked"}
    /\ clearing \in {"no", "cleared", "flagged"}
    /\ thread \in {"none", "starting", "running", "ended"}
    /\ stream \in States \cup {"off", "setup"}

(* What was recorded is shown without a gap and in order, also what had to *)
(* wait in m_pending because a reader held the lock, and whatever of it    *)
(* m_pending had no room for.                                              *)
Consecutive(ring) == \A i \in 1..(Len(ring) - 1) : ring[i + 1] = ring[i] + 1
NoGap == Consecutive(samples) /\ Consecutive(Pushed(samples, pending))

(* A sample of before a clear is never shown again, unless the real-time   *)
(* thread looked at the flag just before clearBuffer set it.               *)
ClearedForGood ==
    ~stale.raced /\ clearing = "no" => \A i \in DOMAIN samples : samples[i] \notin stale.ids

(* The timer is disarmed and no callback comes: the stream was streaming   *)
(* when it lost its connection.                                            *)
Deaf == timer = "off" /\ stream \in {"unconnected", "connecting"}

(* stop() returns, whatever the stream does and whoever holds the lock:    *)
(* the timer, a callback or an error lets the loop thread end.  Only a     *)
(* stream that lost its connection while it was streaming, and never gets  *)
(* another state, is not told of the request: join() then waits for ever.  *)
StopReturns == []<>~Deaf => (joining ~> thread = "none")
=============================================================================
