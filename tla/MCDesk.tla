------------------------------- MODULE MCDesk -------------------------------
(***************************************************************************)
(* Services, lyrics, lists on screen and the lock in one run: each is a    *)
(* small instance of its module, and one of them runs. The view of rows runs*)
(* twice: with two changes for what always holds, with one and removals at *)
(* once for what holds in the end.                                         *)
(***************************************************************************)
EXTENDS SharedServices, TLC

CONSTANTS Readers, Capacity, Chunks, MaxSamples, MaxReads, MaxTurns, Tracks,
          LyricChanges, MaxTries, ErrorTries, MaxEvents, Rows, Heights,
          Fallback, Spacing, Viewports, Cull, Creates, Destroys, ReadyDelay,
          MaxRows, RowChanges

\* The threads of the recorder are not its readers.
ASSUME RecorderAssumption ==
    /\ Capacity \in Nat /\ MaxSamples \in Nat /\ Chunks \subseteq Nat
    /\ NoService \notin Readers \cup {"rt", "gui", "loop"}
    /\ Readers \cap {"rt", "gui", "loop"} = {}

\* Every method of the lock may be tried at least once.
ASSUME TriesAssumption ==
    /\ MaxTries \in [{"fprint", "howdy"} -> Nat \ {0}]
    /\ ErrorTries \in Nat

ASSUME ChangesAssumption == LyricChanges \in Nat

\* Heights and spaces are no less than nothing.
ASSUME RowsAssumption ==
    /\ Heights \subseteq Nat /\ Fallback \in Nat /\ Spacing \in Nat
    /\ ReadyDelay \in BOOLEAN /\ MaxRows \in Nat /\ RowChanges \in Nat

TopAndMiddle == {<<0, 5>>, <<14, 40>>}

FewTries == "fprint" :> 2 @@ "howdy" :> 1

VARIABLE part   \* the component that runs

VARIABLES audioSamples, audioPending, audioDiscard, audioLock, audioRt,
          audioClearing, audioThread, audioJoining, audioQuit, audioStream,
          audioTimer, audioIdle, audioRecorded, audioReads, audioTurns,
          audioStale
audioVars == <<audioSamples, audioPending, audioDiscard, audioLock, audioRt,
           audioClearing, audioThread, audioJoining, audioQuit, audioStream,
           audioTimer, audioIdle, audioRecorded, audioReads, audioTurns,
           audioStale>>
Audio == INSTANCE AudioCollector WITH
    samples <- audioSamples, pending <- audioPending, discard <- audioDiscard,
    lock <- audioLock, rt <- audioRt, clearing <- audioClearing,
    thread <- audioThread, joining <- audioJoining, quit <- audioQuit,
    stream <- audioStream, timer <- audioTimer, idle <- audioIdle,
    recorded <- audioRecorded, reads <- audioReads, turns <- audioTurns,
    stale <- audioStale, Readers <- Readers, Capacity <- Capacity,
    Chunks <- Chunks, None <- NoService, MaxSamples <- MaxSamples,
    MaxReads <- MaxReads, MaxTurns <- MaxTurns

VARIABLES lrcM, lrcDebounce, lrcPreferred, lrcChanges, lrcBlame
lrcVars == <<lrcM, lrcDebounce, lrcPreferred, lrcChanges, lrcBlame>>
Words == INSTANCE Lyrics WITH
    m <- lrcM, debounce <- lrcDebounce, preferred <- lrcPreferred,
    changes <- lrcChanges, blame <- lrcBlame, Tracks <- Tracks,
    NoTrack <- NoService, NoLyric <- NoService, MaxChanges <- LyricChanges

VARIABLES viewModel, viewTall, viewViewport, viewAnimated, viewLayout,
          viewAverage, viewExtent, viewContent, viewLive, viewDying,
          viewPolish, viewRelayout, viewChanges
viewVars == <<viewModel, viewTall, viewViewport, viewAnimated, viewLayout,
           viewAverage, viewExtent, viewContent, viewLive, viewDying,
           viewPolish, viewRelayout, viewChanges>>
View == INSTANCE LazyListView WITH
    model <- viewModel, tall <- viewTall, viewport <- viewViewport,
    animated <- viewAnimated, layout <- viewLayout, average <- viewAverage,
    extent <- viewExtent, content <- viewContent, live <- viewLive,
    dying <- viewDying, polish <- viewPolish, relayout <- viewRelayout,
    changes <- viewChanges, Rows <- Rows, Heights <- Heights,
    Fallback <- Fallback, Spacing <- Spacing, Viewports <- Viewports,
    Cull <- Cull, Creates <- Creates, Destroys <- Destroys,
    ReadyDelay <- ReadyDelay, MaxRows <- MaxRows, MaxChanges <- RowChanges

VARIABLES pamSecure, pamUnlocking, pamPassword, pamShown, pamShowing, pamCtx,
          pamEvents, pamBlind, pamGaveUp
pamVars == <<pamSecure, pamUnlocking, pamPassword, pamShown, pamShowing,
           pamCtx, pamEvents, pamBlind, pamGaveUp>>
Lock == INSTANCE Pam WITH
    secure <- pamSecure, unlocking <- pamUnlocking, password <- pamPassword,
    shown <- pamShown, showing <- pamShowing, ctx <- pamCtx,
    events <- pamEvents, blind <- pamBlind, gaveUp <- pamGaveUp,
    MaxTries <- MaxTries, ErrorTries <- ErrorTries, MaxEvents <- MaxEvents

OneChange == INSTANCE LazyListView WITH
    model <- viewModel, tall <- viewTall, viewport <- viewViewport,
    animated <- viewAnimated, layout <- viewLayout, average <- viewAverage,
    extent <- viewExtent, content <- viewContent, live <- viewLive,
    dying <- viewDying, polish <- viewPolish, relayout <- viewRelayout,
    changes <- viewChanges, Rows <- Rows, Heights <- Heights,
    Fallback <- Fallback, Spacing <- Spacing, Viewports <- Viewports,
    Cull <- Cull, Creates <- Creates, Destroys <- Destroys,
    ReadyDelay <- ReadyDelay, MaxRows <- MaxRows, MaxChanges <- 1

----------------------------------------------------------------------------
\* Components that do not run are in one of their initial states.
DeskInit ==
    /\ part \in {"services", "audio", "lyrics", "rows", "rest", "lock"}
    /\ Init
    /\ Audio!Init
    /\ Words!Init
    /\ part = "lyrics" \/ (lrcPreferred = "Auto")
    /\ View!Init
    /\ \/ part = "rows" \/ (part = "rest" /\ ~viewAnimated)
       \/ viewModel = <<>> /\ viewTall = [r \in Rows |-> 0] /\ viewViewport = <<0, 5>> /\ ~viewAnimated
    /\ Lock!Init

DeskNext ==
    \/ part = "services" /\ Next /\ UNCHANGED <<part, audioVars, lrcVars,
         viewVars, pamVars>>
    \/ part = "audio" /\ Audio!Next /\ UNCHANGED <<part, vars, lrcVars,
         viewVars, pamVars>>
    \/ part = "lyrics" /\ Words!Next /\ UNCHANGED <<part, vars, audioVars,
         viewVars, pamVars>>
    \/ part = "rows" /\ View!Next /\ UNCHANGED <<part, vars, audioVars,
         lrcVars, pamVars>>
    \/ part = "rest" /\ OneChange!Next /\ UNCHANGED <<part, vars, audioVars,
         lrcVars, pamVars>>
    \/ part = "lock" /\ Lock!Next /\ UNCHANGED <<part, vars, audioVars,
         lrcVars, viewVars>>

deskVars == <<part, vars, audioVars, lrcVars, viewVars, pamVars>>
DeskSpec == DeskInit /\ [][DeskNext]_deskVars

(* The fairness of the component that runs.                                *)
DeskFairSpec ==
    /\ DeskSpec
    /\ WF_audioVars(part = "audio" /\ Audio!Worker)
    /\ WF_audioVars(part = "audio" /\ Audio!RealTime)
    /\ WF_audioVars(part = "audio" /\ Audio!Join)
    /\ WF_audioVars(part = "audio" /\ \E r \in Readers : Audio!EndRead(r))
    /\ WF_lrcVars(part = "lyrics" /\ (\/ Words!LoadNothing
                                     \/ \E onDisk \in BOOLEAN : Words!Load(onDisk)))
    /\ WF_lrcVars(part = "lyrics" /\ Words!Reply)
    /\ WF_viewVars(part = "rest" /\ OneChange!Step)
----------------------------------------------------------------------------
(* AudioCollector: what is shown was recorded without a gap, and nothing   *)
(* of before a clear is shown again.                                       *)
RecordingIsTrue ==
    part = "audio" => Audio!TypeOK /\ Audio!NoGap /\ Audio!ClearedForGood

(* AudioCollector: the GUI thread does not wait for the loop thread for    *)
(* ever, unless the stream stays without a connection it lost streaming.   *)
StopReturns == Audio!StopReturns

(* Lyrics: what is shown, offered and saved belongs to the track, and the  *)
(* spinner shows exactly while a reply is awaited.                         *)
LyricsAreRight ==
    part = "lyrics" => Words!TypeOK /\ Words!LyricsOfTheTrack /\ Words!LoadingIsAccounted

(* Lyrics: loading ends, with lines or without.                            *)
LoadingEnds == Words!LoadingEnds

(* LazyListView: delegates, records and the average follow their rows, and *)
(* at rest every row in sight is shown at its place; without removal       *)
(* animations the content is then as high as the rows.                     *)
ViewFollowsRows ==
    part = "rows" => /\ View!TypeOK /\ View!DelegatesFollowRows /\ View!AverageIsTrue
                     /\ View!NoHoles /\ View!ContentIsRows

(* LazyListView: the view comes to rest.                                   *)
ViewSettles == <>[](part = "rest" => OneChange!Settled)

(* Pam: what the lock screen says of a method is what the method can do,   *)
(* and a reader that may be used listens.                                  *)
LockTellsTries == part = "lock" => Lock!StateTellsTries /\ Lock!ReaderListens
============================================================================
