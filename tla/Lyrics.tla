-------------------------------- MODULE Lyrics --------------------------------
(***************************************************************************)
(* The lyrics of the playing track.  A load is debounced, takes a new      *)
(* request id and asks a chain of backends; a reply only counts while its  *)
(* request id is the current one.  Aborting a reply emits its finished()   *)
(* at once, so that cancelInFlight runs the handlers of what it cancels.   *)
(* The shell has no picker for candidates yet: setSelectedCandidate is     *)
(* called by doLoad alone.  Offsets, the text of lines and the files below *)
(* the cache directory are left out but for what is cached.                *)
(***************************************************************************)
EXTENDS Naturals, FiniteSets

CONSTANTS Tracks, NoTrack,
          NoLyric,      \* an invalid LyricCandidate; no lines
          MaxChanges    \* bound: tracks set and cleared, preferences changed, refreshes

Online == {"LRCLIB", "NetEase"}
Backends == Online \cup {"Local"}
Preferences == Backends \cup {"Auto"}

(* A LyricCandidate is its backend and its id, here the track it is for:   *)
(* operator== compares nothing else.                                       *)
Candidates == [backend : Backends, of : Tracks \cup {NoTrack}]

VARIABLES m,         \* the members that are changed while a handler runs
          debounce,  \* m_loadDebounce is active
          preferred, \* m_preferredBackend
          changes,   \* inputs so far
          blame      \* history: known causes of lyrics that are not the track's
vars == <<m, debounce, preferred, changes, blame>>

----------------------------------------------------------------------------
(* What handlers do to the members.                                        *)

Ask(s, kind, c) ==
    [s EXCEPT !.calls = @ \cup {[req |-> s.req, kind |-> kind, of |-> c.of,
                                 backend |-> c.backend, tracked |-> TRUE]}]

TryNetEase(s) == [Ask(s, "search", [backend |-> "NetEase", of |-> s.track])
                    EXCEPT !.backend = "NetEase"]

TryLrclib(s) == [Ask(s, "get", [backend |-> "LRCLIB", of |-> s.track])
                    EXCEPT !.backend = "LRCLIB"]

(* Mutant: the end of the chain does not end the spinner. *)
ChainNextSilent(s, failed) ==
    CASE preferred = "Auto" /\ failed = "Local"  -> TryLrclib(s)
      [] preferred = "Auto" /\ failed = "LRCLIB" -> TryNetEase(s)
      [] preferred = "Auto" /\ failed = "NetEase" -> s
      [] OTHER -> [s EXCEPT !.loading = FALSE]

(* chainNext: only Auto goes on to the next backend. *)
ChainNext(s, failed) ==
    CASE preferred = "Auto" /\ failed = "Local"  -> TryLrclib(s)
      [] preferred = "Auto" /\ failed = "LRCLIB" -> TryNetEase(s)
      [] OTHER -> [s EXCEPT !.loading = FALSE]

(* cancelInFlight: the aborted replies of the current request fail; what   *)
(* these failures ask for next is no longer tracked.                       *)
Current(s, kinds) == {r \in s.calls : r.req = s.req /\ r.kind \in kinds}
Primary == {"get", "search", "byId"}

CancelInFlight(s) ==
    LET aborted == {r \in s.calls : r.tracked}
        left == [s EXCEPT !.calls = @ \ aborted]
        hit == aborted \cap Current(s, Primary)
        ran == IF \E r \in hit : r.kind = "get" THEN ChainNext(left, "LRCLIB")
               ELSE IF hit # {} THEN [left EXCEPT !.loading = FALSE]
               ELSE left
    IN  [ran EXCEPT !.calls = {[r EXCEPT !.tracked = FALSE] : r \in @}]

SetLines(s, c) == [s EXCEPT !.lines = c, !.backend = c.backend, !.has = TRUE]

(* persistTrackPrefs *)
Persist(s) ==
    IF s.track = NoTrack \/ s.selected = NoLyric THEN s
    ELSE [s EXCEPT !.saved[s.track] = s.selected]

(* What tryLocal and the reply of tryLrclib do with the lines they found. *)
Found(s, c) ==
    LET shown == SetLines(s, c)
    IN  [Persist([shown EXCEPT !.candidates = @ \cup {c}, !.selected = c])
           EXCEPT !.loading = FALSE]

TryLocal(s, onDisk) ==
    LET here == [s EXCEPT !.backend = "Local"]
    IN  IF onDisk THEN Found(here, [backend |-> "Local", of |-> s.track])
        ELSE ChainNext(here, "Local")

(* setSelectedCandidate, called while preferences are restored: nothing is *)
(* saved, and nothing is done for the candidate that is already selected.  *)
SetSelectedCandidate(s, c, onDisk) ==
    LET chosen == [s EXCEPT !.selected = c, !.backend = c.backend, !.loading = TRUE]
        asked  == [CancelInFlight(chosen) EXCEPT !.req = @ + 1]
    IN  CASE s.selected = c -> s
          [] s.selected # c /\ c \in s.cached ->
                [SetLines(asked, c) EXCEPT !.loading = FALSE]
          [] s.selected # c /\ c \notin s.cached /\ c.backend = "Local" ->
                [IF onDisk THEN SetLines(asked, c) ELSE asked EXCEPT !.loading = FALSE]
          [] OTHER -> Ask(asked, "byId", c)

----------------------------------------------------------------------------
Init ==
    /\ m = [track |-> NoTrack, req |-> 0, calls |-> {}, loading |-> FALSE, has |-> FALSE,
            lines |-> NoLyric, backend |-> "Local", selected |-> NoLyric,
            candidates |-> {}, saved |-> [t \in Tracks |-> NoLyric], cached |-> {}]
    /\ debounce = FALSE
    /\ preferred \in Preferences
    /\ changes = 0 /\ blame = {}

Changed == changes < MaxChanges /\ changes' = changes + 1

(* setTrack: the members are those of the new track at once, the load      *)
(* follows.  A player without tags sets the empty track.                   *)
SetTrack(t) ==
    /\ t # m.track /\ Changed
    /\ m' = [m EXCEPT !.track = t]
    /\ debounce' = TRUE
    /\ UNCHANGED <<preferred, blame>>

(* clearTrack *)
ClearTrack ==
    /\ Changed
    /\ LET s == CancelInFlight(m)
       IN  /\ m' = [s EXCEPT !.track = NoTrack, !.candidates = {}, !.has = FALSE,
                             !.loading = FALSE]
           /\ blame' = IF Current(s, Primary) = {} THEN blame ELSE blame \cup {"stray"}
    /\ UNCHANGED <<debounce, preferred>>

(* setPreferredBackend and onPreferredBackendConfigChanged *)
SetPreferredBackend(b) ==
    /\ b # preferred /\ Changed
    /\ preferred' = b /\ debounce' = TRUE
    /\ UNCHANGED <<m, blame>>

(* refresh, and onLyricsDirChanged *)
Refresh ==
    /\ Changed
    /\ debounce' = TRUE
    /\ UNCHANGED <<m, preferred, blame>>

(* doLoad of no track *)
LoadNothing ==
    /\ debounce /\ m.track = NoTrack
    /\ m' = [m EXCEPT !.has = FALSE, !.candidates = {}, !.loading = FALSE]
    /\ blame' = IF Current(m, Primary) = {} THEN blame ELSE blame \cup {"stray"}
    /\ debounce' = FALSE
    /\ UNCHANGED <<preferred, changes>>

(* Mutant: loading is set before the replies of the last load are aborted. *)
ClearedLate(s) == [CancelInFlight([s EXCEPT !.loading = TRUE])
                     EXCEPT !.req = @ + 1, !.has = FALSE, !.candidates = {}]

(* What doLoad starts from. *)
Cleared(s) == [CancelInFlight(s) EXCEPT !.req = @ + 1, !.loading = TRUE, !.has = FALSE,
                                        !.candidates = {}]

(* searchLrclibCandidates and searchNetEaseCandidates *)
SearchCandidates(s) ==
    Ask(Ask(s, "picker", [backend |-> "LRCLIB", of |-> s.track]),
        "picker", [backend |-> "NetEase", of |-> s.track])

(* doLoad.  onDisk says whether a local file with lines is found. *)
Load(onDisk) ==
    /\ debounce /\ m.track # NoTrack
    /\ LET s == SearchCandidates(Cleared(m))
           restored == s.saved[s.track]
       IN  /\ m' = CASE restored # NoLyric -> SetSelectedCandidate(s, restored, onDisk)
                     [] restored = NoLyric /\ preferred = "LRCLIB"  -> TryLrclib(s)
                     [] restored = NoLyric /\ preferred = "NetEase" -> TryNetEase(s)
                     [] OTHER -> TryLocal(s, onDisk)
           /\ blame' = (blame \ {"stray", "skipped"}) \cup
                         (IF restored # NoLyric /\ restored = s.selected THEN {"skipped"} ELSE {})
    /\ debounce' = FALSE
    /\ UNCHANGED <<preferred, changes>>

Late(r) == r.req = m.req /\ r.of # m.track

(* A reply of a superseded request is dropped. *)
Superseded(r) ==
    /\ r.req # m.req
    /\ m' = [m EXCEPT !.calls = @ \ {r}]
    /\ UNCHANGED <<debounce, preferred, changes, blame>>

Arrived(r) == [m EXCEPT !.calls = @ \ {r}]

(* Mutant: lines that arrive are shown whichever request they are for. *)
AnsweredAny(r) ==
    LET c == [backend |-> r.backend, of |-> r.of]
    IN  /\ r.kind \in {"get", "byId"}
        /\ m' = Found(Arrived(r), c)
        /\ UNCHANGED <<debounce, preferred, changes, blame>>

(* A reply of the current request that has what was asked for. *)
Answered(r) ==
    LET s == Arrived(r)
        c == [backend |-> r.backend, of |-> r.of]
    IN  /\ r.req = m.req
        /\ m' = CASE r.kind = "picker" -> [s EXCEPT !.candidates = @ \cup {c}]
                  [] r.kind = "get"    -> Found([s EXCEPT !.cached = @ \cup {c}], c)
                  [] r.kind = "search" -> Ask(s, "byId", c)
                  [] r.kind = "byId"   -> [SetLines([s EXCEPT !.cached = @ \cup {c}], c)
                                             EXCEPT !.loading = FALSE]
        /\ blame' = IF Late(r) THEN blame \cup {"late"} ELSE blame
        /\ UNCHANGED <<debounce, preferred, changes>>

(* A reply of the current request that failed or has nothing. *)
Failed(r) ==
    LET s == Arrived(r)
    IN  /\ r.req = m.req
        /\ m' = CASE r.kind = "picker" -> s
                  [] r.kind = "byId"   -> [s EXCEPT !.loading = FALSE]
                  [] OTHER -> ChainNext(s, r.backend)
        /\ UNCHANGED <<debounce, preferred, changes, blame>>

Reply == \E r \in m.calls : Superseded(r) \/ Answered(r) \/ Failed(r)

Next ==
    \/ \E t \in Tracks \cup {NoTrack} : SetTrack(t)
    \/ ClearTrack
    \/ \E b \in Preferences : SetPreferredBackend(b)
    \/ Refresh
    \/ LoadNothing
    \/ \E onDisk \in BOOLEAN : Load(onDisk)
    \/ Reply

Spec == Init /\ [][Next]_vars

(* Timers fire, and the network stack ends every request it was given. *)
Fairness ==
    /\ WF_vars(LoadNothing \/ \E onDisk \in BOOLEAN : Load(onDisk))
    /\ WF_vars(Reply)

FairSpec == Spec /\ Fairness

----------------------------------------------------------------------------
Replies == [req : Nat, kind : Primary \cup {"picker"}, of : Tracks \cup {NoTrack},
            backend : Online, tracked : BOOLEAN]

(* Types of the variables. *)
TypeOK ==
    /\ m.track \in Tracks \cup {NoTrack} /\ m.req \in Nat
    /\ m.calls \subseteq Replies
    /\ m.loading \in BOOLEAN /\ m.has \in BOOLEAN
    /\ m.lines \in Candidates \cup {NoLyric} /\ m.selected \in Candidates \cup {NoLyric}
    /\ m.backend \in Backends /\ m.candidates \subseteq Candidates
    /\ m.saved \in [Tracks -> Candidates \cup {NoLyric}] /\ m.cached \subseteq Candidates
    /\ debounce \in BOOLEAN /\ preferred \in Preferences /\ changes \in 0 .. MaxChanges
    /\ blame \subseteq {"late", "stray", "skipped"}

(* Once a load ran, the lyrics on display, the picker's candidates and the *)
(* saved selections belong to their track, whatever was in flight when the *)
(* track changed; unless a reply of the current request came while the     *)
(* load of another track still waited for the debounce.                    *)
LyricsOfTheTrack ==
    "late" \notin blame =>
        /\ ~debounce /\ m.has => m.lines.of = m.track
        /\ ~debounce => \A c \in m.candidates : c.of = m.track
        /\ \A t \in Tracks : m.saved[t] # NoLyric => m.saved[t].of = t

(* The spinner shows exactly while a reply is awaited that may bring lines *)
(* or end it: no handler of an aborted, failed or empty reply ends it too  *)
(* early or forgets it.  Except after a load that restored the selection   *)
(* which was selected already, and for what clearing a track left over.    *)
LoadingIsAccounted ==
    {"stray", "skipped"} \cap blame = {} => (m.loading <=> Current(m, Primary) # {})

(* Loading ends, with lines or without. *)
LoadingEnds == m.loading ~> (~m.loading \/ "skipped" \in blame)

(* doLoad, "Honor saved selection for this track": a load of a track whose *)
(* saved selection is online shows it or asks for it.  (Runs in which a    *)
(* late reply saved another track's selection are left aside.)             *)
SavedSelectionIsHonored ==
    [][ (/\ \E onDisk \in BOOLEAN : Load(onDisk)
         /\ "late" \notin blame
         /\ m.saved[m.track] # NoLyric /\ m.saved[m.track].backend \in Online)
        => m'.has \/ Current(m', {"byId"}) # {} ]_vars

=============================================================================
