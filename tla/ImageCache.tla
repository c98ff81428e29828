------------------------------ MODULE ImageCache ------------------------------
(***************************************************************************)
(* ImageCacher and CachingImageProvider: scaled images are kept in a cache *)
(* directory under the hash of the file they were made from.  Requests and *)
(* jobs run on the threads of one pool; another program may replace a      *)
(* source file between any two of their steps.  An image is the content it *)
(* shows; a shape stands for the size and the fill mode.                   *)
(***************************************************************************)
EXTENDS Naturals, FiniteSets

CONSTANTS Paths, Contents,
          Broken,      \* contents that do not decode
          Shapes,
          Original,    \* a request without a size
          Requests,    \* request identities, the bound of their number
          None,
          MaxEdits     \* bound: replacements of a source file, and purges

ASSUME CacheAssumption ==
    /\ Broken \subseteq Contents /\ None \notin Contents /\ Original \notin Shapes
    /\ MaxEdits \in Nat

Keys == Contents \X Shapes

VARIABLES file,      \* content of each path, or None
          cache,     \* the cache directory: key -> image, or None
          inflight,  \* m_inflight
          jobs,      \* jobs of the pool, one record each
          reqs,      \* CachingImageResponses
          edits,
          suspect,   \* history: keys of jobs whose source was replaced meanwhile
          seen       \* history: contents of the source while each request waits, and
                     \* those of suspect entries it found

vars == <<file, cache, inflight, jobs, reqs, edits, suspect, seen>>

----------------------------------------------------------------------------
NoKey == <<None, None>>

Init ==
    /\ file \in [Paths -> Contents \cup {None}]
    /\ cache = [k \in Keys |-> None]
    /\ inflight = {} /\ jobs = {}
    /\ reqs = [r \in Requests |-> [at |-> "new", path |-> None, shape |-> None, key |-> NoKey,
                                   clean |-> TRUE, image |-> None]]
    /\ edits = 0 /\ suspect = {}
    /\ seen = [r \in Requests |-> {}]

(* requestImageResponse: a response is handed to the pool. *)
Request(r, p, s) ==
    /\ reqs[r].at = "new"
    /\ reqs' = [reqs EXCEPT ![r].at = "hash", ![r].path = p, ![r].shape = s]
    /\ seen' = [seen EXCEPT ![r] = {file[p]}]
    /\ UNCHANGED <<file, cache, inflight, jobs, edits, suspect>>

(* Mutant: an entry is named after the shape alone. *)
HashNothing(r) ==
    LET now == file[reqs[r].path]
    IN  /\ reqs[r].at = "hash"
        /\ reqs' = [reqs EXCEPT
             ![r].at    = CASE now = None -> "done"
                            [] reqs[r].shape = Original -> "original"
                            [] OTHER -> "lookup",
             ![r].clean = TRUE,
             ![r].key   = IF now = None \/ reqs[r].shape = Original THEN NoKey
                          ELSE <<CHOOSE c \in Contents : TRUE, reqs[r].shape>>]
        /\ UNCHANGED <<file, cache, inflight, jobs, edits, suspect, seen>>

(* process: a missing file is an error, no size asks for the original, and *)
(* the content now in the file names the entry of the cache.               *)
Hash(r) ==
    LET now == file[reqs[r].path]
    IN  /\ reqs[r].at = "hash"
        /\ reqs' = [reqs EXCEPT
             ![r].at    = CASE now = None -> "done"
                            [] reqs[r].shape = Original -> "original"
                            [] OTHER -> "lookup",
             ![r].clean = TRUE,
             ![r].key   = IF now = None \/ reqs[r].shape = Original THEN NoKey
                          ELSE <<now, reqs[r].shape>>]
        /\ UNCHANGED <<file, cache, inflight, jobs, edits, suspect, seen>>

LookUp(r) ==
    LET k == reqs[r].key
    IN  /\ reqs[r].at = "lookup"
        /\ reqs' = [reqs EXCEPT ![r].at    = IF cache[k] # None THEN "done" ELSE "schedule",
                                ![r].image = cache[k]]
        /\ seen' = [seen EXCEPT ![r] = IF k \in suspect THEN @ \cup {cache[k]} ELSE @]
        /\ UNCHANGED <<file, cache, inflight, jobs, edits, suspect>>

(* Mutant: nobody looks whether a job for the entry is in flight. *)
ScheduleAgain(r) ==
    LET k == reqs[r].key
    IN  /\ reqs[r].at = "schedule"
        /\ reqs' = [reqs EXCEPT ![r].at = "original"]
        /\ inflight' = inflight \cup {k}
        /\ jobs' = jobs \cup {[key |-> k, path |-> reqs[r].path, at |-> "check",
                               clean |-> reqs[r].clean, image |-> None]}
        /\ UNCHANGED <<file, cache, edits, suspect, seen>>

(* schedule: one job for an entry at a time. *)
Schedule(r) ==
    LET k == reqs[r].key
    IN  /\ reqs[r].at = "schedule"
        /\ reqs' = [reqs EXCEPT ![r].at = "original"]
        /\ IF k \in inflight THEN UNCHANGED <<inflight, jobs>>
           ELSE /\ inflight' = inflight \cup {k}
                /\ jobs' = jobs \cup {[key |-> k, path |-> reqs[r].path, at |-> "check",
                                       clean |-> reqs[r].clean, image |-> None]}
        /\ UNCHANGED <<file, cache, edits, suspect, seen>>

(* This call returns the original; later ones find the entry. *)
ReadOriginal(r) ==
    /\ reqs[r].at = "original"
    /\ reqs' = [reqs EXCEPT ![r].at = "done",
                            ![r].image = IF file[reqs[r].path] \in Broken THEN None
                                         ELSE file[reqs[r].path]]
    /\ UNCHANGED <<file, cache, inflight, jobs, edits, suspect, seen>>

----------------------------------------------------------------------------
(* runJob: nothing to do when the entry exists or the source does not      *)
(* decode.                                                                 *)
JobEnds(j) == inflight' = inflight \ {j.key} /\ jobs' = jobs \ {j}

JobReads(j) ==
    /\ j.at = "check"
    /\ IF cache[j.key] # None \/ file[j.path] \in Broken \cup {None}
       THEN JobEnds(j)
       ELSE /\ jobs' = (jobs \ {j}) \cup {[j EXCEPT !.at = "save", !.image = file[j.path]]}
            /\ UNCHANGED inflight
    /\ UNCHANGED <<file, cache, reqs, edits, suspect, seen>>

JobSaves(j) ==
    /\ j.at = "save"
    /\ JobEnds(j)
    /\ \/ /\ cache' = [cache EXCEPT ![j.key] = j.image]
          /\ suspect' = IF j.clean THEN suspect ELSE suspect \cup {j.key}
       \/ UNCHANGED <<cache, suspect>>          \* mkpath, open or commit failed
    /\ UNCHANGED <<file, reqs, edits, seen>>

----------------------------------------------------------------------------
(* Another program replaces or removes a source, or empties the cache. *)
EditFile(p, c) ==
    /\ edits < MaxEdits /\ file[p] # c
    /\ edits' = edits + 1
    /\ file' = [file EXCEPT ![p] = c]
    /\ jobs' = {[j EXCEPT !.clean = @ /\ ~(j.path = p /\ j.at = "check")] : j \in jobs}
    /\ reqs' = [r \in Requests |-> [reqs[r] EXCEPT !.clean = @ /\ reqs[r].path # p]]
    /\ seen' = [r \in Requests |-> IF reqs[r].path = p /\ reqs[r].at # "done"
                                   THEN seen[r] \cup {c} ELSE seen[r]]
    /\ UNCHANGED <<cache, inflight, suspect>>

Purge ==
    /\ edits < MaxEdits
    /\ edits' = edits + 1
    /\ cache' = [k \in Keys |-> None] /\ suspect' = {}
    /\ UNCHANGED <<file, inflight, jobs, reqs, seen>>

Next ==
    \/ \E r \in Requests :
          \/ \E p \in Paths, s \in Shapes \cup {Original} : Request(r, p, s)
          \/ Hash(r) \/ LookUp(r) \/ Schedule(r) \/ ReadOriginal(r)
    \/ \E j \in jobs : JobReads(j) \/ JobSaves(j)
    \/ \E p \in Paths, c \in Contents \cup {None} : EditFile(p, c)
    \/ Purge

Spec == Init /\ [][Next]_vars

----------------------------------------------------------------------------
TypeOK ==
    /\ file \in [Paths -> Contents \cup {None}]
    /\ cache \in [Keys -> Contents \cup {None}]
    /\ inflight \in SUBSET Keys
    /\ suspect \in SUBSET Keys
    /\ \A j \in jobs : /\ j.key \in Keys /\ j.path \in Paths
                       /\ j.at \in {"check", "save"} /\ j.image \in Contents \cup {None}
    /\ \A r \in Requests : reqs[r].at \in {"new", "hash", "lookup", "schedule", "original", "done"}

(* An entry of the cache shows the content it is named after, unless its   *)
(* source was replaced between hash and decoding; and a request is         *)
(* answered with a picture its file showed while it waited, or with such   *)
(* an entry: it gets the same picture with and without the cache.          *)
CacheIsTrue ==
    /\ \A k \in Keys \ suspect : cache[k] \in {None, k[1]}
    /\ \A r \in Requests :
          reqs[r].at = "done" /\ reqs[r].image # None => reqs[r].image \in seen[r]

(* Two jobs never write the same entry. *)
OneJobPerEntry ==
    /\ \A j \in jobs : j.key \in inflight
    /\ \A i, j \in jobs : i.key = j.key => i = j
=============================================================================
