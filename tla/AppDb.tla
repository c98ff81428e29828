-------------------------------- MODULE AppDb --------------------------------
(***************************************************************************)
(* caelestia::models::AppDb: an AppEntry for every desktop entry QML hands *)
(* in, sorted by favourites, by how often the app was started, which a     *)
(* database remembers, and by name.  The entries are objects of another    *)
(* component, which replaces and destroys them when desktop files change;  *)
(* an AppEntry then deletes itself, one event later; the place it keeps in *)
(* the list until then is left out.                                        *)
(***************************************************************************)
EXTENDS Naturals, SequencesExt, FiniteSetsExt

CONSTANTS Ids,         \* of apps
          Rank,        \* of their names in the order of the locale
          Copies,      \* objects an app may have one after the other
          Paths,       \* database files
          Locked,      \* those that cannot be opened
          Memory,      \* ":memory:"
          MaxStarts,   \* bound: apps started
          MaxChanges   \* bound: properties written

VARIABLES entries,   \* m_entries, as a set of objects <<id, copy>>
          dead,      \* objects that were destroyed
          apps,      \* m_apps: id -> [of: its object, frequency]
          dying,     \* ids of AppEntries to be deleted
          timer,     \* m_timer is active
          path, stored, \* m_path; what each database holds
          favourites,\* ids that m_favouriteAppsRegex matches
          shown,     \* the order QML read at the last appsChanged
          starts, changes,
          outlived   \* history: apps that kept an object that was replaced
vars == <<entries, dead, apps, dying, timer, path, stored, favourites, shown,
          starts, changes, outlived>>

Objects == Ids \X Copies
----------------------------------------------------------------------------
(* getSortedApps *)
Before(some, favs, a, b) ==
    IF (a \in favs) # (b \in favs) THEN a \in favs
    ELSE IF some[a].frequency # some[b].frequency
         THEN some[a].frequency > some[b].frequency
         ELSE Rank[a] < Rank[b]

Sorted(some, favs) == SetToSortSeq(DOMAIN some, LAMBDA a, b : Before(some, favs, a, b))

(* appsChanged, emitted if cond *)
Emit(cond, some, favs) == shown' = IF cond THEN Sorted(some, favs) ELSE shown

(* getFrequency; a database that is not open answers nothing. *)
Frequency(p, id) == IF p \in Locked THEN 0 ELSE stored[p][id]

Init ==
    /\ entries = {} /\ dead = {} /\ apps = <<>> /\ dying = {} /\ timer = FALSE
    /\ path = Memory /\ favourites = {} /\ shown = Sorted(apps, favourites)
    /\ stored = [p \in Paths \cup {Memory} |-> [id \in Ids |-> 0]]
    /\ starts = 0 /\ changes = 0 /\ outlived = {}

Change == changes < MaxChanges /\ changes' = changes + 1

(* setEntries: at most one object for an app, none that was destroyed *)
SetEntries(new) ==
    /\ Change /\ new # entries
    /\ entries' = new /\ timer' = TRUE
    /\ UNCHANGED <<dead, apps, dying, path, stored, favourites, shown, starts, outlived>>

(* An object that was replaced or removed is destroyed. *)
DestroyEntry(o) ==
    /\ o \notin entries \cup dead
    /\ o[1] \in DOMAIN apps /\ apps[o[1]].of = o
    /\ dead' = dead \cup {o} /\ dying' = dying \cup {o[1]}
    /\ UNCHANGED <<entries, apps, timer, path, stored, favourites, shown, starts, changes, outlived>>

(* The destroyed signal of an AppEntry *)
DeleteApp(id) ==
    /\ dying' = dying \ {id}
    /\ apps' = [a \in DOMAIN apps \ {id} |-> apps[a]]
    /\ Emit(TRUE, apps', favourites)
    /\ UNCHANGED <<entries, dead, timer, path, stored, favourites, starts, changes, outlived>>

(* updateApps: deletions that were asked for before have happened.  An app *)
(* that is there is kept with the object it has.                           *)
UpdateApps ==
    /\ timer /\ dying = {}
    /\ timer' = FALSE
    /\ LET ids == {o[1] : o \in entries}
           entry(id) == CHOOSE o \in entries : o[1] = id
       IN  /\ apps' = [id \in ids |-> IF id \in DOMAIN apps THEN apps[id]
                         ELSE [of |-> entry(id), frequency |-> Frequency(path, id)]]
           /\ Emit(ids # DOMAIN apps, apps', favourites)
           /\ outlived' = {id \in ids : apps'[id].of # entry(id)}
    /\ UNCHANGED <<entries, dead, dying, path, stored, favourites, starts, changes>>

(* Mutant: the running app keeps its count. *)
IncrementQuietly(id) ==
    /\ starts < MaxStarts /\ starts' = starts + 1
    /\ stored' = IF path \in Locked THEN stored ELSE [stored EXCEPT ![path][id] = @ + 1]
    /\ UNCHANGED <<entries, dead, apps, dying, timer, path, favourites, shown, changes, outlived>>

(* incrementFrequency *)
IncrementFrequency(id) ==
    /\ starts < MaxStarts /\ starts' = starts + 1
    /\ stored' = IF path \in Locked THEN stored ELSE [stored EXCEPT ![path][id] = @ + 1]
    /\ apps' = IF id \in DOMAIN apps THEN [apps EXCEPT ![id].frequency = @ + 1] ELSE apps
    /\ Emit(Sorted(apps, favourites) # Sorted(apps', favourites), apps', favourites)
    /\ UNCHANGED <<entries, dead, dying, timer, path, favourites, changes, outlived>>

(* setPath and updateAppFrequencies; a database in memory is a new one. *)
SetPath(p) ==
    /\ Change /\ p # path
    /\ path' = p
    /\ stored' = IF p = Memory THEN [stored EXCEPT ![p] = [id \in Ids |-> 0]] ELSE stored
    /\ apps' = [id \in DOMAIN apps |->
                  [apps[id] EXCEPT !.frequency = IF p \in Locked THEN 0 ELSE stored'[p][id]]]
    /\ Emit(Sorted(apps, favourites) # Sorted(apps', favourites), apps', favourites)
    /\ UNCHANGED <<entries, dead, dying, timer, favourites, starts, outlived>>

(* setFavouriteApps *)
SetFavourites(favs) ==
    /\ Change /\ favs # favourites
    /\ favourites' = favs
    /\ Emit(TRUE, apps, favs)
    /\ UNCHANGED <<entries, dead, apps, dying, timer, path, stored, starts, outlived>>

Next ==
    \/ \E new \in SUBSET (Objects \ dead) :
          (\A o, p \in new : o[1] = p[1] => o = p) /\ SetEntries(new)
    \/ \E o \in Objects : DestroyEntry(o)
    \/ \E id \in dying : DeleteApp(id)
    \/ UpdateApps
    \/ \E id \in Ids : IncrementFrequency(id)
    \/ \E p \in Paths \cup {Memory} : SetPath(p)
    \/ \E favs \in SUBSET Ids : SetFavourites(favs)

Spec == Init /\ [][Next]_vars

----------------------------------------------------------------------------
(* The launcher shows the apps in their order whatever changes it and      *)
(* whoever causes it, with the counts a restart would read (a database     *)
(* that cannot be opened forgets them); and when nothing is under way it   *)
(* shows the apps of the entries.  Only an entry that was replaced before, *)
(* and is destroyed after, the list was compared takes its app with it.    *)
AppsAreRight ==
    /\ shown = Sorted(apps, favourites)
    /\ path \notin Locked => \A id \in DOMAIN apps : apps[id].frequency = stored[path][id]
    /\ ~timer /\ dying = {} /\ outlived = {} => DOMAIN apps = {o[1] : o \in entries}
=============================================================================
