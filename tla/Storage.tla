-------------------------------- MODULE Storage --------------------------------
(***************************************************************************)
(* caelestia::services::Storage: every tick a thread folds the mounted     *)
(* volumes onto the physical disks below them, and what it found is merged *)
(* into the objects QML holds.  A disk that stays keeps its object, a disk *)
(* that is gone has its object deleted later; QML may have chosen it as    *)
(* the primary disk.  Volumes are records [device, total, used, root]; the *)
(* device tree of sysfs is a constant.                                     *)
(***************************************************************************)
EXTENDS Integers, FiniteSetsExt, SequencesExt, Sums

CONSTANTS Volumes,    \* the volumes that may be mounted
          Slaves,     \* block device |-> the devices it is made of (LUKS, RAID, LVM)
          DiskOf,     \* partition |-> the disk it is on
          PoolOf,     \* ZFS dataset |-> its pool; neither a partition nor a disk
          Rank,       \* disk |-> its place in the order of the names
          Nothing,
          MaxObjects, \* bound: scans that made DiskInfo objects
          MaxChanges  \* bound: mounts, unmounts and choices of QML

VARIABLES mounted,
          job,      \* the future: what it folded and whether it has finished
          disks,    \* m_disks, each [mount, born, used, total, root]
          manual,   \* m_manualPrimaryDisk: <<mount, born>> or Nothing
          dying,    \* objects whose deletion is posted
          made,     \* scans that made objects; it tells the objects of a disk apart
          changes,
          seenDisks, seenPrimary, seenPercentage, \* what QML last read
          overlooked \* history: primaryDisk changed and nobody was told
vars == <<mounted, job, disks, manual, dying, made, changes, seenDisks, seenPrimary,
          seenPercentage, overlooked>>

----------------------------------------------------------------------------
(* resolveAtNode: the disks under a device, at most 8 slaves deep. *)
Disks(device) ==
    LET at[n \in 0 .. 9, d \in DOMAIN Slaves \cup DOMAIN DiskOf \cup DOMAIN Rank \cup DOMAIN PoolOf] ==
            IF n = 9 \/ d \in DOMAIN PoolOf THEN {}
            ELSE IF d \in DOMAIN DiskOf THEN {DiskOf[d]}
            ELSE IF d \in DOMAIN Slaves THEN UNION {at[n + 1, s] : s \in Slaves[d]}
            ELSE {d}
    IN  at[0, device]

(* collectDevices: of the volumes of one device the last one is kept. *)
Collected(vs) == {S \in SUBSET vs : /\ \A v \in vs : \E w \in S : w.device = v.device
                                    /\ \A v, w \in S : v.device = w.device => v = w}
Rooted(vs, v) == \E w \in vs : w.device = v.device /\ w.root

(* foldToDisks: the volumes of a disk add up; those of a pool share its    *)
(* space, so one stands for it, the root or else one of the largest.       *)
Representative(vs, S, v) ==
    IF \E w \in S : Rooted(vs, w) THEN Rooted(vs, v) ELSE \A w \in S : v.total >= w.total

Folded(vs) ==
    UNION {
      LET keys == UNION {IF v.device \in DOMAIN PoolOf THEN {PoolOf[v.device]} ELSE Disks(v.device) : v \in C}
          On(k) == {v \in C : k \in Disks(v.device) \/ (v.device \in DOMAIN PoolOf /\ PoolOf[v.device] = k)}
          Entry(k) == IF \E v \in On(k) : v.device \in DOMAIN PoolOf
                      THEN {[used |-> v.used, total |-> v.total, root |-> Rooted(vs, v)] :
                               v \in {w \in On(k) : Representative(vs, On(k), w)}}
                      ELSE {[used |-> SumOf([v \in On(k) |-> v.used]),
                             total |-> SumOf([v \in On(k) |-> v.total]),
                             root |-> \E v \in On(k) : Rooted(vs, v)]}
      IN  {f \in [keys -> UNION {Entry(k) : k \in keys}] : \A k \in keys : f[k] \in Entry(k)}
      : C \in Collected(vs)}

----------------------------------------------------------------------------
Id(d) == <<d.mount, d.born>>
Ids(ds) == [i \in DOMAIN ds |-> Id(ds[i])]

Percentage(ds) ==
    <<SumOf([i \in DOMAIN ds |-> ds[i].used]), SumOf([i \in DOMAIN ds |-> ds[i].total])>>

(* The sizes are coarse: percentages that differ do by more than 0.0001,   *)
(* the least change that is told.                                          *)
SamePercentage(p, q) == IF p[2] * q[2] = 0 THEN (p[2] = 0 \/ p[1] = 0) /\ (q[2] = 0 \/ q[1] = 0)
                        ELSE p[1] * q[2] = q[1] * p[2]

PrimaryDisk(m, ds) == IF m # Nothing THEN m ELSE IF ds = <<>> THEN Nothing ELSE Id(ds[1])

Before(a, b) == IF a.root # b.root THEN a.root ELSE Rank[a.mount] < Rank[b.mount]

Sorted(S) == CHOOSE s \in [1 .. Cardinality(S) -> S] :
                \A i, j \in 1 .. Cardinality(S) : i < j => Before(s[i], s[j])

Init ==
    /\ mounted \in SUBSET Volumes
    /\ job = Nothing /\ disks = <<>> /\ manual = Nothing /\ dying = {}
    /\ made = 0 /\ changes = 0
    /\ seenDisks = <<>> /\ seenPrimary = Nothing /\ seenPercentage = <<0, 0>> /\ overlooked = FALSE

Shell == <<disks, manual, dying, made, seenDisks, seenPrimary, seenPercentage, overlooked>>

Running == job # Nothing /\ ~job.finished

(* tick: a scan that still runs is waited for, one that has finished and   *)
(* was not applied yet is replaced.                                        *)
Tick ==
    /\ ~Running
    /\ \E f \in Folded(mounted) : job' = [found |-> f, finished |-> FALSE]
    /\ UNCHANGED <<mounted, changes>> /\ UNCHANGED Shell

Finish ==
    /\ Running
    /\ job' = [job EXCEPT !.finished = TRUE]
    /\ UNCHANGED <<mounted, changes>> /\ UNCHANGED Shell

(* Mutant: the primary disk that went is not forgotten. *)
ClearedNever(gone) == FALSE

Cleared(gone) == manual # Nothing /\ \E d \in gone : d.mount = manual[1]

(* applyDisks *)
ApplyDisks ==
    /\ job # Nothing /\ ~Running
    /\ \E byDisk \in {job.found} :
         \E gone \in {{d \in ToSet(disks) : d.mount \notin DOMAIN byDisk}} :
           LET was(k)  == {d.born : d \in {x \in ToSet(disks) : x.mount = k}}
               born(k) == IF was(k) # {} THEN Max(was(k)) ELSE made + 1
               next    == Sorted({[mount |-> k, born |-> born(k), used |-> byDisk[k].used,
                                   total |-> byDisk[k].total, root |-> byDisk[k].root] :
                                     k \in DOMAIN byDisk})
               cleared == Cleared(gone)
           IN  /\ made < MaxObjects
               /\ disks' = next
               /\ made' = IF \E k \in DOMAIN byDisk : was(k) = {} THEN made + 1 ELSE made
               /\ manual' = IF cleared THEN Nothing ELSE manual
               /\ dying' = dying \cup {Id(d) : d \in gone}
               /\ seenDisks' = IF Ids(next) # Ids(disks) THEN Ids(next) ELSE seenDisks
               /\ seenPercentage' = IF SamePercentage(Percentage(next), Percentage(disks))
                                    THEN seenPercentage ELSE Percentage(next)
               \* prevPrimary is what primaryDisk() is after the choice was cleared
               /\ IF PrimaryDisk(manual', next) # PrimaryDisk(manual', disks)
                  THEN seenPrimary' = PrimaryDisk(manual', next) /\ overlooked' = FALSE
                  ELSE /\ UNCHANGED seenPrimary
                       /\ overlooked' = (overlooked \/ (cleared /\ PrimaryDisk(manual', next) # manual))
    /\ job' = Nothing
    /\ UNCHANGED <<mounted, changes>>

(* The posted deletion of a disk; what QML holds of it becomes null. *)
Delete(id) ==
    /\ id \in dying /\ dying' = dying \ {id}
    /\ manual' = IF manual = id THEN Nothing ELSE manual
    /\ seenPrimary' = IF seenPrimary = id THEN Nothing ELSE seenPrimary
    /\ UNCHANGED <<mounted, job, disks, made, changes, seenDisks, seenPercentage, overlooked>>

(* setManualPrimaryDisk, by QML with a disk of the list it shows. *)
SetManualPrimaryDisk(id) ==
    /\ changes < MaxChanges /\ changes' = changes + 1
    /\ manual # id /\ manual' = id
    /\ seenPrimary' = PrimaryDisk(id, disks) /\ overlooked' = FALSE
    /\ UNCHANGED <<mounted, job, disks, dying, made, seenDisks, seenPercentage>>

Mount(vs) ==
    /\ changes < MaxChanges /\ changes' = changes + 1
    /\ vs # mounted /\ mounted' = vs
    /\ UNCHANGED job /\ UNCHANGED Shell

Next ==
    \/ Tick \/ Finish \/ ApplyDisks
    \/ \E id \in dying : Delete(id)
    \/ \E id \in {Nothing} \cup ToSet(seenDisks) : SetManualPrimaryDisk(id)
    \/ \E vs \in SUBSET Volumes : Mount(vs)

Spec == Init /\ [][Next]_vars

----------------------------------------------------------------------------
(* Whatever is mounted between the ticks: a disk has one object, the root  *)
(* disk comes first, QML never holds a disk that is going to be deleted,   *)
(* neither in the list nor as the primary disk it chose, and it was told   *)
(* of every change of the list, of the usage and of the primary disk -     *)
(* except of the one overlooked: when the chosen disk goes, the primary    *)
(* disk is compared with what it is after the choice was cleared.          *)
DisksAreTrue ==
    /\ \A i, j \in DOMAIN disks : i < j => Before(disks[i], disks[j]) /\ disks[i].mount # disks[j].mount
    /\ dying \cap {Id(d) : d \in ToSet(disks)} = {}
    /\ manual # Nothing => \E d \in ToSet(disks) : Id(d) = manual
    /\ seenDisks = Ids(disks)
    /\ SamePercentage(seenPercentage, Percentage(disks))
    /\ seenPrimary = PrimaryDisk(manual, disks) \/ overlooked
=============================================================================
