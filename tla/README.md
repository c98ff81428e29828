# A TLA+ model of the Caelestia shell

The repository is a desktop shell: QML windows and panels on top of a C++
plugin (`plugin/src/Caelestia`). This directory models the parts of it that
keep state across events and are hard to test: the layered configuration with
its files, the services panel, models that are filled by threads, monitors that
ask programs and sockets, lyrics, the lock screen, lists on screen and
translations. All paths below are relative to the repository root, those of
C++ files to `plugin/src/Caelestia`.

## Inventory

| Component | State | Operations | Interacts with |
|---|---|---|---|
| Configuration file of a layer: `Settings/settingsfile.cpp`, `rootnode.cpp`, `changebatcher.cpp` | `m_lastData`, `m_pendingWrite`, save and load debounces, retries, the watched paths, the batcher's dirty flag | load, save, watcher events, debounce timeouts, flush | the file system and other editors of the file; the option tree through `toJson` and `syncJson`; toasts |
| Option tree and layers: `Settings/node.cpp`, `objectnode.cpp`, `quarantine.cpp`, `layerregistry.hpp`, `Config/rootnodes.cpp` | values, overrides, quarantines; one tree for all screens and an overlay per screen | write, reset of an option or a sub-object, load, serialise, mirror a change of the fallback | QML bindings; the overlays follow the global layer in the same call |
| List options: `Settings/listnode.cpp` | elements, overrides, detached fallbacks | insert, remove, move, clear, set, reset, load, save | as above, element by element |
| Codecs: `Settings/codecs.cpp`, `schema.cpp` | none | decode, encode, accept, unions | the file |
| Attached options: `Config/configattached.cpp`, `tokensattached.cpp` | screen and layer per object | created, screen set, parent changed | the layers of the screens |
| Services panel: `modules/servicespanel/core/ServiceOrchestrator.qml` | a card per service: state, `busy`, probe and action tokens; one verification timer | start, stop, restart, autostart, probe, refresh, reload | adapters by callbacks; `Qt.callLater`; timers |
| Adapters: `core/adapters/SystemdAdapter.qml`, `DockerAdapter.qml` | processes that run, watchdogs | run a command, time out, fall back to another command | systemd, docker, pkexec |
| Lock screen: `modules/lock/Pam.qml` | three PAM contexts, tries, timers | lock, unlock, completion of a context, retry, toggles, resume | PAM, the session lock |
| File system model: `Models/filesystemmodel.cpp` | entries, a future per directory, watched directories | scan in the thread pool, cancel, apply a difference | watcher, views |
| Audio: `Services/audiocollector.cpp`, `cavaprovider.cpp`, `include/util/ringbuffer.hpp` | samples, pending samples, a discard flag; bars on two threads | load a chunk (real-time thread), clear, read, start, stop; set the bars | PipeWire, audio processors |
| Shared services: `Services/service.cpp`, `serviceref.cpp`, `audioprovider.cpp` | sets of references on three threads | ref, unref, start, stop | QML objects that come and go |
| Lyrics: `Services/lyrics.cpp` | request id, replies in flight, lines, candidates, saved selections | load after a debounce, chains of backends, replies, cancel | two web services, a cache directory |
| System monitors: `Services/gpu.cpp`, `storage.cpp`, `networkusage.cpp` | what was detected, the disks, totals | tick, detect, scan, merge | programs, threads, `/proc` and `/sys` |
| Compositor: `Services/hyprextras.cpp`, `hyprdevices.cpp` | a copy of options and keyboards | refresh, apply, events | two sockets of Hyprland |
| Calculator: `qalculator.cpp` | a generation counter | evaluate on the pool | libqalculate |
| Launcher database: `Models/appdb.cpp` | entries by id, counts, favourites | set entries, start, favourites, timer | SQLite, desktop entries that are destroyed |
| Images: `Images/imagecacher.cpp`, `cachingimageprovider.cpp`, `imageanalyser.cpp` | jobs in flight; the future and the grab of an analysis | request, hash, schedule, decode; set source, item, size | thread pool, renderer |
| Toasts and buffers: `toaster.cpp`, `circularbuffer.cpp` | toasts, their locks; a ring and its maximum | show, close, lock, unlock; push, resize | delegates on each screen |
| Lists and repeaters: `Components/lazylistview.cpp`, `animatedrepeater.cpp` | records, delegates, an average; items, children, timers | model signals, polish, relayout, reveal; insert, remove, move | item models, animations |
| Translations: `I18n/translator.cpp`, `pluralrules.cpp` | language, catalog, rule | load, translate, parse and evaluate a rule | catalogs |

The other components are in `PROJECT.json`, and under "Not modelled".

The hard behaviours: another program edits a configuration file while the shell
writes it; three write origins touch the same tree; adapter calls, programs,
sockets, scans, replies and grabs answer late and out of order, after what they
were asked for has changed; real-time, loop and worker threads share buffers
with the GUI thread; objects are destroyed while others still hold them; work
is cut into batches that must ask for the next one.

What makes each component correct is stated with its run below.

## Modules

One module per component; the header of each says what it abstracts.

Configuration: `RootNode` (one layer and its file, an action per handler of
`SettingsFile`, `RootNode` and `ChangeBatcher`; the editor of the file is
external), `SettingsTree` (the trees of the layers, with leaves, sub-objects and
unknown keys), `LayeredOptions` (the abstract specification: what a reader of an
option is promised; `SettingsTree` refines it, `Promise`), `SettingsList` (a list
of the global layer and of an overlay), `Codecs`, `AttachedScreens`.

Services panel: `ServiceOrchestrator` (the cards; `probe` and `action` are the
calls whose token is valid, `stale` and `dropped` those whose token is gone, as
the code only compares tokens for equality), `CommandRunner` (`CommandProcess`
and the fallback chains of both adapters), `AdapterCall` (the abstract
specification: a call is answered once; `CommandRunner` refines it,
`CallsAreAnsweredOnce`, and `ServiceOrchestrator` relies on it).

Monitors: `Gpu`, `Storage`, `NetworkUsage` (with the base class `TickingService`),
`HyprExtras` (with `HyprDevices`), `Qalculator`.

Models and images: `FileSystemModel`, `AppDb`, `ImageCache`, `ImageAnalyser`,
`Toaster`, `RingBuffer` (with `CircularBuffer`), `CavaProvider`,
`AnimatedRepeater`, `LazyListView`. `Sums` is the sum that the monitors and the list
take, defined as the size of a finite set so that it can be reasoned about.

Audio and services: `AudioCollector` (the steps of the real-time thread apart),
`SharedServices` (`Service`, `ServiceRef`, `AudioProvider` and the references of the
collector, with the queues between their threads). Desk: `Lyrics`, `Pam`.

Texts: `PluralRules` (parser and evaluator of plural expressions as operators),
`PluralGrammar` (the grammar of gettext that its comment names, as a reference
definition), `Translator`.

A handler of the event loop is one action, whatever it calls; threads that
interleave with it have a step per lock or atomic. Timers carry no durations: a
running timer may fire at any moment. Programs, servers and the user answer and
act at any moment. Variables named `blame`, `late`, `moved`, `outlived` and the
like are history: they mark the schedule on which a property is known not to
hold, so that the exception is as small as the code makes it.

`MCRootNode`, `MCServiceOrchestrator` and `MCSettingsTree` give the instances of
one module. `MCConfig`, `MCPanel`, `MCData` and `MCDesk` put several components
next to each other: the variable `part` says which one runs, the others stay in
one initial state. These components do not share state in the code; where they
do, one module has both (`SharedServices`, `AttachedScreens`, `SettingsTree`), or
one relies on the abstract specification of the other (`AdapterCall`).
`*Proofs` hold the theorems.

## Runs

| Run | Part | Instance | Shows |
|---|---|---|---|
| `config` | `edits` | 5 documents, 4 trees, 3 retries, 2 writes, 2 edits, failing saves, no removal | `NoForgottenWrite`, `NoStaleSave`, `Reconciles`, `PartialWritesAreSilent` |
| | `deletes` | the same with removal and one write | `BrokenIsReported` |
| | `texts` | 5 catalogs, counts 0 to 25 and around 100 | `TextsAreRight` |
| | `grammar` | all texts of 4 symbols; trees grown twice | `ParserIsTheGrammar` |
| `layers` | | a global layer and an overlay; a plain option, a global-only option, a global-only sub-object | `InheritsFallback`, `GlobalStaysGlobal`, `RestartShowsTheSame`, `LayersKeepThePromise` |
| `files` | | an option, a sub-object with one, an unknown key; refused values; no reset of the sub-object | `QuarantineIsNoOverride`, `FileIsKept` |
| `panel` | `card` | one card, all commands, all answers | `BusyIsAccounted`, `SpinnersStop`, `CurrentStateStays` |
| | `cards` | two cards that cannot be stopped | `CardsRunOneCommand` |
| | `runner` | calls with two, one and no candidates | `AdaptersAnswerOnce` |
| | `disks`, `network` | 4 volumes on 3 disks; 2 interfaces, 4 changes | `MonitorsAreRight` |
| | `gpu`, `compositor`, `calculator` | 3 settings; an option, 2 keyboards; 4 evaluations | `AnswersAreCurrent` |
| `data` | `cache` | 2 requests, 2 paths, 3 contents, 2 edits | `CacheIsTrue`, `OneJobPerEntry` |
| | `colour` | 2 files, 2 items, 4 changes | `ResultIsCurrent` |
| | `rows` | 2 directories, 3 files, 3 scans, 3 changes of path and options | `RowsFollowTheDisk` |
| | `lists` | lists up to 2, 4 changes | `ListsFollowOrDetach`, `RestartShowsTheLists` |
| | `apps` | 2 apps with 2 entries each, 2 databases | `AppsAreRight` |
| | `ring`, `bars` | capacities 0 to 3, 3 values; 3 bars | `SamplesAreTheLatest` |
| | `toasts` | 2 toasts, 2 screens, 4 shows | `ToastsAreAccounted` |
| | `items` | 3 rows, 7 items | `RepeaterMirrorsModel` |
| | `codecs` | every type and union of two, 2 steps | `CodecsAgree` |
| | `screens` | 3 objects, 2 screens, 7 changes | `ScreensFollow` |
| `desk` | `services` | 2 users, 2 providers, queues of 2 | `RefsFollowUsers` |
| | `audio` | 6 samples, a buffer of 3, a reader | `RecordingIsTrue`, `StopReturns` |
| | `lyrics` | 2 tracks, 3 changes | `LyricsAreRight`, `LoadingEnds` |
| | `rows`, `rest` | 3 rows of height 0 or 12, at most 2 at first, 2 viewports, removals animated or not, two changes; `rest`: one change, removals at once | `ViewFollowsRows`, `ViewSettles` |
| | `lock` | 2 tries of the fingerprint, 1 of the face, 4 events | `LockTellsTries` |
| `stale` | | removal of the file, saves that succeed | a violation of `NoStaleSave` |
| `startup` | | as `stale` | a violation of `SuccessMeansRead` |
| `reset` | | `files` with the reset of the sub-object | a violation of `FileIsKept` |
| `quarantine` | | as `files` | a violation of `WritesLiftQuarantine` |
| `spinner` | | two cards that can be stopped | a violation of `SpinnersStop` |
| `saved` | | `Lyrics`, 2 tracks | a violation of `SavedSelectionIsHonored` |

What they say, in words:

- `config`: no write of QML is lost between tree, flush, debounce and file; no
  older document overwrites a newer edit; after the last edit tree and file
  agree; errors are reported, and only real ones. Texts are in the configured
  language, and plural rules are read as gettext writes them.
- `layers`, `files`: overlays inherit what they do not set, reserved options stay
  global, what the schema refuses is kept and shadows nothing, a restart shows
  the same options.
- `panel`: every spinner ends, a card runs one command at a time, a newer state is
  not replaced by an older one, an adapter answers each call exactly once, and
  the monitors show what was resolved, mounted, transferred or asked last.
- `data`: pictures, colours, rows, lists, counts, samples, toasts and items are
  those of their source, though they were computed earlier or elsewhere. What an
  option holds survives the file, and an object reads the layer of its screen.
- `desk`: exactly the services in use run; audio has no gap and does not return
  after a clear; lyrics, candidates and saved selections belong to the track;
  delegates follow their rows; the lock says what a method can do. Joining the
  loop thread returns unless a stream that was streaming loses its connection for
  good, loading ends, and a list comes to rest.

The type invariants are part of the invariants of the parts or theorems.
All runs set `CHECK_DEADLOCK FALSE`: a shell that nobody uses and whose files
nobody edits really stops, and the changes of the environment are bounded.

Bounds, and why they are enough:

- `MaxWrites`, `MaxEdits`, `MaxChanges`, `MaxEvents` bound what the user, the editor
  and the compositor do. The races are between one thing in flight, one change
  that makes it late, and one later change; the bounds let each have a
  predecessor. `MaxRetries` is the code's 3.
- The documents of `RootNode`: the empty one, two different ones, one that reads
  like another but is spelled differently (load sees a change, the tree does
  not), and an array (`syncJson` refuses it). The tree `t1q` is saved as another
  document than it was read from.
- Two values per option: equal to the default or not. One overlay: overlays never
  interact. Documents of `SettingsTree` contain one key, or only legal values:
  keys are handled independently.
- `MaxLater` = 1: the user waits while a closure is queued; `Qt.callLater` runs at
  the next turn of the event loop. `spinner` leaves out the answer "unknown", which
  its trace does not need.
- `MaxScans` = 3: a scan that is overtaken, the one that overtakes it, and the next.
  `MaxDirChanges` = 3: a path, a recursive view of it, and a path below it, from
  where its rows sort otherwise than they stand.
- `MaxTurns` = 5: a start, a stream that comes up, streams, is lost and comes back.
- `Capacity` = 3 with chunks of 1 and 2: the ring wraps, and a chunk may be larger
  than the room that is left. `MaxPosted` = 2: a start and a stop overtake nothing,
  but may both be on their way.
- Batches of `LazyListView` are of one delegate, the smallest that still ends.
- Numbers of the plural rules have 8 bits (`Word`); the code's are unsigned long.

Each property of a passing run has a mutant in `PROJECT.json`, a definition next
to the one it replaces: a plausible bug that the run finds.

## Fairness

Nothing is assumed of the user, of QML or of the editor of a file. The formulas
say of each part that runs:

- `config`: the Qt event loop delivers watcher events and queued calls and fires
  running timers (`Load`, `OnFileChanged`, `OnDirChanged`, `OnLoadDebounced`,
  `Flush`, `SaveTimeout`).
- `panel`: queued closures run, the shared timer fires, live adapter calls answer.
  The last holds because every command has a start watchdog and, once started, a
  run watchdog (`SystemdAdapter.qml:233-298`); it is what the part `runner` checks
  under fairness of these watchdogs alone (`ReapOne`, `StopOne`): a process that
  never starts or never exits is assumed possible.
- `desk`: the loop thread and the real-time thread of PipeWire run, a reader ends,
  a thread that ended can be joined; the debounce of lyrics fires and the network
  stack ends every request it was given, with an error if nothing else (the code
  sets no timeout of its own and relies on this); the scene graph polishes an item
  that asked for it.

## Findings

- `stale`: when the file is removed while a save waits for the debounce, the tree
  is reset and the old document is saved all the same, because
  `settingsfile.cpp:113-117` returns before `m_pendingWrite` is cleared.
- `startup`: `RootNode::load` announces "Config loaded successfully!" right after
  announcing that reading failed.
- `reset`: resetting a sub-object that only holds refused keys drops them from
  memory and does not save.
- `quarantine`: a write inside a sub-object does not lift the refused value of
  that sub-object from its parent's quarantine, and it comes back with a reset.
- `spinner`: a trace has two cards A and B. A's stop is verified as still running,
  and the timer watches A. A is restarted; while its verification is in flight
  the timer fires and its own probe of A supersedes it. B's stop is verified as
  still running and the timer now watches B. The timer's probe of A answers and,
  as it reads `targetEntry` only then, releases B. Nothing is left to clear A's
  `busy` before a reload. The same timer also clears `busy` of a card that can be
  stopped while a newer command of it runs, so `cards` has cards that cannot.
- `saved`: `Lyrics::doLoad` restores the candidate that is selected already, which
  returns at once: the lines are cleared, the spinner runs, and nothing is asked.

Three more were met where no doc or comment says otherwise. The properties below
exclude just these schedules:

- A stream that is disconnected while it is streaming (the daemon goes) becomes
  UNCONNECTED. `streamStateChanged` has no case for it
  (`Services/audiocollector.cpp:141-142`), the timer stays disarmed (line 136) and
  no callback comes, so that nobody sees the stop request and `stop()` (lines
  247-251) joins for ever. `StopReturns` assumes that the stream does not stay so
  (`Deaf`); without the assumption TLC finds this trace.
- An `AudioProcessor` posts its own address (`Services/audioprovider.cpp:31`). If
  its provider is destroyed before the GUI thread handles the message,
  `Service::ref` connects to a freed sender (`service.cpp:13`). The action `RefFreed`
  lets the process end there or go on with that address (`freed`), and
  `RefsFollowUsers` claims nothing after it. In the shell the providers live in the
  singleton `services/Audio.qml` (lines 176 and 182), so that they are destroyed only when
  it shuts down or is reloaded.
- `FileSystemModel::setPath` tells the rows' relative paths anew
  (`Models/filesystemmodel.cpp:123-125`), which `compareEntries` sorts by, and does not
  sort the rows. After entering a subdirectory of a recursive view they stand out
  of order at least until the scan has removed what does not belong there; nothing
  sorts those that stay, nor does `setSortReverse`.
  `RowsSorted` is not claimed from there until a scan leaves them in order.

The properties name further schedules on which they would not hold; each is a
variable of its module:

- `FileSystemModel.blame`: two scans overlap, of a directory and one below it or
  of the same one, as the handler of a cancelled scan forgets the entry of the
  newer (`overlap`); a file changes in a directory that is not watched (`unseen`);
  a watch outlives the options that asked for it (`watch`); a new path or the
  reverse asks for another order than the rows stand in (`order`). `overlap` excuses
  what rows such scans leave, not that a path may have two rows or that they lose
  their order.
- `AudioCollector.stale.raced`: the real-time thread looks at the discard flag
  just before `clearBuffer` sets it.
- `Lyrics.blame`: a reply of the current request arrives while the next track waits
  for its debounce (`late`); what clearing a track left over (`stray`).
- `ImageAnalyser.overtaken`: a grab arrives after its item was replaced.
- `AppDb.outlived`: an entry is destroyed after its replacement was compared.
- `Storage.overlooked`: the chosen disk goes, and the primary disk is compared with
  what it is after the choice was cleared.
- `Gpu.moved`: a sample was taken before the chain found no NVIDIA GPU.
- `Pam.blind`: the retry timer starts a context that can no longer attempt; nothing
  is claimed of that method until the screen is locked again.
- `SettingsList.blame`: a reset of a list from QML is not saved; an overlay of
  which only elements were written while the global list changes.
- `HyprExtras.lost`: a reply that is lost or comes in parts.

## Proofs

TLAPS proves the theorems of the `*Proofs` modules for every value of the
constants that the named assumptions of the modules allow.

`RootNodeProofs`. `TypeCorrect` is inductive by itself. `WritesAreNotForgotten`
and `SavesAreNotStale` share the invariant `WriteInv`: besides the two properties
it needs `Fresh` (nothing is pending before `Load`, which resets the tree without
looking at `pending`) and `FileStays` (a document once read or saved is on disk,
so that `LoadGone` cannot run). They assume `AllowDelete = FALSE`; the run `stale`
shows that they fail without it. `PartialWritesStaySilent` needs
`RetriesCounted`: a running debounce with n retries was preceded by n malformed
reads in a row.

A composite (`MCPanel`, `MCData`, `MCDesk`) runs one part at a time, so a run of it
is, for each of its components, a run of the component's own specification that
may stutter (`EachKeepsItsSpec`). What is proved of a part is proved of that
specification; the composite only passes it on. The composites name what they
assume of their constants: that "none" is no image (`ImagesAssumption`), that the
default list is not longer than lists may be (`ListsAssumption`), that levels and
samples are numbers (`LevelsAssumption`), that interfaces and volumes are finitely many
and every disk of a volume has a place in the order (`InterfacesAssumption`,
`VolumesAssumption`, `DisksAssumption`), that paths are finitely many, lie in one
directory each but for the topmost, and no two share a rank as told from one
directory (`FoldersAssumption`), that
heights, spaces and bounds are numbers (`RowsAssumption`), the like for codecs,
attached objects, tries and cards, and nothing else.

`SettingsTreeProofs`. `OptionsInherit`, `ReservedStayGlobal` and
`OverridesAreNotQuarantined` follow from `TreeInv`, the conjunction of the three and
the types: `ReservedStayGlobal` is needed for the first because mirroring skips
global-only options, and inheritance is only promised for options a layer owns.
`PutInherits` is the heart: writing a layer and mirroring it keeps every other
layer consistent. `TypeCorrect`, `RestartsAreFaithful` and `FilesAreKept` follow
from `FilesInv`, which adds to it what a quarantine may hold (`QuarantineOK`) and
that a layer without a queued save shows what its file says (`AsSaved`). Its
lemmas are `JsonIsDoc` (what `toJson` makes is a document and reads as the
overrides it was made from) and `SyncIsFaithful` (a load followed by a save writes
the document that was read). `FilesAreKept` assumes that no sub-object is reset
(`Resettable = {}`); the run `reset` shows that it fails otherwise. `PromiseIsKept`
is the refinement of `LayeredOptions`: with `TreeInv` and layers that are not
used holding nothing (`Dormant`), what a reader sees is the overriding value
nearest to it (`ShownIsEffective`); each step changes the overrides of one layer
(`OneLayerAssigns`) and the mirroring that goes with it maps to a stutter.

`ServiceOrchestratorProofs`. `StatesStayCurrent` needs that a state is current only
if no command ended since the card's last probe began (`CurrentInv`).
`SpinnersAreAccounted` assumes that at most one card can be stopped
(`AtMostOneStops`); the invariant `SpinnerInv` says that only cards that can be
stopped are ever targets of the timer, so that every probe of the timer is one
of its current target. With two such cards the run `spinner` is the
counterexample. `CommandsTakeTurns` assumes that no card can be stopped
(`NoneStops`): the timer then never clears `busy`, and `busy` stays set while the command of a
card is in flight.

`PanelProofs`. `ShownAnswersAreCurrent` has one invariant per component. Of the GPU:
what the running chain has ruled out so far, and that what it found is what the
settings resolve to (`GpuInv`). Of the compositor: as long as the answer to a
refresh or an event about it is on its way the copy may differ, otherwise it is the
compositor's (`OptionsInv`, `DevicesInv`; a reply that was lost excuses the copy
until the next one arrives). Of the calculator: the thread of the last expression carries the
last generation (`CalcInv`). `PanelCommandsTakeTurns` takes `CommandsTakeTurns`
over to the cards of the panel, an instance of the same module.
`MonitorsShowWhatIsThere` has two halves. Of the network, `NetInv` follows the sum of
the counters: it has grown since the last tick by no more than what was carried since,
and by exactly that as long as no interface left (`SumSplits`: taking an interface out of
a sum takes its counter out). Of the disks the property is inductive once the types are
known (`DiskInv`). Every finite set has an order by rank and only one (`OrderExists`,
`SortedIs`), so the list does not depend on how the volumes were walked; and having
the same percentage, which the code compares before it tells anyone, carries over
from one scan to the next (`SameTwice`).
`AnswersAtMostOnce`, of any calls and candidates, is the safety part of the refinement
of `AdapterCall`: every step is a step of a call that is answered at most once, or a
stutter. Its invariant says that a call that waits has exactly one process that
was not finished, the last of its candidates, and a call that was answered none
(`OneOpen`); `CandidatesTakeTurns` follows from it. Both assume that
`Candidates` counts the candidates of each call (`Counted`).

`DeskProofs`. The messages in flight decide `ReferencesFollowUsers`: it generalises
to channels that are not empty, where the last message of a channel says what
the receiver will be once it is through; a crash ends the run (`CrashKeeps`).
`LockScreenTellsTries` ties the text of
each method to its count and its context (`LockInv`). `RecordingsAreTrue` states of
every place where samples are, the chunk of the real-time thread, the pending
and the read buffer and the reader, that they are consecutive and where they end
(`NoGaps`), who may hold which lock (`LocksAgree`), and that nothing of before a
clear is left behind it (`StaleIsGone`). `LyricsAreOfTheTrack` treats a step as a
function of the state (`Found`, `Select`, `Cleared`, ...) as the model does; each has
a lemma that says what it keeps, and `Accounted` that the spinner runs exactly
while a reply is awaited.

`ViewShowsItsRows`, also in `DeskProofs`, has an invariant of two parts. `ViewList` holds at
every moment: a record and at most one delegate per row, each delegate of the row at
its index, and the average that of the known records. The list computes the move of
its rows three times, by the model, by cutting and inserting records and by
re-keying delegates, and all three send a row to the same index (`ModelMovedIs`,
`RecordsMoved`, `MovedIndexIs`, put together in `ListRekeyed`); what a row adds to or
takes from the average does not depend on where it is (`AverageRekeyed`,
`AverageWithout`, `TrackedIs`). The other part is about rest. That no row in sight is
missing is not inductive, as it says nothing of the states on the way; `ViewRested`
says what holds as soon as no pass is asked for, though timers and a relayout may be
outstanding: what is pending waits for its timer, and if no relayout is
due either, rows in sight have delegates at their places and the content is as high
as the rows. It needs that placing the records twice is placing them once
(`PositionedIs`).

`DataProofs`. `PicturesAreTrue` and `JobsDoNotCollide` follow from an invariant of the
image cache (`CacheInv`) that says, at every step of a request and of a job, what is
still known of the content its key names: the request saw it (`HasSeen`), and the
file or the decoded image shows it unless the file was replaced since (`Fresh`).
`ToastsAreNeverLost` needs that the list holds no toast twice, so that
closing one removes it for good. `ColoursAreCurrent` needs `OnItsWay`: whenever the
colour is not that of the image, a grab, an analysis or an update that will
correct it has been asked for. `LauncherIsRight` says that the apps are those of
the entries with the counts of the database (`AppsFollowEntries`); the order is
whatever the comparison sorts to, which the proof does not look into.
`ScreensReachAll`
rests on what a change of screen reaches: all objects below that have no screen
of their own (`DownIs`, `TakersAre`). `ValuesSurviveTheFile` goes through the types:
what is decoded and encoded for each (`PlainDecoded`, `PlainEncoded`), then for
unions of them (`UnionDecoded`), where the first type that fits is the least
number of one (`LeastNumber`).
`SamplesAreShown` counts the places of the ring back from its head and the values
from the end of what was pushed (`Holds`), so that a place is the same before and
after the end of the array is run over (`Wrapped`). For the bars it shows that one pass
of the filter leaves of each bar the highest of those before it (`PassIsHighest`),
as a third taken off keeps which of two is higher (`CarriedIs`), hence that two
passes make the spectrum (`SmoothedIsSpectrum`); and of the two queues that the last
message in each is what its receiver will have (`NumbersArrive`, `ValuesArrive`).

`FileProofs`. `RowsAreTheFiles` is about the algorithm and the races. The
algorithm: a binary search for the place of a row, which in an ordered list ends at
the one place that keeps it ordered (`HalveIs`, `LowerBoundIs`, `InsertRowIs`); hence
removing and inserting any differences leaves rows that were ordered ordered, and
without duplicates, and those of the files that were asked for (`WithoutIs`, `WithIs`,
`AppliedIs`). The recursive functions of the search and of the folds exist because each
step is determined by the one before (`StepsExist`). The races: `DirInv` says that, unless scans
overlapped, at most one counts and that it reads with the current options (`OneScan`), that
watches are on directories that may be entered, and on subdirectories only if they are
read (`WatchesReach`, `WatchesAsked`), and that a path whose row will not be right once
the differences found are applied is awaited, by a notice that was not yet delivered or
by a scan that still reads its directory (`RowsRight`).
Two facts of the tree serve throughout: the directories above a path lie on one line
(`OneLine`), and what a scan reaches from what it reaches it reaches (`ReachedTwice`).

`ListProofs`. `ListsMirrorOrDetach` relates each element of an overlay to the element
of the global list it mirrors (`Follows`); insertion, removal and move keep the
relation (`CameFrom`: where an element was before). `ListsSurviveRestarts` adds what
each file would show (`GlobalIsFiled`, `OverlayIsFiled`, `DefaultIsKept`).
`RepeaterFollowsItsModel` is about two orders at once: that of the items, which
follows the rows, and that of the children of the parent, in which items that
left are still anywhere (`Stacked`: without them the children are the items and then
the repeater). `restack` is proved round by round (`OneRound`): after each the
children without the leavers end in the items it has passed. Insertion, removal and move are
cuts of the items (`InsertedBetween`, `TakenOut`, `RunsSwapped`), and the rows are cut
at the same places; the rows of a number are those before it (`CountedFewer`), so
that `setModel` may make or remove the difference only.

Only model-checked:

- liveness under fairness, which is out of the prover's reach: `Reconciles`,
  `BrokenIsReported`, `SpinnersStop`, the fairness of `AdaptersAnswerOnce`,
  `StopReturns`, `LoadingEnds`, `ViewSettles`;
- `TextsAreRight` and `ParserIsTheGrammar`, whose modules declare RECURSIVE operators.

Every other property of a passing run is stated by a theorem.

## Not modelled

- Session and polkit wrappers, `requests.cpp`: calls of D-Bus and of the network
  stack with hardly any state of their own.
- Blobs and the wavy line: geometry, physics and rendering in real numbers.
- Network, VPN and the other QML services: bindings to daemons, and processes
  whose output is parsed; the state is that of the daemons.
- Panels and windows: declarative user interface. Scripts: checks of the source.
- Within modelled components: texts of messages and diagnostics, validation of
  service mappings, metrics, the parsing of LRC and of program output, cavacore
  and aubio, the scaling of images, animations. QML handlers that write an option
  again from inside a change signal (`node.cpp:203`) are arbitrary code; the models
  let QML write between handlers only.

## Plan

1. The parser and evaluator of `PluralRules` as recursive functions over the
   positions of a text, so that `ParserIsTheGrammar` can be stated as a theorem.
2. `LazyListView` with asynchronous incubation and `trackViewport`.
3. Two overlays with lists of lists in `SettingsList`.
4. `Notifs.qml` and `Nmcli.qml`, whose popups and connection attempts time out.
