------------------------------- MODULE MCData -------------------------------
(***************************************************************************)
(* The models, the images, the lists, the codecs and the attached objects of*)
(* the shell in one run: each is a small instance of its module, and one of*)
(* them runs.                                                              *)
(***************************************************************************)
EXTENDS ImageCache, Integers, SequencesExt, TLC

CONSTANTS Sources, Unreadable, Items, Sizes, MaxColourChanges, ListValues,
          NoValue, ElementDefault, DefaultList, Docs, ListIds, MaxLen,
          MaxListChanges, AppIds, AppRank, AppCopies, Databases, Locked,
          Memory, MaxStarts, MaxAppChanges, Samples, Capacities, MaxSpan,
          MaxBars, Levels, SomeToasts, Screens, MaxShows, RepeaterRows,
          MaxRepeaterRows, MaxRepeaterItems, MaxRepeats, Animates, FileNumbers,
          IntMax, Texts, EnumKeys, MaxUnion, MaxSteps, Attachables,
          MaxAttachments, Folders, LooseFiles, FolderOf, NameRank, DotFolders,
          FileFilters, FileTrees, MaxDirScans, MaxFileEdits, MaxDirChanges

\* Nothing is no file and no item, and a file is no item.
ASSUME ImagesAssumption ==
    /\ None \notin Sources \cup Items /\ Sources \cap Items = {}
    /\ Sizes # {}

\* A list fits into the bound, wherever it comes from, a file without a list
\* is no list, and there is always a new identity for an element.
ASSUME ListsAssumption ==
    /\ MaxLen \in Nat /\ MaxListChanges \in Nat
    /\ NoValue \notin ListValues /\ ElementDefault \in ListValues
    /\ DefaultList \in BoundedSeq(ListValues, MaxLen)
    /\ Docs \subseteq BoundedSeq(ListValues \cup {NoValue}, MaxLen)
    /\ None \notin BoundedSeq(ListValues \cup {NoValue}, MaxLen) \cup ListIds
ASSUME RoomAssumption ==
    \A old \in BoundedSeq(ListIds, MaxLen), n \in 0 .. MaxLen :
        \E new \in [1 .. n -> ListIds \ Range(old)] : IsInjective(new)

\* What is measured and drawn is never negative, and neither are numbers of rows.
ASSUME LevelsAssumption ==
    /\ Samples \subseteq Nat /\ Capacities \subseteq Nat /\ MaxSpan \in Nat
    /\ Levels \subseteq Nat /\ MaxBars \in Nat /\ MaxRepeaterRows \in Nat

\* An enumerator is the name of itself.
ASSUME CodecsAssumption ==
    /\ FileNumbers \subseteq Int /\ IntMax \in Nat
    /\ \A s \in DOMAIN EnumKeys : /\ EnumKeys[s] \in DOMAIN EnumKeys
                                   /\ EnumKeys[EnumKeys[s]] = EnumKeys[s]

\* No object is above those that have none above them.
ASSUME AttachablesAssumption == None \notin Attachables

\* Everything is in one directory but the topmost, and no two names are the same.
ASSUME FoldersAssumption ==
    LET paths == Folders \cup LooseFiles
    IN  /\ None \notin Folders /\ Folders \cap LooseFiles = {} /\ IsFiniteSet(paths)
        /\ FolderOf \in [DOMAIN FolderOf -> Folders]
        /\ LooseFiles \subseteq DOMAIN FolderOf /\ DOMAIN FolderOf \subseteq paths
        /\ NameRank \in [Folders \cup {None} -> [paths -> Nat]]
        /\ \A d \in Folders \cup {None} : \A p, q \in paths :
              NameRank[d][p] = NameRank[d][q] => p = q
        /\ FileFilters \subseteq SUBSET paths /\ paths \in FileFilters
        /\ FileTrees # {} /\ \A tree \in FileTrees : Folders \subseteq tree /\ tree \subseteq paths

\* A directory with two files and a subdirectory with one.
TreePaths  == {"a", "sub", "a1", "a2", "s1"}
TreeParent == "sub" :> "a" @@ "a1" :> "a" @@ "a2" :> "a" @@ "s1" :> "sub"
\* The file of the subdirectory sorts between the others, told from their
\* directory, and after them, told from its own.
FromTop    == "a" :> 1 @@ "a1" :> 2 @@ "sub" :> 3 @@ "s1" :> 4 @@ "a2" :> 5
FromSub    == "a" :> 1 @@ "a1" :> 2 @@ "sub" :> 3 @@ "a2" :> 4 @@ "s1" :> 5
TreeRank   == "a" :> FromTop @@ "sub" :> FromSub @@ None :> FromTop
ImagesOrAll == {TreePaths, TreePaths \ {"a1"}}
FullOrNot  == {TreePaths, {"a", "sub", "a2"}}

\* A list of one element by default, one file without its option, one with two.
OneElement == <<"v1">>
TwoFiles   == {<<"none">>, <<"v2", "v1">>}

\* The second app has the first name.
SecondFirst == <<2, 1>>

\* Two spellings of one enumerator, and another.
OnAndOff == "on" :> "on" @@ "ON" :> "on" @@ "off" :> "off"

\* Numbers that may stand in a file, in halves: a half, integers, one too small.
SomeNumbers == {1, 2, 6, -8}

VARIABLE part   \* the component that runs

VARIABLES colSource, colItem, colSize, colVisible, colArmed, colGrabs,
          colFuture, colResult, colChanges, colOvertaken
colVars == <<colSource, colItem, colSize, colVisible, colArmed, colGrabs,
           colFuture, colResult, colChanges, colOvertaken>>
Analyser == INSTANCE ImageAnalyser WITH
    source <- colSource, item <- colItem, size <- colSize,
    visible <- colVisible, armed <- colArmed, grabs <- colGrabs,
    future <- colFuture, result <- colResult, changes <- colChanges,
    overtaken <- colOvertaken, Sources <- Sources, Unreadable <- Unreadable,
    Items <- Items, Sizes <- Sizes, MaxChanges <- MaxColourChanges

VARIABLES dirOpt, dirEntries, dirScans, dirFutures, dirWatched, dirListings,
          dirNotices, dirDisk, dirEdits, dirChanges, dirBlame
dirVars == <<dirOpt, dirEntries, dirScans, dirFutures, dirWatched, dirListings,
           dirNotices, dirDisk, dirEdits, dirChanges, dirBlame>>
Directory == INSTANCE FileSystemModel WITH
    opt <- dirOpt, entries <- dirEntries, scans <- dirScans,
    futures <- dirFutures, watched <- dirWatched, listings <- dirListings,
    notices <- dirNotices, disk <- dirDisk, edits <- dirEdits,
    changes <- dirChanges, blame <- dirBlame, Dirs <- Folders,
    Files <- LooseFiles, Parent <- FolderOf, Rank <- NameRank,
    HiddenDirs <- DotFolders, Filters <- FileFilters, NoPath <- None,
    Disks <- FileTrees, MaxScans <- MaxDirScans, MaxEdits <- MaxFileEdits,
    MaxChanges <- MaxDirChanges

VARIABLES listGlobal, listOverlay, listOver, listDirty, listFile, listChanges,
          listBlame
listVars == <<listGlobal, listOverlay, listOver, listDirty, listFile,
           listChanges, listBlame>>
Lists == INSTANCE SettingsList WITH
    global <- listGlobal, overlay <- listOverlay, over <- listOver,
    dirty <- listDirty, file <- listFile, changes <- listChanges,
    blame <- listBlame, Values <- ListValues, NoValue <- NoValue,
    ElementDefault <- ElementDefault, DefaultList <- DefaultList, Docs <- Docs,
    NoDoc <- None, Ids <- ListIds, NoNode <- None, MaxLen <- MaxLen,
    MaxChanges <- MaxListChanges

VARIABLES appEntries, appDead, appApps, appDying, appTimer, appPath, appStored,
          appFavourites, appShown, appStarts, appChanges, appOutlived
appVars == <<appEntries, appDead, appApps, appDying, appTimer, appPath,
           appStored, appFavourites, appShown, appStarts, appChanges,
           appOutlived>>
Launcher == INSTANCE AppDb WITH
    entries <- appEntries, dead <- appDead, apps <- appApps, dying <- appDying,
    timer <- appTimer, path <- appPath, stored <- appStored,
    favourites <- appFavourites, shown <- appShown, starts <- appStarts,
    changes <- appChanges, outlived <- appOutlived, Ids <- AppIds,
    Rank <- AppRank, Copies <- AppCopies, Paths <- Databases, Locked <- Locked,
    Memory <- Memory, MaxStarts <- MaxStarts, MaxChanges <- MaxAppChanges

VARIABLES bufRing, bufMaximum, bufLatest
bufVars == <<bufRing, bufMaximum, bufLatest>>
Buffer == INSTANCE RingBuffer WITH
    ring <- bufRing, maximum <- bufMaximum, latest <- bufLatest,
    Values <- Samples, Capacities <- Capacities, Spans <- MaxSpan

VARIABLES cavaBars, cavaValues, cavaToProcessor, cavaToProvider, cavaPBars,
          cavaPValues, cavaAsked, cavaPAsked, cavaOutputs, cavaOut, cavaFresh
cavaVars == <<cavaBars, cavaValues, cavaToProcessor, cavaToProvider, cavaPBars,
           cavaPValues, cavaAsked, cavaPAsked, cavaOutputs, cavaOut, cavaFresh>>
Cava == INSTANCE CavaProvider WITH
    bars <- cavaBars, values <- cavaValues, toProcessor <- cavaToProcessor,
    toProvider <- cavaToProvider, pBars <- cavaPBars, pValues <- cavaPValues,
    asked <- cavaAsked, pAsked <- cavaPAsked, outputs <- cavaOutputs,
    out <- cavaOut, fresh <- cavaFresh, MaxBars <- MaxBars, Levels <- Levels,
    MaxChanges <- 3, MaxOutputs <- 2

VARIABLES toastToasts, toastClosed, toastLocks, toastPending, toastDelegates,
          toastShows
toastVars == <<toastToasts, toastClosed, toastLocks, toastPending,
           toastDelegates, toastShows>>
Toasts == INSTANCE Toaster WITH
    toasts <- toastToasts, closed <- toastClosed, locks <- toastLocks,
    pending <- toastPending, delegates <- toastDelegates, shows <- toastShows,
    Toasts <- SomeToasts, Screens <- Screens, MaxShows <- MaxShows

VARIABLES repMode, repRows, repComplete, repItems, repLeaving, repFresh,
          repAdding, repFlush, repStack, repCreated, repRepeats
repVars == <<repMode, repRows, repComplete, repItems, repLeaving, repFresh,
           repAdding, repFlush, repStack, repCreated, repRepeats>>
Repeater == INSTANCE AnimatedRepeater WITH
    mode <- repMode, rows <- repRows, complete <- repComplete,
    items <- repItems, leaving <- repLeaving, fresh <- repFresh,
    adding <- repAdding, flush <- repFlush, stack <- repStack,
    created <- repCreated, repeats <- repRepeats, Rows <- RepeaterRows,
    MaxRows <- MaxRepeaterRows, MaxItems <- MaxRepeaterItems,
    MaxRepeats <- MaxRepeats, Animated <- Animates

VARIABLES codType, codValue, codFile, codSteps
codVars == <<codType, codValue, codFile, codSteps>>
Coding == INSTANCE Codecs WITH
    type <- codType, value <- codValue, file <- codFile, steps <- codSteps,
    Numbers <- FileNumbers, IntMax <- IntMax, Strings <- Texts,
    Keys <- EnumKeys, MaxUnion <- MaxUnion, MaxSteps <- MaxSteps

VARIABLES attParent, attScreen, attLayer, attCreated, attChanges, attOwn,
          attSeen
attVars == <<attParent, attScreen, attLayer, attCreated, attChanges, attOwn,
           attSeen>>
Attached == INSTANCE AttachedScreens WITH
    parent <- attParent, screen <- attScreen, layer <- attLayer,
    created <- attCreated, changes <- attChanges, own <- attOwn,
    seen <- attSeen, Objects <- Attachables, Screens <- Screens, None <- None,
    MaxChanges <- MaxAttachments

----------------------------------------------------------------------------
\* Components that do not run are in one of their initial states.
DataInit ==
    /\ part \in {"cache", "colour", "rows", "lists", "apps", "ring", "bars",
                 "toasts", "items", "codecs", "screens"}
    /\ Init
    /\ part = "cache" \/ (file = [p \in Paths |-> None])
    /\ Analyser!Init
    /\ part = "colour" \/ (colVisible = {} /\ colSize = CHOOSE n \in Sizes : TRUE)
    /\ Directory!Init
    /\ part = "rows" \/ (dirDisk = CHOOSE tree \in FileTrees : TRUE)
    /\ Lists!Init
    /\ Launcher!Init
    /\ Buffer!Init
    /\ part = "ring" \/ (bufRing = Buffer!Empty(0))
    /\ Cava!Init
    /\ Toasts!Init
    /\ Repeater!Init
    /\ Coding!Init
    /\ part = "codecs" \/ (codType = <<"Bool">> /\ codFile = <<"undefined">>)
    /\ Attached!Init

DataNext ==
    \/ part = "cache" /\ Next /\ UNCHANGED <<part, colVars, dirVars, listVars,
         appVars, bufVars, cavaVars, toastVars, repVars, codVars, attVars>>
    \/ part = "colour" /\ Analyser!Next /\ UNCHANGED <<part, vars, dirVars,
         listVars, appVars, bufVars, cavaVars, toastVars, repVars, codVars,
         attVars>>
    \/ part = "rows" /\ Directory!Next /\ UNCHANGED <<part, vars, colVars,
         listVars, appVars, bufVars, cavaVars, toastVars, repVars, codVars,
         attVars>>
    \/ part = "lists" /\ Lists!Next /\ UNCHANGED <<part, vars, colVars,
         dirVars, appVars, bufVars, cavaVars, toastVars, repVars, codVars,
         attVars>>
    \/ part = "apps" /\ Launcher!Next /\ UNCHANGED <<part, vars, colVars,
         dirVars, listVars, bufVars, cavaVars, toastVars, repVars, codVars,
         attVars>>
    \/ part = "ring" /\ Buffer!Next /\ UNCHANGED <<part, vars, colVars,
         dirVars, listVars, appVars, cavaVars, toastVars, repVars, codVars,
         attVars>>
    \/ part = "bars" /\ Cava!Next /\ UNCHANGED <<part, vars, colVars, dirVars,
         listVars, appVars, bufVars, toastVars, repVars, codVars, attVars>>
    \/ part = "toasts" /\ Toasts!Next /\ UNCHANGED <<part, vars, colVars,
         dirVars, listVars, appVars, bufVars, cavaVars, repVars, codVars,
         attVars>>
    \/ part = "items" /\ Repeater!Next /\ UNCHANGED <<part, vars, colVars,
         dirVars, listVars, appVars, bufVars, cavaVars, toastVars, codVars,
         attVars>>
    \/ part = "codecs" /\ Coding!Next /\ UNCHANGED <<part, vars, colVars,
         dirVars, listVars, appVars, bufVars, cavaVars, toastVars, repVars,
         attVars>>
    \/ part = "screens" /\ Attached!Next /\ UNCHANGED <<part, vars, colVars,
         dirVars, listVars, appVars, bufVars, cavaVars, toastVars, repVars,
         codVars>>

dataVars == <<part, vars, colVars, dirVars, listVars, appVars, bufVars,
           cavaVars, toastVars, repVars, codVars, attVars>>
DataSpec == DataInit /\ [][DataNext]_dataVars
----------------------------------------------------------------------------
(* ImageAnalyser: the colour at rest is that of the image now set. *)
ResultIsCurrent == part = "colour" => Analyser!TypeOK /\ Analyser!ResultIsCurrent

(* FileSystemModel: no path has two rows, the rows stay in the order of    *)
(* compareEntries through every batch of removals and insertions, and at   *)
(* rest they are the files of the directory.                               *)
RowsFollowTheDisk ==
    part = "rows" => /\ Directory!TypeOK
                     /\ Directory!NoRowTwice /\ Directory!RowsSorted /\ Directory!RowsSettle

(* ListNode: a list that is not overridden mirrors the global one element  *)
(* by element, one that is overridden is reached by none of its changes.   *)
ListsFollowOrDetach ==
    part = "lists" => Lists!TypeOK /\ Lists!MirrorsGlobal /\ Lists!OverriddenIsDetached

(* ListNode: a restart shows the lists of before, but for the two cases    *)
(* RestartShowsTheSame of SettingsList names.                              *)
RestartShowsTheLists == part = "lists" => Lists!RestartShowsTheSame

(* AppDb: the launcher shows the right apps, in order, with their counts. *)
AppsAreRight == part = "apps" => Launcher!AppsAreRight

(* RingBuffer and CavaProvider: a buffer holds the newest values and their *)
(* maximum, and the bars are the newest spectrum, smoothed.                *)
SamplesAreTheLatest ==
    /\ part = "ring" => Buffer!HoldsTheLatest
    /\ part = "bars" => Cava!BarsAreTheSpectrum

(* Toaster: no toast is freed in use, none is kept for good. *)
ToastsAreAccounted == part = "toasts" => Toasts!ToastsAreAccounted

(* AnimatedRepeater: the items and the children of the parent are those of *)
(* the rows, in their order; no timer or queue holds one that is gone.     *)
RepeaterMirrorsModel ==
    part = "items" => Repeater!ItemsMirrorModel /\ Repeater!StackMirrorsItems

(* Codecs: what the schema accepts is saved and loaded as it was, and what *)
(* the file had is written back as the same value.                         *)
CodecsAgree == part = "codecs" => Coding!CodecsAgree

(* AttachedScreens: an object reads the layer of the screen it is on.      *)
ScreensFollow == part = "screens" => Attached!ScreensFollow
============================================================================
