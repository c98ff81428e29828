------------------------------ MODULE MCConfig ------------------------------
(***************************************************************************)
(* The parts of the configuration beside the option tree, one of which runs:*)
(* RootNode with a file that is never removed and two writes of QML,       *)
(* RootNode with a file and a directory that come and go, the codecs, the  *)
(* attached objects that pick the layer of a screen, and the texts of a    *)
(* language with their plural rules.                                       *)
(***************************************************************************)
EXTENDS MCRootNode, Integers, TLC

\* A language with three forms, one with a rule of its own, one without
\* plurals, one whose catalog has no header, and one that cannot be read.
Header(k, e) == <<"", <<[nplurals |-> k, plural |-> e]>>>>
SomeCatalogs ==
    "pl" :> [readable |-> TRUE,
             entries |-> <<Header(3, "n==1?0:n%10>=2&&n%10<=4&&(n%100<10||n%100>=20)?1:2"),
                           <<"day", <<"dzien", "dni", "dni ">>>>,
                           <<"file", <<"plik", "pliki", "plikow">>>>, <<"on", <<"wl">>>>>>]
    @@ "fr" :> [readable |-> TRUE,
                entries |-> <<Header(2, "n>1"), <<"day", <<"jour", "jours">>>>,
                              <<"file", <<"fichier", "fichiers">>>>>>]
    @@ "ja" :> [readable |-> TRUE,
                entries |-> <<Header(1, "0"), <<"file", <<"fairu">>>>, <<"on", <<"on ">>>>>>]
    @@ "sv" :> [readable |-> TRUE, entries |-> <<<<"day", <<"dag", "dagar">>>>, <<"on", <<"pa">>>>>>]
    @@ "xx" :> [readable |-> FALSE, entries |-> <<>>]
SomeCounts == 0 .. 25 \cup {100, 101, 102, 112, 122}
TheForm ==
    "pl" :> [n \in SomeCounts |-> IF n = 1 THEN 0
                                 ELSE IF n % 10 \in 2 .. 4 /\ n % 100 \notin 12 .. 14 THEN 1 ELSE 2]
    @@ "fr" :> [n \in SomeCounts |-> IF n \in {0, 1} THEN 0 ELSE 1]
    @@ "ja" :> [n \in SomeCounts |-> 0]
    @@ "sv" :> [n \in SomeCounts |-> IF n = 1 THEN 0 ELSE 1]

VARIABLE part   \* the component that runs

VARIABLES dPhase, dTree, dDirty, dLastData, dPending, dSaveTimer, dSaveQueued,
          dLoadTimer, dRetries, dDisk, dDirExists, dDirWatched, dFileWatched,
          dDirEvent, dFileEvent, dSignals, dSaveFailed, dBadReads, dWrites,
          dEdits
dVars == <<dPhase, dTree, dDirty, dLastData, dPending, dSaveTimer, dSaveQueued,
           dLoadTimer, dRetries, dDisk, dDirExists, dDirWatched, dFileWatched,
           dDirEvent, dFileEvent, dSignals, dSaveFailed, dBadReads, dWrites,
           dEdits>>
D == INSTANCE RootNode WITH
    phase <- dPhase, tree <- dTree, dirty <- dDirty, lastData <- dLastData,
    pending <- dPending, saveTimer <- dSaveTimer, saveQueued <- dSaveQueued,
    loadTimer <- dLoadTimer, retries <- dRetries, disk <- dDisk,
    dirExists <- dDirExists, dirWatched <- dDirWatched,
    fileWatched <- dFileWatched, dirEvent <- dDirEvent,
    fileEvent <- dFileEvent, signals <- dSignals, saveFailed <- dSaveFailed,
    badReads <- dBadReads, writes <- dWrites, edits <- dEdits,
    SaveOutcomes <- {"ok", "mkpath"}, AllowDelete <- TRUE, MaxWrites <- 1,
    MaxEdits <- 2

VARIABLES trsOption, trsLanguage, trsEntries, trsRule, trsShown, trsChanges
trsVars == <<trsOption, trsLanguage, trsEntries, trsRule, trsShown, trsChanges>>
Texts == INSTANCE Translator WITH
    option <- trsOption, language <- trsLanguage, entries <- trsEntries,
    rule <- trsRule, shown <- trsShown, changes <- trsChanges, Word <- 256,
    Catalogs <- SomeCatalogs,
    Rank <- "" :> 0 @@ "day" :> 1 @@ "file" :> 2 @@ "on" :> 3,
    Texts <- {<<"day", "days">>, <<"file", "files">>, <<"on", "on">>},
    Locale <- <<"de", "fr">>, Form <- TheForm, Counts <- SomeCounts,
    MaxChanges <- 3

VARIABLES graText, graTree, graGrowth
graVars == <<graText, graTree, graGrowth>>
Grammar == INSTANCE PluralGrammar WITH
    text <- graText, tree <- graTree, growth <- graGrowth, Word <- 256,
    Alphabet <- {"n", "1", "!", "=", "<", "&", "(", ")", "?", ":", "+"},
    Operators <- {"||", "&&", "==", "<", "<=", "+", "-", "*", "%"},
    MaxLength <- 4, MaxGrowth <- 2

----------------------------------------------------------------------------
\* Components that do not run are in one of their initial states.
ConfigInit ==
    /\ part \in {"edits", "deletes", "texts", "grammar"}
    /\ Init
    /\ part = "edits" \/ (~dirExists)
    /\ D!Init
    /\ part = "deletes" \/ (~dDirExists)
    /\ Texts!Init
    /\ part = "texts" \/ (trsOption = "")
    /\ Grammar!Init
    /\ part = "grammar" \/ (graTree = <<"n">>)

ConfigNext ==
    \/ part = "edits" /\ Next /\ UNCHANGED <<part, dVars, trsVars, graVars>>
    \/ part = "deletes" /\ D!Next /\ UNCHANGED <<part, vars, trsVars, graVars>>
    \/ part = "texts" /\ Texts!Next /\ UNCHANGED <<part, vars, dVars, graVars>>
    \/ part = "grammar" /\ Grammar!Next /\ UNCHANGED <<part, vars, dVars,
         trsVars>>

configVars == <<part, vars, dVars, trsVars, graVars>>
ConfigSpec == ConfigInit /\ [][ConfigNext]_configVars

(* The fairness of the instance that runs. *)
ConfigFairSpec ==
    /\ ConfigSpec
    /\ WF_vars(part = "edits" /\ Load) /\ WF_vars(part = "edits" /\ OnFileChanged)
    /\ WF_vars(part = "edits" /\ OnDirChanged) /\ WF_vars(part = "edits" /\ OnLoadDebounced)
    /\ WF_vars(part = "edits" /\ Flush) /\ WF_vars(part = "edits" /\ SaveTimeout)
    /\ WF_dVars(part = "deletes" /\ D!Load) /\ WF_dVars(part = "deletes" /\ D!OnFileChanged)
    /\ WF_dVars(part = "deletes" /\ D!OnDirChanged)
    /\ WF_dVars(part = "deletes" /\ D!OnLoadDebounced)
    /\ WF_dVars(part = "deletes" /\ D!Flush) /\ WF_dVars(part = "deletes" /\ D!SaveTimeout)
----------------------------------------------------------------------------
(* BrokenFileIsReported of RootNode, where the file may be removed and     *)
(* made again while it is retried.                                         *)
BrokenIsReported == part = "deletes" => D!BrokenFileIsReported

(* Translator: every text is shown in the language that was resolved, in   *)
(* the form its grammar asks for.                                          *)
TextsAreRight == part = "texts" => Texts!TextsAreRight

(* PluralGrammar: the parser takes the expressions of the grammar, all of  *)
(* them, and reads them as they were written.                              *)
ParserIsTheGrammar == part = "grammar" => Grammar!ParserIsTheGrammar
============================================================================
