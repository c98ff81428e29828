------------------------------ MODULE Translator -------------------------------
(***************************************************************************)
(* caelestia::i18n::Translator: the texts of the shell in the language of  *)
(* the options or else of the system.  The catalog of a language is a      *)
(* binary file: a table of entries sorted by their key, the entry of the   *)
(* empty key holding the plural rule.  A catalog is a record [readable,    *)
(* entries], an entry <<key, forms>>; the form of the empty key is a       *)
(* record [nplurals, plural].  The placeholders of a text, and the texts   *)
(* marked to be translated later, are left out.                            *)
(***************************************************************************)
EXTENDS PluralRules, FiniteSets

CONSTANTS Catalogs,   \* language |-> its catalog
          Rank,       \* key |-> its place in the order of the bytes
          Texts,      \* texts and their English plurals, <<text, plural>>
          Locale,     \* QLocale::uiLanguages, the best one first
          Form,       \* language |-> count |-> the form its grammar asks for
          Counts,
          MaxChanges  \* bound: changes of the option

VARIABLES option,   \* general.language of the global layer
          language, \* m_language
          entries,  \* of m_catalog, m_count is their number
          rule,     \* m_plurals: [nplurals, tree]
          shown,    \* history: what QML shows, <<text, count>> |-> translation
          changes
vars == <<option, language, entries, rule, shown, changes>>

----------------------------------------------------------------------------
(* lookupRaw: a binary search for the key; <<>> when it is not there. *)
LookupRaw(table, key) ==
    LET search[bounds \in (0 .. Len(table)) \X (0 .. Len(table))] ==
            LET probe == bounds[1] + (bounds[2] - bounds[1]) \div 2
            IN  IF bounds[1] >= bounds[2] THEN <<>>
                ELSE IF table[probe + 1][1] = key THEN table[probe + 1][2]
                ELSE IF Rank[key] < Rank[table[probe + 1][1]] THEN search[<<bounds[1], probe>>]
                ELSE search[<<probe + 1, bounds[2]>>]
    IN  search[<<0, Len(table)>>]

(* lookup and segment: "" when there is no such form. *)
Lookup(table, key, index) ==
    LET forms == LookupRaw(table, key) IN IF index < Len(forms) THEN forms[index + 1] ELSE ""

(* translatePlural *)
TranslatePlural(table, plurals, text, n) ==
    LET english == IF n = 1 THEN text[1] ELSE text[2]
        found == IF table = <<>> THEN ""
                 ELSE Lookup(table, text[1], Evaluate(plurals.nplurals, plurals.tree, n))
    IN  IF found = "" THEN english ELSE found

Show(table, plurals) == [t \in Texts, n \in Counts |-> TranslatePlural(table, plurals, t, n)]

(* PluralRules::parse of the header, after its reset. *)
NoRule == [nplurals |-> 2, tree |-> <<"none">>]
ParseHeader(forms) ==
    IF forms = <<>> THEN NoRule
    ELSE [nplurals |-> IF forms[1].nplurals > 0 THEN forms[1].nplurals ELSE 2,
          tree |-> ParseRule(forms[1].plural)]

(* resolveLanguage and langForLocale *)
Resolved(l) ==
    IF l \in DOMAIN Catalogs THEN l
    ELSE LET found == {i \in DOMAIN Locale : Locale[i] \in DOMAIN Catalogs}
         IN  IF found = {} THEN "" ELSE Locale[CHOOSE i \in found : \A k \in found : i <= k]

(* Mutant: a catalog without a rule leaves the rule of the last one. *)
LoadKeepingRule(l) ==
    IF l = "" THEN entries' = <<>> /\ UNCHANGED rule
    ELSE IF ~Catalogs[l].readable THEN entries' = <<>> /\ UNCHANGED rule
    ELSE /\ entries' = Catalogs[l].entries
         /\ rule' = IF LookupRaw(entries', "") = <<>> THEN rule ELSE ParseHeader(LookupRaw(entries', ""))

(* loadTranslations; a catalog that cannot be read leaves none. *)
LoadTranslations(l) ==
    IF l = "" THEN entries' = <<>> /\ UNCHANGED rule
    ELSE IF ~Catalogs[l].readable THEN entries' = <<>> /\ UNCHANGED rule
    ELSE entries' = Catalogs[l].entries /\ rule' = ParseHeader(LookupRaw(entries', ""))

(* The option is changed, by setLanguageQml or in the file: setLanguage. *)
SetLanguage(l) ==
    /\ changes < MaxChanges /\ changes' = changes + 1
    /\ l # option /\ option' = l
    /\ language' = Resolved(l)
    /\ IF language' = language THEN UNCHANGED <<entries, rule, shown>>
       ELSE LoadTranslations(language') /\ shown' = Show(entries', rule')

(* The shell starts with whatever the option is. *)
Init ==
    /\ option \in DOMAIN Catalogs \cup {"", "unknown"}
    /\ language = Resolved(option)
    /\ entries = IF language = "" THEN <<>>
                 ELSE IF Catalogs[language].readable THEN Catalogs[language].entries ELSE <<>>
    /\ rule = IF entries = <<>> THEN NoRule ELSE ParseHeader(LookupRaw(entries, ""))
    /\ shown = Show(entries, rule)
    /\ changes = 0

Next == \E l \in DOMAIN Catalogs \cup {"", "unknown"} : SetLanguage(l)

Spec == Init /\ [][Next]_vars

----------------------------------------------------------------------------
(* The forms a readable catalog has for a text, wherever they stand. *)
FormsOf(l, key) ==
    UNION {IF e[1] = key THEN {e[2]} ELSE {} : e \in {Catalogs[l].entries[i] : i \in DOMAIN Catalogs[l].entries}}

(* Whatever languages were set before: every text is shown in the form the *)
(* grammar of the language asks for that count, and in English when the    *)
(* language, its catalog, the text or the form is not there.               *)
TextsAreRight ==
    \A t \in Texts, n \in Counts :
       \E forms \in {IF language = "" THEN {} ELSE
                     IF Catalogs[language].readable THEN FormsOf(language, t[1]) ELSE {}} :
          shown[t, n] =
             IF \E f \in forms : Form[language][n] < Len(f)
             THEN LET f == CHOOSE f \in forms : TRUE IN f[Form[language][n] + 1]
             ELSE IF n = 1 THEN t[1] ELSE t[2]
=============================================================================
