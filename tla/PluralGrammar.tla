----------------------------- MODULE PluralGrammar -----------------------------
(***************************************************************************)
(* The expressions PluralRules may meet: a text is typed character by      *)
(* character, or a tree is grown, operator by operator, and printed.       *)
(***************************************************************************)
EXTENDS PluralRules

CONSTANTS Alphabet,  \* the characters that are typed
          Operators, \* the binary operators of the trees
          MaxLength, \* bound: of a text
          MaxGrowth  \* bound: operators put on top of a tree

VARIABLES text, tree, growth
vars == <<text, tree, growth>>

Leaves == {<<"n">>, <<"const", 2>>}
Small == Leaves \cup {<<"!", <<"n">>>>, <<"?", <<"n">>, <<"const", 2>>, <<"n">>>>}
         \cup {<<op, <<"n">>, <<"const", 2>>>> : op \in Operators}

Init == text = "" /\ tree \in Leaves /\ growth = 0

Type(c) ==
    /\ growth = 0 /\ tree = <<"n">> /\ Len(text) < MaxLength
    /\ text' = text \o c
    /\ UNCHANGED <<tree, growth>>

Grow(t) ==
    /\ text = "" /\ growth < MaxGrowth /\ growth' = growth + 1
    /\ tree' = t
    /\ UNCHANGED text

Next ==
    \/ \E c \in Alphabet : Type(c)
    \/ Grow(<<"!", tree>>)
    \/ \E op \in Operators, other \in Small : Grow(<<op, tree, other>>) \/ Grow(<<op, other, tree>>)
    \/ \E a, b \in Leaves : Grow(<<"?", tree, a, b>>) \/ Grow(<<"?", a, tree, b>>) \/ Grow(<<"?", a, b, tree>>)

Spec == Init /\ [][Next]_vars

----------------------------------------------------------------------------
(* The descent of PluralRules agrees with the grammar of C: it takes the   *)
(* texts that are expressions and no others, and it reads every tree back  *)
(* that is written with the parentheses it needs, so its operators bind    *)
(* and associate as they should.                                           *)
ParserIsTheGrammar ==
    /\ (ParseRule(text) # <<"none">>) <=> IsExpression(text)
    /\ ParseRule(Shown(tree)) = tree
=============================================================================
