------------------------------ MODULE PluralRules ------------------------------
(***************************************************************************)
(* caelestia::i18n::PluralRules: the Plural-Forms rule of a catalog is a C *)
(* expression of the number n, parsed by recursive descent into a tree.    *)
(* An expression is a string without spaces; a tree is a tuple that begins *)
(* with its operator; the result of a parse is [tree, pos, failed].        *)
(* Numbers are quint32: they are counted modulo Word.                      *)
(***************************************************************************)
EXTENDS Integers, Sequences

CONSTANT Word \* 2 ^ 32 in the code

Char(s, i) == IF i <= Len(s) THEN SubSeq(s, i, i) ELSE ""
Digits == <<"0", "1", "2", "3", "4", "5", "6", "7", "8", "9">>
IsDigit(c) == \E d \in 1 .. 10 : Digits[d] = c
Digit(c) == (CHOOSE d \in 1 .. 10 : Digits[d] = c) - 1

----------------------------------------------------------------------------
(* The operators of the levels from parseOr down to parseMultiplicative,   *)
(* in the order in which they are tried.                                   *)
Levels == <<{"||"}, {"&&"}, {"==", "!="}, {"<=", ">=", "<", ">"}, {"+", "-"}, {"*", "/", "%"}>>

(* consume: the longer of two operators that both fit is tried first. *)
At(s, pos, token) == SubSeq(s, pos, IF pos + Len(token) - 1 <= Len(s) THEN pos + Len(token) - 1 ELSE Len(s)) = token

(* Mutant: an operator of one character is tried before that of two. *)
TakeShort(s, pos, ops) ==
    LET fit == {op \in ops : At(s, pos, op)}
    IN  IF fit = {} THEN "" ELSE CHOOSE op \in fit : \A o \in fit : Len(op) <= Len(o)

Take(s, pos, ops) ==
    LET fit == {op \in ops : At(s, pos, op)}
    IN  IF fit = {} THEN "" ELSE CHOOSE op \in fit : \A o \in fit : Len(op) >= Len(o)

Result(tree, pos, failed) == [tree |-> tree, pos |-> pos, failed |-> failed]

RECURSIVE Number(_, _, _)
Number(s, pos, value) ==
    IF IsDigit(Char(s, pos)) THEN Number(s, pos + 1, (value * 10 + Digit(Char(s, pos))) % Word)
    ELSE Result(<<"const", value>>, pos, FALSE)

RECURSIVE ParseTernary(_, _), ParseLevel(_, _, _), ParseRest(_, _, _), ParseUnary(_, _)

ParsePrimary(s, pos) ==
    IF At(s, pos, "(")
    THEN LET inner == ParseTernary(s, pos + 1)
         IN  IF At(s, inner.pos, ")") THEN Result(inner.tree, inner.pos + 1, inner.failed)
             ELSE Result(inner.tree, inner.pos, TRUE)
    ELSE IF Char(s, pos) = "n" THEN Result(<<"n">>, pos + 1, FALSE)
    ELSE IF IsDigit(Char(s, pos)) THEN Number(s, pos, 0)
    ELSE Result(<<"none">>, pos, TRUE)

(* `!=` is an operator, not a negated operand. *)
ParseUnary(s, pos) ==
    IF Char(s, pos) = "!" /\ Char(s, pos + 1) # "="
    THEN LET inner == ParseUnary(s, pos + 1)
         IN  Result(<<"!", inner.tree>>, inner.pos, inner.failed)
    ELSE ParsePrimary(s, pos)

(* The loop of a level: operands to the right of what there is so far. *)
ParseRest(s, level, left) ==
    LET op == Take(s, left.pos, Levels[level])
    IN  IF op = "" THEN left
        ELSE LET right == ParseLevel(s, level + 1, left.pos + Len(op))
             IN  ParseRest(s, level,
                           Result(<<op, left.tree, right.tree>>, right.pos, left.failed \/ right.failed))

ParseLevel(s, level, pos) ==
    IF level > Len(Levels) THEN ParseUnary(s, pos) ELSE ParseRest(s, level, ParseLevel(s, level + 1, pos))

ParseTernary(s, pos) ==
    LET cond == ParseLevel(s, 1, pos)
    IN  IF ~At(s, cond.pos, "?") THEN cond
        ELSE LET lhs == ParseTernary(s, cond.pos + 1)
                 colon == At(s, lhs.pos, ":")
                 rhs == ParseTernary(s, IF colon THEN lhs.pos + 1 ELSE lhs.pos)
             IN  Result(<<"?", cond.tree, lhs.tree, rhs.tree>>, rhs.pos,
                        cond.failed \/ lhs.failed \/ ~colon \/ rhs.failed)

(* The expression of parse: <<"none">> when it is not one as a whole. *)
ParseRule(s) ==
    LET root == ParseTernary(s, 1)
    IN  IF s = "" \/ root.failed \/ root.pos # Len(s) + 1 THEN <<"none">> ELSE root.tree

----------------------------------------------------------------------------
Truth(b) == IF b THEN 1 ELSE 0

RECURSIVE Eval(_, _)
Eval(tree, n) ==
    LET a == Eval(tree[2], n)
        b == Eval(tree[3], n)
    IN  CASE tree[1] = "n" -> n
          [] tree[1] = "const" -> tree[2]
          [] tree[1] = "!" -> Truth(a = 0)
          [] tree[1] = "*" -> (a * b) % Word
          [] tree[1] = "/" -> IF b = 0 THEN 0 ELSE a \div b
          [] tree[1] = "%" -> IF b = 0 THEN 0 ELSE a % b
          [] tree[1] = "+" -> (a + b) % Word
          [] tree[1] = "-" -> (a - b) % Word
          [] tree[1] = "<" -> Truth(a < b)
          [] tree[1] = ">" -> Truth(a > b)
          [] tree[1] = "<=" -> Truth(a <= b)
          [] tree[1] = ">=" -> Truth(a >= b)
          [] tree[1] = "==" -> Truth(a = b)
          [] tree[1] = "!=" -> Truth(a # b)
          [] tree[1] = "&&" -> Truth(a # 0 /\ b # 0)
          [] tree[1] = "||" -> Truth(a # 0 \/ b # 0)
          [] tree[1] = "?" -> IF a # 0 THEN b ELSE Eval(tree[4], n)

(* evaluate: the index of a form; a rule that has none is the English one. *)
Evaluate(nplurals, tree, n) ==
    LET count == IF n < 0 THEN 0 ELSE n
        index == IF tree = <<"none">> THEN Truth(count # 1) ELSE Eval(tree, count)
    IN  IF index < nplurals THEN index ELSE 0

----------------------------------------------------------------------------
(* What an expression is, by the grammar of C rather than by a descent:    *)
(* the tree written with the parentheses it needs and no others.           *)
LevelOf(tree) ==
    IF tree[1] \in {"n", "const"} THEN 8
    ELSE IF tree[1] = "!" THEN 7
    ELSE IF tree[1] = "?" THEN 0
    ELSE CHOOSE level \in DOMAIN Levels : tree[1] \in Levels[level]

RECURSIVE Shown(_)
Within(tree, level) == IF LevelOf(tree) < level THEN "(" \o Shown(tree) \o ")" ELSE Shown(tree)
Shown(tree) ==
    CASE tree[1] = "n" -> "n"
      [] tree[1] = "const" -> Digits[tree[2] + 1]
      [] tree[1] = "!" -> "!" \o Within(tree[2], 7)
      [] tree[1] = "?" -> Within(tree[2], 1) \o "?" \o Shown(tree[3]) \o ":" \o Shown(tree[4])
      [] OTHER -> Within(tree[2], LevelOf(tree)) \o tree[1] \o Within(tree[3], LevelOf(tree) + 1)

(* Whether a string is an expression: it is split anywhere. *)
RECURSIVE IsExpression(_)
IsExpression(s) ==
    \/ s = "n" \/ (Len(s) > 0 /\ \A i \in 1 .. Len(s) : IsDigit(Char(s, i)))
    \/ /\ Len(s) > 2 /\ Char(s, 1) = "(" /\ Char(s, Len(s)) = ")"
       /\ IsExpression(SubSeq(s, 2, Len(s) - 1))
    \/ Len(s) > 1 /\ Char(s, 1) = "!" /\ IsExpression(SubSeq(s, 2, Len(s)))
    \/ \E level \in DOMAIN Levels : \E op \in Levels[level], i \in 2 .. Len(s) :
         /\ At(s, i, op)
         /\ IsExpression(SubSeq(s, 1, i - 1)) /\ IsExpression(SubSeq(s, i + Len(op), Len(s)))
    \/ \E i \in 2 .. Len(s) : \E j \in i + 2 .. Len(s) :
         /\ At(s, i, "?") /\ At(s, j, ":")
         /\ IsExpression(SubSeq(s, 1, i - 1)) /\ IsExpression(SubSeq(s, i + 1, j - 1))
         /\ IsExpression(SubSeq(s, j + 1, Len(s)))
=============================================================================
