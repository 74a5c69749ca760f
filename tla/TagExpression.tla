---------------------------- MODULE TagExpression ----------------------------
(***************************************************************************)
(* The expressions of calculated tags: how a text is parsed, which tags it *)
(* depends on, and what it is worth in a snapshot of those tags.           *)
(*                                                                         *)
(* tag/expression.go, and the parts of tag/service.go and                  *)
(* tag/acquisition.go that parse and evaluate it.                          *)
(*                                                                         *)
(* A text is a sequence of tokens; how characters make a token is left     *)
(* out.  Numbers are -1, 0 and 1, on which the division of floats is exact, *)
(* and anything beyond is what the code calls not finite.                  *)
(***************************************************************************)
EXTENDS Integers, Sequences, FiniteSets

CONSTANTS
    Alphabet,         \* the tokens of the texts
    Tags,             \* those of them that refer to a tag
    TagValues,        \* what a snapshot may hold for a tag
    DataTypes,        \* the data types of the calculated tag
    MaxTokens,        \* MaxExpressionTokens (256), bounds the texts
    MaxDepth,         \* MaxExpressionDepth (32)
    MaxDependencies   \* MaxExpressionDependencies (32)

VARIABLES
    text,     \* the expression that is edited
    stored,   \* the expression of the calculated tag
    latest,   \* the latest values of all tags at the evaluation
    outcome   \* the value put for the calculated tag, or none yet

expressionVars == <<text, stored, latest, outcome>>

Number(n) == <<"number", n>>
Bool(b) == <<"bool", IF b THEN 1 ELSE 0>>
Failed == <<"failed", 0>>
NoOutcome == <<"none", 0>>
True == Bool(TRUE)
IsNumber(v) == v[1] = "number"
IsBool(v) == v[1] = "bool"

Leaf(token) == [op |-> token, args |-> <<>>]
Parsed(node, i, deps) == [ok |-> TRUE, node |-> node, i |-> i, deps |-> deps]
Syntax == [ok |-> FALSE, node |-> Leaf("error"), i |-> 0, deps |-> {}]

(***************************************************************************)
(* The parser.                                                             *)
(***************************************************************************)
Operators ==
    << {"||"}, {"&&"}, {"==", "!="}, {"<", "<=", ">", ">="}, {"+", "-"}, {"*", "/", "%"} >>
Unaries == {"!", "+", "-"}
Literals == {"0", "1", "true", "false"}

current(t, i) == IF i <= Len(t) THEN t[i] ELSE "end"
matchesOperator(t, i, operators) == current(t, i) \in operators

RECURSIVE parseBinary(_, _, _, _, _), parseUnary(_, _, _, _), parseMore(_, _, _, _)

(* The loop of parseBinary, over the operators of one level *)
parseMore(t, level, left, depth) ==
    IF ~left.ok \/ ~matchesOperator(t, left.i, Operators[level]) THEN left
    ELSE LET right == parseBinary(t, level + 1, left.i + 1, depth, left.deps)
         IN  IF ~right.ok THEN right
             ELSE parseMore(t, level,
                     Parsed([op |-> t[left.i], args |-> <<left.node, right.node>>],
                            right.i, right.deps), depth)

parseBinary(t, level, i, depth, deps) ==
    IF level > Len(Operators) THEN parseUnary(t, i, depth, deps)
    ELSE parseMore(t, level, parseBinary(t, level + 1, i, depth, deps), depth)

(* Faulty variant: the tags inside of a parenthesis are forgotten *)
OuterDependencies(before, inner) == before

(* The parser keeps one set of dependencies for the whole text *)
Dependencies(before, inner) == inner

parsePrimary(t, i, depth, deps) ==
    LET token == current(t, i)
        inner == parseBinary(t, 1, i + 1, depth + 1, deps)
    IN  CASE token \in Literals -> Parsed(Leaf(token), i + 1, deps)
          [] token \in Tags ->
                IF Cardinality(deps \cup {token}) > MaxDependencies THEN Syntax
                ELSE Parsed(Leaf(token), i + 1, deps \cup {token})
          [] token = "(" ->
                IF depth < MaxDepth /\ inner.ok /\ current(t, inner.i) = ")"
                THEN [inner EXCEPT !.i = @ + 1, !.deps = Dependencies(deps, inner.deps)]
                ELSE Syntax
          [] OTHER -> Syntax

parseUnary(t, i, depth, deps) ==
    LET operand == parseUnary(t, i + 1, depth + 1, deps)
    IN  IF ~matchesOperator(t, i, Unaries) THEN parsePrimary(t, i, depth, deps)
        ELSE IF depth = MaxDepth \/ ~operand.ok THEN Syntax
        ELSE [operand EXCEPT !.node = [op |-> t[i], args |-> <<operand.node>>]]

ParseExpression(t) ==
    LET root == parseBinary(t, 1, 1, 0, {})
    IN  IF Len(t) = 0 \/ Len(t) > MaxTokens \/ ~root.ok \/ root.i <= Len(t) THEN Syntax
        ELSE root

(***************************************************************************)
(* The evaluator.  A node that fails makes the whole evaluation fail.      *)
(***************************************************************************)
finiteExpressionResult(n) == IF n \in -1 .. 1 THEN Number(n) ELSE Failed

LiteralValue(token) ==
    CASE token = "0" -> Number(0) [] token = "1" -> Number(1)
      [] OTHER -> Bool(token = "true")

EvaluateUnary(op, v) ==
    CASE op = "!" /\ IsBool(v) -> Bool(v # True)
      [] op = "+" /\ IsNumber(v) -> v
      [] op = "-" /\ IsNumber(v) -> Number(-v[2])
      [] OTHER -> Failed

expressionValuesEqual(l, r) == IF l[1] = r[1] THEN Bool(l = r) ELSE Failed

EvaluateNumbers(op, l, r) ==
    CASE op = "+" -> finiteExpressionResult(l + r)
      [] op = "-" -> finiteExpressionResult(l - r)
      [] op = "*" -> finiteExpressionResult(l * r)
      [] op \in {"/", "%"} /\ r = 0 -> Failed
      [] op = "/" /\ r # 0 -> Number(l * r)     \* r is 1 or -1
      [] op = "%" /\ r # 0 -> Number(0)
      [] op = "<" -> Bool(l < r)
      [] op = "<=" -> Bool(l <= r)
      [] op = ">" -> Bool(l > r)
      [] op = ">=" -> Bool(l >= r)

(* The right operand of && and || may not be evaluated at all *)
EvaluateLogical(op, l, r) ==
    CASE ~IsBool(l) -> Failed
      [] IsBool(l) /\ (l = True) = (op = "||") -> l
      [] IsBool(l) /\ (l = True) # (op = "||") -> IF IsBool(r) THEN r ELSE Failed

EvaluateBinary(op, l, r) ==
    CASE op \in {"&&", "||"} -> EvaluateLogical(op, l, r)
      [] op \notin {"&&", "||"} /\ Failed \in {l, r} -> Failed
      [] op \in {"==", "!="} /\ Failed \notin {l, r} ->
            IF op = "==" THEN expressionValuesEqual(l, r)
            ELSE EvaluateUnary("!", expressionValuesEqual(l, r))
      [] OTHER -> IF IsNumber(l) /\ IsNumber(r) THEN EvaluateNumbers(op, l[2], r[2])
                  ELSE Failed

(* A tag that is missing from the snapshot, or bad in it, does not resolve *)
Resolve(snapshot, tag) == IF tag \in DOMAIN snapshot THEN snapshot[tag] ELSE Failed

RECURSIVE Evaluate(_, _)
Evaluate(node, snapshot) ==
    CASE Len(node.args) = 1 -> EvaluateUnary(node.op, Evaluate(node.args[1], snapshot))
      [] Len(node.args) = 2 -> EvaluateBinary(node.op, Evaluate(node.args[1], snapshot),
                                              Evaluate(node.args[2], snapshot))
      [] node.op \in Tags -> Resolve(snapshot, node.op)
      [] OTHER -> LiteralValue(node.op)

(* Numbers fit every numeric type but that -1 is no unsigned integer *)
coerceTagValue(dataType, v) ==
    CASE dataType = "bool" -> IF IsBool(v) THEN v ELSE Failed
      [] dataType = "unsigned" -> IF IsNumber(v) /\ v[2] >= 0 THEN v ELSE Failed
      [] OTHER -> IF IsNumber(v) THEN v ELSE Failed

(***************************************************************************)
(* The tag.                                                                *)
(***************************************************************************)
Nothing == [expression |-> Syntax, source |-> <<>>, dataType |-> "none"]

ExpressionInit ==
    /\ text = <<>> /\ stored = Nothing /\ outcome = NoOutcome
    /\ latest = [tag \in Tags |-> Failed]

Type(token) ==
    /\ Len(text) <= MaxTokens /\ stored = Nothing
    /\ text' = Append(text, token)
    /\ UNCHANGED <<stored, latest, outcome>>

(* normalizeConfig takes what parses *)
Save(dataType) ==
    /\ stored = Nothing /\ ParseExpression(text).ok
    /\ stored' = [expression |-> ParseExpression(text), source |-> text, dataType |-> dataType]
    /\ UNCHANGED <<text, latest, outcome>>

(* evaluateCalculated takes a snapshot of the dependencies and no more *)
EvaluateCalculated(values) ==
    /\ stored.expression.ok /\ outcome = NoOutcome
    /\ latest' = values
    /\ LET snapshot == [tag \in stored.expression.deps |-> values[tag]]
       IN  outcome' = coerceTagValue(stored.dataType,
                                     Evaluate(stored.expression.node, snapshot))
    /\ UNCHANGED <<text, stored>>

ExpressionNext ==
    \/ \E token \in Alphabet : Type(token)
    \/ \E dataType \in DataTypes : Save(dataType)
    \/ \E values \in [Tags -> TagValues] : EvaluateCalculated(values)

ExpressionSpec == ExpressionInit /\ [][ExpressionNext]_expressionVars

ExpressionTypeOK ==
    /\ Len(text) <= MaxTokens + 1
    /\ stored.expression.deps \subseteq Tags
    /\ outcome[1] \in {"none", "failed", "number", "bool"}

(***************************************************************************)
(* The grammar, read from the outside in: an expression is split at the    *)
(* last of its loosest operators, a parenthesis and a unary operator only  *)
(* when there is none.                                                     *)
(***************************************************************************)
Nesting(t, l, p) ==
    Cardinality({q \in l .. p : t[q] = "("}) - Cardinality({q \in l .. p - 1 : t[q] = ")"})

(* + and - are binary when they follow an operand *)
BinaryAt(t, l, r, level) ==
    {p \in l + 1 .. r - 1 :
        /\ t[p] \in Operators[level] /\ Nesting(t, l, p) = 0
        /\ t[p - 1] \in Tags \cup Literals \cup {")"}}

LevelsIn(t, l, r) == {level \in 1 .. Len(Operators) : BinaryAt(t, l, r, level) # {}}
Loosest(levels) == CHOOSE k \in levels : \A j \in levels : k <= j
Last(places) == CHOOSE p \in places : \A q \in places : q <= p

Ill == [op |-> "ill", args |-> <<>>]

(* The tree of the text from l to r when at most d levels may be nested *)
RECURSIVE Tree(_, _, _, _)
Tree(t, l, r, d) ==
    CASE l > r \/ d < 0 -> Ill
      [] l <= r /\ d >= 0 /\ LevelsIn(t, l, r) # {} ->
            LET p == Last(BinaryAt(t, l, r, Loosest(LevelsIn(t, l, r))))
                left == Tree(t, l, p - 1, d)
                right == Tree(t, p + 1, r, d)
            IN  IF "ill" \in {left.op, right.op} THEN Ill
                ELSE [op |-> t[p], args |-> <<left, right>>]
      [] l <= r /\ d >= 0 /\ LevelsIn(t, l, r) = {} ->
            LET operand == Tree(t, l + 1, r, d - 1)
                inner == Tree(t, l + 1, r - 1, d - 1)
            IN  IF t[l] \in Unaries
                THEN IF operand.op = "ill" THEN Ill ELSE [op |-> t[l], args |-> <<operand>>]
                ELSE IF l = r /\ t[l] \in Tags \cup Literals THEN Leaf(t[l])
                ELSE IF l < r /\ t[l] = "(" /\ t[r] = ")" THEN inner
                ELSE Ill

TagsIn(t) == {t[i] : i \in 1 .. Len(t)} \cap Tags

(***************************************************************************)
(* Properties.                                                             *)
(***************************************************************************)
(* The parser takes exactly the texts of the grammar that are within the   *)
(* limits, with the tree that the grammar gives them.                      *)
ParsesTheGrammar ==
    LET parsed == ParseExpression(text)
        tree == Tree(text, 1, Len(text), MaxDepth)
    IN  /\ parsed.ok <=> /\ tree # Ill /\ Len(text) <= MaxTokens
                         /\ Cardinality(TagsIn(text)) <= MaxDependencies
        /\ parsed.ok => parsed.node = tree

(* An evaluation of a stored expression needs nothing but its snapshot:    *)
(* with all tags at hand it would have had the same value.                 *)
SnapshotSuffices ==
    outcome # NoOutcome =>
        outcome = coerceTagValue(stored.dataType, Evaluate(stored.expression.node, latest))
=============================================================================
