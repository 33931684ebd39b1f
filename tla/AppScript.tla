----------------------------- MODULE AppScript -----------------------------
(***************************************************************************)
(* What the semantic actions of temp/AppScriptParser.c make of a parsed    *)
(* script: conditions become postfix lists, statements become nodes linked *)
(* by pstNextTrue and pstNextFalse while two stacks keep the nodes whose   *)
(* successor is not parsed yet.  And what AppRunner.c evaluates.           *)
(*                                                                         *)
(* A statement is a record [node, type, body, fail, label]: its node's     *)
(* name, the statements of its block (<<>> for a simple one), the label to *)
(* go to on failure and its own label, NONE without one.  A condition is   *)
(* a record [op, left, right]; an operand is a pair: <<"value", key>>,     *)
(* <<"number", n>>, <<"double", n>>, <<"string", s>> or <<"variable", v>>. *)
(***************************************************************************)
EXTENDS Integers, Sequences, FiniteSets

LOCAL INSTANCE TLC

CONSTANTS FINISH,  \* pstFinish
          NONE     \* NULL, and a label that is not there

LOCAL SeqExt == INSTANCE SequencesExt

K == INSTANCE CAPStack

-----------------------------------------------------------------------------
(* Conditions *)

LEFT  == [op |-> "LEFT_PARENTHESIS"]
RIGHT == [op |-> "RIGHT_PARENTHESIS"]
AND   == [op |-> "AND"]
OR    == [op |-> "OR"]

Operators == {"AND", "OR", "LEFT_PARENTHESIS", "RIGHT_PARENTHESIS"}

\* A primary by itself is compared with zero.
Comparison(left, op, right) == [op |-> op, left |-> left, right |-> right]
Primary(left) == Comparison(left, "NOT_EQUAL", <<"number", 0>>)

\* NOT is not kept: it turns the comparison behind it round.
Inverse == [NOT_EQUAL |-> "EQUAL", EQUAL |-> "NOT_EQUAL", GREATER |-> "LESS_EQUAL",
            LESS |-> "GREATER_EQUAL", GREATER_EQUAL |-> "LESS", LESS_EQUAL |-> "GREATER"]

Negated(c) == [c EXCEPT !.op = Inverse[c.op]]

\* The list the parser collects, in the order of the text.
RECURSIVE Infix(_)
Infix(e) ==
    CASE e.is = "comparison"  -> <<e.c>>
      [] e.is = "not"         -> <<Negated(e.c)>>
      [] e.is = "parenthesis" -> <<LEFT>> \o Infix(e.of) \o <<RIGHT>>
      [] e.is = "and"         -> Infix(e.left) \o <<AND>> \o Infix(e.right)
      [] e.is = "or"          -> Infix(e.left) \o <<OR>> \o Infix(e.right)

BOTTOM == [op |-> "NONE"]

\* A mutant: OR binds as tightly as AND.
EqualPrecedence(op) ==
    CASE op = "NONE" -> 0 [] op = "LEFT_PARENTHESIS" -> 1 [] op \in {"OR", "AND"} -> 2

Precedence(op) ==
    CASE op = "NONE" -> 0 [] op = "LEFT_PARENTHESIS" -> 1 [] op = "OR" -> 2 [] op = "AND" -> 3

\* Pops onto the postfix list until Stops holds of the top, the n-th to come off.
PopUntil(s, Stops(_)) ==
    LET popped == K!PopAll(s.stack).data
        n == SeqExt!SelectInSeq(popped, Stops)
    IN [postfix |-> s.postfix \o SubSeq(popped, 1, n - 1),
        stack   |-> K!PushAll(K!Create, SubSeq(popped, n, Len(popped)))]

\* One turn of changeInfixToPostfix's loop.
Postfixed(s, c) ==
    CASE c.op \notin Operators -> [s EXCEPT !.postfix = Append(@, c)]
      [] c.op = "LEFT_PARENTHESIS" -> [s EXCEPT !.stack = K!Push(@, c)]
      [] c.op = "RIGHT_PARENTHESIS" ->
            LET opened == PopUntil(s, LAMBDA t : t.op = "LEFT_PARENTHESIS")
            IN [opened EXCEPT !.stack = K!Pop(@).stack]
      [] c.op \in {"AND", "OR"} ->
            LET looser == PopUntil(s, LAMBDA t : Precedence(t.op) < Precedence(c.op))
            IN [looser EXCEPT !.stack = K!Push(@, c)]

changeInfixToPostfix(infix) ==
    LET last == SeqExt!FoldLeft(Postfixed, [postfix |-> <<>>, stack |-> K!Push(K!Create, BOTTOM)], infix)
    IN PopUntil(last, LAMBDA t : t.op = "NONE").postfix

Compare(op, x, y) ==
    CASE op = "EQUAL" -> x = y  [] op = "NOT_EQUAL" -> x # y
      [] op = "LESS"  -> x < y  [] op = "GREATER"   -> x > y
      [] op = "LESS_EQUAL" -> x <= y [] op = "GREATER_EQUAL" -> x >= y

\* The kinds getValueFromExpression answers with an error.
NotSupported == {"string", "variable"}

\* The number of an operand of another kind, NONE for a value the cache does not have yet.
getValueFromExpression(operand, cached) == IF operand[1] = "value" THEN cached[operand[2]] ELSE operand[2]

\* checkSingleCondition: a value that is not known makes any comparison false.
checkSingleCondition(c, cached) ==
    LET x == getValueFromExpression(c.left, cached)
        y == getValueFromExpression(c.right, cached)
    IN x # NONE /\ y # NONE /\ Compare(c.op, x, y)

\* checkConditionListMatch: the postfix list is evaluated on a stack.
Evaluated(stack, c, cached) ==
    IF c.op \in {"AND", "OR"}
    THEN LET second == K!Pop(stack)
             first  == K!Pop(second.stack)
         IN K!Push(first.stack, IF c.op = "AND" THEN first.data[1] /\ second.data[1]
                                               ELSE first.data[1] \/ second.data[1])
    ELSE K!Push(stack, checkSingleCondition(c, cached))

checkConditionListMatch(postfix, cached) ==
    K!Pop(SeqExt!FoldLeft(LAMBDA s, c : Evaluated(s, c, cached), K!Create, postfix)).data[1]

-----------------------------------------------------------------------------
(* Linking.  s holds the links made so far and the two stacks. *)

RECURSIVE NodesOf(_)
NodesOf(list) == UNION {{list[i].node} \cup NodesOf(list[i].body) : i \in DOMAIN list}

Simple(st) == st.type \notin {"IF", "LOOP"}

First(list) == list[1].node

LinkTrue(s, nodes, to) ==
    [s EXCEPT !.next = [n \in DOMAIN @ |->
        IF n \in SeqExt!ToSet(nodes) THEN [@[n] EXCEPT !.true = to] ELSE @[n]]]

LinkFalse(s, nodes, to) ==
    [s EXCEPT !.next = [n \in DOMAIN @ |->
        IF n \in SeqExt!ToSet(nodes) THEN [@[n] EXCEPT !.false = to] ELSE @[n]]]

\* Both stacks are emptied and what was on them goes on to the node.
LinkAll(s, to) ==
    LET last == K!PopAll(s.last)
        cond == K!PopAll(s.cond)
    IN [LinkFalse(LinkTrue(s, last.data, to), cond.data, to)
          EXCEPT !.last = last.stack, !.cond = cond.stack]

\* The top n are set aside and the rest goes on to the node.  When an inner list
\* has emptied the stack below the length noted, n is negative and, counted down
\* as it is, sets everything aside.
Split(stack, n) ==
    LET popped == K!PopAll(stack).data
        aside  == IF n < 0 \/ n > Len(popped) THEN Len(popped) ELSE n
    IN [aside |-> SubSeq(popped, 1, aside), rest |-> SubSeq(popped, aside + 1, Len(popped))]

LinkOlder(s, nLast, nCond, to) ==
    LET last == Split(s.last, K!Length(s.last) - nLast)
        cond == Split(s.cond, K!Length(s.cond) - nCond)
    IN [LinkFalse(LinkTrue(s, last.rest, to), cond.rest, to)
          EXCEPT !.last = K!PushAll(K!Create, last.aside), !.cond = K!PushAll(K!Create, cond.aside)]

PushLast(s, n) == [s EXCEPT !.last = K!Push(@, n)]
PushCond(s, n) == [s EXCEPT !.cond = K!Push(@, n)]

\* A mutant: a loop that comes first does not take the nodes of its body.
FirstLoopNotLinked(s, st) == IF Simple(st) THEN PushLast(s, st.node) ELSE PushCond(s, st.node)

\* statement_list: statement.
FirstStatement(s, st) ==
    LET linked == IF st.type = "LOOP" THEN LinkAll(s, st.node) ELSE s
    IN IF Simple(st) THEN PushLast(linked, st.node) ELSE PushCond(linked, st.node)

\* statement_list: statement_list separator statement, with the lengths noted before it.
NextStatement(s, st, nLast, nCond) ==
    IF st.type = "LOOP" THEN PushCond(LinkAll(s, st.node), st.node)
    ELSE LinkOlder(IF Simple(st) THEN PushLast(s, st.node) ELSE s, nLast, nCond, st.node)

\* IF with a block, LOOP with a block, whose list is linked: s became inner.
Block(st, s, inner) ==
    IF st.type = "IF" THEN PushCond(inner, st.node)
    ELSE IF K!Length(s.last) = K!Length(inner.last) THEN PushLast(inner, First(st.body))
    ELSE inner

RECURSIVE StatementList(_, _)

\* statement
Statement(s, st) ==
    IF Simple(st) THEN s
    ELSE Block(st, s, LinkTrue(StatementList(s, st.body), <<st.node>>, First(st.body)))

StatementList(s, list) ==
    SeqExt!FoldLeft(LAMBDA t, st : NextStatement(Statement(t, st), st, K!Length(t.last), K!Length(t.cond)),
                    FirstStatement(Statement(s, list[1]), list[1]), Tail(list))

\* The links that are still NULL lead to the node.
Pending(s, nodes, field) == SelectSeq(nodes, LAMBDA n : s.next[n][field] = NONE)

FillAll(s, last, cond, to) ==
    LinkFalse(LinkTrue(s, Pending(s, last, "true"), to), Pending(s, cond, "false"), to)

\* A behaviour of the scenario: what the behaviour before it left open leads to it.
\* Its own open nodes are moved to the global stacks, through a stack that keeps their order.
Joined(own, to) ==
    [FillAll(own, K!PopAll(own.globalLast).data, K!PopAll(own.globalCond).data, to)
        EXCEPT !.globalLast = K!PushAll(K!Create, K!PopAll(own.last).data),
               !.globalCond = K!PushAll(K!Create, K!PopAll(own.cond).data),
               !.last = K!Create, !.cond = K!Create]

ScenarioBehavior(s, list) == Joined(StatementList(s, list), First(list))

\* setLabelNextFalse: every ON FAIL statement whose label exists.
LinkLabels(s, statements) ==
    [s EXCEPT !.next = [n \in DOMAIN @ |->
        LET targets == {t \in statements : \E f \in statements :
                          f.node = n /\ f.fail # NONE /\ t.label = f.fail}
        IN IF targets = {} THEN @[n] ELSE [@[n] EXCEPT !.false = (CHOOSE t \in targets : TRUE).node]]]

RECURSIVE StatementsOf(_)
StatementsOf(list) == UNION {{list[i]} \cup StatementsOf(list[i].body) : i \in DOMAIN list}

\* createBehaviorData: no links, empty stacks.
NoLinks(behaviors) ==
    [next |-> [n \in UNION {NodesOf(behaviors[i]) : i \in DOMAIN behaviors} |-> [true |-> NONE, false |-> NONE]],
     last |-> K!Create, cond |-> K!Create, globalLast |-> K!Create, globalCond |-> K!Create]

\* What the last behaviour leaves open leads to pstFinish.
Finished(s) == FillAll(s, K!PopAll(s.globalLast).data, K!PopAll(s.globalCond).data, FINISH)

\* AppScriptModeler_Load of a text whose parse is the behaviours given: the links
\* and the root.
Load(behaviors) ==
    LET linked  == SeqExt!FoldLeft(ScenarioBehavior, NoLinks(behaviors), behaviors)
        labeled == LinkLabels(linked, UNION {StatementsOf(behaviors[i]) : i \in DOMAIN behaviors})
    IN [root |-> First(behaviors[1]), next |-> Finished(labeled).next]

\* AppScriptModeler_MoveToNext from a node that is not FINISH.
MoveToNext(graph, n, bDirection) ==
    LET links == graph.next[n]
    IN IF links.false = NONE \/ bDirection THEN links.true ELSE links.false

-----------------------------------------------------------------------------
(* What the text means *)

\* The truth of an expression, read off its tree; a comparison with a value that
\* is not known is false, and so is its negation.
RECURSIVE Meaning(_, _)
Meaning(e, cached) ==
    CASE e.is = "comparison"  -> checkSingleCondition(e.c, cached)
      [] e.is = "not"         ->
            /\ NONE \notin {getValueFromExpression(x, cached) : x \in {e.c.left, e.c.right}}
            /\ ~checkSingleCondition(e.c, cached)
      [] e.is = "parenthesis" -> Meaning(e.of, cached)
      [] e.is = "and"         -> Meaning(e.left, cached) /\ Meaning(e.right, cached)
      [] e.is = "or"          -> Meaning(e.left, cached) \/ Meaning(e.right, cached)

\* Where control goes from each node of a list that is followed by node after.
RECURSIVE Successors(_, _)
Successors(list, after) ==
    LET Follow(i) == IF i < Len(list) THEN list[i + 1].node ELSE after
        Of(i) == LET st == list[i]
                     own == st.node :> [true  |-> IF Simple(st) THEN Follow(i) ELSE First(st.body),
                                        false |-> Follow(i)]
                 IN own @@ Successors(st.body, IF st.type = "LOOP" THEN st.node ELSE Follow(i))
    IN SeqExt!FoldLeft(LAMBDA f, i : f @@ Of(i), <<>>, [i \in DOMAIN list |-> i])

\* The behaviours one after the other; a statement that failed goes to its label.
Written(behaviors) ==
    LET list == SeqExt!FlattenSeq(behaviors)
    IN LinkLabels([next |-> Successors(list, FINISH)], StatementsOf(list)).next

\* Every block holds one statement, and that is no IF or LOOP.
HasSimpleBlocks(behaviors) ==
    \A st \in StatementsOf(SeqExt!FlattenSeq(behaviors)) :
        ~Simple(st) => Len(st.body) = 1 /\ Simple(st.body[1])

Reached(graph, start) ==
    LET Grow(nodes, i) == nodes \cup {MoveToNext(graph, n, d) : n \in nodes \cap DOMAIN graph.next, d \in BOOLEAN}
    IN SeqExt!FoldLeft(Grow, {start}, [i \in 1..Cardinality(DOMAIN graph.next) |-> i])

-----------------------------------------------------------------------------
(* Properties *)

\* The postfix list evaluated on a stack is the truth of the expression that was
\* written, whatever AND, OR, NOT and parentheses it is built from, and whatever
\* values are not known yet (changeInfixToPostfix, checkConditionListMatch).
MeansInfix(e, cached) ==
    checkConditionListMatch(changeInfixToPostfix(Infix(e)), cached) = Meaning(e, cached)

\* Linked with the stacks of pending nodes, no scenario runs off its nodes, and one
\* whose blocks hold one simple statement each runs in the order it was written.  With
\* more the second statement of a block also takes the nodes that were pending before
\* the block (AppScriptParser.c, case 40).
LinkedRight(behaviors) ==
    LET Right(graph, written) ==
          /\ graph.root = First(behaviors[1])
          /\ NONE \notin Reached(graph, graph.root)
          /\ HasSimpleBlocks(behaviors) =>
                \A n \in DOMAIN graph.next, dir \in BOOLEAN :
                    MoveToNext(graph, n, dir) = (IF dir THEN written[n].true ELSE written[n].false)
    IN Right(Load(behaviors), Written(behaviors))
=============================================================================
