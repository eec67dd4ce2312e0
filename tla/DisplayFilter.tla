---- MODULE DisplayFilter ----
(***************************************************************************)
(* The display-filter language (core/display_filter.py): a recursive-      *)
(* descent parser over tokens, and the evaluation of what it builds on a   *)
(* row.  A filter is typed in chunks of tokens; a token is a word, an      *)
(* operator, a parenthesis or a value.  A value is a string, or a number   *)
(* written as one: Numbers gives the number each numeral stands for.       *)
(***************************************************************************)
EXTENDS Naturals, Sequences, FiniteSets, SequencesExt

CONSTANTS
  Chunks,      \* the token sequences an analyst types at a time
  MaxChunks,   \* how many of them
  FilterRows,  \* rows: functions of the fields below, Absent where a row has none
  Numbers,     \* numeral -> number
  Absent,
  NoNode

ASSUME FilterAssumption == MaxChunks \in Nat /\ \A n \in DOMAIN Numbers : Numbers[n] \in Nat

VARIABLES typed,   \* the tokens of the expression
          count    \* chunks typed

filterVars == <<typed, count>>

Fields == {"ip", "src", "dst", "port", "sport", "dport", "protocol", "type", "length", "flow", "summary"}
Operators == {"==", "!=", "<", "<=", ">", ">=", "contains"}
ProtocolWords == {"tcp", "udp", "dns", "tls", "http", "icmp", "arp", "ssl"}

FilterInit == typed = <<>> /\ count = 0

Type(chunk) ==
  /\ count < MaxChunks
  /\ typed' = typed \o chunk /\ count' = count + 1

FilterNext == \E chunk \in Chunks : Type(chunk)
FilterSpec == FilterInit /\ [][FilterNext]_filterVars

----------------------------------------------------------------------------
\* _Parser.  A parse has a node and the position behind it, or position 0: FilterError.
Parsed(node, pos) == [node |-> node, pos |-> pos]
FilterError == Parsed(NoNode, 0)
Peek(t, pos) == IF pos \in DOMAIN t THEN t[pos] ELSE ""
Node(op, parts) == [op |-> op, parts |-> parts]
Comparison(field, operator, value) == Node("compare", <<field, operator, value>>)

\* _comparison: a protocol word stands for `protocol == word'.
ParseComparison(t, pos) ==
  CASE Peek(t, pos) \in ProtocolWords -> Parsed(Comparison("protocol", "==", t[pos]), pos + 1)
    [] Peek(t, pos) \in Fields /\ Peek(t, pos + 1) \in Operators /\ pos + 2 <= Len(t) ->
         Parsed(Comparison(t[pos], t[pos + 1], t[pos + 2]), pos + 3)
    [] OTHER -> FilterError

RECURSIVE ParseOr(_, _), ParseAnd(_, _), ParseNot(_, _), ParseMore(_, _, _)

\* _primary.
ParsePrimary(t, pos) ==
  IF Peek(t, pos) # "(" THEN ParseComparison(t, pos)
  ELSE LET inner == ParseOr(t, pos + 1)
       IN IF inner.pos # 0 /\ Peek(t, inner.pos) = ")" THEN Parsed(inner.node, inner.pos + 1) ELSE FilterError

\* _not_expr.
ParseNot(t, pos) ==
  IF Peek(t, pos) # "not" THEN ParsePrimary(t, pos)
  ELSE LET inner == ParseNot(t, pos + 1)
       IN IF inner.pos = 0 THEN FilterError ELSE Parsed(Node("not", <<inner.node>>), inner.pos)

\* The loops of _or_expr and _and_expr: while the word follows, one more operand to the left node.
ParseMore(t, left, word) ==
  IF left.pos = 0 \/ Peek(t, left.pos) # word THEN left
  ELSE LET right == IF word = "or" THEN ParseAnd(t, left.pos + 1) ELSE ParseNot(t, left.pos + 1)
       IN IF right.pos = 0 THEN FilterError
          ELSE ParseMore(t, Parsed(Node(word, <<left.node, right.node>>), right.pos), word)
ParseAnd(t, pos) == ParseMore(t, ParseNot(t, pos), "and")
ParseOr(t, pos) == ParseMore(t, ParseAnd(t, pos), "or")

\* parse: all tokens must be used.
Parse(t) ==
  LET all == ParseOr(t, 1) IN IF all.pos = Len(t) + 1 THEN all ELSE FilterError

----------------------------------------------------------------------------
\* _field_value: what a field of a row is; `ip' and `port' are both ends.
FieldValues(field, row) ==
  CASE field = "ip" -> {row.source, row.destination}
    [] field = "port" -> {row.src_port, row.dst_port}
    [] field = "src" -> {row.source}
    [] field = "dst" -> {row.destination}
    [] field = "sport" -> {row.src_port}
    [] field = "dport" -> {row.dst_port}
    [] field = "protocol" -> {IF row.protocol = Absent THEN row.event_type ELSE row.protocol}
    [] field = "type" -> {row.event_type}
    [] field = "flow" -> {row.flow_id}
    [] field = "summary" -> {row.summary}
    [] field = "length" -> {row.length}

\* _compare of one value: nothing holds of an absent one; two numerals are compared as
\* numbers, also by == and !=; an order holds of numbers only.  (`contains' is not used.)
IsNumber(v) == v \in DOMAIN Numbers
CompareOne(v, operator, expected) ==
  LET both == IsNumber(v) /\ IsNumber(expected)
      same == IF both THEN Numbers[v] = Numbers[expected] ELSE v = expected
  IN /\ v # Absent
     /\ CASE operator = "==" -> same
          [] operator = "!=" -> ~same
          [] operator = "<" -> both /\ Numbers[v] < Numbers[expected]
          [] operator = "<=" -> both /\ Numbers[v] <= Numbers[expected]
          [] operator = ">" -> both /\ Numbers[v] > Numbers[expected]
          [] operator = ">=" -> both /\ Numbers[v] >= Numbers[expected]
          [] OTHER -> FALSE
Compare(values, operator, expected) == \E v \in values : CompareOne(v, operator, expected)

\* evaluate.
RECURSIVE Evaluate(_, _)
Evaluate(node, row) ==
  CASE node.op = "compare" -> Compare(FieldValues(node.parts[1], row), node.parts[2], node.parts[3])
    [] node.op = "not" -> ~Evaluate(node.parts[1], row)
    [] node.op = "and" -> Evaluate(node.parts[1], row) /\ Evaluate(node.parts[2], row)
    [] node.op = "or" -> Evaluate(node.parts[1], row) \/ Evaluate(node.parts[2], row)

\* compile_filter, Filter.select: no tokens stands for `protocol contains ""', which
\* holds of every row that has a protocol or an event type.
FilterMatches(t, row) ==
  IF t = <<>> THEN FieldValues("protocol", row) # {Absent} ELSE Evaluate(Parse(t).node, row)
FilterAccepted(t) == t = <<>> \/ Parse(t).pos # 0

----------------------------------------------------------------------------
FilterTypeOK == typed \in Seq(UNION {ToSet(c) : c \in Chunks}) /\ count \in 0..MaxChunks

\* What an expression means, without a parser: innermost parentheses are replaced by
\* their truth; without parentheses it is an `or' of `and's of leaves under `not's.
\* The value is "error" for what is no expression.
Split(t, word) ==
  LET at == {0, Len(t) + 1} \cup {i \in DOMAIN t : t[i] = word}
      next(i) == CHOOSE j \in at : j > i /\ \A k \in at : k > i => j <= k
  IN {SubSeq(t, i + 1, next(i) - 1) : i \in at \ {Len(t) + 1}}
Nots(s) == Cardinality({i \in DOMAIN s : \A j \in 1..i : s[j] = "not"})
LeafOf(s) == SubSeq(s, Nots(s) + 1, Len(s))
IsLeaf(l) ==
  \/ Len(l) = 1 /\ l[1] \in ProtocolWords \cup {"true", "false"}
  \/ Len(l) = 3 /\ l[1] \in Fields /\ l[2] \in Operators
Holds(l, row) ==
  CASE l[1] = "true" -> TRUE
    [] l[1] = "false" -> FALSE
    [] Len(l) = 1 -> Compare(FieldValues("protocol", row), "==", l[1])
    [] OTHER -> Compare(FieldValues(l[1], row), l[2], l[3])
FlatMeaning(t, row) ==
  IF \E d \in Split(t, "or") : \E c \in Split(d, "and") : ~IsLeaf(LeafOf(c)) THEN "error"
  ELSE IF \E d \in Split(t, "or") : \A c \in Split(d, "and") : Holds(LeafOf(c), row) = (Nots(c) % 2 = 0) THEN "true"
  ELSE "false"
Innermost(t) == {<<i, j>> \in (DOMAIN t) \X (DOMAIN t) : i < j /\ t[i] = "(" /\ t[j] = ")"
                                                    /\ \A k \in (i + 1)..(j - 1) : t[k] \notin {"(", ")"}}
RECURSIVE Meaning(_, _)
Meaning(t, row) ==
  IF {"(", ")"} \cap ToSet(t) = {} THEN FlatMeaning(t, row)
  ELSE IF Innermost(t) = {} THEN "error"
  ELSE LET p == CHOOSE p \in Innermost(t) : TRUE
           value == FlatMeaning(SubSeq(t, p[1] + 1, p[2] - 1), row)
       IN IF value = "error" THEN "error"
          ELSE Meaning(SubSeq(t, 1, p[1] - 1) \o <<value>> \o SubSeq(t, p[2] + 1, Len(t)), row)

\* The parser accepts exactly the expressions of the language, and what it builds
\* evaluates to what the expression means: `not' binds tighter than `and', `and' tighter
\* than `or', operators of one kind group to the left (_Parser, Filter.matches).
FilterMeansWhatItSays ==
  typed # <<>> => \A row \in FilterRows :
    LET meaning == Meaning(typed, row)
    IN /\ FilterAccepted(typed) <=> meaning # "error"
       /\ FilterAccepted(typed) => (FilterMatches(typed, row) <=> meaning = "true")
====
