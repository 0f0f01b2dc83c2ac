----------------------------- MODULE QueryProofs -----------------------------
(***************************************************************************)
(* A statement on its way through the parser, the planner and the          *)
(* executors, for any statements and any database: no statement that was   *)
(* cut short is run, no executor panics, and LIMIT and OFFSET return the   *)
(* window they name.                                                       *)
(***************************************************************************)
EXTENDS Query, Foundations, FiniteSetTheorems

-----------------------------------------------------------------------------
(***************************************************************************)
(* Sequences.                                                              *)
(***************************************************************************)
LEMMA AppendIs ==
    ASSUME NEW S, NEW s \in Seq(S), NEW x \in S
    PROVE  Append(s, x) \in Seq(S)
OBVIOUS

LEMMA JoinIs ==
    ASSUME NEW S, NEW a \in Seq(S), NEW b \in Seq(S)
    PROVE  a \o b \in Seq(S)
OBVIOUS

LEMMA ListIs ==
    ASSUME NEW S, NEW n \in Nat, NEW f, f = [i \in 1..n |-> f[i]], \A i \in 1..n : f[i] \in S
    PROVE  f \in Seq(S) /\ Len(f) = n
<1>1. f \in [1..n -> S]
    OBVIOUS
<1> QED
    BY <1>1

LEMMA LeastIs ==
    ASSUME NEW n \in Nat, NEW I \in SUBSET (1..n), I # {}
    PROVE  Min(I) \in I
<1>1. \E m \in I : \A k \in I : m <= k
    <2>1. I \in SUBSET Nat
        OBVIOUS
    <2> QED
        BY <2>1, LeastNumber
<1> QED
    BY <1>1 DEF Min

\* What At takes is of the list.
LEMMA AtIs ==
    ASSUME NEW S, NEW list \in Seq(S), NEW places
    PROVE  At(list, places) \in Seq(S)
<1> DEFINE m == Len(list)
           G == Seq(S)
           base == <<>>
           Step(n, q) == IF n \in places THEN Append(q, list[n]) ELSE q
           body(f) == [n \in 0..m |-> IF n = 0 THEN base ELSE Step(n, f[n - 1])]
           step == [n \in 1..m |-> [q \in G |-> Step(n, q)]]
           loop == CHOOSE f : f = body(f)
<1>1. m \in Nat /\ base \in G
    OBVIOUS
<1>2. \A n \in 1..m, q \in G : Step(n, q) \in G
    BY ElementOfSeq, AppendIs
<1>3. At(list, places) = loop[m]
    BY DEF At
<1> HIDE DEF m, G, base, Step
<1>4. PICK f \in [0..m -> G] : Loops(f, base, step, m)
    <2>1. step \in [1..m -> [G -> G]]
        BY <1>2
    <2> HIDE DEF step
    <2> QED
        BY <1>1, <2>1, LoopExists
<1>5. f = body(f)
    <2>1. ASSUME NEW n \in 1..m PROVE f[n] = Step(n, f[n - 1])
        <3>1. n - 1 \in 0..m /\ f[n - 1] \in G /\ f[n] = step[n][f[n - 1]]
            BY <1>1, <1>4 DEF Loops
        <3> QED
            BY <3>1
    <2>2. f[0] = base
        BY <1>4 DEF Loops
    <2>3. \A n \in 0..m : f[n] = IF n = 0 THEN base ELSE Step(n, f[n - 1])
        BY <2>1, <2>2
    <2> QED
        BY <2>3
<1>6. loop = body(loop)
    <2> HIDE DEF body
    <2> QED
        BY <1>5
<1> HIDE DEF loop
<1>7. loop[0] = base /\ \A n \in 1..m : loop[n] = Step(n, loop[n - 1])
    BY <1>1, <1>6
<1>8. \A n \in 0..m : loop[n] \in G
    <2>1. loop[0] \in G /\ \A n \in 1..m : loop[n - 1] \in G => loop[n] \in G
        BY <1>1, <1>2, <1>7
    <2> QED
        BY <1>1, <2>1, Stays
<1>9. At(list, places) \in G
    BY <1>1, <1>3, <1>8
<1> QED
    BY <1>9 DEF G

\* Sequences of sequences, one behind the other.
LEMMA FlattenIs ==
    ASSUME NEW S, NEW list \in Seq(Seq(S))
    PROVE  FlattenSeq(list) \in Seq(S)
<1> DEFINE m == Len(list)
           body(f) == [i \in 1..m |-> IF i = 1 THEN list[i] ELSE f[i - 1] \o list[i]]
           step == [i \in 1..m |-> [q \in Seq(S) |-> q \o list[i]]]
           flat == CHOOSE f : f = body(f)
<1>1. m \in Nat /\ <<>> \in Seq(S) /\ \A i \in 1..m : list[i] \in Seq(S)
    BY ElementOfSeq
<1>2. FlattenSeq(list) = IF m = 0 THEN list ELSE flat[m]
    BY DEF FlattenSeq
<1>3. m = 0 => list = <<>>
    OBVIOUS
<1> HIDE DEF m
<1>4. step \in [1..m -> [Seq(S) -> Seq(S)]]
    BY <1>1, JoinIs
<1>5. PICK g \in [0..m -> Seq(S)] : Loops(g, <<>>, step, m)
    <2> HIDE DEF step
    <2> QED
        BY <1>1, <1>4, LoopExists
<1> DEFINE f == [i \in 1..m |-> g[i]]
<1>6. f = body(f)
    <2>1. ASSUME NEW i \in 1..m PROVE f[i] = IF i = 1 THEN list[i] ELSE f[i - 1] \o list[i]
        <3>0. i - 1 \in 0..m
            BY <1>1
        <3>1. g[i - 1] \in Seq(S) /\ g[i] = step[i][g[i - 1]]
            <4> HIDE DEF step, f
            <4> QED
                BY <1>5, <3>0 DEF Loops
        <3>2. g[i] = g[i - 1] \o list[i]
            BY <3>1
        <3>3. g[0] \o list[i] = list[i]
            BY <1>1, <1>5 DEF Loops
        <3>4. i # 1 => i - 1 \in 1..m
            BY <1>1
        <3>5. f[i] = g[i] /\ (i # 1 => f[i - 1] = g[i - 1])
            BY <3>4
        <3>6. i = 1 => i - 1 = 0
            OBVIOUS
        <3> HIDE DEF f, step
        <3> QED
            BY <3>2, <3>3, <3>5, <3>6
    <2> QED
        BY <2>1
<1>7. flat = body(flat)
    <2> HIDE DEF body, f
    <2> QED
        BY <1>6
<1> HIDE DEF flat
<1>8. m # 0 => flat[1] \in Seq(S) /\ \A i \in 1..m : i # 1 => flat[i] = flat[i - 1] \o list[i]
    <2>1. ASSUME NEW i \in 1..m PROVE flat[i] = IF i = 1 THEN list[i] ELSE flat[i - 1] \o list[i]
        BY <1>7
    <2>2. m # 0 => 1 \in 1..m
        BY <1>1
    <2> HIDE DEF body
    <2> QED
        BY <1>1, <2>1, <2>2
<1> DEFINE h == [i \in 0..m |-> IF i = 0 THEN <<>> ELSE flat[i]]
<1>9. \A i \in 0..m : h[i] \in Seq(S)
    <2>1. h[0] \in Seq(S)
        BY <1>1
    <2>2. ASSUME NEW i \in 1..m, h[i - 1] \in Seq(S) PROVE h[i] \in Seq(S)
        <3>1. h[i] = flat[i] /\ m # 0
            BY <1>1
        <3>2. i # 1 => h[i - 1] = flat[i - 1]
            BY <1>1
        <3> HIDE DEF h
        <3>3. CASE i = 1
            BY <1>8, <3>1, <3>3
        <3>4. CASE i # 1
            <4>1. h[i] = h[i - 1] \o list[i]
                BY <1>8, <3>1, <3>2, <3>4
            <4> QED
                BY <1>1, <2>2, <4>1, JoinIs
        <3> QED
            BY <3>3, <3>4
    <2> HIDE DEF h
    <2> QED
        BY <1>1, <2>1, <2>2, Stays
<1>10. m # 0 => flat[m] \in Seq(S)
    BY <1>1, <1>9
<1> QED
    BY <1>1, <1>2, <1>3, <1>10

LEMMA IndexIs ==
    ASSUME NEW S, NEW columns \in Seq(S), NEW name
    PROVE  Index(columns, name) \in 0..Len(columns)
<1> DEFINE I == {i \in 1..Len(columns) : columns[i] = name}
<1>1. Index(columns, name) = IF I # {} THEN Min(I) ELSE 0
    BY DEF Index, SelectInSeq
<1>2. Len(columns) \in Nat /\ I \in SUBSET (1..Len(columns))
    OBVIOUS
<1> HIDE DEF I
<1>3. I # {} => Min(I) \in 1..Len(columns)
    BY <1>2, LeastIs
<1> QED
    BY <1>1, <1>2, <1>3

-----------------------------------------------------------------------------
(***************************************************************************)
(* The parser.  Parsers(T, N) are its states over tokens of T, the last of *)
(* which is the end, with a node of N; and the state after an error, of    *)
(* which nothing comes but itself.                                         *)
(***************************************************************************)
AnyToken == Token \cup {Symbol(";"), EndOfInput}

Input(T) == {t \in Seq(T) : Len(t) # 0 /\ t[Len(t)] = EndOfInput}

Parsers(T, N) == {Failed} \cup [ok : {TRUE}, tokens : Input(T), node : N]

\* A parser in state p goes on to q.
Leads(T, N, p, q) == q \in Parsers(T, N) /\ (p = Failed => q = Failed)

LEMMA TokenIs ==
    ASSUME NEW t \in AnyToken
    PROVE  /\ t.kind = "identifier" => t.value \in STRING
           /\ t.kind = "literal" => t.value \in AnyValue
<1>0. ASSUME NEW k \in ReservedWord, t = Keyword(k) PROVE t.kind = "keyword"
    BY <1>0 DEF Keyword
<1>1. ASSUME NEW name \in STRING, t = Identifier(name) PROVE t.kind = "identifier" /\ t.value \in STRING
    BY <1>1 DEF Identifier
<1>2. ASSUME NEW v \in AnyValue, t = Literal(v) PROVE t.kind = "literal" /\ t.value \in AnyValue
    BY <1>2 DEF Literal
<1>3. ASSUME NEW x \in {",", "(", ")", "*", "=", ">", "<", ";", "end"}, t = Symbol(x)
      PROVE  t.kind \notin {"identifier", "literal"}
    BY <1>3 DEF Symbol
<1> QED
    BY <1>0, <1>1, <1>2, <1>3 DEF AnyToken, Token, EndOfInput

LEMMA ParserIs ==
    ASSUME NEW T, NEW N, NEW p \in Parsers(T, N), p # Failed
    PROVE  /\ p.ok = TRUE /\ p.node \in N
           /\ p.tokens \in Seq(T) /\ Len(p.tokens) \in Nat /\ Len(p.tokens) # 0
           /\ p.tokens[Len(p.tokens)] = EndOfInput
           /\ peek(p) = p.tokens[1] /\ peek(p) \in T
<1>1. p \in [ok : {TRUE}, tokens : Input(T), node : N]
    BY DEF Parsers
<1>2. p.ok = TRUE /\ p.node \in N /\ p = [ok |-> TRUE, tokens |-> p.tokens, node |-> p.node]
    BY <1>1
<1>3. p.tokens \in Input(T)
    BY <1>1
<1> DEFINE t == p.tokens
<1>4. t \in Seq(T) /\ Len(t) \in Nat /\ Len(t) # 0 /\ t[Len(t)] = EndOfInput
    BY <1>3 DEF Input
<1>5. peek(p) = t[1]
    BY DEF peek
<1> HIDE DEF t
<1>6. t[1] \in T
    BY <1>4
<1> QED
    BY <1>2, <1>4, <1>5, <1>6 DEF t

LEMMA ParserOf ==
    ASSUME NEW T, NEW N, NEW tokens \in Input(T), NEW node \in N
    PROVE  /\ [ok |-> TRUE, tokens |-> tokens, node |-> node] \in Parsers(T, N)
           /\ [ok |-> TRUE, tokens |-> tokens, node |-> node] # Failed
<1>1. [ok |-> TRUE, tokens |-> tokens, node |-> node].ok # Failed.ok
    BY DEF Failed
<1> QED
    BY <1>1 DEF Parsers

LEMMA FailedIs ==
    /\ Failed.ok = FALSE /\ peek(Failed) = EndOfInput /\ peek(Failed).kind = "end" /\ next(Failed) = Failed
    /\ Len(Failed.tokens) = 1
    /\ \A T, N : Failed \in Parsers(T, N)
BY DEF Failed, peek, next, EndOfInput, Symbol, Parsers

LEMMA TokensAre ==
    ASSUME NEW T, NEW N, NEW p \in Parsers(T, N)
    PROVE  Len(p.tokens) \in Nat
BY ParserIs, FailedIs

LEMMA NextIs ==
    ASSUME NEW T, NEW N, NEW p \in Parsers(T, N)
    PROVE  next(p) \in Parsers(T, N) /\ (next(p) = Failed <=> p = Failed) /\ next(p).node = p.node
<1>1. CASE p = Failed \/ peek(p).kind = "end"
    BY <1>1, FailedIs DEF next
<1>2. CASE p # Failed /\ peek(p).kind # "end"
    <2> DEFINE t == p.tokens
               node == p.node
    <2>1. /\ node \in N /\ t \in Seq(T) /\ Len(t) \in Nat /\ Len(t) # 0
          /\ t[Len(t)] = EndOfInput /\ peek(p) = t[1]
        BY <1>2, ParserIs, Zenon
    <2>2. p = [ok |-> TRUE, tokens |-> t, node |-> node]
        BY <1>2 DEF Parsers
    <2>3. next(p) = [p EXCEPT !.tokens = Tail(t)]
        BY <1>2 DEF next
    <2> HIDE DEF t, node
    <2>4. next(p) = [ok |-> TRUE, tokens |-> Tail(t), node |-> node]
        BY <2>2, <2>3
    <2>5. Len(t) > 1
        BY <1>2, <2>1 DEF EndOfInput, Symbol
    <2>6. Tail(t) \in Seq(T) /\ Len(Tail(t)) = Len(t) - 1
        BY <2>1, <2>5
    <2>7. Tail(t)[Len(t) - 1] = t[Len(t)]
        BY <2>1, <2>5
    <2>8. Tail(t) \in Input(T)
        <3> DEFINE r == Tail(t)
        <3>1. Len(r) # 0 /\ r[Len(r)] = EndOfInput /\ r \in Seq(T)
            BY <2>1, <2>5, <2>6, <2>7
        <3> HIDE DEF r
        <3>2. r \in Input(T)
            BY <3>1 DEF Input
        <3> QED
            BY <3>2 DEF r
    <2>9. next(p).node = node
        BY <2>4
    <2>10. next(p) \in Parsers(T, N) /\ next(p) # Failed
        BY <2>1, <2>4, <2>8, ParserOf
    <2> QED
        BY <1>2, <2>9, <2>10 DEF node
<1> QED
    BY <1>1, <1>2

LEMMA YieldIs ==
    ASSUME NEW T, NEW M, NEW N, NEW p \in Parsers(T, M), NEW node, p # Failed => node \in N
    PROVE  /\ Yield(p, node) \in Parsers(T, N) /\ (Yield(p, node) = Failed <=> p = Failed)
           /\ p # Failed => Yield(p, node).node = node
<1>1. CASE p = Failed
    BY <1>1, FailedIs DEF Yield
<1>2. CASE p # Failed
    <2>1. p.ok = TRUE /\ p = [ok |-> TRUE, tokens |-> p.tokens, node |-> p.node] /\ p.tokens \in Input(T)
        BY <1>2 DEF Parsers
    <2>2. Yield(p, node) = [ok |-> TRUE, tokens |-> p.tokens, node |-> node]
        BY <2>1 DEF Yield
    <2> QED
        BY <1>2, <2>1, <2>2, ParserOf
<1> QED
    BY <1>1, <1>2

LEMMA ExpectIs ==
    ASSUME NEW T, NEW N, NEW p \in Parsers(T, N), NEW kind
    PROVE  /\ Leads(T, N, p, expect(p, kind)) /\ (expect(p, kind) # Failed => expect(p, kind).node = p.node)
BY NextIs, FailedIs, ParserIs DEF expect, Leads

LEMMA Expected ==
    ASSUME NEW p, NEW kind, expect(p, kind) # Failed
    PROVE  p # Failed /\ peek(p).kind = kind
BY FailedIs DEF expect

LEMMA AtKeywordIs ==
    ASSUME NEW keywords, NEW p, AtKeyword(p, keywords)
    PROVE  p # Failed /\ peek(p).kind = "keyword" /\ peek(p).value \in keywords
BY FailedIs DEF AtKeyword

LEMMA ExpectKeywordIs ==
    ASSUME NEW T, NEW N, NEW p \in Parsers(T, N), NEW k
    PROVE  Leads(T, N, p, expectKeyword(p, k))
BY NextIs, FailedIs, AtKeywordIs DEF expectKeyword, Leads

LEMMA ExpectIdentifierIs ==
    ASSUME NEW T \in SUBSET AnyToken, NEW N, NEW p \in Parsers(T, N)
    PROVE  Leads(T, STRING, p, expectIdentifier(p))
<1>1. CASE peek(p).kind = "identifier"
    <2>1. p # Failed
        BY <1>1, FailedIs
    <2>2. peek(p).value \in STRING
        BY <1>1, <2>1, ParserIs, TokenIs
    <2>3. Yield(next(p), peek(p).value) \in Parsers(T, STRING)
        BY <2>2, NextIs, YieldIs
    <2> QED
        BY <1>1, <2>1, <2>3 DEF expectIdentifier, Leads
<1>2. CASE peek(p).kind # "identifier"
    BY <1>2, FailedIs DEF expectIdentifier, Leads
<1> QED
    BY <1>1, <1>2

\* Steps follow each other.
LEMMA LeadsOn ==
    ASSUME NEW T, NEW M, NEW N, NEW p, NEW q, NEW r, Leads(T, M, p, q), Leads(T, N, q, r)
    PROVE  Leads(T, N, p, r) /\ (r # Failed => q # Failed /\ q.node \in M /\ r.node \in N)
BY ParserIs DEF Leads

\* A node is built from what has been parsed on the way.
LEMMA LeadsYield ==
    ASSUME NEW T, NEW M, NEW N, NEW p, NEW q, Leads(T, M, p, q), NEW node, q # Failed => node \in N
    PROVE  Leads(T, N, p, Yield(q, node)) /\ (Yield(q, node) # Failed => Yield(q, node).node = node)
BY YieldIs DEF Leads

LEMMA ExpressionIs ==
    ASSUME NEW T \in SUBSET AnyToken, NEW N, NEW p \in Parsers(T, N)
    PROVE  Leads(T, Expression, p, parseExpression(p))
<1> DEFINE token == peek(p)
           after == next(p)
           argument == expectIdentifier(next(after))
           literal == KeywordLiteral[token.value]
<1>e. parseExpression(p) =
        CASE token.kind = "identifier" /\ peek(after).kind # "(" -> Yield(after, <<"column", token.value>>)
          [] token.kind = "identifier" /\ peek(after).kind = "(" ->
                Yield(expect(argument, ")"), <<"function", token.value, argument.node>>)
          [] token.kind = "literal" -> Yield(after, <<"literal", token.value>>)
          [] AtKeyword(p, DOMAIN KeywordLiteral) -> Yield(after, <<"literal", literal>>)
          [] OTHER -> Failed
    BY DEF parseExpression
<1>k. AtKeyword(p, DOMAIN KeywordLiteral) => token.kind = "keyword"
    BY DEF AtKeyword
<1>0. after \in Parsers(T, N) /\ (after = Failed <=> p = Failed)
    BY NextIs
<1>1. p # Failed => token \in AnyToken
    BY ParserIs
<1>2. p = Failed => token.kind = "end"
    BY FailedIs
<1>3. CASE token.kind = "identifier" /\ peek(after).kind # "("
    <2>1. parseExpression(p) = Yield(after, <<"column", token.value>>)
        <3> HIDE DEF token, after, argument, literal
        <3> QED
            BY <1>3, <1>e, <1>k
    <2>2. p # Failed /\ <<"column", token.value>> \in Expression
        BY <1>1, <1>2, <1>3, TokenIs DEF Expression
    <2> HIDE DEF token, after, argument
    <2> QED
        BY <1>0, <2>1, <2>2, YieldIs DEF Leads
<1>4. CASE token.kind = "identifier" /\ peek(after).kind = "("
    <2> DEFINE closed == expect(argument, ")")
    <2>1. parseExpression(p) = Yield(closed, <<"function", token.value, argument.node>>)
        <3> HIDE DEF token, after, argument, literal
        <3> QED
            BY <1>4, <1>e, <1>k
    <2>2. p # Failed /\ token.value \in STRING
        BY <1>1, <1>2, <1>4, TokenIs
    <2> HIDE DEF token
    <2>3. Leads(T, STRING, next(after), argument)
        BY <1>0, NextIs, ExpectIdentifierIs
    <2> HIDE DEF after, argument
    <2>4. closed \in Parsers(T, STRING) /\ (closed # Failed => argument # Failed)
        BY <2>3, ExpectIs DEF Leads
    <2>5. closed # Failed => argument.node \in STRING
        BY <2>3, <2>4, ParserIs DEF Leads
    <2>6. closed # Failed => <<"function", token.value, argument.node>> \in Expression
        BY <2>2, <2>5 DEF Expression
    <2> HIDE DEF closed
    <2> QED
        BY <2>1, <2>2, <2>4, <2>6, YieldIs DEF Leads
<1>5. CASE token.kind = "literal"
    <2>1. parseExpression(p) = Yield(after, <<"literal", token.value>>)
        <3> HIDE DEF token, after, argument, literal
        <3> QED
            BY <1>5, <1>e, <1>k
    <2>2. p # Failed /\ <<"literal", token.value>> \in Expression
        BY <1>1, <1>2, <1>5, TokenIs DEF Expression
    <2> HIDE DEF token, after, argument
    <2> QED
        BY <1>0, <2>1, <2>2, YieldIs DEF Leads
<1>6. CASE AtKeyword(p, DOMAIN KeywordLiteral)
    <2>1. p # Failed /\ token.kind = "keyword" /\ token.value \in DOMAIN KeywordLiteral
        BY <1>6, AtKeywordIs
    <2>2. parseExpression(p) = Yield(after, <<"literal", literal>>)
        <3> HIDE DEF token, after, argument, literal
        <3> QED
            BY <1>6, <2>1, <1>e
    <2>3. literal \in AnyValue
        BY <2>1 DEF KeywordLiteral, Boolean, Null, AnyValue, ValueKind, DataType
    <2> HIDE DEF token, after, argument, literal
    <2>4. <<"literal", literal>> \in Expression
        BY <2>3 DEF Expression
    <2> QED
        BY <1>0, <2>1, <2>2, <2>4, YieldIs DEF Leads
<1>7. CASE /\ token.kind \notin {"identifier", "literal"} /\ ~AtKeyword(p, DOMAIN KeywordLiteral)
    <2>1. parseExpression(p) = Failed
        <3> HIDE DEF token, after, argument, literal
        <3> QED
            BY <1>7, <1>e
    <2> QED
        BY <2>1, FailedIs DEF Leads
<1> QED
    BY <1>3, <1>4, <1>5, <1>6, <1>7

LEMMA ComparisonIs ==
    ASSUME NEW T \in SUBSET AnyToken, NEW N, NEW p \in Parsers(T, N)
    PROVE  Leads(T, Operation, p, parseComparisonExpression(p))
<1> DEFINE left == parseExpression(p)
           right == parseExpression(next(left))
           node == [left |-> left.node, operation |-> peek(left).kind, right |-> right.node]
<1>1. Leads(T, Expression, p, left)
    BY ExpressionIs
<1>2. parseComparisonExpression(p) =
        IF peek(left).kind \notin {"=", ">", "<"} THEN Failed ELSE Yield(right, node)
    BY DEF parseComparisonExpression
<1> HIDE DEF left
<1>3. Leads(T, Expression, left, right)
    BY <1>1, NextIs, ExpressionIs DEF Leads
<1> HIDE DEF right
<1>4. Leads(T, Expression, p, right) /\ (right # Failed => left.node \in Expression /\ right.node \in Expression)
    BY <1>1, <1>3, LeadsOn
<1>5. CASE peek(left).kind \in {"=", ">", "<"}
    <2>1. right # Failed => node \in Operation
        BY <1>4, <1>5 DEF Operation
    <2> HIDE DEF node
    <2> QED
        BY <1>2, <1>4, <1>5, <2>1, LeadsYield
<1>6. CASE peek(left).kind \notin {"=", ">", "<"}
    BY <1>2, <1>6, FailedIs DEF Leads
<1> QED
    BY <1>5, <1>6

LEMMA OptionalComparisonIs ==
    ASSUME NEW T \in SUBSET AnyToken, NEW N, NEW p \in Parsers(T, N), NEW k
    PROVE  Leads(T, Optionally(Operation), p, parseOptionalComparison(p, k))
<1>1. CASE AtKeyword(p, {k})
    <2>1. parseOptionalComparison(p, k) = parseComparisonExpression(next(p))
        BY <1>1 DEF parseOptionalComparison
    <2>2. Leads(T, Operation, next(p), parseComparisonExpression(next(p)))
        BY NextIs, ComparisonIs
    <2>3. Parsers(T, Operation) \subseteq Parsers(T, Optionally(Operation))
        BY DEF Parsers, Optionally
    <2> QED
        BY <2>1, <2>2, <2>3, NextIs DEF Leads
<1>2. CASE ~AtKeyword(p, {k})
    BY <1>2, YieldIs DEF parseOptionalComparison, Leads, Optionally
<1> QED
    BY <1>1, <1>2

LEMMA OptionalExpressionIs ==
    ASSUME NEW T \in SUBSET AnyToken, NEW N, NEW p \in Parsers(T, N), NEW k
    PROVE  Leads(T, Optionally(Expression), p, parseOptionalExpression(p, k))
<1>1. CASE AtKeyword(p, {k})
    <2>1. parseOptionalExpression(p, k) = parseExpression(next(p))
        BY <1>1 DEF parseOptionalExpression
    <2>2. Leads(T, Expression, next(p), parseExpression(next(p)))
        BY NextIs, ExpressionIs
    <2>3. Parsers(T, Expression) \subseteq Parsers(T, Optionally(Expression))
        BY DEF Parsers, Optionally
    <2> QED
        BY <2>1, <2>2, <2>3, NextIs DEF Leads
<1>2. CASE ~AtKeyword(p, {k})
    BY <1>2, YieldIs DEF parseOptionalExpression, Leads, Optionally
<1> QED
    BY <1>1, <1>2

-----------------------------------------------------------------------------
(***************************************************************************)
(* Lists.                                                                  *)
(***************************************************************************)
LEMMA FirstItem ==
    ASSUME NEW T, NEW N, NEW p, NEW first, Leads(T, N, p, first)
    PROVE  /\ Len(first.tokens) \in Nat
           /\ Yield(first, <<first.node>>) \in {q \in Parsers(T, Seq(N)) : first = Failed => q = Failed}
<1>1. first \in Parsers(T, N)
    BY DEF Leads
<1>2. first # Failed => first.node \in N
    BY <1>1, ParserIs
<1>3. first # Failed => <<first.node>> \in Seq(N)
    BY <1>2
<1> QED
    BY <1>1, <1>3, TokensAre, YieldIs

LEMMA MoreItems ==
    ASSUME NEW T, NEW N, NEW q \in Parsers(T, Seq(N)), NEW item \in Parsers(T, N)
    PROVE  (IF peek(q).kind = "," THEN Yield(item, Append(q.node, item.node)) ELSE q) \in Parsers(T, Seq(N))
<1>1. CASE peek(q).kind = ","
    <2>1. q # Failed
        BY <1>1, FailedIs
    <2>2. q.node \in Seq(N)
        BY <2>1, ParserIs
    <2>3. item # Failed => item.node \in N
        BY ParserIs
    <2>4. item # Failed => Append(q.node, item.node) \in Seq(N)
        BY <2>2, <2>3, AppendIs
    <2> QED
        BY <1>1, <2>4, YieldIs
<1> QED
    BY <1>1

LEMMA SelectItemIs ==
    ASSUME NEW T \in SUBSET AnyToken, NEW N, NEW p \in Parsers(T, N)
    PROVE  Leads(T, SelectItem, p, parseSelectItem(p))
<1> DEFINE expression == parseExpression(p)
           alias == IF AtKeyword(expression, {"AS"}) THEN expectIdentifier(next(expression))
                    ELSE Yield(expression, Unset)
           node == [expression |-> expression.node, alias |-> alias.node]
<1>1. Leads(T, Expression, p, expression)
    BY ExpressionIs
<1>2. parseSelectItem(p) = Yield(alias, node)
    BY DEF parseSelectItem
<1> HIDE DEF expression
<1>3. Leads(T, Optionally(STRING), expression, alias)
    <2>1. CASE AtKeyword(expression, {"AS"})
        <3>1. Leads(T, STRING, next(expression), expectIdentifier(next(expression)))
            BY <1>1, NextIs, ExpectIdentifierIs DEF Leads
        <3>2. Parsers(T, STRING) \subseteq Parsers(T, Optionally(STRING))
            BY DEF Parsers, Optionally
        <3> QED
            BY <1>1, <2>1, <3>1, <3>2, NextIs DEF Leads
    <2>2. CASE ~AtKeyword(expression, {"AS"})
        <3>1. Unset \in Optionally(STRING)
            BY DEF Optionally
        <3> QED
            BY <1>1, <2>2, <3>1, YieldIs DEF Leads
    <2> QED
        BY <2>1, <2>2
<1> HIDE DEF alias
<1>4. Leads(T, Optionally(STRING), p, alias)
      /\ (alias # Failed => expression.node \in Expression /\ alias.node \in Optionally(STRING))
    BY <1>1, <1>3, LeadsOn
<1>5. alias # Failed => node \in SelectItem
    BY <1>4 DEF SelectItem
<1> HIDE DEF node
<1> QED
    BY <1>2, <1>4, <1>5, LeadsYield

LEMMA OrderItemIs ==
    ASSUME NEW T \in SUBSET AnyToken, NEW N, NEW p \in Parsers(T, N)
    PROVE  Leads(T, OrderBy, p, parseOrderItem(p))
<1> DEFINE column == expectIdentifier(p)
           direction == IF AtKeyword(column, {"ASC", "DESC"}) THEN next(column) ELSE column
           node == [column |-> column.node, descending |-> AtKeyword(column, {"DESC"})]
<1>1. Leads(T, STRING, p, column)
    BY ExpectIdentifierIs
<1>2. parseOrderItem(p) = Yield(direction, node)
    BY DEF parseOrderItem
<1> HIDE DEF column
<1>3. Leads(T, STRING, column, direction)
    BY <1>1, NextIs DEF Leads
<1> HIDE DEF direction
<1>4. Leads(T, STRING, p, direction) /\ (direction # Failed => column.node \in STRING)
    BY <1>1, <1>3, LeadsOn
<1>5. AtKeyword(column, {"DESC"}) \in BOOLEAN
    <2>1. AtKeyword(column, {"DESC"}) = IF peek(column).kind = "keyword" THEN peek(column).value \in {"DESC"} ELSE FALSE
        BY DEF AtKeyword
    <2>2. (peek(column).value \in {"DESC"}) \in BOOLEAN
        OBVIOUS
    <2> QED
        BY <2>1, <2>2, Zenon
<1>6. direction # Failed => node \in OrderBy
    BY <1>4, <1>5 DEF OrderBy
<1> HIDE DEF node
<1> QED
    BY <1>2, <1>4, <1>6, LeadsYield

LEMMA SelectItemsAre ==
    ASSUME NEW T \in SUBSET AnyToken, NEW N, NEW p \in Parsers(T, N)
    PROVE  Leads(T, Seq(SelectItem), p, CommaSeparated(p, parseSelectItem))
<1> DEFINE first == parseSelectItem(p)
<1>a. Leads(T, SelectItem, p, first)
    BY SelectItemIs
<1> DEFINE m == Len(first.tokens)
           G == {q \in Parsers(T, Seq(SelectItem)) : first = Failed => q = Failed}
           base == Yield(first, <<first.node>>)
           Step(n, q) == IF peek(q).kind = "," THEN Yield(parseSelectItem(next(q)), Append(q.node, parseSelectItem(next(q)).node)) ELSE q
           body(f) == [n \in 0..m |-> IF n = 0 THEN base ELSE Step(n, f[n - 1])]
           step == [n \in 1..m |-> [q \in G |-> Step(n, q)]]
           loop == CHOOSE f : f = body(f)
<1>1. m \in Nat /\ base \in G
    <2> HIDE DEF first
    <2> QED
        BY <1>a, FirstItem
<1>2. \A n \in 1..m, q \in G : Step(n, q) \in G
    <2> HIDE DEF first
    <2>1. ASSUME NEW q \in G PROVE Step(1, q) \in G
        <3>1. next(q) \in Parsers(T, Seq(SelectItem))
            BY NextIs
        <3>2. parseSelectItem(next(q)) \in Parsers(T, SelectItem)
            BY <3>1, SelectItemIs DEF Leads
        <3>3. peek(q).kind = "," => q # Failed
            BY FailedIs
        <3> DEFINE item == parseSelectItem(next(q))
        <3> HIDE DEF item
        <3>4. (IF peek(q).kind = "," THEN Yield(item, Append(q.node, item.node)) ELSE q) \in Parsers(T, Seq(SelectItem))
            BY <3>2, MoreItems DEF item
        <3> QED
            BY <3>3, <3>4 DEF item
    <2> QED
        BY <2>1
<1>3. CommaSeparated(p, parseSelectItem) = loop[m]
    BY DEF CommaSeparated
<1> HIDE DEF m, G, base, Step
<1>4. PICK f \in [0..m -> G] : Loops(f, base, step, m)
    <2>1. step \in [1..m -> [G -> G]]
        BY <1>2
    <2> HIDE DEF step
    <2> QED
        BY <1>1, <2>1, LoopExists
<1>5. f = body(f)
    <2>1. ASSUME NEW n \in 1..m PROVE f[n] = Step(n, f[n - 1])
        <3>1. n - 1 \in 0..m /\ f[n - 1] \in G /\ f[n] = step[n][f[n - 1]]
            BY <1>1, <1>4 DEF Loops
        <3> QED
            BY <3>1
    <2>2. f[0] = base
        BY <1>4 DEF Loops
    <2>3. \A n \in 0..m : f[n] = IF n = 0 THEN base ELSE Step(n, f[n - 1])
        BY <2>1, <2>2
    <2> QED
        BY <2>3
<1>6. loop = body(loop)
    <2> HIDE DEF body
    <2> QED
        BY <1>5
<1> HIDE DEF loop
<1>7. loop[0] = base /\ \A n \in 1..m : loop[n] = Step(n, loop[n - 1])
    BY <1>1, <1>6
<1>8. \A n \in 0..m : loop[n] \in G
    <2>1. loop[0] \in G /\ \A n \in 1..m : loop[n - 1] \in G => loop[n] \in G
        BY <1>1, <1>2, <1>7
    <2> QED
        BY <1>1, <2>1, Stays
<1>9. CommaSeparated(p, parseSelectItem) \in G
    BY <1>1, <1>3, <1>8
<1> QED
    <2> HIDE DEF first
    <2> QED
        BY <1>9, <1>a DEF G, Leads

LEMMA OrderItemsAre ==
    ASSUME NEW T \in SUBSET AnyToken, NEW N, NEW p \in Parsers(T, N)
    PROVE  Leads(T, Seq(OrderBy), p, CommaSeparated(p, parseOrderItem))
<1> DEFINE first == parseOrderItem(p)
<1>a. Leads(T, OrderBy, p, first)
    BY OrderItemIs
<1> DEFINE m == Len(first.tokens)
           G == {q \in Parsers(T, Seq(OrderBy)) : first = Failed => q = Failed}
           base == Yield(first, <<first.node>>)
           Step(n, q) == IF peek(q).kind = "," THEN Yield(parseOrderItem(next(q)), Append(q.node, parseOrderItem(next(q)).node)) ELSE q
           body(f) == [n \in 0..m |-> IF n = 0 THEN base ELSE Step(n, f[n - 1])]
           step == [n \in 1..m |-> [q \in G |-> Step(n, q)]]
           loop == CHOOSE f : f = body(f)
<1>1. m \in Nat /\ base \in G
    <2> HIDE DEF first
    <2> QED
        BY <1>a, FirstItem
<1>2. \A n \in 1..m, q \in G : Step(n, q) \in G
    <2> HIDE DEF first
    <2>1. ASSUME NEW q \in G PROVE Step(1, q) \in G
        <3>1. next(q) \in Parsers(T, Seq(OrderBy))
            BY NextIs
        <3>2. parseOrderItem(next(q)) \in Parsers(T, OrderBy)
            BY <3>1, OrderItemIs DEF Leads
        <3>3. peek(q).kind = "," => q # Failed
            BY FailedIs
        <3> DEFINE item == parseOrderItem(next(q))
        <3> HIDE DEF item
        <3>4. (IF peek(q).kind = "," THEN Yield(item, Append(q.node, item.node)) ELSE q) \in Parsers(T, Seq(OrderBy))
            BY <3>2, MoreItems DEF item
        <3> QED
            BY <3>3, <3>4 DEF item
    <2> QED
        BY <2>1
<1>3. CommaSeparated(p, parseOrderItem) = loop[m]
    BY DEF CommaSeparated
<1> HIDE DEF m, G, base, Step
<1>4. PICK f \in [0..m -> G] : Loops(f, base, step, m)
    <2>1. step \in [1..m -> [G -> G]]
        BY <1>2
    <2> HIDE DEF step
    <2> QED
        BY <1>1, <2>1, LoopExists
<1>5. f = body(f)
    <2>1. ASSUME NEW n \in 1..m PROVE f[n] = Step(n, f[n - 1])
        <3>1. n - 1 \in 0..m /\ f[n - 1] \in G /\ f[n] = step[n][f[n - 1]]
            BY <1>1, <1>4 DEF Loops
        <3> QED
            BY <3>1
    <2>2. f[0] = base
        BY <1>4 DEF Loops
    <2>3. \A n \in 0..m : f[n] = IF n = 0 THEN base ELSE Step(n, f[n - 1])
        BY <2>1, <2>2
    <2> QED
        BY <2>3
<1>6. loop = body(loop)
    <2> HIDE DEF body
    <2> QED
        BY <1>5
<1> HIDE DEF loop
<1>7. loop[0] = base /\ \A n \in 1..m : loop[n] = Step(n, loop[n - 1])
    BY <1>1, <1>6
<1>8. \A n \in 0..m : loop[n] \in G
    <2>1. loop[0] \in G /\ \A n \in 1..m : loop[n - 1] \in G => loop[n] \in G
        BY <1>1, <1>2, <1>7
    <2> QED
        BY <1>1, <2>1, Stays
<1>9. CommaSeparated(p, parseOrderItem) \in G
    BY <1>1, <1>3, <1>8
<1> QED
    <2> HIDE DEF first
    <2> QED
        BY <1>9, <1>a DEF G, Leads

-----------------------------------------------------------------------------
(***************************************************************************)
(* SELECT.                                                                 *)
(***************************************************************************)
LEMMA JoinTypeIs ==
    ASSUME NEW T \in SUBSET AnyToken, NEW N, NEW p \in Parsers(T, N), AtKeyword(p, JoinKeywords)
    PROVE  Leads(T, {"inner", "cross", "left", "right"}, p, parseJoinType(p))
<1> DEFINE type == [JOIN |-> "inner", CROSS |-> "cross", LEFT |-> "left", RIGHT |-> "right"]
           node == type[peek(p).value]
           q == IF AtKeyword(p, {"JOIN"}) THEN next(p) ELSE expectKeyword(next(p), "JOIN")
<1>1. node \in {"inner", "cross", "left", "right"}
    BY AtKeywordIs DEF JoinKeywords
<1>2. parseJoinType(p) = Yield(q, node)
    BY DEF parseJoinType
<1>3. Leads(T, N, p, q)
    <2>1. Leads(T, N, next(p), expectKeyword(next(p), "JOIN"))
        BY NextIs, ExpectKeywordIs
    <2> QED
        BY <2>1, NextIs DEF Leads
<1> HIDE DEF node, q
<1> QED
    BY <1>1, <1>2, <1>3, LeadsYield

LEMMA JoinPredicateIs ==
    ASSUME NEW type, NEW left \in Expression, NEW right \in Expression
    PROVE  JoinPredicate(type, left, right) \in Optionally(Operation)
BY DEF JoinPredicate, Operation, Optionally

LEMMA JoinItemIs ==
    ASSUME NEW T \in SUBSET AnyToken, NEW N, NEW p \in Parsers(T, N), AtKeyword(p, JoinKeywords)
    PROVE  Leads(T, JoinFromItem, p, parseJoin(p))
<1> DEFINE Types == {"inner", "cross", "left", "right"}
           type == parseJoinType(p)
           table == expectIdentifier(type)
           on == expectKeyword(table, "ON")
           left == parseExpression(on)
           equal == expect(left, "=")
           right == parseExpression(equal)
           crossNode == [type |-> "cross", table |-> table.node, predicate |-> Unset]
           node == [type |-> type.node, table |-> table.node,
                    predicate |-> JoinPredicate(type.node, left.node, right.node)]
<1>1. Leads(T, Types, p, type)
    BY JoinTypeIs
<1>2. parseJoin(p) = IF type.ok /\ type.node = "cross" THEN Yield(table, crossNode) ELSE Yield(right, node)
    BY DEF parseJoin
<1> HIDE DEF Types, type
<1>3. Leads(T, STRING, type, table)
    BY <1>1, ExpectIdentifierIs DEF Leads
<1> HIDE DEF table
<1>4. Leads(T, STRING, table, on)
    BY <1>3, ExpectKeywordIs DEF Leads
<1> HIDE DEF on
<1>5. Leads(T, Expression, on, left)
    BY <1>4, ExpressionIs DEF Leads
<1> HIDE DEF left
<1>6. Leads(T, Expression, left, equal)
    BY <1>5, ExpectIs DEF Leads
<1> HIDE DEF equal
<1>7. Leads(T, Expression, equal, right)
    BY <1>6, ExpressionIs DEF Leads
<1> HIDE DEF right
<1>8. Leads(T, STRING, p, table) /\ (table # Failed => type.node \in Types /\ table.node \in STRING)
    BY <1>1, <1>3, LeadsOn
<1>9. Leads(T, STRING, p, on) /\ (on # Failed => table # Failed)
    BY <1>4, <1>8, LeadsOn
<1>10. Leads(T, Expression, p, left) /\ (left # Failed => on # Failed /\ left.node \in Expression)
    BY <1>5, <1>9, LeadsOn
<1>11. Leads(T, Expression, p, equal) /\ (equal # Failed => left # Failed)
    BY <1>6, <1>10, LeadsOn
<1>12. Leads(T, Expression, p, right) /\ (right # Failed => equal # Failed /\ right.node \in Expression)
    BY <1>7, <1>11, LeadsOn
<1>13. CASE type.ok /\ type.node = "cross"
    <2>1. table # Failed => crossNode \in JoinFromItem
        BY <1>8 DEF JoinFromItem, Optionally
    <2> HIDE DEF crossNode, node
    <2> QED
        BY <1>2, <1>8, <1>13, <2>1, LeadsYield
<1>14. CASE ~(type.ok /\ type.node = "cross")
    <2>1. right # Failed => node \in JoinFromItem
        <3> SUFFICES ASSUME right # Failed PROVE node \in JoinFromItem
            OBVIOUS
        <3> DEFINE predicate == JoinPredicate(type.node, left.node, right.node)
        <3>1. predicate \in Optionally(Operation)
            BY <1>10, <1>11, <1>12, JoinPredicateIs
        <3>2. type.node \in Types /\ table.node \in STRING
            BY <1>8, <1>9, <1>10, <1>11, <1>12
        <3> HIDE DEF predicate
        <3>3. [type |-> type.node, table |-> table.node, predicate |-> predicate] \in JoinFromItem
            BY <3>1, <3>2 DEF JoinFromItem, Types
        <3> QED
            BY <3>3 DEF predicate
    <2> HIDE DEF crossNode, node
    <2> QED
        BY <1>2, <1>12, <1>14, <2>1, LeadsYield
<1> QED
    BY <1>13, <1>14

LEMMA FromIs ==
    ASSUME NEW T \in SUBSET AnyToken, NEW N, NEW p \in Parsers(T, N)
    PROVE  Leads(T, FromItem, p, parseFromClause(p))
<1> DEFINE table == expectIdentifier(expectKeyword(p, "FROM"))
<1>a. Leads(T, STRING, p, table)
    <2>1. Leads(T, N, p, expectKeyword(p, "FROM"))
        BY ExpectKeywordIs
    <2> QED
        BY <2>1, ExpectIdentifierIs DEF Leads
<1> DEFINE m == Len(table.tokens)
           G == {q \in Parsers(T, FromItem) : table = Failed => q = Failed}
           base == Yield(table, [table |-> table.node, joins |-> <<>>])
           Step(n, q) == IF AtKeyword(q, JoinKeywords)
                         THEN Yield(parseJoin(q), [q.node EXCEPT !.joins = Append(@, parseJoin(q).node)]) ELSE q
           body(f) == [n \in 0..m |-> IF n = 0 THEN base ELSE Step(n, f[n - 1])]
           step == [n \in 1..m |-> [q \in G |-> Step(n, q)]]
           loop == CHOOSE f : f = body(f)
<1>1. m \in Nat /\ base \in G
    <2> HIDE DEF table
    <2>1. table \in Parsers(T, STRING)
        BY <1>a DEF Leads
    <2>2. table # Failed => table.node \in STRING
        BY <2>1, ParserIs
    <2>3. table # Failed => [table |-> table.node, joins |-> <<>>] \in FromItem
        BY <2>2 DEF FromItem
    <2> DEFINE node == [table |-> table.node, joins |-> <<>>]
    <2> HIDE DEF node
    <2>4. Yield(table, node) \in Parsers(T, FromItem) /\ (table = Failed => Yield(table, node) = Failed)
        BY <2>1, <2>3, YieldIs DEF node
    <2> QED
        BY <2>1, <2>4, TokensAre DEF node
<1>2. \A n \in 1..m, q \in G : Step(n, q) \in G
    <2> HIDE DEF table
    <2>1. ASSUME NEW q \in G, AtKeyword(q, JoinKeywords) PROVE Step(1, q) \in G
        <3> DEFINE join == parseJoin(q)
        <3>1. q # Failed /\ join \in Parsers(T, JoinFromItem)
            BY <2>1, AtKeywordIs, JoinItemIs DEF Leads
        <3>2. q.node \in FromItem
            BY <3>1, ParserIs
        <3> HIDE DEF join
        <3>3. join # Failed => join.node \in JoinFromItem
            BY <3>1, ParserIs
        <3> DEFINE node == [q.node EXCEPT !.joins = Append(@, join.node)]
        <3>4. join # Failed => node \in FromItem
            <4> SUFFICES ASSUME join # Failed PROVE node \in FromItem
                OBVIOUS
            <4> DEFINE n == q.node
                       joins == Append(n.joins, join.node)
            <4>1. n = [table |-> n.table, joins |-> n.joins] /\ n.table \in STRING /\ n.joins \in Seq(JoinFromItem)
                BY <3>2 DEF FromItem
            <4> HIDE DEF n
            <4>2. joins \in Seq(JoinFromItem)
                BY <3>3, <4>1, AppendIs
            <4>3. node = [n EXCEPT !.joins = joins]
                BY DEF n
            <4> HIDE DEF joins, node
            <4>4. node = [table |-> n.table, joins |-> joins]
                BY <4>1, <4>3
            <4> QED
                BY <4>1, <4>2, <4>4 DEF FromItem
        <3> HIDE DEF node
        <3>5. Yield(join, node) \in Parsers(T, FromItem)
            BY <3>1, <3>4, YieldIs
        <3> QED
            BY <2>1, <3>1, <3>5 DEF join, node
    <2> QED
        BY <2>1
<1>3. parseFromClause(p) = loop[m]
    BY DEF parseFromClause
<1> HIDE DEF m, G, base, Step
<1>4. PICK f \in [0..m -> G] : Loops(f, base, step, m)
    <2>1. step \in [1..m -> [G -> G]]
        BY <1>2
    <2> HIDE DEF step
    <2> QED
        BY <1>1, <2>1, LoopExists
<1>5. f = body(f)
    <2>1. ASSUME NEW n \in 1..m PROVE f[n] = Step(n, f[n - 1])
        <3>1. n - 1 \in 0..m /\ f[n - 1] \in G /\ f[n] = step[n][f[n - 1]]
            BY <1>1, <1>4 DEF Loops
        <3> QED
            BY <3>1
    <2>2. f[0] = base
        BY <1>4 DEF Loops
    <2>3. \A n \in 0..m : f[n] = IF n = 0 THEN base ELSE Step(n, f[n - 1])
        BY <2>1, <2>2
    <2> QED
        BY <2>3
<1>6. loop = body(loop)
    <2> HIDE DEF body
    <2> QED
        BY <1>5
<1> HIDE DEF loop
<1>7. loop[0] = base /\ \A n \in 1..m : loop[n] = Step(n, loop[n - 1])
    BY <1>1, <1>6
<1>8. \A n \in 0..m : loop[n] \in G
    <2>1. loop[0] \in G /\ \A n \in 1..m : loop[n - 1] \in G => loop[n] \in G
        BY <1>1, <1>2, <1>7
    <2> QED
        BY <1>1, <2>1, Stays
<1>9. parseFromClause(p) \in G
    BY <1>1, <1>3, <1>8
<1> QED
    <2> HIDE DEF table
    <2> QED
        BY <1>9, <1>a DEF G, Leads

LEMMA SelectItemsIs ==
    ASSUME NEW T \in SUBSET AnyToken, NEW N, NEW p \in Parsers(T, N)
    PROVE  Leads(T, Seq(SelectItem), p, parseSelectItems(p))
<1>1. CASE peek(p).kind = "*"
    <2> DEFINE none == <<>>
    <2>1. parseSelectItems(p) = Yield(next(p), none)
        BY <1>1 DEF parseSelectItems
    <2>2. none \in Seq(SelectItem)
        OBVIOUS
    <2> HIDE DEF none
    <2>3. Leads(T, N, p, next(p))
        BY NextIs DEF Leads
    <2> QED
        BY <2>1, <2>2, <2>3, LeadsYield
<1>2. CASE peek(p).kind # "*"
    <2>1. parseSelectItems(p) = CommaSeparated(p, parseSelectItem)
        BY <1>2 DEF parseSelectItems
    <2> QED
        BY <2>1, SelectItemsAre
<1> QED
    BY <1>1, <1>2

LEMMA GroupByIs ==
    ASSUME NEW T \in SUBSET AnyToken, NEW N, NEW p \in Parsers(T, N)
    PROVE  Leads(T, Optionally(Expression), p, parseGroupBy(p))
<1>1. CASE AtKeyword(p, {"GROUP"})
    <2> DEFINE by == expectKeyword(next(p), "BY")
    <2>1. parseGroupBy(p) = parseExpression(by)
        BY <1>1 DEF parseGroupBy
    <2>2. p # Failed /\ by \in Parsers(T, N)
        BY <1>1, AtKeywordIs, NextIs, ExpectKeywordIs DEF Leads
    <2> HIDE DEF by
    <2>3. Leads(T, Expression, by, parseExpression(by))
        BY <2>2, ExpressionIs
    <2>4. Parsers(T, Expression) \subseteq Parsers(T, Optionally(Expression))
        BY DEF Parsers, Optionally
    <2> QED
        BY <2>1, <2>2, <2>3, <2>4 DEF Leads
<1>2. CASE ~AtKeyword(p, {"GROUP"})
    BY <1>2, YieldIs DEF parseGroupBy, Leads, Optionally
<1> QED
    BY <1>1, <1>2

LEMMA OrderByIs ==
    ASSUME NEW T \in SUBSET AnyToken, NEW N, NEW p \in Parsers(T, N)
    PROVE  Leads(T, Seq(OrderBy), p, parseOrderBy(p))
<1>1. CASE AtKeyword(p, {"ORDER"})
    <2> DEFINE by == expectKeyword(next(p), "BY")
    <2>1. parseOrderBy(p) = CommaSeparated(by, parseOrderItem)
        BY <1>1 DEF parseOrderBy
    <2>2. p # Failed /\ by \in Parsers(T, N)
        BY <1>1, AtKeywordIs, NextIs, ExpectKeywordIs DEF Leads
    <2> HIDE DEF by
    <2> QED
        BY <2>1, <2>2, OrderItemsAre DEF Leads
<1>2. CASE ~AtKeyword(p, {"ORDER"})
    <2>1. <<>> \in Seq(OrderBy)
        OBVIOUS
    <2> QED
        BY <1>2, <2>1, YieldIs DEF parseOrderBy, Leads
<1> QED
    BY <1>1, <1>2

LEMMA SelectIs ==
    ASSUME NEW T \in SUBSET AnyToken, NEW N, NEW p \in Parsers(T, N)
    PROVE  Leads(T, SelectStatement, p, parseSelect(p))
<1> DEFINE select == expectKeyword(p, "SELECT")
           items == parseSelectItems(select)
           from == parseFromClause(items)
           where == parseOptionalComparison(from, "WHERE")
           groupBy == parseGroupBy(where)
           having == parseOptionalComparison(groupBy, "HAVING")
           orderBy == parseOrderBy(having)
           limit == parseOptionalExpression(orderBy, "LIMIT")
           offset == parseOptionalExpression(limit, "OFFSET")
           node == [op |-> "select", items |-> items.node, from |-> from.node,
                    where |-> where.node, groupBy |-> groupBy.node, having |-> having.node,
                    orderBy |-> orderBy.node, limit |-> limit.node, offset |-> offset.node]
<1>0. parseSelect(p) = Yield(offset, node)
    BY DEF parseSelect
<1>1. Leads(T, N, p, select)
    BY ExpectKeywordIs
<1> HIDE DEF select
<1>2. Leads(T, Seq(SelectItem), p, items) /\ (items # Failed => select # Failed /\ items.node \in Seq(SelectItem))
    <2>1. Leads(T, Seq(SelectItem), select, items)
        BY <1>1, SelectItemsIs DEF Leads
    <2> HIDE DEF items
    <2> QED
        BY <1>1, <2>1, LeadsOn
<1> HIDE DEF items
<1>3. Leads(T, FromItem, p, from) /\ (from # Failed => items # Failed /\ from.node \in FromItem)
    <2>1. Leads(T, FromItem, items, from)
        BY <1>2, FromIs DEF Leads
    <2> HIDE DEF from
    <2> QED
        BY <1>2, <2>1, LeadsOn
<1> HIDE DEF from
<1>4. Leads(T, Optionally(Operation), p, where) /\ (where # Failed => from # Failed /\ where.node \in Optionally(Operation))
    <2>1. Leads(T, Optionally(Operation), from, where)
        BY <1>3, OptionalComparisonIs DEF Leads
    <2> HIDE DEF where
    <2> QED
        BY <1>3, <2>1, LeadsOn
<1> HIDE DEF where
<1>5. Leads(T, Optionally(Expression), p, groupBy) /\ (groupBy # Failed => where # Failed /\ groupBy.node \in Optionally(Expression))
    <2>1. Leads(T, Optionally(Expression), where, groupBy)
        BY <1>4, GroupByIs DEF Leads
    <2> HIDE DEF groupBy
    <2> QED
        BY <1>4, <2>1, LeadsOn
<1> HIDE DEF groupBy
<1>6. Leads(T, Optionally(Operation), p, having) /\ (having # Failed => groupBy # Failed /\ having.node \in Optionally(Operation))
    <2>1. Leads(T, Optionally(Operation), groupBy, having)
        BY <1>5, OptionalComparisonIs DEF Leads
    <2> HIDE DEF having
    <2> QED
        BY <1>5, <2>1, LeadsOn
<1> HIDE DEF having
<1>7. Leads(T, Seq(OrderBy), p, orderBy) /\ (orderBy # Failed => having # Failed /\ orderBy.node \in Seq(OrderBy))
    <2>1. Leads(T, Seq(OrderBy), having, orderBy)
        BY <1>6, OrderByIs DEF Leads
    <2> HIDE DEF orderBy
    <2> QED
        BY <1>6, <2>1, LeadsOn
<1> HIDE DEF orderBy
<1>8. Leads(T, Optionally(Expression), p, limit) /\ (limit # Failed => orderBy # Failed /\ limit.node \in Optionally(Expression))
    <2>1. Leads(T, Optionally(Expression), orderBy, limit)
        BY <1>7, OptionalExpressionIs DEF Leads
    <2> HIDE DEF limit
    <2> QED
        BY <1>7, <2>1, LeadsOn
<1> HIDE DEF limit
<1>9. Leads(T, Optionally(Expression), p, offset) /\ (offset # Failed => limit # Failed /\ offset.node \in Optionally(Expression))
    <2>1. Leads(T, Optionally(Expression), limit, offset)
        BY <1>8, OptionalExpressionIs DEF Leads
    <2> HIDE DEF offset
    <2> QED
        BY <1>8, <2>1, LeadsOn
<1> HIDE DEF offset
<1>10. offset # Failed => node \in SelectStatement
    BY <1>2, <1>3, <1>4, <1>5, <1>6, <1>7, <1>8, <1>9 DEF SelectStatement
<1> HIDE DEF node
<1> QED
    BY <1>0, <1>9, <1>10, LeadsYield

-----------------------------------------------------------------------------
(***************************************************************************)
(* CREATE TABLE.                                                           *)
(***************************************************************************)
LEMMA ConstraintIs ==
    ASSUME NEW T \in SUBSET AnyToken, NEW p \in Parsers(T, ColumnDefinition)
    PROVE  Leads(T, ColumnDefinition, p, parseConstraint(p))
<1> DEFINE default == parseExpression(next(p))
           c == p.node
           null == expectKeyword(next(p), "NULL")
           key == expectKeyword(next(p), "KEY")
<1>1. parseConstraint(p) =
        CASE AtKeyword(p, {"NULL"}) -> Yield(next(p), [c EXCEPT !.nullable = TRUE])
          [] AtKeyword(p, {"NOT"}) -> Yield(null, [c EXCEPT !.nullable = FALSE])
          [] AtKeyword(p, {"DEFAULT"}) -> Yield(default, [c EXCEPT !.default = default.node])
          [] AtKeyword(p, {"PRIMARY"}) -> Yield(key, [c EXCEPT !.primaryKey = TRUE])
          [] OTHER -> Failed
    BY DEF parseConstraint
<1>2. p # Failed => c \in ColumnDefinition
    BY ParserIs
<1>3. next(p) \in Parsers(T, ColumnDefinition)
    BY NextIs
<1>4. null \in Parsers(T, ColumnDefinition) /\ key \in Parsers(T, ColumnDefinition)
    BY <1>3, ExpectKeywordIs DEF Leads
<1>5. default \in Parsers(T, Expression)
    BY <1>3, ExpressionIs DEF Leads
<1> HIDE DEF default, null, key, c
<1>6. default # Failed => default.node \in Expression
    BY <1>5, ParserIs
<1>7. \A k, l : AtKeyword(p, {k}) /\ AtKeyword(p, {l}) => k = l
    BY AtKeywordIs
<1>8. CASE AtKeyword(p, {"NULL"})
    <2>1. p # Failed /\ parseConstraint(p) = Yield(next(p), [c EXCEPT !.nullable = TRUE])
        BY <1>1, <1>7, <1>8, AtKeywordIs
    <2>2. [c EXCEPT !.nullable = TRUE] \in ColumnDefinition
        BY <1>2, <2>1 DEF ColumnDefinition, Optionally
    <2> QED
        BY <1>3, <2>1, <2>2, YieldIs DEF Leads
<1>9. CASE AtKeyword(p, {"NOT"})
    <2>1. p # Failed /\ parseConstraint(p) = Yield(null, [c EXCEPT !.nullable = FALSE])
        BY <1>1, <1>7, <1>9, AtKeywordIs
    <2>2. [c EXCEPT !.nullable = FALSE] \in ColumnDefinition
        BY <1>2, <2>1 DEF ColumnDefinition, Optionally
    <2> QED
        BY <1>4, <2>1, <2>2, YieldIs DEF Leads
<1>10. CASE AtKeyword(p, {"DEFAULT"})
    <2>1. p # Failed /\ parseConstraint(p) = Yield(default, [c EXCEPT !.default = default.node])
        BY <1>1, <1>7, <1>10, AtKeywordIs
    <2>2. default # Failed => [c EXCEPT !.default = default.node] \in ColumnDefinition
        BY <1>2, <1>6, <2>1 DEF ColumnDefinition, Optionally
    <2> QED
        BY <1>5, <2>1, <2>2, YieldIs DEF Leads
<1>11. CASE AtKeyword(p, {"PRIMARY"})
    <2>1. p # Failed /\ parseConstraint(p) = Yield(key, [c EXCEPT !.primaryKey = TRUE])
        BY <1>1, <1>7, <1>11, AtKeywordIs
    <2>2. [c EXCEPT !.primaryKey = TRUE] \in ColumnDefinition
        BY <1>2, <2>1 DEF ColumnDefinition, Optionally
    <2> QED
        BY <1>4, <2>1, <2>2, YieldIs DEF Leads
<1>12. CASE \A k \in {"NULL", "NOT", "DEFAULT", "PRIMARY"} : ~AtKeyword(p, {k})
    <2>1. parseConstraint(p) = Failed
        BY <1>1, <1>12
    <2> QED
        BY <2>1, FailedIs DEF Leads
<1> QED
    BY <1>8, <1>9, <1>10, <1>11, <1>12

LEMMA ConstraintsAre ==
    ASSUME NEW T \in SUBSET AnyToken, NEW column \in Parsers(T, ColumnDefinition)
    PROVE  Leads(T, ColumnDefinition, column, parseConstraints(column))
<1> DEFINE m == Len(column.tokens)
           G == {q \in Parsers(T, ColumnDefinition) : column = Failed => q = Failed}
           base == column
           Step(n, q) == IF peek(q).kind = "keyword" THEN parseConstraint(q) ELSE q
           body(f) == [n \in 0..m |-> IF n = 0 THEN base ELSE Step(n, f[n - 1])]
           step == [n \in 1..m |-> [q \in G |-> Step(n, q)]]
           loop == CHOOSE f : f = body(f)
<1>1. m \in Nat /\ base \in G
    BY TokensAre
<1>2. \A n \in 1..m, q \in G : Step(n, q) \in G
    BY ConstraintIs DEF Leads
<1>3. parseConstraints(column) = loop[m]
    BY DEF parseConstraints
<1> HIDE DEF m, G, base, Step
<1>4. PICK f \in [0..m -> G] : Loops(f, base, step, m)
    <2>1. step \in [1..m -> [G -> G]]
        BY <1>2
    <2> HIDE DEF step
    <2> QED
        BY <1>1, <2>1, LoopExists
<1>5. f = body(f)
    <2>1. ASSUME NEW n \in 1..m PROVE f[n] = Step(n, f[n - 1])
        <3>1. n - 1 \in 0..m /\ f[n - 1] \in G /\ f[n] = step[n][f[n - 1]]
            BY <1>1, <1>4 DEF Loops
        <3> QED
            BY <3>1
    <2>2. f[0] = base
        BY <1>4 DEF Loops
    <2>3. \A n \in 0..m : f[n] = IF n = 0 THEN base ELSE Step(n, f[n - 1])
        BY <2>1, <2>2
    <2> QED
        BY <2>3
<1>6. loop = body(loop)
    <2> HIDE DEF body
    <2> QED
        BY <1>5
<1> HIDE DEF loop
<1>7. loop[0] = base /\ \A n \in 1..m : loop[n] = Step(n, loop[n - 1])
    BY <1>1, <1>6
<1>8. \A n \in 0..m : loop[n] \in G
    <2>1. loop[0] \in G /\ \A n \in 1..m : loop[n - 1] \in G => loop[n] \in G
        BY <1>1, <1>2, <1>7
    <2> QED
        BY <1>1, <2>1, Stays
<1>9. parseConstraints(column) \in G
    BY <1>1, <1>3, <1>8
<1> QED
    BY <1>9 DEF G, Leads

LEMMA ColumnIs ==
    ASSUME NEW T \in SUBSET AnyToken, NEW N, NEW p \in Parsers(T, N)
    PROVE  Leads(T, ColumnDefinition, p, parseColumn(p))
<1> DEFINE name == expectIdentifier(p)
           type == IF peek(name).kind = "keyword" THEN keywordDataType(peek(name).value) ELSE "none"
           node == [name |-> name.node, dataType |-> type, nullable |-> Unset,
                    default |-> Unset, primaryKey |-> FALSE]
           column == Yield(next(name), node)
<1>1. Leads(T, STRING, p, name)
    BY ExpectIdentifierIs
<1>2. parseColumn(p) = IF type = "none" THEN Failed ELSE parseConstraints(column)
    BY DEF parseColumn
<1> HIDE DEF name
<1>3. name # Failed => name.node \in STRING
    BY <1>1, ParserIs DEF Leads
<1>4. type # "none" => type \in DataType
    BY DEF keywordDataType, DataType
<1> HIDE DEF type
<1>5. name # Failed /\ type # "none" => node \in ColumnDefinition
    BY <1>3, <1>4 DEF ColumnDefinition, Optionally
<1> HIDE DEF node
<1>6. type # "none" => Leads(T, ColumnDefinition, p, column)
    BY <1>1, <1>5, NextIs, YieldIs DEF Leads
<1> HIDE DEF column
<1>7. CASE type # "none"
    BY <1>2, <1>6, <1>7, ConstraintsAre DEF Leads
<1>8. CASE type = "none"
    BY <1>2, <1>8, FailedIs DEF Leads
<1> QED
    BY <1>7, <1>8

LEMMA ColumnsAre ==
    ASSUME NEW T \in SUBSET AnyToken, NEW N, NEW p \in Parsers(T, N)
    PROVE  Leads(T, Seq(ColumnDefinition), p, CommaSeparated(p, parseColumn))
<1> DEFINE first == parseColumn(p)
<1>a. Leads(T, ColumnDefinition, p, first)
    BY ColumnIs
<1> DEFINE m == Len(first.tokens)
           G == {q \in Parsers(T, Seq(ColumnDefinition)) : first = Failed => q = Failed}
           base == Yield(first, <<first.node>>)
           Step(n, q) == IF peek(q).kind = "," THEN Yield(parseColumn(next(q)), Append(q.node, parseColumn(next(q)).node)) ELSE q
           body(f) == [n \in 0..m |-> IF n = 0 THEN base ELSE Step(n, f[n - 1])]
           step == [n \in 1..m |-> [q \in G |-> Step(n, q)]]
           loop == CHOOSE f : f = body(f)
<1>1. m \in Nat /\ base \in G
    <2> HIDE DEF first
    <2> QED
        BY <1>a, FirstItem
<1>2. \A n \in 1..m, q \in G : Step(n, q) \in G
    <2> HIDE DEF first
    <2>1. ASSUME NEW q \in G PROVE Step(1, q) \in G
        <3>1. next(q) \in Parsers(T, Seq(ColumnDefinition))
            BY NextIs
        <3>2. parseColumn(next(q)) \in Parsers(T, ColumnDefinition)
            BY <3>1, ColumnIs DEF Leads
        <3>3. peek(q).kind = "," => q # Failed
            BY FailedIs
        <3> DEFINE item == parseColumn(next(q))
        <3> HIDE DEF item
        <3>4. (IF peek(q).kind = "," THEN Yield(item, Append(q.node, item.node)) ELSE q) \in Parsers(T, Seq(ColumnDefinition))
            BY <3>2, MoreItems DEF item
        <3> QED
            BY <3>3, <3>4 DEF item
    <2> QED
        BY <2>1
<1>3. CommaSeparated(p, parseColumn) = loop[m]
    BY DEF CommaSeparated
<1> HIDE DEF m, G, base, Step
<1>4. PICK f \in [0..m -> G] : Loops(f, base, step, m)
    <2>1. step \in [1..m -> [G -> G]]
        BY <1>2
    <2> HIDE DEF step
    <2> QED
        BY <1>1, <2>1, LoopExists
<1>5. f = body(f)
    <2>1. ASSUME NEW n \in 1..m PROVE f[n] = Step(n, f[n - 1])
        <3>1. n - 1 \in 0..m /\ f[n - 1] \in G /\ f[n] = step[n][f[n - 1]]
            BY <1>1, <1>4 DEF Loops
        <3> QED
            BY <3>1
    <2>2. f[0] = base
        BY <1>4 DEF Loops
    <2>3. \A n \in 0..m : f[n] = IF n = 0 THEN base ELSE Step(n, f[n - 1])
        BY <2>1, <2>2
    <2> QED
        BY <2>3
<1>6. loop = body(loop)
    <2> HIDE DEF body
    <2> QED
        BY <1>5
<1> HIDE DEF loop
<1>7. loop[0] = base /\ \A n \in 1..m : loop[n] = Step(n, loop[n - 1])
    BY <1>1, <1>6
<1>8. \A n \in 0..m : loop[n] \in G
    <2>1. loop[0] \in G /\ \A n \in 1..m : loop[n - 1] \in G => loop[n] \in G
        BY <1>1, <1>2, <1>7
    <2> QED
        BY <1>1, <2>1, Stays
<1>9. CommaSeparated(p, parseColumn) \in G
    BY <1>1, <1>3, <1>8
<1> QED
    <2> HIDE DEF first
    <2> QED
        BY <1>9, <1>a DEF G, Leads

LEMMA NamesAre ==
    ASSUME NEW T \in SUBSET AnyToken, NEW N, NEW p \in Parsers(T, N)
    PROVE  Leads(T, Seq(STRING), p, CommaSeparated(p, expectIdentifier))
<1> DEFINE first == expectIdentifier(p)
<1>a. Leads(T, STRING, p, first)
    BY ExpectIdentifierIs
<1> DEFINE m == Len(first.tokens)
           G == {q \in Parsers(T, Seq(STRING)) : first = Failed => q = Failed}
           base == Yield(first, <<first.node>>)
           Step(n, q) == IF peek(q).kind = "," THEN Yield(expectIdentifier(next(q)), Append(q.node, expectIdentifier(next(q)).node)) ELSE q
           body(f) == [n \in 0..m |-> IF n = 0 THEN base ELSE Step(n, f[n - 1])]
           step == [n \in 1..m |-> [q \in G |-> Step(n, q)]]
           loop == CHOOSE f : f = body(f)
<1>1. m \in Nat /\ base \in G
    <2> HIDE DEF first
    <2> QED
        BY <1>a, FirstItem
<1>2. \A n \in 1..m, q \in G : Step(n, q) \in G
    <2> HIDE DEF first
    <2>1. ASSUME NEW q \in G PROVE Step(1, q) \in G
        <3>1. next(q) \in Parsers(T, Seq(STRING))
            BY NextIs
        <3>2. expectIdentifier(next(q)) \in Parsers(T, STRING)
            BY <3>1, ExpectIdentifierIs DEF Leads
        <3>3. peek(q).kind = "," => q # Failed
            BY FailedIs
        <3> DEFINE item == expectIdentifier(next(q))
        <3> HIDE DEF item
        <3>4. (IF peek(q).kind = "," THEN Yield(item, Append(q.node, item.node)) ELSE q) \in Parsers(T, Seq(STRING))
            BY <3>2, MoreItems DEF item
        <3> QED
            BY <3>3, <3>4 DEF item
    <2> QED
        BY <2>1
<1>3. CommaSeparated(p, expectIdentifier) = loop[m]
    BY DEF CommaSeparated
<1> HIDE DEF m, G, base, Step
<1>4. PICK f \in [0..m -> G] : Loops(f, base, step, m)
    <2>1. step \in [1..m -> [G -> G]]
        BY <1>2
    <2> HIDE DEF step
    <2> QED
        BY <1>1, <2>1, LoopExists
<1>5. f = body(f)
    <2>1. ASSUME NEW n \in 1..m PROVE f[n] = Step(n, f[n - 1])
        <3>1. n - 1 \in 0..m /\ f[n - 1] \in G /\ f[n] = step[n][f[n - 1]]
            BY <1>1, <1>4 DEF Loops
        <3> QED
            BY <3>1
    <2>2. f[0] = base
        BY <1>4 DEF Loops
    <2>3. \A n \in 0..m : f[n] = IF n = 0 THEN base ELSE Step(n, f[n - 1])
        BY <2>1, <2>2
    <2> QED
        BY <2>3
<1>6. loop = body(loop)
    <2> HIDE DEF body
    <2> QED
        BY <1>5
<1> HIDE DEF loop
<1>7. loop[0] = base /\ \A n \in 1..m : loop[n] = Step(n, loop[n - 1])
    BY <1>1, <1>6
<1>8. \A n \in 0..m : loop[n] \in G
    <2>1. loop[0] \in G /\ \A n \in 1..m : loop[n - 1] \in G => loop[n] \in G
        BY <1>1, <1>2, <1>7
    <2> QED
        BY <1>1, <2>1, Stays
<1>9. CommaSeparated(p, expectIdentifier) \in G
    BY <1>1, <1>3, <1>8
<1> QED
    <2> HIDE DEF first
    <2> QED
        BY <1>9, <1>a DEF G, Leads

LEMMA ExpressionsAre ==
    ASSUME NEW T \in SUBSET AnyToken, NEW N, NEW p \in Parsers(T, N)
    PROVE  Leads(T, Seq(Expression), p, CommaSeparated(p, parseExpression))
<1> DEFINE first == parseExpression(p)
<1>a. Leads(T, Expression, p, first)
    BY ExpressionIs
<1> DEFINE m == Len(first.tokens)
           G == {q \in Parsers(T, Seq(Expression)) : first = Failed => q = Failed}
           base == Yield(first, <<first.node>>)
           Step(n, q) == IF peek(q).kind = "," THEN Yield(parseExpression(next(q)), Append(q.node, parseExpression(next(q)).node)) ELSE q
           body(f) == [n \in 0..m |-> IF n = 0 THEN base ELSE Step(n, f[n - 1])]
           step == [n \in 1..m |-> [q \in G |-> Step(n, q)]]
           loop == CHOOSE f : f = body(f)
<1>1. m \in Nat /\ base \in G
    <2> HIDE DEF first
    <2> QED
        BY <1>a, FirstItem
<1>2. \A n \in 1..m, q \in G : Step(n, q) \in G
    <2> HIDE DEF first
    <2>1. ASSUME NEW q \in G PROVE Step(1, q) \in G
        <3>1. next(q) \in Parsers(T, Seq(Expression))
            BY NextIs
        <3>2. parseExpression(next(q)) \in Parsers(T, Expression)
            BY <3>1, ExpressionIs DEF Leads
        <3>3. peek(q).kind = "," => q # Failed
            BY FailedIs
        <3> DEFINE item == parseExpression(next(q))
        <3> HIDE DEF item
        <3>4. (IF peek(q).kind = "," THEN Yield(item, Append(q.node, item.node)) ELSE q) \in Parsers(T, Seq(Expression))
            BY <3>2, MoreItems DEF item
        <3> QED
            BY <3>3, <3>4 DEF item
    <2> QED
        BY <2>1
<1>3. CommaSeparated(p, parseExpression) = loop[m]
    BY DEF CommaSeparated
<1> HIDE DEF m, G, base, Step
<1>4. PICK f \in [0..m -> G] : Loops(f, base, step, m)
    <2>1. step \in [1..m -> [G -> G]]
        BY <1>2
    <2> HIDE DEF step
    <2> QED
        BY <1>1, <2>1, LoopExists
<1>5. f = body(f)
    <2>1. ASSUME NEW n \in 1..m PROVE f[n] = Step(n, f[n - 1])
        <3>1. n - 1 \in 0..m /\ f[n - 1] \in G /\ f[n] = step[n][f[n - 1]]
            BY <1>1, <1>4 DEF Loops
        <3> QED
            BY <3>1
    <2>2. f[0] = base
        BY <1>4 DEF Loops
    <2>3. \A n \in 0..m : f[n] = IF n = 0 THEN base ELSE Step(n, f[n - 1])
        BY <2>1, <2>2
    <2> QED
        BY <2>3
<1>6. loop = body(loop)
    <2> HIDE DEF body
    <2> QED
        BY <1>5
<1> HIDE DEF loop
<1>7. loop[0] = base /\ \A n \in 1..m : loop[n] = Step(n, loop[n - 1])
    BY <1>1, <1>6
<1>8. \A n \in 0..m : loop[n] \in G
    <2>1. loop[0] \in G /\ \A n \in 1..m : loop[n - 1] \in G => loop[n] \in G
        BY <1>1, <1>2, <1>7
    <2> QED
        BY <1>1, <2>1, Stays
<1>9. CommaSeparated(p, parseExpression) \in G
    BY <1>1, <1>3, <1>8
<1> QED
    <2> HIDE DEF first
    <2> QED
        BY <1>9, <1>a DEF G, Leads

LEMMA CreateTableIs ==
    ASSUME NEW T \in SUBSET AnyToken, NEW N, NEW p \in Parsers(T, N)
    PROVE  Leads(T, CreateTableStatement, p, parseCreateTable(p))
<1> DEFINE create == expectKeyword(p, "CREATE")
           keyword == expectKeyword(create, "TABLE")
           name == expectIdentifier(keyword)
           open == expect(name, "(")
           columns == CommaSeparated(open, parseColumn)
           close == expect(columns, ")")
           node == [op |-> "create", definition |-> [name |-> name.node, columns |-> columns.node]]
<1>0. parseCreateTable(p) = Yield(close, node)
    BY DEF parseCreateTable
<1>1. Leads(T, N, p, create)
    BY ExpectKeywordIs
<1> HIDE DEF create
<1>2. Leads(T, N, p, keyword) /\ (keyword # Failed => create # Failed /\ keyword.node \in N)
    <2>1. Leads(T, N, create, keyword)
        BY <1>1, ExpectKeywordIs DEF Leads
    <2> HIDE DEF keyword
    <2> QED
        BY <1>1, <2>1, LeadsOn
<1> HIDE DEF keyword
<1>3. Leads(T, STRING, p, name) /\ (name # Failed => keyword # Failed /\ name.node \in STRING)
    <2>1. Leads(T, STRING, keyword, name)
        BY <1>2, ExpectIdentifierIs DEF Leads
    <2> HIDE DEF name
    <2> QED
        BY <1>2, <2>1, LeadsOn
<1> HIDE DEF name
<1>4. Leads(T, STRING, p, open) /\ (open # Failed => name # Failed /\ open.node \in STRING)
    <2>1. Leads(T, STRING, name, open)
        BY <1>3, ExpectIs DEF Leads
    <2> HIDE DEF open
    <2> QED
        BY <1>3, <2>1, LeadsOn
<1> HIDE DEF open
<1>5. Leads(T, Seq(ColumnDefinition), p, columns) /\ (columns # Failed => open # Failed /\ columns.node \in Seq(ColumnDefinition))
    <2>1. Leads(T, Seq(ColumnDefinition), open, columns)
        BY <1>4, ColumnsAre DEF Leads
    <2> HIDE DEF columns
    <2> QED
        BY <1>4, <2>1, LeadsOn
<1> HIDE DEF columns
<1>6. Leads(T, Seq(ColumnDefinition), p, close) /\ (close # Failed => columns # Failed /\ close.node \in Seq(ColumnDefinition))
    <2>1. Leads(T, Seq(ColumnDefinition), columns, close)
        BY <1>5, ExpectIs DEF Leads
    <2> HIDE DEF close
    <2> QED
        BY <1>5, <2>1, LeadsOn
<1> HIDE DEF close
<1>7. close # Failed => node \in CreateTableStatement
    BY <1>3, <1>4, <1>5, <1>6 DEF CreateTableStatement
<1> HIDE DEF node
<1> QED
    BY <1>0, <1>6, <1>7, LeadsYield

-----------------------------------------------------------------------------
(***************************************************************************)
(* INSERT, UPDATE, DELETE.                                                 *)
(***************************************************************************)
LEMMA RowIs ==
    ASSUME NEW T \in SUBSET AnyToken, NEW N, NEW p \in Parsers(T, N)
    PROVE  Leads(T, Seq(Expression), p, parseRow(p))
<1> DEFINE open == expect(p, "(")
           values == CommaSeparated(open, parseExpression)
           close == expect(values, ")")
           node == values.node
<1>0. parseRow(p) = Yield(close, node)
    BY DEF parseRow
<1>1. Leads(T, N, p, open)
    BY ExpectIs
<1> HIDE DEF open
<1>2. Leads(T, Seq(Expression), p, values) /\ (values # Failed => open # Failed /\ values.node \in Seq(Expression))
    <2>1. Leads(T, Seq(Expression), open, values)
        BY <1>1, ExpressionsAre DEF Leads
    <2> HIDE DEF values
    <2> QED
        BY <1>1, <2>1, LeadsOn
<1> HIDE DEF values
<1>3. Leads(T, Seq(Expression), p, close) /\ (close # Failed => values # Failed /\ close.node \in Seq(Expression))
    <2>1. Leads(T, Seq(Expression), values, close)
        BY <1>2, ExpectIs DEF Leads
    <2> HIDE DEF close
    <2> QED
        BY <1>2, <2>1, LeadsOn
<1> HIDE DEF close
<1>4. close # Failed => node \in Seq(Expression)
    BY <1>2, <1>3
<1> HIDE DEF node
<1> QED
    BY <1>0, <1>3, <1>4, LeadsYield

LEMMA RowsAre ==
    ASSUME NEW T \in SUBSET AnyToken, NEW N, NEW p \in Parsers(T, N)
    PROVE  Leads(T, Seq(Seq(Expression)), p, CommaSeparated(p, parseRow))
<1> DEFINE first == parseRow(p)
<1>a. Leads(T, Seq(Expression), p, first)
    BY RowIs
<1> DEFINE m == Len(first.tokens)
           G == {q \in Parsers(T, Seq(Seq(Expression))) : first = Failed => q = Failed}
           base == Yield(first, <<first.node>>)
           Step(n, q) == IF peek(q).kind = "," THEN Yield(parseRow(next(q)), Append(q.node, parseRow(next(q)).node)) ELSE q
           body(f) == [n \in 0..m |-> IF n = 0 THEN base ELSE Step(n, f[n - 1])]
           step == [n \in 1..m |-> [q \in G |-> Step(n, q)]]
           loop == CHOOSE f : f = body(f)
<1>1. m \in Nat /\ base \in G
    <2> HIDE DEF first
    <2> QED
        BY <1>a, FirstItem
<1>2. \A n \in 1..m, q \in G : Step(n, q) \in G
    <2> HIDE DEF first
    <2>1. ASSUME NEW q \in G PROVE Step(1, q) \in G
        <3>1. next(q) \in Parsers(T, Seq(Seq(Expression)))
            BY NextIs
        <3>2. parseRow(next(q)) \in Parsers(T, Seq(Expression))
            BY <3>1, RowIs DEF Leads
        <3>3. peek(q).kind = "," => q # Failed
            BY FailedIs
        <3> DEFINE item == parseRow(next(q))
        <3> HIDE DEF item
        <3>4. (IF peek(q).kind = "," THEN Yield(item, Append(q.node, item.node)) ELSE q) \in Parsers(T, Seq(Seq(Expression)))
            BY <3>2, MoreItems DEF item
        <3> QED
            BY <3>3, <3>4 DEF item
    <2> QED
        BY <2>1
<1>3. CommaSeparated(p, parseRow) = loop[m]
    BY DEF CommaSeparated
<1> HIDE DEF m, G, base, Step
<1>4. PICK f \in [0..m -> G] : Loops(f, base, step, m)
    <2>1. step \in [1..m -> [G -> G]]
        BY <1>2
    <2> HIDE DEF step
    <2> QED
        BY <1>1, <2>1, LoopExists
<1>5. f = body(f)
    <2>1. ASSUME NEW n \in 1..m PROVE f[n] = Step(n, f[n - 1])
        <3>1. n - 1 \in 0..m /\ f[n - 1] \in G /\ f[n] = step[n][f[n - 1]]
            BY <1>1, <1>4 DEF Loops
        <3> QED
            BY <3>1
    <2>2. f[0] = base
        BY <1>4 DEF Loops
    <2>3. \A n \in 0..m : f[n] = IF n = 0 THEN base ELSE Step(n, f[n - 1])
        BY <2>1, <2>2
    <2> QED
        BY <2>3
<1>6. loop = body(loop)
    <2> HIDE DEF body
    <2> QED
        BY <1>5
<1> HIDE DEF loop
<1>7. loop[0] = base /\ \A n \in 1..m : loop[n] = Step(n, loop[n - 1])
    BY <1>1, <1>6
<1>8. \A n \in 0..m : loop[n] \in G
    <2>1. loop[0] \in G /\ \A n \in 1..m : loop[n - 1] \in G => loop[n] \in G
        BY <1>1, <1>2, <1>7
    <2> QED
        BY <1>1, <2>1, Stays
<1>9. CommaSeparated(p, parseRow) \in G
    BY <1>1, <1>3, <1>8
<1> QED
    <2> HIDE DEF first
    <2> QED
        BY <1>9, <1>a DEF G, Leads

LEMMA ColumnListIs ==
    ASSUME NEW T \in SUBSET AnyToken, NEW N, NEW p \in Parsers(T, N)
    PROVE  Leads(T, Seq(STRING), p, parseColumnList(p))
<1> DEFINE columns == CommaSeparated(next(p), expectIdentifier)
           close == expect(columns, ")")
           node == columns.node
<1>1. Leads(T, N, p, next(p))
    BY NextIs DEF Leads
<1>2. parseColumnList(p) = IF peek(p).kind = "(" THEN Yield(close, node) ELSE Yield(p, <<>>)
    BY DEF parseColumnList
<1>3. Leads(T, Seq(STRING), next(p), columns)
    BY <1>1, NamesAre DEF Leads
<1> HIDE DEF columns
<1>4. Leads(T, Seq(STRING), p, columns)
    BY <1>1, <1>3, LeadsOn
<1>5. Leads(T, Seq(STRING), columns, close)
    BY <1>4, ExpectIs DEF Leads
<1> HIDE DEF close
<1>6. Leads(T, Seq(STRING), p, close) /\ (close # Failed => columns.node \in Seq(STRING))
    BY <1>4, <1>5, LeadsOn
<1>7. CASE peek(p).kind = "("
    <2>1. close # Failed => node \in Seq(STRING)
        BY <1>6
    <2> HIDE DEF node
    <2> QED
        BY <1>2, <1>6, <1>7, <2>1, LeadsYield
<1>8. CASE peek(p).kind # "("
    <2> DEFINE none == <<>>
    <2>1. parseColumnList(p) = Yield(p, none)
        BY <1>2, <1>8
    <2>2. none \in Seq(STRING)
        OBVIOUS
    <2> HIDE DEF none
    <2>3. Leads(T, N, p, p)
        BY DEF Leads
    <2> QED
        BY <2>1, <2>2, <2>3, LeadsYield
<1> QED
    BY <1>7, <1>8

LEMMA InsertIs ==
    ASSUME NEW T \in SUBSET AnyToken, NEW N, NEW p \in Parsers(T, N)
    PROVE  Leads(T, InsertStatement, p, parseInsert(p))
<1> DEFINE insert == expectKeyword(p, "INSERT")
           into == expectKeyword(insert, "INTO")
           name == expectIdentifier(into)
           columns == parseColumnList(name)
           values == expectKeyword(columns, "VALUES")
           rows == CommaSeparated(values, parseRow)
           node == [op |-> "insert", name |-> name.node, columns |-> columns.node, values |-> rows.node]
<1>0. parseInsert(p) = Yield(rows, node)
    BY DEF parseInsert
<1>1. Leads(T, N, p, insert)
    BY ExpectKeywordIs
<1> HIDE DEF insert
<1>2. Leads(T, N, p, into) /\ (into # Failed => insert # Failed /\ into.node \in N)
    <2>1. Leads(T, N, insert, into)
        BY <1>1, ExpectKeywordIs DEF Leads
    <2> HIDE DEF into
    <2> QED
        BY <1>1, <2>1, LeadsOn
<1> HIDE DEF into
<1>3. Leads(T, STRING, p, name) /\ (name # Failed => into # Failed /\ name.node \in STRING)
    <2>1. Leads(T, STRING, into, name)
        BY <1>2, ExpectIdentifierIs DEF Leads
    <2> HIDE DEF name
    <2> QED
        BY <1>2, <2>1, LeadsOn
<1> HIDE DEF name
<1>4. Leads(T, Seq(STRING), p, columns) /\ (columns # Failed => name # Failed /\ columns.node \in Seq(STRING))
    <2>1. Leads(T, Seq(STRING), name, columns)
        BY <1>3, ColumnListIs DEF Leads
    <2> HIDE DEF columns
    <2> QED
        BY <1>3, <2>1, LeadsOn
<1> HIDE DEF columns
<1>5. Leads(T, Seq(STRING), p, values) /\ (values # Failed => columns # Failed /\ values.node \in Seq(STRING))
    <2>1. Leads(T, Seq(STRING), columns, values)
        BY <1>4, ExpectKeywordIs DEF Leads
    <2> HIDE DEF values
    <2> QED
        BY <1>4, <2>1, LeadsOn
<1> HIDE DEF values
<1>6. Leads(T, Seq(Seq(Expression)), p, rows) /\ (rows # Failed => values # Failed /\ rows.node \in Seq(Seq(Expression)))
    <2>1. Leads(T, Seq(Seq(Expression)), values, rows)
        BY <1>5, RowsAre DEF Leads
    <2> HIDE DEF rows
    <2> QED
        BY <1>5, <2>1, LeadsOn
<1> HIDE DEF rows
<1>7. rows # Failed => node \in InsertStatement
    BY <1>3, <1>4, <1>5, <1>6 DEF InsertStatement
<1> HIDE DEF node
<1> QED
    BY <1>0, <1>6, <1>7, LeadsYield

LEMMA AssignmentIs ==
    ASSUME NEW T \in SUBSET AnyToken, NEW N, NEW p \in Parsers(T, N)
    PROVE  Leads(T, STRING \X Expression, p, parseAssignment(p))
<1> DEFINE column == expectIdentifier(p)
           equal == expect(column, "=")
           value == parseExpression(equal)
           node == <<column.node, value.node>>
<1>0. parseAssignment(p) = Yield(value, node)
    BY DEF parseAssignment
<1>1. Leads(T, STRING, p, column) /\ (column # Failed => column.node \in STRING)
    BY ExpectIdentifierIs, ParserIs DEF Leads
<1> HIDE DEF column
<1>2. Leads(T, STRING, p, equal) /\ (equal # Failed => column # Failed /\ equal.node \in STRING)
    <2>1. Leads(T, STRING, column, equal)
        BY <1>1, ExpectIs DEF Leads
    <2> HIDE DEF equal
    <2> QED
        BY <1>1, <2>1, LeadsOn
<1> HIDE DEF equal
<1>3. Leads(T, Expression, p, value) /\ (value # Failed => equal # Failed /\ value.node \in Expression)
    <2>1. Leads(T, Expression, equal, value)
        BY <1>2, ExpressionIs DEF Leads
    <2> HIDE DEF value
    <2> QED
        BY <1>2, <2>1, LeadsOn
<1> HIDE DEF value
<1>4. value # Failed => node \in STRING \X Expression
    BY <1>1, <1>2, <1>3
<1> HIDE DEF node
<1> QED
    BY <1>0, <1>3, <1>4, LeadsYield

LEMMA AssignmentsAre ==
    ASSUME NEW T \in SUBSET AnyToken, NEW N, NEW p \in Parsers(T, N)
    PROVE  Leads(T, Seq(STRING \X Expression), p, CommaSeparated(p, parseAssignment))
<1> DEFINE first == parseAssignment(p)
<1>a. Leads(T, STRING \X Expression, p, first)
    BY AssignmentIs
<1> DEFINE m == Len(first.tokens)
           G == {q \in Parsers(T, Seq(STRING \X Expression)) : first = Failed => q = Failed}
           base == Yield(first, <<first.node>>)
           Step(n, q) == IF peek(q).kind = "," THEN Yield(parseAssignment(next(q)), Append(q.node, parseAssignment(next(q)).node)) ELSE q
           body(f) == [n \in 0..m |-> IF n = 0 THEN base ELSE Step(n, f[n - 1])]
           step == [n \in 1..m |-> [q \in G |-> Step(n, q)]]
           loop == CHOOSE f : f = body(f)
<1>1. m \in Nat /\ base \in G
    <2> HIDE DEF first
    <2> QED
        BY <1>a, FirstItem
<1>2. \A n \in 1..m, q \in G : Step(n, q) \in G
    <2> HIDE DEF first
    <2>1. ASSUME NEW q \in G PROVE Step(1, q) \in G
        <3>1. next(q) \in Parsers(T, Seq(STRING \X Expression))
            BY NextIs
        <3>2. parseAssignment(next(q)) \in Parsers(T, STRING \X Expression)
            BY <3>1, AssignmentIs DEF Leads
        <3>3. peek(q).kind = "," => q # Failed
            BY FailedIs
        <3> DEFINE item == parseAssignment(next(q))
        <3> HIDE DEF item
        <3>4. (IF peek(q).kind = "," THEN Yield(item, Append(q.node, item.node)) ELSE q) \in Parsers(T, Seq(STRING \X Expression))
            BY <3>2, MoreItems DEF item
        <3> QED
            BY <3>3, <3>4 DEF item
    <2> QED
        BY <2>1
<1>3. CommaSeparated(p, parseAssignment) = loop[m]
    BY DEF CommaSeparated
<1> HIDE DEF m, G, base, Step
<1>4. PICK f \in [0..m -> G] : Loops(f, base, step, m)
    <2>1. step \in [1..m -> [G -> G]]
        BY <1>2
    <2> HIDE DEF step
    <2> QED
        BY <1>1, <2>1, LoopExists
<1>5. f = body(f)
    <2>1. ASSUME NEW n \in 1..m PROVE f[n] = Step(n, f[n - 1])
        <3>1. n - 1 \in 0..m /\ f[n - 1] \in G /\ f[n] = step[n][f[n - 1]]
            BY <1>1, <1>4 DEF Loops
        <3> QED
            BY <3>1
    <2>2. f[0] = base
        BY <1>4 DEF Loops
    <2>3. \A n \in 0..m : f[n] = IF n = 0 THEN base ELSE Step(n, f[n - 1])
        BY <2>1, <2>2
    <2> QED
        BY <2>3
<1>6. loop = body(loop)
    <2> HIDE DEF body
    <2> QED
        BY <1>5
<1> HIDE DEF loop
<1>7. loop[0] = base /\ \A n \in 1..m : loop[n] = Step(n, loop[n - 1])
    BY <1>1, <1>6
<1>8. \A n \in 0..m : loop[n] \in G
    <2>1. loop[0] \in G /\ \A n \in 1..m : loop[n - 1] \in G => loop[n] \in G
        BY <1>1, <1>2, <1>7
    <2> QED
        BY <1>1, <2>1, Stays
<1>9. CommaSeparated(p, parseAssignment) \in G
    BY <1>1, <1>3, <1>8
<1> QED
    <2> HIDE DEF first
    <2> QED
        BY <1>9, <1>a DEF G, Leads

\* The tree of an UPDATE or a DELETE, but for what it assigns.
IsChange(n) ==
    /\ n.op \in {"update", "delete"}
    /\ n.name \in STRING
    /\ n.filter \in Optionally(Operation)

LEMMA UpdateIs ==
    ASSUME NEW T \in SUBSET AnyToken, NEW N, NEW p \in Parsers(T, N)
    PROVE  \E M : /\ Leads(T, M, p, parseUpdate(p))
                  /\ \A n \in M : IsChange(n)
<1> DEFINE update == expectKeyword(p, "UPDATE")
           name == expectIdentifier(update)
           set == expectKeyword(name, "SET")
           assignments == CommaSeparated(set, parseAssignment)
           filter == parseOptionalComparison(assignments, "WHERE")
           node == [op |-> "update", name |-> name.node,
                    assignments |-> Assignments(assignments.node), filter |-> filter.node]
<1>0. parseUpdate(p) =
        IF assignments.ok /\ AssignedOnce(assignments.node) THEN Yield(filter, node) ELSE Failed
    BY DEF parseUpdate
<1>1. Leads(T, N, p, update)
    BY ExpectKeywordIs
<1> HIDE DEF update
<1>2. Leads(T, STRING, p, name) /\ (name # Failed => update # Failed /\ name.node \in STRING)
    <2>1. Leads(T, STRING, update, name)
        BY <1>1, ExpectIdentifierIs DEF Leads
    <2> HIDE DEF name
    <2> QED
        BY <1>1, <2>1, LeadsOn
<1> HIDE DEF name
<1>3. Leads(T, STRING, p, set) /\ (set # Failed => name # Failed /\ set.node \in STRING)
    <2>1. Leads(T, STRING, name, set)
        BY <1>2, ExpectKeywordIs DEF Leads
    <2> HIDE DEF set
    <2> QED
        BY <1>2, <2>1, LeadsOn
<1> HIDE DEF set
<1>4. Leads(T, Seq(STRING \X Expression), p, assignments) /\ (assignments # Failed => set # Failed /\ assignments.node \in Seq(STRING \X Expression))
    <2>1. Leads(T, Seq(STRING \X Expression), set, assignments)
        BY <1>3, AssignmentsAre DEF Leads
    <2> HIDE DEF assignments
    <2> QED
        BY <1>3, <2>1, LeadsOn
<1> HIDE DEF assignments
<1>5. Leads(T, Optionally(Operation), p, filter) /\ (filter # Failed => assignments # Failed /\ filter.node \in Optionally(Operation))
    <2>1. Leads(T, Optionally(Operation), assignments, filter)
        BY <1>4, OptionalComparisonIs DEF Leads
    <2> HIDE DEF filter
    <2> QED
        BY <1>4, <2>1, LeadsOn
<1> HIDE DEF filter
<1> DEFINE M == {n \in {node} : IsChange(n)}
<1>6. filter # Failed => node \in M
    <2>1. node.op = "update" /\ node.name = name.node /\ node.filter = filter.node
        OBVIOUS
    <2> HIDE DEF node
    <2> QED
        BY <1>2, <1>3, <1>4, <1>5, <2>1 DEF IsChange
<1>7. \A n \in M : IsChange(n)
    OBVIOUS
<1> HIDE DEF node, M
<1>8. Leads(T, M, p, Yield(filter, node))
    BY <1>5, <1>6, LeadsYield
<1>9. Leads(T, M, p, Failed)
    BY FailedIs DEF Leads
<1> QED
    BY <1>0, <1>7, <1>8, <1>9

LEMMA DeleteIs ==
    ASSUME NEW T \in SUBSET AnyToken, NEW N, NEW p \in Parsers(T, N)
    PROVE  Leads(T, DeleteStatement, p, parseDelete(p))
<1> DEFINE delete == expectKeyword(p, "DELETE")
           from == expectKeyword(delete, "FROM")
           name == expectIdentifier(from)
           filter == parseOptionalComparison(name, "WHERE")
           node == [op |-> "delete", name |-> name.node, filter |-> filter.node]
<1>0. parseDelete(p) = Yield(filter, node)
    BY DEF parseDelete
<1>1. Leads(T, N, p, delete)
    BY ExpectKeywordIs
<1> HIDE DEF delete
<1>2. Leads(T, N, p, from) /\ (from # Failed => delete # Failed /\ from.node \in N)
    <2>1. Leads(T, N, delete, from)
        BY <1>1, ExpectKeywordIs DEF Leads
    <2> HIDE DEF from
    <2> QED
        BY <1>1, <2>1, LeadsOn
<1> HIDE DEF from
<1>3. Leads(T, STRING, p, name) /\ (name # Failed => from # Failed /\ name.node \in STRING)
    <2>1. Leads(T, STRING, from, name)
        BY <1>2, ExpectIdentifierIs DEF Leads
    <2> HIDE DEF name
    <2> QED
        BY <1>2, <2>1, LeadsOn
<1> HIDE DEF name
<1>4. Leads(T, Optionally(Operation), p, filter) /\ (filter # Failed => name # Failed /\ filter.node \in Optionally(Operation))
    <2>1. Leads(T, Optionally(Operation), name, filter)
        BY <1>3, OptionalComparisonIs DEF Leads
    <2> HIDE DEF filter
    <2> QED
        BY <1>3, <2>1, LeadsOn
<1> HIDE DEF filter
<1>5. filter # Failed => node \in DeleteStatement
    BY <1>3, <1>4 DEF DeleteStatement
<1> HIDE DEF node
<1> QED
    BY <1>0, <1>4, <1>5, LeadsYield

-----------------------------------------------------------------------------
(***************************************************************************)
(* Any statement.                                                          *)
(***************************************************************************)
\* The tree of a SELECT, or a tree of another kind.
IsTree(n) == n \in SelectStatement \/ n.op \in {"create", "insert"} \/ IsChange(n)

LEMMA StatementIs ==
    ASSUME NEW T \in SUBSET AnyToken, NEW N, NEW p \in Parsers(T, N)
    PROVE  /\ \E M : Leads(T, M, p, parseStatement(p)) /\ \A n \in M : IsTree(n)
           /\ AtKeyword(p, {"SELECT"}) => Leads(T, SelectStatement, p, parseStatement(p))
<1>0. parseStatement(p) =
        CASE AtKeyword(p, {"SELECT"}) -> parseSelect(p)
          [] AtKeyword(p, {"CREATE"}) -> parseCreateTable(p)
          [] AtKeyword(p, {"INSERT"}) -> parseInsert(p)
          [] AtKeyword(p, {"UPDATE"}) -> parseUpdate(p)
          [] AtKeyword(p, {"DELETE"}) -> parseDelete(p)
          [] OTHER -> Failed
    BY DEF parseStatement
<1>1. \A k, l : AtKeyword(p, {k}) /\ AtKeyword(p, {l}) => k = l
    BY AtKeywordIs
<1>2. CASE AtKeyword(p, {"SELECT"})
    <2>1. parseStatement(p) = parseSelect(p)
        BY <1>0, <1>1, <1>2
    <2>2. \A n \in SelectStatement : IsTree(n)
        BY DEF IsTree
    <2> QED
        BY <2>1, <2>2, SelectIs
<1>3. CASE AtKeyword(p, {"CREATE"})
    <2>1. parseStatement(p) = parseCreateTable(p) /\ ~AtKeyword(p, {"SELECT"})
        BY <1>0, <1>1, <1>3
    <2>2. \A n \in CreateTableStatement : IsTree(n)
        BY DEF IsTree, CreateTableStatement
    <2> QED
        BY <2>1, <2>2, CreateTableIs
<1>4. CASE AtKeyword(p, {"INSERT"})
    <2>1. parseStatement(p) = parseInsert(p) /\ ~AtKeyword(p, {"SELECT"})
        BY <1>0, <1>1, <1>4
    <2>2. \A n \in InsertStatement : IsTree(n)
        BY DEF IsTree, InsertStatement
    <2> QED
        BY <2>1, <2>2, InsertIs
<1>5. CASE AtKeyword(p, {"UPDATE"})
    <2>1. parseStatement(p) = parseUpdate(p) /\ ~AtKeyword(p, {"SELECT"})
        BY <1>0, <1>1, <1>5
    <2>2. PICK M : Leads(T, M, p, parseUpdate(p)) /\ \A n \in M : IsChange(n)
        BY UpdateIs
    <2>3. \A n \in M : IsTree(n)
        BY <2>2 DEF IsTree
    <2> QED
        BY <2>1, <2>2, <2>3
<1>6. CASE AtKeyword(p, {"DELETE"})
    <2>1. parseStatement(p) = parseDelete(p) /\ ~AtKeyword(p, {"SELECT"})
        BY <1>0, <1>1, <1>6
    <2>2. \A n \in DeleteStatement : IsTree(n)
        BY DEF IsTree, IsChange, DeleteStatement
    <2> QED
        BY <2>1, <2>2, DeleteIs
<1>7. CASE \A k \in {"SELECT", "CREATE", "INSERT", "UPDATE", "DELETE"} : ~AtKeyword(p, {k})
    <2>1. parseStatement(p) = Failed
        BY <1>0, <1>7
    <2>2. Leads(T, {}, p, parseStatement(p))
        BY <2>1, FailedIs DEF Leads
    <2> QED
        BY <1>7, <2>2
<1> QED
    BY <1>2, <1>3, <1>4, <1>5, <1>6, <1>7

\* Parse returns a tree, and only for tokens with a semicolon among them.
LEMMA ParseIs ==
    ASSUME NEW T \in SUBSET AnyToken, NEW tokens \in Input(T), Parse(tokens).ok
    PROVE  /\ IsTree(Parse(tokens).node)
           /\ tokens[1] = Keyword("SELECT") => Parse(tokens).node \in SelectStatement
           /\ Symbol(";") \in T
<1> DEFINE p == New(tokens)
           parsed == parseStatement(p)
           ended == expect(parsed, ";")
           whole == expect(ended, "end")
<1>0. Parse(tokens) = whole
    BY DEF Parse
<1>1. p \in Parsers(T, {Unset}) /\ p # Failed /\ p.tokens = tokens
    BY ParserOf DEF New
<1>2. PICK M : Leads(T, M, p, parsed) /\ \A n \in M : IsTree(n)
    BY <1>1, StatementIs
<1>3. tokens[1] = Keyword("SELECT") => Leads(T, SelectStatement, p, parsed)
    <2>1. peek(p) = tokens[1]
        BY <1>1, ParserIs
    <2>2. tokens[1] = Keyword("SELECT") => AtKeyword(p, {"SELECT"})
        BY <2>1 DEF AtKeyword, Keyword
    <2> QED
        BY <1>1, <2>2, StatementIs
<1> HIDE DEF p, parsed
<1>4. Leads(T, M, parsed, ended) /\ (ended # Failed => ended.node = parsed.node /\ parsed # Failed /\ peek(parsed).kind = ";")
    <2>1. parsed \in Parsers(T, M)
        BY <1>2 DEF Leads
    <2>2. Leads(T, M, parsed, expect(parsed, ";"))
        BY <2>1, ExpectIs
    <2>3. expect(parsed, ";") # Failed => expect(parsed, ";").node = parsed.node
        BY <2>1, NextIs DEF expect
    <2>4. expect(parsed, ";") # Failed => parsed # Failed /\ peek(parsed).kind = ";"
        BY Expected
    <2> QED
        BY <2>2, <2>3, <2>4
<1> HIDE DEF ended
<1>5. Leads(T, M, ended, whole) /\ (whole # Failed => whole.node = ended.node /\ ended # Failed)
    <2>1. ended \in Parsers(T, M)
        BY <1>4 DEF Leads
    <2>2. whole # Failed => ended # Failed
        BY Expected
    <2> QED
        BY <2>1, <2>2, ExpectIs
<1> HIDE DEF whole
<1>6. whole # Failed
    BY <1>0, FailedIs
<1>7. whole.node = parsed.node /\ parsed # Failed /\ peek(parsed).kind = ";"
    BY <1>4, <1>5, <1>6
<1>8. parsed.node \in M
    BY <1>2, <1>7, ParserIs DEF Leads
<1>9. tokens[1] = Keyword("SELECT") => parsed.node \in SelectStatement
    BY <1>3, <1>7, ParserIs DEF Leads
<1>10. Symbol(";") \in T
    <2>1. peek(parsed) \in T
        BY <1>2, <1>7, ParserIs DEF Leads
    <2>2. \A t \in AnyToken : t.kind = ";" => t = Symbol(";")
        <3>1. /\ \A k \in ReservedWord : Keyword(k).kind # ";"
              /\ \A name \in STRING : Identifier(name).kind # ";"
            BY DEF Keyword, Identifier
        <3>2. \A v \in AnyValue : Literal(v).kind # ";"
            BY DEF Literal
        <3>3. \A x \in {",", "(", ")", "*", "=", ">", "<", "end"} : Symbol(x).kind # ";"
            BY DEF Symbol
        <3> QED
            BY <3>1, <3>2, <3>3 DEF AnyToken, Token, EndOfInput
    <2> QED
        BY <1>7, <2>1, <2>2
<1> QED
    BY <1>0, <1>2, <1>7, <1>8, <1>9, <1>10

-----------------------------------------------------------------------------
(***************************************************************************)
(* The text of a statement.                                                *)
(***************************************************************************)
LEMMA OneIs ==
    ASSUME NEW S, NEW x \in S
    PROVE  <<x>> \in Seq(S)
OBVIOUS

LEMMA TwoIs ==
    ASSUME NEW S, NEW x \in S, NEW y \in S
    PROVE  <<x, y>> \in Seq(S)
OBVIOUS

LEMMA NoneIs == ASSUME NEW S PROVE <<>> \in Seq(S)
OBVIOUS

LEMMA WordsAre ==
    ASSUME NEW keywords \in Seq(ReservedWord)
    PROVE  Words(keywords) \in Seq(Token)
<1>1. Len(keywords) \in Nat /\ \A i \in 1..Len(keywords) : keywords[i] \in ReservedWord
    OBVIOUS
<1>2. \A i \in 1..Len(keywords) : Keyword(keywords[i]) \in Token
    BY <1>1 DEF Token
<1> QED
    BY <1>1, <1>2 DEF Words

LEMMA OneWord ==
    ASSUME NEW k \in ReservedWord
    PROVE  <<k>> \in Seq(ReservedWord) /\ Words(<<k>>) \in Seq(Token)
<1>1. <<k>> \in Seq(ReservedWord)
    OBVIOUS
<1> QED
    BY <1>1, WordsAre

LEMMA TwoWords ==
    ASSUME NEW j \in ReservedWord, NEW k \in ReservedWord
    PROVE  <<j, k>> \in Seq(ReservedWord) /\ Words(<<j, k>>) \in Seq(Token)
<1>1. <<j, k>> \in Seq(ReservedWord)
    OBVIOUS
<1> QED
    BY <1>1, WordsAre

LEMMA SymbolIs ==
    ASSUME NEW x \in {",", "(", ")", "*", "=", ">", "<"}
    PROVE  Symbol(x) \in Token /\ <<Symbol(x)>> \in Seq(Token)
<1>1. Symbol(x) \in Token
    BY DEF Token
<1> QED
    BY <1>1, OneIs

LEMMA CommasAre ==
    ASSUME NEW parts \in Seq(Seq(Token))
    PROVE  Commas(parts) \in Seq(Token)
<1> DEFINE n == Len(parts)
           list == [i \in 1..n |-> IF i = 1 THEN parts[i] ELSE <<Symbol(",")>> \o parts[i]]
<1>1. n \in Nat /\ \A i \in 1..n : parts[i] \in Seq(Token)
    OBVIOUS
<1>2. \A i \in 1..n : (IF i = 1 THEN parts[i] ELSE <<Symbol(",")>> \o parts[i]) \in Seq(Token)
    <2>1. <<Symbol(",")>> \in Seq(Token)
        BY SymbolIs
    <2> QED
        BY <1>1, <2>1, JoinIs
<1> HIDE DEF n
<1>3. Commas(parts) = FlattenSeq(list)
    BY DEF Commas, n
<1>4. list \in Seq(Seq(Token))
    <2> DEFINE S == Seq(Token)
    <2>1. \A i \in 1..n : list[i] \in S
        BY <1>2
    <2>2. list = [i \in 1..n |-> list[i]]
        OBVIOUS
    <2> HIDE DEF list, S
    <2>3. list \in Seq(S)
        BY <1>1, <2>1, <2>2, ListIs
    <2> QED
        BY <2>3 DEF S
<1> HIDE DEF list
<1> QED
    BY <1>3, <1>4, FlattenIs

LEMMA NameIs ==
    ASSUME NEW name \in STRING
    PROVE  Name(name) \in Seq(Token)
<1>1. Identifier(name) \in Token
    BY DEF Token
<1> QED
    BY <1>1, OneIs DEF Name

LEMMA InParenthesesIs ==
    ASSUME NEW inside \in Seq(Token)
    PROVE  InParentheses(inside) \in Seq(Token)
<1>1. <<Symbol("(")>> \in Seq(Token) /\ <<Symbol(")")>> \in Seq(Token)
    BY SymbolIs
<1> QED
    BY <1>1, JoinIs DEF InParentheses

LEMMA ValueTextIs ==
    ASSUME NEW v \in AnyValue
    PROVE  ValueText(v) \in Seq(Token)
<1>0. \A x \in {"NULL", "TRUE", "FALSE"} : Words(<<x>>) \in Seq(Token)
    <2>1. {"NULL", "TRUE", "FALSE"} \subseteq ReservedWord
        BY DEF ReservedWord
    <2> QED
        BY <2>1, OneWord
<1>1. CASE v = Null
    <2>1. v.kind # "boolean"
        BY <1>1 DEF Null
    <2>2. ValueText(v) = Words(<<"NULL">>)
        BY <1>1, <2>1 DEF ValueText
    <2> QED
        BY <1>0, <2>2
<1>2. CASE v # Null /\ v.kind = "boolean"
    <2>1. ValueText(v) = Words(<<IF v.n = 1 THEN "TRUE" ELSE "FALSE">>)
        BY <1>2 DEF ValueText
    <2> QED
        BY <1>0, <2>1
<1>3. CASE v # Null /\ v.kind # "boolean"
    <2>1. ValueText(v) = <<Literal(v)>>
        BY <1>3 DEF ValueText
    <2>2. Literal(v) \in Token
        BY DEF Token
    <2> QED
        BY <2>1, <2>2, OneIs
<1> QED
    BY <1>1, <1>2, <1>3

LEMMA OperandTextIs ==
    ASSUME NEW operand \in Expression
    PROVE  OperandText(operand) \in Seq(Token)
<1>1. CASE operand \in {"literal"} \X AnyValue
    <2>1. operand[1] = "literal" /\ operand[2] \in AnyValue
        BY <1>1
    <2>2. OperandText(operand) = ValueText(operand[2])
        BY <2>1 DEF OperandText
    <2> QED
        BY <2>1, <2>2, ValueTextIs
<1>2. CASE operand \in {"column"} \X STRING
    <2>1. operand[1] = "column" /\ operand[2] \in STRING
        BY <1>2
    <2>2. OperandText(operand) = Name(operand[2])
        BY <2>1 DEF OperandText
    <2> QED
        BY <2>1, <2>2, NameIs
<1>3. CASE operand \in {"function"} \X STRING \X STRING
    <2>1. operand[1] = "function" /\ operand[2] \in STRING /\ operand[3] \in STRING
        BY <1>3
    <2>2. OperandText(operand) = Name(operand[2]) \o InParentheses(Name(operand[3]))
        BY <2>1 DEF OperandText
    <2> QED
        BY <2>1, <2>2, NameIs, InParenthesesIs, JoinIs
<1> QED
    BY <1>1, <1>2, <1>3 DEF Expression

LEMMA ComparisonTextIs ==
    ASSUME NEW p \in Operation
    PROVE  ComparisonText(p) \in Seq(Token)
<1> DEFINE left == OperandText(p.left)
           operation == <<Symbol(p.operation)>>
           right == OperandText(p.right)
<1>1. p.left \in Expression /\ p.right \in Expression /\ p.operation \in {"=", ">", "<"}
    BY DEF Operation
<1>2. left \in Seq(Token) /\ operation \in Seq(Token) /\ right \in Seq(Token)
    BY <1>1, OperandTextIs, SymbolIs
<1>3. ComparisonText(p) = left \o operation \o right
    BY DEF ComparisonText
<1> HIDE DEF left, operation, right
<1> QED
    BY <1>2, <1>3, JoinIs

LEMMA ComparisonClauseIs ==
    ASSUME NEW keywords \in Seq(ReservedWord), NEW clause \in Optionally(Operation)
    PROVE  Clause(keywords, clause, ComparisonText) \in Seq(Token)
<1>1. CASE clause = Unset
    BY <1>1 DEF Clause
<1>2. CASE clause # Unset
    <2>1. clause \in Operation
        BY <1>2 DEF Optionally
    <2> QED
        BY <1>2, <2>1, WordsAre, ComparisonTextIs, JoinIs DEF Clause
<1> QED
    BY <1>1, <1>2

LEMMA OperandClauseIs ==
    ASSUME NEW keywords \in Seq(ReservedWord), NEW clause \in Optionally(Expression)
    PROVE  Clause(keywords, clause, OperandText) \in Seq(Token)
<1>1. CASE clause = Unset
    BY <1>1 DEF Clause
<1>2. CASE clause # Unset
    <2>1. clause \in Expression
        BY <1>2 DEF Optionally
    <2> QED
        BY <1>2, <2>1, WordsAre, OperandTextIs, JoinIs DEF Clause
<1> QED
    BY <1>1, <1>2

LEMMA JoinTextIs ==
    ASSUME NEW join \in JoinFromItem
    PROVE  JoinText(join) \in Seq(Token)
<1> DEFINE keywords == [inner |-> <<"JOIN">>, left |-> <<"LEFT", "JOIN">>, right |-> <<"RIGHT", "JOIN">>,
                        cross |-> <<"CROSS", "JOIN">>][join.type]
           on == Clause(<<"ON">>, join.predicate, ComparisonText)
<1>1. join.type \in {"inner", "cross", "left", "right"} /\ join.table \in STRING /\ join.predicate \in Optionally(Operation)
    BY DEF JoinFromItem
<1>2. keywords \in Seq(ReservedWord)
    <2>1. keywords \in {<<"JOIN">>, <<"LEFT", "JOIN">>, <<"RIGHT", "JOIN">>, <<"CROSS", "JOIN">>}
        BY <1>1
    <2>3. {"JOIN", "LEFT", "RIGHT", "CROSS"} \subseteq ReservedWord
        BY DEF ReservedWord
    <2>2. /\ <<"JOIN">> \in Seq(ReservedWord) /\ <<"LEFT", "JOIN">> \in Seq(ReservedWord)
          /\ <<"RIGHT", "JOIN">> \in Seq(ReservedWord) /\ <<"CROSS", "JOIN">> \in Seq(ReservedWord)
        BY <2>3, OneWord, TwoWords
    <2> HIDE DEF keywords
    <2> QED
        BY <2>1, <2>2
<1>3. on \in Seq(Token)
    <2>1. <<"ON">> \in Seq(ReservedWord)
        BY OneWord DEF ReservedWord
    <2> QED
        BY <1>1, <2>1, ComparisonClauseIs
<1>4. JoinText(join) = Words(keywords) \o Name(join.table) \o on
    BY DEF JoinText
<1> HIDE DEF keywords, on
<1> QED
    BY <1>1, <1>2, <1>3, <1>4, WordsAre, NameIs, JoinIs

LEMMA ItemTextIs ==
    ASSUME NEW item \in SelectItem
    PROVE  ItemText(item) \in Seq(Token)
<1> DEFINE as == Clause(<<"AS">>, item.alias, Name)
<1>1. item.expression \in Expression /\ item.alias \in Optionally(STRING)
    BY DEF SelectItem
<1>2. as \in Seq(Token)
    <2>1. <<"AS">> \in Seq(ReservedWord)
        BY OneWord DEF ReservedWord
    <2>2. as = IF item.alias = Unset THEN <<>> ELSE Words(<<"AS">>) \o Name(item.alias)
        BY DEF Clause
    <2>3. item.alias # Unset => item.alias \in STRING
        BY <1>1 DEF Optionally
    <2>4. Words(<<"AS">>) \in Seq(Token)
        BY <2>1, WordsAre
    <2>5. item.alias # Unset => Name(item.alias) \in Seq(Token)
        BY <2>3, NameIs
    <2> HIDE DEF as
    <2> QED
        BY <2>2, <2>4, <2>5, JoinIs
<1>3. ItemText(item) = OperandText(item.expression) \o as
    BY DEF ItemText
<1> HIDE DEF as
<1> QED
    BY <1>1, <1>2, <1>3, OperandTextIs, JoinIs

LEMMA OrderTextIs ==
    ASSUME NEW order \in OrderBy
    PROVE  OrderText(order) \in Seq(Token)
<1> DEFINE direction == IF order.descending THEN <<"DESC">> ELSE <<>>
<1>1. order.column \in STRING
    BY DEF OrderBy
<1>2. direction \in Seq(ReservedWord)
    <2>1. "DESC" \in ReservedWord
        BY DEF ReservedWord
    <2> QED
        BY <2>1, OneWord, NoneIs
<1>3. OrderText(order) = Name(order.column) \o Words(direction)
    BY DEF OrderText
<1> HIDE DEF direction
<1> QED
    BY <1>1, <1>2, <1>3, NameIs, WordsAre, JoinIs

LEMMA ColumnTextIs ==
    ASSUME NEW c \in ColumnDefinition
    PROVE  ColumnText(c) \in Seq(Token)
<1> DEFINE type == [integer |-> "INT", float |-> "DOUBLE", boolean |-> "BOOL", string |-> "TEXT"][c.dataType]
           key == IF c.primaryKey THEN Words(<<"PRIMARY", "KEY">>) ELSE <<>>
           null == Clause(<<>>, c.nullable, LAMBDA b : Words(IF b THEN <<"NULL">> ELSE <<"NOT", "NULL">>))
           default == Clause(<<"DEFAULT">>, c.default, OperandText)
           typeWord == Words(<<type>>)
<1>1. /\ c.name \in STRING /\ c.dataType \in {"boolean", "integer", "float", "string"}
      /\ c.default \in Optionally(Expression)
    BY DEF ColumnDefinition, DataType
<1>2. /\ <<"PRIMARY", "KEY">> \in Seq(ReservedWord) /\ <<"NULL">> \in Seq(ReservedWord)
      /\ <<"NOT", "NULL">> \in Seq(ReservedWord) /\ <<"DEFAULT">> \in Seq(ReservedWord) /\ <<>> \in Seq(ReservedWord)
    <2>1. {"PRIMARY", "KEY", "NOT", "NULL", "DEFAULT"} \subseteq ReservedWord
        BY DEF ReservedWord
    <2> QED
        BY <2>1, OneWord, TwoWords, NoneIs
<1>3. ColumnText(c) = Name(c.name) \o typeWord \o key \o null \o default
    BY DEF ColumnText
<1>4. typeWord \in Seq(Token)
    <2>1. type \in {"INT", "DOUBLE", "BOOL", "TEXT"}
        BY <1>1
    <2> HIDE DEF type
    <2>2. type \in ReservedWord
        BY <2>1 DEF ReservedWord
    <2> QED
        BY <2>2, OneWord
<1>5. key \in Seq(Token)
    <2>1. Words(<<"PRIMARY", "KEY">>) \in Seq(Token)
        BY <1>2, WordsAre
    <2> QED
        BY <2>1
<1>6. null \in Seq(Token)
    <2>1. null = IF c.nullable = Unset THEN <<>>
                 ELSE Words(<<>>) \o Words(IF c.nullable THEN <<"NULL">> ELSE <<"NOT", "NULL">>)
        BY DEF Clause
    <2>2. Words(<<>>) \in Seq(Token)
        BY <1>2, WordsAre
    <2>3. Words(IF c.nullable THEN <<"NULL">> ELSE <<"NOT", "NULL">>) \in Seq(Token)
        BY <1>2, WordsAre
    <2> HIDE DEF null
    <2> QED
        BY <2>1, <2>2, <2>3, JoinIs
<1>7. default \in Seq(Token)
    BY <1>1, <1>2, OperandClauseIs
<1>8. Name(c.name) \in Seq(Token)
    BY <1>1, NameIs
<1> HIDE DEF typeWord, key, null, default
<1>9. Name(c.name) \o typeWord \in Seq(Token)
    BY <1>4, <1>8, JoinIs
<1>10. Name(c.name) \o typeWord \o key \in Seq(Token)
    BY <1>5, <1>9, JoinIs
<1>11. Name(c.name) \o typeWord \o key \o null \in Seq(Token)
    BY <1>6, <1>10, JoinIs
<1> QED
    BY <1>3, <1>7, <1>11, JoinIs

LEMMA ListTextIs ==
    ASSUME NEW n \in Nat, NEW f, f = [i \in 1..n |-> f[i]], \A i \in 1..n : f[i] \in Seq(Token)
    PROVE  Commas(f) \in Seq(Token) /\ FlattenSeq(f) \in Seq(Token)
<1> DEFINE S == Seq(Token)
<1>1. f \in Seq(S)
    <2>1. \A i \in 1..n : f[i] \in S
        OBVIOUS
    <2> HIDE DEF S
    <2> QED
        BY <2>1, ListIs
<1>2. f \in Seq(Seq(Token))
    BY <1>1 DEF S
<1> QED
    BY <1>2, CommasAre, FlattenIs

LEMMA ItemTextsAre ==
    ASSUME NEW list \in Seq(SelectItem)
    PROVE  Commas(Each(list, ItemText)) \in Seq(Token) /\ FlattenSeq(Each(list, ItemText)) \in Seq(Token)
<1> DEFINE n == Len(list)
           f == Each(list, ItemText)
<1>1. n \in Nat /\ \A i \in 1..n : list[i] \in SelectItem
    OBVIOUS
<1>2. f = [i \in 1..n |-> f[i]] /\ \A i \in 1..n : f[i] = ItemText(list[i])
    BY DEF Each
<1> HIDE DEF n, f
<1>3. \A i \in 1..n : f[i] \in Seq(Token)
    BY <1>1, <1>2, ItemTextIs
<1>4. Commas(f) \in Seq(Token) /\ FlattenSeq(f) \in Seq(Token)
    BY <1>1, <1>2, <1>3, ListTextIs
<1> QED
    BY <1>4 DEF f

LEMMA JoinTextsAre ==
    ASSUME NEW list \in Seq(JoinFromItem)
    PROVE  Commas(Each(list, JoinText)) \in Seq(Token) /\ FlattenSeq(Each(list, JoinText)) \in Seq(Token)
<1> DEFINE n == Len(list)
           f == Each(list, JoinText)
<1>1. n \in Nat /\ \A i \in 1..n : list[i] \in JoinFromItem
    OBVIOUS
<1>2. f = [i \in 1..n |-> f[i]] /\ \A i \in 1..n : f[i] = JoinText(list[i])
    BY DEF Each
<1> HIDE DEF n, f
<1>3. \A i \in 1..n : f[i] \in Seq(Token)
    BY <1>1, <1>2, JoinTextIs
<1>4. Commas(f) \in Seq(Token) /\ FlattenSeq(f) \in Seq(Token)
    BY <1>1, <1>2, <1>3, ListTextIs
<1> QED
    BY <1>4 DEF f

LEMMA OrderTextsAre ==
    ASSUME NEW list \in Seq(OrderBy)
    PROVE  Commas(Each(list, OrderText)) \in Seq(Token) /\ FlattenSeq(Each(list, OrderText)) \in Seq(Token)
<1> DEFINE n == Len(list)
           f == Each(list, OrderText)
<1>1. n \in Nat /\ \A i \in 1..n : list[i] \in OrderBy
    OBVIOUS
<1>2. f = [i \in 1..n |-> f[i]] /\ \A i \in 1..n : f[i] = OrderText(list[i])
    BY DEF Each
<1> HIDE DEF n, f
<1>3. \A i \in 1..n : f[i] \in Seq(Token)
    BY <1>1, <1>2, OrderTextIs
<1>4. Commas(f) \in Seq(Token) /\ FlattenSeq(f) \in Seq(Token)
    BY <1>1, <1>2, <1>3, ListTextIs
<1> QED
    BY <1>4 DEF f

LEMMA ColumnTextsAre ==
    ASSUME NEW list \in Seq(ColumnDefinition)
    PROVE  Commas(Each(list, ColumnText)) \in Seq(Token) /\ FlattenSeq(Each(list, ColumnText)) \in Seq(Token)
<1> DEFINE n == Len(list)
           f == Each(list, ColumnText)
<1>1. n \in Nat /\ \A i \in 1..n : list[i] \in ColumnDefinition
    OBVIOUS
<1>2. f = [i \in 1..n |-> f[i]] /\ \A i \in 1..n : f[i] = ColumnText(list[i])
    BY DEF Each
<1> HIDE DEF n, f
<1>3. \A i \in 1..n : f[i] \in Seq(Token)
    BY <1>1, <1>2, ColumnTextIs
<1>4. Commas(f) \in Seq(Token) /\ FlattenSeq(f) \in Seq(Token)
    BY <1>1, <1>2, <1>3, ListTextIs
<1> QED
    BY <1>4 DEF f

LEMMA NameTextsAre ==
    ASSUME NEW list \in Seq(STRING)
    PROVE  Commas(Each(list, Name)) \in Seq(Token) /\ FlattenSeq(Each(list, Name)) \in Seq(Token)
<1> DEFINE n == Len(list)
           f == Each(list, Name)
<1>1. n \in Nat /\ \A i \in 1..n : list[i] \in STRING
    OBVIOUS
<1>2. f = [i \in 1..n |-> f[i]] /\ \A i \in 1..n : f[i] = Name(list[i])
    BY DEF Each
<1> HIDE DEF n, f
<1>3. \A i \in 1..n : f[i] \in Seq(Token)
    BY <1>1, <1>2, NameIs
<1>4. Commas(f) \in Seq(Token) /\ FlattenSeq(f) \in Seq(Token)
    BY <1>1, <1>2, <1>3, ListTextIs
<1> QED
    BY <1>4 DEF f

LEMMA OperandTextsAre ==
    ASSUME NEW list \in Seq(Expression)
    PROVE  Commas(Each(list, OperandText)) \in Seq(Token) /\ FlattenSeq(Each(list, OperandText)) \in Seq(Token)
<1> DEFINE n == Len(list)
           f == Each(list, OperandText)
<1>1. n \in Nat /\ \A i \in 1..n : list[i] \in Expression
    OBVIOUS
<1>2. f = [i \in 1..n |-> f[i]] /\ \A i \in 1..n : f[i] = OperandText(list[i])
    BY DEF Each
<1> HIDE DEF n, f
<1>3. \A i \in 1..n : f[i] \in Seq(Token)
    BY <1>1, <1>2, OperandTextIs
<1>4. Commas(f) \in Seq(Token) /\ FlattenSeq(f) \in Seq(Token)
    BY <1>1, <1>2, <1>3, ListTextIs
<1> QED
    BY <1>4 DEF f

LEMMA RowTextsAre ==
    ASSUME NEW list \in Seq(Seq(Expression))
    PROVE  Commas(Each(list, LAMBDA row : InParentheses(Commas(Each(row, OperandText))))) \in Seq(Token) /\ FlattenSeq(Each(list, LAMBDA row : InParentheses(Commas(Each(row, OperandText))))) \in Seq(Token)
<1> DEFINE n == Len(list)
           f == Each(list, LAMBDA row : InParentheses(Commas(Each(row, OperandText))))
<1>1. n \in Nat /\ \A i \in 1..n : list[i] \in Seq(Expression)
    OBVIOUS
<1>2. f = [i \in 1..n |-> f[i]] /\ \A i \in 1..n : f[i] = InParentheses(Commas(Each(list[i], OperandText)))
    BY DEF Each
<1> HIDE DEF n, f
<1>3. \A i \in 1..n : f[i] \in Seq(Token)
    BY <1>1, <1>2, OperandTextsAre, InParenthesesIs
<1>4. Commas(f) \in Seq(Token) /\ FlattenSeq(f) \in Seq(Token)
    BY <1>1, <1>2, <1>3, ListTextIs
<1> QED
    BY <1>4 DEF f

LEMMA InSomeOrder ==
    ASSUME NEW S, IsFiniteSet(S)
    PROVE  SetToSeq(S) \in Seq(S)
<1> DEFINE n == Cardinality(S)
<1>1. n \in Nat /\ ExistsBijection(1..n, S)
    BY FS_CardinalityType
<1>2. PICK f \in Bijection(1..n, S) : TRUE
    BY <1>1 DEF ExistsBijection
<1>3. f \in [1..n -> S] /\ \A a, b \in 1..n : f[a] = f[b] => a = b
    BY <1>2 DEF Bijection, Injection, IsInjective
<1>4. IsInjective(f)
    BY <1>3 DEF IsInjective
<1> HIDE DEF n
<1>5. (CHOOSE g \in [1..n -> S] : IsInjective(g)) \in [1..n -> S]
    BY <1>3, <1>4
<1>6. SetToSeq(S) \in [1..n -> S]
    BY <1>5 DEF SetToSeq, n
<1> QED
    BY <1>1, <1>6

LEMMA AssignmentTextsAre ==
    ASSUME NEW assignments, IsFiniteSet(DOMAIN assignments),
           \A c \in DOMAIN assignments : c \in STRING /\ assignments[c] \in Expression
    PROVE  Commas(AssignmentTexts(assignments)) \in Seq(Token)
<1> DEFINE S == DOMAIN assignments
           list == SetToSeq(S)
           n == Len(list)
           f == AssignmentTexts(assignments)
<1>1. list \in Seq(S)
    BY InSomeOrder
<1>2. f = [i \in 1..n |-> f[i]]
      /\ \A i \in 1..n : f[i] = Name(list[i]) \o <<Symbol("=")>> \o OperandText(assignments[list[i]])
    BY DEF AssignmentTexts, Each
<1> HIDE DEF list, f
<1>3. n \in Nat /\ \A i \in 1..n : list[i] \in S
    BY <1>1
<1> HIDE DEF n, S
<1>4. ASSUME NEW i \in 1..n PROVE f[i] \in Seq(Token)
    <2>1. list[i] \in STRING /\ assignments[list[i]] \in Expression
        BY <1>3 DEF S
    <2>2. Name(list[i]) \in Seq(Token) /\ <<Symbol("=")>> \in Seq(Token) /\ OperandText(assignments[list[i]]) \in Seq(Token)
        BY <2>1, NameIs, OperandTextIs, SymbolIs
    <2>3. Name(list[i]) \o <<Symbol("=")>> \in Seq(Token)
        BY <2>2, JoinIs
    <2>4. Name(list[i]) \o <<Symbol("=")>> \o OperandText(assignments[list[i]]) \in Seq(Token)
        BY <2>2, <2>3, JoinIs
    <2> QED
        BY <1>2, <2>4
<1>5. Commas(f) \in Seq(Token)
    BY <1>2, <1>3, <1>4, ListTextIs
<1> QED
    BY <1>5 DEF f

LEMMA DeleteTextIs ==
    ASSUME NEW s, s \in DeleteStatement
    PROVE  Text(s) \in Seq(Token)
<1> DEFINE verb == Words(<<"DELETE", "FROM">>)
           table == Name(s.name)
           where == Clause(<<"WHERE">>, s.filter, ComparisonText)
<1>1. s.op = "delete" /\ s.name \in STRING /\ s.filter \in Optionally(Operation)
    BY DEF DeleteStatement
<1>2. {"DELETE", "FROM", "WHERE"} \subseteq ReservedWord
    BY DEF ReservedWord
<1>3. verb \in Seq(Token)
    BY <1>2, TwoWords
<1>4. table \in Seq(Token)
    BY <1>1, NameIs
<1>5. where \in Seq(Token)
    BY <1>1, <1>2, OneWord, ComparisonClauseIs
<1>6. Text(s) = verb \o table \o where
    BY <1>1 DEF Text
<1> HIDE DEF verb, table, where
<1>7. verb \o table \in Seq(Token)
    BY <1>3, <1>4, JoinIs
<1>8. verb \o table \o where \in Seq(Token)
    BY <1>7, <1>5, JoinIs
<1> QED
    BY <1>6, <1>8

LEMMA UpdateTextIs ==
    ASSUME NEW s, IsUpdateStatement(s)
    PROVE  Text(s) \in Seq(Token)
<1> DEFINE verb == Words(<<"UPDATE">>)
           table == Name(s.name)
           set == Words(<<"SET">>)
           assigned == Commas(AssignmentTexts(s.assignments))
           where == Clause(<<"WHERE">>, s.filter, ComparisonText)
<1>1. /\ s.op = "update" /\ s.name \in STRING /\ s.filter \in Optionally(Operation)
      /\ IsFiniteSet(DOMAIN s.assignments)
      /\ \A c \in DOMAIN s.assignments : c \in STRING /\ s.assignments[c] \in Expression
    BY DEF IsUpdateStatement
<1>2. {"UPDATE", "SET", "WHERE"} \subseteq ReservedWord
    BY DEF ReservedWord
<1>3. verb \in Seq(Token)
    BY <1>2, OneWord
<1>4. table \in Seq(Token)
    BY <1>1, NameIs
<1>5. set \in Seq(Token)
    BY <1>2, OneWord
<1>6. assigned \in Seq(Token)
    BY <1>1, AssignmentTextsAre
<1>7. where \in Seq(Token)
    BY <1>1, <1>2, OneWord, ComparisonClauseIs
<1>8. Text(s) = verb \o table \o set \o assigned \o where
    BY <1>1 DEF Text
<1> HIDE DEF verb, table, set, assigned, where
<1>9. verb \o table \in Seq(Token)
    BY <1>3, <1>4, JoinIs
<1>10. verb \o table \o set \in Seq(Token)
    BY <1>9, <1>5, JoinIs
<1>11. verb \o table \o set \o assigned \in Seq(Token)
    BY <1>10, <1>6, JoinIs
<1>12. verb \o table \o set \o assigned \o where \in Seq(Token)
    BY <1>11, <1>7, JoinIs
<1> QED
    BY <1>8, <1>12

LEMMA InsertTextIs ==
    ASSUME NEW s, s \in InsertStatement
    PROVE  Text(s) \in Seq(Token)
<1> DEFINE verb == Words(<<"INSERT", "INTO">>)
           table == Name(s.name)
           columns == IF s.columns = <<>> THEN <<>> ELSE InParentheses(Commas(Each(s.columns, Name)))
           values == Words(<<"VALUES">>)
           rows == Commas(Each(s.values, LAMBDA row : InParentheses(Commas(Each(row, OperandText)))))
<1>1. s.op = "insert" /\ s.name \in STRING /\ s.columns \in Seq(STRING) /\ s.values \in Seq(Seq(Expression))
    BY DEF InsertStatement
<1>2. {"INSERT", "INTO", "VALUES"} \subseteq ReservedWord
    BY DEF ReservedWord
<1>3. verb \in Seq(Token)
    BY <1>2, TwoWords
<1>4. table \in Seq(Token)
    BY <1>1, NameIs
<1>5. columns \in Seq(Token)
    <2>1. InParentheses(Commas(Each(s.columns, Name))) \in Seq(Token) /\ <<>> \in Seq(Token)
        BY <1>1, NameTextsAre, InParenthesesIs, NoneIs
    <2> QED
        BY <2>1
<1>6. values \in Seq(Token)
    BY <1>2, OneWord
<1>7. rows \in Seq(Token)
    BY <1>1, RowTextsAre
<1>8. Text(s) = verb \o table \o columns \o values \o rows
    BY <1>1 DEF Text
<1> HIDE DEF verb, table, columns, values, rows
<1>9. verb \o table \in Seq(Token)
    BY <1>3, <1>4, JoinIs
<1>10. verb \o table \o columns \in Seq(Token)
    BY <1>9, <1>5, JoinIs
<1>11. verb \o table \o columns \o values \in Seq(Token)
    BY <1>10, <1>6, JoinIs
<1>12. verb \o table \o columns \o values \o rows \in Seq(Token)
    BY <1>11, <1>7, JoinIs
<1> QED
    BY <1>8, <1>12

LEMMA CreateTextIs ==
    ASSUME NEW s, s \in CreateTableStatement
    PROVE  Text(s) \in Seq(Token)
<1> DEFINE verb == Words(<<"CREATE", "TABLE">>)
           table == Name(s.definition.name)
           columns == InParentheses(Commas(Each(s.definition.columns, ColumnText)))
<1>1. s.op = "create" /\ s.definition.name \in STRING /\ s.definition.columns \in Seq(ColumnDefinition)
    BY DEF CreateTableStatement
<1>2. {"CREATE", "TABLE"} \subseteq ReservedWord
    BY DEF ReservedWord
<1>3. verb \in Seq(Token)
    BY <1>2, TwoWords
<1>4. table \in Seq(Token)
    BY <1>1, NameIs
<1>5. columns \in Seq(Token)
    BY <1>1, ColumnTextsAre, InParenthesesIs
<1>6. Text(s) = verb \o table \o columns
    BY <1>1 DEF Text
<1> HIDE DEF verb, table, columns
<1>7. verb \o table \in Seq(Token)
    BY <1>3, <1>4, JoinIs
<1>8. verb \o table \o columns \in Seq(Token)
    BY <1>7, <1>5, JoinIs
<1> QED
    BY <1>6, <1>8

\* A text that begins with SELECT.
SelectText == {t \in Seq(Token) : Len(t) # 0 /\ t[1] = Keyword("SELECT")}

LEMMA SelectGoesOn ==
    ASSUME NEW a \in SelectText, NEW b \in Seq(Token)
    PROVE  a \o b \in SelectText
<1>1. a \in Seq(Token) /\ Len(a) \in Nat /\ Len(a) # 0 /\ a[1] = Keyword("SELECT")
    BY DEF SelectText
<1>2. a \o b \in Seq(Token)
    BY <1>1, JoinIs
<1>3. Len(a \o b) # 0 /\ (a \o b)[1] = a[1]
    BY <1>1
<1> QED
    BY <1>1, <1>2, <1>3 DEF SelectText

LEMMA SelectTextIs ==
    ASSUME NEW s, s \in SelectStatement
    PROVE  Text(s) \in SelectText
<1> DEFINE verb == Words(<<"SELECT">>)
           items == IF s.items = <<>> THEN <<Symbol("*")>> ELSE Commas(Each(s.items, ItemText))
           from == Words(<<"FROM">>)
           table == Name(s.from.table)
           joins == FlattenSeq(Each(s.from.joins, JoinText))
           where == Clause(<<"WHERE">>, s.where, ComparisonText)
           groupBy == Clause(<<"GROUP", "BY">>, s.groupBy, OperandText)
           having == Clause(<<"HAVING">>, s.having, ComparisonText)
           orderBy == IF s.orderBy = <<>> THEN <<>> ELSE Words(<<"ORDER", "BY">>) \o Commas(Each(s.orderBy, OrderText))
           limit == Clause(<<"LIMIT">>, s.limit, OperandText)
           offset == Clause(<<"OFFSET">>, s.offset, OperandText)
<1>1. /\ s.op = "select" /\ s.items \in Seq(SelectItem) /\ s.from.table \in STRING /\ s.from.joins \in Seq(JoinFromItem)
      /\ s.where \in Optionally(Operation) /\ s.groupBy \in Optionally(Expression) /\ s.having \in Optionally(Operation)
      /\ s.orderBy \in Seq(OrderBy) /\ s.limit \in Optionally(Expression) /\ s.offset \in Optionally(Expression)
    BY DEF SelectStatement, FromItem
<1>2. {"SELECT", "FROM", "WHERE", "GROUP", "BY", "HAVING", "ORDER", "LIMIT", "OFFSET"} \subseteq ReservedWord
    BY DEF ReservedWord
<1>3. verb \in Seq(Token)
    BY <1>2, OneWord
<1>4. items \in Seq(Token)
    <2>1. <<Symbol("*")>> \in Seq(Token) /\ Commas(Each(s.items, ItemText)) \in Seq(Token)
        BY <1>1, ItemTextsAre, SymbolIs
    <2> QED
        BY <2>1
<1>5. from \in Seq(Token)
    BY <1>2, OneWord
<1>6. table \in Seq(Token)
    BY <1>1, NameIs
<1>7. joins \in Seq(Token)
    BY <1>1, JoinTextsAre
<1>8. where \in Seq(Token)
    BY <1>1, <1>2, OneWord, ComparisonClauseIs
<1>9. groupBy \in Seq(Token)
    BY <1>1, <1>2, TwoWords, OperandClauseIs
<1>10. having \in Seq(Token)
    BY <1>1, <1>2, OneWord, ComparisonClauseIs
<1>11. orderBy \in Seq(Token)
    <2>1. Words(<<"ORDER", "BY">>) \in Seq(Token) /\ Commas(Each(s.orderBy, OrderText)) \in Seq(Token)
        BY <1>1, <1>2, TwoWords, OrderTextsAre
    <2>2. Words(<<"ORDER", "BY">>) \o Commas(Each(s.orderBy, OrderText)) \in Seq(Token) /\ <<>> \in Seq(Token)
        BY <2>1, JoinIs, NoneIs
    <2> QED
        BY <2>2
<1>12. limit \in Seq(Token)
    BY <1>1, <1>2, OneWord, OperandClauseIs
<1>13. offset \in Seq(Token)
    BY <1>1, <1>2, OneWord, OperandClauseIs
<1>14. Text(s) = verb \o items \o from \o table \o joins \o where \o groupBy \o having \o orderBy \o limit \o offset
    BY <1>1 DEF Text
<1>15. verb \in SelectText
    <2>1. Len(verb) = 1 /\ verb[1] = Keyword("SELECT")
        BY DEF Words
    <2> QED
        BY <1>3, <2>1 DEF SelectText
<1> HIDE DEF verb, items, from, table, joins, where, groupBy, having, orderBy, limit, offset
<1>16. verb \o items \in SelectText
    BY <1>15, <1>4, SelectGoesOn
<1>17. verb \o items \o from \in SelectText
    BY <1>16, <1>5, SelectGoesOn
<1>18. verb \o items \o from \o table \in SelectText
    BY <1>17, <1>6, SelectGoesOn
<1>19. verb \o items \o from \o table \o joins \in SelectText
    BY <1>18, <1>7, SelectGoesOn
<1>20. verb \o items \o from \o table \o joins \o where \in SelectText
    BY <1>19, <1>8, SelectGoesOn
<1>21. verb \o items \o from \o table \o joins \o where \o groupBy \in SelectText
    BY <1>20, <1>9, SelectGoesOn
<1>22. verb \o items \o from \o table \o joins \o where \o groupBy \o having \in SelectText
    BY <1>21, <1>10, SelectGoesOn
<1>23. verb \o items \o from \o table \o joins \o where \o groupBy \o having \o orderBy \in SelectText
    BY <1>22, <1>11, SelectGoesOn
<1>24. verb \o items \o from \o table \o joins \o where \o groupBy \o having \o orderBy \o limit \in SelectText
    BY <1>23, <1>12, SelectGoesOn
<1>25. verb \o items \o from \o table \o joins \o where \o groupBy \o having \o orderBy \o limit \o offset \in SelectText
    BY <1>24, <1>13, SelectGoesOn
<1> QED
    BY <1>14, <1>25

LEMMA TextIs ==
    ASSUME NEW s \in Statement
    PROVE  Text(s) \in Seq(Token) /\ (s.op = "select" => Text(s) \in SelectText)
<1>1. CASE s \in SelectStatement
    BY <1>1, SelectTextIs DEF SelectText
<1>2. CASE s \in CreateTableStatement
    BY <1>2, CreateTextIs DEF CreateTableStatement
<1>3. CASE s \in InsertStatement
    BY <1>3, InsertTextIs DEF InsertStatement
<1>4. CASE s \in DeleteStatement
    BY <1>4, DeleteTextIs DEF DeleteStatement
<1>5. CASE IsUpdateStatement(s)
    BY <1>5, UpdateTextIs DEF IsUpdateStatement
<1> QED
    BY <1>1, <1>2, <1>3, <1>4, <1>5, StatementAssumption

LEMMA EndsIn ==
    ASSUME NEW S, NEW a \in Seq(S), NEW b \in Seq(S), Len(b) # 0
    PROVE  a \o b \in Seq(S) /\ Len(a \o b) # 0 /\ (a \o b)[Len(a \o b)] = b[Len(b)]
OBVIOUS

LEMMA WiderIs ==
    ASSUME NEW S, NEW T, S \subseteq T, NEW a \in Seq(S)
    PROVE  a \in Seq(T)
OBVIOUS

LEMMA InputIs ==
    ASSUME NEW T, NEW t \in Seq(T), Len(t) # 0, t[Len(t)] = EndOfInput
    PROVE  t \in Input(T)
BY DEF Input

LEMMA TypedTextIs ==
    ASSUME NEW s \in Statement
    PROVE  /\ Tokens(s) \in Input(AnyToken)
           /\ s.op = "select" => Tokens(s)[1] = Keyword("SELECT")
<1> DEFINE last == <<Symbol(";"), EndOfInput>>
           body == Text(s)
<1>1. body \in Seq(Token) /\ (s.op = "select" => body \in SelectText)
    BY TextIs
<1>2. body \in Seq(AnyToken)
    <2>1. Token \subseteq AnyToken
        BY DEF AnyToken
    <2> HIDE DEF body
    <2> QED
        BY <1>1, <2>1, WiderIs
<1>3. last \in Seq(AnyToken) /\ Len(last) = 2 /\ last[2] = EndOfInput
    BY TwoIs DEF AnyToken
<1> HIDE DEF body, last
<1>4. body \o last \in Seq(AnyToken) /\ Len(body \o last) # 0 /\ (body \o last)[Len(body \o last)] = EndOfInput
    BY <1>2, <1>3, EndsIn
<1>5. body \in SelectText => (body \o last)[1] = Keyword("SELECT")
    BY <1>2, <1>3 DEF SelectText
<1>6. Tokens(s) = body \o last
    BY DEF Tokens, body, last
<1>7. body \o last \in Input(AnyToken)
    BY <1>4, InputIs
<1>8. s.op = "select" => Tokens(s)[1] = Keyword("SELECT")
    BY <1>1, <1>5, <1>6
<1>9. Tokens(s) \in Input(AnyToken)
    BY <1>6, <1>7
<1> QED
    BY <1>8, <1>9

LEMMA CutTextFails ==
    ASSUME NEW s \in Statement, NEW t \in CutShort(s)
    PROVE  t \in Input(AnyToken) /\ ~Parse(t).ok
<1> DEFINE whole == Text(s)
           T == Token \cup {EndOfInput}
<1>1. whole \in Seq(Token)
    BY TextIs
<1>2. PICK n \in 0..Len(whole) : t = SubSeq(whole, 1, n) \o <<EndOfInput>>
    BY DEF CutShort
<1> HIDE DEF whole
<1>3. SubSeq(whole, 1, n) \in Seq(Token)
    BY <1>1
<1> DEFINE cut == SubSeq(whole, 1, n)
           end == <<EndOfInput>>
<1>4. cut \in Seq(T) /\ end \in Seq(T) /\ Len(end) = 1 /\ end[1] = EndOfInput
    BY <1>3, OneIs
<1> HIDE DEF cut, end, T
<1>5. cut \o end \in Seq(T) /\ Len(cut \o end) # 0 /\ (cut \o end)[Len(cut \o end)] = EndOfInput
    BY <1>4, EndsIn
<1>6. t \in Input(T)
    BY <1>2, <1>5 DEF Input, cut, end
<1>7. T \in SUBSET AnyToken
    BY DEF T, AnyToken
<1>8. Symbol(";") \notin T
    <2>1. /\ \A k \in ReservedWord : Keyword(k).kind # Symbol(";").kind
          /\ \A name \in STRING : Identifier(name).kind # Symbol(";").kind
        BY DEF Keyword, Identifier, Symbol
    <2>2. \A v \in AnyValue : Literal(v).kind # Symbol(";").kind
        BY DEF Literal, Symbol
    <2>3. \A x \in {",", "(", ")", "*", "=", ">", "<", "end"} : Symbol(x).kind # Symbol(";").kind
        BY DEF Symbol
    <2> QED
        BY <2>1, <2>2, <2>3 DEF T, Token, EndOfInput
<1>9. ~Parse(t).ok
    BY <1>6, <1>7, <1>8, ParseIs
<1>10. t \in Input(AnyToken)
    BY <1>6, <1>7, WiderIs DEF Input
<1> QED
    BY <1>9, <1>10

-----------------------------------------------------------------------------
(***************************************************************************)
(* Execute goes from node to node.                                         *)
(***************************************************************************)
Do(d, r, node) == IF r.outcome = "rows" THEN ExecuteNode(d, r, node) ELSE r

NoRows == RowsResult(<<>>, <<>>)

DoStep(d, source, f, n) == IF n = 0 THEN NoRows ELSE Do(d, f[n - 1], source[n])

\* The recursive definition of Execute has a solution.
LEMMA ExecuteDef ==
    ASSUME NEW d, NEW source, NEW m \in Nat
    PROVE  \E f : f = [n \in 0..m |-> DoStep(d, source, f, n)]
<1> DEFINE Solves(f, i) == f = [n \in 0..i |-> DoStep(d, source, f, n)]
           Without == {i \in Nat : ~ \E f : Solves(f, i)}
<1> SUFFICES ASSUME Without # {} PROVE FALSE
    OBVIOUS
<1>1. PICK i \in Without : \A j \in Without : i <= j
    <2>1. Without \subseteq Nat
        OBVIOUS
    <2> HIDE DEF Without
    <2> QED
        BY <2>1, LeastNumber
<1>2. i \in Nat /\ ~ \E f : Solves(f, i)
    BY <1>1
<1>3. i # 0
    <2> DEFINE z == [n \in 0..0 |-> NoRows]
    <2>1. Solves(z, 0)
        BY DEF DoStep
    <2> HIDE DEF Solves, z
    <2> QED
        BY <1>2, <2>1
<1>4. i - 1 \in Nat /\ i - 1 \notin Without
    <2>1. i - 1 \in Nat /\ i - 1 < i
        BY <1>2, <1>3
    <2> HIDE DEF Without
    <2> QED
        BY <1>1, <1>2, <2>1
<1>5. PICK f : Solves(f, i - 1)
    <2> HIDE DEF Solves
    <2> QED
        BY <1>4
<1> DEFINE g == [n \in 0..i |-> DoStep(d, source, f, n)]
<1>6. ASSUME NEW n \in 0..(i - 1) PROVE g[n] = f[n]
    <2>1. n \in 0..i
        BY <1>2
    <2>2. g[n] = DoStep(d, source, f, n)
        BY <2>1
    <2>3. f[n] = DoStep(d, source, f, n)
        <3> HIDE DEF g
        <3> QED
            BY <1>5
    <2> QED
        BY <2>2, <2>3
<1>7. ASSUME NEW n \in 0..i PROVE DoStep(d, source, g, n) = DoStep(d, source, f, n)
    <2>1. n # 0 => n - 1 \in 0..(i - 1)
        BY <1>2
    <2>2. n # 0 => g[n - 1] = f[n - 1]
        <3> HIDE DEF g
        <3> QED
            BY <1>6, <2>1
    <2> HIDE DEF g
    <2> QED
        BY <2>2 DEF DoStep
<1>8. Solves(g, i)
    <2>1. [n \in 0..i |-> DoStep(d, source, g, n)] = [n \in 0..i |-> DoStep(d, source, f, n)]
        <3> HIDE DEF g
        <3> QED
            BY <1>7, Zenon
    <2> QED
        BY <2>1, Zenon
<1> HIDE DEF Solves, g
<1> QED
    BY <1>2, <1>8

Chain(d, r, source, f) == f[0] = r /\ \A n \in 1..Len(source) : f[n] = Do(d, f[n - 1], source[n])

LEMMA ExecuteIs ==
    ASSUME NEW d, NEW N, NEW source \in Seq(N)
    PROVE  \E f : Chain(d, NoRows, source, f) /\ Execute(d, source) = f[Len(source)]
<1> DEFINE m == Len(source)
           body(f) == [n \in 0..m |-> DoStep(d, source, f, n)]
           after == CHOOSE f : f = body(f)
<1>1. m \in Nat
    OBVIOUS
<1>2. Execute(d, source) = after[m]
    BY DEF Execute, DoStep, Do, NoRows
<1> HIDE DEF m
<1>3. after = body(after)
    <2>1. \E f : f = body(f)
        BY <1>1, ExecuteDef
    <2> HIDE DEF body
    <2> QED
        BY <2>1
<1> HIDE DEF after
<1>4. \A n \in 0..m : after[n] = DoStep(d, source, after, n)
    BY <1>3
<1>5. after[0] = NoRows /\ \A n \in 1..m : after[n] = Do(d, after[n - 1], source[n])
    BY <1>1, <1>4 DEF DoStep
<1>6. Chain(d, NoRows, source, after)
    BY <1>5 DEF Chain, m
<1> QED
    BY <1>2, <1>6 DEF m

\* Of two sources one behind the other, the second goes on with what the
\* first returns.
LEMMA ExecuteJoin ==
    ASSUME NEW d, NEW N, NEW a \in Seq(N), NEW b \in Seq(N)
    PROVE  \E f : Chain(d, Execute(d, a), b, f) /\ Execute(d, a \o b) = f[Len(b)]
<1> DEFINE m == Len(a)
           k == Len(b)
           ab == a \o b
<1>1. m \in Nat /\ k \in Nat /\ ab \in Seq(N) /\ Len(ab) = m + k
      /\ (\A i \in 1..m : ab[i] = a[i]) /\ (\A i \in 1..k : ab[m + i] = b[i])
    OBVIOUS
<1> HIDE DEF ab
<1>2. PICK f : Chain(d, NoRows, ab, f) /\ Execute(d, ab) = f[Len(ab)]
    BY <1>1, ExecuteIs
<1>3. PICK g : Chain(d, NoRows, a, g) /\ Execute(d, a) = g[m]
    BY ExecuteIs
<1>4. f[0] = NoRows /\ \A n \in 1..(m + k) : f[n] = Do(d, f[n - 1], ab[n])
    BY <1>1, <1>2 DEF Chain
<1>5. g[0] = NoRows /\ \A n \in 1..m : g[n] = Do(d, g[n - 1], a[n])
    BY <1>3 DEF Chain
<1> HIDE DEF m, k
<1>6. Alike(f, g, m)
    <2>1. \A n \in 1..m : n \in 1..(m + k)
        BY <1>1
    <2>2. GoOnAlike(f, g, m)
        BY <1>1, <1>4, <1>5, <2>1 DEF GoOnAlike
    <2> QED
        BY <1>1, <2>2, Agreement
<1>7. f[m] = Execute(d, a)
    BY <1>1, <1>3, <1>6 DEF Alike
<1> DEFINE h == [n \in 0..k |-> f[m + n]]
<1>8. h[0] = Execute(d, a) /\ h[k] = Execute(d, ab)
    BY <1>1, <1>2, <1>7
<1>9. ASSUME NEW n \in 1..k PROVE h[n] = Do(d, h[n - 1], b[n])
    <2>1. m + n \in 1..(m + k) /\ (m + n) - 1 = m + (n - 1) /\ n - 1 \in 0..k /\ n \in 0..k
        BY <1>1
    <2>2. h[n] = f[m + n] /\ h[n - 1] = f[m + (n - 1)]
        BY <2>1
    <2>3. f[m + n] = Do(d, f[(m + n) - 1], ab[m + n])
        BY <1>4, <2>1
    <2> HIDE DEF h
    <2> QED
        BY <1>1, <2>1, <2>2, <2>3
<1> HIDE DEF h
<1>10. Chain(d, Execute(d, a), b, h)
    BY <1>8, <1>9 DEF Chain, k
<1> QED
    BY <1>8, <1>10 DEF k, ab

LEMMA ExecuteOne ==
    ASSUME NEW d, NEW N, NEW a \in Seq(N), NEW x \in N
    PROVE  Execute(d, a \o <<x>>) = Do(d, Execute(d, a), x)
<1> DEFINE b == <<x>>
<1>1. b \in Seq(N) /\ Len(b) = 1 /\ b[1] = x
    OBVIOUS
<1> HIDE DEF b
<1>2. PICK f : Chain(d, Execute(d, a), b, f) /\ Execute(d, a \o b) = f[Len(b)]
    BY <1>1, ExecuteJoin
<1>3. f[0] = Execute(d, a) /\ f[1] = Do(d, f[0], x)
    BY <1>1, <1>2 DEF Chain
<1> QED
    BY <1>1, <1>2, <1>3 DEF b

-----------------------------------------------------------------------------
(***************************************************************************)
(* Rows are sequences, whatever is in them.                                *)
(***************************************************************************)
LEMMA FilterRowsIs ==
    ASSUME NEW S, NEW rows \in Seq(S), NEW p, NEW columns
    PROVE  FilterRows(p, columns, rows) \in Seq(S)
<1> DEFINE m == Len(rows)
           G == Seq(S)
           base == <<>>
           Step(n, q) == IF evaluateExpression(p, columns, rows[n], columns, rows[n]) = Boolean(TRUE) THEN Append(q, rows[n]) ELSE q
           body(f) == [n \in 0..m |-> IF n = 0 THEN base ELSE Step(n, f[n - 1])]
           step == [n \in 1..m |-> [q \in G |-> Step(n, q)]]
           loop == CHOOSE f : f = body(f)
<1>1. m \in Nat /\ base \in G
    OBVIOUS
<1>2. \A n \in 1..m, q \in G : Step(n, q) \in G
    BY ElementOfSeq, AppendIs
<1>3. FilterRows(p, columns, rows) = loop[m]
    BY DEF FilterRows
<1> HIDE DEF m, G, base, Step
<1>4. PICK f \in [0..m -> G] : Loops(f, base, step, m)
    <2>1. step \in [1..m -> [G -> G]]
        BY <1>2
    <2> HIDE DEF step
    <2> QED
        BY <1>1, <2>1, LoopExists
<1>5. f = body(f)
    <2>1. ASSUME NEW n \in 1..m PROVE f[n] = Step(n, f[n - 1])
        <3>1. n - 1 \in 0..m /\ f[n - 1] \in G /\ f[n] = step[n][f[n - 1]]
            BY <1>1, <1>4 DEF Loops
        <3> QED
            BY <3>1
    <2>2. f[0] = base
        BY <1>4 DEF Loops
    <2>3. \A n \in 0..m : f[n] = IF n = 0 THEN base ELSE Step(n, f[n - 1])
        BY <2>1, <2>2
    <2> QED
        BY <2>3
<1>6. loop = body(loop)
    <2> HIDE DEF body
    <2> QED
        BY <1>5
<1> HIDE DEF loop
<1>7. loop[0] = base /\ \A n \in 1..m : loop[n] = Step(n, loop[n - 1])
    BY <1>1, <1>6
<1>8. \A n \in 0..m : loop[n] \in G
    <2>1. loop[0] \in G /\ \A n \in 1..m : loop[n - 1] \in G => loop[n] \in G
        BY <1>1, <1>2, <1>7
    <2> QED
        BY <1>1, <2>1, Stays
<1>9. FilterRows(p, columns, rows) \in G
    BY <1>1, <1>3, <1>8
<1> QED
    BY <1>9 DEF G

LEMMA GreatestIs ==
    ASSUME NEW n \in Nat, NEW I \in SUBSET (1..n), I # {}
    PROVE  Max(I) \in I
<1> DEFINE M == {n - i : i \in I}
<1>0. \A i \in I : i \in 1..n /\ n - i \in Nat
    OBVIOUS
<1>1. M \in SUBSET Nat /\ M # {}
    BY <1>0
<1>2. PICK k \in M : \A j \in M : k <= j
    <2> HIDE DEF M
    <2> QED
        BY <1>1, LeastNumber
<1>3. PICK i \in I : k = n - i
    OBVIOUS
<1>4. \A j \in I : n - i <= n - j
    BY <1>2, <1>3
<1>5. \A j \in I : i >= j
    BY <1>0, <1>4
<1> QED
    BY <1>5 DEF Max

LEMMA InsertRowIs ==
    ASSUME NEW S, NEW sorted \in Seq(S), NEW row \in S, NEW orderBy, NEW columns
    PROVE  InsertRow(orderBy, columns, sorted, row) \in Seq(S)
<1> DEFINE I == {i \in 1..Len(sorted) : ~Precedes(orderBy, columns, row, sorted[i])}
           last == IF I # {} THEN Max(I) ELSE 0
           k == 1 + last
           before == SubSeq(sorted, 1, k - 1)
           behind == SubSeq(sorted, k, Len(sorted))
<1>1. Len(sorted) \in Nat /\ I \in SUBSET (1..Len(sorted))
    OBVIOUS
<1>2. InsertRow(orderBy, columns, sorted, row) = before \o <<row>> \o behind
    BY DEF InsertRow, InsertAt, SelectLastInSeq
<1> HIDE DEF I
<1>3. I # {} => Max(I) \in I
    BY <1>1, GreatestIs
<1>4. last \in 0..Len(sorted)
    <2>1. CASE I = {}
        BY <1>1, <2>1
    <2>2. CASE I # {}
        <3>1. last = Max(I) /\ Max(I) \in 1..Len(sorted)
            BY <1>1, <1>3, <2>2
        <3> HIDE DEF last
        <3> QED
            BY <1>1, <3>1
    <2> QED
        BY <2>1, <2>2
<1> HIDE DEF last
<1>5. before \in Seq(S) /\ behind \in Seq(S) /\ <<row>> \in Seq(S)
    BY <1>4, SubSeqProperties
<1> HIDE DEF before, behind
<1>6. before \o <<row>> \in Seq(S)
    BY <1>5, JoinIs
<1> QED
    BY <1>2, <1>5, <1>6, JoinIs

\* The rows that Order returns.
OrderedRows(input, orderBy) ==
    LET sorted[n \in 0..Len(input.rows)] ==
            IF n = 0 THEN <<>> ELSE InsertRow(orderBy, input.columns, sorted[n - 1], input.rows[n])
    IN  sorted[Len(input.rows)]

LEMMA OrderedRowsAre ==
    ASSUME NEW S, NEW input, input.rows \in Seq(S), NEW orderBy
    PROVE  OrderedRows(input, orderBy) \in Seq(S)
<1> DEFINE m == Len(input.rows)
           G == Seq(S)
           base == <<>>
           Step(n, q) == InsertRow(orderBy, input.columns, q, input.rows[n])
           body(f) == [n \in 0..m |-> IF n = 0 THEN base ELSE Step(n, f[n - 1])]
           step == [n \in 1..m |-> [q \in G |-> Step(n, q)]]
           loop == CHOOSE f : f = body(f)
<1>1. m \in Nat /\ base \in G
    OBVIOUS
<1>2. \A n \in 1..m, q \in G : Step(n, q) \in G
    BY ElementOfSeq, InsertRowIs
<1>3. OrderedRows(input, orderBy) = loop[m]
    BY DEF OrderedRows
<1> HIDE DEF m, G, base, Step
<1>4. PICK f \in [0..m -> G] : Loops(f, base, step, m)
    <2>1. step \in [1..m -> [G -> G]]
        BY <1>2
    <2> HIDE DEF step
    <2> QED
        BY <1>1, <2>1, LoopExists
<1>5. f = body(f)
    <2>1. ASSUME NEW n \in 1..m PROVE f[n] = Step(n, f[n - 1])
        <3>1. n - 1 \in 0..m /\ f[n - 1] \in G /\ f[n] = step[n][f[n - 1]]
            BY <1>1, <1>4 DEF Loops
        <3> QED
            BY <3>1
    <2>2. f[0] = base
        BY <1>4 DEF Loops
    <2>3. \A n \in 0..m : f[n] = IF n = 0 THEN base ELSE Step(n, f[n - 1])
        BY <2>1, <2>2
    <2> QED
        BY <2>3
<1>6. loop = body(loop)
    <2> HIDE DEF body
    <2> QED
        BY <1>5
<1> HIDE DEF loop
<1>7. loop[0] = base /\ \A n \in 1..m : loop[n] = Step(n, loop[n - 1])
    BY <1>1, <1>6
<1>8. \A n \in 0..m : loop[n] \in G
    <2>1. loop[0] \in G /\ \A n \in 1..m : loop[n - 1] \in G => loop[n] \in G
        BY <1>1, <1>2, <1>7
    <2> QED
        BY <1>1, <2>1, Stays
<1>9. OrderedRows(input, orderBy) \in G
    BY <1>1, <1>3, <1>8
<1> QED
    BY <1>9 DEF G

\* A result whose rows are a sequence.
HasRows(r) == r.outcome = "rows" => \E S : r.rows \in Seq(S)

LEMMA FilterHasRows ==
    ASSUME NEW input, HasRows(input), input.outcome = "rows", NEW p
    PROVE  HasRows(Filter(input, p)) /\ Filter(input, p).outcome \in {"rows", "error"}
<1>1. PICK S : input.rows \in Seq(S)
    BY DEF HasRows
<1>2. FilterRows(p, input.columns, input.rows) \in Seq(S)
    BY <1>1, FilterRowsIs
<1> QED
    BY <1>2 DEF Filter, RowsResult, Error, HasRows

LEMMA OrderHasRows ==
    ASSUME NEW input, HasRows(input), input.outcome = "rows", NEW orderBy
    PROVE  HasRows(Order(input, orderBy)) /\ Order(input, orderBy).outcome \in {"rows", "error"}
<1>1. PICK S : input.rows \in Seq(S)
    BY DEF HasRows
<1>2. OrderedRows(input, orderBy) \in Seq(S)
    BY <1>1, OrderedRowsAre
<1>3. Order(input, orderBy) = IF \E i \in 1..Len(orderBy) : Index(input.columns, orderBy[i].column) = 0 THEN Error
                              ELSE RowsResult(input.columns, OrderedRows(input, orderBy))
    BY DEF Order, OrderedRows
<1> QED
    BY <1>2, <1>3 DEF RowsResult, Error, HasRows

-----------------------------------------------------------------------------
(***************************************************************************)
(* What the tables of a database become up to WHERE: rows of SQL values,   *)
(* as wide as there are columns, or an error.                              *)
(***************************************************************************)
Wide(w) == {row \in Seq(AnyValue) : Len(row) = w}

Relation == {Error} \cup UNION {{RowsResult(c, rows) : rows \in Seq(Wide(Len(c)))} : c \in Seq(STRING)}

LEMMA RelationOf ==
    ASSUME NEW c \in Seq(STRING), NEW rows \in Seq(Wide(Len(c)))
    PROVE  RowsResult(c, rows) \in Relation
<1>1. RowsResult(c, rows) \in {RowsResult(c, x) : x \in Seq(Wide(Len(c)))}
    OBVIOUS
<1> QED
    BY <1>1 DEF Relation

LEMMA RelationIs ==
    ASSUME NEW r \in Relation
    PROVE  \/ r = Error
           \/ /\ r.outcome = "rows" /\ r.columns \in Seq(STRING) /\ r.rows \in Seq(Wide(Len(r.columns)))
              /\ r = RowsResult(r.columns, r.rows)
<1>1. SUFFICES ASSUME r # Error
               PROVE  /\ r.outcome = "rows" /\ r.columns \in Seq(STRING) /\ r.rows \in Seq(Wide(Len(r.columns)))
                      /\ r = RowsResult(r.columns, r.rows)
    OBVIOUS
<1>2. PICK c \in Seq(STRING) : r \in {RowsResult(c, rows) : rows \in Seq(Wide(Len(c)))}
    BY <1>1 DEF Relation
<1>3. PICK rows \in Seq(Wide(Len(c))) : r = RowsResult(c, rows)
    BY <1>2
<1>4. r.outcome = "rows" /\ r.columns = c /\ r.rows = rows
    BY <1>3 DEF RowsResult
<1> QED
    BY <1>3, <1>4

LEMMA ScanIs ==
    ASSUME NEW d \in Database, NEW name
    PROVE  Scan(d, name) \in Relation
<1>1. CASE name \notin DOMAIN d
    BY <1>1 DEF Scan, Relation
<1>2. CASE name \in DOMAIN d
    <2> DEFINE columns == d[name].table.columns
               rows == d[name].rows
               names == columnNames(d[name].table)
               C == [name : STRING, dataType : DataType, primaryKey : BOOLEAN,
                     nullable : BOOLEAN, default : Optionally(AnyValue)]
    <2>1. /\ columns \in Seq(C) /\ rows \in Seq(Seq(AnyValue))
          /\ \A i \in 1..Len(rows) : Len(rows[i]) = Len(columns)
        BY <1>2, DatabaseAssumption
    <2>2. Scan(d, name) = RowsResult(names, rows)
        BY <1>2 DEF Scan
    <2>3. names = [i \in 1..Len(columns) |-> columns[i].name]
        BY DEF columnNames
    <2>6. \A x \in C : x.name \in STRING
        OBVIOUS
    <2> HIDE DEF columns, rows, names, C
    <2>4. names \in Seq(STRING) /\ Len(names) = Len(columns)
        <3>1. Len(columns) \in Nat /\ \A i \in 1..Len(columns) : columns[i] \in C
            BY <2>1
        <3>2. \A i \in 1..Len(columns) : names[i] \in STRING
            BY <2>3, <2>6, <3>1
        <3>3. names = [i \in 1..Len(columns) |-> names[i]]
            BY <2>3
        <3> QED
            BY <3>1, <3>2, <3>3, ListIs
    <2>5. rows \in Seq(Wide(Len(names)))
        <3>1. Len(rows) \in Nat /\ \A i \in 1..Len(rows) : rows[i] \in Seq(AnyValue)
            BY <2>1
        <3>2. \A i \in 1..Len(rows) : rows[i] \in Wide(Len(names))
            BY <2>1, <2>4, <3>1 DEF Wide
        <3>3. rows = [i \in 1..Len(rows) |-> rows[i]]
            BY <2>1
        <3> QED
            BY <3>1, <3>2, <3>3, ListIs
    <2> QED
        BY <2>2, <2>4, <2>5, RelationOf
<1> QED
    BY <1>1, <1>2

LEMMA WhereIs ==
    ASSUME NEW input \in Relation, input.outcome = "rows", NEW p
    PROVE  Filter(input, p) \in Relation
<1>1. input.columns \in Seq(STRING) /\ input.rows \in Seq(Wide(Len(input.columns)))
    BY RelationIs DEF Error
<1>2. FilterRows(p, input.columns, input.rows) \in Seq(Wide(Len(input.columns)))
    BY <1>1, FilterRowsIs
<1>3. RowsResult(input.columns, FilterRows(p, input.columns, input.rows)) \in Relation
    BY <1>1, <1>2, RelationOf
<1>4. Error \in Relation
    BY DEF Relation
<1> QED
    BY <1>3, <1>4 DEF Filter

\* A row with another one, or NULLs, behind it.
LEMMA WiderRow ==
    ASSUME NEW v \in Nat, NEW w \in Nat, NEW a \in Wide(v), NEW b \in Wide(w)
    PROVE  a \o b \in Wide(v + w)
<1>1. a \in Seq(AnyValue) /\ b \in Seq(AnyValue) /\ Len(a) = v /\ Len(b) = w
    BY DEF Wide
<1>2. a \o b \in Seq(AnyValue) /\ Len(a \o b) = v + w
    BY <1>1
<1> QED
    BY <1>2 DEF Wide

LEMMA Nulls ==
    ASSUME NEW w \in Nat
    PROVE  [i \in 1..w |-> Null] \in Wide(w)
<1> DEFINE f == [i \in 1..w |-> Null]
<1>1. Null \in AnyValue
    BY DEF Null, AnyValue, ValueKind
<1>2. f = [i \in 1..w |-> f[i]] /\ \A i \in 1..w : f[i] \in AnyValue
    BY <1>1
<1> HIDE DEF f
<1>3. f \in Seq(AnyValue) /\ Len(f) = w
    BY <1>2, ListIs
<1>4. f \in Wide(w)
    BY <1>3 DEF Wide
<1> QED
    BY <1>4 DEF f

LEMMA JoinedIs ==
    ASSUME NEW left \in Relation, NEW right \in Relation, NEW predicate, NEW outer
    PROVE  NestedLoopJoin(left, right, predicate, outer) \in Relation
<1> DEFINE value(a, b) == IF predicate = Unset THEN Boolean(TRUE)
                          ELSE evaluateExpression(predicate, left.columns, a, right.columns, b)
           matches(a) == At(right.rows, {i \in 1..Len(right.rows) : value(a, right.rows[i]) = Boolean(TRUE)})
           padded(a) == a \o [i \in 1..Len(right.columns) |-> Null]
           combined(a) == IF outer /\ matches(a) = <<>> THEN <<padded(a)>>
                          ELSE [i \in 1..Len(matches(a)) |-> a \o matches(a)[i]]
           fails == \E i \in 1..Len(left.rows), j \in 1..Len(right.rows) :
                        value(left.rows[i], right.rows[j]) = EvaluationError
           columns == left.columns \o right.columns
           list == [i \in 1..Len(left.rows) |-> combined(left.rows[i])]
<1>1. NestedLoopJoin(left, right, predicate, outer)
      = IF left.outcome # "rows" THEN left
        ELSE IF right.outcome # "rows" THEN right
        ELSE IF fails THEN Error
        ELSE RowsResult(columns, FlattenSeq(list))
    BY DEF NestedLoopJoin
<1>2. SUFFICES ASSUME left.outcome = "rows", right.outcome = "rows"
               PROVE  RowsResult(columns, FlattenSeq(list)) \in Relation
    <2>1. Error \in Relation
        BY DEF Relation
    <2> HIDE DEF fails, columns, list
    <2> QED
        BY <1>1, <2>1
<1> DEFINE v == Len(left.columns)
           w == Len(right.columns)
           R == Wide(v + w)
<1>3. /\ left.columns \in Seq(STRING) /\ left.rows \in Seq(Wide(v))
      /\ right.columns \in Seq(STRING) /\ right.rows \in Seq(Wide(w))
    BY <1>2, RelationIs DEF Error
<1>4. v \in Nat /\ w \in Nat /\ columns \in Seq(STRING) /\ Len(columns) = v + w
    BY <1>3
<1>5. ASSUME NEW a \in Wide(v) PROVE combined(a) \in Seq(R)
    <2>1. matches(a) \in Seq(Wide(w))
        BY <1>3, AtIs
    <2>2. padded(a) \in R
        BY <1>4, Nulls, WiderRow
    <2>3. <<padded(a)>> \in Seq(R)
        <3> HIDE DEF padded, R
        <3> QED
            BY <2>2
    <2> DEFINE g == [i \in 1..Len(matches(a)) |-> a \o matches(a)[i]]
    <2> HIDE DEF matches, padded
    <2>4. Len(matches(a)) \in Nat /\ \A i \in 1..Len(matches(a)) : matches(a)[i] \in Wide(w)
        BY <2>1
    <2>5. \A i \in 1..Len(matches(a)) : g[i] \in R
        BY <1>4, <2>4, WiderRow
    <2>6. g = [i \in 1..Len(matches(a)) |-> g[i]]
        OBVIOUS
    <2>7. combined(a) = IF outer /\ matches(a) = <<>> THEN <<padded(a)>> ELSE g
        OBVIOUS
    <2> HIDE DEF g, R, combined
    <2>8. g \in Seq(R)
        BY <2>4, <2>5, <2>6, ListIs
    <2> QED
        BY <2>3, <2>7, <2>8
<1>6. list \in Seq(Seq(R))
    <2> DEFINE S == Seq(R)
    <2>1. Len(left.rows) \in Nat /\ \A i \in 1..Len(left.rows) : left.rows[i] \in Wide(v)
        BY <1>3
    <2> HIDE DEF combined, R
    <2>2. \A i \in 1..Len(left.rows) : list[i] \in S
        BY <1>5, <2>1
    <2>3. list = [i \in 1..Len(left.rows) |-> list[i]]
        OBVIOUS
    <2> HIDE DEF list, S
    <2>4. list \in Seq(S)
        BY <2>1, <2>2, <2>3, ListIs
    <2> QED
        BY <2>4 DEF S
<1>7. FlattenSeq(list) \in Seq(R)
    <2> HIDE DEF list, R
    <2> QED
        BY <1>6, FlattenIs
<1> HIDE DEF list, columns
<1>8. FlattenSeq(list) \in Seq(Wide(Len(columns)))
    BY <1>4, <1>7
<1> QED
    BY <1>4, <1>8, RelationOf

-----------------------------------------------------------------------------
(***************************************************************************)
(* Aggregates of SQL values are SQL values or errors.                      *)
(***************************************************************************)
LEMMA AsFloatIs ==
    ASSUME NEW v \in AnyValue
    PROVE  AsFloat(v) \in Nat
<1> DEFINE n == v.n
           m == float64(n)
<1>1. n \in Nat
    BY DEF AnyValue
<1> HIDE DEF n
<1>2. m \in Nat
    <2>1. CASE n <= ExactInteger \/ n % 2 = 0
        <3>1. n > ExactInteger => n % 4 # 1 /\ n % 4 # 3
            BY <1>1, <2>1, NumberAssumption
        <3>2. float64(n) = n
            BY <1>1, <2>1, <3>1, NumberAssumption DEF float64
        <3> QED
            BY <1>1, <3>2
    <2>2. CASE n > ExactInteger /\ n % 4 = 1
        <3>1. ~(n <= ExactInteger \/ n % 2 = 0) /\ n % 4 # 3
            BY <1>1, <2>2, NumberAssumption
        <3>2. float64(n) = n - 1
            BY <2>2, <3>1 DEF float64
        <3> QED
            BY <1>1, <2>2, <3>2, NumberAssumption
    <2>3. CASE n > ExactInteger /\ n % 4 = 3
        <3>1. ~(n <= ExactInteger \/ n % 2 = 0) /\ n % 4 # 1
            BY <1>1, <2>3, NumberAssumption
        <3>2. float64(n) = n + 1
            BY <2>3, <3>1 DEF float64
        <3> QED
            BY <1>1, <3>2
    <2>4. n <= ExactInteger \/ n % 2 = 0 \/ (n > ExactInteger /\ (n % 4 = 1 \/ n % 4 = 3))
        BY <1>1, NumberAssumption
    <2> QED
        BY <2>1, <2>2, <2>3, <2>4
<1> HIDE DEF m
<1>3. m * FloatUnit \in Nat
    BY <1>2, NumberAssumption
<1>4. AsFloat(v) = IF v.kind = "integer" THEN m * FloatUnit ELSE n
    BY DEF AsFloat, m, n
<1> QED
    BY <1>1, <1>3, <1>4

LEMMA ValueOf ==
    ASSUME NEW n \in Nat
    PROVE  [kind |-> "integer", n |-> n] \in AnyValue /\ [kind |-> "float", n |-> n] \in AnyValue /\ Null \in AnyValue
BY DEF AnyValue, ValueKind, DataType, Null

LEMMA NonNullIs ==
    ASSUME NEW values \in Seq(AnyValue)
    PROVE  NonNull(values) \in Seq(AnyValue)
BY AtIs DEF NonNull

LEMMA CountIs ==
    ASSUME NEW values \in Seq(AnyValue)
    PROVE  count(values) \in AnyValue
<1>1. Len(NonNull(values)) \in Nat
    BY NonNullIs
<1> QED
    BY <1>1, ValueOf DEF count

LEMMA ExtremeIs ==
    ASSUME NEW values \in Seq(AnyValue), NEW minimum
    PROVE  calculateExtreme(values, minimum) \in AnyValue
<1> DEFINE m == Len(NonNull(values))
           G == AnyValue
           base == Null
           Step(n, q) == IF q = Null \/ (IF minimum THEN Compare(NonNull(values)[n], q) < 0 ELSE Compare(NonNull(values)[n], q) > 0)
                         THEN NonNull(values)[n] ELSE q
           body(f) == [n \in 0..m |-> IF n = 0 THEN base ELSE Step(n, f[n - 1])]
           step == [n \in 1..m |-> [q \in G |-> Step(n, q)]]
           loop == CHOOSE f : f = body(f)
<1>1. m \in Nat /\ base \in G
    <2>1. NonNull(values) \in Seq(AnyValue)
        BY NonNullIs
    <2>2. Null \in AnyValue
        BY DEF Null, AnyValue, ValueKind
    <2>3. m \in Nat
        BY <2>1, LenProperties
    <2> QED
        BY <2>2, <2>3
<1>2. \A n \in 1..m, q \in G : Step(n, q) \in G
    <2>1. \A n \in 1..m : NonNull(values)[n] \in AnyValue
        BY NonNullIs, ElementOfSeq
    <2> QED
        BY <2>1
<1>3. calculateExtreme(values, minimum) = loop[m]
    BY DEF calculateExtreme
<1> HIDE DEF m, G, base, Step
<1>4. PICK f \in [0..m -> G] : Loops(f, base, step, m)
    <2>1. step \in [1..m -> [G -> G]]
        BY <1>2
    <2> HIDE DEF step
    <2> QED
        BY <1>1, <2>1, LoopExists
<1>5. f = body(f)
    <2>1. ASSUME NEW n \in 1..m PROVE f[n] = Step(n, f[n - 1])
        <3>1. n - 1 \in 0..m /\ f[n - 1] \in G /\ f[n] = step[n][f[n - 1]]
            BY <1>1, <1>4 DEF Loops
        <3> QED
            BY <3>1
    <2>2. f[0] = base
        BY <1>4 DEF Loops
    <2>3. \A n \in 0..m : f[n] = IF n = 0 THEN base ELSE Step(n, f[n - 1])
        BY <2>1, <2>2
    <2> QED
        BY <2>3
<1>6. loop = body(loop)
    <2> HIDE DEF body
    <2> QED
        BY <1>5
<1> HIDE DEF loop
<1>7. loop[0] = base /\ \A n \in 1..m : loop[n] = Step(n, loop[n - 1])
    BY <1>1, <1>6
<1>8. \A n \in 0..m : loop[n] \in G
    <2>1. loop[0] \in G /\ \A n \in 1..m : loop[n - 1] \in G => loop[n] \in G
        BY <1>1, <1>2, <1>7
    <2> QED
        BY <1>1, <2>1, Stays
<1>9. calculateExtreme(values, minimum) \in G
    BY <1>1, <1>3, <1>8
<1> QED
    BY <1>9 DEF G

\* What the values of a column add up to.
Total(present) ==
    LET total[n \in 0..Len(present)] == IF n = 0 THEN 0 ELSE total[n - 1] + AsFloat(present[n])
    IN  total[Len(present)]

LEMMA TotalIs ==
    ASSUME NEW present \in Seq(AnyValue)
    PROVE  Total(present) \in Nat
<1> DEFINE m == Len(present)
           G == Nat
           base == 0
           Step(n, q) == q + AsFloat(present[n])
           body(f) == [n \in 0..m |-> IF n = 0 THEN base ELSE Step(n, f[n - 1])]
           step == [n \in 1..m |-> [q \in G |-> Step(n, q)]]
           loop == CHOOSE f : f = body(f)
<1>1. m \in Nat /\ base \in G
    OBVIOUS
<1>2. \A n \in 1..m, q \in G : Step(n, q) \in G
    <2>1. \A n \in 1..m : AsFloat(present[n]) \in Nat
        BY AsFloatIs, ElementOfSeq
    <2> QED
        BY <2>1
<1>3. Total(present) = loop[m]
    BY DEF Total
<1> HIDE DEF m, G, base, Step
<1>4. PICK f \in [0..m -> G] : Loops(f, base, step, m)
    <2>1. step \in [1..m -> [G -> G]]
        BY <1>2
    <2> HIDE DEF step
    <2> QED
        BY <1>1, <2>1, LoopExists
<1>5. f = body(f)
    <2>1. ASSUME NEW n \in 1..m PROVE f[n] = Step(n, f[n - 1])
        <3>1. n - 1 \in 0..m /\ f[n - 1] \in G /\ f[n] = step[n][f[n - 1]]
            BY <1>1, <1>4 DEF Loops
        <3> QED
            BY <3>1
    <2>2. f[0] = base
        BY <1>4 DEF Loops
    <2>3. \A n \in 0..m : f[n] = IF n = 0 THEN base ELSE Step(n, f[n - 1])
        BY <2>1, <2>2
    <2> QED
        BY <2>3
<1>6. loop = body(loop)
    <2> HIDE DEF body
    <2> QED
        BY <1>5
<1> HIDE DEF loop
<1>7. loop[0] = base /\ \A n \in 1..m : loop[n] = Step(n, loop[n - 1])
    BY <1>1, <1>6
<1>8. \A n \in 0..m : loop[n] \in G
    <2>1. loop[0] \in G /\ \A n \in 1..m : loop[n - 1] \in G => loop[n] \in G
        BY <1>1, <1>2, <1>7
    <2> QED
        BY <1>1, <2>1, Stays
<1>9. Total(present) \in G
    BY <1>1, <1>3, <1>8
<1> QED
    BY <1>9 DEF G

LEMMA SumIs ==
    ASSUME NEW values \in Seq(AnyValue)
    PROVE  /\ sum(values) \in AnyValue \cup {EvaluationError}
           /\ sum(values).kind = "float" => Len(NonNull(values)) # 0 /\ sum(values).n \in Nat
<1> DEFINE present == NonNull(values)
           bad == \E i \in 1..Len(present) : ~IsNumber(present[i])
           total == Total(present)
<1>1. sum(values) = IF present = <<>> THEN Null ELSE IF bad THEN EvaluationError ELSE [kind |-> "float", n |-> total]
    BY DEF sum, Total
<1>2. present \in Seq(AnyValue)
    BY NonNullIs
<1>3. present # <<>> => Len(present) # 0
    BY <1>2
<1>4. total \in Nat
    BY <1>2, TotalIs
<1> HIDE DEF present, bad, total
<1>5. [kind |-> "float", n |-> total] \in AnyValue /\ Null \in AnyValue
    BY <1>4, ValueOf
<1>6. CASE present = <<>>
    BY <1>1, <1>5, <1>6 DEF Null
<1>7. CASE present # <<>> /\ bad
    BY <1>1, <1>7 DEF EvaluationError
<1>8. CASE present # <<>> /\ ~bad
    <2>1. sum(values) = [kind |-> "float", n |-> total]
        BY <1>1, <1>8
    <2>2. Len(NonNull(values)) # 0
        BY <1>3, <1>8 DEF present
    <2> QED
        BY <1>4, <1>5, <2>1, <2>2
<1> QED
    BY <1>6, <1>7, <1>8

LEMMA AvgIs ==
    ASSUME NEW values \in Seq(AnyValue)
    PROVE  avg(values) \in AnyValue \cup {EvaluationError}
<1>1. CASE sum(values).kind # "float"
    BY <1>1, SumIs DEF avg
<1>2. CASE sum(values).kind = "float"
    <2> DEFINE a == sum(values).n
               b == Len(NonNull(values))
    <2>1. a \in Nat /\ b # 0
        BY <1>2, SumIs
    <2>2. b \in Nat
        BY NonNullIs
    <2>3. avg(values) = [kind |-> "float", n |-> a \div b]
        BY <1>2 DEF avg, count
    <2> HIDE DEF a, b
    <2>4. a \div b \in Nat
        BY <2>1, <2>2
    <2> QED
        BY <2>3, <2>4, ValueOf
<1> QED
    BY <1>1, <1>2

LEMMA CalculateIs ==
    ASSUME NEW name, NEW values \in Seq(AnyValue)
    PROVE  calculate(name, values) \in AnyValue \cup {EvaluationError}
<1>1. /\ count(values) \in AnyValue \cup {EvaluationError}
      /\ calculateExtreme(values, TRUE) \in AnyValue \cup {EvaluationError}
      /\ calculateExtreme(values, FALSE) \in AnyValue \cup {EvaluationError}
      /\ sum(values) \in AnyValue \cup {EvaluationError}
      /\ avg(values) \in AnyValue \cup {EvaluationError}
    BY CountIs, ExtremeIs, SumIs, AvgIs
<1>2. CASE name = "count"
    BY <1>1, <1>2 DEF calculate
<1>3. CASE name = "min"
    BY <1>1, <1>3 DEF calculate
<1>4. CASE name = "max"
    BY <1>1, <1>4 DEF calculate
<1>5. CASE name = "sum"
    BY <1>1, <1>5 DEF calculate
<1>6. CASE name = "avg"
    BY <1>1, <1>6 DEF calculate
<1>7. CASE name \notin {"count", "min", "max", "sum", "avg"}
    BY <1>7 DEF calculate
<1> QED
    BY <1>2, <1>3, <1>4, <1>5, <1>6, <1>7

Outcome == AnyValue \cup {EvaluationError}

LEMMA ColumnValuesAre ==
    ASSUME NEW w \in Nat, NEW rows \in Seq(Wide(w)), NEW k \in 1..w
    PROVE  [i \in 1..Len(rows) |-> rows[i][k]] \in Seq(AnyValue) /\ Len([i \in 1..Len(rows) |-> rows[i][k]]) = Len(rows)
<1> DEFINE f == [i \in 1..Len(rows) |-> rows[i][k]]
<1>1. Len(rows) \in Nat /\ \A i \in 1..Len(rows) : rows[i] \in Wide(w)
    OBVIOUS
<1>2. \A row \in Wide(w) : row[k] \in AnyValue
    BY DEF Wide
<1>3. f = [i \in 1..Len(rows) |-> f[i]] /\ \A i \in 1..Len(rows) : f[i] \in AnyValue
    BY <1>1, <1>2
<1> HIDE DEF f
<1>4. f \in Seq(AnyValue) /\ Len(f) = Len(rows)
    BY <1>1, <1>3, ListIs
<1> QED
    BY <1>4 DEF f

LEMMA ItemIs ==
    ASSUME NEW columns \in Seq(STRING), NEW rows \in Seq(Wide(Len(columns))), NEW item \in SelectItem, NEW groupValue,
           item.expression[1] # "function" => groupValue \in AnyValue
    PROVE  calculateItem(item, groupValue, columns, rows) \in Outcome
<1> DEFINE k == Index(columns, item.expression[3])
           values == [i \in 1..Len(rows) |-> rows[i][k]]
<1>1. calculateItem(item, groupValue, columns, rows)
      = IF item.expression[1] # "function" THEN groupValue
        ELSE IF k = 0 THEN EvaluationError ELSE calculate(item.expression[2], values)
    BY DEF calculateItem
<1>2. k \in 0..Len(columns) /\ Len(columns) \in Nat
    BY IndexIs
<1> HIDE DEF k
<1>3. k # 0 => values \in Seq(AnyValue)
    <2>1. k # 0 => k \in 1..Len(columns)
        BY <1>2
    <2> QED
        BY <1>2, <2>1, ColumnValuesAre
<1> HIDE DEF values
<1>4. k # 0 => calculate(item.expression[2], values) \in Outcome
    BY <1>3, CalculateIs DEF Outcome
<1> QED
    BY <1>1, <1>4 DEF Outcome

LEMMA CalculatedRowIs ==
    ASSUME NEW columns \in Seq(STRING), NEW rows \in Seq(Wide(Len(columns))), NEW items \in Seq(SelectItem), NEW groupValue,
           \A i \in 1..Len(items) : items[i].expression[1] # "function" => groupValue \in AnyValue
    PROVE  calculateRow(items, groupValue, columns, rows) \in Seq(Outcome)
<1> DEFINE f == calculateRow(items, groupValue, columns, rows)
<1>1. Len(items) \in Nat /\ \A i \in 1..Len(items) : items[i] \in SelectItem
    OBVIOUS
<1>2. /\ f = [i \in 1..Len(items) |-> f[i]]
      /\ \A i \in 1..Len(items) : f[i] = calculateItem(items[i], groupValue, columns, rows)
    BY DEF calculateRow
<1> HIDE DEF f
<1>3. \A i \in 1..Len(items) : f[i] \in Outcome
    BY <1>1, <1>2, ItemIs
<1>4. f \in Seq(Outcome)
    BY <1>1, <1>2, <1>3, ListIs
<1> QED
    BY <1>4 DEF f

LEMMA GroupKeysAre ==
    ASSUME NEW w \in Nat, NEW rows \in Seq(Wide(w)), NEW k \in 1..w
    PROVE  GroupKeys(rows, k) \in Seq(AnyValue)
<1> DEFINE column == [i \in 1..Len(rows) |-> rows[i][k]]
           places == {i \in 1..Len(rows) : \A j \in 1..(i - 1) : column[j] # column[i]}
<1>1. column \in Seq(AnyValue)
    BY ColumnValuesAre
<1>2. GroupKeys(rows, k) = At(column, places)
    BY DEF GroupKeys
<1> HIDE DEF column, places
<1> QED
    BY <1>1, <1>2, AtIs

\* Without GROUP BY a group has no value, with it the value is of a row.
LEMMA GroupsAre ==
    ASSUME NEW input \in Relation, input.outcome = "rows", NEW groupBy \in Optionally(Expression),
           groupBy = Unset \/ Index(input.columns, groupBy[2]) # 0
    PROVE  /\ Len(Groups(input, groupBy)) \in Nat
           /\ \A i \in 1..Len(Groups(input, groupBy)) :
                /\ Groups(input, groupBy)[i].rows \in Seq(Wide(Len(input.columns)))
                /\ groupBy # Unset => Groups(input, groupBy)[i].key \in AnyValue
<1> DEFINE columns == input.columns
           rows == input.rows
           w == Len(columns)
           k == Index(columns, groupBy[2])
           keys == GroupKeys(rows, k)
           taken(key) == At(rows, {j \in 1..Len(rows) : rows[j][k] = key})
<1>1. columns \in Seq(STRING) /\ rows \in Seq(Wide(w))
    BY RelationIs DEF Error
<1>2. Groups(input, groupBy)
      = IF groupBy = Unset THEN <<[key |-> Unset, rows |-> rows]>>
        ELSE [i \in 1..Len(keys) |-> [key |-> keys[i], rows |-> taken(keys[i])]]
    BY DEF Groups
<1>3. CASE groupBy = Unset
    <2> DEFINE g == [key |-> Unset, rows |-> rows]
    <2>1. Groups(input, groupBy) = <<g>>
        BY <1>2, <1>3
    <2>2. g.rows = rows
        OBVIOUS
    <2> HIDE DEF g
    <2>3. Len(<<g>>) = 1 /\ <<g>>[1] = g
        OBVIOUS
    <2> QED
        BY <1>1, <1>3, <2>1, <2>2, <2>3
<1>4. CASE groupBy # Unset
    <2>1. w \in Nat /\ k \in 1..w
        BY <1>1, <1>4, IndexIs
    <2> HIDE DEF columns, rows, w, k
    <2>2. keys \in Seq(AnyValue)
        BY <1>1, <2>1, GroupKeysAre
    <2>3. \A key : taken(key) \in Seq(Wide(w))
        BY <1>1, AtIs
    <2> HIDE DEF keys, taken
    <2> DEFINE g == [i \in 1..Len(keys) |-> [key |-> keys[i], rows |-> taken(keys[i])]]
    <2>4. Len(keys) \in Nat /\ \A i \in 1..Len(keys) : keys[i] \in AnyValue
        BY <2>2
    <2>5. Len(g) = Len(keys)
        BY <2>4
    <2>6. \A i \in 1..Len(keys) : g[i].key = keys[i] /\ g[i].rows = taken(keys[i])
        OBVIOUS
    <2>7. Groups(input, groupBy) = g
        BY <1>2, <1>4
    <2> HIDE DEF g
    <2> QED
        BY <2>3, <2>4, <2>5, <2>6, <2>7 DEF w, columns
<1> QED
    BY <1>3, <1>4

LEMMA AggregateResultIs ==
    ASSUME NEW items, NEW rows \in Seq(Seq(Outcome))
    PROVE  /\ AggregateResult(items, rows).outcome \in {"rows", "error"}
           /\ HasRows(AggregateResult(items, rows))
<1> DEFINE values == FlattenSeq(rows)
           I == {i \in 1..Len(values) : values[i] \in {Unset, EvaluationError}}
           bad == IF I # {} THEN Min(I) ELSE 0
<1>1. values \in Seq(Outcome)
    BY FlattenIs
<1>2. AggregateResult(items, rows)
      = IF bad = 0 THEN RowsResult(aggregateOutputColumns(items), rows)
        ELSE IF values[bad] = Unset THEN Panic ELSE Error
    BY DEF AggregateResult, SelectInSeq
<1> HIDE DEF values
<1>3. Len(values) \in Nat /\ I \in SUBSET (1..Len(values))
    BY <1>1
<1> HIDE DEF I
<1>4. bad # 0 => bad \in 1..Len(values)
    BY <1>3, LeastIs
<1> HIDE DEF bad
<1>5. bad # 0 => values[bad] # Unset
    BY <1>1, <1>4, UnsetAssumption DEF Outcome
<1>6. HasRows(RowsResult(aggregateOutputColumns(items), rows))
    BY DEF HasRows, RowsResult
<1>7. HasRows(Error) /\ Error.outcome = "error"
    BY DEF HasRows, Error
<1>8. RowsResult(aggregateOutputColumns(items), rows).outcome = "rows"
    BY DEF RowsResult
<1> QED
    BY <1>2, <1>5, <1>6, <1>7, <1>8

\* The planner lets no aggregate query through that would make the executor
\* panic.
LEMMA AggregateIs ==
    ASSUME NEW input \in Relation, input.outcome = "rows",
           NEW s \in SelectStatement, IsAggregateQuery(s), ItemsFit(s)
    PROVE  /\ Aggregate(input, s.items, s.groupBy).outcome \in {"rows", "error"}
           /\ HasRows(Aggregate(input, s.items, s.groupBy))
<1> DEFINE items == s.items
           groupBy == s.groupBy
           groups == Groups(input, groupBy)
           list == [i \in 1..Len(groups) |-> calculateRow(items, groups[i].key, input.columns, groups[i].rows)]
           unknown == groupBy # Unset /\ Index(input.columns, groupBy[2]) = 0
           nameless == \E i \in 1..Len(items) : HasNoName(items[i])
<1>1. items \in Seq(SelectItem) /\ groupBy \in Optionally(Expression)
    BY DEF SelectStatement
<1>2. ASSUME NEW i \in 1..Len(items)
      PROVE  /\ items[i].expression[1] # "literal"
             /\ items[i].expression[1] # "function" => groupBy # Unset
    <2>1. CASE groupBy # Unset
        <3>1. groupBy[1] = "column" /\ (items[i].expression[1] # "function" => items[i].expression = groupBy)
            BY <2>1 DEF ItemsFit
        <3> HIDE DEF items, groupBy
        <3> QED
            BY <2>1, <3>1
    <2>2. CASE groupBy = Unset
        <3>1. HasAggregate(s) /\ ~HasNonAggregate(s)
            BY <2>2 DEF ItemsFit, IsAggregateQuery
        <3>2. items[i].expression[1] = "function"
            BY <3>1 DEF HasNonAggregate
        <3> HIDE DEF items
        <3> QED
            BY <3>2
    <2> QED
        BY <2>1, <2>2
<1>3. ~nameless
    BY <1>2 DEF HasNoName
<1>4. Aggregate(input, items, groupBy) = IF nameless THEN Panic ELSE IF unknown THEN Error ELSE AggregateResult(items, list)
    BY DEF Aggregate
<1>5. CASE unknown
    <2>1. Aggregate(input, items, groupBy) = Error
        <3> HIDE DEF nameless, unknown, list
        <3> QED
            BY <1>3, <1>4, <1>5
    <2> QED
        BY <2>1 DEF Error, HasRows
<1>6. CASE ~unknown
    <2>1. /\ Len(groups) \in Nat
          /\ \A i \in 1..Len(groups) :
                groups[i].rows \in Seq(Wide(Len(input.columns))) /\ (groupBy # Unset => groups[i].key \in AnyValue)
        <3> HIDE DEF groupBy
        <3> QED
            BY <1>1, <1>6, GroupsAre
    <2>2. input.columns \in Seq(STRING)
        BY RelationIs DEF Error
    <2> HIDE DEF groups, items, groupBy
    <2>3. ASSUME NEW i \in 1..Len(groups) PROVE list[i] \in Seq(Outcome)
        <3>1. calculateRow(items, groups[i].key, input.columns, groups[i].rows) \in Seq(Outcome)
            BY <1>1, <1>2, <2>1, <2>2, CalculatedRowIs
        <3> QED
            BY <3>1
    <2>4. list = [i \in 1..Len(groups) |-> list[i]]
        OBVIOUS
    <2> DEFINE S == Seq(Outcome)
    <2>5. \A i \in 1..Len(groups) : list[i] \in S
        BY <2>3
    <2> HIDE DEF list, S
    <2>6. list \in Seq(S)
        BY <2>1, <2>4, <2>5, ListIs
    <2>7. list \in Seq(Seq(Outcome))
        BY <2>6 DEF S
    <2>8. Aggregate(input, items, groupBy) = AggregateResult(items, list)
        <3> HIDE DEF nameless, unknown
        <3> QED
            BY <1>3, <1>4, <1>6
    <2> QED
        BY <2>7, <2>8, AggregateResultIs DEF items, groupBy
<1> QED
    BY <1>5, <1>6

-----------------------------------------------------------------------------
(***************************************************************************)
(* The nodes of a source: those that read tables, up to WHERE, and those   *)
(* behind them.                                                            *)
(***************************************************************************)
ReadNode ==
    {ScanNode(table) : table \in STRING}
    \cup {buildJoin(join) : join \in JoinFromItem}
    \cup {FilterNode(p) : p \in Operation}

LaterNode ==
    {AggregateNode(s.items, s.groupBy) : s \in SelectStatement}
    \cup {OrderNode(orderBy) : orderBy \in Seq(OrderBy)}
    \cup {OffsetNode(n) : n \in Nat}
    \cup {LimitNode(n) : n \in Nat}
    \cup {ProjectionNode(items) : items \in Seq(SelectItem)}

Node == ReadNode \cup LaterNode

LEMMA ErrorIs == Error \in Relation /\ NoRows \in Relation /\ Error.outcome = "error"
<1>1. Error \in Relation
    BY DEF Relation
<1> DEFINE c == <<>>
<1>2. c \in Seq(STRING) /\ c \in Seq(Wide(Len(c)))
    OBVIOUS
<1> HIDE DEF c
<1>3. RowsResult(c, c) \in Relation
    BY <1>2, RelationOf
<1> QED
    BY <1>1, <1>3 DEF NoRows, c, Error

LEMMA ReadIs ==
    ASSUME NEW d \in Database, NEW r \in Relation, NEW x \in ReadNode
    PROVE  Do(d, r, x) \in Relation
<1>1. SUFFICES ASSUME r.outcome = "rows" PROVE ExecuteNode(d, r, x) \in Relation
    BY DEF Do
<1>2. ASSUME NEW table \in STRING, x = ScanNode(table) PROVE ExecuteNode(d, r, x) \in Relation
    <2>1. x.node = "scan"
        BY <1>2 DEF ScanNode
    <2>2. ExecuteNode(d, r, x) = Scan(d, x.table)
        BY <2>1 DEF ExecuteNode
    <2> QED
        BY <2>2, ScanIs
<1>3. ASSUME NEW join \in JoinFromItem, x = buildJoin(join) PROVE ExecuteNode(d, r, x) \in Relation
    <2>1. x.node = "join"
        BY <1>3 DEF buildJoin, NestedLoopJoinNode
    <2>2. ExecuteNode(d, r, x)
          = IF x.swapped THEN NestedLoopJoin(Scan(d, x.table), r, x.predicate, x.outer)
            ELSE NestedLoopJoin(r, Scan(d, x.table), x.predicate, x.outer)
        BY <2>1 DEF ExecuteNode
    <2>3. Scan(d, x.table) \in Relation
        BY ScanIs
    <2>4. /\ NestedLoopJoin(Scan(d, x.table), r, x.predicate, x.outer) \in Relation
          /\ NestedLoopJoin(r, Scan(d, x.table), x.predicate, x.outer) \in Relation
        BY <2>3, JoinedIs
    <2> QED
        BY <2>2, <2>4
<1>4. ASSUME NEW p \in Operation, x = FilterNode(p) PROVE ExecuteNode(d, r, x) \in Relation
    <2>1. x.node = "filter"
        BY <1>4 DEF FilterNode
    <2>2. ExecuteNode(d, r, x) = Filter(r, x.predicate)
        BY <2>1 DEF ExecuteNode
    <2> QED
        BY <1>1, <2>2, WhereIs
<1> QED
    BY <1>2, <1>3, <1>4 DEF ReadNode

LEMMA ReadsAre ==
    ASSUME NEW d \in Database, NEW source \in Seq(ReadNode)
    PROVE  Execute(d, source) \in Relation
<1>1. PICK f : Chain(d, NoRows, source, f) /\ Execute(d, source) = f[Len(source)]
    BY ExecuteIs
<1>2. Len(source) \in Nat /\ \A n \in 1..Len(source) : source[n] \in ReadNode
    OBVIOUS
<1>3. f[0] \in Relation
    BY <1>1, ErrorIs DEF Chain
<1>4. \A n \in 1..Len(source) : f[n - 1] \in Relation => f[n] \in Relation
    BY <1>1, <1>2, ReadIs DEF Chain
<1>5. \A n \in 0..Len(source) : f[n] \in Relation
    BY <1>2, <1>3, <1>4, Stays
<1> QED
    BY <1>1, <1>2, <1>5

\* No panic, and the rows, if any, are a sequence.
Proper(r) == r.outcome \in {"rows", "error"} /\ HasRows(r)

LEMMA RelationIsProper ==
    ASSUME NEW r \in Relation
    PROVE  Proper(r)
<1>1. CASE r = Error
    BY <1>1 DEF Error, Proper, HasRows
<1>2. CASE r.outcome = "rows" /\ r.rows \in Seq(Wide(Len(r.columns)))
    BY <1>2 DEF Proper, HasRows
<1> QED
    BY <1>1, <1>2, RelationIs

LEMMA FilterIsProper ==
    ASSUME NEW d, NEW a \in Seq(Node), Proper(Execute(d, a)), NEW clause \in Optionally(Operation)
    PROVE  Optional(clause, FilterNode) \in Seq(Node) /\ Proper(Execute(d, a \o Optional(clause, FilterNode)))
<1>1. CASE clause = Unset
    <2>1. Optional(clause, FilterNode) = <<>>
        BY <1>1 DEF Optional
    <2>2. a \o <<>> = a /\ <<>> \in Seq(Node)
        BY ConcatEmptySeq, NoneIs
    <2> QED
        BY <2>1, <2>2
<1>2. CASE clause # Unset
    <2> DEFINE x == FilterNode(clause)
               r == Execute(d, a)
    <2>1. clause \in Operation
        BY <1>2 DEF Optionally
    <2>2. x \in Node
        BY <2>1 DEF Node, ReadNode
    <2>3. Optional(clause, FilterNode) = <<x>>
        BY <1>2 DEF Optional
    <2>4. x.node = "filter" /\ x.predicate = clause
        BY DEF FilterNode
    <2> HIDE DEF x
    <2>5. Execute(d, a \o <<x>>) = Do(d, r, x) /\ <<x>> \in Seq(Node)
        BY <2>2, ExecuteOne, OneIs
    <2>6. ExecuteNode(d, r, x) = Filter(r, clause)
        BY <2>4 DEF ExecuteNode
    <2> HIDE DEF r
    <2>7. Proper(r)
        BY DEF r
    <2>8. Proper(Do(d, r, x))
        <3>1. CASE r.outcome = "rows"
            BY <2>6, <2>7, <3>1, FilterHasRows DEF Do, Proper
        <3>2. CASE r.outcome # "rows"
            BY <2>7, <3>2 DEF Do
        <3> QED
            BY <3>1, <3>2
    <2> QED
        BY <2>3, <2>5, <2>8
<1> QED
    BY <1>1, <1>2

OrderNodes(s) == IF s.orderBy # <<>> THEN <<OrderNode(s.orderBy)>> ELSE <<>>

LEMMA OrderIsProper ==
    ASSUME NEW d, NEW a \in Seq(Node), Proper(Execute(d, a)), NEW s, s.orderBy \in Seq(OrderBy)
    PROVE  OrderNodes(s) \in Seq(Node) /\ Proper(Execute(d, a \o OrderNodes(s)))
<1>1. CASE s.orderBy = <<>>
    <2>1. OrderNodes(s) = <<>>
        BY <1>1 DEF OrderNodes
    <2>2. a \o <<>> = a /\ <<>> \in Seq(Node)
        BY ConcatEmptySeq, NoneIs
    <2> QED
        BY <2>1, <2>2
<1>2. CASE s.orderBy # <<>>
    <2> DEFINE x == OrderNode(s.orderBy)
               r == Execute(d, a)
    <2>2. x \in Node
        BY DEF Node, LaterNode
    <2>3. OrderNodes(s) = <<x>>
        BY <1>2 DEF OrderNodes
    <2>4. x.node = "order" /\ x.orderBy = s.orderBy
        BY DEF OrderNode
    <2> HIDE DEF x
    <2>5. Execute(d, a \o <<x>>) = Do(d, r, x) /\ <<x>> \in Seq(Node)
        BY <2>2, ExecuteOne, OneIs
    <2>6. ExecuteNode(d, r, x) = Order(r, s.orderBy)
        BY <2>4 DEF ExecuteNode
    <2> HIDE DEF r
    <2>7. Proper(r)
        BY DEF r
    <2>8. Proper(Do(d, r, x))
        <3>1. CASE r.outcome = "rows"
            BY <2>6, <2>7, <3>1, OrderHasRows DEF Do, Proper
        <3>2. CASE r.outcome # "rows"
            BY <2>7, <3>2 DEF Do
        <3> QED
            BY <3>1, <3>2
    <2> QED
        BY <2>3, <2>5, <2>8
<1> QED
    BY <1>1, <1>2

AggregateNodes(s) == IF IsAggregateQuery(s) THEN <<AggregateNode(s.items, s.groupBy)>> ELSE <<>>

LEMMA AggregateIsProper ==
    ASSUME NEW d \in Database, NEW a \in Seq(ReadNode), NEW s \in SelectStatement, ItemsFit(s)
    PROVE  AggregateNodes(s) \in Seq(Node) /\ Proper(Execute(d, a \o AggregateNodes(s)))
<1>0. Execute(d, a) \in Relation /\ Proper(Execute(d, a))
    BY ReadsAre, RelationIsProper
<1>1. CASE ~IsAggregateQuery(s)
    <2>1. AggregateNodes(s) = <<>>
        BY <1>1 DEF AggregateNodes
    <2>2. a \o <<>> = a /\ <<>> \in Seq(Node)
        BY ConcatEmptySeq, NoneIs
    <2> QED
        BY <1>0, <2>1, <2>2
<1>2. CASE IsAggregateQuery(s)
    <2> DEFINE x == AggregateNode(s.items, s.groupBy)
               r == Execute(d, a)
    <2>1. a \in Seq(Node)
        BY WiderIs DEF Node
    <2>2. x \in Node
        BY DEF Node, LaterNode
    <2>3. AggregateNodes(s) = <<x>>
        BY <1>2 DEF AggregateNodes
    <2>4. x.node = "aggregate" /\ x.items = s.items /\ x.groupBy = s.groupBy
        BY DEF AggregateNode
    <2> HIDE DEF x
    <2>5. Execute(d, a \o <<x>>) = Do(d, r, x) /\ <<x>> \in Seq(Node)
        BY <2>1, <2>2, ExecuteOne, OneIs
    <2>6. ExecuteNode(d, r, x) = Aggregate(r, s.items, s.groupBy)
        BY <2>4 DEF ExecuteNode
    <2>7. r \in Relation /\ Proper(r)
        BY <1>0
    <2> HIDE DEF r
    <2>8. Proper(Do(d, r, x))
        <3>1. CASE r.outcome = "rows"
            BY <1>2, <2>6, <2>7, <3>1, AggregateIs DEF Do, Proper
        <3>2. CASE r.outcome # "rows"
            BY <2>7, <3>2 DEF Do
        <3> QED
            BY <3>1, <3>2
    <2> QED
        BY <2>3, <2>5, <2>8
<1> QED
    BY <1>1, <1>2

LEMMA FromNodesAre ==
    ASSUME NEW from \in FromItem
    PROVE  buildFromItem(from) \in Seq(ReadNode)
<1> DEFINE n == Len(from.joins)
           scan == <<ScanNode(from.table)>>
           f == [i \in 1..n |-> buildJoin(from.joins[i])]
<1>1. from.table \in STRING /\ from.joins \in Seq(JoinFromItem)
    BY DEF FromItem
<1>2. n \in Nat /\ \A i \in 1..n : from.joins[i] \in JoinFromItem
    BY <1>1
<1>3. scan \in Seq(ReadNode)
    <2>1. ScanNode(from.table) \in ReadNode
        BY <1>1 DEF ReadNode
    <2> QED
        BY <2>1, OneIs
<1>4. f = [i \in 1..n |-> f[i]] /\ \A i \in 1..n : f[i] \in ReadNode
    BY <1>2 DEF ReadNode
<1>5. buildFromItem(from) = scan \o f
    BY DEF buildFromItem
<1> HIDE DEF n, scan, f
<1>6. f \in Seq(ReadNode)
    BY <1>2, <1>4, ListIs
<1> QED
    BY <1>3, <1>5, <1>6, JoinIs

LEMMA FilterIsRead ==
    ASSUME NEW clause \in Optionally(Operation)
    PROVE  Optional(clause, FilterNode) \in Seq(ReadNode)
<1>1. CASE clause = Unset
    BY <1>1, NoneIs DEF Optional
<1>2. CASE clause # Unset
    <2>1. FilterNode(clause) \in ReadNode
        BY <1>2 DEF Optionally, ReadNode
    <2> QED
        BY <1>2, <2>1, OneIs DEF Optional
<1> QED
    BY <1>1, <1>2

\* The nodes of a SELECT up to those that pick a page of its rows.
InnerNodes(s) ==
    buildFromItem(s.from) \o Optional(s.where, FilterNode) \o AggregateNodes(s)
    \o Optional(s.having, FilterNode) \o OrderNodes(s)

LEMMA InnerIsProper ==
    ASSUME NEW d \in Database, NEW s \in SelectStatement, ItemsFit(s)
    PROVE  InnerNodes(s) \in Seq(Node) /\ Proper(Execute(d, InnerNodes(s)))
<1> DEFINE from == buildFromItem(s.from)
           where == Optional(s.where, FilterNode)
           read == from \o where
           aggregate == AggregateNodes(s)
           having == Optional(s.having, FilterNode)
           order == OrderNodes(s)
<1>1. /\ s.from \in FromItem /\ s.where \in Optionally(Operation) /\ s.having \in Optionally(Operation)
      /\ s.orderBy \in Seq(OrderBy)
    BY DEF SelectStatement
<1>2. from \in Seq(ReadNode) /\ where \in Seq(ReadNode)
    BY <1>1, FromNodesAre, FilterIsRead
<1>3. InnerNodes(s) = read \o aggregate \o having \o order
    BY DEF InnerNodes
<1> HIDE DEF from, where
<1>4. read \in Seq(ReadNode)
    BY <1>2, JoinIs
<1> HIDE DEF read
<1>5. aggregate \in Seq(Node) /\ Proper(Execute(d, read \o aggregate))
    BY <1>4, AggregateIsProper
<1>6. read \in Seq(Node)
    BY <1>4, WiderIs DEF Node
<1> DEFINE b == read \o aggregate
           c == b \o having
<1> HIDE DEF aggregate
<1>7. b \in Seq(Node)
    BY <1>5, <1>6, JoinIs
<1>8. Proper(Execute(d, b))
    BY <1>5
<1> HIDE DEF b
<1>9. having \in Seq(Node) /\ Proper(Execute(d, c))
    BY <1>1, <1>7, <1>8, FilterIsProper
<1> HIDE DEF having
<1>10. c \in Seq(Node)
    BY <1>7, <1>9, JoinIs
<1> HIDE DEF c
<1>11. order \in Seq(Node) /\ Proper(Execute(d, c \o order))
    BY <1>1, <1>9, <1>10, OrderIsProper
<1> HIDE DEF order
<1>12. c \o order \in Seq(Node)
    BY <1>10, <1>11, JoinIs
<1> QED
    BY <1>3, <1>11, <1>12 DEF b, c

-----------------------------------------------------------------------------
(***************************************************************************)
(* The page that LIMIT and OFFSET pick, and its projection.                *)
(***************************************************************************)
LEMMA CountIsNumber ==
    ASSUME NEW clause \in Optionally(Expression), clause # Unset, IsCount(clause)
    PROVE  CountFrom(clause) \in Nat /\ clause[2].n = CountFrom(clause)
<1>1. ValueFromExpression(clause).kind = "integer" /\ clause \in Expression
    BY DEF IsCount, Optionally
<1>2. clause[1] = "literal"
    BY <1>1 DEF ValueFromExpression, EvaluationError
<1>3. clause[2] \in AnyValue
    <2>1. ASSUME clause \in {"column"} \X STRING PROVE clause[1] = "column"
        BY <2>1
    <2>2. ASSUME clause \in {"function"} \X STRING \X STRING PROVE clause[1] = "function"
        BY <2>2
    <2>3. clause \in {"literal"} \X AnyValue
        BY <1>1, <1>2, <2>1, <2>2 DEF Expression
    <2> QED
        BY <2>3
<1>4. ValueFromExpression(clause) = clause[2]
    BY <1>2 DEF ValueFromExpression
<1> QED
    BY <1>3, <1>4 DEF CountFrom, AnyValue

OffsetNodes(s) == Optional(s.offset, LAMBDA clause : OffsetNode(CountFrom(clause)))

LimitNodes(s) == Optional(s.limit, LAMBDA clause : LimitNode(CountFrom(clause)))

ProjectionNodes(s) == IF s.items # <<>> /\ ~IsAggregateQuery(s) THEN <<ProjectionNode(s.items)>> ELSE <<>>

Skipped(r, s) == IF s.offset # Unset THEN Offset(r, CountFrom(s.offset)) ELSE r

Limited(r, s) == IF s.limit # Unset THEN Limit(r, CountFrom(s.limit)) ELSE r

Shown(r, s) == IF s.items # <<>> /\ ~IsAggregateQuery(s) THEN Projection(r, s.items) ELSE r

LEMMA OffsetGoesOn ==
    ASSUME NEW d, NEW a \in Seq(Node), NEW s \in SelectStatement, CanSelect(s)
    PROVE  /\ OffsetNodes(s) \in Seq(Node)
           /\ Execute(d, a \o OffsetNodes(s)).outcome = "rows" => Execute(d, a).outcome = "rows"
           /\ Execute(d, a).outcome = "rows" => Execute(d, a \o OffsetNodes(s)) = Skipped(Execute(d, a), s)
           /\ Execute(d, a).outcome # "rows" => Execute(d, a \o OffsetNodes(s)) = Execute(d, a)
<1>1. CASE ~(s.offset # Unset)
    <2>1. OffsetNodes(s) = <<>>
        BY <1>1 DEF OffsetNodes, Optional
    <2>2. a \o <<>> = a /\ <<>> \in Seq(Node)
        BY ConcatEmptySeq, NoneIs
    <2>3. Skipped(Execute(d, a), s) = Execute(d, a)
        BY <1>1 DEF Skipped
    <2> QED
        BY <2>1, <2>2, <2>3
<1>2. CASE s.offset # Unset
    <2> DEFINE x == OffsetNode(CountFrom(s.offset))
               r == Execute(d, a)
    <2>1. x \in Node
        <3>1. CountFrom(s.offset) \in Nat
            BY <1>2, CountIsNumber DEF CanSelect, SelectStatement
        <3> QED
            BY <3>1 DEF Node, LaterNode
    <2>2. OffsetNodes(s) = <<x>>
        BY <1>2 DEF OffsetNodes, Optional
    <2>3. x.node = "offset" /\ x.offset = CountFrom(s.offset)
        BY DEF OffsetNode
    <2> HIDE DEF x
    <2>4. Execute(d, a \o <<x>>) = Do(d, r, x) /\ <<x>> \in Seq(Node)
        BY <2>1, ExecuteOne, OneIs
    <2>5. ExecuteNode(d, r, x) = Skipped(r, s)
        BY <1>2, <2>3 DEF ExecuteNode, Skipped
    <2> HIDE DEF r
    <2>6. Do(d, r, x) = IF r.outcome = "rows" THEN Skipped(r, s) ELSE r
        BY <2>5 DEF Do
    <2>7. /\ <<x>> \in Seq(Node)
          /\ Execute(d, a \o <<x>>).outcome = "rows" => r.outcome = "rows"
          /\ r.outcome = "rows" => Execute(d, a \o <<x>>) = Skipped(r, s)
          /\ r.outcome # "rows" => Execute(d, a \o <<x>>) = r
        BY <2>4, <2>6
    <2> QED
        BY <2>2, <2>7 DEF r
<1> QED
    BY <1>1, <1>2

LEMMA LimitGoesOn ==
    ASSUME NEW d, NEW a \in Seq(Node), NEW s \in SelectStatement, CanSelect(s)
    PROVE  /\ LimitNodes(s) \in Seq(Node)
           /\ Execute(d, a \o LimitNodes(s)).outcome = "rows" => Execute(d, a).outcome = "rows"
           /\ Execute(d, a).outcome = "rows" => Execute(d, a \o LimitNodes(s)) = Limited(Execute(d, a), s)
           /\ Execute(d, a).outcome # "rows" => Execute(d, a \o LimitNodes(s)) = Execute(d, a)
<1>1. CASE ~(s.limit # Unset)
    <2>1. LimitNodes(s) = <<>>
        BY <1>1 DEF LimitNodes, Optional
    <2>2. a \o <<>> = a /\ <<>> \in Seq(Node)
        BY ConcatEmptySeq, NoneIs
    <2>3. Limited(Execute(d, a), s) = Execute(d, a)
        BY <1>1 DEF Limited
    <2> QED
        BY <2>1, <2>2, <2>3
<1>2. CASE s.limit # Unset
    <2> DEFINE x == LimitNode(CountFrom(s.limit))
               r == Execute(d, a)
    <2>1. x \in Node
        <3>1. CountFrom(s.limit) \in Nat
            BY <1>2, CountIsNumber DEF CanSelect, SelectStatement
        <3> QED
            BY <3>1 DEF Node, LaterNode
    <2>2. LimitNodes(s) = <<x>>
        BY <1>2 DEF LimitNodes, Optional
    <2>3. x.node = "limit" /\ x.limit = CountFrom(s.limit)
        BY DEF LimitNode
    <2> HIDE DEF x
    <2>4. Execute(d, a \o <<x>>) = Do(d, r, x) /\ <<x>> \in Seq(Node)
        BY <2>1, ExecuteOne, OneIs
    <2>5. ExecuteNode(d, r, x) = Limited(r, s)
        BY <1>2, <2>3 DEF ExecuteNode, Limited
    <2> HIDE DEF r
    <2>6. Do(d, r, x) = IF r.outcome = "rows" THEN Limited(r, s) ELSE r
        BY <2>5 DEF Do
    <2>7. /\ <<x>> \in Seq(Node)
          /\ Execute(d, a \o <<x>>).outcome = "rows" => r.outcome = "rows"
          /\ r.outcome = "rows" => Execute(d, a \o <<x>>) = Limited(r, s)
          /\ r.outcome # "rows" => Execute(d, a \o <<x>>) = r
        BY <2>4, <2>6
    <2> QED
        BY <2>2, <2>7 DEF r
<1> QED
    BY <1>1, <1>2

LEMMA ProjectionGoesOn ==
    ASSUME NEW d, NEW a \in Seq(Node), NEW s \in SelectStatement, CanSelect(s)
    PROVE  /\ ProjectionNodes(s) \in Seq(Node)
           /\ Execute(d, a \o ProjectionNodes(s)).outcome = "rows" => Execute(d, a).outcome = "rows"
           /\ Execute(d, a).outcome = "rows" => Execute(d, a \o ProjectionNodes(s)) = Shown(Execute(d, a), s)
           /\ Execute(d, a).outcome # "rows" => Execute(d, a \o ProjectionNodes(s)) = Execute(d, a)
<1>1. CASE ~(s.items # <<>> /\ ~IsAggregateQuery(s))
    <2>1. ProjectionNodes(s) = <<>>
        BY <1>1 DEF ProjectionNodes, Optional
    <2>2. a \o <<>> = a /\ <<>> \in Seq(Node)
        BY ConcatEmptySeq, NoneIs
    <2>3. Shown(Execute(d, a), s) = Execute(d, a)
        BY <1>1 DEF Shown
    <2> QED
        BY <2>1, <2>2, <2>3
<1>2. CASE s.items # <<>> /\ ~IsAggregateQuery(s)
    <2> DEFINE x == ProjectionNode(s.items)
               r == Execute(d, a)
    <2>1. x \in Node
        <3>1. s.items \in Seq(SelectItem)
            BY DEF SelectStatement
        <3> QED
            BY <3>1 DEF Node, LaterNode
    <2>2. ProjectionNodes(s) = <<x>>
        BY <1>2 DEF ProjectionNodes, Optional
    <2>3. x.node = "projection" /\ x.items = s.items
        BY DEF ProjectionNode
    <2> HIDE DEF x
    <2>4. Execute(d, a \o <<x>>) = Do(d, r, x) /\ <<x>> \in Seq(Node)
        BY <2>1, ExecuteOne, OneIs
    <2>5. ExecuteNode(d, r, x) = Shown(r, s)
        BY <1>2, <2>3 DEF ExecuteNode, Shown
    <2> HIDE DEF r
    <2>6. Do(d, r, x) = IF r.outcome = "rows" THEN Shown(r, s) ELSE r
        BY <2>5 DEF Do
    <2>7. /\ <<x>> \in Seq(Node)
          /\ Execute(d, a \o <<x>>).outcome = "rows" => r.outcome = "rows"
          /\ r.outcome = "rows" => Execute(d, a \o <<x>>) = Shown(r, s)
          /\ r.outcome # "rows" => Execute(d, a \o <<x>>) = r
        BY <2>4, <2>6
    <2> QED
        BY <2>2, <2>7 DEF r
<1> QED
    BY <1>1, <1>2

Associates(a, b, c) == a \o (b \o c) = (a \o b) \o c

LEMMA Associative ==
    ASSUME NEW S, NEW a \in Seq(S), NEW b \in Seq(S), NEW c \in Seq(S)
    PROVE  Associates(a, b, c)
<1>1. (a \o b) \o c = a \o (b \o c)
    BY ConcatAssociative
<1> QED
    BY <1>1 DEF Associates

AllAssociate(a, b, c, d, e) == a \o ((b \o (c \o d)) \o e) = (((a \o b) \o c) \o d) \o e

LEMMA AssociateAll ==
    ASSUME NEW S, NEW a \in Seq(S), NEW b \in Seq(S), NEW c \in Seq(S), NEW d \in Seq(S), NEW e \in Seq(S)
    PROVE  AllAssociate(a, b, c, d, e)
<1>1. c \o d \in Seq(S) /\ a \o b \in Seq(S)
    BY JoinIs
<1>2. b \o (c \o d) \in Seq(S)
    BY <1>1, JoinIs
<1>3. Associates(a \o b, c, d) /\ Associates(a, b, c \o d) /\ Associates(a, b \o (c \o d), e)
    BY <1>1, <1>2, Associative
<1> QED
    BY <1>3, Zenon DEF Associates, AllAssociate

LEMMA SelectNodesAre ==
    ASSUME NEW s \in SelectStatement, CanSelect(s), InnerNodes(s) \in Seq(Node)
    PROVE  SelectNodes(s) = ((InnerNodes(s) \o OffsetNodes(s)) \o LimitNodes(s)) \o ProjectionNodes(s)
<1> DEFINE from == buildFromItem(s.from)
           where == Optional(s.where, FilterNode)
           aggregate == AggregateNodes(s)
           having == Optional(s.having, FilterNode)
           order == OrderNodes(s)
           offset == OffsetNodes(s)
           limit == LimitNodes(s)
           projection == ProjectionNodes(s)
           a == from \o where \o aggregate \o having
<1>1. SelectNodes(s) = a \o ((order \o (offset \o limit)) \o projection)
    BY DEF SelectNodes, ResultNodes, PageNodes, AggregateNodes, OrderNodes, OffsetNodes, LimitNodes, ProjectionNodes
<1>2. InnerNodes(s) = a \o order
    BY DEF InnerNodes
<1>3. a \in Seq(Node)
    <2>1. s.from \in FromItem /\ s.where \in Optionally(Operation) /\ s.having \in Optionally(Operation)
        BY DEF SelectStatement
    <2>2. from \in Seq(ReadNode) /\ where \in Seq(ReadNode) /\ having \in Seq(ReadNode)
        BY <2>1, FromNodesAre, FilterIsRead
    <2>3. ReadNode \subseteq Node
        BY DEF Node
    <2>4. aggregate \in Seq(Node)
        <3>1. CASE IsAggregateQuery(s)
            <4>1. AggregateNode(s.items, s.groupBy) \in Node
                BY DEF Node, LaterNode
            <4> QED
                BY <3>1, <4>1, OneIs DEF AggregateNodes
        <3>2. CASE ~IsAggregateQuery(s)
            BY <3>2, NoneIs DEF AggregateNodes
        <3> QED
            BY <3>1, <3>2
    <2> HIDE DEF from, where, aggregate, having
    <2>5. from \in Seq(Node) /\ where \in Seq(Node) /\ having \in Seq(Node)
        BY <2>2, <2>3, WiderIs
    <2>6. from \o where \in Seq(Node)
        BY <2>5, JoinIs
    <2>7. from \o where \o aggregate \in Seq(Node)
        BY <2>4, <2>6, JoinIs
    <2> QED
        BY <2>5, <2>7, JoinIs
<1>4. order \in Seq(Node)
    <2>1. CASE s.orderBy = <<>>
        BY <2>1, NoneIs DEF OrderNodes
    <2>2. CASE s.orderBy # <<>>
        <3>1. OrderNode(s.orderBy) \in Node
            BY DEF Node, LaterNode, SelectStatement
        <3> QED
            BY <2>2, <3>1, OneIs DEF OrderNodes
    <2> QED
        BY <2>1, <2>2
<1>5. offset \in Seq(Node) /\ limit \in Seq(Node) /\ projection \in Seq(Node)
    BY OffsetGoesOn, LimitGoesOn, ProjectionGoesOn
<1> HIDE DEF a, order, offset, limit, projection
<1>6. AllAssociate(a, order, offset, limit, projection)
    BY <1>3, <1>4, <1>5, AssociateAll
<1>7. a \o ((order \o (offset \o limit)) \o projection) = (((a \o order) \o offset) \o limit) \o projection
    BY <1>6 DEF AllAssociate
<1> QED
    BY <1>1, <1>2, <1>7, Zenon DEF offset, limit, projection

\* What a SELECT returns, from the rows there are before OFFSET.
LEMMA SelectIsPage ==
    ASSUME NEW d \in Database, NEW s \in SelectStatement, CanSelect(s)
    PROVE  /\ Proper(Execute(d, InnerNodes(s)))
           /\ Execute(d, InnerNodes(s)).outcome = "rows" =>
                Execute(d, SelectNodes(s)) = Shown(Limited(Skipped(Execute(d, InnerNodes(s)), s), s), s)
           /\ Execute(d, InnerNodes(s)).outcome # "rows" =>
                Execute(d, SelectNodes(s)) = Execute(d, InnerNodes(s))
<1> DEFINE a == InnerNodes(s)
           b == a \o OffsetNodes(s)
           c == b \o LimitNodes(s)
           r == Execute(d, a)
<1>1. a \in Seq(Node) /\ Proper(r)
    BY InnerIsProper DEF CanSelect
<1>2. Execute(d, SelectNodes(s)) = Execute(d, c \o ProjectionNodes(s))
    BY <1>1, SelectNodesAre
<1> HIDE DEF a
<1>3. /\ OffsetNodes(s) \in Seq(Node)
      /\ r.outcome = "rows" => Execute(d, b) = Skipped(r, s)
      /\ r.outcome # "rows" => Execute(d, b) = r
    BY <1>1, OffsetGoesOn
<1>4. b \in Seq(Node)
    BY <1>1, <1>3, JoinIs
<1> HIDE DEF b, r
<1>5. /\ LimitNodes(s) \in Seq(Node)
      /\ Execute(d, b).outcome = "rows" => Execute(d, c) = Limited(Execute(d, b), s)
      /\ Execute(d, b).outcome # "rows" => Execute(d, c) = Execute(d, b)
    BY <1>4, LimitGoesOn
<1>6. c \in Seq(Node)
    BY <1>4, <1>5, JoinIs
<1> HIDE DEF c
<1>7. /\ Execute(d, c).outcome = "rows" => Execute(d, c \o ProjectionNodes(s)) = Shown(Execute(d, c), s)
      /\ Execute(d, c).outcome # "rows" => Execute(d, c \o ProjectionNodes(s)) = Execute(d, c)
    BY <1>6, ProjectionGoesOn
<1>8. /\ r.outcome = "rows" => Skipped(r, s).outcome = "rows"
      /\ Skipped(r, s).outcome = "rows" => Limited(Skipped(r, s), s).outcome = "rows"
    BY DEF Skipped, Limited, Offset, Limit, RowsResult
<1>9. r.outcome = "rows" => Execute(d, SelectNodes(s)) = Shown(Limited(Skipped(r, s), s), s)
    BY <1>2, <1>3, <1>5, <1>7, <1>8
<1>10. r.outcome # "rows" => Execute(d, SelectNodes(s)) = r
    BY <1>2, <1>3, <1>5, <1>7
<1> QED
    BY <1>1, <1>9, <1>10 DEF r, a

LEMMA MinIs ==
    ASSUME NEW a \in Int, NEW b \in Int
    PROVE  Min({a, b}) = IF a <= b THEN a ELSE b
<1>1. \E x \in {a, b} : \A y \in {a, b} : x <= y
    OBVIOUS
<1>2. Min({a, b}) \in {a, b} /\ \A y \in {a, b} : Min({a, b}) <= y
    BY <1>1 DEF Min
<1> QED
    BY <1>2

\* The rows of p are n rows of r, from the one behind row k on.
IsPage(p, r, k, n) ==
    /\ p.outcome = "rows" /\ p.columns = r.columns
    /\ \E S : p.rows \in Seq(S)
    /\ Len(p.rows) = n
    /\ \A i \in 1..n : p.rows[i] = r.rows[k + i]

Lesser(a, b) == IF a <= b THEN a ELSE b

FirstOf(s) == IF s.offset # Unset THEN CountFrom(s.offset) ELSE 0

LEMMA SkippedIs ==
    ASSUME NEW S, NEW r, r.outcome = "rows", r.rows \in Seq(S), NEW s, FirstOf(s) \in Nat
    PROVE  /\ IsPage(Skipped(r, s), r, Lesser(FirstOf(s), Len(r.rows)), Len(r.rows) - Lesser(FirstOf(s), Len(r.rows)))
           /\ Skipped(r, s).rows \in Seq(S)
<1> DEFINE rows == r.rows
           size == Len(rows)
           k == Lesser(FirstOf(s), size)
           p == Skipped(r, s)
<1>1. size \in Nat /\ rows \in Seq(S)
    OBVIOUS
<1>2. k \in 0..size
    BY <1>1 DEF Lesser
<1>3. CASE s.offset = Unset
    <2>1. k = 0
        BY <1>1, <1>3 DEF Lesser, FirstOf
    <2>2. p = r
        BY <1>3 DEF Skipped
    <2>3. Len(rows) = size - k /\ \A i \in 1..(size - k) : rows[i] = rows[k + i]
        BY <1>1, <2>1
    <2> QED
        BY <2>2, <2>3 DEF IsPage
<1>4. CASE s.offset # Unset
    <2> DEFINE n == CountFrom(s.offset)
               cut == SubSeq(rows, 1 + Min({n, size}), size)
    <2>1. p = RowsResult(r.columns, cut)
        BY <1>4 DEF Skipped, Offset
    <2>2. n \in Nat /\ FirstOf(s) = n
        BY <1>4 DEF FirstOf
    <2>3. 1 + Min({n, size}) = k + 1
        BY <1>1, <2>2, MinIs DEF Lesser
    <2> HIDE DEF rows, size, k
    <2>4. cut = SubSeq(rows, k + 1, size)
        BY <2>3
    <2> HIDE DEF cut
    <2>5. cut \in Seq(S) /\ Len(cut) = size - k /\ \A i \in 1..(size - k) : cut[i] = rows[k + i]
        <3>1. size = Len(rows)
            BY DEF size
        <3> QED
            BY <1>1, <1>2, <2>4, <3>1
    <2>6. p.outcome = "rows" /\ p.columns = r.columns /\ p.rows = cut
        BY <2>1 DEF RowsResult
    <2> HIDE DEF p
    <2>7. IsPage(p, r, k, size - k) /\ p.rows \in Seq(S)
        BY <2>5, <2>6 DEF IsPage, rows
    <2> QED
        BY <2>7 DEF p, k, size, rows
<1> QED
    BY <1>3, <1>4

LEMMA LimitedIs ==
    ASSUME NEW S, NEW r, r.outcome = "rows", r.rows \in Seq(S), NEW s, s.limit # Unset => CountFrom(s.limit) \in Nat
    PROVE  IsPage(Limited(r, s), r, 0, IF s.limit = Unset THEN Len(r.rows) ELSE Lesser(CountFrom(s.limit), Len(r.rows)))
<1> DEFINE rows == r.rows
           size == Len(rows)
           p == Limited(r, s)
<1>1. size \in Nat /\ rows \in Seq(S)
    OBVIOUS
<1>3. CASE s.limit = Unset
    <2>2. p = r
        BY <1>3 DEF Limited
    <2>3. \A i \in 1..size : rows[i] = rows[0 + i]
        BY <1>1
    <2> QED
        BY <1>3, <2>2, <2>3 DEF IsPage
<1>4. CASE s.limit # Unset
    <2> DEFINE n == CountFrom(s.limit)
               k == Lesser(n, size)
               cut == SubSeq(rows, 1, Min({n, size}))
    <2>1. p = RowsResult(r.columns, cut)
        BY <1>4 DEF Limited, Limit
    <2>2. n \in Nat
        BY <1>4
    <2>3. Min({n, size}) = k /\ k \in 0..size
        BY <1>1, <2>2, MinIs DEF Lesser
    <2> HIDE DEF rows, size, k
    <2>4. cut = SubSeq(rows, 1, k)
        BY <2>3
    <2> HIDE DEF cut
    <2>5. cut \in Seq(S) /\ Len(cut) = k /\ \A i \in 1..k : cut[i] = rows[0 + i]
        <3>1. size = Len(rows)
            BY DEF size
        <3> QED
            BY <1>1, <2>3, <2>4, <3>1
    <2>6. p.outcome = "rows" /\ p.columns = r.columns /\ p.rows = cut
        BY <2>1 DEF RowsResult
    <2> HIDE DEF p
    <2>7. IsPage(p, r, 0, k)
        BY <2>5, <2>6 DEF IsPage, rows
    <2> QED
        BY <1>4, <2>7 DEF p, k, size, rows
<1> QED
    BY <1>3, <1>4

\* The projection works row by row.
LEMMA ShownIs ==
    ASSUME NEW S, NEW r, r.outcome = "rows", r.rows \in Seq(S), NEW k \in Nat, NEW n \in Nat, k + n <= Len(r.rows),
           NEW p, IsPage(p, r, k, n), NEW s, Shown(p, s).outcome = "rows"
    PROVE  /\ Len(Shown(p, s).rows) = n /\ Len(Shown(r, s).rows) = Len(r.rows)
           /\ \A i \in 1..n : Shown(p, s).rows[i] = Shown(r, s).rows[k + i]
<1>1. /\ p.outcome = "rows" /\ p.columns = r.columns /\ Len(p.rows) = n
      /\ \A i \in 1..n : p.rows[i] = r.rows[k + i]
    BY DEF IsPage
<1>2. CASE ~(s.items # <<>> /\ ~IsAggregateQuery(s))
    BY <1>1, <1>2 DEF Shown
<1>3. CASE s.items # <<>> /\ ~IsAggregateQuery(s)
    <2> DEFINE items == s.items
               columns == r.columns
               name(item) == AliasOr(item, IF item.expression[1] = "column" THEN item.expression[2] ELSE "?column?")
               fails(item) == IF item.expression[1] = "column" THEN Index(columns, item.expression[2]) = 0
                              ELSE ValueFromExpression(item.expression) = EvaluationError
               value(item, row) == IF item.expression[1] = "column" THEN row[Index(columns, item.expression[2])]
                                   ELSE ValueFromExpression(item.expression)
               names == [i \in 1..Len(items) |-> name(items[i])]
               shown(row) == [i \in 1..Len(items) |-> value(items[i], row)]
               some == \E i \in 1..Len(items) : fails(items[i])
               mine == [x \in 1..Len(p.rows) |-> shown(p.rows[x])]
               all == [x \in 1..Len(r.rows) |-> shown(r.rows[x])]
    <2>1. Shown(p, s) = IF some THEN Error ELSE RowsResult(names, mine)
        BY <1>1, <1>3 DEF Shown, Projection
    <2>2. Shown(r, s) = IF some THEN Error ELSE RowsResult(names, all)
        BY <1>3 DEF Shown, Projection
    <2> HIDE DEF shown, some, names
    <2>3. ~some
        BY <2>1 DEF Error
    <2>4. Shown(p, s).rows = mine /\ Shown(r, s).rows = all
        BY <2>1, <2>2, <2>3 DEF RowsResult
    <2>5. Len(r.rows) \in Nat
        OBVIOUS
    <2>6. Len(mine) = n /\ Len(all) = Len(r.rows)
        BY <1>1, <2>5
    <2>7. ASSUME NEW i \in 1..n PROVE mine[i] = all[k + i]
        <3>1. k + i \in 1..Len(r.rows)
            BY <2>5
        <3>2. mine[i] = shown(p.rows[i]) /\ all[k + i] = shown(r.rows[k + i])
            BY <1>1, <3>1
        <3> HIDE DEF mine, all
        <3> QED
            BY <1>1, <3>2
    <2> HIDE DEF mine, all
    <2> QED
        BY <2>4, <2>6, <2>7
<1> QED
    BY <1>2, <1>3

\* A SELECT without its LIMIT and OFFSET.
Unpaged(s) == [s EXCEPT !.limit = Unset, !.offset = Unset]

LEMMA UnpagedIs ==
    ASSUME NEW s \in SelectStatement, CanSelect(s)
    PROVE  /\ Unpaged(s) \in SelectStatement /\ CanSelect(Unpaged(s))
           /\ Unpaged(s).limit = Unset /\ Unpaged(s).offset = Unset
           /\ InnerNodes(Unpaged(s)) = InnerNodes(s)
           /\ \A r : Shown(r, Unpaged(s)) = Shown(r, s)
<1> DEFINE t == Unpaged(s)
<1>1. /\ t.op = s.op /\ t.items = s.items /\ t.from = s.from /\ t.where = s.where /\ t.groupBy = s.groupBy
      /\ t.having = s.having /\ t.orderBy = s.orderBy /\ t.limit = Unset /\ t.offset = Unset
    BY DEF Unpaged, SelectStatement
<1>2. t \in SelectStatement
    <2>1. Unset \in Optionally(Expression)
        BY DEF Optionally
    <2> QED
        BY <2>1 DEF Unpaged, SelectStatement
<1> HIDE DEF t
<1>3. /\ HasAggregate(t) <=> HasAggregate(s)
      /\ HasNonAggregate(t) <=> HasNonAggregate(s)
    BY <1>1 DEF HasAggregate, HasNonAggregate
<1>4. IsAggregateQuery(t) <=> IsAggregateQuery(s)
    BY <1>1, <1>3 DEF IsAggregateQuery
<1>5. ItemsFit(t)
    BY <1>1, <1>3 DEF ItemsFit, CanSelect
<1>6. CanSelect(t)
    BY <1>1, <1>5 DEF CanSelect, IsCount
<1>7. AggregateNodes(t) = AggregateNodes(s)
    BY <1>1, <1>4 DEF AggregateNodes
<1>8. OrderNodes(t) = OrderNodes(s)
    BY <1>1 DEF OrderNodes
<1>9. InnerNodes(t) = InnerNodes(s)
    BY <1>1, <1>7, <1>8 DEF InnerNodes
<1>10. \A r : Shown(r, t) = Shown(r, s)
    BY <1>1, <1>4 DEF Shown
<1> QED
    BY <1>1, <1>2, <1>6, <1>9, <1>10 DEF t

\* The rows between first and the limit.
Window(s, size) ==
    {i \in 1..size : i > FirstOf(s) /\ (s.limit # Unset => i <= FirstOf(s) + CountFrom(s.limit))}

LEMMA PageIsWindow ==
    ASSUME NEW d \in Database, NEW s \in SelectStatement, CanSelect(s), Execute(d, SelectNodes(s)).outcome = "rows"
    PROVE  LET rows == Execute(d, SelectNodes(s)).rows
               all == Execute(d, SelectNodes(Unpaged(s))).rows
           IN  /\ Len(rows) = Cardinality(Window(s, Len(all)))
               /\ \A i \in 1..Len(rows) : rows[i] = all[FirstOf(s) + i]
<1> DEFINE t == Unpaged(s)
           r == Execute(d, InnerNodes(s))
           result0 == Execute(d, SelectNodes(s))
           all0 == Execute(d, SelectNodes(t))
           first == FirstOf(s)
           size == Len(r.rows)
           k == Lesser(first, size)
           skipped == Skipped(r, s)
           left == size - k
           n == IF s.limit = Unset THEN left ELSE Lesser(CountFrom(s.limit), left)
           p == Limited(skipped, s)
<1>1. /\ Proper(r)
      /\ r.outcome = "rows" => result0 = Shown(Limited(Skipped(r, s), s), s)
      /\ r.outcome # "rows" => result0 = r
    BY SelectIsPage
<1>2. r.outcome = "rows"
    BY <1>1
<1>3. result0 = Shown(p, s)
    BY <1>1, <1>2
<1>4. PICK S : r.rows \in Seq(S)
    BY <1>1, <1>2 DEF Proper, HasRows
<1>5. all0 = Shown(r, s)
    <2>1. /\ t \in SelectStatement /\ CanSelect(t) /\ t.limit = Unset /\ t.offset = Unset
          /\ InnerNodes(t) = InnerNodes(s) /\ \A x : Shown(x, t) = Shown(x, s)
        BY UnpagedIs
    <2> HIDE DEF t, r
    <2>2. all0 = Shown(Limited(Skipped(r, t), t), t)
        BY <1>2, <2>1, SelectIsPage DEF r
    <2>3. Skipped(r, t) = r /\ Limited(r, t) = r
        BY <2>1 DEF Skipped, Limited
    <2> QED
        BY <2>1, <2>2, <2>3
<1>6. /\ s.offset \in Optionally(Expression) /\ s.limit \in Optionally(Expression)
      /\ IsCount(s.offset) /\ IsCount(s.limit)
    BY DEF CanSelect, SelectStatement
<1>7. first \in Nat /\ (s.limit # Unset => CountFrom(s.limit) \in Nat)
    BY <1>6, CountIsNumber DEF FirstOf
<1>8. size \in Nat /\ k \in 0..size /\ left \in Nat /\ k + left = size
    BY <1>4, <1>7 DEF Lesser
<1> HIDE DEF result0, all0, r
<1>9. IsPage(skipped, r, k, left) /\ skipped.rows \in Seq(S)
    <2> HIDE DEF k, left
    <2>1. /\ IsPage(Skipped(r, s), r, Lesser(FirstOf(s), Len(r.rows)), Len(r.rows) - Lesser(FirstOf(s), Len(r.rows)))
          /\ Skipped(r, s).rows \in Seq(S)
        BY <1>2, <1>4, <1>7, SkippedIs
    <2> QED
        BY <2>1 DEF k, left
<1>10. skipped.outcome = "rows" /\ Len(skipped.rows) = left
    BY <1>9 DEF IsPage
<1> HIDE DEF skipped
<1>11. IsPage(p, skipped, 0, n)
    <2>1. IsPage(p, skipped, 0, IF s.limit = Unset THEN Len(skipped.rows) ELSE Lesser(CountFrom(s.limit), Len(skipped.rows)))
        <3> HIDE DEF left
        <3> QED
            BY <1>7, <1>9, <1>10, LimitedIs
    <2> QED
        BY <1>10, <2>1
<1> HIDE DEF p, first, size
<1>12. n \in 0..left
    BY <1>7, <1>8 DEF Lesser
<1> HIDE DEF k, left, n
<1>13. IsPage(p, r, k, n)
    <2>1. /\ p.outcome = "rows" /\ p.columns = skipped.columns /\ (\E T : p.rows \in Seq(T)) /\ Len(p.rows) = n
          /\ \A i \in 1..n : p.rows[i] = skipped.rows[0 + i]
        BY <1>11 DEF IsPage
    <2>2. skipped.columns = r.columns /\ \A i \in 1..left : skipped.rows[i] = r.rows[k + i]
        BY <1>9 DEF IsPage
    <2>3. \A i \in 1..n : i \in 1..left /\ 0 + i = i
        BY <1>8, <1>12
    <2>4. \A i \in 1..n : p.rows[i] = r.rows[k + i]
        BY <2>1, <2>2, <2>3
    <2> QED
        BY <2>1, <2>2, <2>4 DEF IsPage
<1>14. /\ Len(result0.rows) = n /\ Len(all0.rows) = size
       /\ \A i \in 1..n : result0.rows[i] = all0.rows[k + i]
    <2>1. k \in Nat /\ n \in Nat /\ k + n <= Len(r.rows)
        BY <1>8, <1>12 DEF size
    <2>2. Shown(p, s).outcome = "rows"
        BY <1>3 DEF result0
    <2>3. /\ Len(Shown(p, s).rows) = n /\ Len(Shown(r, s).rows) = Len(r.rows)
          /\ \A i \in 1..n : Shown(p, s).rows[i] = Shown(r, s).rows[k + i]
        BY <1>2, <1>4, <1>13, <2>1, <2>2, ShownIs
    <2> QED
        BY <1>3, <1>5, <2>3 DEF size
<1> DEFINE limit == CountFrom(s.limit)
           last == IF s.limit = Unset THEN size ELSE Lesser(first + limit, size)
<1>15. Window(s, size) = (first + 1)..last
    <2>1. \A i \in Int : i \in Window(s, size) <=> i \in (first + 1)..last
        BY <1>7, <1>8 DEF Window, first, Lesser
    <2>2. \A i \in Window(s, size) : i \in Int
        BY <1>8 DEF Window
    <2>3. \A i \in (first + 1)..last : i \in Int
        BY <1>7, <1>8 DEF Lesser
    <2> HIDE DEF last
    <2> QED
        BY <2>1, <2>2, <2>3
<1>16. last \in Int /\ n = IF first + 1 > last THEN 0 ELSE last - (first + 1) + 1
    BY <1>7, <1>8 DEF n, left, k, Lesser
<1>17. Cardinality(Window(s, size)) = n
    <2> HIDE DEF last
    <2> QED
        BY <1>7, <1>15, <1>16, FS_Interval
<1>18. \A i \in 1..n : k + i = first + i
    BY <1>7, <1>8 DEF n, left, k, Lesser
<1>19. \A i \in 1..n : result0.rows[i] = all0.rows[first + i]
    BY <1>14, <1>18
<1> QED
    BY <1>14, <1>17, <1>19 DEF result0, all0, t, first

-----------------------------------------------------------------------------
(***************************************************************************)
(* The inductive invariant: what each stage has was made from what the     *)
(* stage before it had.                                                    *)
(***************************************************************************)
Parsed == Parse(text).ok /\ tree = Parse(text).node

Planned == Parsed /\ plan = Build(tree) /\ plan # PlanError

Ran ==
    /\ Planned
    /\ plan.op \in {"select", "update", "delete"}
    /\ database \in Database
    /\ result = Execute(database, plan.source)

IndInv ==
    /\ statement \in Statement
    /\ text \in {Tokens(statement)} \cup CutShort(statement)
    /\ stage \in {"text", "tree", "plan", "done", "failed"}
    /\ stage = "text" => tree = Unset
    /\ stage \in {"text", "tree", "plan"} => result = Unset
    /\ tree # Unset => Parsed
    /\ stage = "tree" => Parsed
    /\ stage = "plan" => Planned
    /\ stage = "done" => Ran /\ result.outcome = "rows"
    /\ result # Unset => Ran

LEMMA IndInvHolds == Spec => []IndInv
<1>1. Init => IndInv
    BY DEF Init, IndInv
<1>2. IndInv /\ [Next]_vars => IndInv'
    <2> SUFFICES ASSUME IndInv, [Next]_vars PROVE IndInv'
        OBVIOUS
    <2>1. CASE ParseStatement
        <3>1. /\ stage = "text" /\ UNCHANGED <<statement, text, plan, result, database>> /\ result = Unset /\ tree = Unset
              /\ \/ Parse(text).ok /\ stage' = "tree" /\ tree' = Parse(text).node
                 \/ stage' = "failed" /\ UNCHANGED tree
            BY <2>1 DEF ParseStatement, IndInv
        <3>2. CASE Parse(text).ok /\ stage' = "tree" /\ tree' = Parse(text).node
            <4>1. Parsed'
                BY <3>1, <3>2 DEF Parsed
            <4> QED
                BY <3>1, <3>2, <4>1 DEF IndInv
        <3>3. CASE stage' = "failed" /\ UNCHANGED tree
            BY <3>1, <3>3 DEF IndInv
        <3> QED
            BY <3>1, <3>2, <3>3
    <2>2. CASE BuildPlan
        <3>1. /\ stage = "tree" /\ UNCHANGED <<statement, text, tree, result, database>> /\ result = Unset /\ Parsed
              /\ \/ Build(tree) # PlanError /\ stage' = "plan" /\ plan' = Build(tree)
                 \/ stage' = "failed" /\ UNCHANGED plan
            BY <2>2 DEF BuildPlan, IndInv
        <3>2. Parsed'
            BY <3>1 DEF Parsed
        <3>3. CASE Build(tree) # PlanError /\ stage' = "plan" /\ plan' = Build(tree)
            <4>1. Planned'
                BY <3>1, <3>2, <3>3 DEF Planned
            <4> QED
                BY <3>1, <3>2, <3>3, <4>1 DEF IndInv
        <3>4. CASE stage' = "failed" /\ UNCHANGED plan
            BY <3>1, <3>2, <3>4 DEF IndInv
        <3> QED
            BY <3>1, <3>3, <3>4
    <2>3. ASSUME NEW snapshot \in Database, Run(snapshot) PROVE IndInv'
        <3>1. /\ stage = "plan" /\ UNCHANGED <<statement, text, tree, plan>> /\ Planned
              /\ plan.op \in {"select", "update", "delete"} /\ database' = snapshot
              /\ result' = Execute(snapshot, plan.source)
              /\ \/ stage' = "done" /\ result'.outcome = "rows"
                 \/ stage' = "failed"
            BY <2>3 DEF Run, IndInv
        <3>2. Parsed' /\ Planned'
            BY <3>1 DEF Parsed, Planned
        <3>3. Ran'
            BY <3>1, <3>2 DEF Ran
        <3> QED
            BY <3>1, <3>2, <3>3 DEF IndInv
    <2>4. CASE UNCHANGED vars
        <3>1. UNCHANGED <<statement, text, stage, tree, plan, result, database>>
            BY <2>4 DEF vars
        <3>2. (Parsed => Parsed') /\ (Planned => Planned') /\ (Ran => Ran')
            BY <3>1 DEF Parsed, Planned, Ran
        <3> QED
            BY <3>1, <3>2 DEF IndInv
    <2> QED
        BY <2>1, <2>2, <2>3, <2>4 DEF Next
<1> QED
    BY <1>1, <1>2, PTL DEF Spec

\* The text of a tree is whole, the tree is of the right shape, and that of
\* a SELECT is a SELECT.
LEMMA ParsedIs ==
    ASSUME IndInv, Parsed
    PROVE  /\ text = Tokens(statement)
           /\ IsTree(tree)
           /\ IsSelect => tree \in SelectStatement
<1>1. statement \in Statement /\ text \in {Tokens(statement)} \cup CutShort(statement)
    BY DEF IndInv
<1>2. Parse(text).ok /\ tree = Parse(text).node
    BY DEF Parsed
<1>3. text \notin CutShort(statement)
    BY <1>1, <1>2, CutTextFails
<1>4. text = Tokens(statement)
    BY <1>1, <1>3
<1>5. text \in Input(AnyToken) /\ (IsSelect => text[1] = Keyword("SELECT"))
    BY <1>1, <1>4, TypedTextIs DEF IsSelect
<1>6. AnyToken \in SUBSET AnyToken
    OBVIOUS
<1>7. IsTree(Parse(text).node) /\ (text[1] = Keyword("SELECT") => Parse(text).node \in SelectStatement)
    BY <1>2, <1>5, <1>6, ParseIs
<1> QED
    BY <1>2, <1>4, <1>5, <1>7

(***************************************************************************)
(* No statement that was cut short gets a tree, so none is planned or run: *)
(* whatever of its text arrives, Parse wants the semicolon that only the   *)
(* whole text has.                                                         *)
(***************************************************************************)
THEOREM NoPrefixIsRun == Spec => []NoPrefixRuns
<1>1. IndInv => NoPrefixRuns
    <2> SUFFICES ASSUME IndInv, tree # Unset PROVE text = Tokens(statement)
        BY DEF NoPrefixRuns
    <2>1. Parsed
        BY DEF IndInv
    <2> QED
        BY <2>1, ParsedIs
<1> QED
    BY <1>1, IndInvHolds, PTL

LEMMA SourceIsRead ==
    ASSUME NEW s, s.name \in STRING, s.filter \in Optionally(Operation)
    PROVE  SourceNodes(s) \in Seq(ReadNode)
<1>1. ScanNode(s.name) \in ReadNode
    BY DEF ReadNode
<1>2. <<ScanNode(s.name)>> \in Seq(ReadNode)
    BY <1>1, OneIs
<1> QED
    BY <1>2, FilterIsRead, JoinIs DEF SourceNodes

\* What the planner has let through, and what becomes of it.
LEMMA PlanIs ==
    ASSUME IndInv, Ran
    PROVE  \/ tree \in SelectStatement /\ CanSelect(tree) /\ plan.source = SelectNodes(tree)
           \/ plan.source \in Seq(ReadNode)
<1>1. IsTree(tree) /\ plan = Build(tree) /\ plan # PlanError /\ plan.op \in {"select", "update", "delete"}
    BY ParsedIs DEF Ran, Planned
<1>2. CASE tree \in SelectStatement
    <2>1. tree.op = "select"
        BY <1>2 DEF SelectStatement
    <2>2. Build(tree) = IF CanSelect(tree) THEN [op |-> tree.op, source |-> SelectNodes(tree)] ELSE PlanError
        BY <2>1 DEF Build
    <2>3. CanSelect(tree) /\ plan = [op |-> tree.op, source |-> SelectNodes(tree)]
        BY <1>1, <2>2
    <2> QED
        BY <1>2, <2>3
<1>3. CASE tree.op = "create"
    <2>1. plan = [op |-> tree.op, schema |-> tableFromCreateStatement(tree.definition)]
        BY <1>1, <1>3 DEF Build
    <2>2. plan.op = "create"
        BY <1>3, <2>1
    <2> QED
        BY <1>1, <2>2
<1>4. CASE tree.op = "insert"
    <2>1. plan = tree
        BY <1>1, <1>4 DEF Build
    <2> QED
        BY <1>1, <1>4, <2>1
<1>5. CASE IsChange(tree)
    <2>1. tree.op \in {"update", "delete"} /\ tree.name \in STRING /\ tree.filter \in Optionally(Operation)
        BY <1>5 DEF IsChange
    <2>2. plan.source = SourceNodes(tree)
        BY <1>1, <2>1 DEF Build
    <2> QED
        BY <2>1, <2>2, SourceIsRead
<1> QED
    BY <1>1, <1>2, <1>3, <1>4, <1>5 DEF IsTree

(***************************************************************************)
(* No executor panics, whatever the statement, the tables and their rows:  *)
(* the planner's checks leave the aggregate executor only items that have  *)
(* a name and a value.                                                     *)
(***************************************************************************)
THEOREM NothingEverPanics == Spec => []NothingPanics
<1>1. IndInv => NothingPanics
    <2> SUFFICES ASSUME IndInv, result # Unset PROVE result.outcome # "panic"
        BY DEF NothingPanics
    <2>1. Ran
        BY DEF IndInv
    <2>2. database \in Database /\ result = Execute(database, plan.source)
        BY <2>1 DEF Ran
    <2>3. CASE plan.source \in Seq(ReadNode)
        BY <2>2, <2>3, ReadsAre, RelationIsProper DEF Proper
    <2>4. CASE tree \in SelectStatement /\ CanSelect(tree) /\ plan.source = SelectNodes(tree)
        <3> DEFINE r == Execute(database, InnerNodes(tree))
        <3>1. /\ Proper(r)
              /\ r.outcome = "rows" => result = Shown(Limited(Skipped(r, tree), tree), tree)
              /\ r.outcome # "rows" => result = r
            BY <2>2, <2>4, SelectIsPage
        <3> HIDE DEF r
        <3>2. CASE r.outcome # "rows"
            BY <3>1, <3>2 DEF Proper
        <3>3. CASE r.outcome = "rows"
            <4>1. Skipped(r, tree).outcome = "rows"
                BY <3>3 DEF Skipped, Offset, RowsResult
            <4>2. Limited(Skipped(r, tree), tree).outcome = "rows"
                BY <4>1 DEF Limited, Limit, RowsResult
            <4>3. \A p : p.outcome = "rows" => Shown(p, tree).outcome \in {"rows", "error"}
                BY DEF Shown, Projection, RowsResult, Error
            <4> QED
                BY <3>1, <3>3, <4>2, <4>3
        <3> QED
            BY <3>2, <3>3
    <2> QED
        BY <2>1, <2>3, <2>4, PlanIs
<1> QED
    BY <1>1, IndInvHolds, PTL

(***************************************************************************)
(* LIMIT and OFFSET return the rows they name of what the query returns    *)
(* without them, and all of those there are, however large they are.       *)
(***************************************************************************)
THEOREM PagesAlwaysAreWindows == Spec => []PagesAreWindows
<1>1. IndInv => PagesAreWindows
    <2> SUFFICES ASSUME IndInv, stage = "done", IsSelect PROVE PagesAreWindows
        BY DEF PagesAreWindows
    <2>1. Ran /\ result.outcome = "rows"
        BY DEF IndInv
    <2>2. /\ Parsed /\ plan = Build(tree) /\ plan # PlanError
          /\ database \in Database /\ result = Execute(database, plan.source)
        BY <2>1 DEF Ran, Planned
    <2>3. tree \in SelectStatement
        BY <2>2, ParsedIs
    <2>4. tree.op = "select"
        BY <2>3 DEF SelectStatement
    <2>5. CanSelect(tree) /\ plan.source = SelectNodes(tree)
        <3>1. Build(tree) = IF CanSelect(tree) THEN [op |-> tree.op, source |-> SelectNodes(tree)] ELSE PlanError
            BY <2>4 DEF Build
        <3>2. CanSelect(tree) /\ plan = [op |-> tree.op, source |-> SelectNodes(tree)]
            BY <2>2, <3>1
        <3> QED
            BY <3>2
    <2> DEFINE all == Execute(database, SelectNodes(Unpaged(tree))).rows
               isIn(i) == i > FirstOf(tree) /\ (tree.limit # Unset => i <= FirstOf(tree) + CountFrom(tree.limit))
    <2>6. /\ Len(result.rows) = Cardinality(Window(tree, Len(all)))
          /\ \A i \in 1..Len(result.rows) : result.rows[i] = all[FirstOf(tree) + i]
        BY <2>1, <2>2, <2>3, <2>5, PageIsWindow
    <2>7. Answer([tree EXCEPT !.limit = Unset, !.offset = Unset]).rows = all
        <3> DEFINE t == Unpaged(tree)
        <3>1. t = [tree EXCEPT !.limit = Unset, !.offset = Unset]
            BY DEF Unpaged
        <3>2. t \in SelectStatement /\ CanSelect(t)
            BY <2>3, <2>5, UnpagedIs
        <3> HIDE DEF t
        <3>3. t.op = "select"
            BY <3>2 DEF SelectStatement
        <3>4. Build(t) = [op |-> t.op, source |-> SelectNodes(t)]
            BY <3>2, <3>3 DEF Build
        <3>5. Answer(t) = Execute(database, SelectNodes(t))
            BY <3>4 DEF Answer
        <3> QED
            BY <3>1, <3>5 DEF t
    <2>8. /\ tree.offset # Unset => tree.offset[2].n = CountFrom(tree.offset)
          /\ tree.limit # Unset => tree.limit[2].n = CountFrom(tree.limit)
        BY <2>3, <2>5, CountIsNumber DEF CanSelect, SelectStatement
    <2> DEFINE first == IF tree.offset = Unset THEN 0 ELSE tree.offset[2].n
               inside(i) == i > first /\ (tree.limit # Unset => i <= first + tree.limit[2].n)
    <2>9. first = FirstOf(tree)
        BY <2>8 DEF FirstOf
    <2> HIDE DEF all
    <2>10. {i \in 1..Len(all) : inside(i)} = Window(tree, Len(all))
        <3> HIDE DEF first
        <3> QED
            BY <2>8, <2>9 DEF Window
    <2>11. /\ Len(result.rows) = Cardinality({i \in 1..Len(all) : inside(i)})
           /\ \A i \in 1..Len(result.rows) : result.rows[i] = all[first + i]
        <3> HIDE DEF inside, first
        <3> QED
            BY <2>6, <2>9, <2>10
    <2> QED
        BY <2>7, <2>11 DEF PagesAreWindows
<1> QED
    BY <1>1, IndInvHolds, PTL

=============================================================================
