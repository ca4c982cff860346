---------------------------- MODULE ConfigProofs ----------------------------
(***************************************************************************)
(* Proofs about ConfigParser, for files of any length.                     *)
(***************************************************************************)
EXTENDS ConfigParser, Induction, FiniteSetTheorems, SequenceTheorems, TLAPS

Token == Seq(Char) \ {<<>>}
Statement == [in : Nat, tokens : Seq(Token), block : BOOLEAN]

\* The variables of ParseToken.
Lexer ==
  /\ file \in Seq(Char)
  /\ pos \in 0..Len(file)
  /\ state \in {"INITIAL_WHITESPACE", "SINGLE_QUOTE", "DOUBLE_QUOTE", "COMMENT", "NORMAL"}
  /\ value \in Seq(Char)
  /\ value = <<>> <=> state = "INITIAL_WHITESPACE"

\* The variables of Parse.
Parser ==
  /\ last \in {"START", "NORMAL", "STATEMENT_END", "START_BLOCK", "END_BLOCK"}
  /\ stack \in Seq(Nat)
  /\ brackets \in Int
  /\ statements \in Seq(Statement)
  /\ result \in {"none", "true", "false", "undefined"}

\* The tree: every statement is in an earlier one, and the stack is a path of it
\* from the caller's config.  While a statement is being read it is the last of all
\* statements and in the config on top of the stack: Newest is that statement.
Tree ==
  /\ \A i \in 1..Len(statements) : statements[i].in < i
  /\ \A i \in 1..Len(stack) : stack[i] <= Len(statements)
  /\ \A i \in 2..Len(stack) :
       stack[i] >= 1 /\ statements[stack[i]].block /\ statements[stack[i]].in = stack[i - 1]
  /\ last = "NORMAL" =>
       /\ stack # <<>> /\ statements # <<>>
       /\ statements[Len(statements)].in = Last(stack)
  /\ result \in {"none", "true"} => Len(stack) = brackets + 1

\* The steps of Parse: one for each kind of token.
ParseToken ==
  \/ \E token \in Token : Normal(token)
  \/ StatementEnd
  \/ StartBlock
  \/ EndBlock
  \/ Eof
  \/ Fails /\ UNCHANGED brackets
-----------------------------------------------------------------------------
\* In the initial state nothing is read and the stack holds the caller's config.
LEMMA InitInv == Init => Lexer /\ Parser /\ Tree
<1> SUFFICES ASSUME Init PROVE Lexer /\ Parser /\ Tree
  OBVIOUS
<1>1. file \in Seq(Char)
  <2>1. PICK n \in 0..MaxLength : file \in [1..n -> Char]
    BY DEF Init
  <2>2. n \in Nat
    BY ConfigAssumption
  <2> QED
    BY <2>1, <2>2, SeqDef
<1>2. Lexer
  BY <1>1 DEF Init, Lexer
<1>3. Parser /\ Tree
  BY DEF Init, Parser, Tree
<1> QED
  BY <1>2, <1>3

\* The statement that is being read is the last one.
LEMMA NewestIsLast ==
  ASSUME Parser, Tree, last = "NORMAL"
  PROVE  /\ Newest = Len(statements)
         /\ Len(statements) \in Nat /\ Len(statements) >= 1 /\ Len(stack) >= 1 /\ Len(stack) \in Nat
         /\ statements[Len(statements)].in = stack[Len(stack)]
<1> DEFINE n == Len(statements)
<1>1. n \in Nat /\ n >= 1 /\ DOMAIN statements = 1..n
  BY EmptySeq, LenProperties DEF Parser, Tree
<1>2. statements[n].in = Last(stack)
  BY DEF Tree
<1>3. \A i \in DOMAIN statements :
        /\ statements[i].in = Last(stack)
        /\ \A j \in DOMAIN statements : statements[j].in = Last(stack) => j <= i
        => i = n
  BY <1>1, <1>2
<1>4. /\ n \in DOMAIN statements
      /\ statements[n].in = Last(stack)
      /\ \A j \in DOMAIN statements : statements[j].in = Last(stack) => j <= n
  BY <1>1, <1>2
<1>5. Newest = n
  BY <1>3, <1>4 DEF Newest
<1>6. Len(stack) \in Nat /\ Len(stack) >= 1
  BY EmptySeq, LenProperties DEF Parser, Tree
<1> QED
  BY <1>1, <1>2, <1>5, <1>6 DEF Last

\* Every token keeps the types of Parse and the tree.
LEMMA TokenStep ==
  ASSUME Parser, Tree, result = "none", ParseToken
  PROVE  Parser' /\ Tree'
<1> DEFINE n == Len(statements)
           m == Len(stack)
<1>1. n \in Nat /\ m \in Nat /\ statements \in [1..n -> Statement] /\ stack \in [1..m -> Nat]
  BY DEF Parser
<1>0. ASSUME UNCHANGED <<stack, statements>>, brackets' \in Int,
             last' \in {"START", "STATEMENT_END", "START_BLOCK", "END_BLOCK"} \/ last' = last,
             result' \in {"none", "true"} => brackets' = brackets, 
             result' \in {"none", "true", "false", "undefined"}
      PROVE  Parser' /\ Tree'
  BY <1>0 DEF Parser, Tree
<1>8. /\ \A i \in 1..n : statements[i].in \in Nat /\ statements[i].in < i
      /\ \A i \in 1..m : stack[i] \in Nat /\ stack[i] <= n
      /\ Len(statements) = n /\ Len(stack) = m
  BY <1>1 DEF Tree, Statement
<1>9. \A i \in 2..m : /\ i \in 1..m /\ i - 1 \in 1..m /\ stack[i] \in 1..n
                      /\ statements[stack[i]].block /\ statements[stack[i]].in = stack[i - 1]
  BY <1>1 DEF Tree
<1> HIDE DEF n, m
<1>2. CASE Fails /\ UNCHANGED brackets
  BY <1>0, <1>2 DEF Fails, Parser
<1>3. CASE StatementEnd
  BY <1>0, <1>3 DEF StatementEnd, Fails, Parser
<1>4. CASE Eof
  BY <1>0, <1>4 DEF Eof, Parser
<1>5. ASSUME NEW token \in Token, Normal(token) PROVE Parser' /\ Tree'
  <2>1. CASE stack = <<>>
    BY <1>0, <1>5, <2>1 DEF Normal, NoStack, Parser
  <2>2. CASE stack # <<>> /\ last = "NORMAL"
    <3>1. Newest = n /\ n >= 1
      BY <2>2, NewestIsLast DEF n
    <3>2. statements' = [statements EXCEPT ![n].tokens = Append(@, token)] /\ last' = "NORMAL"
            /\ UNCHANGED <<stack, brackets, result>>
      BY <1>5, <2>2, <3>1 DEF Normal
    <3>3. Append(statements[n].tokens, token) \in Seq(Token)
      BY <1>1, <3>1, AppendProperties DEF Statement
    <3>4. /\ statements' \in Seq(Statement) /\ Len(statements') = n
          /\ \A i \in 1..n : statements'[i].in = statements[i].in /\ statements'[i].block = statements[i].block
      <4>0. n \in 1..n /\ statements[n] \in Statement
        BY <1>1, <3>1
      <4>1. [statements[n] EXCEPT !.tokens = Append(@, token)] \in Statement
        BY <3>3, <4>0 DEF Statement
      <4>2. statements' = [statements EXCEPT ![n] = [statements[n] EXCEPT !.tokens = Append(@, token)]]
        BY <3>2
      <4>3. statements' \in Seq(Statement) /\ Len(statements') = n
        BY <1>8, <4>0, <4>1, <4>2, ExceptSeq, LenProperties DEF Parser
      <4>4. \A i \in 1..n : statements'[i].in = statements[i].in /\ statements'[i].block = statements[i].block
        BY <1>1, <4>2
      <4> QED
        BY <4>3, <4>4
    <3>5. Parser'
      BY <3>2, <3>4 DEF Parser
    <3>6. \A i \in 2..m : statements'[stack[i]].block /\ statements'[stack[i]].in = stack[i - 1]
      BY <1>9, <3>4
    <3> QED
      BY <1>8, <1>9, <2>2, <3>1, <3>2, <3>4, <3>5, <3>6 DEF Tree
  <2>3. CASE stack # <<>> /\ last # "NORMAL"
    <3> DEFINE new == [in |-> Last(stack), tokens |-> <<token>>, block |-> FALSE]
    <3>1. statements' = Append(statements, new) /\ last' = "NORMAL" /\ UNCHANGED <<stack, brackets, result>>
      BY <1>5, <2>3 DEF Normal
    <3>2. m >= 1 /\ Last(stack) = stack[m] /\ Last(stack) \in Nat /\ Last(stack) <= n
      BY <1>1, <1>8, <2>3, EmptySeq DEF Last, Parser
    <3>3. new \in Statement
      BY <3>2 DEF Statement
    <3> HIDE DEF new
    <3>4. statements' \in Seq(Statement) /\ Len(statements') = n + 1 /\ statements' # <<>>
            /\ statements'[n + 1] = new /\ \A i \in 1..n : statements'[i] = statements[i]
      BY <1>8, <3>1, <3>3, AppendProperties DEF Parser
    <3>5. new.in = Last(stack)
      BY DEF new
    <3>6. \A i \in 1..(n + 1) : statements'[i].in < i
      BY <1>1, <1>8, <3>2, <3>4, <3>5
    <3>7. \A i \in 1..m : stack[i] <= n + 1
      BY <1>1, <1>8
    <3>8. \A i \in 2..m : stack[i] >= 1 /\ statements'[stack[i]].block /\ statements'[stack[i]].in = stack[i - 1]
      BY <1>9, <3>4
    <3> QED
      <4>1. Parser'
        BY <3>1, <3>4 DEF Parser
      <4>2. result' \in {"none", "true"} => Len(stack') = brackets' + 1
        BY <3>1 DEF Tree
      <4> QED
        BY <1>1, <1>8, <2>3, <3>1, <3>4, <3>5, <3>6, <3>7, <3>8, <4>1, <4>2 DEF Tree
  <2> QED
    BY <2>1, <2>2, <2>3
<1>6. CASE StartBlock
  <2>1. CASE last # "NORMAL"
    BY <1>0, <1>6, <2>1 DEF StartBlock, Fails, Parser
  <2>2. CASE last = "NORMAL"
    <3>1. Newest = n /\ n >= 1 /\ m >= 1 /\ statements[n].in = stack[m]
      BY <2>2, NewestIsLast DEF n, m
    <3>2. statements' = [statements EXCEPT ![n].block = TRUE] /\ stack' = Append(stack, n)
            /\ brackets' = brackets + 1 /\ last' = "START_BLOCK" /\ UNCHANGED result
      BY <1>6, <2>2, <3>1 DEF StartBlock
    <3>3. /\ statements' \in Seq(Statement) /\ Len(statements') = n /\ statements'[n].block
          /\ \A i \in 1..n : statements'[i].in = statements[i].in /\ (statements[i].block => statements'[i].block)
      <4>0. n \in 1..n /\ statements[n] \in Statement
        BY <1>1, <3>1
      <4>1. [statements[n] EXCEPT !.block = TRUE] \in Statement
        BY <4>0 DEF Statement
      <4>2. statements' = [statements EXCEPT ![n] = [statements[n] EXCEPT !.block = TRUE]]
        BY <3>2
      <4>3. statements' \in Seq(Statement) /\ Len(statements') = n
        BY <1>8, <4>0, <4>1, <4>2, ExceptSeq, LenProperties DEF Parser
      <4>4. \A i \in 1..n : statements'[i].in = statements[i].in /\ (statements[i].block => statements'[i].block)
        BY <1>1, <4>2 DEF Statement
      <4>5. statements'[n].block
        BY <1>1, <3>1, <4>2 DEF Statement
      <4> QED
        BY <4>3, <4>4, <4>5
    <3>4. stack' \in Seq(Nat) /\ Len(stack') = m + 1 /\ stack'[m + 1] = n /\ \A i \in 1..m : stack'[i] = stack[i]
      BY <1>1, <1>8, <3>2, AppendProperties DEF Parser
    <3>5. \A i \in 1..n : statements'[i].in < i
      BY <1>8, <3>3
    <3>6. \A i \in 1..(m + 1) : stack'[i] <= n
      BY <1>1, <1>8, <3>4
    <3>7. ASSUME NEW i \in 2..(m + 1)
          PROVE  stack'[i] >= 1 /\ statements'[stack'[i]].block /\ statements'[stack'[i]].in = stack'[i - 1]
      <4>1. CASE i = m + 1
        <5>1. stack'[i] = n /\ stack'[i - 1] = stack[m]
          BY <1>1, <3>1, <3>4, <4>1
        <5> QED
          BY <1>1, <3>1, <3>3, <5>1
      <4>2. CASE i # m + 1
        <5>1. i \in 2..m /\ i \in 1..m /\ i - 1 \in 1..m /\ stack'[i] = stack[i] /\ stack'[i - 1] = stack[i - 1]
          BY <1>1, <3>4, <4>2
        <5>2. stack[i] \in 1..n /\ statements[stack[i]].block /\ statements[stack[i]].in = stack[i - 1]
          BY <1>9, <5>1
        <5> QED
          BY <3>3, <5>1, <5>2
      <4> QED
        BY <4>1, <4>2
    <3>8. Parser'
      BY <3>2, <3>3, <3>4 DEF Parser
    <3>9. result' \in {"none", "true"} => Len(stack') = brackets' + 1
      BY <1>1, <1>8, <3>2, <3>4 DEF Parser, Tree
    <3> QED
      BY <1>8, <3>2, <3>3, <3>4, <3>5, <3>6, <3>7, <3>8, <3>9 DEF Tree
  <2> QED
    BY <2>1, <2>2
<1>7. CASE EndBlock
  <2>1. CASE last \notin {"STATEMENT_END", "START_BLOCK", "END_BLOCK"} \/ stack = <<>>
    BY <1>0, <1>7, <2>1 DEF EndBlock, Fails, NoStack, Parser
  <2>2. CASE ~(last \notin {"STATEMENT_END", "START_BLOCK", "END_BLOCK"} \/ stack = <<>>)
    <3>1. stack' = Front(stack) /\ last' = "END_BLOCK" /\ brackets' = brackets - 1 /\ UNCHANGED <<statements, result>>
      BY <1>7, <2>2 DEF EndBlock
    <3>2. m >= 1
      BY <1>1, <1>8, <2>2, EmptySeq DEF Parser
    <3>3. stack' \in Seq(Nat) /\ Len(stack') = m - 1 /\ \A i \in 1..(m - 1) : stack'[i] = stack[i]
      <4>1. stack' = SubSeq(stack, 1, m - 1)
        BY <1>8, <3>1 DEF Front
      <4>2. m - 1 \in Int /\ 1 \in Int /\ \A i \in 1..(m - 1) : stack[i] \in Nat
        BY <1>1
      <4> QED
        BY <1>1, <3>2, <4>1, <4>2, SubSeqProperties
    <3>4. Parser'
      BY <3>1, <3>3 DEF Parser
    <3>5. \A i \in 1..(m - 1) : stack'[i] <= n
      BY <1>8, <3>3
    <3>6. \A i \in 2..(m - 1) : stack'[i] >= 1 /\ statements[stack'[i]].block /\ statements[stack'[i]].in = stack'[i - 1]
      <4> SUFFICES ASSUME NEW i \in 2..(m - 1)
                   PROVE  stack'[i] >= 1 /\ statements[stack'[i]].block /\ statements[stack'[i]].in = stack'[i - 1]
        OBVIOUS
      <4>1. i \in 2..m /\ i \in 1..(m - 1) /\ i - 1 \in 1..(m - 1)
        BY <1>1
      <4>2. stack'[i] = stack[i] /\ stack'[i - 1] = stack[i - 1]
        BY <3>3, <4>1
      <4> QED
        BY <1>1, <1>9, <4>1, <4>2
    <3>7. result' \in {"none", "true"} => Len(stack') = brackets' + 1
      BY <1>1, <1>8, <3>1, <3>3 DEF Parser, Tree
    <3> QED
      BY <1>8, <3>1, <3>3, <3>4, <3>5, <3>6, <3>7 DEF Tree
  <2> QED
    BY <2>1, <2>2
<1> QED
  BY <1>2, <1>3, <1>4, <1>5, <1>6, <1>7 DEF ParseToken

\* One character, or the end of the file, keeps the types of ParseToken and is a token
\* for Parse or changes nothing there.
LEMMA ReadStep ==
  ASSUME Lexer, [Next]_vars
  PROVE  /\ Lexer'
         /\ (result = "none" /\ ParseToken) \/ UNCHANGED <<last, stack, brackets, statements, result>>
<1> USE DEF Lexer, Token
<1>1. CASE EndOfFile
  <2>1. ParseToken /\ result = "none" /\ UNCHANGED <<file, pos, state, value>>
    BY <1>1 DEF EndOfFile, ParseToken
  <2> QED
    BY <2>1
<1>2. CASE Read
  <2> DEFINE c == file[pos + 1]
  <2>1. c \in Char /\ pos + 1 \in 0..Len(file) /\ UNCHANGED file /\ result = "none"
    BY <1>2 DEF Read
  <2>2. Append(value, c) \in Seq(Char) /\ Append(value, c) # <<>>
    BY <2>1, AppendProperties
  <2> HIDE DEF c
  <2>3. ASSUME NEW s \in {"SINGLE_QUOTE", "DOUBLE_QUOTE", "COMMENT", "NORMAL"}, Into(s, c), pos' = pos + 1
        PROVE  Lexer' /\ UNCHANGED <<last, stack, brackets, statements, result>>
    BY <2>1, <2>2, <2>3 DEF Into, Skip
  <2>4. ASSUME Begin, pos' \in {pos, pos + 1} PROVE Lexer'
    BY <2>1, <2>4, EmptySeq DEF Begin
  <2>5. CASE InitialWhitespace(c) /\ pos' = pos + 1
    <3>1. CASE Single(c) /\ Begin
      BY <2>1, <2>4, <2>5, <3>1 DEF Single, ParseToken
    <3>2. CASE Skip /\ Begin
      BY <2>4, <2>5, <3>2 DEF Skip
    <3>3. CASE \E s \in {"SINGLE_QUOTE", "DOUBLE_QUOTE", "COMMENT", "NORMAL"} : Into(s, c)
      BY <2>3, <2>5, <3>3
    <3> QED
      BY <2>5, <3>1, <3>2, <3>3 DEF InitialWhitespace
  <2>6. CASE Quoted(c) /\ pos' = pos + 1
    <3>1. CASE Normal(Append(value, c)) /\ Begin
      BY <2>1, <2>2, <2>4, <2>6, <3>1 DEF ParseToken
    <3>2. CASE state \in {"SINGLE_QUOTE", "DOUBLE_QUOTE"} /\ Into(state, c)
      BY <2>3, <2>6, <3>2
    <3> QED
      BY <2>6, <3>1, <3>2 DEF Quoted
  <2>7. CASE InComment(c) /\ pos' = pos + 1
    <3>1. CASE Skip /\ Begin
      BY <2>4, <2>7, <3>1 DEF Skip
    <3>2. CASE state = "COMMENT" /\ Into(state, c)
      BY <2>3, <2>7, <3>2
    <3> QED
      BY <2>7, <3>1, <3>2 DEF InComment
  <2>8. CASE Word(c) /\ pos' = pos + 1
    BY <2>3, <2>8 DEF Word
  <2>9. CASE WordEnds(c) /\ UNCHANGED pos
    <3>1. value \in Token /\ Normal(value) /\ Begin
      BY <2>9 DEF WordEnds
    <3> QED
      BY <2>1, <2>4, <2>9, <3>1 DEF ParseToken
  <2> QED
    BY <1>2, <2>5, <2>6, <2>7, <2>8, <2>9 DEF Read, c
<1>3. CASE Returned \/ UNCHANGED vars
  BY <1>3 DEF Returned, vars
<1> QED
  BY <1>1, <1>2, <1>3 DEF Next

\* The types of ParseToken and Parse and the shape of the tree and the stack hold in
\* every reachable state.
LEMMA Invariant == Spec => [](Lexer /\ Parser /\ Tree)
<1>1. ASSUME Lexer, Parser, Tree, [Next]_vars PROVE Lexer' /\ Parser' /\ Tree'
  <2>1. CASE result = "none" /\ ParseToken
    BY <1>1, <2>1, ReadStep, TokenStep
  <2>2. CASE UNCHANGED <<last, stack, brackets, statements, result>>
    BY <1>1, <2>2, ReadStep DEF Parser, Tree
  <2> QED
    BY <1>1, <2>1, <2>2, ReadStep
<1> QED
  BY InitInv, <1>1, PTL DEF Spec

\* For files of any length, the variables of the parser keep their types, no token is
\* empty, and every statement is in one that came before it.
THEOREM ConfigTypes == Spec => []TypeOK
<1>1. Lexer /\ Parser /\ Tree => TypeOK
  <2> SUFFICES ASSUME Lexer, Parser, Tree PROVE TypeOK
    OBVIOUS
  <2>1. stack \in Seq(0..Len(statements))
    <3>1. \A i \in 1..Len(stack) : stack[i] \in 0..Len(statements)
      BY DEF Parser, Tree
    <3> QED
      BY <3>1, SeqDef DEF Parser
  <2>2. ASSUME NEW i \in DOMAIN statements
        PROVE  /\ statements[i].in \in 0..(i - 1)
               /\ statements[i].tokens \in Seq(Seq(Char) \ {<<>>})
               /\ statements[i].block \in BOOLEAN
    <3>1. i \in 1..Len(statements) /\ statements[i] \in Statement
      BY DEF Parser
    <3>2. statements[i].in \in Nat /\ statements[i].in < i
      BY <3>1 DEF Statement, Tree
    <3>3. statements[i].in \in 0..(i - 1)
      BY <3>1, <3>2 DEF Parser
    <3> QED
      BY <3>1, <3>3 DEF Statement, Token
  <2> QED
    BY <2>1, <2>2 DEF Lexer, Parser, TypeOK
<1> QED
  BY Invariant, <1>1, PTL

\* For files of any length, BracketCount and config_stack agree as long as Parse runs,
\* and the open configs are nested in each other.
THEOREM BracketsMatchStack == Spec => []StackIsPath
<1>1. Parser /\ Tree => StackIsPath
  BY DEF Parser, Tree, StackIsPath
<1> QED
  BY Invariant, <1>1, PTL
-----------------------------------------------------------------------------
(* The tokens of a file.                                                     *)

\* Upto(f)[n]: the tokens of the first n characters.
Upto(f) ==
  CHOOSE g : g = [n \in 0..Len(f) |-> IF n = 0 THEN <<>> ELSE NextToken(f, n, g[n - 1])]

\* A character makes tokens of tokens.
LEMMA NextTokenType ==
  ASSUME NEW f \in Seq(Char), NEW n \in 1..Len(f), NEW s \in Seq(Token)
  PROVE  NextToken(f, n, s) \in Seq(Token)
<1>1. f[n] \in Char
  OBVIOUS
<1>2. <<f[n]>> \in Token
  BY <1>1 DEF Token
<1>3. Append(s, <<f[n]>>) \in Seq(Token)
  BY <1>2, AppendProperties
<1>4. [s EXCEPT ![Len(s)] = Append(@, f[n])] \in Seq(Token)
  <2>1. CASE s = <<>>
    <3>1. Len(s) \notin DOMAIN s
      BY <2>1
    <3>2. [s EXCEPT ![Len(s)] = Append(@, f[n])] = s
      BY <3>1
    <3> QED
      BY <3>2
  <2>2. CASE s # <<>>
    <3>1. Len(s) \in 1..Len(s) /\ s[Len(s)] \in Token
      BY <2>2, EmptySeq, LenProperties
    <3>2. Append(s[Len(s)], f[n]) \in Token
      <4>1. s[Len(s)] \in Seq(Char)
        BY <3>1 DEF Token
      <4> QED
        BY <1>1, <4>1, AppendProperties DEF Token
    <3>3. [s EXCEPT ![Len(s)] = Append(@, f[n])] = [s EXCEPT ![Len(s)] = Append(s[Len(s)], f[n])]
      BY <3>1
    <3> QED
      BY <3>1, <3>2, <3>3, ExceptSeq
  <2> QED
    BY <2>1, <2>2
<1> QED
  BY <1>3, <1>4 DEF NextToken

\* Tokens reads the characters one after the other.
LEMMA TokensLoop ==
  ASSUME NEW f \in Seq(Char)
  PROVE  /\ Tokens(f) = Upto(f)[Len(f)]
         /\ Upto(f) \in [0..Len(f) -> Seq(Token)]
         /\ Upto(f)[0] = <<>>
         /\ \A n \in 1..Len(f) : Upto(f)[n] = NextToken(f, n, Upto(f)[n - 1])
<1> DEFINE N == Len(f)
           V == Seq(Token)
           G == [n \in 1..N |-> [s \in V |-> NextToken(f, n, s)]]
           body(g) == [n \in 0..N |-> IF n = 0 THEN <<>> ELSE NextToken(f, n, g[n - 1])]
<1>1. N \in Nat /\ <<>> \in V
  BY EmptySeq
<1>2. G \in [1..N -> [V -> V]]
  BY NextTokenType
<1>3. Tokens(f) = Upto(f)[N]
  BY DEF Tokens, Upto
<1>4. Upto(f) = CHOOSE g : g = body(g)
  BY DEF Upto
<1> HIDE DEF N, V, G
<1>5. PICK g : IsLoop(g, N, V, <<>>, G)
  BY <1>1, <1>2, LoopExists
<1>6. g \in [0..N -> V] /\ g[0] = <<>> /\ \A n \in 1..N : g[n] = G[n][g[n - 1]]
  BY <1>5 DEF IsLoop
<1>7. ASSUME NEW h \in [0..N -> V], \A n \in 1..N : h[n] = G[n][h[n - 1]], NEW n \in 1..N
      PROVE  h[n] = NextToken(f, n, h[n - 1])
  <2>1. h[n - 1] \in V
    BY <1>1, <1>7
  <2> QED
    BY <1>7, <2>1 DEF G
<1>8. g = body(g)
  <2>1. ASSUME NEW n \in 0..N PROVE g[n] = body(g)[n]
    <3>1. CASE n = 0
      BY <1>6, <3>1
    <3>2. CASE n # 0
      <4>1. n \in 1..N
        BY <1>1, <3>2
      <4> QED
        BY <1>6, <1>7, <3>2, <4>1
    <3> QED
      BY <3>1, <3>2
  <2> QED
    BY <1>6, <2>1
<1>9. Upto(f) = body(Upto(f))
  BY <1>4, <1>8
<1>10. Upto(f)[0] = <<>> /\ \A n \in 1..N : Upto(f)[n] = NextToken(f, n, Upto(f)[n - 1])
  <2>1. 0 \in 0..N /\ \A n \in 1..N : n \in 0..N /\ n # 0
    BY <1>1
  <2> HIDE DEF body
  <2>2. \A n \in 0..N : Upto(f)[n] = body(Upto(f))[n]
    BY <1>9
  <2> QED
    BY <2>1, <2>2 DEF body
<1> DEFINE S == {n \in 0..N : Upto(f)[n] \in V}
<1>11. 0 \in S
  BY <1>1, <1>10
<1>12. ASSUME NEW n \in 1..N, n - 1 \in S PROVE n \in S
  BY <1>10, <1>12, NextTokenType DEF N, V
<1> HIDE DEF S
<1>13. 0..N \subseteq S
  BY <1>1, <1>11, <1>12, BoundedInduction
<1>14. Upto(f) \in [0..N -> V]
  BY <1>9, <1>13 DEF S
<1> QED
  BY <1>3, <1>10, <1>14 DEF N, V

\* The two ways in which a character that is not white becomes part of a token.
LEMMA NextTokenEffect ==
  ASSUME NEW f \in Seq(Char), NEW n \in 1..Len(f), NEW s \in Seq(Token)
  PROVE  LET t == NextToken(f, n, s)
             more == InWord(f[n]) /\ n > 1 /\ InWord(f[n - 1])
         IN  /\ f[n] \in White => t = s
             /\ f[n] \notin White /\ ~more =>
                  /\ Len(t) = Len(s) + 1 /\ t[Len(s) + 1] = <<f[n]>>
                  /\ \A i \in 1..Len(s) : t[i] = s[i]
             /\ more /\ s # <<>> =>
                  /\ Len(t) = Len(s) /\ t[Len(s)] = Append(s[Len(s)], f[n])
                  /\ \A i \in 1..(Len(s) - 1) : t[i] = s[i]
             /\ more /\ s = <<>> => t = s
<1> DEFINE t == NextToken(f, n, s)
           more == InWord(f[n]) /\ n > 1 /\ InWord(f[n - 1])
<1>1. f[n] \in White => t = s
  BY DEF NextToken
<1>2. ASSUME f[n] \notin White, ~more
      PROVE  /\ Len(t) = Len(s) + 1 /\ t[Len(s) + 1] = <<f[n]>>
             /\ \A i \in 1..Len(s) : t[i] = s[i]
  <2>1. t = Append(s, <<f[n]>>)
    BY <1>2 DEF NextToken
  <2>2. <<f[n]>> \in Token
    BY DEF Token
  <2> QED
    BY <2>1, <2>2, AppendProperties
<1>3. ASSUME more PROVE t = [s EXCEPT ![Len(s)] = Append(@, f[n])]
  BY <1>3 DEF NextToken, InWord
<1>4. ASSUME more, s # <<>>
      PROVE  /\ Len(t) = Len(s) /\ t[Len(s)] = Append(s[Len(s)], f[n])
             /\ \A i \in 1..(Len(s) - 1) : t[i] = s[i]
  <2>0. Len(s) \in Nat
    BY LenProperties
  <2>1. Len(s) \in 1..Len(s) /\ Len(s) \in Nat /\ DOMAIN s = 1..Len(s)
    BY <1>4, EmptySeq, LenProperties
  <2>2. t = [s EXCEPT ![Len(s)] = Append(s[Len(s)], f[n])]
    BY <1>3, <1>4, <2>1
  <2>3. DOMAIN t = DOMAIN s
    BY <2>2
  <2>4. t \in Seq(Token)
    BY NextTokenType
  <2>5. Len(t) = Len(s)
    BY <2>1, <2>3, <2>4, LenProperties
  <2>6. t[Len(s)] = Append(s[Len(s)], f[n])
    BY <2>1, <2>2
  <2>7. ASSUME NEW i \in 1..(Len(s) - 1) PROVE t[i] = s[i]
    <3>1. i \in 1..Len(s) /\ i # Len(s)
      BY <2>0
    <3> QED
      BY <2>1, <2>2, <3>1
  <2> HIDE DEF t
  <2> QED
    BY <2>5, <2>6, <2>7
<1>5. ASSUME more, s = <<>> PROVE t = s
  <2>1. Len(s) \notin DOMAIN s
    BY <1>5
  <2> QED
    BY <1>3, <1>5, <2>1
<1> QED
  BY <1>1, <1>2, <1>4, <1>5

\* No token goes on over place p of the file.
Boundary(f, p) == p = 0 \/ ~InWord(f[p]) \/ (p < Len(f) /\ ~InWord(f[p + 1]))

\* The tokens before such a place stay as they are when more is read.
LEMMA TokensStay ==
  ASSUME NEW f \in Seq(Char), NEW p \in 0..Len(f), Boundary(f, p), NEW q \in p..Len(f)
  PROVE  /\ Len(Upto(f)[q]) >= Len(Upto(f)[p])
         /\ \A k \in 1..Len(Upto(f)[p]) : Upto(f)[q][k] = Upto(f)[p][k]
<1> DEFINE U == Upto(f)
           L == Len(U[p])
           Claim(n) == /\ Len(U[n]) >= L /\ \A k \in 1..L : U[n][k] = U[p][k]
                       /\ n = p \/ Len(U[n]) > L \/ ~InWord(f[n])
           S == {d \in Nat : p + d <= Len(f) => Claim(p + d)}
<1>1. U \in [0..Len(f) -> Seq(Token)] /\ \A n \in 1..Len(f) : U[n] = NextToken(f, n, U[n - 1])
  BY TokensLoop
<1> HIDE DEF U
<1>2. \A n \in 0..Len(f) : Len(U[n]) \in Nat /\ U[n] \in Seq(Token)
  BY <1>1
<1>3. Len(f) \in Nat /\ p \in Nat /\ L \in Nat
  BY <1>2
<1>4. 0 \in S
  <2>1. p + 0 = p
    BY <1>3
  <2>2. Claim(p)
    BY <1>3
  <2> QED
    BY <2>1, <2>2
<1>5. ASSUME NEW d \in Nat, d \in S PROVE d + 1 \in S
  <2> SUFFICES ASSUME p + (d + 1) <= Len(f) PROVE Claim(p + (d + 1))
    OBVIOUS
  <2> DEFINE n == p + (d + 1)
             s == U[n - 1]
  <2>1. n \in 1..Len(f) /\ n - 1 \in 0..Len(f) /\ n - 1 = p + d /\ p + d <= Len(f) /\ n # p
    BY <1>3
  <2>2. Claim(n - 1)
    BY <1>5, <2>1
  <2>3. U[n] = NextToken(f, n, s) /\ s \in Seq(Token) /\ Len(s) \in Nat
    BY <1>1, <1>2, <2>1
  <2> HIDE DEF n, s, L
  <2>4. CASE f[n] \in White
    <3>1. U[n] = s
      BY <2>1, <2>3, <2>4, NextTokenEffect
    <3>2. ~InWord(f[n])
      BY <2>4 DEF InWord
    <3> QED
      BY <2>2, <3>1, <3>2 DEF s, n
  <2>5. CASE f[n] \notin White /\ ~(InWord(f[n]) /\ n > 1 /\ InWord(f[n - 1]))
    <3>1. Len(U[n]) = Len(s) + 1 /\ \A i \in 1..Len(s) : U[n][i] = s[i]
      BY <2>1, <2>3, <2>5, NextTokenEffect
    <3>2. Len(s) >= L /\ \A k \in 1..L : s[k] = U[p][k]
      BY <2>2 DEF s
    <3>3. Len(U[n]) > L /\ \A k \in 1..L : k \in 1..Len(s)
      BY <1>3, <2>3, <3>1, <3>2
    <3>4. \A k \in 1..L : U[n][k] = U[p][k]
      BY <3>1, <3>2, <3>3
    <3> QED
      BY <1>3, <2>3, <3>1, <3>3, <3>4 DEF n
  <2>6. CASE InWord(f[n]) /\ n > 1 /\ InWord(f[n - 1])
    <3>1. n - 1 # p
      BY <1>3, <2>1, <2>6 DEF Boundary
    <3>2. Len(s) > L /\ \A k \in 1..L : s[k] = U[p][k]
      BY <2>2, <2>6, <3>1 DEF s
    <3>3. s # <<>> /\ \A k \in 1..L : k \in 1..(Len(s) - 1)
      BY <1>3, <2>3, <3>2
    <3>4. Len(U[n]) = Len(s) /\ \A i \in 1..(Len(s) - 1) : U[n][i] = s[i]
      BY <2>1, <2>3, <2>6, <3>3, NextTokenEffect
    <3>5. \A k \in 1..L : U[n][k] = U[p][k]
      BY <3>2, <3>3, <3>4
    <3> QED
      BY <1>3, <2>3, <3>2, <3>4, <3>5 DEF n
  <2> QED
    BY <2>4, <2>5, <2>6 DEF n
<1> HIDE DEF S
<1>6. Nat \subseteq S
  BY <1>4, <1>5, SetInduction
<1>7. q - p \in Nat /\ p + (q - p) = q /\ q <= Len(f)
  BY <1>3
<1>8. Claim(q)
  <2>1. q - p \in S
    BY <1>6, <1>7
  <2> HIDE DEF Claim
  <2> QED
    BY <1>7, <2>1 DEF S
<1> QED
  BY <1>8 DEF U

\* The tokens of a part of the file from its beginning.
LEMMA PrefixTokens ==
  ASSUME NEW f \in Seq(Char), NEW m \in 0..Len(f)
  PROVE  Tokens(SubSeq(f, 1, m)) = Upto(f)[m]
<1> DEFINE g == SubSeq(f, 1, m)
           S == {n \in 0..m : Upto(g)[n] = Upto(f)[n]}
<1>1. m \in Nat /\ Len(f) \in Nat /\ m <= Len(f)
  OBVIOUS
<1>2. g \in Seq(Char) /\ Len(g) = m /\ \A i \in 1..m : g[i] = f[i]
  <2>1. 1 \in Int /\ m \in Int /\ \A i \in 1..m : f[i] \in Char
    BY <1>1
  <2> QED
    BY <1>1, <2>1, SubSeqProperties
<1> HIDE DEF g
<1>3. Upto(g)[0] = <<>> /\ (\A n \in 1..m : Upto(g)[n] = NextToken(g, n, Upto(g)[n - 1]))
        /\ Tokens(g) = Upto(g)[m]
  BY <1>2, TokensLoop
<1>4. Upto(f)[0] = <<>> /\ \A n \in 1..Len(f) : Upto(f)[n] = NextToken(f, n, Upto(f)[n - 1])
  BY TokensLoop
<1>5. 0 \in S
  BY <1>1, <1>3, <1>4
<1>6. ASSUME NEW n \in 1..m, n - 1 \in S PROVE n \in S
  <2>1. g[n] = f[n] /\ (n > 1 => g[n - 1] = f[n - 1])
    BY <1>1, <1>2
  <2>2. ASSUME NEW s PROVE NextToken(g, n, s) = NextToken(f, n, s)
    BY <2>1 DEF NextToken
  <2>3. n \in 1..Len(f) /\ n \in 0..m
    BY <1>1
  <2> QED
    BY <1>3, <1>4, <1>6, <2>2, <2>3
<1> HIDE DEF S
<1>7. 0..m \subseteq S
  BY <1>1, <1>5, <1>6, BoundedInduction
<1>8. m \in S
  BY <1>1, <1>7
<1> QED
  BY <1>3, <1>8 DEF S, g

\* The file ends after place u but for a word that is cut off.
CutAt(f, u) ==
  /\ u \in 0..Len(f)
  /\ \A i \in (u + 1)..Len(f) : InWord(f[i])
  /\ u > 0 => ~InWord(f[u])

\* Every file has such a place, and Uncut leaves out what follows it.
LEMMA UncutTokens ==
  ASSUME NEW f \in Seq(Char)
  PROVE  \E u \in 0..Len(f) : CutAt(f, u) /\ Tokens(Uncut(f)) = Upto(f)[u]
<1> DEFINE N == Len(f)
           S == {m \in 0..N : \E n \in 0..m : (\A i \in (n + 1)..m : InWord(f[i])) /\ (n > 0 => ~InWord(f[n]))}
<1>1. N \in Nat
  OBVIOUS
<1> HIDE DEF N
<1>2. 0 \in S
  <2>1. 0 \in 0..N /\ 0 \in 0..0 /\ (\A i \in (0 + 1)..0 : InWord(f[i])) /\ (0 > 0 => ~InWord(f[0]))
    BY <1>1
  <2> QED
    BY <2>1
<1>3. ASSUME NEW m \in 1..N, m - 1 \in S PROVE m \in S
  <2>1. m \in 0..N /\ m \in Nat
    BY <1>1
  <2>2. CASE ~InWord(f[m])
    <3>1. m \in 0..m /\ \A i \in (m + 1)..m : InWord(f[i])
      BY <2>1
    <3> QED
      BY <2>1, <2>2, <3>1
  <2>3. CASE InWord(f[m])
    <3>1. PICK n \in 0..(m - 1) : (\A i \in (n + 1)..(m - 1) : InWord(f[i])) /\ (n > 0 => ~InWord(f[n]))
      BY <1>3
    <3>2. n \in 0..m /\ \A i \in (n + 1)..m : i = m \/ i \in (n + 1)..(m - 1)
      BY <2>1
    <3>3. \A i \in (n + 1)..m : InWord(f[i])
      BY <2>3, <3>1, <3>2
    <3> QED
      BY <2>1, <3>1, <3>2, <3>3
  <2> QED
    BY <2>2, <2>3
<1> HIDE DEF S
<1>4. 0..N \subseteq S
  BY <1>1, <1>2, <1>3, BoundedInduction
<1>5. N \in S
  BY <1>1, <1>4
<1>6. \E n \in 0..N : (\A i \in (n + 1)..N : InWord(f[i])) /\ (n > 0 => ~InWord(f[n]))
  BY <1>5 DEF S
<1> DEFINE u == CHOOSE n \in 0..N : (\A i \in (n + 1)..N : InWord(f[i])) /\ (n > 0 => ~InWord(f[n]))
<1>7. u \in 0..N /\ (\A i \in (u + 1)..N : InWord(f[i])) /\ (u > 0 => ~InWord(f[u]))
  BY <1>6
<1>8. Uncut(f) = SubSeq(f, 1, u)
  BY DEF Uncut, N
<1> HIDE DEF u
<1>9. Tokens(Uncut(f)) = Upto(f)[u] /\ CutAt(f, u)
  BY <1>7, <1>8, PrefixTokens DEF CutAt, N
<1> QED
  BY <1>7, <1>9 DEF N

\* A word that is cut off is one more token.
LEMMA CutWord ==
  ASSUME NEW f \in Seq(Char), NEW u, CutAt(f, u), NEW q \in (u + 1)..Len(f)
  PROVE  Len(Upto(f)[q]) = Len(Upto(f)[u]) + 1
<1> DEFINE U == Upto(f)
           S == {d \in Nat : u + 1 + d <= Len(f) => Len(U[u + 1 + d]) = Len(U[u]) + 1}
<1>1. U \in [0..Len(f) -> Seq(Token)] /\ \A n \in 1..Len(f) : U[n] = NextToken(f, n, U[n - 1])
  BY TokensLoop
<1> HIDE DEF U
<1>2. u \in Nat /\ Len(f) \in Nat /\ u <= Len(f)
  BY DEF CutAt
<1>3. 0 \in S
  <2> SUFFICES ASSUME u + 1 <= Len(f) PROVE Len(U[u + 1]) = Len(U[u]) + 1
    BY <1>2
  <2>1. u + 1 \in 1..Len(f) /\ u + 1 \in (u + 1)..Len(f) /\ (u + 1) - 1 = u
    BY <1>2
  <2>2. U[u + 1] = NextToken(f, u + 1, U[u]) /\ U[u] \in Seq(Token)
    BY <1>1, <1>2, <2>1
  <2>3. f[u + 1] \notin White /\ ~(InWord(f[u + 1]) /\ u + 1 > 1 /\ InWord(f[u]))
    BY <1>2, <2>1 DEF CutAt, InWord
  <2> QED
    BY <2>1, <2>2, <2>3, NextTokenEffect
<1>4. ASSUME NEW d \in Nat, d \in S PROVE d + 1 \in S
  <2> SUFFICES ASSUME u + 1 + (d + 1) <= Len(f) PROVE Len(U[u + 1 + (d + 1)]) = Len(U[u]) + 1
    OBVIOUS
  <2> DEFINE n == u + 1 + (d + 1)
  <2>1. n \in 1..Len(f) /\ n \in (u + 1)..Len(f) /\ n - 1 \in (u + 1)..Len(f) /\ n - 1 = u + 1 + d /\ n > 1
          /\ n - 1 \in 0..Len(f) /\ u + 1 + d <= Len(f)
    BY <1>2
  <2>2. Len(U[n - 1]) = Len(U[u]) + 1
    BY <1>4, <2>1
  <2> HIDE DEF n
  <2>3. U[n] = NextToken(f, n, U[n - 1]) /\ U[n - 1] \in Seq(Token) /\ U[u] \in Seq(Token)
    BY <1>1, <1>2, <2>1, SMTT(30)
  <2>4. InWord(f[n]) /\ InWord(f[n - 1])
    BY <2>1 DEF CutAt
  <2>5. U[n - 1] # <<>>
    BY <2>2, <2>3
  <2>6. Len(U[n]) = Len(U[n - 1])
    BY <2>1, <2>3, <2>4, <2>5, NextTokenEffect
  <2> QED
    BY <2>2, <2>6 DEF n
<1> HIDE DEF S
<1>5. Nat \subseteq S
  BY <1>3, <1>4, SetInduction
<1>6. q - (u + 1) \in Nat /\ u + 1 + (q - (u + 1)) = q /\ q <= Len(f)
  BY <1>2
<1>7. q - (u + 1) \in S
  BY <1>5, <1>6
<1> QED
  BY <1>6, <1>7 DEF S, U
-----------------------------------------------------------------------------
(* What Parse accepts.                                                       *)

\* The tokens of the file, and how many of them Parse has been given.
FileTokens == Tokens(Uncut(file))
Taken == Len(Upto(file)[pos]) - IF state = "NORMAL" THEN 1 ELSE 0

\* Where ParseToken is in a file without quotes and comments: between tokens, or in
\* a word, which then is the last token of what is read.
Plain ==
  \/ state = "INITIAL_WHITESPACE" /\ Boundary(file, pos)
  \/ /\ state = "NORMAL"
     /\ pos >= 1 /\ InWord(file[pos])
     /\ InWord(value[1])
     /\ Upto(file)[pos] # <<>> /\ value = Upto(file)[pos][Len(Upto(file)[pos])]

\* What Parse does with a token, by its text.
Takes(t) ==
  \/ t = <<"lbrace">> /\ StartBlock
  \/ t = <<"rbrace">> /\ EndBlock
  \/ t = <<"semi">> /\ StatementEnd
  \/ ~IsSpecial(t) /\ Normal(t)

\* ParseToken goes on, gives Parse the next token, or has come to the end.
Advance ==
  \/ Taken' = Taken /\ UNCHANGED <<last, stack, brackets, statements, result>>
  \/ Taken' = Taken + 1 /\ Taken + 1 \in 1..Len(FileTokens) /\ Takes(FileTokens[Taken + 1])
  \/ Taken' = Taken /\ Taken = Len(FileTokens) /\ Eof

\* A token is special if it is a bracket or a semicolon.
LEMMA SpecialTokens ==
  ASSUME NEW t
  PROVE  IsSpecial(t) <=> t = <<"lbrace">> \/ t = <<"rbrace">> \/ t = <<"semi">>
BY DEF IsSpecial, Special

\* The tokens before a boundary that is not after the cut are those of the file.
LEMMA TokensOfFile ==
  ASSUME file \in Seq(Char), NEW u, CutAt(file, u), FileTokens = Upto(file)[u],
         NEW p \in 0..Len(file), Boundary(file, p), p <= u,
         NEW k \in 1..Len(Upto(file)[p])
  PROVE  k <= Len(FileTokens) /\ FileTokens[k] = Upto(file)[p][k]
<1>1. u \in p..Len(file)
  BY DEF CutAt
<1>2. Len(Upto(file)[u]) >= Len(Upto(file)[p]) /\ Upto(file)[u][k] = Upto(file)[p][k]
  BY <1>1, TokensStay
<1>3. Upto(file)[u] \in Seq(Token) /\ Upto(file)[p] \in Seq(Token)
  BY <1>1, TokensLoop DEF CutAt
<1>4. Len(Upto(file)[u]) \in Nat /\ Len(Upto(file)[p]) \in Nat
  BY <1>3, LenProperties
<1> QED
  BY <1>2, <1>4

\* In a file without quotes and comments Parse is given the tokens of the file, one
\* after the other, and the end of the file after the last of them.
LEMMA PlainStep ==
  ASSUME Lexer, PlainFile, Plain, result = "none", Next
  PROVE  UNCHANGED file /\ Plain' /\ Advance
<1> DEFINE U == Upto(file)
           N == Len(file)
           c == file[pos + 1]
<1>1. /\ U \in [0..N -> Seq(Token)] /\ U[0] = <<>>
      /\ \A n \in 1..N : U[n] = NextToken(file, n, U[n - 1])
  BY TokensLoop DEF Lexer
<1>2. PICK u \in 0..N : CutAt(file, u) /\ FileTokens = U[u]
  BY UncutTokens DEF Lexer, FileTokens
<1>3. N \in Nat /\ pos \in 0..N /\ file \in Seq(Char)
  BY DEF Lexer
<1>4. U[pos] \in Seq(Token) /\ Len(U[pos]) \in Nat
  BY <1>1, <1>3
<1>5. CASE EndOfFile
  <2>1. pos = N /\ UNCHANGED <<file, pos, state, value>> /\ Eof
    BY <1>5 DEF EndOfFile, Plain
  <2>2. Plain' /\ Taken' = Taken
    BY <2>1 DEF Plain, Taken, Boundary
  <2>3. CASE state = "INITIAL_WHITESPACE"
    <3>1. u = N
      BY <1>2, <1>3, <2>1, <2>3 DEF Plain, Boundary, CutAt
    <3> QED
      BY <1>2, <1>4, <2>1, <2>2, <2>3, <3>1 DEF Taken, Advance
  <2>4. CASE state = "NORMAL"
    <3>1. u # N
      BY <1>2, <1>3, <2>1, <2>4 DEF Plain, CutAt
    <3>2. N \in (u + 1)..N
      BY <1>2, <1>3, <3>1
    <3>3. Len(U[N]) = Len(U[u]) + 1
      BY <1>2, <1>3, <3>2, CutWord
    <3>4. U[u] \in Seq(Token)
      BY <1>1, <1>2
    <3>5. Taken = Len(FileTokens)
      BY <1>2, <2>1, <2>4, <3>3, <3>4 DEF Taken
    <3> QED
      BY <2>1, <2>2, <3>5 DEF Advance
  <2> QED
    BY <2>3, <2>4 DEF Plain
<1>6. CASE Read
  <2>1. UNCHANGED file /\ pos + 1 \in 1..N /\ pos + 1 \in 0..N /\ (pos + 1) - 1 = pos /\ c \notin Quote \cup {Comment, "cr"}
    BY <1>3, <1>6 DEF Read, PlainFile
  <2>2. U[pos + 1] = NextToken(file, pos + 1, U[pos]) /\ U[pos + 1] \in Seq(Token) /\ Len(U[pos + 1]) \in Nat
    BY <1>1, <2>1
  <2>3. ~InWord(c) => u >= pos + 1
    BY <1>2, <1>3, <2>1 DEF CutAt
  <2>4. U' = U
    BY <2>1
  <2> HIDE DEF U, c, N
  <2>5. ASSUME state = "INITIAL_WHITESPACE", c \in Special, Single(c), Begin, pos' = pos + 1
        PROVE  Plain' /\ Taken' = Taken + 1 /\ Taken + 1 \in 1..Len(FileTokens) /\ Takes(FileTokens[Taken + 1])
    <3>1. ~InWord(c) /\ c \notin White
      BY <2>5 DEF InWord, Special, White
    <3>2. Len(U[pos + 1]) = Len(U[pos]) + 1 /\ U[pos + 1][Len(U[pos]) + 1] = <<c>>
      BY <1>3, <1>4, <2>1, <2>2, <3>1, NextTokenEffect DEF c, N
    <3>3. Boundary(file, pos + 1)
      BY <3>1 DEF Boundary, c
    <3>4. Taken = Len(U[pos]) /\ Taken' = Len(U[pos + 1])
      BY <2>1, <2>5 DEF Taken, Begin, U
    <3>5. Taken + 1 \in 1..Len(U[pos + 1])
      BY <1>4, <3>2, <3>4
    <3>6. u \in Nat /\ pos + 1 <= u /\ pos + 1 \in 0..Len(file)
      BY <1>2, <2>1, <2>3, <3>1 DEF N
    <3>7. Taken + 1 <= Len(FileTokens) /\ FileTokens[Taken + 1] = <<c>>
      BY <1>2, <1>3, <3>2, <3>3, <3>4, <3>5, <3>6, TokensOfFile DEF U, N
    <3>8. Plain'
      BY <2>1, <2>5, <3>3 DEF Plain, Begin, Boundary
    <3>9. Takes(<<c>>)
      BY <2>5 DEF Single, Takes
    <3>10. Len(FileTokens) \in Nat
      BY <1>1, <1>2
    <3> QED
      BY <1>4, <3>2, <3>4, <3>5, <3>7, <3>8, <3>9, <3>10
  <2>6. ASSUME state = "INITIAL_WHITESPACE", c \in White, Skip, Begin, pos' = pos + 1
        PROVE  Plain' /\ Taken' = Taken /\ UNCHANGED <<last, stack, brackets, statements, result>>
    <3>1. U[pos + 1] = U[pos]
      BY <1>3, <1>4, <2>1, <2>2, <2>6, NextTokenEffect DEF c, N
    <3>2. Boundary(file, pos + 1)
      BY <2>6 DEF Boundary, InWord, c
    <3>3. Plain'
      BY <2>1, <2>6, <3>2 DEF Plain, Begin, Boundary
    <3> QED
      BY <2>1, <2>6, <3>1, <3>3 DEF Taken, Skip, Begin, U
  <2>7. ASSUME state = "INITIAL_WHITESPACE", InWord(c), Into("NORMAL", c), pos' = pos + 1, value = <<>>
        PROVE  Plain' /\ Taken' = Taken /\ UNCHANGED <<last, stack, brackets, statements, result>>
    <3>1. c \notin White /\ ~(InWord(c) /\ pos + 1 > 1 /\ InWord(file[pos]))
      BY <1>3, <2>1, <2>7 DEF Plain, Boundary, InWord, c
    <3>2. Len(U[pos + 1]) = Len(U[pos]) + 1 /\ U[pos + 1][Len(U[pos]) + 1] = <<c>>
      BY <1>3, <1>4, <2>1, <2>2, <3>1, NextTokenEffect, SMTT(30) DEF c, N
    <3>3. value' = <<c>> /\ state' = "NORMAL"
      BY <2>7 DEF Into
    <3>4. U[pos + 1] # <<>> /\ U[pos + 1][Len(U[pos + 1])] = <<c>> /\ pos + 1 >= 1
      BY <1>3, <1>4, <3>2
    <3>5. Plain'
      BY <2>1, <2>4, <2>7, <3>3, <3>4 DEF Plain, U, c
    <3> QED
      BY <1>4, <2>1, <2>7, <3>2, <3>3, <3>5 DEF Taken, Into, Skip, U
  <2>8. ASSUME state = "NORMAL", InWord(c), Into("NORMAL", c), pos' = pos + 1
        PROVE  Plain' /\ Taken' = Taken /\ UNCHANGED <<last, stack, brackets, statements, result>>
    <3>1. InWord(file[pos]) /\ pos + 1 > 1 /\ U[pos] # <<>> /\ value = U[pos][Len(U[pos])] /\ InWord(value[1])
      BY <1>3, <2>8 DEF Plain, U
    <3>2. Len(U[pos + 1]) = Len(U[pos]) /\ U[pos + 1][Len(U[pos])] = Append(value, c)
      BY <1>3, <1>4, <2>1, <2>2, <2>8, <3>1, NextTokenEffect DEF c, N
    <3>3. value' = Append(value, c) /\ state' = "NORMAL"
      BY <2>8 DEF Into
    <3>4. U[pos + 1] # <<>>
      BY <1>4, <2>2, <3>1, <3>2
    <3>5. value'[1] = value[1]
      <4>1. value \in Seq(Char) /\ value # <<>> /\ c \in Char
        BY <1>3, <2>1, <2>8 DEF Lexer, c, N
      <4>2. 1 \in 1..Len(value)
        BY <4>1, EmptySeq, LenProperties
      <4> QED
        BY <3>3, <4>1, <4>2, AppendProperties
    <3>7. Upto(file)' = U /\ pos' = pos + 1 /\ pos + 1 >= 1
      BY <1>3, <2>4, <2>8 DEF U
    <3>8. InWord(file[pos + 1]) /\ file' = file
      BY <2>1, <2>8 DEF c
    <3>9. value' = U[pos + 1][Len(U[pos + 1])] /\ InWord(value'[1])
      BY <3>1, <3>2, <3>3, <3>5
    <3>6. Plain'
      BY <3>3, <3>4, <3>7, <3>8, <3>9 DEF Plain, InWord
    <3> QED
      BY <2>1, <2>8, <3>2, <3>3, <3>6 DEF Taken, Into, Skip, U
  <2>9. ASSUME state = "NORMAL", ~InWord(c), Normal(value), Begin, UNCHANGED pos
        PROVE  Plain' /\ Taken' = Taken + 1 /\ Taken + 1 \in 1..Len(FileTokens) /\ Takes(FileTokens[Taken + 1])
    <3>1. U[pos] # <<>> /\ value = U[pos][Len(U[pos])] /\ InWord(value[1])
      BY <2>9 DEF Plain, U
    <3>2. Boundary(file, pos)
      BY <1>3, <2>1, <2>9 DEF Boundary, c, N
    <3>3. Taken + 1 = Len(U[pos]) /\ Taken' = Len(U[pos])
      BY <1>4, <2>1, <2>9 DEF Taken, Begin, U
    <3>4. Taken + 1 \in 1..Len(U[pos])
      BY <1>4, <3>1, <3>3
    <3>5. u \in Nat /\ pos <= u /\ pos \in 0..Len(file)
      BY <1>2, <1>3, <2>1, <2>3, <2>9 DEF N
    <3>6. Taken + 1 <= Len(FileTokens) /\ FileTokens[Taken + 1] = value
      BY <1>2, <1>3, <3>1, <3>2, <3>3, <3>4, <3>5, TokensOfFile DEF U, N
    <3>7. Plain'
      BY <2>1, <2>9, <3>2 DEF Plain, Begin, Boundary
    <3>8. ~IsSpecial(value)
      <4>1. \A x : <<x>>[1] = x
        OBVIOUS
      <4>2. value[1] \notin {"lbrace", "rbrace", "semi"}
        BY <3>1 DEF InWord, Special
      <4> QED
        BY <4>1, <4>2, SpecialTokens
    <3>9. Len(FileTokens) \in Nat
      BY <1>1, <1>2
    <3>10. Takes(value)
      BY <2>9, <3>8 DEF Takes
    <3>11. Taken + 1 \in 1..Len(FileTokens)
      BY <1>4, <3>4, <3>6, <3>9
    <3> QED
      BY <3>3, <3>6, <3>7, <3>10, <3>11
  <2>10. CASE InitialWhitespace(c) /\ pos' = pos + 1
    <3>1. c # Comment /\ c # "dq" /\ c # "sq"
      BY <2>1 DEF Quote
    <3>2. state = "INITIAL_WHITESPACE" /\ value = <<>>
      BY <2>10 DEF InitialWhitespace, Lexer
    <3>3. CASE c \in Special /\ Single(c) /\ Begin
      BY <2>1, <2>5, <2>10, <3>2, <3>3 DEF Advance
    <3>4. CASE c \in White /\ Skip /\ Begin
      BY <2>1, <2>6, <2>10, <3>2, <3>4 DEF Advance
    <3>5. CASE c \notin Special \cup White \cup Quote \cup {Comment} /\ Into("NORMAL", c)
      <4>1. InWord(c)
        BY <3>5 DEF InWord
      <4> QED
        BY <2>1, <2>7, <2>10, <3>2, <3>5, <4>1 DEF Advance
    <3> QED
      BY <2>10, <3>1, <3>3, <3>4, <3>5 DEF InitialWhitespace
  <2>11. CASE Word(c) /\ pos' = pos + 1
    BY <2>1, <2>8, <2>11 DEF Word, InWord, White, Advance
  <2>12. CASE WordEnds(c) /\ UNCHANGED pos
    BY <2>1, <2>9, <2>12 DEF WordEnds, InWord, White, Advance
  <2>13. ~Quoted(c) /\ ~InComment(c)
    BY DEF Plain, Quoted, InComment
  <2> QED
    BY <1>6, <2>1, <2>10, <2>11, <2>12, <2>13 DEF Read, c
<1> QED
  BY <1>5, <1>6 DEF Next, Returned

\* What Valid asks of a token and the one before it.
Follows(ts, n) ==
  /\ ts[n] \in {<<"semi">>, <<"lbrace">>} => n > 1 /\ ~IsSpecial(ts[n - 1])
  /\ ts[n] = <<"rbrace">> => n > 1 /\ IsSpecial(ts[n - 1])

\* Parse has taken the first k of the tokens ts and not refused any: BracketCount and
\* last_token_type are what these tokens make of them.  The stack may have become
\* empty with the last of them.
Grammar(ts, k) ==
  /\ brackets = Count(ts, k, "lbrace") - Count(ts, k, "rbrace")
  /\ \A n \in 1..k : Follows(ts, n)
  /\ \A n \in 1..(k - 1) : Count(ts, n, "lbrace") >= Count(ts, n, "rbrace")
  /\ last = IF k = 0 THEN "START"
            ELSE IF ts[k] = <<"semi">> THEN "STATEMENT_END"
            ELSE IF ts[k] = <<"lbrace">> THEN "START_BLOCK"
            ELSE IF ts[k] = <<"rbrace">> THEN "END_BLOCK"
            ELSE "NORMAL"

\* One more token adds one to the count of its kind.
LEMMA CountStep ==
  ASSUME NEW ts, NEW k \in Nat, NEW t
  PROVE  /\ Count(ts, k, t) \in Nat
         /\ Count(ts, 0, t) = 0
         /\ Count(ts, k + 1, t) = Count(ts, k, t) + IF ts[k + 1] = <<t>> THEN 1 ELSE 0
<1> DEFINE A == {i \in 1..k : ts[i] = <<t>>}
           B == {i \in 1..(k + 1) : ts[i] = <<t>>}
<1>1. IsFiniteSet(1..k)
  BY FS_Interval
<1>2. IsFiniteSet(A)
  BY <1>1, FS_Subset
<1>3. Cardinality(A) \in Nat
  BY <1>2, FS_CardinalityType
<1>4. {i \in 1..0 : ts[i] = <<t>>} = {}
  OBVIOUS
<1>5. Count(ts, 0, t) = 0
  BY <1>4, FS_EmptySet DEF Count
<1>6. CASE ts[k + 1] = <<t>>
  <2>1. B = A \cup {k + 1} /\ k + 1 \notin A
    BY <1>6
  <2>2. Cardinality(A \cup {k + 1}) = Cardinality(A) + 1
    BY <1>2, <2>1, FS_AddElement
  <2> QED
    BY <1>3, <1>5, <1>6, <2>1, <2>2 DEF Count
<1>7. CASE ts[k + 1] # <<t>>
  <2>1. B = A
    BY <1>7
  <2> QED
    BY <1>3, <1>5, <1>7, <2>1 DEF Count
<1> QED
  BY <1>6, <1>7

\* Parse takes the next token if the tokens up to it can be the beginning of a valid
\* file, and refuses it, or fails on an empty stack, only if they cannot.
LEMMA GrammarStep ==
  ASSUME Parser, Tree, result = "none",
         NEW ts \in Seq(Token), NEW k \in Nat, k + 1 \in 1..Len(ts), Grammar(ts, k), Takes(ts[k + 1])
  PROVE  \/ result' = "none" /\ Grammar(ts, k + 1)'
         \/ result' \in {"false", "undefined"} /\ ~Valid(ts)
<1> DEFINE O == Count(ts, k, "lbrace")
           C == Count(ts, k, "rbrace")
           t == ts[k + 1]
<1>1. /\ O \in Nat /\ C \in Nat
      /\ Count(ts, k + 1, "lbrace") = O + IF t = <<"lbrace">> THEN 1 ELSE 0
      /\ Count(ts, k + 1, "rbrace") = C + IF t = <<"rbrace">> THEN 1 ELSE 0
      /\ (k = 0 => O = 0 /\ C = 0)
  <2>1. /\ O \in Nat /\ Count(ts, 0, "lbrace") = 0
        /\ Count(ts, k + 1, "lbrace") = O + IF ts[k + 1] = <<"lbrace">> THEN 1 ELSE 0
    BY CountStep, ZenonT(30)
  <2>2. /\ C \in Nat /\ Count(ts, 0, "rbrace") = 0
        /\ Count(ts, k + 1, "rbrace") = C + IF ts[k + 1] = <<"rbrace">> THEN 1 ELSE 0
    BY CountStep, ZenonT(30)
  <2>3. k = 0 => O = 0 /\ C = 0
    BY <2>1, <2>2, Zenon
  <2>4. t = ts[k + 1]
    OBVIOUS
  <2> HIDE DEF O, C, t
  <2> QED
    BY <2>1, <2>2, <2>3, <2>4
<1>2. brackets = O - C /\ Len(stack) = brackets + 1 /\ Len(stack) \in Nat
  BY DEF Grammar, Parser, Tree
<1>3. stack # <<>> => O >= C
  BY <1>1, <1>2, EmptySeq DEF Parser
<1>4. stack = <<>> => ~Valid(ts)
  <2> SUFFICES ASSUME stack = <<>> PROVE ~Valid(ts)
    OBVIOUS
  <2>1. ~(O >= C) /\ k # 0
    BY <1>1, <1>2, SMTT(30)
  <2>2. k \in DOMAIN ts
    BY <2>1
  <2> QED
    BY <2>1, <2>2 DEF Valid
<1>5. ~Follows(ts, k + 1) => ~Valid(ts)
  BY DEF Valid, Follows
<1>6. (k + 1) - 1 = k /\ (k + 1 > 1 <=> k # 0) /\ (\A n \in 1..k : n = k \/ n \in 1..(k - 1))
        /\ (\A n \in 1..(k + 1) : n = k + 1 \/ n \in 1..k)
  OBVIOUS
<1>7. last = "NORMAL" <=> k # 0 /\ ~IsSpecial(ts[k])
  BY SpecialTokens DEF Grammar
<1>8. last \in {"STATEMENT_END", "START_BLOCK", "END_BLOCK"} <=> k # 0 /\ IsSpecial(ts[k])
  BY SpecialTokens DEF Grammar
<1>9. last = "NORMAL" => stack # <<>>
  BY DEF Tree
<1> HIDE DEF O, C, t
\* The part of Grammar that speaks of tokens, once the token may follow.
<1>10. ASSUME Follows(ts, k + 1), O >= C
       PROVE  /\ \A n \in 1..(k + 1) : Follows(ts, n)
              /\ \A n \in 1..((k + 1) - 1) : Count(ts, n, "lbrace") >= Count(ts, n, "rbrace")
  BY <1>6, <1>10 DEF Grammar, O, C
<1>11. k + 1 # 0 /\ <<"lbrace">> # <<"rbrace">> /\ <<"lbrace">> # <<"semi">> /\ <<"rbrace">> # <<"semi">>
  OBVIOUS
<1>12. CASE t = <<"lbrace">> /\ StartBlock
  <2>1. CASE last # "NORMAL"
    <3>1. ~Follows(ts, k + 1)
      BY <1>6, <1>7, <1>12, <2>1 DEF Follows, t
    <3> QED
      BY <1>5, <1>12, <2>1, <3>1 DEF StartBlock, Fails
  <2>2. CASE last = "NORMAL"
    <3>1. Follows(ts, k + 1) /\ O >= C
      BY <1>3, <1>6, <1>7, <1>9, <1>11, <1>12, <2>2 DEF Follows, t
    <3>2. brackets' = brackets + 1 /\ last' = "START_BLOCK" /\ result' = result
      BY <1>12, <2>2 DEF StartBlock
    <3>3. brackets' = Count(ts, k + 1, "lbrace") - Count(ts, k + 1, "rbrace")
      BY <1>1, <1>2, <1>11, <1>12, <3>2
    <3> QED
      BY <1>10, <1>11, <1>12, <3>1, <3>2, <3>3 DEF Grammar, t
  <2> QED
    BY <2>1, <2>2
<1>13. CASE t = <<"rbrace">> /\ EndBlock
  <2>1. CASE last \notin {"STATEMENT_END", "START_BLOCK", "END_BLOCK"}
    <3>1. ~Follows(ts, k + 1)
      BY <1>6, <1>8, <1>13, <2>1 DEF Follows, t
    <3> QED
      BY <1>5, <1>13, <2>1, <3>1 DEF EndBlock, Fails
  <2>2. CASE last \in {"STATEMENT_END", "START_BLOCK", "END_BLOCK"} /\ stack = <<>>
    BY <1>4, <1>13, <2>2 DEF EndBlock, NoStack
  <2>3. CASE last \in {"STATEMENT_END", "START_BLOCK", "END_BLOCK"} /\ stack # <<>>
    <3>1. Follows(ts, k + 1) /\ O >= C
      BY <1>3, <1>6, <1>8, <1>11, <1>13, <2>3 DEF Follows, t
    <3>2. brackets' = brackets - 1 /\ last' = "END_BLOCK" /\ result' = result
      BY <1>13, <2>3 DEF EndBlock
    <3>3. brackets' = Count(ts, k + 1, "lbrace") - Count(ts, k + 1, "rbrace")
      BY <1>1, <1>2, <1>11, <1>13, <3>2
    <3> QED
      BY <1>10, <1>11, <1>13, <3>1, <3>2, <3>3 DEF Grammar, t
  <2> QED
    BY <2>1, <2>2, <2>3
<1>14. CASE t = <<"semi">> /\ StatementEnd
  <2>1. CASE last # "NORMAL"
    <3>1. ~Follows(ts, k + 1)
      BY <1>6, <1>7, <1>14, <2>1 DEF Follows, t
    <3> QED
      BY <1>5, <1>14, <2>1, <3>1 DEF StatementEnd, Fails
  <2>2. CASE last = "NORMAL"
    <3>1. Follows(ts, k + 1) /\ O >= C
      BY <1>3, <1>6, <1>7, <1>9, <1>11, <1>14, <2>2 DEF Follows, t
    <3>2. brackets' = brackets /\ last' = "STATEMENT_END" /\ result' = result
      BY <1>14, <2>2 DEF StatementEnd
    <3>3. brackets' = Count(ts, k + 1, "lbrace") - Count(ts, k + 1, "rbrace")
      BY <1>1, <1>2, <1>11, <1>14, <3>2
    <3> QED
      BY <1>10, <1>11, <1>14, <3>1, <3>2, <3>3 DEF Grammar, t
  <2> QED
    BY <2>1, <2>2
<1>15. CASE ~IsSpecial(t) /\ Normal(t)
  <2>0. t # <<"lbrace">> /\ t # <<"rbrace">> /\ t # <<"semi">>
    BY <1>15, SpecialTokens
  <2>1. CASE stack = <<>>
    BY <1>4, <1>15, <2>1 DEF Normal, NoStack
  <2>2. CASE stack # <<>>
    <3>1. Follows(ts, k + 1) /\ O >= C
      BY <1>3, <2>0, <2>2 DEF Follows, t
    <3>2. brackets' = brackets /\ last' = "NORMAL" /\ result' = result
      BY <1>15, <2>2 DEF Normal
    <3>3. brackets' = Count(ts, k + 1, "lbrace") - Count(ts, k + 1, "rbrace")
      BY <1>1, <1>2, <2>0, <3>2
    <3> QED
      BY <1>10, <1>11, <2>0, <3>1, <3>2, <3>3 DEF Grammar, t
  <2> QED
    BY <2>1, <2>2
<1> QED
  BY <1>12, <1>13, <1>14, <1>15 DEF Takes, t

\* At the end of the file Parse returns true if the tokens make a valid file, and false
\* otherwise.
LEMMA GrammarEnd ==
  ASSUME Parser, NEW ts \in Seq(Token), Grammar(ts, Len(ts)), Eof
  PROVE  result' \in {"true", "false"} /\ (result' = "true" <=> Valid(ts))
<1> DEFINE k == Len(ts)
           O == Count(ts, k, "lbrace")
           C == Count(ts, k, "rbrace")
<1>1. k \in Nat /\ DOMAIN ts = 1..k
  OBVIOUS
<1>2. O \in Nat /\ C \in Nat
  BY <1>1, CountStep
<1>3. brackets = 0 <=> O = C
  BY <1>2 DEF Grammar
<1>4. result' = IF last \in {"STATEMENT_END", "END_BLOCK", "START"} /\ brackets = 0 THEN "true" ELSE "false"
  BY DEF Eof
<1>5. last \in {"STATEMENT_END", "END_BLOCK", "START"} <=> k = 0 \/ ts[k] \in {<<"semi">>, <<"rbrace">>}
  <2>1. <<"lbrace">> # <<"rbrace">> /\ <<"lbrace">> # <<"semi">> /\ <<"rbrace">> # <<"semi">>
    OBVIOUS
  <2> HIDE DEF k
  <2>2. last = IF k = 0 THEN "START"
               ELSE IF ts[k] = <<"semi">> THEN "STATEMENT_END"
               ELSE IF ts[k] = <<"lbrace">> THEN "START_BLOCK"
               ELSE IF ts[k] = <<"rbrace">> THEN "END_BLOCK"
               ELSE "NORMAL"
    BY DEF Grammar, k
  <2> QED
    BY <2>1, <2>2
<1> HIDE DEF O, C, k
<1>6. ASSUME result' = "true" PROVE Valid(ts)
  <2>1. O = C /\ (k = 0 \/ ts[k] \in {<<"semi">>, <<"rbrace">>})
    BY <1>3, <1>4, <1>5, <1>6
  <2>2. \A n \in 1..k : n = k \/ n \in 1..(k - 1)
    BY <1>1
  <2>3. \A n \in DOMAIN ts : Count(ts, n, "lbrace") >= Count(ts, n, "rbrace")
    <3>1. \A n \in 1..(k - 1) : Count(ts, n, "lbrace") >= Count(ts, n, "rbrace")
      BY DEF Grammar, k
    <3>2. Count(ts, k, "lbrace") >= Count(ts, k, "rbrace")
      BY <1>2, <2>1 DEF O, C
    <3> QED
      BY <1>1, <2>2, <3>1, <3>2
  <2>4. \A n \in DOMAIN ts : Follows(ts, n) /\ (n = k => ts[n] \in {<<"semi">>, <<"rbrace">>})
    BY <1>1, <2>1 DEF Grammar, k
  <2> QED
    BY <2>1, <2>3, <2>4 DEF Valid, Follows, k, O, C
<1>7. ASSUME Valid(ts) PROVE result' = "true"
  <2>1. O = C /\ \A n \in DOMAIN ts : n = k => ts[n] \in {<<"semi">>, <<"rbrace">>}
    BY <1>7 DEF Valid, k, O, C
  <2>2. k = 0 \/ k \in DOMAIN ts
    BY <1>1
  <2> QED
    BY <1>3, <1>4, <1>5, <2>1, <2>2
<1> QED
  BY <1>4, <1>6, <1>7

\* Parse has taken the tokens of the file so far, or has returned what Valid says.
Verdict ==
  PlainFile =>
    /\ Plain
    /\ Taken \in 0..Len(FileTokens)
    /\ result = "none" => Grammar(FileTokens, Taken)
    /\ result = "true" => Valid(FileTokens)
    /\ result \in {"false", "undefined"} => ~Valid(FileTokens)

\* The tokens of the file are tokens.
LEMMA FileTokensType == Lexer => FileTokens \in Seq(Token) /\ Len(FileTokens) \in Nat
<1> SUFFICES ASSUME Lexer PROVE FileTokens \in Seq(Token) /\ Len(FileTokens) \in Nat
  OBVIOUS
<1>1. \E u \in 0..Len(file) : FileTokens = Upto(file)[u]
  BY UncutTokens DEF Lexer, FileTokens
<1>2. Upto(file) \in [0..Len(file) -> Seq(Token)]
  BY TokensLoop DEF Lexer
<1>3. FileTokens \in Seq(Token)
  BY <1>1, <1>2
<1> QED
  BY <1>3, LenProperties

\* For files of any length without quotes, comments and carriage returns, Parse accepts
\* the sequences of statements and nothing else.
THEOREM ParserAcceptsGrammar == Spec => []AcceptsValid
<1>1. Init => Verdict
  <2> SUFFICES ASSUME Init PROVE Verdict
    OBVIOUS
  <2>1. Lexer /\ file \in Seq(Char)
    BY InitInv DEF Lexer
  <2>2. Upto(file)[0] = <<>>
    BY <2>1, TokensLoop
  <2>3. Taken = 0 /\ Plain
    BY <2>2 DEF Init, Taken, Plain, Boundary
  <2>4. Len(FileTokens) \in Nat
    BY <2>1, FileTokensType
  <2>5. Count(FileTokens, 0, "lbrace") = 0 /\ Count(FileTokens, 0, "rbrace") = 0
    BY CountStep
  <2>6. Grammar(FileTokens, 0)
    BY <2>5 DEF Init, Grammar
  <2> QED
    BY <2>3, <2>4, <2>6 DEF Init, Verdict
<1>2. ASSUME Lexer, Parser, Tree, Verdict, [Next]_vars PROVE Verdict'
  <2>1. CASE result = "none" /\ Next
    <3> SUFFICES ASSUME PlainFile' PROVE Verdict'
      BY DEF Verdict
    <3>0. UNCHANGED file
      BY <2>1 DEF Next, Read, EndOfFile, Returned, vars
    <3>1. PlainFile /\ FileTokens' = FileTokens
      BY <3>0 DEF PlainFile, FileTokens
    <3>8. PlainFile
      BY <3>1
    <3>2. Plain /\ Taken \in 0..Len(FileTokens) /\ Grammar(FileTokens, Taken)
      BY <1>2, <2>1, <3>1 DEF Verdict
    <3>3. FileTokens \in Seq(Token) /\ Len(FileTokens) \in Nat /\ Taken \in Nat
      BY <1>2, <3>2, FileTokensType
    <3>9. Plain
      BY <3>2
    <3>4. Plain' /\ Advance
      BY <1>2, <2>1, <3>8, <3>9, PlainStep
    <3> DEFINE ts == FileTokens
               k == Taken
    <3>5. CASE Taken' = Taken /\ UNCHANGED <<last, stack, brackets, statements, result>>
      <4>1. Grammar(ts, k)'
        BY <3>1, <3>2, <3>5 DEF Grammar
      <4> QED
        BY <2>1, <3>1, <3>2, <3>4, <3>5, <4>1 DEF Verdict
    <3>6. CASE Taken' = Taken + 1 /\ Taken + 1 \in 1..Len(FileTokens) /\ Takes(FileTokens[Taken + 1])
      <4>1. PICK t : t = FileTokens
        OBVIOUS
      <4>2. PICK n : n = Taken
        OBVIOUS
      <4>3. \/ result' = "none" /\ Grammar(t, n + 1)'
            \/ result' \in {"false", "undefined"} /\ ~Valid(t)
        BY <1>2, <2>1, <3>2, <3>3, <3>6, <4>1, <4>2, GrammarStep
      <4>4. t = FileTokens' /\ n + 1 = Taken'
        BY <3>1, <3>6, <4>1, <4>2
      <4>5. result' = "none" => Grammar(FileTokens, Taken)'
        BY <4>3, <4>4 DEF Grammar
      <4>6. result' # "none" => result' \in {"false", "undefined"} /\ ~Valid(FileTokens')
        BY <4>3, <4>4
      <4>7. Taken' \in 0..Len(FileTokens')
        BY <3>1, <3>3, <3>6
      <4> QED
        BY <3>4, <4>5, <4>6, <4>7 DEF Verdict
    <3>7. CASE Taken' = Taken /\ Taken = Len(FileTokens) /\ Eof
      <4>1. result' \in {"true", "false"} /\ (result' = "true" <=> Valid(FileTokens))
        BY <1>2, <3>2, <3>3, <3>7, GrammarEnd
      <4> QED
        BY <3>1, <3>2, <3>4, <3>7, <4>1 DEF Verdict
    <3> QED
      BY <3>4, <3>5, <3>6, <3>7 DEF Advance
  <2>2. CASE result # "none" \/ UNCHANGED vars
    <3>1. UNCHANGED vars
      BY <1>2, <2>2 DEF Next, Read, EndOfFile, Returned
    <3> QED
      BY <1>2, <3>1 DEF vars, Verdict, PlainFile, Plain, Boundary, Taken, FileTokens, Grammar
  <2> QED
    BY <1>2, <2>1, <2>2
<1>3. Parser /\ Verdict => AcceptsValid
  BY DEF Parser, Verdict, AcceptsValid, FileTokens
<1> QED
  BY Invariant, <1>1, <1>2, <1>3, PTL DEF Spec
=============================================================================
