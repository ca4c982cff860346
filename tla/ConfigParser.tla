---------------------------- MODULE ConfigParser ----------------------------
(***************************************************************************)
(* NginxConfigParser: ParseToken reads the file character by character,    *)
(* Parse turns the tokens into a tree of statements.  One step reads one   *)
(* character, or meets the end of the file, and handles the token that is  *)
(* complete with it.                                                       *)
(*                                                                         *)
(* The tree is a sequence of statements in the order of their creation,    *)
(* each with the statement whose block it is in (0: none), its tokens and  *)
(* whether it has a block of its own; config_stack holds the statements    *)
(* whose blocks are open, 0 for the config that the caller has passed.     *)
(***************************************************************************)
EXTENDS Integers, FiniteSets, Sequences, SequencesExt

CONSTANTS
  Char,       \* the characters that files are made of
  MaxLength   \* bound: characters of a file

ASSUME ConfigAssumption ==
  /\ Char \subseteq STRING
  /\ MaxLength \in Nat

VARIABLES
  file,        \* the characters of the file
  pos,         \* the characters of it that are read
  state,       \* TokenParserState
  value,       \* the value of the token being read
  last,        \* last_token_type
  stack,       \* config_stack
  brackets,    \* BracketCount
  statements,  \* the tree
  result       \* of Parse: "none" while it runs

vars == <<file, pos, state, value, last, stack, brackets, statements, result>>

White == {"sp", "tab", "nl", "cr"}
Special == {"lbrace", "rbrace", "semi"}
Quote == {"dq", "sq"}
Comment == "hash"

Init ==
  /\ file \in UNION {[1..n -> Char] : n \in 0..MaxLength}
  /\ pos = 0
  /\ state = "INITIAL_WHITESPACE"
  /\ value = <<>>
  /\ last = "START"
  /\ stack = <<0>>
  /\ brackets = 0
  /\ statements = <<>>
  /\ result = "none"
-----------------------------------------------------------------------------
(* Parse: what it does with one token.                                       *)

Fails == result' = "false" /\ UNCHANGED <<last, stack, statements>>

\* top() or pop() of an empty stack: whatever follows, the process may end.
NoStack == result' = "undefined" /\ UNCHANGED <<last, stack, statements>>

Skip == UNCHANGED <<last, stack, brackets, statements, result>>

\* The index of the last statement of the config on top of the stack.
Newest ==
  CHOOSE i \in DOMAIN statements :
    /\ statements[i].in = Last(stack)
    /\ \A j \in DOMAIN statements : statements[j].in = Last(stack) => j <= i

Normal(token) ==
  /\ UNCHANGED brackets
  /\ IF stack = <<>> THEN NoStack
     ELSE /\ statements' = IF last = "NORMAL"
                             THEN [statements EXCEPT ![Newest].tokens = Append(@, token)]
                             ELSE Append(statements, [in |-> Last(stack), tokens |-> <<token>>,
                                                      block |-> FALSE])
          /\ last' = "NORMAL"
          /\ UNCHANGED <<stack, result>>

StatementEnd ==
  /\ UNCHANGED brackets
  /\ IF last # "NORMAL" THEN Fails
     ELSE last' = "STATEMENT_END" /\ UNCHANGED <<stack, statements, result>>

StartBlock ==
  /\ brackets' = brackets + 1
  /\ IF last # "NORMAL" THEN Fails
     ELSE /\ statements' = [statements EXCEPT ![Newest].block = TRUE]
          /\ stack' = Append(stack, Newest)
          /\ last' = "START_BLOCK"
          /\ UNCHANGED result

\* Mutant: the block that ends stays on the stack.
EndBlockStays ==
  /\ brackets' = brackets - 1
  /\ IF last \notin {"STATEMENT_END", "START_BLOCK", "END_BLOCK"} THEN Fails
     ELSE last' = "END_BLOCK" /\ UNCHANGED <<stack, statements, result>>

EndBlock ==
  /\ brackets' = brackets - 1
  /\ IF last \notin {"STATEMENT_END", "START_BLOCK", "END_BLOCK"} THEN Fails
     ELSE IF stack = <<>> THEN NoStack
     ELSE stack' = Front(stack) /\ last' = "END_BLOCK" /\ UNCHANGED <<statements, result>>

\* Mutant: the brackets are not counted.
EofUncounted ==
  /\ result' = IF last \in {"STATEMENT_END", "END_BLOCK", "START"} THEN "true" ELSE "false"
  /\ UNCHANGED <<last, stack, brackets, statements>>

Eof ==
  /\ result' = IF last \in {"STATEMENT_END", "END_BLOCK", "START"} /\ brackets = 0
                 THEN "true" ELSE "false"
  /\ UNCHANGED <<last, stack, brackets, statements>>
-----------------------------------------------------------------------------
(* ParseToken: one character.                                                *)

Begin == state' = "INITIAL_WHITESPACE" /\ value' = <<>>

\* Mutant: the first character of a token is lost.
IntoLate(s, c) ==
  /\ state' = s
  /\ value' = IF state = s THEN Append(value, c) ELSE value
  /\ Skip

Into(s, c) == state' = s /\ value' = Append(value, c) /\ Skip

\* The token that a character on its own makes.
Single(c) ==
  \/ c = "lbrace" /\ StartBlock
  \/ c = "rbrace" /\ EndBlock
  \/ c = "semi" /\ StatementEnd

InitialWhitespace(c) ==
  /\ state = "INITIAL_WHITESPACE"
  /\ \/ c \in Special /\ Single(c) /\ Begin
     \/ c \in White /\ Skip /\ Begin
     \/ c = Comment /\ Into("COMMENT", c)
     \/ c = "dq" /\ Into("DOUBLE_QUOTE", c)
     \/ c = "sq" /\ Into("SINGLE_QUOTE", c)
     \/ c \notin Special \cup White \cup Quote \cup {Comment} /\ Into("NORMAL", c)

Quoted(c) ==
  /\ state \in {"SINGLE_QUOTE", "DOUBLE_QUOTE"}
  /\ IF c = (IF state = "SINGLE_QUOTE" THEN "sq" ELSE "dq")
       THEN Normal(Append(value, c)) /\ Begin
       ELSE Into(state, c)

InComment(c) ==
  /\ state = "COMMENT"
  /\ IF c \in {"nl", "cr"} THEN Skip /\ Begin ELSE Into(state, c)

\* A character that ends a word is put back with unget(); the next call of
\* ParseToken takes it as its first.  "cr" does not end a word.
Word(c) ==
  /\ state = "NORMAL"
  /\ c \notin {"sp", "tab", "nl"} \cup Special
  /\ Into(state, c)

WordEnds(c) ==
  /\ state = "NORMAL"
  /\ c \in {"sp", "tab", "nl"} \cup Special
  /\ Normal(value)
  /\ Begin

Read ==
  /\ result = "none"
  /\ pos < Len(file)
  /\ LET c == file[pos + 1]
     IN  \/ InitialWhitespace(c) /\ pos' = pos + 1
         \/ Quoted(c) /\ pos' = pos + 1
         \/ InComment(c) /\ pos' = pos + 1
         \/ Word(c) /\ pos' = pos + 1
         \/ WordEnds(c) /\ UNCHANGED pos
  /\ UNCHANGED file

\* Only an open quote is an error.  A word or a comment that the end of the
\* file cuts off is dropped.
EndOfFile ==
  /\ result = "none"
  /\ pos = Len(file)
  /\ IF state \in {"SINGLE_QUOTE", "DOUBLE_QUOTE"} THEN Fails /\ UNCHANGED brackets ELSE Eof
  /\ UNCHANGED <<file, pos, state, value>>

Returned == result # "none" /\ UNCHANGED vars

Next ==
  \/ Read
  \/ EndOfFile
  \/ Returned

Spec == Init /\ [][Next]_vars
-----------------------------------------------------------------------------
(* NginxConfig::ToString, up to white space: the tokens that it writes.      *)
StatementToString(i, child) ==
  statements[i].tokens \o IF statements[i].block THEN <<<<"lbrace">>>> \o child \o <<<<"rbrace">>>> ELSE <<<<"semi">>>>

\* text[c]: what ToString writes for config c, whose statements come after c.
ConfigToString(config) ==
  LET text[c \in 0..Len(statements)] ==
        LET upto[n \in 0..Len(statements)] ==
              IF n = 0 THEN <<>>
              ELSE IF statements[n].in = c THEN upto[n - 1] \o StatementToString(n, text[n])
              ELSE upto[n - 1]
        IN  upto[Len(statements)]
  IN  text[config]
-----------------------------------------------------------------------------
(* A reference: the tokens of a file without quotes and comments, and the    *)
(* files that are sequences of statements.                                   *)
InWord(c) == c \notin White \cup Special

\* What character n makes of s, the tokens before it.
NextToken(f, n, s) ==
  IF f[n] \in White THEN s
  ELSE IF InWord(f[n]) /\ n > 1 /\ InWord(f[n - 1]) THEN [s EXCEPT ![Len(s)] = Append(@, f[n])]
  ELSE Append(s, <<f[n]>>)

Tokens(f) ==
  LET upto[n \in 0..Len(f)] == IF n = 0 THEN <<>> ELSE NextToken(f, n, upto[n - 1])
  IN  upto[Len(f)]

\* The file without a word that its end cuts off.
Uncut(f) == SubSeq(f, 1, CHOOSE n \in 0..Len(f) :
                           /\ \A i \in (n + 1)..Len(f) : InWord(f[i])
                           /\ n > 0 => ~InWord(f[n]))

Count(ts, n, t) == Cardinality({i \in 1..n : ts[i] = <<t>>})
IsSpecial(t) == t \in {<<c>> : c \in Special}

Valid(ts) ==
  /\ \A n \in DOMAIN ts : Count(ts, n, "lbrace") >= Count(ts, n, "rbrace")
  /\ Count(ts, Len(ts), "lbrace") = Count(ts, Len(ts), "rbrace")
  /\ \A n \in DOMAIN ts :
       /\ ts[n] \in {<<"semi">>, <<"lbrace">>} => n > 1 /\ ~IsSpecial(ts[n - 1])
       /\ ts[n] = <<"rbrace">> => n > 1 /\ IsSpecial(ts[n - 1])
       /\ n = Len(ts) => ts[n] \in {<<"semi">>, <<"rbrace">>}

PlainFile == \A i \in DOMAIN file : file[i] \notin Quote \cup {Comment, "cr"}
-----------------------------------------------------------------------------
\* The variables have their types; a statement belongs to an earlier one.
TypeOK ==
  /\ file \in Seq(Char)
  /\ pos \in 0..Len(file)
  /\ state \in {"INITIAL_WHITESPACE", "SINGLE_QUOTE", "DOUBLE_QUOTE", "COMMENT", "NORMAL"}
  /\ value \in Seq(Char)
  /\ last \in {"START", "NORMAL", "STATEMENT_END", "START_BLOCK", "END_BLOCK"}
  /\ stack \in Seq(0..Len(statements))
  /\ brackets \in Int
  /\ \A i \in DOMAIN statements :
       /\ statements[i].in \in 0..(i - 1)
       /\ statements[i].tokens \in Seq(Seq(Char) \ {<<>>})
       /\ statements[i].block \in BOOLEAN
  /\ result \in {"none", "true", "false", "undefined"}

\* BracketCount and config_stack, which Parse keeps apart, agree: as long as
\* Parse runs, the stack holds one config per open bracket and the caller's,
\* nested in each other; so does every tree that it accepts.
StackIsPath ==
  result \in {"none", "true"} =>
    /\ Len(stack) = brackets + 1
    /\ \A i \in 2..Len(stack) :
         /\ statements[stack[i]].block
         /\ statements[stack[i]].in = stack[i - 1]

\* Parse returns true for the files that are sequences of statements, a word
\* that the end of the file cuts off left aside, and for no others; and the
\* files for which it uses an empty stack are not among them.
AcceptsValid ==
  PlainFile /\ result # "none" => ((result = "true") <=> Valid(Tokens(Uncut(file))))

\* The tree of a file that Parse accepts, written by ToString, has the tokens
\* of the file: no statement is lost, doubled, or in the block of another.
RoundTrip ==
  PlainFile /\ result = "true" => ConfigToString(0) = Tokens(Uncut(file))
=============================================================================
