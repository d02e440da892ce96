---------------------------- MODULE QueryFilter -----------------------------
(***************************************************************************)
(* Which queries are mirrored (query_filter.go).  A query text is a        *)
(* sequence of tokens that grows one token at a time, so that every text   *)
(* up to a length is judged: by the code's algorithms, which look for      *)
(* semicolons, quotes and comments in separate passes, and by Lex, which   *)
(* reads the text once, as a SQL server does.                              *)
(***************************************************************************)
EXTENDS Integers, Sequences, FiniteSetsExt, SequencesExt

CONSTANTS
  Words,            \* keywords and identifiers, in upper case
  Tokens,           \* Words and the marks that are tried, see Marks
  multiWordOps,     \* the table: sequences of words and their names
  Configs,          \* filter configurations that are tried, see NewQueryFilter
  MaxTokens         \* bound: length of a text

\* Opening and closing a block comment are "open" and "close", a line comment
\* begins with "dashes" and ends with "newline".
Space == {"blank", "newline"}
Quotes == {"single", "double", "backtick"}
Marks == Space \cup Quotes \cup
  {"paren", "semicolon", "backslash", "open", "close", "dashes"}

ASSUME FilterAssumption ==
  /\ Words \cap Marks = {}
  /\ Tokens \subseteq Words \cup Marks
  /\ MaxTokens \in Nat

VARIABLES
  text,             \* the text of a query
  lex               \* what the reference has read of it, see LexStep

vars == <<text, lex>>

-----------------------------------------------------------------------------
(* Cutting a text into statements.                                         *)

\* strings.TrimSpace
TrimSpace(s) ==
  LET kept == {i \in 1..Len(s) : s[i] \notin Space}
  IN  IF kept = {} THEN <<>> ELSE SubSeq(s, Min(kept), Max(kept))

AddStatement(stmts, s) ==
  stmts \o SelectSeq(<<TrimSpace(s)>>, LAMBDA stmt : stmt # <<>>)

\* Mutant: a quote of any kind ends a quoted string.
AnyQuoteToggles(quote, c) == IF quote = "" THEN c ELSE ""

\* The three flags inSingleQuote, inDoubleQuote and inBacktick, of which at
\* most one is set: a quote counts only outside the other kinds.
Toggle(quote, c) ==
  CASE quote = "" -> c
    [] quote = c  -> ""
    [] OTHER      -> quote

\* One round of the loop of splitStatements.
SplitStep(st, c) ==
  CASE st.escaped ->
         [st EXCEPT !.current = Append(@, c), !.escaped = FALSE]
    [] ~st.escaped /\ c = "backslash" ->
         [st EXCEPT !.current = Append(@, c), !.escaped = TRUE]
    [] ~st.escaped /\ c \in Quotes ->
         [st EXCEPT !.current = Append(@, c), !.quote = Toggle(@, c)]
    [] ~st.escaped /\ c = "semicolon" /\ st.quote = "" ->
         [st EXCEPT !.stmts = AddStatement(@, st.current), !.current = <<>>]
    [] OTHER -> [st EXCEPT !.current = Append(@, c)]

splitStatements(query) ==
  LET start == [stmts |-> <<>>, current |-> <<>>, quote |-> "", escaped |-> FALSE]
      last == FoldLeft(SplitStep, start, query)
  IN  AddStatement(last.stmts, last.current)
-----------------------------------------------------------------------------
(* The operation of a statement.                                           *)

\* The first position of token c in s, or 0.
Index(s, c) ==
  LET at == {i \in 1..Len(s) : s[i] = c} IN IF at = {} THEN 0 ELSE Min(at)

From(s, i) == SubSeq(s, i, Len(s))

\* What follows the first c, or nothing.
After(s, c) == IF Index(s, c) = 0 THEN <<>> ELSE From(s, Index(s, c) + 1)

RECURSIVE stripLeadingComments(_)
stripLeadingComments(s0) ==
  LET s == TrimSpace(s0)
  IN  IF s = <<>> THEN <<>>
      ELSE CASE s[1] = "dashes" -> stripLeadingComments(After(s, "newline"))
             [] s[1] = "open" -> stripLeadingComments(After(s, "close"))
             [] OTHER -> s

RECURSIVE stripAllBlockComments(_)
stripAllBlockComments(s) ==
  LET start == Index(s, "open")
      tail == From(s, start + 1)
  IN  IF start = 0 \/ Index(tail, "close") = 0 THEN s
      ELSE stripAllBlockComments(
             SubSeq(s, 1, start - 1) \o <<"blank">> \o After(tail, "close"))

SkipSpace(s) ==
  LET kept == {i \in 1..Len(s) : s[i] \notin Space}
  IN  IF kept = {} THEN <<>> ELSE From(s, Min(kept))

\* The length of the word at the beginning of s, 0 at a parenthesis.
WordLength(s) ==
  LET stops == {i \in 1..Len(s) : s[i] \in Space \cup {"paren"}}
  IN  IF stops = {} THEN Len(s) ELSE Min(stops) - 1

AddWord(word, prefix) == [prefix EXCEPT !.words = <<word>> \o @]

\* The words at the beginning of s, up to an opening parenthesis, and the rest.
RECURSIVE normalizeWhitespacePrefix(_, _)
normalizeWhitespacePrefix(s, maxWords) ==
  LET t == SkipSpace(s)
      n == WordLength(t)
  IN  IF maxWords = 0 THEN [words |-> <<>>, rest |-> s]
      ELSE IF n = 0 THEN [words |-> <<>>, rest |-> t]
      ELSE AddWord(SubSeq(t, 1, n),
                   normalizeWhitespacePrefix(From(t, n + 1), maxWords - 1))

\* The entries of the table that are prefixes of words, word for word.
Matching(words) ==
  {w \in DOMAIN multiWordOps :
     /\ Len(w) <= Len(words)
     /\ \A i \in 1..Len(w) : words[i] = <<w[i]>>}

\* The operation in the table or else the first word.
PrefixOperation(prefix, found) ==
  IF found # {} THEN <<multiWordOps[CHOOSE w \in found : TRUE]>>
  ELSE IF prefix.words = <<>> THEN prefix.rest
  ELSE prefix.words[1]

NormalizedOperation(prefix) == PrefixOperation(prefix, Matching(prefix.words))

\* Operations are sequences of tokens, <<>> being none.
extractStatementOperation(stmt) ==
  LET s == stripLeadingComments(stmt)
  IN  IF s = <<>> THEN <<>>
      ELSE NormalizedOperation(
             normalizeWhitespacePrefix(stripAllBlockComments(s), 4))

preambleOperations == {<<"SET">>, <<"SET_CATALOG">>, <<"USE">>}

\* The last operation that is no preamble, or else the last operation.
PrimaryOperation(ops) ==
  LET any == {i \in 1..Len(ops) : ops[i] # <<>>}
      main == {i \in any : ops[i] \notin preambleOperations}
  IN  IF main # {} THEN ops[Max(main)]
      ELSE IF any # {} THEN ops[Max(any)]
      ELSE <<"UNKNOWN">>

Operations(stmts) ==
  [i \in 1..Len(stmts) |-> extractStatementOperation(stmts[i])]

ExtractPrimarySQLOperation(queryText) ==
  PrimaryOperation(Operations(splitStatements(queryText)))
-----------------------------------------------------------------------------
(* The decision.  Reasons are "none" for a query that is mirrored, and the *)
(* three of the filter.  A pattern is a word, matched anywhere in the text *)
(* (a regular expression); the rate is in percent.                         *)

Skipped == "empty"
BadPattern == "bad"

NoFilter == [mode |-> "nil"]
ConfigError == [mode |-> "error"]

Mode(config) == IF config.mode = "" THEN "include" ELSE config.mode

\* nil when nothing is configured, else the filter or an error.
NewQueryFilter(config) ==
  IF /\ config.mode = "" /\ config.ops = {} /\ config.patterns = {}
     /\ config.rate >= 100
  THEN NoFilter
  ELSE IF \/ config.rate < 0 \/ config.rate > 100
          \/ Mode(config) \notin {"include", "exclude"}
          \/ BadPattern \in config.patterns
  THEN ConfigError
  ELSE [mode     |-> Mode(config),
        ops      |-> config.ops \ {Skipped},
        patterns |-> config.patterns \ {Skipped},
        rate     |-> config.rate]

matchAnyPattern(f, queryText) == \E p \in f.patterns : Contains(queryText, p)

HasOperation(f, queryText) ==
  ExtractPrimarySQLOperation(queryText) \in {<<op>> : op \in f.ops}

\* Mutant: one matching criterion is enough.
MatchIncludeAny(f, queryText) ==
  IF HasOperation(f, queryText) \/ matchAnyPattern(f, queryText) THEN "none"
  ELSE IF f.ops # {} THEN "sql_operation"
  ELSE IF f.patterns # {} THEN "pattern"
  ELSE "none"

matchInclude(f, queryText) ==
  IF f.ops # {} /\ ~HasOperation(f, queryText) THEN "sql_operation"
  ELSE IF f.patterns # {} /\ ~matchAnyPattern(f, queryText) THEN "pattern"
  ELSE "none"

matchExclude(f, queryText) ==
  IF f.ops # {} /\ HasOperation(f, queryText) THEN "sql_operation"
  ELSE IF f.patterns # {} /\ matchAnyPattern(f, queryText) THEN "pattern"
  ELSE "none"

passesFilter(f, queryText) ==
  IF f.mode = "include" THEN matchInclude(f, queryText) ELSE matchExclude(f, queryText)

AllowDeterministic(f, queryText) ==
  IF queryText = <<>> THEN "none" ELSE passesFilter(f, queryText)

\* The roll of the dice, a choice, for a query that is not filtered.
Sampled(f, reason) ==
  IF reason # "none" \/ f.rate >= 100 THEN {reason}
  ELSE IF f.rate > 0 THEN {"none", "sampling"} ELSE {"sampling"}

\* The reasons Allow can give.
Allow(f, queryText) ==
  IF queryText = <<>> THEN {"none"} ELSE Sampled(f, passesFilter(f, queryText))
-----------------------------------------------------------------------------
(* The reference: one pass over the text, which always knows whether it is *)
(* in code, in a quoted string or in a comment.  plain turns false when    *)
(* the text uses what the code's passes are not written for: a quote,      *)
(* semicolon or backslash in a comment, a backslash outside a string, a    *)
(* line comment within a statement, a comment closed that is not open, a   *)
(* string directly behind a word, a statement that does not begin with a   *)
(* word.                                                                   *)

LexStart ==
  [stmts |-> <<>>, current |-> <<>>, in |-> "code", escaped |-> FALSE,
   before |-> "blank", plain |-> TRUE]

Significant(st, c) ==
  [st EXCEPT !.current = Append(@, c),
             !.plain = @ /\ (st.current = <<>> => c \in Words)]

LexCode(st, c) ==
  CASE c \in Space -> st
    [] c \in Words \cup {"paren"} -> Significant(st, c)
    [] c \in Quotes -> [Significant(st, c) EXCEPT
                          !.in = c, !.plain = @ /\ st.before \notin Words]
    [] c = "semicolon" -> [st EXCEPT !.stmts = Append(@, st.current), !.current = <<>>]
    [] c = "open" -> [st EXCEPT !.in = "block"]
    [] c = "dashes" -> [st EXCEPT !.in = "line", !.plain = @ /\ st.current = <<>>]
    [] OTHER -> [st EXCEPT !.plain = FALSE]

LexComment(st, c) ==
  LET closing == IF st.in = "block" THEN "close" ELSE "newline"
  IN  [st EXCEPT !.in = IF c = closing THEN "code" ELSE @,
                 !.plain = @ /\ c \notin Quotes \cup {"semicolon", "backslash"}]

LexQuoted(st, c) ==
  CASE st.escaped -> [st EXCEPT !.escaped = FALSE]
    [] ~st.escaped /\ c = "backslash" ->
         [st EXCEPT !.escaped = TRUE, !.plain = @ /\ st.in # "backtick"]
    [] ~st.escaped /\ c = st.in -> [st EXCEPT !.in = "code"]
    [] OTHER -> st

LexStep(st, c) ==
  LET next == CASE st.in = "code" -> LexCode(st, c)
                [] st.in \in Quotes -> LexQuoted(st, c)
                [] OTHER -> LexComment(st, c)
  IN  [next EXCEPT !.before = c]

\* The text ends neither in a string nor in a block comment.
Complete == lex.in \in {"code", "line"}

StatementOperation(s) ==
  LET found == {w \in DOMAIN multiWordOps : IsPrefix(w, s)}
  IN  IF found = {} THEN s[1] ELSE multiWordOps[CHOOSE w \in found : TRUE]

\* The last operation that is no session set-up, or else the last operation.
Operation ==
  LET stmts == Append(lex.stmts, lex.current)
      ops == [i \in 1..Len(stmts) |->
                IF stmts[i] = <<>> THEN "" ELSE StatementOperation(stmts[i])]
      all == SelectSeq(ops, LAMBDA op : op # "")
      main == SelectSeq(all, LAMBDA op : <<op>> \notin preambleOperations)
  IN  Last(<<"UNKNOWN">> \o IF main = <<>> THEN all ELSE main)
-----------------------------------------------------------------------------
(* The texts.                                                              *)

\* Two words in a row are one word, and two comment marks of a kind in a row
\* share a character with one of the other kind.
Apart(c, d) == ~(c \in Words /\ d \in Words) /\ ~(c = d /\ c \in {"open", "close"})

Init == text = <<>> /\ lex = LexStart

Type(c) ==
  /\ Len(text) < MaxTokens
  /\ text # <<>> => Apart(Last(text), c)
  /\ text' = Append(text, c)
  /\ lex' = LexStep(lex, c)
  /\ lex'.plain

Next == \E c \in Tokens : Type(c)

Spec == Init /\ [][Next]_vars
-----------------------------------------------------------------------------
\* ExtractPrimarySQLOperation: although semicolons, quotes and comments are
\* looked for in separate passes, the operation found is that of the last
\* statement that is no session set-up, as one pass over the text reads it.
OperationDetected ==
  Complete => ExtractPrimarySQLOperation(text) = <<Operation>>

\* The configurations whose meaning the documentation and the code agree on.
\* Criteria without a mode are not among them: the documentation says that
\* they are disabled, the code takes them for those of an include filter.
ModeSet(config) ==
  config.mode # "" \/ (config.ops = {} /\ config.patterns = {})

\* The filters that these make.
Filters ==
  {NewQueryFilter(config) : config \in {c \in Configs : ModeSet(c)}}
    \ {NoFilter, ConfigError}

\* What a filter matches of the text, one Boolean for each criterion it sets.
Matches(f, op) ==
  {(op \in f.ops) : o \in f.ops} \cup
  {(\E w \in f.patterns : Contains(text, w)) : p \in f.patterns}

\* Sampling drops at a rate below one, and everything at a rate of zero.
Expected(f, passes, unsampled, verdicts) ==
  /\ unsampled = "none" <=> passes
  /\ "none" \in verdicts <=> passes /\ f.rate > 0
  /\ "sampling" \in verdicts <=> passes /\ f.rate < 100

\* Allow and NewQueryFilter: for every configuration that is accepted and sets
\* a mode, an include filter mirrors what meets all its criteria and an exclude
\* filter what meets none; with neither mode nor criteria everything is
\* mirrored but for sampling; sampling drops only among what these mirror,
\* never at a rate of one and always at a rate of zero, and AllowDeterministic
\* drops none of them; a command without text is always mirrored.
Documented ==
  Complete =>
    \A f \in Filters :
      IF text = <<>> THEN Allow(f, text) = {"none"}
      ELSE Expected(f, (f.mode = "exclude") \notin Matches(f, Operation),
                    AllowDeterministic(f, text), Allow(f, text))
=============================================================================
