--------------------------- MODULE MysqlResponse ----------------------------
(***************************************************************************)
(* The MySQL response parser (mysql_protocol.go): which packets belong to  *)
(* the response of a command.  ReadFullResponse (shadow) and               *)
(* ReadAndForwardResponse (primary) walk the same automaton, one packet    *)
(* per step; a packet is what its first byte, length and status flags make *)
(* of it.  The servers' side, the responses a command can get, is the      *)
(* MySQL text and binary protocol with EOF markers.                        *)
(***************************************************************************)
EXTENDS Naturals, Sequences

CONSTANTS
  MaxCols,        \* bound: how many columns a result has
  MaxRows         \* bound: how many rows

\* A count of 2^24 or more would start with the byte of an EOF packet.
ASSUME ResponseAssumption ==
  MaxCols \in Nat \ {0} /\ MaxCols < 2 ^ 24 /\ MaxRows \in Nat

\* k: 0x00 "ok", 0xFF "err", 0xFB "infile", 0xFE with a short payload "eof",
\* else "count", "col" or "row"; n: its first bytes read as a column count;
\* more: SERVER_MORE_RESULTS_EXISTS; last: the server's last packet for now.
Pkt(k, n, more) == [k |-> k, n |-> n, more |-> more, last |-> FALSE]
Ok(more) == Pkt("ok", 0, more)
Err == Pkt("err", 0, FALSE)
Eof(more) == Pkt("eof", 0, more)
Infile == Pkt("infile", 0, FALSE)
Count(n) == Pkt("count", n, FALSE)
\* A column definition starts with the string "def", of length 3.
Col == Pkt("col", 3, FALSE)
Row == Pkt("row", 1, FALSE)
-----------------------------------------------------------------------------
(* The parser.                                                             *)

\* at: the read the parser is in; cols: column definitions still to read.
At(a, n) == [at |-> a, cols |-> n]
Start == At("first", 0)

\* Mutant: SERVER_MORE_RESULTS_EXISTS is not looked at.
OneResultOnly(p) == At("done", 0)

\* A result is complete: read the next one if the flag says so.
EndResult(p) == IF p.more THEN Start ELSE At("done", 0)

\* n column definitions to read.
Columns(n) == IF n = 0 THEN At("colEnd", 0) ELSE At("cols", n)

First(p) ==
  CASE p.k \in {"ok", "eof"} -> EndResult(p)
    [] p.k \in {"err", "infile"} -> At("done", 0)
    [] OTHER -> Columns(p.n)

Step(s, p) ==
  CASE s.at = "first" -> First(p)
    [] s.at = "cols" -> Columns(s.cols - 1)
    [] s.at = "colEnd" -> IF p.k = "ok" THEN EndResult(p) ELSE At("rows", 0)
    [] s.at = "rows" -> IF p.k = "eof" THEN EndResult(p) ELSE s
-----------------------------------------------------------------------------
(* The server.                                                             *)

Times(k, p) == [i \in 1..k |-> p]
MarkLast(r) == [i \in 1..Len(r) |-> [r[i] EXCEPT !.last = (i = Len(r))]]

\* The packets of a result set: count, columns, EOF, rows and its end.
ResultSet(c, r, end) ==
  [i \in 1..c + r + 3 |-> CASE i = 1         -> Count(c)
                           [] i \in 2..c + 1 -> Col
                           [] i = c + 2      -> Eof(FALSE)
                           [] i = c + r + 3  -> end
                           [] OTHER          -> Row]
ResultSets(end) ==
  {ResultSet(c, r, end) : c \in 1..MaxCols, r \in 0..MaxRows}
Result(more) == {<<Ok(more)>>} \cup ResultSets(Eof(more))

\* A response is any number of results that say there are more, and a last one
\* or an error; a server sends it result by result.
MoreResult(cmd) == IF cmd \in {"query", "execute"} THEN Result(TRUE) ELSE {}

\* A statement that fails while its rows are being sent ends in an ERR packet.
FailingResponse == ResultSets(Err)

\* Of COM_STMT_PREPARE: the parameters and the columns follow the OK packet.
\* What the parser takes for status flags lies in the statement id there.
PrepareResponse ==
  LET defs(k) == IF k = 0 THEN <<>> ELSE Times(k, Col) \o <<Eof(FALSE)>>
  IN  {<<Err>>} \cup
      {<<Ok(FALSE)>> \o defs(p) \o defs(c) : p \in 0..1, c \in 0..1}

LastResult(cmd) == {MarkLast(r) : r \in
  CASE cmd = "query"   -> Result(FALSE) \cup {<<Err>>, <<Infile>>}
    [] cmd = "execute" -> Result(FALSE) \cup {<<Err>>}
    [] cmd = "failing" -> FailingResponse
    [] cmd = "prepare" -> PrepareResponse
    [] cmd = "simple"  -> {<<Ok(TRUE)>>, <<Ok(FALSE)>>, <<Err>>}
    [] cmd = "empty"   -> {<<Ok(FALSE)>>, <<Err>>}}
=============================================================================
