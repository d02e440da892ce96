------------------------------ MODULE PgProofs ------------------------------
(***************************************************************************)
(* Safety of a pgwire connection.  The filter of the extended query        *)
(* protocol, for any names, texts, filter and cap of its map; then the     *)
(* session, for any number of frames: the client gets what the primary     *)
(* sends, every frame is logged once, and no response is left over when    *)
(* the next frame is read.                                                 *)
(***************************************************************************)
EXTENDS PgStickyFilter, PgSession, FiniteSetTheorems, SequenceTheorems, TLAPS

-----------------------------------------------------------------------------
(* The filter.  Tracked is inductive.                                      *)

\* What the map says of a named statement: those that the filter lets through
\* are on both servers and not in the map, the others are in it and not on
\* the shadow.
NameTracked(n) ==
  /\ stmts.primary[n] \in Allowed \cup {NoSql}
       => n \notin filteredStmtNames /\ stmts.shadow[n] = stmts.primary[n]
  /\ stmts.primary[n] \notin Allowed \cup {NoSql}
       => n \in filteredStmtNames /\ stmts.shadow[n] = NoSql

\* What the filter lets through is the same on both servers.
Same(r) == r.primary \in Allowed => r.shadow = r.primary

\* The inductive invariant.
Tracked ==
  /\ StickyTypeOK
  /\ ~tainted =>
       /\ \A n \in Names : NameTracked(n)
       /\ stmts.primary[Unnamed] \in Allowed
            => stmts.shadow[Unnamed] = stmts.primary[Unnamed]
       /\ Same(portal) /\ Same(ran)

\* The invariant holds of a new connection.
LEMMA InitTracked == StickyInit => Tracked
<1> SUFFICES ASSUME StickyInit PROVE Tracked
  OBVIOUS
<1>1. NoStmts \in [AllNames -> Text] /\ \A n \in AllNames : NoStmts[n] = NoSql
  BY DEF NoStmts, Text
<1>2. /\ stmts = [primary |-> NoStmts, shadow |-> NoStmts]
      /\ portal = [primary |-> NoSql, shadow |-> NoSql] /\ ran = portal
  BY DEF StickyInit, Both
<1>3. StickyTypeOK
  <2>1. stmts \in [primary : [AllNames -> Text], shadow : [AllNames -> Text]]
    BY <1>1, <1>2
  <2>2. portal \in [primary : Text, shadow : Text]
    BY <1>2 DEF Text
  <2>3. of \in [portal : AllNames, ran : AllNames]
    BY DEF StickyInit, AllNames
  <2>4. QED
    BY <1>2, <2>1, <2>2, <2>3 DEF StickyInit, StickyTypeOK
<1>4. \A n \in Names : NameTracked(n)
  BY <1>1, <1>2 DEF StickyInit, NameTracked, AllNames
<1>5. QED
  BY <1>1, <1>2, <1>3, <1>4, StickyAssumption DEF Tracked, Same, AllNames

\* The empty name and the others are names.
LEMMA NamesAll == Unnamed \in AllNames /\ Names \subseteq AllNames
  BY DEF AllNames

\* A server's Parse gives a table of statements.
LEMMA ParsedType ==
  ASSUME NEW s \in [AllNames -> Text], NEW n \in AllNames, NEW q \in Sql,
         NEW fails \in BOOLEAN
  PROVE  Parsed(s, n, q, fails) \in [AllNames -> Text]
  BY DEF Parsed, Text

\* It leaves the other names alone.
LEMMA ParsedOther ==
  ASSUME NEW s \in [AllNames -> Text], NEW n \in AllNames, NEW q \in Sql,
         NEW fails \in BOOLEAN, NEW m \in AllNames, m # n
  PROVE  Parsed(s, n, q, fails)[m] = s[m]
  BY DEF Parsed

\* A name that is free, or the empty one, stands for the text or for nothing.
LEMMA ParsedFree ==
  ASSUME NEW s \in [AllNames -> Text], NEW n \in AllNames, NEW q \in Sql,
         NEW fails \in BOOLEAN, s[n] = NoSql \/ n \notin Names
  PROVE  Parsed(s, n, q, fails)[n] = IF fails THEN NoSql ELSE q
  BY DEF Parsed

\* A mirrored Parse keeps the invariant: both servers do the same.
LEMMA ParseMirroredStep ==
  ASSUME Tracked, NEW n \in AllNames, NEW q \in Sql, NEW fails \in BOOLEAN,
         ParseMirrored(n, q, fails)
  PROVE  Tracked'
<1>1. /\ stmts.primary \in [AllNames -> Text]
      /\ stmts.shadow \in [AllNames -> Text]
  BY DEF Tracked, StickyTypeOK
<1>2. /\ stmts'.primary = Parsed(stmts.primary, n, q, fails)
      /\ stmts'.shadow = Parsed(stmts.shadow, n, q, fails)
  BY DEF ParseMirrored, Both
<1>3. StickyTypeOK'
  BY <1>1, ParsedType DEF Tracked, StickyTypeOK, ParseMirrored, Both
<1>4. ASSUME ~tainted', NEW m \in Names
      PROVE  NameTracked(m)'
  <2>1. filteredStmtNames' = filteredStmtNames
    BY DEF ParseMirrored
  <2>2. NameTracked(m)
    BY <1>4 DEF Tracked, ParseMirrored
  <2>3. CASE m # n
    <3>1. /\ stmts'.primary[m] = stmts.primary[m]
          /\ stmts'.shadow[m] = stmts.shadow[m]
      BY <1>1, <1>2, <2>3, ParsedOther, NamesAll
    <3>2. QED
      BY <2>1, <2>2, <3>1 DEF NameTracked
  <2>4. CASE m = n
    <3>1. /\ stmts.primary[m] = NoSql /\ stmts.shadow[m] = NoSql
          /\ m \notin filteredStmtNames
      BY <2>2, <2>4 DEF NameTracked, ParseMirrored, MayParse
    <3>2. /\ stmts'.primary[m] = IF fails THEN NoSql ELSE q
          /\ stmts'.shadow[m] = IF fails THEN NoSql ELSE q
      BY <1>1, <1>2, <2>4, <3>1, ParsedFree
    <3>3. q \in Allowed
      BY DEF ParseMirrored, shouldShadowMirror
    <3>4. QED
      BY <2>1, <3>1, <3>2, <3>3 DEF NameTracked
  <2>5. QED
    BY <2>3, <2>4
<1>5. ASSUME ~tainted', stmts'.primary[Unnamed] \in Allowed
      PROVE  stmts'.shadow[Unnamed] = stmts'.primary[Unnamed]
  <2>1. CASE n = Unnamed
    <3>1. n \notin Names
      BY <2>1, StickyAssumption
    <3>2. /\ stmts'.primary[n] = IF fails THEN NoSql ELSE q
          /\ stmts'.shadow[n] = IF fails THEN NoSql ELSE q
      BY <1>1, <1>2, <3>1, ParsedFree
    <3>3. QED
      BY <2>1, <3>2
  <2>2. CASE n # Unnamed
    <3>1. /\ stmts'.primary[Unnamed] = stmts.primary[Unnamed]
          /\ stmts'.shadow[Unnamed] = stmts.shadow[Unnamed]
      BY <1>1, <1>2, <2>2, ParsedOther, NamesAll
    <3>2. ~tainted
      BY <1>5 DEF ParseMirrored
    <3>3. QED
      BY <1>5, <3>1, <3>2 DEF Tracked
  <2>3. QED
    BY <2>1, <2>2
<1>6. ASSUME ~tainted' PROVE Same(portal)' /\ Same(ran)'
  BY <1>6 DEF Tracked, ParseMirrored, Same
<1>7. QED
  BY <1>3, <1>4, <1>5, <1>6 DEF Tracked

\* A filtered Parse keeps it: the name enters the map, or the step taints.
LEMMA ParseFilteredStep ==
  ASSUME Tracked, NEW n \in AllNames, NEW q \in Sql, NEW fails \in BOOLEAN,
         ParseFiltered(n, q, fails)
  PROVE  Tracked'
<1>1. /\ stmts.primary \in [AllNames -> Text]
      /\ stmts.shadow \in [AllNames -> Text]
      /\ stmts \in [primary : [AllNames -> Text], shadow : [AllNames -> Text]]
  BY DEF Tracked, StickyTypeOK
<1>2. /\ stmts'.primary = Parsed(stmts.primary, n, q, fails)
      /\ stmts'.shadow = stmts.shadow
      /\ stmts' = [primary |-> stmts'.primary, shadow |-> stmts.shadow]
  BY <1>1 DEF ParseFiltered
<1>3. filteredStmtNames' \subseteq Names
  BY DEF Tracked, StickyTypeOK, ParseFiltered, Remember, AllNames
<1>4. StickyTypeOK'
  <2>1. stmts' \in [primary : [AllNames -> Text], shadow : [AllNames -> Text]]
    BY <1>1, <1>2, ParsedType
  <2>2. portal' = portal /\ ran' = ran /\ of' = of /\ tainted' \in BOOLEAN
    BY DEF ParseFiltered, Taint
  <2>3. QED
    BY <1>3, <2>1, <2>2 DEF Tracked, StickyTypeOK
<1>5. ASSUME ~tainted' PROVE ~tainted /\ (n \in Names => ~Full /\ ~fails)
  BY <1>5 DEF ParseFiltered, Taint
<1>6. ASSUME ~tainted', NEW m \in Names
      PROVE  NameTracked(m)'
  <2>1. NameTracked(m)
    BY <1>5, <1>6 DEF Tracked
  <2>2. CASE m # n
    <3>1. m \in filteredStmtNames' <=> m \in filteredStmtNames
      BY <1>5, <1>6, <2>2 DEF ParseFiltered, Remember, AllNames
    <3>2. stmts'.primary[m] = stmts.primary[m]
      BY <1>1, <1>2, <2>2, ParsedOther, NamesAll
    <3>3. QED
      BY <1>2, <2>1, <3>1, <3>2 DEF NameTracked
  <2>3. CASE m = n
    <3>1. m \in filteredStmtNames'
      BY <2>3, StickyAssumption DEF ParseFiltered, Remember
    <3>2. stmts'.primary[m] = q
      BY <1>1, <1>2, <1>5, <1>6, <2>3, ParsedFree DEF ParseFiltered, MayParse
    <3>3. q # NoSql /\ q \notin Allowed
      BY StickyAssumption DEF ParseFiltered, shouldShadowMirror
    <3>4. stmts'.shadow[m] = NoSql
      BY <1>2, <2>1, <2>3 DEF NameTracked, ParseFiltered, MayParse
    <3>5. QED
      BY <3>1, <3>2, <3>3, <3>4 DEF NameTracked
  <2>4. QED
    BY <2>2, <2>3
<1>7. ASSUME ~tainted', stmts'.primary[Unnamed] \in Allowed
      PROVE  stmts'.shadow[Unnamed] = stmts'.primary[Unnamed]
  <2>1. n # Unnamed
    <3>1. SUFFICES ASSUME n = Unnamed PROVE FALSE
      OBVIOUS
    <3>2. stmts'.primary[n] = IF fails THEN NoSql ELSE q
      BY <1>1, <1>2, <3>1, ParsedFree, StickyAssumption
    <3>3. q \notin Allowed /\ NoSql \notin Allowed
      BY StickyAssumption DEF ParseFiltered, shouldShadowMirror
    <3>4. QED
      BY <1>7, <3>1, <3>2, <3>3
  <2>2. stmts'.primary[Unnamed] = stmts.primary[Unnamed]
    BY <1>1, <1>2, <2>1, ParsedOther, NamesAll
  <2>3. QED
    BY <1>2, <1>5, <1>7, <2>2 DEF Tracked
<1>8. ASSUME ~tainted' PROVE Same(portal)' /\ Same(ran)'
  BY <1>5, <1>8 DEF Tracked, ParseFiltered, Same
<1>9. QED
  BY <1>4, <1>6, <1>7, <1>8 DEF Tracked

\* A Bind keeps it: what the filter lets through is not in the map, so the
\* Bind is mirrored and finds the same statement.
LEMMA BindStep ==
  ASSUME Tracked, NEW n \in AllNames, Bind(n)
  PROVE  Tracked'
<1>1. /\ stmts.primary[n] \in Text /\ stmts.shadow[n] \in Text
      /\ portal \in [primary : Text, shadow : Text]
  BY DEF Tracked, StickyTypeOK
<1>2. /\ portal'.primary = stmts.primary[n]
      /\ portal'.shadow \in Text
      /\ ~Sticky(n) => portal'.shadow = stmts.shadow[n]
      /\ portal' \in [primary : Text, shadow : Text]
  BY <1>1 DEF Bind, Both
<1>3. /\ filteredStmtNames' = filteredStmtNames /\ stmts' = stmts
      /\ ran' = ran /\ tainted' = tainted
  BY DEF Bind
<1>4. of' \in [portal : AllNames, ran : AllNames]
  BY DEF Bind, Tracked, StickyTypeOK
<1>5. StickyTypeOK'
  BY <1>2, <1>3, <1>4 DEF Tracked, StickyTypeOK
<1>6. ASSUME ~tainted PROVE Same(portal)'
  <2>1. CASE n \in Names
    BY <1>2, <1>6, <2>1 DEF Tracked, NameTracked, Sticky, Same
  <2>2. CASE n = Unnamed
    BY <1>2, <1>6, <2>2, StickyAssumption DEF Tracked, StickyTypeOK, Sticky, Same
  <2>3. QED
    BY <2>1, <2>2 DEF AllNames
<1>7. QED
  BY <1>3, <1>5, <1>6 DEF Tracked, NameTracked, Same

\* A Close keeps it: the name leaves the map and both servers.
LEMMA CloseStep ==
  ASSUME Tracked, NEW n \in AllNames, Close(n)
  PROVE  Tracked'
<1>1. /\ stmts \in [primary : [AllNames -> Text], shadow : [AllNames -> Text]]
      /\ filteredStmtNames \subseteq Names
  BY DEF Tracked, StickyTypeOK
<1>2. /\ stmts' \in [primary : [AllNames -> Text], shadow : [AllNames -> Text]]
      /\ stmts'.primary[n] = NoSql
      /\ ~Sticky(n) => stmts'.shadow[n] = NoSql
      /\ Sticky(n) => stmts'.shadow[n] = stmts.shadow[n]
  BY <1>1 DEF Close, Text
<1>3. \A m \in AllNames : m # n => /\ stmts'.primary[m] = stmts.primary[m]
                                  /\ stmts'.shadow[m] = stmts.shadow[m]
  BY <1>1 DEF Close
<1>4. /\ filteredStmtNames' = filteredStmtNames \ {n}
      /\ portal' = portal /\ ran' = ran /\ of' = of /\ tainted' = tainted
  BY DEF Close, Forget
<1>5. StickyTypeOK'
  BY <1>2, <1>4 DEF Tracked, StickyTypeOK
<1>6. ASSUME ~tainted, NEW m \in Names PROVE NameTracked(m)'
  <2>1. NameTracked(m) /\ m \in AllNames
    BY <1>6, NamesAll DEF Tracked
  <2>2. CASE m = n
    <3>1. stmts'.shadow[n] = NoSql
      BY <1>2, <2>1, <2>2 DEF NameTracked, Sticky
    <3>2. QED
      BY <1>2, <1>4, <2>2, <3>1 DEF NameTracked
  <2>3. CASE m # n
    BY <1>3, <1>4, <2>1, <2>3 DEF NameTracked
  <2>4. QED
    BY <2>2, <2>3
<1>7. ASSUME ~tainted, stmts'.primary[Unnamed] \in Allowed
      PROVE  stmts'.shadow[Unnamed] = stmts'.primary[Unnamed]
  <2>1. n # Unnamed
    BY <1>2, <1>7, StickyAssumption
  <2>2. QED
    BY <1>3, <1>7, <2>1, NamesAll DEF Tracked
<1>8. QED
  BY <1>4, <1>5, <1>6, <1>7 DEF Tracked, Same

\* An Execute keeps it: each server runs its portal.
LEMMA ExecuteStep ==
  ASSUME Tracked, Execute
  PROVE  Tracked'
<1>1. StickyTypeOK'
  BY DEF Tracked, StickyTypeOK, Execute
<1>2. QED
  BY <1>1 DEF Tracked, Execute, NameTracked, Same

\* A Query keeps it: the primary's unnamed statement and portal are gone.
LEMMA QueryStep ==
  ASSUME Tracked, NEW q \in Sql, Query(q)
  PROVE  Tracked'
<1>1. /\ stmts \in [primary : [AllNames -> Text], shadow : [AllNames -> Text]]
      /\ portal \in [primary : Text, shadow : Text]
  BY DEF Tracked, StickyTypeOK
<1>2. /\ stmts' \in [primary : [AllNames -> Text], shadow : [AllNames -> Text]]
      /\ stmts'.primary[Unnamed] = NoSql
  BY <1>1, NamesAll DEF Query, Text
<1>3. \A m \in Names : /\ stmts'.primary[m] = stmts.primary[m]
                       /\ stmts'.shadow[m] = stmts.shadow[m]
  BY <1>1, NamesAll, StickyAssumption DEF Query
<1>4. /\ filteredStmtNames' = filteredStmtNames
      /\ ran' = ran /\ of' = of /\ tainted' = tainted
  BY DEF Query
<1>5. portal' \in [primary : Text, shadow : Text] /\ portal'.primary = NoSql
  BY <1>1 DEF Query, Both, Text
<1>6. StickyTypeOK'
  BY <1>2, <1>4, <1>5 DEF Tracked, StickyTypeOK
<1>7. NoSql \notin Allowed
  BY StickyAssumption
<1>8. ASSUME ~tainted PROVE \A m \in Names : NameTracked(m)'
  BY <1>3, <1>4, <1>8 DEF Tracked, NameTracked
<1>9. QED
  BY <1>2, <1>4, <1>5, <1>6, <1>7, <1>8 DEF Tracked, Same

\* The inductive invariant of every connection.
THEOREM TrackedInvariance == StickySpec => []Tracked
<1>1. Tracked /\ [StickyNext]_stickyVars => Tracked'
  <2> SUFFICES ASSUME Tracked, [StickyNext]_stickyVars PROVE Tracked'
    OBVIOUS
  <2>1. ASSUME NEW n \in AllNames, NEW q \in Sql, NEW fails \in BOOLEAN,
               ParseMirrored(n, q, fails)
        PROVE  Tracked'
    BY <2>1, ParseMirroredStep
  <2>2. ASSUME NEW n \in AllNames, NEW q \in Sql, NEW fails \in BOOLEAN,
               ParseFiltered(n, q, fails)
        PROVE  Tracked'
    BY <2>2, ParseFilteredStep
  <2>3. ASSUME NEW n \in AllNames, Bind(n) PROVE Tracked'
    BY <2>3, BindStep
  <2>4. ASSUME NEW n \in AllNames, Close(n) PROVE Tracked'
    BY <2>4, CloseStep
  <2>5. CASE Execute
    BY <2>5, ExecuteStep
  <2>6. ASSUME NEW q \in Sql, Query(q) PROVE Tracked'
    BY <2>6, QueryStep
  <2>7. CASE UNCHANGED stickyVars
    BY <2>7 DEF stickyVars, Tracked, StickyTypeOK, NameTracked, Same
  <2>8. QED
    BY <2>1, <2>2, <2>3, <2>4, <2>5, <2>6, <2>7 DEF StickyNext
<1>2. QED
  BY InitTracked, <1>1, PTL DEF StickySpec

\* Type correctness.
THEOREM StickyTypes == StickySpec => []StickyTypeOK
<1>1. Tracked => StickyTypeOK
  BY DEF Tracked
<1>2. QED
  BY TrackedInvariance, <1>1, PTL

\* As long as the map is not cleared and the primary refuses no filtered Parse,
\* a mirrored Bind or Describe finds the primary's statement on the shadow.
THEOREM NoMissingStatement == StickySpec => []BindFindsStatement
<1>1. Tracked => BindFindsStatement
  <2> SUFFICES ASSUME Tracked, ~tainted, NEW n \in Names,
                      stmts.primary[n] # NoSql, ~Sticky(n)
               PROVE  stmts.shadow[n] = stmts.primary[n]
    BY DEF BindFindsStatement
  <2>1. NameTracked(n)
    BY DEF Tracked
  <2>2. QED
    BY <2>1 DEF NameTracked, Sticky
<1>2. QED
  BY TrackedInvariance, <1>1, PTL

\* ... and every allowed statement that the primary executes, the shadow does.
THEOREM AllowedMirrored == StickySpec => []AllowedRunsMatch
<1>1. Tracked => AllowedRunsMatch
  BY DEF Tracked, AllowedRunsMatch, Same
<1>2. QED
  BY TrackedInvariance, <1>1, PTL
-----------------------------------------------------------------------------
\* Whatever the client names its statements, the map stays within its cap.
THEOREM MapStaysBounded == StickySpec => []MapBounded
<1> DEFINE Bounded == /\ StickyTypeOK /\ MapBounded
                      /\ IsFiniteSet(filteredStmtNames)
<1>1. StickyInit => Bounded
  <2> SUFFICES ASSUME StickyInit PROVE Bounded
    OBVIOUS
  <2>1. filteredStmtNames = {} /\ StickyTypeOK
    BY InitTracked DEF StickyInit, Tracked
  <2>2. QED
    BY <2>1, FS_EmptySet, StickyAssumption DEF MapBounded
<1>2. StickyTypeOK' /\ Bounded /\ [StickyNext]_stickyVars => Bounded'
  <2> SUFFICES ASSUME StickyTypeOK', Bounded, [StickyNext]_stickyVars PROVE Bounded'
    OBVIOUS
  <2>1. ASSUME NEW n \in AllNames, Remember(n)
        PROVE  /\ IsFiniteSet(filteredStmtNames')
               /\ Cardinality(filteredStmtNames') <= pgStickyStmtMapCap
    <3> DEFINE kept == IF Full THEN {} ELSE filteredStmtNames
    <3>1. IsFiniteSet(kept) /\ Cardinality(kept) < pgStickyStmtMapCap
      BY FS_EmptySet, FS_CardinalityType, StickyAssumption DEF Full, MapBounded
    <3>2. /\ IsFiniteSet(kept \cup {n})
          /\ Cardinality(kept \cup {n}) <= pgStickyStmtMapCap
      <4>1. /\ IsFiniteSet(kept \cup {n})
            /\ \/ Cardinality(kept \cup {n}) = Cardinality(kept)
               \/ Cardinality(kept \cup {n}) = Cardinality(kept) + 1
        BY <3>1, FS_AddElement
      <4>2. Cardinality(kept) \in Nat
        BY <3>1, FS_CardinalityType
      <4>3. QED
        BY <3>1, <4>1, <4>2, StickyAssumption
    <3>3. QED
      BY <2>1, <3>2 DEF Remember, MapBounded
  <2>2. ASSUME NEW n \in AllNames, Forget(n)
        PROVE  /\ IsFiniteSet(filteredStmtNames')
               /\ Cardinality(filteredStmtNames') <= pgStickyStmtMapCap
    <3>1. filteredStmtNames' \subseteq filteredStmtNames
      BY <2>2 DEF Forget
    <3>2. QED
      BY <3>1, FS_Subset, FS_CardinalityType, StickyAssumption DEF MapBounded
  <2>3. \/ \E n \in AllNames : Remember(n) \/ Forget(n)
        \/ filteredStmtNames' = filteredStmtNames
    BY DEF StickyNext, stickyVars, ParseMirrored, ParseFiltered, Bind, Close, Execute, Query
  <2>4. QED
    BY <2>1, <2>2, <2>3 DEF MapBounded
<1>3. QED
  BY <1>1, <1>2, StickyTypes, PTL DEF StickySpec

-----------------------------------------------------------------------------
(* The session.  IInv is inductive.                                        *)

USE PgSessionAssumption

\* One entry per frame, but for the frame being served.
Logging == read = logged + (IF pc \in {"write", "respond"} THEN 1 ELSE 0)

\* The frames whose answer has an end, and the messages that are last in what
\* the primary sends for one frame.
Asking == {"query", "sync", "copy", "copyDone", "call"}
Final == {"ready", "copy", "authReq"}

Silent(q) == \A i \in 1..Len(q) : q[i] \notin Asking
\* Only the last one asks.
AsksLast(q) == \A i \in 1..Len(q) : q[i] \in Asking => i = Len(q)
NoFinal(q) == \A i \in 1..Len(q) : q[i] \notin Final
OneFinal(q) == \A i \in 1..Len(q) : q[i] \in Final => i = Len(q)

\* What is under way between the handler and the primary.  While logging in:
\* one frame or its answer; the primary is in its steady state once it has
\* sent ReadyForQuery.
LoggingIn ==
  /\ pc \in {"dial", "startup", "password"} =>
       work = <<>> /\ down = <<>> /\ primary # "up"
  /\ pc = "auth" =>
       \/ down = <<>> /\ Len(work) <= 1 /\ primary # "up"
       \/ /\ work = <<>> /\ OneFinal(down)
          /\ \A i \in 1..Len(down) :
               /\ down[i] # "copy"
               /\ down[i] = "authReq" => primary # "up"
               /\ down[i] = "ready" => primary \in {"up", "down"}

\* In the query loop: frames whose answers have no end, and such answers; when
\* the handler waits for a response, behind them the frame it waits for, or
\* the end of its answer.
Serving ==
  /\ pc \in {"shadow", "read", "write", "respond"} => primary \in {"up", "down"}
  /\ pc \in {"shadow", "read", "write"} => NoFinal(down) /\ Silent(work)
  /\ pc = "respond" => \/ work = <<>> /\ OneFinal(down)
                       \/ AsksLast(work) /\ NoFinal(down)

\* A client sends CopyDone only after the handler has turned to copying.
CopyFramesLate ==
  pc \notin {"copying", "ended"} =>
    /\ client # "copying"
    /\ \A i \in 1..Len(up) : up[i] # "copyDone"
    /\ cur # "copyDone"

Phases == LoggingIn /\ Serving /\ CopyFramesLate

\* Clients that do not use FunctionCall, which the primary answers with a
\* ReadyForQuery that runQueryLoop does not wait for.
NoCall == "call" \notin Frames

IInv == TypeOK /\ Transparent /\ Logging /\ (NoCall => Phases)
-----------------------------------------------------------------------------
(* Sequences.                                                              *)

\* Taking the head of one queue to the end of another keeps their
\* concatenation: what WriteClient does to got and down.
LEMMA MoveHead ==
  ASSUME NEW S, NEW g \in Seq(S), NEW d \in Seq(S), d # <<>>
  PROVE  g \o d = Append(g, Head(d)) \o Tail(d)
<1>1. /\ g \o d \in Seq(S) /\ Append(g, Head(d)) \o Tail(d) \in Seq(S)
      /\ Len(g \o d) = Len(Append(g, Head(d)) \o Tail(d))
  OBVIOUS
<1>2. ASSUME NEW i \in 1..Len(g \o d)
      PROVE  (g \o d)[i] = (Append(g, Head(d)) \o Tail(d))[i]
  OBVIOUS
<1> QED
  BY <1>1, <1>2, SeqEqual

\* Cutting the end off the second of two queues: what PrimaryDown does.
LEMMA CutEnd ==
  ASSUME NEW S, NEW g \in Seq(S), NEW d \in Seq(S), NEW k \in 0..Len(d)
  PROVE  SubSeq(g \o d, 1, Len(g \o d) - (Len(d) - k)) = g \o SubSeq(d, 1, k)
<1> DEFINE n == Len(g) + k
<1>1. /\ Len(g \o d) = Len(g) + Len(d) /\ n \in 0..Len(g \o d)
      /\ Len(g \o d) - (Len(d) - k) = n
  OBVIOUS
<1>2. /\ SubSeq(g \o d, 1, n) \in Seq(S) /\ Len(SubSeq(g \o d, 1, n)) = n
      /\ SubSeq(d, 1, k) \in Seq(S) /\ Len(SubSeq(d, 1, k)) = k
  BY <1>1
<1>3. ASSUME NEW i \in 1..n
      PROVE  SubSeq(g \o d, 1, n)[i] = (g \o SubSeq(d, 1, k))[i]
  <2>1. SubSeq(g \o d, 1, n)[i] = (g \o d)[i]
    BY <1>1
  <2>2. CASE i <= Len(g)
    BY <1>2, <2>1, <2>2
  <2>3. CASE i > Len(g)
    <3>1. i - Len(g) \in 1..k /\ (g \o d)[i] = d[i - Len(g)]
      BY <1>1, <2>3
    <3>2. (g \o SubSeq(d, 1, k))[i] = SubSeq(d, 1, k)[i - Len(g)]
      BY <1>2, <2>3
    <3> QED
      BY <2>1, <3>1, <3>2
  <2>4. i <= Len(g) \/ i > Len(g)
    BY LenProperties
  <2> QED
    BY <2>2, <2>3, <2>4, Zenon
<1>4. g \o SubSeq(d, 1, k) \in Seq(S) /\ Len(g \o SubSeq(d, 1, k)) = n
  BY <1>2
<1> HIDE DEF n
<1> QED
  BY <1>1, <1>2, <1>3, <1>4, SeqEqual
-----------------------------------------------------------------------------
(* Types, transparency and logging.                                        *)

LEMMA InitIInv == Init => IInv
  BY DEF Init, IInv, TypeOK, Transparent, Logging, Phases, LoggingIn, Serving,
         CopyFramesLate, Frame, ClientPc, HandlerPc, PrimaryPc

\* Whatever the primary sends for one frame is final only at its end; for the
\* frames that do not ask, not even there.
LEMMA AnswersFinal ==
  ASSUME NEW f, NEW ms \in Answers(f)
  PROVE  /\ ms \in Seq(Message) /\ OneFinal(ms)
         /\ f \notin Asking => NoFinal(ms)
<1>1. /\ ms \in {<<>>, <<"ready">>, <<"data">>, <<"error">>, <<"copy">>,
                 <<"data", "ready">>, <<"error", "ready">>}
      /\ f \notin Asking => ms \in {<<>>, <<"data">>, <<"error">>}
  BY DEF Answers, Asking
<1>2. CASE ms = <<>>
  BY <1>2 DEF OneFinal, NoFinal
<1>3. CASE ms \in {<<"data">>, <<"error">>}
  <2>1. PICK m \in {"data", "error"} : ms = <<m>>
    BY <1>3
  <2> QED
    BY <2>1 DEF Message, OneFinal, NoFinal, Final
<1>4. CASE ms \in {<<"ready">>, <<"copy">>}
  <2>1. PICK m \in {"ready", "copy"} : ms = <<m>>
    BY <1>4
  <2>2. f \in Asking
    BY <1>1, <2>1
  <2> QED
    BY <2>1, <2>2 DEF Message, OneFinal
<1>5. CASE ms \in {<<"data", "ready">>, <<"error", "ready">>}
  <2>1. PICK m \in {"data", "error"} : ms = <<m, "ready">>
    BY <1>5
  <2>2. f \in Asking
    BY <1>1, <2>1
  <2> QED
    BY <2>1, <2>2 DEF Message, OneFinal, Final
<1> QED
  BY <1>1, <1>2, <1>3, <1>4, <1>5

LEMMA AuthAnswersFinal ==
  ASSUME NEW n \in {0, 1}, NEW ms \in AuthAnswers(n)
  PROVE  /\ ms \in Seq(Message) /\ OneFinal(ms)
         /\ \A i \in 1..Len(ms) :
              /\ ms[i] # "copy"
              /\ ms[i] = "authReq" => ms = <<"authReq">>
              /\ ms[i] = "ready" => ms # <<"authReq">> /\ ms # <<"error">>
<1>1. ms \in {<<"authReq">>, <<"error">>, <<"authOk", "data", "ready">>,
              <<"saslFinal", "authOk", "data", "ready">>}
  BY DEF AuthAnswers
<1>2. CASE ms = <<"authReq">>
  BY <1>2 DEF Message, OneFinal
<1>5. CASE ms = <<"error">>
  BY <1>5 DEF Message, OneFinal
<1>3. CASE ms = <<"authOk", "data", "ready">>
  BY <1>3 DEF Message, OneFinal, Final
<1>4. CASE ms = <<"saslFinal", "authOk", "data", "ready">>
  BY <1>4 DEF Message, OneFinal, Final
<1> QED
  BY <1>1, <1>2, <1>3, <1>4, <1>5

LEMMA ActsType ==
  ASSUME TypeOK, NEW m, Acts(m)
  PROVE  client' \in ClientPc
  BY DEF Acts, TypeOK, ClientPc

LEMMA TypeStep == TypeOK /\ [Next]_vars => TypeOK'
<1> SUFFICES ASSUME TypeOK, [Next]_vars PROVE TypeOK'
  OBVIOUS
<1> USE DEF TypeOK, ClientVars, HandlerVars, PrimaryVars
<1>1. CASE DialPrimary \/ StartShadow \/ CopyEnds \/ PeerGone
  BY <1>1 DEF DialPrimary, StartShadow, CopyEnds, PeerGone, HandlerPc
<1>2. CASE AnswerEncryption
  BY <1>2 DEF AnswerEncryption, HandlerPc, ClientPc
<1>3. CASE ForwardStartup \/ ForwardPassword \/ CopyUp
  <2>1. up # <<>> /\ up' = Tail(up)
        /\ work' = IF primary = "down" THEN work ELSE Append(work, Head(up))
    BY <1>3 DEF ForwardStartup, ForwardPassword, CopyUp
  <2>2. up' \in Seq(Frame) /\ work' \in Seq(Frame)
    BY <2>1
  <2>3. pc' \in HandlerPc
    BY <1>3 DEF ForwardStartup, ForwardPassword, CopyUp, HandlerPc
  <2> QED
    BY <1>3, <2>2, <2>3 DEF ForwardStartup, ForwardPassword, CopyUp
<1>4. CASE ForwardAuth
  <2>1. got' \in Seq(Message) /\ down' \in Seq(Message)
    BY <1>4 DEF ForwardAuth, WriteClient
  <2>2. client' \in ClientPc
    BY <1>4, ActsType DEF ForwardAuth, WriteClient
  <2>3. up' \in Seq(Frame) /\ pc' \in HandlerPc
    BY <1>4 DEF ForwardAuth, Frame, HandlerPc
  <2> QED
    BY <1>4, <2>1, <2>2, <2>3 DEF ForwardAuth
<1>5. CASE ReadFrame
  BY <1>5 DEF ReadFrame, HandlerPc
<1>6. CASE WritePrimary
  BY <1>6 DEF WritePrimary, logEntry, HandlerPc
<1>7. CASE WriteError \/ ResponseError
  <2>1. pc' = "ended" /\ logged' = logged + 1
    BY <1>7 DEF WriteError, ResponseError, logEntry
  <2>2. UNCHANGED <<listenerTLS, ClientVars, cur, PrimaryVars, down, got, read>>
    BY <1>7 DEF WriteError, ResponseError
  <2> QED
    BY <2>1, <2>2 DEF HandlerPc
<1>8. CASE ForwardResponse
  <2>1. got' \in Seq(Message) /\ down' \in Seq(Message)
    BY <1>8 DEF ForwardResponse, WriteClient
  <2>2. client' \in ClientPc
    BY <1>8, ActsType DEF ForwardResponse, WriteClient
  <2>3. pc' \in HandlerPc /\ logged' \in Nat
    BY <1>8 DEF ForwardResponse, logEntry, HandlerPc
  <2> QED
    BY <1>8, <2>1, <2>2, <2>3 DEF ForwardResponse
<1>9. CASE CopyDown
  <2>1. got' \in Seq(Message) /\ down' \in Seq(Message)
    BY <1>9 DEF CopyDown, WriteClient
  <2>2. client' \in ClientPc
    BY <1>9, ActsType DEF CopyDown, WriteClient
  <2> QED
    BY <1>9, <2>1, <2>2 DEF CopyDown
<1>10. CASE ClientStep
  <2>1. client' \in ClientPc
    BY <1>10 DEF ClientStep, AskEncryption, Login, SendFrame, SendCopy,
                 ClientGone, Sends, Waits, ClientPc
  <2>2. \/ up' = up
        \/ \E f \in Frame : up' = Append(up, f)
    BY <1>10 DEF ClientStep, AskEncryption, Login, SendFrame, SendCopy,
                 ClientGone, Sends, Frame
  <2>3. asks' \subseteq {"gss", "ssl"} /\ frames' \in 0..MaxFrames
    <3>1. CASE AskEncryption
      BY <3>1 DEF AskEncryption
    <3>2. CASE SendFrame
      BY <3>2 DEF SendFrame
    <3>3. CASE SendCopy
      BY <3>3 DEF SendCopy
    <3>4. CASE Login \/ ClientGone
      BY <3>4 DEF Login, ClientGone
    <3> QED
      BY <1>10, <3>1, <3>2, <3>3, <3>4 DEF ClientStep
  <2>4. UNCHANGED <<listenerTLS, HandlerVars, PrimaryVars, down, got>>
    BY <1>10 DEF ClientStep, AskEncryption, Login, SendFrame, SendCopy,
                 ClientGone, Sends
  <2>5. up' \in Seq(Frame)
    <3>1. ASSUME NEW f \in Frame, up' = Append(up, f)
          PROVE  up' \in Seq(Frame)
      BY <3>1
    <3> QED
      BY <2>2, <3>1
  <2>6. listenerTLS' \in BOOLEAN
    BY <2>4
  <2>7. /\ pc' \in HandlerPc /\ primary' \in PrimaryPc
        /\ work' \in Seq(Frame) /\ cur' \in Frame
        /\ down' \in Seq(Message) /\ sent' \in Seq(Message)
        /\ got' \in Seq(Message) /\ read' \in Nat /\ logged' \in Nat
    BY <2>4
  <2> QED
    BY <2>1, <2>3, <2>5, <2>6, <2>7
<1>11. CASE PrimaryAuth
  <2> PICK ms \in AuthAnswers(IF primary = "new" THEN 1 ELSE 0) :
        Emit(ms) /\ primary' \in PrimaryPc
    BY <1>11 DEF PrimaryAuth, PrimaryPc
  <2>1. ms \in Seq(Message)
    BY AuthAnswersFinal
  <2>2. sent' \in Seq(Message) /\ down' \in Seq(Message)
    BY <2>1 DEF Emit
  <2>3. work' \in Seq(Frame)
    BY <1>11 DEF PrimaryAuth
  <2> QED
    BY <1>11, <2>2, <2>3 DEF PrimaryAuth
<1>12. CASE PrimaryAnswers
  <2> PICK ms \in Answers(Head(work)) : Emit(ms)
    BY <1>12 DEF PrimaryAnswers
  <2>1. ms \in Seq(Message)
    BY AnswersFinal
  <2>2. sent' \in Seq(Message) /\ down' \in Seq(Message)
    BY <2>1 DEF Emit
  <2>3. work' \in Seq(Frame)
    BY <1>12 DEF PrimaryAnswers
  <2> QED
    BY <1>12, <2>2, <2>3 DEF PrimaryAnswers
<1>13. CASE PrimaryDown
  <2> PICK k \in 0..Len(down) :
        /\ down' = SubSeq(down, 1, k)
        /\ sent' = SubSeq(sent, 1, Len(sent) - (Len(down) - k))
    BY <1>13 DEF PrimaryDown
  <2>1. down' \in Seq(Message)
    OBVIOUS
  <2>2. Len(sent) - (Len(down) - k) \in Int /\ Len(sent) - (Len(down) - k) <= Len(sent)
    OBVIOUS
  <2>3. sent' \in Seq(Message)
    BY <2>2
  <2> QED
    BY <1>13, <2>1, <2>3 DEF PrimaryDown, PrimaryPc
<1>14. CASE Ended \/ UNCHANGED vars
  BY <1>14 DEF Ended, vars
<1> QED
  BY <1>1, <1>2, <1>3, <1>4, <1>5, <1>6, <1>7, <1>8, <1>9, <1>10, <1>11, <1>12,
     <1>13, <1>14 DEF Next, HandlerStep, PrimaryStep
LEMMA TransparentStep ==
  TypeOK /\ Transparent /\ [Next]_vars => Transparent'
<1> SUFFICES ASSUME TypeOK, Transparent, [Next]_vars PROVE Transparent'
  OBVIOUS
<1> USE DEF Transparent, ClientVars, HandlerVars, PrimaryVars
<1>1. CASE UNCHANGED <<sent, got, down>>
  BY <1>1
<1>2. CASE ForwardAuth \/ ForwardResponse \/ CopyDown
  <2>1. /\ down # <<>> /\ down' = Tail(down)
        /\ got' = Append(got, Head(down)) /\ sent' = sent
    BY <1>2 DEF ForwardAuth, ForwardResponse, CopyDown, WriteClient
  <2> QED
    BY <2>1, MoveHead DEF TypeOK
<1>3. CASE PrimaryAuth \/ PrimaryAnswers
  <2>1. PICK ms \in Seq(Message) : Emit(ms)
    <3>1. CASE PrimaryAuth
      BY <3>1, AuthAnswersFinal DEF PrimaryAuth
    <3>2. CASE PrimaryAnswers
      BY <3>2, AnswersFinal DEF PrimaryAnswers
    <3> QED
      BY <1>3, <3>1, <3>2
  <2>2. got' = got
    BY <1>3 DEF PrimaryAuth, PrimaryAnswers
  <2>3. (got \o down) \o ms = got \o (down \o ms)
    <3>1. got \in Seq(Message) /\ down \in Seq(Message)
      BY DEF TypeOK
    <3> QED
      BY <3>1, ConcatAssociative, SMTT(30)
  <2> QED
    BY <2>1, <2>2, <2>3 DEF Emit
<1>4. CASE PrimaryDown
  <2>1. PICK k \in 0..Len(down) :
          /\ down' = SubSeq(down, 1, k)
          /\ sent' = SubSeq(sent, 1, Len(sent) - (Len(down) - k))
    BY <1>4 DEF PrimaryDown
  <2>2. got' = got
    BY <1>4 DEF PrimaryDown
  <2> QED
    BY <2>1, <2>2, CutEnd DEF TypeOK
<1>5. CASE UNCHANGED vars \/ Ended
  BY <1>1, <1>5 DEF vars, Ended
<1>6. CASE \/ DialPrimary \/ AnswerEncryption \/ ForwardStartup
           \/ ForwardPassword \/ StartShadow \/ ReadFrame \/ WritePrimary
           \/ WriteError \/ ResponseError \/ CopyEnds \/ PeerGone \/ CopyUp
  BY <1>1, <1>6 DEF DialPrimary, AnswerEncryption, ForwardStartup,
     ForwardPassword, StartShadow, ReadFrame, WritePrimary, WriteError,
     ResponseError, CopyEnds, PeerGone, CopyUp
<1>7. CASE ClientStep
  BY <1>1, <1>7 DEF ClientStep, AskEncryption, Login, SendFrame, SendCopy,
     ClientGone, Sends
<1> QED
  BY <1>2, <1>3, <1>4, <1>5, <1>6, <1>7 DEF Next, HandlerStep, PrimaryStep

LEMMA LoggingStep ==
  TypeOK /\ Logging /\ [Next]_vars => Logging'
<1> SUFFICES ASSUME TypeOK, Logging, [Next]_vars PROVE Logging'
  OBVIOUS
<1> USE DEF Logging, ClientVars, HandlerVars, PrimaryVars
<1>1. CASE UNCHANGED HandlerVars
  BY <1>1
<1>2. CASE \/ DialPrimary \/ AnswerEncryption \/ ForwardStartup \/ ForwardAuth
           \/ ForwardPassword \/ StartShadow \/ CopyEnds \/ PeerGone
  <2>1. UNCHANGED <<read, logged>>
    BY <1>2 DEF DialPrimary, AnswerEncryption, ForwardStartup, ForwardAuth,
       ForwardPassword, StartShadow, CopyEnds, PeerGone
  <2>2. pc \notin {"write", "respond"} /\ pc' \notin {"write", "respond"}
    BY <1>2 DEF DialPrimary, AnswerEncryption, ForwardStartup, ForwardAuth,
       ForwardPassword, StartShadow, CopyEnds, PeerGone
  <2> QED
    BY <2>1, <2>2
<1>3. CASE ReadFrame
  BY <1>3 DEF ReadFrame, TypeOK
<1>4. CASE WritePrimary
  BY <1>4 DEF WritePrimary, logEntry, TypeOK
<1>5. CASE WriteError \/ ResponseError
  BY <1>5 DEF WriteError, ResponseError, logEntry, TypeOK
<1>6. CASE ForwardResponse
  BY <1>6 DEF ForwardResponse, logEntry, TypeOK
<1>7. CASE CopyUp \/ CopyDown \/ PrimaryStep
  BY <1>1, <1>7 DEF CopyUp, CopyDown, PrimaryStep, PrimaryAuth, PrimaryAnswers,
     PrimaryDown
<1>8. CASE ClientStep
  BY <1>1, <1>8 DEF ClientStep, AskEncryption, Login, SendFrame, SendCopy,
     ClientGone, Sends
<1>9. CASE UNCHANGED vars \/ Ended
  BY <1>1, <1>9 DEF vars, Ended
<1> QED
  BY <1>2, <1>3, <1>4, <1>5, <1>6, <1>7, <1>8, <1>9 DEF Next, HandlerStep
-----------------------------------------------------------------------------
(* The phases.                                                             *)

\* What a head and a tail inherit.
LEMMA QueueTail ==
  ASSUME NEW S, NEW q \in Seq(S), q # <<>>
  PROVE  /\ Tail(q) \in Seq(S) /\ Len(Tail(q)) = Len(q) - 1
         /\ Head(q) = q[1] /\ 1 \in 1..Len(q)
         /\ \A i \in 1..Len(Tail(q)) : i + 1 \in 1..Len(q) /\ Tail(q)[i] = q[i + 1]
  OBVIOUS

LEMMA FinalTail ==
  ASSUME NEW S, NEW q \in Seq(S), q # <<>>, OneFinal(q)
  PROVE  /\ OneFinal(Tail(q))
         /\ Head(q) \in Final => Tail(q) = <<>>
<1>1. OneFinal(Tail(q))
  BY QueueTail DEF OneFinal
<1>2. ASSUME Head(q) \in Final PROVE Tail(q) = <<>>
  <2>1. Len(q) = 1
    <3>1. 1 \in 1..Len(q) /\ q[1] \in Final
      BY <1>2, QueueTail
    <3> QED
      BY <3>1 DEF OneFinal
  <2>2. Tail(q) \in Seq(S) /\ Len(Tail(q)) = 0
    BY <2>1, QueueTail
  <2> QED
    BY <2>2, EmptySeq
<1> QED
  BY <1>1, <1>2

LEMMA NoFinalTail ==
  ASSUME NEW S, NEW q \in Seq(S), q # <<>>, NoFinal(q)
  PROVE  NoFinal(Tail(q)) /\ Head(q) \notin Final
  BY QueueTail DEF NoFinal

\* Answers behind answers without an end.
LEMMA FinalAppend ==
  ASSUME NEW S, NEW q \in Seq(S), NEW r \in Seq(S), NoFinal(q)
  PROVE  /\ OneFinal(r) => OneFinal(q \o r)
         /\ NoFinal(r) => NoFinal(q \o r)
<1>1. Len(q \o r) = Len(q) + Len(r)
  OBVIOUS
<1>2. ASSUME NEW i \in 1..Len(q \o r)
      PROVE  \/ (q \o r)[i] \notin Final
             \/ i - Len(q) \in 1..Len(r) /\ (q \o r)[i] = r[i - Len(q)]
  <2>1. CASE i <= Len(q)
    <3>1. (q \o r)[i] = q[i] /\ i \in 1..Len(q)
      BY <2>1
    <3> QED
      BY <3>1 DEF NoFinal
  <2>2. CASE i > Len(q)
    BY <1>1, <2>2
  <2>3. i <= Len(q) \/ i > Len(q)
    BY LenProperties
  <2> QED
    BY <2>1, <2>2, <2>3, Zenon
<1>3. ASSUME OneFinal(r) PROVE OneFinal(q \o r)
  <2> SUFFICES ASSUME NEW i \in 1..Len(q \o r), (q \o r)[i] \in Final
               PROVE  i = Len(q \o r)
    BY DEF OneFinal
  <2>1. i - Len(q) \in 1..Len(r) /\ r[i - Len(q)] \in Final
    BY <1>2
  <2>2. i - Len(q) = Len(r)
    BY <1>3, <2>1 DEF OneFinal
  <2> QED
    BY <1>1, <2>2
<1>4. ASSUME NoFinal(r) PROVE NoFinal(q \o r)
  BY <1>2, <1>4 DEF NoFinal
<1> QED
  BY <1>3, <1>4

LEMMA AskTail ==
  ASSUME NEW S, NEW q \in Seq(S), q # <<>>
  PROVE  /\ Silent(q) => Silent(Tail(q)) /\ Head(q) \notin Asking
         /\ AsksLast(q) => AsksLast(Tail(q))
         /\ AsksLast(q) /\ Head(q) \in Asking => Tail(q) = <<>>
<1>1. Silent(q) => Silent(Tail(q)) /\ Head(q) \notin Asking
  BY QueueTail DEF Silent
<1>2. AsksLast(q) => AsksLast(Tail(q))
  BY QueueTail DEF AsksLast
<1>3. ASSUME AsksLast(q), Head(q) \in Asking PROVE Tail(q) = <<>>
  <2>1. Len(q) = 1
    BY <1>3, QueueTail DEF AsksLast
  <2>2. Tail(q) \in Seq(S) /\ Len(Tail(q)) = 0
    BY <2>1, QueueTail
  <2> QED
    BY <2>2, EmptySeq
<1> QED
  BY <1>1, <1>2, <1>3

LEMMA AskAppend ==
  ASSUME NEW S, NEW q \in Seq(S), NEW f \in S, Silent(q)
  PROVE  /\ AsksLast(Append(q, f))
         /\ f \notin Asking => Silent(Append(q, f))
  BY DEF Silent, AsksLast
\* Logging in: the handler and the primary speak in turn.
LEMMA LoggingInStep ==
  TypeOK /\ LoggingIn /\ [Next]_vars => LoggingIn'
<1> SUFFICES ASSUME TypeOK, LoggingIn, [Next]_vars PROVE LoggingIn'
  OBVIOUS
<1> USE DEF ClientVars, HandlerVars, PrimaryVars
<1>1. CASE UNCHANGED <<pc, primary, work, down>>
  BY <1>1 DEF LoggingIn, OneFinal
<1>2. CASE pc' \notin {"dial", "startup", "password", "auth"}
  BY <1>2 DEF LoggingIn
<1>3. CASE pc' = "startup" /\ (DialPrimary \/ AnswerEncryption)
  BY <1>3 DEF LoggingIn, DialPrimary, AnswerEncryption
<1>4. CASE pc' = "auth" /\ (ForwardStartup \/ ForwardPassword)
  <2>1. /\ work = <<>> /\ down = <<>> /\ primary # "up"
        /\ up # <<>> /\ UNCHANGED <<primary, down>>
        /\ work' = IF primary = "down" THEN work ELSE Append(work, Head(up))
    BY <1>4 DEF LoggingIn, ForwardStartup, ForwardPassword
  <2>2. Len(work') <= 1
    BY <2>1
  <2> QED
    BY <1>4, <2>1, <2>2 DEF LoggingIn
<1>5. CASE ForwardAuth
  <2>1. /\ pc = "auth" /\ down # <<>> /\ down' = Tail(down)
        /\ UNCHANGED <<primary, work>>
    BY <1>5 DEF ForwardAuth
  <2>2. /\ work = <<>> /\ OneFinal(down)
        /\ \A i \in 1..Len(down) :
             /\ down[i] # "copy"
             /\ down[i] = "authReq" => primary # "up"
             /\ down[i] = "ready" => primary \in {"up", "down"}
    BY <2>1 DEF LoggingIn
  <2>3. /\ OneFinal(down') /\ (Head(down) = "authReq" => down' = <<>>)
    BY <2>1, <2>2, FinalTail DEF TypeOK, Final
  <2>4. Head(down) = "authReq" => primary # "up"
    BY <2>1, <2>2, QueueTail DEF TypeOK
  <2>5. \A i \in 1..Len(down') :
             /\ down'[i] # "copy"
             /\ down'[i] = "authReq" => primary # "up"
             /\ down'[i] = "ready" => primary \in {"up", "down"}
    BY <2>1, <2>2, QueueTail DEF TypeOK
  <2>6. CASE pc' = "password"
    <3>1. Head(down) = "authReq"
      BY <1>5, <2>6 DEF ForwardAuth, AsksPassword
    <3> QED
      BY <2>1, <2>2, <2>3, <2>4, <2>6, <3>1 DEF LoggingIn
  <2>7. CASE pc' = "auth"
    BY <2>1, <2>2, <2>3, <2>5, <2>7 DEF LoggingIn
  <2>8. pc' \in {"password", "auth", "shadow", "ended"}
    BY <1>5 DEF ForwardAuth
  <2> QED
    BY <1>2, <2>6, <2>7, <2>8
<1>6. CASE pc = "auth" /\ PrimaryAuth
  <2>1. /\ pc' = "auth" /\ work # <<>> /\ work' = Tail(work)
    BY <1>6 DEF PrimaryAuth
  <2>2. down = <<>> /\ Len(work) <= 1
    BY <1>6, <2>1 DEF LoggingIn
  <2>3. work' = <<>>
    BY <2>1, <2>2 DEF TypeOK
  <2>4. PICK ms \in AuthAnswers(IF primary = "new" THEN 1 ELSE 0) :
          /\ Emit(ms)
          /\ primary' = CASE ms = <<"authReq">> -> "authWait"
                          [] ms = <<"error">> -> "down"
                          [] OTHER -> "up"
    BY <1>6 DEF PrimaryAuth
  <2>5. /\ ms \in Seq(Message) /\ OneFinal(ms)
        /\ \A i \in 1..Len(ms) :
             /\ ms[i] # "copy"
             /\ ms[i] = "authReq" => ms = <<"authReq">>
             /\ ms[i] = "ready" => ms # <<"authReq">> /\ ms # <<"error">>
    BY AuthAnswersFinal
  <2>6. down' = ms
    BY <2>2, <2>4, <2>5 DEF Emit
  <2>7. \A i \in 1..Len(ms) : /\ ms[i] = "authReq" => primary' = "authWait"
                              /\ ms[i] = "ready" => primary' = "up"
    BY <2>4, <2>5
  <2>8. \A i \in 1..Len(down') :
          /\ down'[i] # "copy"
          /\ down'[i] = "authReq" => primary' # "up"
          /\ down'[i] = "ready" => primary' \in {"up", "down"}
    BY <2>5, <2>6, <2>7
  <2>9. OneFinal(down')
    BY <2>5, <2>6
  <2> QED
    BY <2>1, <2>3, <2>8, <2>9 DEF LoggingIn
<1>7. CASE pc \in {"dial", "startup", "password"} /\ PrimaryAuth
  BY <1>7 DEF LoggingIn, PrimaryAuth
<1>8. CASE pc \in {"dial", "startup", "password", "auth"} /\ PrimaryAnswers
  BY <1>8 DEF LoggingIn, PrimaryAnswers
<1>9. CASE pc \in {"startup", "password", "auth"} /\ PrimaryDown
  <2>1. PICK k \in 0..Len(down) : down' = SubSeq(down, 1, k)
    BY <1>9 DEF PrimaryDown
  <2>2. /\ Len(down') = k /\ \A i \in 1..k : down'[i] = down[i]
        /\ (down = <<>> => down' = <<>>)
    BY <2>1 DEF TypeOK
  <2>3. /\ pc' = pc /\ work' = <<>> /\ primary' = "down"
    BY <1>9 DEF PrimaryDown
  <2>4. CASE down = <<>>
    BY <2>2, <2>3, <2>4 DEF LoggingIn
  <2>5. CASE pc = "auth" /\ down # <<>>
    <3>1. /\ OneFinal(down) /\ \A i \in 1..Len(down) : down[i] # "copy"
      BY <2>5 DEF LoggingIn
    <3>2. /\ OneFinal(down') /\ \A i \in 1..Len(down') : down'[i] # "copy"
      <4>1. Len(down) \in Nat /\ k <= Len(down) /\ k \in Nat
        BY DEF TypeOK
      <4>2. \A i \in 1..k : i \in 1..Len(down)
        BY <4>1
      <4>3. OneFinal(down')
        BY <2>2, <3>1, <4>1, <4>2 DEF OneFinal
      <4> QED
        BY <2>2, <3>1, <4>2, <4>3
    <3> QED
      BY <2>3, <2>5, <3>2 DEF LoggingIn
  <2> QED
    BY <1>9, <2>4, <2>5 DEF LoggingIn
<1>10. CASE PrimaryStep
  <2>1. pc' = pc /\ (PrimaryDown => pc # "dial")
    BY <1>10 DEF PrimaryStep, PrimaryAuth, PrimaryAnswers, PrimaryDown
  <2> QED
    BY <1>2, <1>6, <1>7, <1>8, <1>9, <1>10, <2>1 DEF PrimaryStep
<1>11. CASE ClientStep
  BY <1>1, <1>11 DEF ClientStep, AskEncryption, Login, SendFrame, SendCopy,
     ClientGone, Sends
<1>12. CASE UNCHANGED vars \/ Ended
  BY <1>1, <1>12 DEF vars, Ended
<1>13. CASE DialPrimary \/ AnswerEncryption
  BY <1>2, <1>3, <1>13 DEF DialPrimary, AnswerEncryption
<1>14. CASE ForwardStartup \/ ForwardPassword
  BY <1>2, <1>4, <1>14 DEF ForwardStartup, ForwardPassword
<1>15. CASE \/ StartShadow \/ ReadFrame \/ WritePrimary \/ WriteError
            \/ ForwardResponse \/ ResponseError \/ CopyEnds \/ PeerGone
            \/ CopyUp \/ CopyDown
  BY <1>2, <1>15 DEF StartShadow, ReadFrame, WritePrimary, WriteError,
     ForwardResponse, ResponseError, CopyEnds, PeerGone, CopyUp, CopyDown
<1> QED
  BY <1>5, <1>10, <1>11, <1>12, <1>13, <1>14, <1>15 DEF Next, HandlerStep
LEMMA CopyFramesStep ==
  TypeOK /\ LoggingIn /\ CopyFramesLate /\ [Next]_vars => CopyFramesLate'
<1> SUFFICES ASSUME TypeOK, LoggingIn, CopyFramesLate, [Next]_vars,
                    pc' \notin {"copying", "ended"}
             PROVE  /\ client' # "copying" /\ cur' # "copyDone"
                    /\ \A i \in 1..Len(up') : up'[i] # "copyDone"
  BY DEF CopyFramesLate
<1> USE DEF ClientVars, HandlerVars, PrimaryVars
<1>1. pc \notin {"copying", "ended"}
  BY DEF vars, Next, HandlerStep, DialPrimary, AnswerEncryption, ForwardStartup,
     ForwardAuth, ForwardPassword, StartShadow, ReadFrame, WritePrimary,
     WriteError, ForwardResponse, ResponseError, CopyEnds, PeerGone, CopyUp,
     CopyDown, ClientStep, AskEncryption, Login, SendFrame, SendCopy, ClientGone,
     Sends, PrimaryStep, PrimaryAuth, PrimaryAnswers, PrimaryDown, Ended
<1>2. /\ client # "copying" /\ cur # "copyDone"
      /\ \A i \in 1..Len(up) : up[i] # "copyDone"
  BY <1>1 DEF CopyFramesLate
<1>3. up # <<>> => /\ Head(up) # "copyDone"
                   /\ \A i \in 1..Len(Tail(up)) : Tail(up)[i] # "copyDone"
  BY <1>2, QueueTail DEF TypeOK
<1>4. CASE UNCHANGED <<client, cur, up>>
  BY <1>2, <1>4
<1>5. CASE AnswerEncryption
  BY <1>2, <1>3, <1>5 DEF AnswerEncryption
<1>6. CASE ForwardStartup \/ ForwardPassword \/ ReadFrame
  BY <1>2, <1>3, <1>6 DEF ForwardStartup, ForwardPassword, ReadFrame
<1>7. CASE ForwardAuth
  <2>1. pc = "auth" /\ down # <<>> /\ Acts(Head(down)) /\ cur' = cur
    BY <1>7 DEF ForwardAuth, WriteClient
  <2>2. Head(down) # "copy"
    BY <2>1, QueueTail DEF LoggingIn, TypeOK
  <2>3. client' # "copying"
    BY <1>2, <2>1, <2>2 DEF Acts
  <2>4. up' = up \/ up' = Append(up, "password")
    BY <1>7 DEF ForwardAuth
  <2>5. \A i \in 1..Len(Append(up, "password")) :
          Append(up, "password")[i] # "copyDone"
    BY <1>2 DEF TypeOK
  <2> QED
    BY <1>2, <2>1, <2>3, <2>4, <2>5
<1>8. CASE ForwardResponse
  <2>1. Acts(Head(down)) /\ UNCHANGED <<up, cur>> /\ Head(down) # "copy"
    BY <1>8 DEF ForwardResponse, WriteClient, EndsResponse
  <2> QED
    BY <1>2, <2>1 DEF Acts
<1>9. CASE ClientStep
  <2>1. /\ client' # "copying" /\ cur' = cur
        /\ up' = up \/ \E f : f # "copyDone" /\ up' = Append(up, f)
    BY <1>2, <1>9 DEF ClientStep, AskEncryption, Login, SendFrame, SendCopy,
       ClientGone, Sends, Waits, TypeOK
  <2>2. ASSUME NEW f, f # "copyDone", up' = Append(up, f)
        PROVE  \A i \in 1..Len(up') : up'[i] # "copyDone"
    BY <1>2, <2>2 DEF TypeOK
  <2> QED
    BY <1>2, <2>1, <2>2
<1>10. CASE \/ DialPrimary \/ StartShadow \/ WritePrimary \/ WriteError
            \/ ResponseError \/ CopyEnds \/ PeerGone \/ PrimaryStep \/ Ended
            \/ UNCHANGED vars
  BY <1>4, <1>10 DEF DialPrimary, StartShadow, WritePrimary, WriteError,
     ResponseError, CopyEnds, PeerGone, PrimaryStep, PrimaryAuth,
     PrimaryAnswers, PrimaryDown, Ended, vars
<1>11. CASE CopyUp \/ CopyDown
  BY <1>1, <1>11 DEF CopyUp, CopyDown
<1> QED
  BY <1>5, <1>6, <1>7, <1>8, <1>9, <1>10, <1>11 DEF Next, HandlerStep

\* In the query loop: what is answered before the handler reads on is answered
\* to the frame it has just written.
LEMMA ServingStep ==
  NoCall /\ TypeOK /\ Phases /\ [Next]_vars => Serving'
<1> SUFFICES ASSUME NoCall, TypeOK, LoggingIn, Serving, CopyFramesLate,
                    [Next]_vars
             PROVE  Serving'
  BY DEF Phases
<1> USE DEF ClientVars, HandlerVars, PrimaryVars
<1> DEFINE Loop == {"shadow", "read", "write", "respond"}
<1>1. CASE UNCHANGED <<pc, primary, work, down>>
  BY <1>1 DEF Serving, OneFinal, NoFinal, Silent, AsksLast
<1>2. CASE pc' \notin Loop
  BY <1>2 DEF Serving
<1>3. CASE ForwardAuth /\ pc' = "shadow"
  <2>1. /\ pc = "auth" /\ down # <<>> /\ down' = Tail(down)
        /\ Head(down) = "ready" /\ UNCHANGED <<primary, work>>
    BY <1>3 DEF ForwardAuth, AsksPassword
  <2>2. /\ work = <<>> /\ OneFinal(down)
        /\ \A i \in 1..Len(down) :
             down[i] = "ready" => primary \in {"up", "down"}
    BY <2>1 DEF LoggingIn
  <2>3. down' = <<>>
    BY <2>1, <2>2, FinalTail DEF TypeOK, Final
  <2>4. primary \in {"up", "down"}
    BY <2>1, <2>2, QueueTail DEF TypeOK
  <2>5. Silent(work') /\ NoFinal(down')
    BY <2>1, <2>2, <2>3 DEF Silent, NoFinal
  <2> QED
    BY <1>3, <2>1, <2>3, <2>4, <2>5 DEF Serving
<1>4. CASE StartShadow \/ ReadFrame
  <2>1. /\ pc \in {"shadow", "read"} /\ pc' \in {"read", "write"}
        /\ UNCHANGED <<primary, work, down>>
    BY <1>4 DEF StartShadow, ReadFrame
  <2> QED
    BY <2>1 DEF Serving, Silent, NoFinal
<1>5. CASE WritePrimary /\ pc' \in Loop
  <2>1. /\ pc = "write" /\ UNCHANGED <<primary, down>>
        /\ work' = IF primary = "down" THEN work ELSE Append(work, cur)
        /\ pc' = IF TriggersResponse(cur) THEN "respond" ELSE "read"
    BY <1>5 DEF WritePrimary
  <2>2. /\ primary \in {"up", "down"} /\ NoFinal(down) /\ Silent(work)
    BY <2>1 DEF Serving
  <2>3. cur \notin {"copyDone", "call"}
    BY <2>1 DEF CopyFramesLate, NoCall, TypeOK, Frame
  <2>4. TriggersResponse(cur) \/ cur \notin Asking
    BY <2>3 DEF TriggersResponse, Asking
  <2>5. /\ AsksLast(Append(work, cur))
        /\ cur \notin Asking => Silent(Append(work, cur))
    BY <2>2, AskAppend DEF TypeOK
  <2>6. NoFinal(down')
    BY <2>1, <2>2 DEF NoFinal
  <2>7. AsksLast(work)
    BY <2>2 DEF Silent, AsksLast
  <2>8. AsksLast(work') /\ (pc' = "read" => Silent(work'))
    <3>1. CASE primary = "down"
      BY <2>1, <2>2, <2>7, <3>1 DEF Silent, AsksLast
    <3>2. CASE primary = "up"
      <4>1. work' = Append(work, cur)
        BY <2>1, <3>2
      <4>2. pc' = "read" => cur \notin Asking
        BY <2>1, <2>4
      <4> HIDE DEF Loop
      <4> QED
        BY <2>5, <4>1, <4>2
    <3> QED
      BY <2>2, <3>1, <3>2
  <2>9. pc' \in {"read", "respond"} /\ primary' \in {"up", "down"}
    BY <2>1, <2>2
  <2> QED
    BY <2>6, <2>8, <2>9 DEF Serving
<1>6. CASE ForwardResponse /\ pc' \in Loop
  <2>1. /\ pc = "respond" /\ down # <<>> /\ down' = Tail(down)
        /\ UNCHANGED <<primary, work>>
        /\ pc' = "read" => Head(down) \in Final
        /\ pc' \in {"read", "respond"}
    BY <1>6 DEF ForwardResponse, EndsResponse, Final
  <2>2. primary \in {"up", "down"}
    BY <2>1 DEF Serving
  <2>3. CASE work = <<>> /\ OneFinal(down)
    <3>1. OneFinal(down') /\ (pc' = "read" => down' = <<>>)
      BY <2>1, <2>3, FinalTail DEF TypeOK
    <3>2. work' = <<>> /\ Silent(work') /\ (down' = <<>> => NoFinal(down'))
      BY <2>1, <2>3 DEF Silent, NoFinal
    <3> QED
      BY <2>1, <2>2, <3>1, <3>2 DEF Serving
  <2>4. CASE AsksLast(work) /\ NoFinal(down)
    <3>1. NoFinal(down') /\ pc' = "respond"
      BY <2>1, <2>4, NoFinalTail DEF TypeOK
    <3>2. AsksLast(work')
      BY <2>1, <2>4 DEF AsksLast
    <3> QED
      BY <2>1, <2>2, <3>1, <3>2 DEF Serving
  <2> QED
    BY <2>1, <2>3, <2>4 DEF Serving
<1>7. CASE pc \in Loop /\ PrimaryAuth
  BY <1>7 DEF Serving, PrimaryAuth
<1>8. CASE pc \in Loop /\ PrimaryAnswers
  <2>1. /\ pc' = pc /\ primary' = primary /\ work # <<>> /\ work' = Tail(work)
        /\ primary = "up"
    BY <1>8 DEF PrimaryAnswers
  <2>2. PICK ms \in Answers(Head(work)) : down' = down \o ms
    BY <1>8 DEF PrimaryAnswers, Emit
  <2>3. /\ ms \in Seq(Message) /\ OneFinal(ms)
        /\ Head(work) \notin Asking => NoFinal(ms)
    BY AnswersFinal
  <2>4. CASE pc # "respond"
    <3>1. Silent(work) /\ NoFinal(down)
      BY <1>8, <2>4 DEF Serving
    <3>2. Silent(work') /\ Head(work) \notin Asking
      BY <2>1, <3>1, AskTail DEF TypeOK
    <3>3. NoFinal(down')
      BY <2>2, <2>3, <3>1, <3>2, FinalAppend DEF TypeOK
    <3> QED
      BY <2>1, <2>4, <3>2, <3>3 DEF Serving
  <2>5. CASE pc = "respond"
    <3>1. AsksLast(work) /\ NoFinal(down)
      BY <2>1, <2>5 DEF Serving
    <3>2. CASE Head(work) \in Asking
      <4>1. work' = <<>>
        BY <2>1, <3>1, <3>2, AskTail DEF TypeOK
      <4>2. OneFinal(down')
        BY <2>2, <2>3, <3>1, FinalAppend DEF TypeOK
      <4> QED
        BY <2>1, <2>5, <4>1, <4>2 DEF Serving
    <3>3. CASE Head(work) \notin Asking
      <4>1. AsksLast(work')
        BY <2>1, <3>1, AskTail DEF TypeOK
      <4>2. NoFinal(down')
        BY <2>2, <2>3, <3>1, <3>3, FinalAppend DEF TypeOK
      <4> QED
        BY <2>1, <2>5, <4>1, <4>2 DEF Serving
    <3> QED
      BY <3>2, <3>3
  <2> QED
    BY <2>4, <2>5
<1>9. CASE pc \in Loop /\ PrimaryDown
  <2>1. PICK k \in 0..Len(down) : down' = SubSeq(down, 1, k)
    BY <1>9 DEF PrimaryDown
  <2>2. /\ Len(down') = k /\ \A i \in 1..k : down'[i] = down[i]
        /\ (down = <<>> => down' = <<>>)
    BY <2>1 DEF TypeOK
  <2>3. /\ pc' = pc /\ work' = <<>> /\ primary' = "down"
    BY <1>9 DEF PrimaryDown
  <2>4. Silent(work')
    BY <2>3 DEF Silent
  <2>5. Len(down) \in Nat /\ k <= Len(down) /\ k \in Nat
        /\ \A i \in 1..k : i \in 1..Len(down)
    BY DEF TypeOK
  <2>6. ASSUME OneFinal(down) PROVE OneFinal(down')
    BY <2>2, <2>5, <2>6 DEF OneFinal
  <2>7. ASSUME NoFinal(down) PROVE NoFinal(down') /\ OneFinal(down)
    BY <2>2, <2>5, <2>7 DEF NoFinal, OneFinal
  <2> QED
    BY <2>3, <2>4, <2>6, <2>7 DEF Serving
<1>10. CASE PrimaryStep
  <2>1. pc' = pc
    BY <1>10 DEF PrimaryStep, PrimaryAuth, PrimaryAnswers, PrimaryDown
  <2> QED
    BY <1>2, <1>7, <1>8, <1>9, <1>10, <2>1 DEF PrimaryStep
<1>11. CASE ClientStep
  BY <1>1, <1>11 DEF ClientStep, AskEncryption, Login, SendFrame, SendCopy,
     ClientGone, Sends
<1>12. CASE UNCHANGED vars \/ Ended
  BY <1>1, <1>12 DEF vars, Ended
<1>13. CASE \/ DialPrimary \/ AnswerEncryption \/ ForwardStartup
            \/ ForwardPassword \/ WriteError \/ ResponseError \/ CopyEnds
            \/ PeerGone \/ CopyUp \/ CopyDown
  BY <1>2, <1>13 DEF DialPrimary, AnswerEncryption, ForwardStartup,
     ForwardPassword, WriteError, ResponseError, CopyEnds, PeerGone, CopyUp,
     CopyDown
<1>14. CASE ForwardAuth /\ pc' # "shadow"
  BY <1>2, <1>14 DEF ForwardAuth
<1> QED
  BY <1>2, <1>3, <1>4, <1>5, <1>6, <1>10, <1>11, <1>12, <1>13, <1>14
     DEF Next, HandlerStep
-----------------------------------------------------------------------------
\* IInv holds in every state of a connection.
THEOREM Invariance == Spec => []IInv
<1>1. IInv /\ [Next]_vars => IInv'
  <2> SUFFICES ASSUME IInv, [Next]_vars PROVE IInv'
    OBVIOUS
  <2>1. TypeOK' /\ Transparent' /\ Logging'
    BY TypeStep, TransparentStep, LoggingStep DEF IInv
  <2>2. ASSUME NoCall PROVE Phases'
    BY <2>2, LoggingInStep, ServingStep, CopyFramesStep DEF IInv, Phases
  <2> QED
    BY <2>1, <2>2 DEF IInv, NoCall
<1> QED
  BY InitIInv, <1>1, PTL DEF Spec

\* Types.
THEOREM TypeCorrect == Spec => []TypeOK
  BY Invariance, PTL DEF IInv

\* In every phase the client has received exactly what the primary has sent,
\* in order, but for what is in flight: forwardStartup, forwardAuthPhase,
\* forwardResponseUntilReady and copyFallback add, drop and reorder nothing.
THEOREM BytesUnmodified == Spec => []Transparent
  BY Invariance, PTL DEF IInv

\* Every frame that runQueryLoop has read has one target=primary entry, once
\* it is served, whichever way that ended.
THEOREM EachFrameLogged == Spec => []LoggedOnce
<1>1. IInv => LoggedOnce
  BY DEF IInv, TypeOK, Logging, LoggedOnce
<1> QED
  BY Invariance, <1>1, PTL

\* For a client that does not use FunctionCall, whatever else it sends and
\* however early the primary answers it, no end of a response is left when
\* runQueryLoop reads the next frame: forwardResponseUntilReady stops at the
\* ReadyForQuery of the Query or Sync that it was called for.
THEOREM NothingLeftOver == Spec => [](NoCall => NoEndLeftOver)
<1>1. IInv => (NoCall => NoEndLeftOver)
  BY DEF IInv, Phases, Serving, NoEndLeftOver, NoFinal, Final, EndsResponse
<1> QED
  BY Invariance, <1>1, PTL
=============================================================================
