--------------------------- MODULE PgStickyFilter ---------------------------
(***************************************************************************)
(* Which frames of the extended query protocol reach the shadow            *)
(* (PgProxy.shouldMirrorPgFrame and its use in runQueryLoop), and what     *)
(* that does to the prepared statements and portals of the two servers.    *)
(*                                                                         *)
(* A statement text stands for what it says; the deterministic filter      *)
(* passes the texts in Allowed.  The shadow has the primary's schema and   *)
(* gets every mirrored frame (PgShadowWorker is about the frames it does   *)
(* not get); a frame stands for a batch that ends in Sync inside a         *)
(* transaction, so an error undoes nothing but its own frame.              *)
(***************************************************************************)
EXTENDS Naturals, FiniteSets

CONSTANTS
  Names,          \* names the client gives its prepared statements
  Unnamed,        \* the empty name
  Sql,            \* statement texts
  Allowed,        \* those that the filter lets through
  NoSql,          \* no such statement, or no such portal
  pgStickyStmtMapCap

ASSUME StickyAssumption ==
  /\ Unnamed \notin Names
  /\ Allowed \subseteq Sql
  /\ NoSql \notin Sql
  /\ pgStickyStmtMapCap \in Nat \ {0}

VARIABLES
  filteredStmtNames,  \* the local of runQueryLoop
  stmts,              \* per server, what each name stands for
  portal,             \* per server, what its portal was bound to
  ran,                \* per server, what the last Execute ran
  of,                 \* the names of the statements of portal and of ran
  tainted             \* history: see Taint

stickyVars == <<filteredStmtNames, stmts, portal, ran, of, tainted>>

AllNames == Names \cup {Unnamed}
Text == Sql \cup {NoSql}
NoStmts == [n \in AllNames |-> NoSql]

\* On each server: x on the primary, y on the shadow.
Both(x, y) == [primary |-> x, shadow |-> y]

StickyInit ==
  /\ filteredStmtNames = {}
  /\ stmts = Both(NoStmts, NoStmts)
  /\ portal = Both(NoSql, NoSql)
  /\ ran = Both(NoSql, NoSql)
  /\ of = [portal |-> Unnamed, ran |-> Unnamed]
  /\ tainted = FALSE
-----------------------------------------------------------------------------
(* shouldMirrorPgFrame.                                                    *)

shouldShadowMirror(q) == q \in Allowed

Full == Cardinality(filteredStmtNames) >= pgStickyStmtMapCap

\* A filtered Parse of a named statement is remembered.
Remember(n) ==
  filteredStmtNames' =
    IF n = Unnamed
      THEN filteredStmtNames
      ELSE (IF Full THEN {} ELSE filteredStmtNames) \cup {n}

\* Mutant: only what Parse says is looked at.
NotSticky(n) == FALSE

\* Bind, Describe('S') and Close('S') look the name up.
Sticky(n) == n \in filteredStmtNames

\* Mutant: the name of a closed statement stays.
KeepName(n) == UNCHANGED filteredStmtNames

\* Close('S'), filtered or mirrored, deletes the name.
Forget(n) == filteredStmtNames' = filteredStmtNames \ {n}
-----------------------------------------------------------------------------
(* What a server makes of a frame.                                         *)

\* Parse: the server refuses a name it has; an error drops the unnamed one.
Parsed(s, n, q, fails) ==
  IF n \in Names
    THEN IF fails \/ s[n] # NoSql THEN s ELSE [s EXCEPT ![n] = q]
    ELSE [s EXCEPT ![n] = IF fails THEN NoSql ELSE q]

(***************************************************************************)
(* tainted: the map was cleared at its cap, or the primary refused a named *)
(* Parse that the filter had dropped.  From then on the map no longer says *)
(* what the shadow lacks.                                                  *)
(***************************************************************************)
Taint(n, fails) == tainted' = (tainted \/ (n \in Names /\ (Full \/ fails)))
-----------------------------------------------------------------------------
(* The client's frames.  It does not give a name twice without Close.      *)

MayParse(n) == n \in Names => stmts.primary[n] = NoSql

ParseMirrored(n, q, fails) ==
  /\ MayParse(n)
  /\ shouldShadowMirror(q)
  /\ stmts' = Both(Parsed(stmts.primary, n, q, fails),
                   Parsed(stmts.shadow, n, q, fails))
  /\ UNCHANGED <<filteredStmtNames, portal, ran, of, tainted>>

ParseFiltered(n, q, fails) ==
  /\ MayParse(n)
  /\ ~shouldShadowMirror(q)
  /\ stmts' = [stmts EXCEPT !.primary = Parsed(@, n, q, fails)]
  /\ Remember(n)
  /\ Taint(n, fails)
  /\ UNCHANGED <<portal, ran, of>>

\* Bind of a statement the client has; the shadow's may be missing.
Bind(n) ==
  /\ stmts.primary[n] # NoSql
  /\ portal' = IF Sticky(n)
                 THEN [portal EXCEPT !.primary = stmts.primary[n]]
                 ELSE Both(stmts.primary[n], stmts.shadow[n])
  /\ of' = [of EXCEPT !.portal = n]
  /\ UNCHANGED <<filteredStmtNames, stmts, ran, tainted>>

\* Execute always passes.
Execute ==
  /\ portal.primary # NoSql
  /\ ran' = portal
  /\ of' = [of EXCEPT !.ran = of.portal]
  /\ UNCHANGED <<filteredStmtNames, stmts, portal, tainted>>

Close(n) ==
  /\ stmts' = IF Sticky(n)
                THEN [stmts EXCEPT !.primary[n] = NoSql]
                ELSE [stmts EXCEPT !.primary[n] = NoSql, !.shadow[n] = NoSql]
  /\ Forget(n)
  /\ UNCHANGED <<portal, ran, of, tainted>>

\* A simple Query destroys the unnamed statement and the unnamed portal.
Query(q) ==
  /\ stmts' = [stmts EXCEPT
                 !.primary[Unnamed] = NoSql,
                 !.shadow[Unnamed] = IF shouldShadowMirror(q) THEN NoSql ELSE @]
  /\ portal' = Both(NoSql, IF shouldShadowMirror(q) THEN NoSql
                                                    ELSE portal.shadow)
  /\ UNCHANGED <<filteredStmtNames, ran, of, tainted>>

StickyNext ==
  \/ \E n \in AllNames, q \in Sql, fails \in BOOLEAN :
       ParseMirrored(n, q, fails) \/ ParseFiltered(n, q, fails)
  \/ \E n \in AllNames : Bind(n) \/ Close(n)
  \/ Execute
  \/ \E q \in Sql : Query(q)

StickySpec == StickyInit /\ [][StickyNext]_stickyVars
-----------------------------------------------------------------------------
\* Types.
StickyTypeOK ==
  /\ filteredStmtNames \subseteq Names
  /\ stmts \in [primary : [AllNames -> Text], shadow : [AllNames -> Text]]
  /\ portal \in [primary : Text, shadow : Text]
  /\ ran \in [primary : Text, shadow : Text]
  /\ of \in [portal : AllNames, ran : AllNames]
  /\ tainted \in BOOLEAN

\* "The cap bounds that growth": the map never holds more names than the cap.
MapBounded == Cardinality(filteredStmtNames) <= pgStickyStmtMapCap

\* The purpose of the sticky map: a mirrored Bind or Describe of a named
\* statement finds on the shadow the very statement the primary has, so never
\* "prepared statement S_N does not exist".
BindFindsStatement ==
  ~tainted => \A n \in Names :
    stmts.primary[n] # NoSql /\ ~Sticky(n)
      => stmts.shadow[n] = stmts.primary[n]

\* Whenever the primary executes a statement that the filter lets through, the
\* shadow executes the same one, whatever was filtered before.
AllowedRunsMatch ==
  ~tainted => (ran.primary \in Allowed => ran.shadow = ran.primary)

=============================================================================
