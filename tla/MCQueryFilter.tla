--------------------------- MODULE MCQueryFilter ----------------------------
(* Words with a two-word operation, a preamble and a plain operation.      *)
EXTENDS QueryFilter, TLC

MCWords == {"SELECT", "SET", "INSERT", "OVERWRITE"}

\* Space is always a newline, which also ends a line comment.
MCTokens == MCWords \cup {"newline", "paren", "semicolon", "single", "backtick",
                         "backslash", "open", "close", "dashes"}

MCmultiWordOps == <<"INSERT", "OVERWRITE">> :> "INSERT_OVERWRITE"

MCConfigs ==
  [mode : {"", "include", "exclude", "neither"},
   ops : {{}, {"INSERT_OVERWRITE", "SELECT"}},
   patterns : {{}, {"SET", "empty"}, {"bad"}},
   rate : {-50, 0, 50, 100, 150}]
=============================================================================
