SPECIFICATION StickySpec
CONSTANTS
  s1 = s1
  s2 = s2
  a1 = a1
  a2 = a2
  f1 = f1
  Names <- MCNames
  Unnamed = Unnamed
  Sql <- MCSql
  Allowed <- MCAllowed
  NoSql = NoSql
  pgStickyStmtMapCap = 2
SYMMETRY Symmetric
INVARIANTS BindFindsStatement AllowedRunsMatch
