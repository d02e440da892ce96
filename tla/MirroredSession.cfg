SPECIFICATION Spec
CONSTANTS
  Databases = {d1, d2}
  Texts = {t1}
  QueueSize = 1
  MaxCommands = 3
  None = None
INVARIANTS   Parity EntriesPaired
