CONSTANTS
  Ann = Ann
  Bob = Bob
  Agents = {Ann}
  Rungs = 2
  Attempts = 2
  Base = 2
  MaxWait = 1
  Budget = 1
  Statuses = {404}
  Types = {"none"}
  Afters = {0}
SPECIFICATION Spec
INVARIANT InterruptIsFatal
