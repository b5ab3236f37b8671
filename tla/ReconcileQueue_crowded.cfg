\* More operations without outcome than three scans take.
CONSTANTS
  Ids = {1, 2, 3, 4}
  Limit = 1
  Broken = {}
  Regular <- MCRegular
  Backoff = 4
SPECIFICATION Spec
PROPERTIES
  OutcomesAreHeard
