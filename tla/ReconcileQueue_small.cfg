\* As many operations as two scans take, one of them broken.
CONSTANTS
  Ids = {1, 2, 3, 4}
  Limit = 2
  Broken = {1}
  Regular <- MCRegular
  Backoff = 4
SPECIFICATION Spec
PROPERTIES
  OutcomesAreHeard
