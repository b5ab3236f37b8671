\* One conversation, a message from the web, sent by two invocations, and one from a
\* gateway.  Once the credential is gone before a message came, nothing is left to happen.
CONSTANTS
  Nil = Nil
  c1 = c1
  Conversations = {c1}
  WebMessages = {w1}
  GatewayMessages = {g1}
  In <- MCIn
  Senders = {s1, s2}
  MaxGeneration = 3
  MaxRevision = 2
  MaxCommands = 1
SPECIFICATION Spec
SYMMETRY MCSymmetry
INVARIANT
  OneAtATime
PROPERTIES
  UnresolvedIsNotForgotten
  CommandsAreCurrent
CHECK_DEADLOCK FALSE
