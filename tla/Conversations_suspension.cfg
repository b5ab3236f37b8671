\* A message from the web and one from a gateway, in one conversation, while the
\* platform suspends and restores the tenant and no person acts.
CONSTANTS
  Nil = Nil
  c1 = c1
  Conversations = {c1}
  WebMessages = {w1}
  GatewayMessages = {g1}
  In <- MCIn
  Senders = {s1}
  MaxGeneration = 2
  MaxRevision = 1
  MaxCommands = 1
SPECIFICATION Unattended
INVARIANT
  NoneBesideTheUnknown
CHECK_DEADLOCK FALSE
