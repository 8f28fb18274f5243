SPECIFICATION Spec
CONSTANTS
  s1 = s1
  s2 = s2
  r1 = r1
  r2 = r2
  NoSender = NoSender
  Senders <- TwoSenders
  Receivers <- TwoReceivers
  Capacity = 2
  Quota = 2
SYMMETRY Symmetry
CHECK_DEADLOCK FALSE
INVARIANTS QueueBounded InOrder HoldsCounted
PROPERTIES AutoCloseAfterLast
