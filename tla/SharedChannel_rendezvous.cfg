SPECIFICATION FairSpec
CONSTANTS
  s1 = s1
  s2 = s2
  r1 = r1
  r2 = r2
  NoSender = NoSender
  Senders <- TwoSenders
  Receivers <- TwoReceivers
  Capacity = 0
  Quota = 2
CHECK_DEADLOCK FALSE
INVARIANTS TypeOK CompletedDelivered NoneIsFinal
PROPERTIES Implements DrainsToNone
