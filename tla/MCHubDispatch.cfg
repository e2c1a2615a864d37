\* Two publishers, two channels, Go channels of capacity 2: overlapping calls,
\* overflow of either Go channel, and cancellation at any point.
SPECIFICATION FairSpec
CONSTANTS
  Publishers = {p1, p2}
  Channels = {log, alert}
  Cap = 2
  MaxAccepted = 5
INVARIANTS TypeOK OwnChannelWhileClean
PROPERTIES DeliveredInOrder AcceptedLeave DrainReturns
CHECK_DEADLOCK FALSE
