\* With a lock that a failed EPOLL_CTL_ADD has left held, all may stop.
SPECIFICATION FairSpec
CHECK_DEADLOCK FALSE
CONSTANTS
  Senders = {s1, s2}
  Receiver = receiver
  NoThread = nobody
  PipeBytes = 1
  Failing = {s1}
  MaxFails = 1
  Capacity = 2
  Threshold = 1
INVARIANTS WellFormed WokenUnlessSilent
PROPERTIES Delivered NotifyReturns
