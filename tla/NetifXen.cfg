\* Frames at any rate: those that keep to the backlog, which the ring and the
\* pages have room for, and those that run over the ring several times.
CONSTANTS
  QueueSize = 4
  RxPages = 3
  Backlog = 3
  MaxFrames = 9
SPECIFICATION Spec
INVARIANTS SemaphoreExact NeverUnwritten
PROPERTIES ChannelSpec NeverOlder EveryFrameReceived
CHECK_DEADLOCK FALSE
