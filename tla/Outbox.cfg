\* Two handlers race for an aggregate, one relay publishes. The streams stop at MaxVersion.
SPECIFICATION FairSpec
CONSTANTS
  s1 = s1
  w1 = w1
  w2 = w2
  r1 = r1
  Streams = {s1}
  Writers = {w1, w2}
  Target <- RacingTarget
  MaxBatch = 2
  MaxVersion = 3
  MaxFaults = 2
  Relays = {r1}
  Limit = 2
INVARIANTS
  TypeOK
  NoEventLost
  OutboxFollowsStream
  PublishedInOrder
PROPERTIES
  AppendsAtomically
  EventsPublished
CHECK_DEADLOCK FALSE
