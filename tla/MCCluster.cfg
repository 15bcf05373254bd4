SPECIFICATION ClusterSpec
CONSTANTS
  Jobs <- MCJobs
  Capacity = 2
  SmallInput = 3
  RingThreshold = 6
  RetryCnt = 2
INVARIANTS StreamsInStep ReadyAreLinked
PROPERTIES KeepsPromise AllReturn HandshakeEnds
