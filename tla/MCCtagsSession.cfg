\* Three requests; pipes and queue of one element so that each of them fills.
\* CallsReturn fails with either of the other faults (see README).
SPECIFICATION Spec
CONSTANTS
    Answers <- McAnswers
    Chunks = 2
    PipeSize = 1
    QueueSize = 1
    MaxRequests = 3
    Faults = {"die"}
INVARIANTS Aligned CacheCommitted StoredIsWhole
PROPERTY CallsReturn
\* The session ends when it is closed.
CHECK_DEADLOCK FALSE
