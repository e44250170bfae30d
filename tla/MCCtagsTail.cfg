\* The session of MCCtagsSession.cfg with a consumer that may give up on an event
\* that follows the end of the answer.
SPECIFICATION Spec
CONSTANTS
    Answers <- McAnswers
    Chunks = 2
    PipeSize = 1
    QueueSize = 1
    MaxRequests = 3
    Faults = {"die", "abandonTail"}
PROPERTY CallsReturn
\* The session ends when it is closed.
CHECK_DEADLOCK FALSE
