\* The queue holds the whole trace; the delegate answers.
CONSTANTS
    a = a
    b = b
    c = c
    CallIds <- MCCallIds
    Trajectories <- MCTrajectories
    Outcomes <- Answered
    QueueSize = 6
    BatchSize = 2
SPECIFICATION Spec
INVARIANTS
    TypeOK
    SuccessMeansDelivered
    RejectedTraceSendsNothing
    SpansNest
    ErrorsAtTheirCall
PROPERTIES
    CommandEnds
