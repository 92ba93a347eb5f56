\* The trace is longer than the queue, against docs/OBSERVABILITY.md.
CONSTANTS
    a = a
    b = b
    c = c
    CallIds <- MCCallIds
    Trajectories <- MCTrajectories
    Outcomes <- Arrives
    QueueSize = 2
    BatchSize = 2
SPECIFICATION Spec
INVARIANTS
    OneAgentSpanPerStep
