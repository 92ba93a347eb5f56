\* The delegate may raise, against the docstring of TrackingSpanExporter.
CONSTANTS
    a = a
    b = b
    c = c
    CallIds <- MCCallIds
    Trajectories <- MCTrajectories
    Outcomes <- Raises
    QueueSize = 6
    BatchSize = 2
SPECIFICATION Spec
INVARIANTS
    SuccessMeansDelivered
