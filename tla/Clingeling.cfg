CONSTANTS
    Fd = {pipe, a, b}
    Pipe = pipe
    PipeSize = 2
    Interests = {{}, {"In"}}
    Arrivals = {"In", "Hup"}
    MaxEvents = 2
    MaxCallbacks = 3
SPECIFICATION Spec
CHECK_DEADLOCK FALSE
INVARIANTS TypeOK KernelAgrees StaleOnlyInItsBatch
PROPERTIES ImplementsPoller ReadyIsServed WakeupEndsLoop
