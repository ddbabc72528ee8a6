SPECIFICATION Spec
CONSTANTS
    Clients = {c1, c2, c3}
    MayFail = TRUE
    Preemptible = FALSE
    MaxLoads = 3
    NULL = NULL
CHECK_DEADLOCK FALSE
INVARIANTS
    HandlersReady OneWorker
