SPECIFICATION Spec
CONSTANTS
    Procs = {p1, p2, p3}
    Nobody = Nobody
    Overlap = FALSE
CHECK_DEADLOCK FALSE
INVARIANT OneDaemon
PROPERTY RefusedByTheLiving
