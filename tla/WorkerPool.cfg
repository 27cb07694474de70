SPECIFICATION FairSpec
CONSTANTS
    WorkerIds = {0, 1}
    Jobs = {j1, j2, j3, j4}
    None = None
    maxRespawns = 1
INVARIANTS
    OneJobPerWorker
PROPERTIES
    EveryRunSettles
CHECK_DEADLOCK FALSE
