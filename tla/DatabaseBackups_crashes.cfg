SPECIFICATION Spec
CHECK_DEADLOCK FALSE
CONSTANTS
    p1 = p1  p2 = p2  p3 = p3  o1 = o1  o2 = o2
    Pid = {p1, p2, p3}
    Operation = {o1, o2}
    Startup = Startup
    Nobody = Nobody
    MaxAlive = 2
    MaxStarting = 1
    MaxFaults = 3
SYMMETRY BackupSymmetry
INVARIANTS
    TypeOK
    BackupsAreComplete
PROPERTIES
    OutcomeIsFinal
    ServesReconciled
    FollowsLease
