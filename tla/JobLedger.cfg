CONSTANTS
    d1 = d1
    d2 = d2
    repl = repl
    Procs = {d1, d2, repl}
    Lockless = {repl}
    n1 = n1
    n2 = n2
    n3 = n3
    Pids = {n1, n2, n3}
    MaxJobs = 1
SPECIFICATION Spec
SYMMETRY AnyOrder
CHECK_DEADLOCK FALSE
INVARIANTS
    OneDaemon
    LedgerTellsTheTruth
PROPERTIES
    NotRefusedByTheDead
