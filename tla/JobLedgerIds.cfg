CONSTANTS
    d1 = d1
    d2 = d2
    Procs = {d1, d2}
    Lockless = {}
    n1 = n1
    n2 = n2
    Pids = {n1, n2}
    MaxJobs = 1
SPECIFICATION Spec
CHECK_DEADLOCK FALSE
INVARIANT LedgerKeepsEveryJob
