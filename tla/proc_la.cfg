CONSTANTS
    init_proc = ip
    PROC = {ip, p1, p2}
    NULL = NULL
    Blkreq = Blkreq
    Arch = "loongarch"
    Syscalls = {"fork", "exit", "wait4", "wait4_nohang", "sched_yield", "nanosleep", "kill"}
    Naps = {1}
    MaxTick = 1
    MaxPid = 5
SPECIFICATION FairSpec
INVARIANTS NoLostWakeup ListExact FamilySound
PROPERTIES WaiterServed KilledExits
