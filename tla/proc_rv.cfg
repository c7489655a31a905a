CONSTANTS
    init_proc = ip
    PROC = {ip, p1, p2}
    NULL = NULL
    Blkreq = Blkreq
    Arch = "riscv"
    Syscalls = {"fork", "exit", "wait4_nohang", "io", "nanosleep"}
    Naps = {1}
    MaxTick = 1
    MaxPid = 4
SPECIFICATION FairSpec
INVARIANTS DiskWakeup
PROPERTIES RunnableRuns NapKept
CHECK_DEADLOCK FALSE
