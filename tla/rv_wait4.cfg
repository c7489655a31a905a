CONSTANTS
    init_proc = ip
    PROC = {ip, p1, p2}
    NULL = NULL
    Blkreq = Blkreq
    Arch = "riscv"
    Syscalls = {"fork", "exit", "wait4"}
    Naps = {1}
    MaxTick = 0
    MaxPid = 4
SPECIFICATION Spec
INVARIANT SchedUninterruptible
CHECK_DEADLOCK FALSE
