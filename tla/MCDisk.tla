------------------------------ MODULE MCDisk ------------------------------
(* The two users on LoongArch, and ext4 on RISC-V too.                       *)
EXTENDS Disk, TLC

MCConfs == {[arch |-> "loongarch", users |-> {"ext4"}],
            [arch |-> "riscv", users |-> {"ext4"}],
            [arch |-> "loongarch", users |-> {"devfs"}]}
DevfsConf == {[arch |-> "loongarch", users |-> {"devfs"}]}
=============================================================================
