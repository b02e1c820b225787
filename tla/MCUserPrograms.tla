--------------------------- MODULE MCUserPrograms ----------------------------
(* Every build mode of the user programs that reaches user code, and the    *)
(* program that makes any call, on a table of four descriptors.             *)
EXTENDS UserPrograms

MCModes ==
    {"any", "c", "elf-pulse", "bad-syscall", "yield-stress", "fd-write", "fd-invalid", "fd-read",
     "rw-invalid", "fd-closed", "open-read", "open-flags", "open-invalid", "exec-elf", "dup-full",
     "bad-pointers", "exec-loop", "exec-bad-loop", "exec-transfer-fail", "exec-registry",
     "exec-paths", "exec-root", "exec-noent", "exec-nonexec", "exec-bad-elf2",
     "exec-bad-paths", "exec-second"}
=============================================================================
