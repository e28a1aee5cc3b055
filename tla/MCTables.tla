------------------------------ MODULE MCTables ------------------------------
(***************************************************************************)
(* The files of the kernel, cut down like the tables: those of the version *)
(* zsyscalls.go is based on, of one with another system call, of one with  *)
(* a line that is not understood, and of one that is too old to have them. *)
(***************************************************************************)
EXTENDS Tables, TLC

Files(arm, armHeader, generic, x86_32, x86_64) ==
  [i \in {"/arch/arm/tools/syscall.tbl"} |-> arm]
  @@ [i \in {"/arch/arm/include/uapi/asm/unistd.h"} |-> armHeader]
  @@ [i \in {"/include/uapi/asm-generic/unistd.h"} |-> generic]
  @@ [i \in {"/arch/x86/entry/syscalls/syscall_32.tbl"} |-> x86_32]
  @@ [i \in {"/arch/x86/entry/syscalls/syscall_64.tbl"} |-> x86_64]

ArmTable ==
  <<Comment, Row(0, "common", "restart_syscall"), Row(1, "common", "exit"),
    Row(3, "common", "read"), Row(11, "common", "execve"), Row(13, "oabi", "time"),
    Row(174, "common", "rt_sigaction")>>

ArmHeader == <<Comment, Define("__ARM_NR", 5, "set_tls"), Define("__ARM_NR", 2, "cacheflush")>>

Generic ==
  <<Comment, Define("__NR", 0, "io_setup"), Define("__NR", 63, "read"), Short,
    Guarded("__NR", 84, "sync_file_range2"), Define("__NR", 84, "sync_file_range"),
    Define("__NR", 93, "exit"), Define("__NR", 134, "rt_sigaction"),
    Define("__NR", 221, "execve"), Define("__NR", 244, "arch_specific_syscall"),
    Guarded("__NR", 403, "clock_gettime64"), Define("__NR", 468, "syscalls")>>

X86_32Table ==
  <<Row(0, "i386", "restart_syscall"), Row(1, "i386", "exit"), Row(3, "i386", "read"), Comment,
    Row(11, "i386", "execve"), Row(174, "i386", "rt_sigaction")>>

X86_64Table ==
  <<Row(0, "common", "read"), Row(13, "64", "rt_sigaction"), Row(59, "64", "execve"),
    Row(60, "common", "exit"), Row(134, "64", "uselib"), Comment,
    Row(512, "x32", "rt_sigaction"), Row(520, "x32", "execve")>>

New(abi) == Row(468, abi, "file_getattr")

MCSources ==
  "v6.15" :> Files(ArmTable, ArmHeader, Generic, X86_32Table, X86_64Table)
  @@ "next" :> Files(Append(ArmTable, New("common")), ArmHeader,
                     Append(Generic, Define("__NR", 468, "file_getattr")),
                     Append(X86_32Table, New("i386")), Append(X86_64Table, New("common")))
  @@ "strange" :> Files(ArmTable, ArmHeader, Append(Generic, Define("__NR", NotANumber, "new")),
                        Append(X86_32Table, Short), X86_64Table)
  @@ "old" :> [i \in {"/arch/x86/entry/syscalls/syscall_64.tbl"} |-> X86_64Table]

OwnX32 == 0 :> "read" @@ 60 :> "exit" @@ 512 :> "rt_sigaction" @@ 520 :> "execve"

OwnAARCH64 ==
  0 :> "io_setup" @@ 63 :> "read" @@ 84 :> "sync_file_range" @@ 93 :> "exit"
  @@ 134 :> "rt_sigaction" @@ 221 :> "execve"

MCKernel ==
  LET base == [ARM |-> TableOf(syscallsARM), AARCH64 |-> OwnAARCH64,
               I386 |-> TableOf(syscalls386), X32 |-> OwnX32,
               X86_64 |-> TableOf(syscallsX86_64)]
      new == 468 :> "file_getattr"
  IN  "v6.15" :> base @@ "next" :> [a \in DOMAIN base |-> base[a] @@ new]

MCGOARCHes == {"amd64", "arm", "386", "arm64", "riscv64", "mipsle"}
MCArchNames == {"", "x86_64", "AMD64", "i386", "aarch64", "x32", "ppc64le", "mipsel"}
=============================================================================
