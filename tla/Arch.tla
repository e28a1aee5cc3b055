-------------------------------- MODULE Arch --------------------------------
(***************************************************************************)
(* The package arch: the architectures, their tables of system calls and   *)
(* GetInfo.                                                                *)
(*                                                                         *)
(* The tables of zsyscalls.go are cut down to a few of their rows: calls   *)
(* that the generator has to take from somewhere else or to leave out, and *)
(* calls with another number on every architecture.                        *)
(***************************************************************************)
EXTENDS Integers, FiniteSets, Functions

Entry(num, name) == [num |-> num, name |-> name]

syscallsARM ==
  <<Entry(0, "restart_syscall"), Entry(1, "exit"), Entry(3, "read"), Entry(11, "execve"),
    Entry(174, "rt_sigaction"), Entry(983042, "cacheflush"), Entry(983045, "set_tls")>>

syscallsAARCH64 ==
  <<Entry(0, "io_setup"), Entry(63, "read"), Entry(84, "sync_file_range"), Entry(93, "exit"),
    Entry(134, "rt_sigaction"), Entry(221, "execve"), Entry(244, "arch_specific_syscall"),
    Entry(403, "clock_gettime64")>>

syscalls386 ==
  <<Entry(0, "restart_syscall"), Entry(1, "exit"), Entry(3, "read"), Entry(11, "execve"),
    Entry(174, "rt_sigaction")>>

syscallsX32 ==
  <<Entry(0, "read"), Entry(13, "rt_sigaction"), Entry(59, "execve"), Entry(60, "exit"),
    Entry(134, "uselib"), Entry(512, "rt_sigaction"), Entry(520, "execve")>>

syscallsX86_64 ==
  <<Entry(0, "read"), Entry(13, "rt_sigaction"), Entry(59, "execve"), Entry(60, "exit"),
    Entry(134, "uselib")>>

(* The file zsyscalls.go, as the repository has it.                        *)
Table(name, entries) == [name |-> name, syscalls |-> entries]

zsyscalls ==
  <<Table("ARM", syscallsARM), Table("AARCH64", syscallsAARCH64), Table("I386", syscalls386),
    Table("X32", syscallsX32), Table("X86_64", syscallsX86_64)>>

NoSyscalls == [num \in {} |-> ""]

-----------------------------------------------------------------------------
(* The constants of audit.h are all different: the name that String gives  *)
(* one stands for it.                                                      *)
AuditArch ==
  {"aarch64", "arm", "armeb", "cris", "frv", "i386", "ia64", "m32r", "m68k", "mips", "mips64",
   "mips64n32", "mipsel", "mipsel64", "mipsel64n32", "parisc", "parisc64", "ppc", "ppc64",
   "ppc64le", "s390", "s390x", "sh", "sh64", "shel", "shel64", "sparc", "sparc64", "x86_64"}

x32SyscallMask == 2 ^ 30

(* The architectures that have a name and an id only.                      *)
Unimplemented == {"ppc", "ppc64", "ppc64le", "s390", "s390x", "mips", "mipsel", "mips64",
                  "mips64n32", "mipsel64", "mipsel64n32"}

NumbersOf(in, name) == {num \in DOMAIN in : in[num] = name}

(* What invert may return.  A name with several numbers keeps the last one *)
(* written, and a Go map is ranged over in any order.                      *)
invert(in) ==
  LET again == {name \in Range(in) : Cardinality(NumbersOf(in, name)) > 1}
      kept  == {f \in [again -> DOMAIN in] : \A name \in again : in[f[name]] = name}
  IN  {[name \in Range(in) |-> IF name \in again THEN f[name]
                               ELSE CHOOSE num \in NumbersOf(in, name) : TRUE] : f \in kept}

Info(name, id, mask, numbers, names) ==
  [name |-> name, id |-> id, seccompMask |-> mask,
   syscallNumbers |-> numbers, syscallNames |-> names]

TableNames == {"ARM", "AARCH64", "I386", "X32", "X86_64"}

(* The architectures with a table; t are the tables, n their inverses.     *)
Implemented(t, n) ==
  [arm     |-> Info("arm", "arm", 0, t.ARM, n.ARM),
   aarch64 |-> Info("aarch64", "aarch64", 0, t.AARCH64, n.AARCH64),
   i386    |-> Info("i386", "i386", 0, t.I386, n.I386),
   x32     |-> Info("x32", "x86_64", x32SyscallMask, t.X32, n.X32),
   x86_64  |-> Info("x86_64", "x86_64", 0, t.X86_64, n.X86_64)]

(* All Infos of a program.                                                 *)
Infos(t, n) ==
  [a \in DOMAIN Implemented(t, n) \cup Unimplemented |->
     IF a \in Unimplemented THEN Info(a, a, 0, NoSyscalls, [name \in {} |-> 0])
     ELSE Implemented(t, n)[a]]

(* The architecture that a GOARCH or the name Linux has for one stands     *)
(* for.  The Linux name of mipsle, mipsel, is not among them.              *)
arches ==
  [a \in {"arm", "ppc", "ppc64", "ppc64le", "s390", "s390x", "mips", "mips64", "i386", "x32",
          "x86_64", "aarch64", "mips64n32", "mipsel64", "mipsel64n32", "mipsle", "386", "amd64",
          "arm64", "mips64p32", "mips64le", "mips64p32le"} |->
     CASE a = "mipsle" -> "mipsel"         [] a = "386" -> "i386"
       [] a = "amd64" -> "x86_64"          [] a = "arm64" -> "aarch64"
       [] a = "mips64p32" -> "mips64n32"   [] a = "mips64le" -> "mipsel64"
       [] a = "mips64p32le" -> "mipsel64n32"
       [] OTHER -> a]

(* strings.ToLower, on the names with capitals that are tried.             *)
ToLower(name) == CASE name = "AMD64" -> "amd64" [] name = "X86_64" -> "x86_64" [] OTHER -> name

Unsupported == [name |-> "unsupported arch"]

GetInfo(infos, goarch, name) ==
  LET key == IF name = "" THEN goarch ELSE ToLower(name)
  IN  IF key \notin DOMAIN arches \/ DOMAIN infos[arches[key]].syscallNames = {}
      THEN Unsupported
      ELSE infos[arches[key]]
=============================================================================
