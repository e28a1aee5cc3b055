------------------------------ MODULE Seccomp ------------------------------
(***************************************************************************)
(* seccomp_linux.go: Supported, LoadFilter and SetNoNewPrivs, called from  *)
(* goroutines of a process with several operating system threads.          *)
(*                                                                         *)
(* Each caller may ask whether seccomp is supported and makes one call of  *)
(* LoadFilter; the filter it loads is named after it.  A goroutine that    *)
(* is not locked to a thread may run on any thread, so each of the two     *)
(* system calls of LoadFilter may.  The kernel is outside the repository:  *)
(* it is modelled as far as the code relies on it (prctl(2), seccomp(2),   *)
(* and what clone(2) inherits).                                            *)
(***************************************************************************)
EXTENDS Integers, Sequences, SequencesExt

CONSTANTS Threads,    \* operating system threads the Go runtime may have
          Callers,    \* calls of LoadFilter
          Filters,    \* the Filter arguments of the calls
          MaxInsns,   \* BPF_MAXINSNS, the kernel's limit on a program (4096)
          U16         \* how many values the uint16 SockFprog.Len has

ASSUME ThreadsAssumption == Threads # {}
ASSUME LimitsAssumption == MaxInsns \in Nat \ {0} /\ U16 \in Nat /\ MaxInsns < U16

Flags == {"none", "tsync", "log", "invalid"}

(* A Filter as far as loading it matters: whether its policy assembles,    *)
(* how many instructions that gives and which of the system calls that are *)
(* needed to load a filter or to run a command its policy answers with an  *)
(* errno.                                                                  *)
FilterType == [flag : Flags, noNewPrivs : BOOLEAN, assembles : BOOLEAN,
               size : Nat \ {0}, denies : SUBSET {"prctl", "seccomp", "execve"}]

ASSUME FiltersAssumption == Filters \subseteq FilterType

VARIABLES hasSeccomp,  \* the kernel has the seccomp system call
          privileged,  \* the process has CAP_SYS_ADMIN
          live,        \* the threads of the process
          noNewPrivs,  \* each thread's no_new_privs bit
          filters,     \* each thread's filters, in the order they were attached
          pc,          \* where each caller is in LoadFilter
          filter,      \* its argument
          locked,      \* whether it is locked to its thread (runtime.LockOSThread)
          thread,      \* the thread it was last seen on
          supported,   \* what Supported returned to it
          result,      \* what LoadFilter returned: "nil" or an error
          prctlOn      \* history: the threads on which its prctl succeeded

kernelVars == <<live, noNewPrivs, filters>>
callVars   == <<pc, filter, locked, thread, supported, result, prctlOn>>
vars == <<hasSeccomp, privileged, kernelVars, callVars>>

Init ==
  /\ hasSeccomp \in BOOLEAN
  /\ privileged \in BOOLEAN
  /\ \E t \in Threads : live = {t}
  /\ noNewPrivs = [t \in Threads |-> FALSE]
  /\ filters = [t \in Threads |-> <<>>]
  /\ pc = [c \in Callers |-> "idle"]
  /\ filter \in [Callers -> Filters]
  /\ locked \in [Callers -> BOOLEAN]
  /\ thread = [c \in Callers |-> CHOOSE t \in live : TRUE]
  /\ supported = [c \in Callers |-> "unasked"]
  /\ result = [c \in Callers |-> "none"]
  /\ prctlOn = [c \in Callers |-> {}]

-----------------------------------------------------------------------------
(* The kernel.                                                             *)

Denied(t, syscall) == \E i \in DOMAIN filters[t] : syscall \in filter[filters[t][i]].denies

(* Mutant of ArchJumpTarget: the check goes to the instruction behind it.  *)
ArchJumpTargetNear(f) == 1

(* SockFprog.Len is the low 16 bits of the number of instructions.  The    *)
(* first jump of a program, the architecture check, goes to its last       *)
(* instruction; the kernel wants every jump to stay within Len.            *)
SockFprogLen(f)    == f.size % U16
ArchJumpTarget(f)  == f.size - 1
ProgramOK(f)       == ArchJumpTarget(f) < SockFprogLen(f)

(* Threads whose filters are not the beginning of t's: TSYNC would lose    *)
(* one of theirs.                                                          *)
Diverged(t) == {u \in live : ~IsPrefix(filters[u], filters[t])}

(* Strict mode takes no flags.                                             *)
StrictErrno(t, flags) ==
  IF ~hasSeccomp THEN "ENOSYS"
  ELSE IF Denied(t, "seccomp") THEN "EPERM"
  ELSE IF flags # 0 THEN "EINVAL"
  ELSE "none"

SeccompErrno(t, f) ==
  IF ~hasSeccomp THEN "ENOSYS"
  ELSE IF Denied(t, "seccomp") THEN "EPERM"
  ELSE IF f.flag = "invalid" \/ SockFprogLen(f) \notin 1 .. MaxInsns THEN "EINVAL"
  ELSE IF ~noNewPrivs[t] /\ ~privileged THEN "EACCES"
  ELSE IF ~ProgramOK(f) THEN "EINVAL"
  ELSE "none"

(* The thread's filters after attaching c's; with TSYNC all threads get    *)
(* them, and its no_new_privs bit.  TSYNC with diverged threads attaches   *)
(* nothing and returns the id of one of them, which is no errno.           *)
Attach(t, c) ==
  LET synced == IF filter[c].flag = "tsync" THEN live ELSE {t}
      stack  == Append(filters[t], c)
  IN  IF filter[c].flag = "tsync" /\ Diverged(t) # {}
      THEN UNCHANGED <<filters, noNewPrivs>>
      ELSE /\ filters' = [u \in Threads |-> IF u \in synced THEN stack ELSE filters[u]]
           /\ noNewPrivs' = [u \in Threads |->
                               noNewPrivs[u] \/ (u \in synced /\ noNewPrivs[t])]

(* The Go runtime starts a thread: it inherits the filters and the bit of  *)
(* the thread that starts it.                                              *)
Spawn(t, u) ==
  /\ t \in live /\ u \notin live
  /\ live' = live \cup {u}
  /\ filters' = [filters EXCEPT ![u] = filters[t]]
  /\ noNewPrivs' = [noNewPrivs EXCEPT ![u] = noNewPrivs[t]]
  /\ UNCHANGED <<hasSeccomp, privileged, callVars>>

-----------------------------------------------------------------------------
(* Supported and LoadFilter.                                               *)

(* The Go scheduler moves a goroutine to another thread.                   *)
Migrate(c, t) ==
  /\ t \in live \ {thread[c]}
  /\ pc[c] = "idle" \/ (pc[c] # "returned" /\ ~locked[c])
  /\ thread' = [thread EXCEPT ![c] = t]
  /\ UNCHANGED <<hasSeccomp, privileged, kernelVars, pc, filter, locked, supported, result, prctlOn>>

(* Mutant of Supported: flags are 0.                                       *)
SupportedNoFlags(c) ==
  /\ pc[c] = "idle" /\ supported[c] = "unasked"
  /\ supported' = [supported EXCEPT ![c] =
                     IF StrictErrno(thread[c], 0) = "EINVAL" THEN "yes" ELSE "no"]
  /\ UNCHANGED <<hasSeccomp, privileged, kernelVars, pc, filter, locked, thread, result, prctlOn>>

(* EINVAL, for a flag in strict mode, shows that the system call exists    *)
(* and may be made.                                                        *)
Supported(c) ==
  /\ pc[c] = "idle" /\ supported[c] = "unasked"
  /\ supported' = [supported EXCEPT ![c] =
                     IF StrictErrno(thread[c], 1) = "EINVAL" THEN "yes" ELSE "no"]
  /\ UNCHANGED <<hasSeccomp, privileged, kernelVars, pc, filter, locked, thread, result, prctlOn>>

Goto(c, label) == pc' = [pc EXCEPT ![c] = label] /\ UNCHANGED result

Return(c, value) ==
  /\ pc' = [pc EXCEPT ![c] = "returned"]
  /\ result' = [result EXCEPT ![c] = value]

(* Mutants of AssembleFilter: no_new_privs is always and never asked for.  *)
AssembleFilterAlwaysPrctl(c) ==
  /\ pc[c] = "idle"
  /\ IF ~filter[c].assembles THEN Return(c, "assemble") ELSE Goto(c, "prctl")
  /\ UNCHANGED <<hasSeccomp, privileged, kernelVars, filter, locked, thread, supported, prctlOn>>

AssembleFilterNoPrctl(c) ==
  /\ pc[c] = "idle"
  /\ IF ~filter[c].assembles THEN Return(c, "assemble") ELSE Goto(c, "seccomp")
  /\ UNCHANGED <<hasSeccomp, privileged, kernelVars, filter, locked, thread, supported, prctlOn>>

(* The policy and its instructions are assembled first.                    *)
AssembleFilter(c) ==
  /\ pc[c] = "idle"
  /\ IF ~filter[c].assembles THEN Return(c, "assemble")
     ELSE Goto(c, IF filter[c].noNewPrivs THEN "prctl" ELSE "seccomp")
  /\ UNCHANGED <<hasSeccomp, privileged, kernelVars, filter, locked, thread, supported, prctlOn>>

SetNoNewPrivs(c) ==
  /\ pc[c] = "prctl"
  /\ IF Denied(thread[c], "prctl")
     THEN Return(c, "EPERM") /\ UNCHANGED <<noNewPrivs, prctlOn>>
     ELSE /\ noNewPrivs' = [noNewPrivs EXCEPT ![thread[c]] = TRUE]
          /\ prctlOn' = [prctlOn EXCEPT ![c] = {thread[c]}]
          /\ Goto(c, "seccomp")
  /\ UNCHANGED <<hasSeccomp, privileged, live, filters, filter, locked, thread, supported>>

(* Mutants of LoadProgram: the answer of the system call is returned, a    *)
(* refused TSYNC's thread included; the error is lost; the flags are.      *)
LoadProgramRawAnswer(c) ==
  LET errno == SeccompErrno(thread[c], filter[c])
      refusing == filter[c].flag = "tsync" /\ Diverged(thread[c]) # {}
  IN  /\ pc[c] = "seccomp"
      /\ IF errno # "none"
         THEN Return(c, errno) /\ UNCHANGED <<filters, noNewPrivs>>
         ELSE /\ Return(c, IF refusing THEN CHOOSE u \in Diverged(thread[c]) : TRUE ELSE "nil")
              /\ Attach(thread[c], c)
      /\ UNCHANGED <<hasSeccomp, privileged, live, filter, locked, thread, supported, prctlOn>>

LoadProgramWrongError(c) ==
  LET errno == SeccompErrno(thread[c], filter[c])
  IN  /\ pc[c] = "seccomp"
      /\ Return(c, errno)
      /\ IF errno # "none" THEN UNCHANGED <<filters, noNewPrivs>> ELSE Attach(thread[c], c)
      /\ UNCHANGED <<hasSeccomp, privileged, live, filter, locked, thread, supported, prctlOn>>

LoadProgramNoFlags(c) ==
  LET errno == SeccompErrno(thread[c], filter[c])
  IN  /\ pc[c] = "seccomp"
      /\ IF errno # "none"
         THEN Return(c, errno) /\ UNCHANGED <<filters, noNewPrivs>>
         ELSE /\ Return(c, "nil")
              /\ filters' = [filters EXCEPT ![thread[c]] = Append(@, c)]
              /\ UNCHANGED noNewPrivs
      /\ UNCHANGED <<hasSeccomp, privileged, live, filter, locked, thread, supported, prctlOn>>

(* Only an errno is an error to the wrapper of the system call.            *)
LoadProgram(c) ==
  LET errno == SeccompErrno(thread[c], filter[c])
  IN  /\ pc[c] = "seccomp"
      /\ IF errno # "none"
         THEN Return(c, errno) /\ UNCHANGED <<filters, noNewPrivs>>
         ELSE Return(c, "nil") /\ Attach(thread[c], c)
      /\ UNCHANGED <<hasSeccomp, privileged, live, filter, locked, thread, supported, prctlOn>>

LoadFilter(c) == AssembleFilter(c) \/ SetNoNewPrivs(c) \/ LoadProgram(c)

AllReturned == (\A c \in Callers : pc[c] = "returned") /\ UNCHANGED vars

Next ==
  \/ \E t, u \in Threads : Spawn(t, u)
  \/ \E c \in Callers, t \in Threads : Migrate(c, t)
  \/ \E c \in Callers : Supported(c) \/ LoadFilter(c)
  \/ AllReturned

Spec == Init /\ [][Next]_vars

-----------------------------------------------------------------------------
(* Properties.                                                             *)

(* Every variable keeps its type.                                          *)
TypeOK ==
  /\ hasSeccomp \in BOOLEAN /\ privileged \in BOOLEAN
  /\ live \in SUBSET Threads
  /\ noNewPrivs \in [Threads -> BOOLEAN]
  /\ filters \in [Threads -> Seq(Callers)]
  /\ pc \in [Callers -> {"idle", "prctl", "seccomp", "returned"}]
  /\ filter \in [Callers -> FilterType]
  /\ locked \in [Callers -> BOOLEAN]
  /\ thread \in [Callers -> Threads]
  /\ result \in [Callers -> {"none", "nil", "assemble", "ENOSYS", "EPERM", "EINVAL", "EACCES"}]
  /\ supported \in [Callers -> {"unasked", "yes", "no"}]
  /\ prctlOn \in [Callers -> SUBSET Threads]

Loaded(c, t) == \E i \in DOMAIN filters[t] : filters[t][i] = c

(* A call of LoadFilter that returned an error, or did not return yet, has *)
(* left its filter on no thread, and no filter is there twice.             *)
OnlySuccessLoads ==
  \A t \in Threads :
    /\ \A i \in DOMAIN filters[t] : result[filters[t][i]] = "nil"
    /\ \A i, j \in DOMAIN filters[t] : filters[t][i] = filters[t][j] => i = j

(* As long as every filter is loaded with FilterFlagTSync, a call that     *)
(* returned nil has its filter on every thread of the process, on those    *)
(* the Go runtime started later too, and the threads agree on the order.   *)
SyncedEverywhere ==
  (\A c \in Callers : filter[c].flag = "tsync") =>
    /\ \A c \in Callers : result[c] = "nil" => \A t \in live : Loaded(c, t)
    /\ \A t, u \in live : filters[t] = filters[u]

(* A call that asks for no_new_privs is refused for want of privileges     *)
(* only when the goroutine was moved from the thread of its prctl to       *)
(* another one: never when it is locked to its thread, and whatever other  *)
(* callers do between its prctl and its seccomp.                           *)
RefusedOnlyWhenMoved ==
  \A c \in Callers :
    filter[c].noNewPrivs /\ result[c] = "EACCES" => thread[c] \notin prctlOn[c] /\ ~locked[c]

(* Supported says yes only if a LoadFilter after it does not find the      *)
(* system call missing, and no only if it is, or a filter that someone     *)
(* loaded in the meantime denies it.                                       *)
SupportedHonest ==
  \A c \in Callers :
    /\ supported[c] = "yes" => result[c] # "ENOSYS"
    /\ supported[c] = "no" =>
         ~hasSeccomp \/ \E d \in Callers : result[d] = "nil" /\ "seccomp" \in filter[d].denies

(* LoadFilter never reports success for a program that the uint16 of       *)
(* SockFprog.Len cuts off: the kernel has it whole or not at all.          *)
LoadedWhole == \A c \in Callers : result[c] = "nil" => filter[c].size <= MaxInsns

(* "Uses SECCOMP_FILTER_FLAG_TSYNC to sync the filter to all threads       *)
(* created by the Go runtime": a call with that flag that returned nil has *)
(* its filter on every thread.                                             *)
TSyncEverywhere ==
  \A c \in Callers :
    result[c] = "nil" /\ filter[c].flag = "tsync" => \A t \in live : Loaded(c, t)

(* LoadFilter does what it promises at once or not at all, although it     *)
(* makes two system calls between which goroutines move, threads start and *)
(* other calls come: the steps here are those of AtomicLoad.               *)
Atomic == INSTANCE AtomicLoad WITH
            attached <- filters,
            bits     <- {t \in Threads : noNewPrivs[t]},
            asked    <- {c \in Callers : filter[c].noNewPrivs},
            returned <- [c \in Callers |->
                           IF result[c] \in {"none", "nil"} THEN result[c] ELSE "error"]

LoadsAtomically == Atomic!Spec
=============================================================================
