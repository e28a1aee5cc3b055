--------------------------- MODULE SeccompProofs ---------------------------
(***************************************************************************)
(* Proofs about modules Seccomp and Sandbox, for any number of threads, of *)
(* calls of LoadFilter and of sandboxes one within the other, and for any  *)
(* filters: what each call reports is what the kernel has.                 *)
(*                                                                         *)
(* CoreInv says what holds of threads and calls and is kept by each action *)
(* of Seccomp; StageInv ties the stages of sandboxes to the calls they     *)
(* make.                                                                   *)
(***************************************************************************)
EXTENDS Sandbox, TLAPS

(* A call has a result when it has returned.                               *)
ResultInv == \A c \in Callers : result[c] = "none" <=> pc[c] # "returned"

(* A thread that was not started, or whose process is gone, has nothing.   *)
DeadInv == \A t \in Threads \ live : filters[t] = <<>> /\ ~noNewPrivs[t]

(* A call sets the bit only if it was asked to, and what its prctl set is  *)
(* still there when it makes its seccomp.                                  *)
PrctlInv ==
  \A c \in Callers :
    /\ pc[c] \in {"idle", "prctl"} => prctlOn[c] = {}
    /\ pc[c] = "prctl" => filter[c].noNewPrivs
    /\ pc[c] = "seccomp" => \A t \in prctlOn[c] : noNewPrivs[t] /\ t \in live
    /\ pc[c] = "seccomp" /\ filter[c].noNewPrivs /\ locked[c] => thread[c] \in prctlOn[c]

(* Supported found the system call only where there is one.                *)
SupportedInv == \A c \in Callers : supported[c] = "yes" => hasSeccomp

MissingInv == \A c \in Callers : result[c] = "ENOSYS" => ~hasSeccomp

(* As long as all that was loaded was loaded with FilterFlagTSync, it is   *)
(* on every thread.  Unlike SyncedEverywhere this does not look at the     *)
(* flags of calls that have not loaded anything: those of a sandbox that   *)
(* has not read its policy may still change.                               *)
SyncInv ==
  (\A c \in Callers : result[c] = "nil" => filter[c].flag = "tsync") =>
    /\ \A c \in Callers : result[c] = "nil" => \A t \in live : Loaded(c, t)
    /\ \A t, u \in live : filters[t] = filters[u]

CoreInv ==
  /\ TypeOK
  /\ ResultInv
  /\ DeadInv
  /\ PrctlInv
  /\ SupportedInv
  /\ MissingInv
  /\ SyncInv
  /\ OnlySuccessLoads
  /\ RefusedOnlyWhenMoved
  /\ SupportedHonest
  /\ LoadedWhole

(* A sandbox that executes its main.                                       *)
Active(c) == stage[c] \in {"main", "load", "run"}

StageInv ==
  /\ stage \in [Callers -> {"library", "not started", "main", "load", "run", "running", "failed"}]
  /\ \A c, d \in Callers : stage[c] = "library" => stage[d] = "library"
  /\ \A c, d \in Callers : Active(c) /\ Active(d) => c = d
  /\ \A c \in Callers : stage[c] \in {"library", "main", "load", "run"} => thread[c] \in live
  /\ \A c \in Callers : stage[c] \in {"not started", "main"} => pc[c] = "idle"
  /\ \A c \in Callers : pc[c] \notin {"idle", "returned"} => stage[c] \in {"library", "load"}
  /\ \A c \in Callers : stage[c] # "library" /\ pc[c] # "idle" => filter[c].flag = "tsync"
  /\ \A c \in Callers : stage[c] = "load" => filter[c].flag = "tsync"
  /\ \A c \in Callers : stage[c] \in {"run", "running"} => result[c] = "nil"

SandboxInv == CoreInv /\ StageInv

-----------------------------------------------------------------------------
(* The actions of module Seccomp.                                          *)

(* A thread that is started gets what the thread that starts it has, and   *)
(* had nothing before.                                                     *)
LEMMA SpawnCore ==
  ASSUME CoreInv, NEW t \in Threads, NEW u \in Threads, Spawn(t, u)
  PROVE  CoreInv'
<1> USE DEF CoreInv, Spawn, callVars
<1>1. TypeOK'
  BY DEF TypeOK
<1>2. ResultInv' /\ SupportedInv' /\ MissingInv' /\ SupportedHonest' /\ LoadedWhole'
      /\ RefusedOnlyWhenMoved'
  BY DEF ResultInv, SupportedInv, MissingInv, SupportedHonest, LoadedWhole, RefusedOnlyWhenMoved
<1>3. DeadInv'
  BY DEF DeadInv, TypeOK
<1>4. PrctlInv'
  BY DEF PrctlInv, TypeOK
<1>5. SyncInv'
  BY DEF SyncInv, Loaded, TypeOK
<1>6. OnlySuccessLoads'
  BY DEF OnlySuccessLoads, TypeOK
<1> QED BY <1>1, <1>2, <1>3, <1>4, <1>5, <1>6

LEMMA MigrateCore ==
  ASSUME CoreInv, NEW c \in Callers, NEW t \in Threads, Migrate(c, t)
  PROVE  CoreInv'
<1> USE DEF CoreInv, Migrate, kernelVars
<1>1. TypeOK'
  BY DEF TypeOK
<1>2. ResultInv' /\ SupportedInv' /\ MissingInv' /\ SupportedHonest' /\ LoadedWhole' /\ DeadInv'
  BY DEF ResultInv, SupportedInv, MissingInv, SupportedHonest, LoadedWhole, DeadInv
<1>3. PrctlInv'
  BY DEF PrctlInv, TypeOK
<1>4. SyncInv' /\ OnlySuccessLoads'
  BY DEF SyncInv, Loaded, OnlySuccessLoads
<1>5. RefusedOnlyWhenMoved'
  BY DEF RefusedOnlyWhenMoved, ResultInv, TypeOK
<1> QED BY <1>1, <1>2, <1>3, <1>4, <1>5

LEMMA SupportedCore ==
  ASSUME CoreInv, NEW c \in Callers, Supported(c)
  PROVE  CoreInv'
<1> USE DEF CoreInv, Supported, kernelVars
<1>1. TypeOK'
  BY DEF TypeOK
<1>2. ResultInv' /\ MissingInv' /\ LoadedWhole' /\ DeadInv' /\ PrctlInv' /\ RefusedOnlyWhenMoved'
  BY DEF ResultInv, MissingInv, LoadedWhole, DeadInv, PrctlInv, RefusedOnlyWhenMoved
<1>3. SyncInv' /\ OnlySuccessLoads'
  BY DEF SyncInv, Loaded, OnlySuccessLoads
<1>4. SupportedInv'
  BY DEF SupportedInv, StrictErrno, TypeOK
<1>5. SupportedHonest'
  <2>1. StrictErrno(thread[c], 1) # "EINVAL" =>
          ~hasSeccomp \/ \E d \in Callers : result[d] = "nil" /\ "seccomp" \in filter[d].denies
    BY DEF StrictErrno, Denied, OnlySuccessLoads, TypeOK
  <2>2. StrictErrno(thread[c], 1) = "EINVAL" => hasSeccomp
    BY DEF StrictErrno
  <2> QED BY <2>1, <2>2 DEF SupportedHonest, MissingInv, TypeOK
<1> QED BY <1>1, <1>2, <1>3, <1>4, <1>5

(* A step that attaches nothing and after which no other calls have        *)
(* succeeded than before.                                                  *)
LEMMA NothingLoaded ==
  ASSUME CoreInv, UNCHANGED <<live, filters, filter>>,
         \A d \in Callers : result'[d] = "nil" <=> result[d] = "nil"
  PROVE  SyncInv' /\ OnlySuccessLoads' /\ LoadedWhole'
<1>1. SyncInv'
  BY DEF CoreInv, SyncInv, Loaded
<1>2. OnlySuccessLoads'
  BY DEF CoreInv, OnlySuccessLoads, TypeOK
<1>3. LoadedWhole'
  BY DEF CoreInv, LoadedWhole
<1> QED BY <1>1, <1>2, <1>3

LEMMA AssembleFilterCore ==
  ASSUME CoreInv, NEW c \in Callers, AssembleFilter(c)
  PROVE  CoreInv'
<1> USE DEF AssembleFilter, Return, Goto, kernelVars
<1>1. TypeOK'
  BY DEF CoreInv, TypeOK
<1>2. ResultInv' /\ MissingInv' /\ SupportedInv'
  BY DEF CoreInv, ResultInv, MissingInv, SupportedInv, TypeOK
<1>3. DeadInv'
  BY DEF CoreInv, DeadInv
<1>4. PrctlInv'
  BY DEF CoreInv, PrctlInv, TypeOK
<1>5. \A d \in Callers : result'[d] = "nil" <=> result[d] = "nil"
  BY DEF CoreInv, ResultInv, TypeOK
<1>6. SyncInv' /\ OnlySuccessLoads' /\ LoadedWhole'
  BY <1>5, NothingLoaded
<1>7. RefusedOnlyWhenMoved' /\ SupportedHonest'
  BY <1>5 DEF CoreInv, RefusedOnlyWhenMoved, SupportedHonest, ResultInv, TypeOK
<1> QED BY <1>1, <1>2, <1>3, <1>4, <1>6, <1>7 DEF CoreInv

LEMMA SetNoNewPrivsCore ==
  ASSUME CoreInv, NEW c \in Callers, thread[c] \in live, SetNoNewPrivs(c)
  PROVE  CoreInv'
<1> USE DEF SetNoNewPrivs
<1>1. CASE Denied(thread[c], "prctl")
  <2> USE <1>1 DEF Return
  <2>1. TypeOK'
    BY DEF CoreInv, TypeOK
  <2>2. ResultInv' /\ MissingInv' /\ SupportedInv' /\ DeadInv'
    BY DEF CoreInv, ResultInv, MissingInv, SupportedInv, DeadInv, TypeOK
  <2>6. PrctlInv'
    BY DEF CoreInv, PrctlInv, TypeOK
  <2>3. \A d \in Callers : result'[d] = "nil" <=> result[d] = "nil"
    BY DEF CoreInv, ResultInv, TypeOK
  <2>4. SyncInv' /\ OnlySuccessLoads' /\ LoadedWhole'
    BY <2>3, NothingLoaded
  <2>5. RefusedOnlyWhenMoved' /\ SupportedHonest'
    BY <2>3 DEF CoreInv, RefusedOnlyWhenMoved, SupportedHonest, ResultInv, TypeOK
  <2> QED BY <2>1, <2>2, <2>4, <2>5, <2>6 DEF CoreInv
<1>2. CASE ~Denied(thread[c], "prctl")
  <2> USE <1>2 DEF Goto
  <2>1. TypeOK'
    <3>1. prctlOn' \in [Callers -> SUBSET Threads]
      <4>1. {thread[c]} \in SUBSET Threads
        BY DEF CoreInv, TypeOK
      <4> QED BY <4>1 DEF CoreInv, TypeOK
    <3>2. noNewPrivs' \in [Threads -> BOOLEAN] /\ pc' \in [Callers -> {"idle", "prctl", "seccomp", "returned"}]
      BY DEF CoreInv, TypeOK
    <3> QED BY <3>1, <3>2 DEF CoreInv, TypeOK
  <2>2. ResultInv' /\ MissingInv' /\ SupportedInv' /\ DeadInv'
    BY DEF CoreInv, ResultInv, MissingInv, SupportedInv, DeadInv, TypeOK
  <2>3. PrctlInv'
    <3> SUFFICES ASSUME NEW d \in Callers
                 PROVE  /\ pc'[d] \in {"idle", "prctl"} => prctlOn'[d] = {}
                        /\ pc'[d] = "prctl" => filter'[d].noNewPrivs
                        /\ pc'[d] = "seccomp" => \A t \in prctlOn'[d] : noNewPrivs'[t] /\ t \in live'
                        /\ pc'[d] = "seccomp" /\ filter'[d].noNewPrivs /\ locked'[d]
                             => thread'[d] \in prctlOn'[d]
      BY DEF PrctlInv
    <3>1. CASE d = c
      BY <3>1 DEF CoreInv, TypeOK
    <3>2. CASE d # c
      BY <3>2 DEF CoreInv, PrctlInv, TypeOK
    <3> QED BY <3>1, <3>2
  <2>4. SyncInv' /\ OnlySuccessLoads' /\ LoadedWhole'
    BY NothingLoaded
  <2>5. RefusedOnlyWhenMoved' /\ SupportedHonest'
    BY DEF CoreInv, RefusedOnlyWhenMoved, SupportedHonest, ResultInv, TypeOK
  <2> QED BY <2>1, <2>2, <2>3, <2>4, <2>5 DEF CoreInv
<1> QED BY <1>1, <1>2

(* The kernel accepts a program only if the uint16 did not cut it off: the *)
(* jump of the architecture check would leave what is left of it.          *)
LEMMA AcceptedWhole ==
  ASSUME NEW t \in Threads, NEW f \in FilterType, SeccompErrno(t, f) = "none"
  PROVE  f.size <= MaxInsns
<1>1. f.size \in Nat /\ f.size % U16 \in Nat
  BY LimitsAssumption DEF FilterType
<1>2. f.size % U16 <= MaxInsns /\ f.size - 1 < f.size % U16
  BY <1>1, LimitsAssumption DEF SeccompErrno, ProgramOK, ArchJumpTarget, SockFprogLen
<1> QED BY <1>1, <1>2, LimitsAssumption

LEMMA PrefixReflexive ==
  ASSUME NEW S, NEW s \in Seq(S)
  PROVE  IsPrefix(s, s)
BY DEF IsPrefix

(* What the seccomp system call of c changes when it gives no errno: its   *)
(* filter is on top of its thread's on the threads in S and on no other.   *)
AttachedTo(c, S) ==
  /\ filters' = [u \in Threads |-> IF u \in S THEN Append(filters[thread[c]], c)
                                   ELSE filters[u]]
  /\ noNewPrivs' = [u \in Threads |-> noNewPrivs[u] \/ (u \in S /\ noNewPrivs[thread[c]])]

LEMMA AttachCases ==
  ASSUME NEW c \in Callers, Attach(thread[c], c)
  PROVE  \/ filter[c].flag = "tsync" /\ Diverged(thread[c]) # {} /\ UNCHANGED <<filters, noNewPrivs>>
         \/ filter[c].flag = "tsync" /\ Diverged(thread[c]) = {} /\ AttachedTo(c, live)
         \/ filter[c].flag # "tsync" /\ AttachedTo(c, {thread[c]})
BY DEF Attach, AttachedTo

(* Attaching c to live threads keeps what is said of filters.              *)
LEMMA AttachedToKeeps ==
  ASSUME CoreInv, NEW c \in Callers, pc[c] = "seccomp", thread[c] \in live,
         NEW S \in SUBSET live, AttachedTo(c, S),
         live' = live, result' = [result EXCEPT ![c] = "nil"]
  PROVE  /\ filters' \in [Threads -> Seq(Callers)]
         /\ noNewPrivs' \in [Threads -> BOOLEAN]
         /\ \A t \in Threads : noNewPrivs[t] => noNewPrivs'[t]
         /\ DeadInv'
         /\ OnlySuccessLoads'
         /\ \A t \in S : Loaded(c, t)'
         /\ \A d \in Callers : \A t \in S : Loaded(d, thread[c]) => Loaded(d, t)'
<1> DEFINE stack == filters[thread[c]]
<1>1. /\ stack \in Seq(Callers) /\ Append(stack, c) \in Seq(Callers)
      /\ Len(stack) \in Nat /\ DOMAIN stack = 1 .. Len(stack)
      /\ DOMAIN Append(stack, c) = 1 .. (Len(stack) + 1)
      /\ \A i \in 1 .. Len(stack) : Append(stack, c)[i] = stack[i]
      /\ Append(stack, c)[Len(stack) + 1] = c
  BY DEF CoreInv, TypeOK
<1>2. result[c] = "none"
  BY DEF CoreInv, ResultInv
<1>3. \A i \in 1 .. Len(stack) : stack[i] \in Callers /\ stack[i] # c /\ result[stack[i]] = "nil"
  BY <1>1, <1>2 DEF CoreInv, OnlySuccessLoads, TypeOK
<1>4. \A i, j \in 1 .. Len(stack) : stack[i] = stack[j] => i = j
  BY <1>1 DEF CoreInv, OnlySuccessLoads, TypeOK
<1>5. /\ \A t \in S : filters'[t] = Append(stack, c)
      /\ \A t \in Threads \ S : filters'[t] = filters[t]
  BY DEF AttachedTo, CoreInv, TypeOK
<1> HIDE DEF stack
<1>6. filters' \in [Threads -> Seq(Callers)] /\ noNewPrivs' \in [Threads -> BOOLEAN]
  BY <1>1 DEF AttachedTo, CoreInv, TypeOK, stack
<1>7. \A t \in Threads : noNewPrivs[t] => noNewPrivs'[t]
  BY DEF AttachedTo
<1>8. DeadInv'
  BY DEF AttachedTo, DeadInv, CoreInv, TypeOK
<1>9. OnlySuccessLoads'
  <2> SUFFICES ASSUME NEW t \in Threads
               PROVE  /\ \A i \in DOMAIN filters'[t] : result'[filters'[t][i]] = "nil"
                      /\ \A i, j \in DOMAIN filters'[t] : filters'[t][i] = filters'[t][j] => i = j
    BY DEF OnlySuccessLoads
  <2>1. CASE t \in S
    <3>1. \A i \in 1 .. (Len(stack) + 1) : i \in 1 .. Len(stack) \/ i = Len(stack) + 1
      BY <1>1
    <3>2. \A i \in DOMAIN filters'[t] : result'[filters'[t][i]] = "nil"
      <4>1. result'[c] = "nil" /\ \A d \in Callers : d # c => result'[d] = result[d]
        BY DEF CoreInv, TypeOK
      <4> QED BY <2>1, <3>1, <4>1, <1>1, <1>3, <1>5
    <3>3. \A i, j \in DOMAIN filters'[t] : filters'[t][i] = filters'[t][j] => i = j
      <4> DEFINE u == Append(stack, c)
      <4>1. filters'[t] = u /\ DOMAIN u = 1 .. (Len(stack) + 1)
        BY <1>1, <1>5, <2>1
      <4>2. \A i \in 1 .. Len(stack) : u[i] = stack[i] /\ u[i] # c
        BY <1>1, <1>3
      <4>3. u[Len(stack) + 1] = c
        BY <1>1
      <4> HIDE DEF u
      <4>4. \A i, j \in 1 .. (Len(stack) + 1) : u[i] = u[j] => i = j
        BY <1>4, <3>1, <4>2, <4>3
      <4> QED BY <4>1, <4>4
    <3> QED BY <3>2, <3>3
  <2>2. CASE t \notin S
    BY <2>2, <1>5 DEF CoreInv, OnlySuccessLoads, TypeOK
  <2> QED BY <2>1, <2>2
<1>10. \A t \in S : Loaded(c, t)'
  BY <1>1, <1>5 DEF Loaded
<1>11. \A d \in Callers : \A t \in S : Loaded(d, thread[c]) => Loaded(d, t)'
  BY <1>1, <1>5 DEF Loaded, stack
<1> QED BY <1>6, <1>7, <1>8, <1>9, <1>10, <1>11

(* The second system call of LoadFilter.  An errno changes nothing, and    *)
(* EACCES can only come on a thread without the bit; a refused TSYNC       *)
(* changes nothing; else the filter is attached.                           *)
LEMMA LoadProgramCore ==
  ASSUME CoreInv, NEW c \in Callers, thread[c] \in live, LoadProgram(c)
  PROVE  CoreInv'
<1> DEFINE errno == SeccompErrno(thread[c], filter[c])
<1>1. /\ pc[c] = "seccomp" /\ result[c] = "none"
      /\ thread[c] \in Threads /\ filter[c] \in FilterType
      /\ errno \in {"none", "ENOSYS", "EPERM", "EINVAL", "EACCES"}
      /\ UNCHANGED <<hasSeccomp, privileged, live, filter, locked, thread, supported, prctlOn>>
  BY DEF LoadProgram, CoreInv, TypeOK, ResultInv, SeccompErrno
<1>2. CASE errno # "none"
  <2>1. UNCHANGED <<filters, noNewPrivs>> /\ Return(c, errno)
    BY <1>2 DEF LoadProgram
  <2>2. errno = "EACCES" => ~noNewPrivs[thread[c]]
    BY DEF SeccompErrno
  <2>3. errno = "ENOSYS" => ~hasSeccomp
    BY DEF SeccompErrno
  <2> HIDE DEF errno
  <2>4. TypeOK'
    BY <1>1, <1>2, <2>1 DEF CoreInv, TypeOK, Return
  <2>5. ResultInv' /\ MissingInv' /\ SupportedInv' /\ DeadInv'
    BY <1>1, <1>2, <2>1, <2>3
       DEF CoreInv, ResultInv, MissingInv, SupportedInv, DeadInv, TypeOK, Return
  <2>6. PrctlInv'
    BY <1>1, <2>1 DEF CoreInv, PrctlInv, TypeOK, Return
  <2>7. \A d \in Callers : result'[d] = "nil" <=> result[d] = "nil"
    BY <1>1, <2>1 DEF CoreInv, TypeOK, Return
  <2>8. SyncInv' /\ OnlySuccessLoads' /\ LoadedWhole'
    BY <1>1, <2>1, <2>7, NothingLoaded
  <2>9. RefusedOnlyWhenMoved'
    BY <1>1, <2>1, <2>2 DEF CoreInv, RefusedOnlyWhenMoved, PrctlInv, TypeOK, Return
  <2>10. SupportedHonest'
    BY <1>1, <2>1, <2>3, <2>7 DEF CoreInv, SupportedHonest, SupportedInv, TypeOK, Return
  <2> QED BY <2>4, <2>5, <2>6, <2>8, <2>9, <2>10 DEF CoreInv
<1>3. CASE errno = "none"
  <2>1. Return(c, "nil") /\ Attach(thread[c], c)
    BY <1>3 DEF LoadProgram
  <2>2. /\ result' = [result EXCEPT ![c] = "nil"]
        /\ pc' = [pc EXCEPT ![c] = "returned"]
    BY <2>1 DEF Return
  <2>3. filter[c].size <= MaxInsns
    BY <1>1, <1>3, AcceptedWhole
  <2> HIDE DEF errno
  <2>4. /\ filters' \in [Threads -> Seq(Callers)]
        /\ noNewPrivs' \in [Threads -> BOOLEAN]
        /\ \A t \in Threads : noNewPrivs[t] => noNewPrivs'[t]
        /\ DeadInv'
        /\ OnlySuccessLoads'
        /\ SyncInv'
    <3>1. CASE filter[c].flag = "tsync" /\ Diverged(thread[c]) # {} /\ UNCHANGED <<filters, noNewPrivs>>
      <4>1. PICK u \in live : ~IsPrefix(filters[u], filters[thread[c]])
        BY <3>1 DEF Diverged
      <4>2. filters[thread[c]] \in Seq(Callers)
        BY <1>1 DEF CoreInv, TypeOK
      <4>3. filters[u] # filters[thread[c]]
        BY <4>1, <4>2, PrefixReflexive
      <4>4. ~(\A d \in Callers : result[d] = "nil" => filter[d].flag = "tsync")
        BY <4>3 DEF CoreInv, SyncInv
      <4>5. SyncInv'
        BY <1>1, <2>2, <4>4 DEF SyncInv, CoreInv, TypeOK
      <4>6. OnlySuccessLoads'
        BY <1>1, <2>2, <3>1 DEF CoreInv, OnlySuccessLoads, TypeOK
      <4> QED BY <1>1, <3>1, <4>5, <4>6 DEF CoreInv, TypeOK, DeadInv
    <3>2. CASE filter[c].flag = "tsync" /\ Diverged(thread[c]) = {} /\ AttachedTo(c, live)
      <4>1. /\ filters' \in [Threads -> Seq(Callers)] /\ noNewPrivs' \in [Threads -> BOOLEAN]
            /\ \A t \in Threads : noNewPrivs[t] => noNewPrivs'[t]
            /\ DeadInv' /\ OnlySuccessLoads'
            /\ \A t \in live : Loaded(c, t)'
            /\ \A d \in Callers : \A t \in live : Loaded(d, thread[c]) => Loaded(d, t)'
        BY <1>1, <2>2, <3>2, AttachedToKeeps
      <4>2. \A t, u \in live : filters'[t] = filters'[u]
        BY <3>2 DEF AttachedTo, CoreInv, TypeOK
      <4>3. ASSUME \A d \in Callers : result'[d] = "nil" => filter'[d].flag = "tsync",
                   NEW d \in Callers, result'[d] = "nil", NEW t \in live
            PROVE  Loaded(d, t)'
        <5>1. \A e \in Callers : result[e] = "nil" => filter[e].flag = "tsync"
          BY <1>1, <2>2, <3>2, <4>3 DEF CoreInv, TypeOK
        <5>2. CASE d = c
          BY <4>1, <5>2
        <5>3. CASE d # c
          <6>1. result[d] = "nil"
            BY <2>2, <4>3, <5>3 DEF CoreInv, TypeOK
          <6>2. Loaded(d, thread[c])
            BY <5>1, <6>1 DEF CoreInv, SyncInv
          <6> QED BY <4>1, <6>2
        <5> QED BY <5>2, <5>3
      <4>4. SyncInv'
        BY <1>1, <4>2, <4>3 DEF SyncInv
      <4> QED BY <4>1, <4>4
    <3>3. CASE filter[c].flag # "tsync" /\ AttachedTo(c, {thread[c]})
      <4>1. {thread[c]} \in SUBSET live
        OBVIOUS
      <4>2. /\ filters' \in [Threads -> Seq(Callers)] /\ noNewPrivs' \in [Threads -> BOOLEAN]
            /\ \A t \in Threads : noNewPrivs[t] => noNewPrivs'[t]
            /\ DeadInv' /\ OnlySuccessLoads'
        BY <1>1, <2>2, <3>3, <4>1, AttachedToKeeps
      <4>3. SyncInv'
        BY <1>1, <2>2, <3>3 DEF SyncInv, CoreInv, TypeOK
      <4> QED BY <4>2, <4>3
    <3> QED BY <2>1, <3>1, <3>2, <3>3, AttachCases
  <2>5. TypeOK'
    BY <1>1, <2>2, <2>4 DEF CoreInv, TypeOK
  <2>6. ResultInv' /\ MissingInv' /\ SupportedInv' /\ LoadedWhole'
    BY <1>1, <2>2, <2>3 DEF CoreInv, ResultInv, MissingInv, SupportedInv, LoadedWhole, TypeOK
  <2>7. PrctlInv'
    <3> SUFFICES ASSUME NEW d \in Callers
                 PROVE  /\ pc'[d] \in {"idle", "prctl"} => prctlOn[d] = {}
                        /\ pc'[d] = "prctl" => filter[d].noNewPrivs
                        /\ pc'[d] = "seccomp" => \A t \in prctlOn[d] : noNewPrivs'[t] /\ t \in live
                        /\ pc'[d] = "seccomp" /\ filter[d].noNewPrivs /\ locked[d]
                             => thread[d] \in prctlOn[d]
      BY <1>1 DEF PrctlInv
    <3>1. CASE d = c
      BY <2>2, <3>1 DEF CoreInv, TypeOK
    <3>2. CASE d # c
      BY <2>2, <2>4, <3>2 DEF CoreInv, PrctlInv, TypeOK
    <3> QED BY <3>1, <3>2
  <2>8. RefusedOnlyWhenMoved' /\ SupportedHonest'
    BY <1>1, <2>2 DEF CoreInv, RefusedOnlyWhenMoved, SupportedHonest, TypeOK
  <2> QED BY <2>4, <2>5, <2>6, <2>7, <2>8 DEF CoreInv
<1> QED BY <1>2, <1>3

LEMMA LoadFilterCore ==
  ASSUME CoreInv, NEW c \in Callers, thread[c] \in live, LoadFilter(c)
  PROVE  CoreInv'
BY AssembleFilterCore, SetNoNewPrivsCore, LoadProgramCore DEF LoadFilter

-----------------------------------------------------------------------------
(* The actions of module Sandbox.                                          *)

LEMMA NoneInEmpty == \A i \in DOMAIN <<>> : FALSE
OBVIOUS

LEMMA InitInv == SandboxInit => SandboxInv
<1> SUFFICES ASSUME SandboxInit PROVE SandboxInv
  OBVIOUS
<1>1. PICK t \in Threads : live = {t}
  BY DEF SandboxInit, Init
<1>2. \A c \in Callers : thread[c] = t
  BY <1>1 DEF SandboxInit, Init
<1>3. TypeOK
  <2>1. <<>> \in Seq(Callers) /\ {} \in SUBSET Threads
    OBVIOUS
  <2> QED BY <1>1, <2>1, FiltersAssumption DEF SandboxInit, Init, TypeOK
<1>4. CoreInv
  <2> USE DEF SandboxInit, Init
  <2>1. ResultInv /\ DeadInv /\ PrctlInv /\ SupportedInv /\ MissingInv
    BY DEF ResultInv, DeadInv, PrctlInv, SupportedInv, MissingInv
  <2>2. SyncInv
    BY <1>1 DEF SyncInv
  <2>3. OnlySuccessLoads
    <3>1. \A u \in Threads : filters[u] = <<>>
      OBVIOUS
    <3> QED BY <3>1, NoneInEmpty DEF OnlySuccessLoads
  <2>4. RefusedOnlyWhenMoved /\ SupportedHonest /\ LoadedWhole
    BY DEF RefusedOnlyWhenMoved, SupportedHonest, LoadedWhole
  <2> QED BY <1>3, <2>1, <2>2, <2>3, <2>4 DEF CoreInv
<1>5. StageInv
  <2>1. CASE stage = [c \in Callers |-> "library"]
    BY <1>1, <1>2, <2>1 DEF SandboxInit, Init, StageInv, Active
  <2>2. ASSUME NEW first \in Callers,
               stage = [c \in Callers |-> IF c = first THEN "main" ELSE "not started"]
        PROVE  StageInv
    BY <1>1, <1>2, <2>2 DEF SandboxInit, Init, StageInv, Active
  <2> QED BY <2>1, <2>2 DEF SandboxInit
<1> QED BY <1>4, <1>5 DEF SandboxInv

LEMMA LibraryInv ==
  ASSUME SandboxInv, NEW c \in Callers, Library(c)
  PROVE  SandboxInv'
<1>1. thread[c] \in live /\ stage[c] \in {"library", "load"} /\ UNCHANGED stage
  BY DEF Library, SandboxInv, StageInv
<1>2. CASE Supported(c)
  <2>1. CoreInv'
    BY <1>2, SupportedCore DEF SandboxInv
  <2>2. StageInv'
    BY <1>1, <1>2 DEF Supported, kernelVars, SandboxInv, StageInv, Active
  <2> QED BY <2>1, <2>2 DEF SandboxInv
<1>3. CASE LoadFilter(c)
  <2>1. CoreInv'
    BY <1>1, <1>3, LoadFilterCore DEF SandboxInv
  <2>2. /\ pc[c] # "returned" /\ UNCHANGED <<live, thread, filter>>
        /\ \A d \in Callers : d # c => pc'[d] = pc[d] /\ result'[d] = result[d]
    BY <1>3 DEF LoadFilter, AssembleFilter, SetNoNewPrivs, LoadProgram, Goto, Return, kernelVars,
                SandboxInv, CoreInv, TypeOK
  <2>3. result[c] # "nil"
    BY <2>2 DEF SandboxInv, CoreInv, ResultInv
  <2>4. StageInv'
    <3>1. StageInv /\ UNCHANGED stage
      BY <1>1 DEF SandboxInv
    <3>2. \A d \in Callers :
            /\ stage'[d] \in {"not started", "main"} => pc'[d] = "idle"
            /\ pc'[d] \notin {"idle", "returned"} => stage'[d] \in {"library", "load"}
            /\ stage'[d] # "library" /\ pc'[d] # "idle" => filter'[d].flag = "tsync"
            /\ stage'[d] \in {"run", "running"} => result'[d] = "nil"
      BY <1>1, <2>2, <2>3, <3>1 DEF StageInv
    <3>3. \A d \in Callers : Active(d)' = Active(d)
      BY <3>1 DEF Active
    <3> QED BY <2>2, <3>1, <3>2, <3>3 DEF StageInv
  <2> QED BY <2>1, <2>4 DEF SandboxInv
<1> QED BY <1>2, <1>3 DEF Library

LEMMA ThreadInv ==
  ASSUME SandboxInv, Thread
  PROVE  SandboxInv'
<1>1. ASSUME NEW t \in Threads, NEW u \in Threads, Spawn(t, u)
      PROVE  SandboxInv'
  <2>1. CoreInv'
    BY <1>1, SpawnCore DEF SandboxInv
  <2>2. StageInv'
    BY <1>1 DEF Spawn, callVars, Thread, SandboxInv, StageInv, Active
  <2> QED BY <2>1, <2>2 DEF SandboxInv
<1>2. ASSUME NEW c \in Callers, NEW t \in Threads, Migrate(c, t)
      PROVE  SandboxInv'
  <2>1. CoreInv'
    BY <1>2, MigrateCore DEF SandboxInv
  <2>2. /\ UNCHANGED <<stage, live, pc, filter, result>> /\ t \in live
        /\ thread' = [thread EXCEPT ![c] = t] /\ thread \in [Callers -> Threads]
    BY <1>2 DEF Migrate, kernelVars, Thread, SandboxInv, CoreInv, TypeOK
  <2>3. \A d \in Callers : thread'[d] \in {thread[d], t}
    BY <2>2
  <2>4. StageInv'
    BY <2>2, <2>3 DEF SandboxInv, StageInv, Active
  <2> QED BY <2>1, <2>4 DEF SandboxInv
<1> QED BY <1>1, <1>2 DEF Thread

(* One sandbox goes on to another stage.                                   *)
LEMMA StageChange ==
  ASSUME StageInv, NEW c \in Callers, Active(c),
         NEW label \in {"load", "run", "running", "failed"},
         stage' = [stage EXCEPT ![c] = label],
         UNCHANGED <<live, pc, result, thread>>,
         \A d \in Callers : d # c => filter'[d] = filter[d],
         label = "load" \/ pc[c] # "idle" => filter'[c].flag = "tsync",
         label # "load" => pc[c] \in {"idle", "returned"},
         label \in {"run", "running"} => result[c] = "nil"
  PROVE  StageInv'
<1>1. /\ stage'[c] = label /\ stage[c] # "library" /\ thread[c] \in live
      /\ \A d \in Callers : d # c => stage'[d] = stage[d] /\ ~Active(d) /\ stage[d] # "library"
  BY DEF StageInv, Active
<1>2. stage' \in [Callers -> {"library", "not started", "main", "load", "run", "running", "failed"}]
  BY DEF StageInv
<1>3. \A d, e \in Callers : /\ stage'[d] = "library" => stage'[e] = "library"
                            /\ Active(d)' /\ Active(e)' => d = e
  BY <1>1 DEF Active
<1>4. \A d \in Callers :
        /\ stage'[d] \in {"library", "main", "load", "run"} => thread'[d] \in live'
        /\ stage'[d] \in {"not started", "main"} => pc'[d] = "idle"
        /\ pc'[d] \notin {"idle", "returned"} => stage'[d] \in {"library", "load"}
  <2> SUFFICES ASSUME NEW d \in Callers
               PROVE  /\ stage'[d] \in {"library", "main", "load", "run"} => thread[d] \in live
                      /\ stage'[d] \in {"not started", "main"} => pc[d] = "idle"
                      /\ pc[d] \notin {"idle", "returned"} => stage'[d] \in {"library", "load"}
    OBVIOUS
  <2>1. CASE d = c
    BY <1>1, <2>1
  <2>2. CASE d # c
    BY <1>1, <2>2 DEF StageInv
  <2> QED BY <2>1, <2>2
<1>5. \A d \in Callers :
        /\ stage'[d] # "library" /\ pc'[d] # "idle" => filter'[d].flag = "tsync"
        /\ stage'[d] = "load" => filter'[d].flag = "tsync"
        /\ stage'[d] \in {"run", "running"} => result'[d] = "nil"
  <2> SUFFICES ASSUME NEW d \in Callers
               PROVE  /\ stage'[d] # "library" /\ pc[d] # "idle" => filter'[d].flag = "tsync"
                      /\ stage'[d] = "load" => filter'[d].flag = "tsync"
                      /\ stage'[d] \in {"run", "running"} => result[d] = "nil"
    OBVIOUS
  <2>1. CASE d = c
    BY <1>1, <2>1
  <2>2. CASE d # c
    <3>1. stage'[d] = stage[d] /\ filter'[d] = filter[d]
      BY <1>1, <2>2
    <3>2. /\ stage[d] # "library" /\ pc[d] # "idle" => filter[d].flag = "tsync"
          /\ stage[d] = "load" => filter[d].flag = "tsync"
          /\ stage[d] \in {"run", "running"} => result[d] = "nil"
      BY DEF StageInv
    <3> QED BY <3>1, <3>2
  <2> QED BY <2>1, <2>2
<1>6. /\ \A d, e \in Callers : stage'[d] = "library" => stage'[e] = "library"
      /\ \A d, e \in Callers : Active(d)' /\ Active(e)' => d = e
  BY <1>3
<1> QED BY <1>2, <1>4, <1>5, <1>6 DEF StageInv

(* The filter of a sandbox that has not loaded it gets another flag.       *)
LEMMA MainInv ==
  ASSUME SandboxInv, NEW c \in Callers, Main(c)
  PROVE  SandboxInv'
<1>1. /\ stage[c] = "main" /\ pc[c] = "idle" /\ result[c] = "none"
      /\ UNCHANGED <<hasSeccomp, privileged, live, noNewPrivs, filters, pc, locked, thread,
                     supported, result, prctlOn>>
  BY DEF Main, kernelVars, SandboxInv, StageInv, CoreInv, ResultInv
<1>2. \/ stage' = [stage EXCEPT ![c] = "failed"] /\ UNCHANGED filter
      \/ /\ stage' = [stage EXCEPT ![c] = "load"]
         /\ filter' = [filter EXCEPT ![c].flag = "tsync"]
  BY DEF Main, Proceed
<1>3. /\ filter' \in [Callers -> FilterType]
      /\ \A d \in Callers : /\ d # c => filter'[d] = filter[d]
                            /\ filter'[d].noNewPrivs = filter[d].noNewPrivs
                            /\ filter'[d].denies = filter[d].denies
                            /\ filter'[d].size = filter[d].size
      /\ stage'[c] = "load" => filter'[c].flag = "tsync"
  <2>1. filter[c] \in FilterType /\ filter \in [Callers -> FilterType] /\ stage'[c] \in {"load", "failed"}
    BY <1>2 DEF SandboxInv, StageInv, CoreInv, TypeOK
  <2>2. CASE stage' = [stage EXCEPT ![c] = "failed"] /\ UNCHANGED filter
    <3>1. stage'[c] = "failed"
      BY <2>2 DEF SandboxInv, StageInv
    <3> QED BY <2>1, <2>2, <3>1
  <2>3. CASE filter' = [filter EXCEPT ![c].flag = "tsync"]
    <3> DEFINE f == [filter[c] EXCEPT !.flag = "tsync"]
    <3>1. /\ f \in FilterType /\ f.flag = "tsync" /\ f.noNewPrivs = filter[c].noNewPrivs
          /\ f.denies = filter[c].denies /\ f.size = filter[c].size
      BY <2>1 DEF FilterType, Flags
    <3>2. filter' = [filter EXCEPT ![c] = f]
      BY <2>1, <2>3
    <3> HIDE DEF f
    <3> QED BY <2>1, <3>1, <3>2
  <2> QED BY <1>2, <2>2, <2>3
<1>4. TypeOK'
  BY <1>1, <1>3 DEF SandboxInv, CoreInv, TypeOK
<1>5. ResultInv' /\ DeadInv' /\ SupportedInv' /\ MissingInv'
  BY <1>1 DEF SandboxInv, CoreInv, ResultInv, DeadInv, SupportedInv, MissingInv
<1>6. PrctlInv' /\ RefusedOnlyWhenMoved' /\ SupportedHonest' /\ LoadedWhole'
  BY <1>1, <1>3 DEF SandboxInv, CoreInv, PrctlInv, RefusedOnlyWhenMoved, SupportedHonest, LoadedWhole
<1>7. SyncInv' /\ OnlySuccessLoads'
  BY <1>1, <1>3 DEF SandboxInv, CoreInv, SyncInv, Loaded, OnlySuccessLoads
<1>8. StageInv'
  <2>1. Active(c) /\ StageInv
    BY <1>1 DEF Active, SandboxInv
  <2>2. CASE stage' = [stage EXCEPT ![c] = "failed"]
    BY <1>1, <1>3, <2>1, <2>2, StageChange
  <2>3. CASE stage' = [stage EXCEPT ![c] = "load"]
    <3>1. stage'[c] = "load"
      BY <2>1, <2>3 DEF StageInv
    <3> QED BY <1>1, <1>3, <2>1, <2>3, <3>1, StageChange
  <2> QED BY <1>2, <2>2, <2>3
<1> QED BY <1>4, <1>5, <1>6, <1>7, <1>8 DEF SandboxInv, CoreInv

LEMMA LoadReturnedInv ==
  ASSUME SandboxInv, NEW c \in Callers, LoadReturned(c)
  PROVE  SandboxInv'
<1>1. CoreInv'
  BY DEF LoadReturned, vars, kernelVars, callVars, SandboxInv, CoreInv, TypeOK, ResultInv,
     DeadInv, PrctlInv, SupportedInv, MissingInv, SyncInv, Loaded, OnlySuccessLoads,
     RefusedOnlyWhenMoved, SupportedHonest, LoadedWhole
<1>2. StageInv'
  <2>1. StageInv /\ Active(c) /\ filter[c].flag = "tsync" /\ pc[c] = "returned"
    BY DEF LoadReturned, SandboxInv, StageInv, Active
  <2>2. UNCHANGED <<live, pc, result, thread, filter>>
    BY DEF LoadReturned, vars, kernelVars, callVars
  <2>3. CASE result[c] = "nil"
    <3>1. stage' = [stage EXCEPT ![c] = "run"]
      BY <2>3 DEF LoadReturned, Proceed
    <3> QED BY <2>1, <2>2, <2>3, <3>1, StageChange
  <2>4. CASE result[c] # "nil"
    <3>1. stage' = [stage EXCEPT ![c] = "failed"]
      BY <2>4 DEF LoadReturned, Proceed
    <3> QED BY <2>1, <2>2, <3>1, StageChange
  <2> QED BY <2>3, <2>4
<1> QED BY <1>1, <1>2 DEF SandboxInv

(* The call of a goroutine that is moved has returned nil.                 *)
LEMMA MigrateMainInv ==
  ASSUME SandboxInv, NEW c \in Callers, NEW t \in Threads, MigrateMain(c, t)
  PROVE  SandboxInv'
<1>1. result[c] = "nil" /\ pc[c] = "returned"
  BY DEF MigrateMain, SandboxInv, StageInv, CoreInv, ResultInv
<1>2. TypeOK'
  BY DEF MigrateMain, kernelVars, SandboxInv, CoreInv, TypeOK
<1>3. ResultInv' /\ DeadInv' /\ SupportedInv' /\ MissingInv' /\ SupportedHonest' /\ LoadedWhole'
  BY DEF MigrateMain, kernelVars, SandboxInv, CoreInv, ResultInv, DeadInv, SupportedInv, MissingInv,
     SupportedHonest, LoadedWhole
<1>4. SyncInv' /\ OnlySuccessLoads'
  BY DEF MigrateMain, kernelVars, SandboxInv, CoreInv, SyncInv, Loaded, OnlySuccessLoads
<1>5. PrctlInv' /\ RefusedOnlyWhenMoved'
  BY <1>1 DEF MigrateMain, kernelVars, SandboxInv, CoreInv, PrctlInv, RefusedOnlyWhenMoved, TypeOK
<1>6. StageInv'
  BY DEF MigrateMain, kernelVars, SandboxInv, StageInv, Active, CoreInv, TypeOK
<1> QED BY <1>2, <1>3, <1>4, <1>5, <1>6 DEF SandboxInv, CoreInv

(* The process of a command has the filters and the bit of one thread of   *)
(* its sandbox.  No sandbox is between its prctl and its seccomp then.     *)
LEMMA RunCommandInv ==
  ASSUME SandboxInv, NEW c \in Callers, RunCommand(c)
  PROVE  SandboxInv'
<1>1. /\ stage[c] = "run" /\ thread[c] \in live /\ live \subseteq Threads
      /\ result[c] = "nil" /\ pc[c] = "returned"
      /\ \A d \in Callers : stage[d] # "library" /\ (d # c => ~Active(d))
      /\ UNCHANGED <<hasSeccomp, privileged, pc, filter, locked, supported, result, prctlOn>>
  BY DEF RunCommand, SandboxInv, StageInv, CoreInv, TypeOK, ResultInv, Active
<1>2. \A d \in Callers : pc[d] \in {"idle", "returned"}
  BY <1>1 DEF SandboxInv, StageInv, Active
<1>3. CASE Denied(thread[c], "execve")
  <2>1. /\ stage' = [stage EXCEPT ![c] = "failed"]
        /\ UNCHANGED <<vars>>
    BY <1>1, <1>3 DEF RunCommand, Proceed, kernelVars, callVars, vars
  <2>2. CoreInv'
    BY <2>1 DEF vars, kernelVars, callVars, SandboxInv, CoreInv, TypeOK, ResultInv,
       DeadInv, PrctlInv, SupportedInv, MissingInv, SyncInv, Loaded, OnlySuccessLoads,
       RefusedOnlyWhenMoved, SupportedHonest, LoadedWhole
  <2>3. StageInv'
    <3>1. StageInv /\ Active(c) /\ filter[c].flag = "tsync"
      BY <1>1 DEF Active, SandboxInv, StageInv
    <3>2. UNCHANGED <<live, pc, result, thread, filter>>
      BY <2>1 DEF vars, kernelVars, callVars
    <3> QED BY <1>1, <2>1, <3>1, <3>2, StageChange
  <2> QED BY <2>2, <2>3 DEF SandboxInv
<1>4. CASE ~Denied(thread[c], "execve")
  <2>1. /\ live' = {thread[c]}
        /\ filters' = [t \in Threads |-> IF t = thread[c] THEN filters[t] ELSE <<>>]
        /\ noNewPrivs' = [t \in Threads |-> t = thread[c] /\ noNewPrivs[t]]
    BY <1>4 DEF RunCommand
  <2>2. /\ thread' \in [Callers -> Threads]
        /\ \A d \in Callers : pc[d] # "idle" => thread'[d] = thread[d]
    <3>1. \A d \in Callers : stage[d] = "not started" => pc[d] = "idle"
      BY DEF SandboxInv, StageInv
    <3> QED BY <1>1, <1>4, <3>1 DEF RunCommand, Proceed, SandboxInv, CoreInv, TypeOK
  <2>3. TypeOK'
    <3>1. filters' \in [Threads -> Seq(Callers)]
      BY <2>1 DEF SandboxInv, CoreInv, TypeOK
    <3>2. live' \in SUBSET Threads /\ noNewPrivs' \in [Threads -> BOOLEAN]
      BY <1>1, <2>1 DEF SandboxInv, CoreInv, TypeOK
    <3> QED BY <1>1, <2>2, <3>1, <3>2 DEF SandboxInv, CoreInv, TypeOK
  <2>4. ResultInv' /\ SupportedInv' /\ MissingInv' /\ SupportedHonest' /\ LoadedWhole'
    BY <1>1 DEF SandboxInv, CoreInv, ResultInv, SupportedInv, MissingInv, SupportedHonest, LoadedWhole
  <2>5. DeadInv'
    BY <2>1 DEF DeadInv
  <2>6. PrctlInv'
    BY <1>1, <1>2 DEF PrctlInv, SandboxInv, CoreInv
  <2>7. RefusedOnlyWhenMoved'
    BY <1>1, <2>2 DEF RefusedOnlyWhenMoved, SandboxInv, CoreInv, ResultInv
  <2>8. OnlySuccessLoads'
    BY <1>1, <2>1 DEF OnlySuccessLoads, SandboxInv, CoreInv
  <2>9. SyncInv'
    BY <1>1, <2>1 DEF SyncInv, Loaded, SandboxInv, CoreInv
  <2>10. StageInv'
    <3>1. CASE stage' = [stage EXCEPT ![c] = "running"] /\ UNCHANGED thread
      <4>1. StageInv /\ filter[c].flag = "tsync"
        BY <1>1 DEF SandboxInv, StageInv
      <4>2. /\ stage'[c] = "running"
            /\ \A d \in Callers : d # c => stage'[d] = stage[d]
            /\ stage' \in [Callers -> {"library", "not started", "main", "load", "run", "running",
                                       "failed"}]
        BY <3>1, <4>1 DEF StageInv
      <4>3. \A d \in Callers : stage'[d] \notin {"library", "main", "load", "run"}
        BY <1>1, <4>2 DEF Active
      <4>4. \A d \in Callers :
              /\ stage'[d] \in {"not started", "main"} => pc'[d] = "idle"
              /\ pc'[d] \in {"idle", "returned"}
        BY <1>1, <1>2, <4>1, <4>2 DEF StageInv
      <4>5. \A d \in Callers :
              /\ stage'[d] # "library" /\ pc'[d] # "idle" => filter'[d].flag = "tsync"
              /\ stage'[d] \in {"run", "running"} => result'[d] = "nil"
        BY <1>1, <4>1, <4>2 DEF StageInv
      <4>6. \A d, e \in Callers : Active(d)' /\ Active(e)' => d = e
        BY <4>3 DEF Active
      <4> QED BY <4>2, <4>3, <4>4, <4>5, <4>6 DEF StageInv
    <3>2. ASSUME NEW d \in Callers, stage[d] = "not started",
                 stage' = [stage EXCEPT ![c] = "running", ![d] = "main"],
                 thread' = [thread EXCEPT ![d] = thread[c]]
          PROVE  StageInv'
      <4>1. pc[d] = "idle" /\ d # c
        BY <1>1, <3>2 DEF SandboxInv, StageInv
      <4>2. /\ thread'[d] = thread[c] /\ stage'[d] = "main" /\ stage'[c] = "running"
            /\ \A e \in Callers \ {c, d} : stage'[e] = stage[e] /\ thread'[e] = thread[e]
            /\ stage' \in [Callers -> {"library", "not started", "main", "load", "run", "running",
                                       "failed"}]
        BY <3>2, <4>1 DEF SandboxInv, StageInv, CoreInv, TypeOK
      <4>3. \A e \in Callers \ {c, d} : stage[e] \in {"not started", "running", "failed"}
        <5>1. \A e \in Callers : stage[e] \in {"library", "not started", "main", "load", "run",
                                              "running", "failed"}
          BY DEF SandboxInv, StageInv
        <5> QED BY <1>1, <5>1 DEF Active
      <4>4. \A e, f \in Callers : /\ stage'[e] # "library"
                                  /\ Active(e)' /\ Active(f)' => e = f
        BY <4>2, <4>3 DEF Active
      <4>5. filter[c].flag = "tsync"
        BY <1>1 DEF SandboxInv, StageInv
      <4>6. \A e \in Callers :
              /\ stage'[e] \in {"library", "main", "load", "run"} => thread'[e] \in live'
              /\ stage'[e] \in {"not started", "main"} => pc'[e] = "idle"
              /\ pc'[e] \notin {"idle", "returned"} => stage'[e] \in {"library", "load"}
        BY <1>1, <1>2, <2>1, <4>1, <4>2, <4>3 DEF SandboxInv, StageInv
      <4>7. \A e \in Callers :
              /\ stage'[e] # "library" /\ pc'[e] # "idle" => filter'[e].flag = "tsync"
              /\ stage'[e] = "load" => filter'[e].flag = "tsync"
              /\ stage'[e] \in {"run", "running"} => result'[e] = "nil"
        BY <1>1, <4>1, <4>2, <4>3, <4>5 DEF SandboxInv, StageInv
      <4> QED BY <4>2, <4>4, <4>6, <4>7 DEF StageInv
    <3> QED BY <1>4, <3>1, <3>2 DEF RunCommand, Proceed
  <2> QED BY <2>3, <2>4, <2>5, <2>6, <2>7, <2>8, <2>9, <2>10 DEF SandboxInv, CoreInv
<1> QED BY <1>3, <1>4

(* Every step keeps the invariant.                                         *)
LEMMA NextInv == SandboxInv /\ [SandboxNext]_sandboxVars => SandboxInv'
<1> SUFFICES ASSUME SandboxInv, [SandboxNext]_sandboxVars PROVE SandboxInv'
  OBVIOUS
<1>1. CASE UNCHANGED sandboxVars
  <2>1. UNCHANGED <<hasSeccomp, privileged, live, noNewPrivs, filters, pc, filter, locked, thread,
                    supported, result, prctlOn, stage>>
    BY <1>1 DEF sandboxVars, vars, kernelVars, callVars
  <2>2. CoreInv'
    BY <2>1 DEF SandboxInv, CoreInv, TypeOK, ResultInv, DeadInv, PrctlInv, SupportedInv,
       MissingInv, SyncInv, Loaded, OnlySuccessLoads, RefusedOnlyWhenMoved, SupportedHonest,
       LoadedWhole
  <2>3. StageInv'
    BY <2>1 DEF SandboxInv, StageInv, Active
  <2> QED BY <2>2, <2>3 DEF SandboxInv
<1>2. CASE Ended
  BY <1>1, <1>2 DEF Ended
<1> QED BY <1>1, <1>2, LibraryInv, ThreadInv, MainInv, LoadReturnedInv, MigrateMainInv,
           RunCommandInv DEF SandboxNext

LEMMA InvAlways == SandboxSpec => []SandboxInv
BY InitInv, NextInv, PTL DEF SandboxSpec

-----------------------------------------------------------------------------
(* The theorems.                                                           *)

(* Every variable keeps its type, whatever filters sandboxes are given:    *)
(* every call of LoadFilter returns nil or one of the errors of assembling *)
(* the policy, of prctl and of seccomp.                                    *)
THEOREM TypeCorrect == SandboxSpec => []TypeOK
<1>1. SandboxInv => TypeOK
  BY DEF SandboxInv, CoreInv
<1> QED BY <1>1, InvAlways, PTL

(* A call of LoadFilter that returned an error, or has not returned, has   *)
(* its filter on no thread of any process, and no filter is there twice.   *)
THEOREM OnlySuccessLoading == SandboxSpec => []OnlySuccessLoads
<1>1. SandboxInv => OnlySuccessLoads
  BY DEF SandboxInv, CoreInv
<1> QED BY <1>1, InvAlways, PTL

(* The kernel refuses a call that asks for no_new_privs for want of        *)
(* privileges only when the goroutine was moved between prctl and seccomp  *)
(* and is not locked to its thread.                                        *)
THEOREM RefusalOnlyWhenMoved == SandboxSpec => []RefusedOnlyWhenMoved
<1>1. SandboxInv => RefusedOnlyWhenMoved
  BY DEF SandboxInv, CoreInv
<1> QED BY <1>1, InvAlways, PTL

(* Supported says yes only where LoadFilter will find the system call, and *)
(* no only where there is none or a filter denies it.                      *)
THEOREM SupportHonest == SandboxSpec => []SupportedHonest
<1>1. SandboxInv => SupportedHonest
  BY DEF SandboxInv, CoreInv
<1> QED BY <1>1, InvAlways, PTL

(* The length of a program that was loaded did not overflow the uint16 of  *)
(* SockFprog.Len, for any limit of the kernel that fits it.                *)
THEOREM LoadingWhole == SandboxSpec => []LoadedWhole
<1>1. SandboxInv => LoadedWhole
  BY DEF SandboxInv, CoreInv
<1> QED BY <1>1, InvAlways, PTL

(* As long as all filters are loaded with FilterFlagTSync, those of the    *)
(* calls that returned nil are on every thread, in the same order.         *)
THEOREM SyncEverywhere == SandboxSpec => []SyncedEverywhere
<1>1. SandboxInv => SyncedEverywhere
  BY DEF SandboxInv, CoreInv, SyncInv, SyncedEverywhere
<1> QED BY <1>1, InvAlways, PTL

(* The process of a command has, on every thread, the filters of all the   *)
(* sandboxes around it: all their calls of LoadFilter use TSYNC.           *)
THEOREM CommandsFiltered == SandboxSpec => []CommandFiltered
<1>1. SandboxInv => CommandFiltered
  <2> SUFFICES ASSUME SandboxInv, NEW c \in Callers, stage[c] = "running"
               PROVE  result[c] = "nil" /\ \A t \in live : Loaded(c, t)
    BY DEF CommandFiltered
  <2>1. result[c] = "nil" /\ \A d \in Callers : stage[d] # "library"
    BY DEF SandboxInv, StageInv
  <2>2. \A d \in Callers : result[d] = "nil" => filter[d].flag = "tsync"
    BY <2>1 DEF SandboxInv, StageInv, CoreInv, ResultInv
  <2> QED BY <2>1, <2>2 DEF SandboxInv, CoreInv, SyncInv
<1> QED BY <1>1, InvAlways, PTL

-----------------------------------------------------------------------------
(* The refinement: every step is one of module AtomicLoad, or changes      *)
(* nothing that it knows of.                                               *)

Returned == [c \in Callers |-> IF result[c] \in {"none", "nil"} THEN result[c] ELSE "error"]
Asked    == {c \in Callers : filter[c].noNewPrivs}
Bits     == {t \in Threads : noNewPrivs[t]}

LEMMA AtomicInit == SandboxInit => Atomic!Init
<1> SUFFICES ASSUME SandboxInit PROVE Atomic!Init
  OBVIOUS
<1>1. Returned = [c \in Callers |-> "none"]
  BY DEF SandboxInit, Init, Returned
<1>2. Bits = {} /\ Asked \subseteq Callers
  BY DEF SandboxInit, Init, Bits, Asked
<1> QED BY <1>1, <1>2 DEF SandboxInit, Init, Atomic!Init, Returned, Bits, Asked

(* A step that leaves alone what module AtomicLoad has.                    *)
LEMMA AtomicStutter ==
  ASSUME UNCHANGED <<live, filters, noNewPrivs, result>>,
         \A c \in Callers : filter'[c].noNewPrivs = filter[c].noNewPrivs
  PROVE  UNCHANGED Atomic!vars
BY DEF Atomic!vars

(* A call returns: only its own entry of Returned changes.                 *)
LEMMA AtomicReturn ==
  ASSUME TypeOK, ResultInv, NEW c \in Callers, pc[c] # "returned",
         NEW value \in {"nil", "assemble", "ENOSYS", "EPERM", "EINVAL", "EACCES"},
         result' = [result EXCEPT ![c] = value], UNCHANGED <<live, filter>>
  PROVE  Atomic!Return(c, IF value = "nil" THEN "nil" ELSE "error")
<1> DEFINE abstract == IF value = "nil" THEN "nil" ELSE "error"
<1>1. Returned[c] = "none"
  BY DEF Returned, ResultInv
<1>2. Returned' = [Returned EXCEPT ![c] = abstract]
  BY DEF Returned, TypeOK
<1>3. UNCHANGED <<live, Asked>>
  BY DEF Asked
<1> QED BY <1>1, <1>2, <1>3 DEF Atomic!Return, Returned, Asked

LEMMA AtomicActions ==
  ASSUME NEW c \in Callers, NEW t \in Threads,
         \/ Atomic!Execute(t) \/ Atomic!SetBit(c, t) \/ Atomic!Load(c, t, {t})
         \/ Atomic!Load(c, t, live) \/ Atomic!LoadRefused(c, t)
  PROVE  Atomic!Next
BY DEF Atomic!Next

(* A call that fails attaches nothing.                                     *)
LEMMA AtomicFail ==
  ASSUME TypeOK, ResultInv, NEW c \in Callers, pc[c] # "returned",
         NEW value \in {"assemble", "ENOSYS", "EPERM", "EINVAL", "EACCES"},
         result' = [result EXCEPT ![c] = value], UNCHANGED <<live, filter, filters, noNewPrivs>>
  PROVE  Atomic!Next
<1>1. Atomic!Return(c, "error")
  BY AtomicReturn
<1>2. Atomic!Fail(c)
  BY <1>1 DEF Atomic!Fail
<1> QED BY <1>2 DEF Atomic!Next

(* The two system calls of LoadFilter: the first sets a bit, the second    *)
(* loads, is refused or fails.                                             *)
LEMMA AtomicLoadFilter ==
  ASSUME SandboxInv, NEW c \in Callers, thread[c] \in live, LoadFilter(c)
  PROVE  [Atomic!Next]_(Atomic!vars)
<1>1. TypeOK /\ ResultInv /\ thread[c] \in Threads /\ filter[c] \in FilterType
      /\ filters[thread[c]] \in Seq(Callers)
  BY DEF SandboxInv, CoreInv, TypeOK
<1>2. PICK t \in Threads : t = thread[c]
  BY <1>1
<1>3. CASE AssembleFilter(c)
  <2>1. CASE ~filter[c].assembles
    <3>1. /\ result' = [result EXCEPT ![c] = "assemble"] /\ pc[c] # "returned"
          /\ UNCHANGED <<live, filter, filters, noNewPrivs>>
      BY <1>3, <2>1 DEF AssembleFilter, Return, kernelVars
    <3> QED BY <1>1, <3>1, AtomicFail
  <2>2. CASE filter[c].assembles
    <3>1. UNCHANGED <<live, filters, noNewPrivs, result, filter>>
      BY <1>3, <2>2 DEF AssembleFilter, Goto, kernelVars
    <3> QED BY <3>1, AtomicStutter
  <2> QED BY <2>1, <2>2
<1>4. CASE SetNoNewPrivs(c)
  <2>1. CASE Denied(thread[c], "prctl")
    <3>1. /\ result' = [result EXCEPT ![c] = "EPERM"] /\ pc[c] # "returned"
          /\ UNCHANGED <<live, filter, filters, noNewPrivs>>
      BY <1>4, <2>1 DEF SetNoNewPrivs, Return
    <3> QED BY <1>1, <3>1, AtomicFail
  <2>2. CASE ~Denied(thread[c], "prctl")
    <3>1. /\ noNewPrivs' = [noNewPrivs EXCEPT ![thread[c]] = TRUE] /\ pc[c] = "prctl"
          /\ UNCHANGED <<live, filters, filter, result>>
      BY <1>4, <2>2 DEF SetNoNewPrivs, Goto
    <3>2. c \in Asked /\ Returned[c] = "none"
      BY <1>1, <3>1 DEF SandboxInv, CoreInv, PrctlInv, ResultInv, Asked, Returned
    <3>3. Bits' = Bits \cup {thread[c]}
      BY <1>1, <3>1 DEF Bits, TypeOK
    <3>4. UNCHANGED <<Asked, Returned>>
      BY <3>1 DEF Asked, Returned
    <3>5. Atomic!SetBit(c, t)
      BY <1>2, <3>1, <3>2, <3>3, <3>4 DEF Atomic!SetBit, Asked, Returned, Bits
    <3> QED BY <3>5, AtomicActions
  <2> QED BY <2>1, <2>2
<1>5. CASE LoadProgram(c)
  <2> DEFINE errno == SeccompErrno(thread[c], filter[c])
  <2>1. /\ pc[c] # "returned" /\ errno \in {"none", "ENOSYS", "EPERM", "EINVAL", "EACCES"}
        /\ UNCHANGED <<live, filter>>
    BY <1>5 DEF LoadProgram, SeccompErrno
  <2>2. CASE errno # "none"
    <3>1. result' = [result EXCEPT ![c] = errno] /\ UNCHANGED <<filters, noNewPrivs>>
      BY <1>5, <2>2 DEF LoadProgram, Return
    <3> HIDE DEF errno
    <3> QED BY <1>1, <2>1, <2>2, <3>1, AtomicFail
  <2>3. CASE errno = "none"
    <3>1. result' = [result EXCEPT ![c] = "nil"] /\ Attach(thread[c], c)
      BY <1>5, <2>3 DEF LoadProgram, Return
    <3>2. Atomic!Return(c, "nil")
      BY <1>1, <2>1, <3>1, AtomicReturn
    <3>3. CASE Diverged(thread[c]) # {} /\ UNCHANGED <<filters, noNewPrivs>>
      <4>1. \E u \in live : ~IsPrefix(filters[u], filters[thread[c]])
        BY <3>3 DEF Diverged
      <4>2. UNCHANGED Bits
        BY <3>3 DEF Bits
      <4>3. Atomic!LoadRefused(c, t)
        BY <1>2, <3>2, <3>3, <4>1, <4>2 DEF Atomic!LoadRefused, Atomic!IsPrefix, IsPrefix, Bits
      <4> QED BY <4>3, AtomicActions
    <3>4. ASSUME NEW S \in SUBSET live, S \in {{thread[c]}, live}, AttachedTo(c, S),
                 \A u \in S : IsPrefix(filters[u], filters[thread[c]])
          PROVE  Atomic!Next
      <4>1. Bits' = IF thread[c] \in Bits THEN Bits \cup S ELSE Bits
        <5>1. S \subseteq Threads
          BY <1>1 DEF TypeOK
        <5>2. \A u \in Threads : noNewPrivs'[u] = (noNewPrivs[u] \/ (u \in S /\ noNewPrivs[thread[c]]))
          BY <3>4 DEF AttachedTo
        <5> QED BY <1>1, <5>1, <5>2 DEF Bits
      <4>3. CASE S = {thread[c]}
        <5>1. Atomic!Load(c, t, {t})
          BY <1>2, <3>2, <3>4, <4>1, <4>3
             DEF Atomic!Load, Atomic!IsPrefix, IsPrefix, Bits, AttachedTo
        <5> QED BY <5>1, AtomicActions
      <4>4. CASE S = live
        <5>1. Atomic!Load(c, t, live)
          BY <1>2, <3>2, <3>4, <4>1, <4>4
             DEF Atomic!Load, Atomic!IsPrefix, IsPrefix, Bits, AttachedTo
        <5> QED BY <5>1, AtomicActions
      <4> QED BY <3>4, <4>3, <4>4
    <3>5. CASE Diverged(thread[c]) = {} /\ AttachedTo(c, live)
      <4>1. \A u \in live : IsPrefix(filters[u], filters[thread[c]])
        BY <3>5 DEF Diverged
      <4> QED BY <3>4, <3>5, <4>1
    <3>6. CASE AttachedTo(c, {thread[c]})
      <4>1. IsPrefix(filters[thread[c]], filters[thread[c]])
        BY <1>1, PrefixReflexive
      <4> QED BY <3>4, <3>6, <4>1
    <3> QED BY <3>1, <3>3, <3>5, <3>6, AttachCases
  <2> QED BY <2>2, <2>3
<1> QED BY <1>3, <1>4, <1>5 DEF LoadFilter

LEMMA AtomicStep == SandboxInv /\ [SandboxNext]_sandboxVars => [Atomic!Next]_(Atomic!vars)
<1> SUFFICES ASSUME SandboxInv, [SandboxNext]_sandboxVars PROVE [Atomic!Next]_(Atomic!vars)
  OBVIOUS
<1>1. ASSUME NEW c \in Callers, Library(c) PROVE [Atomic!Next]_(Atomic!vars)
  <2>1. thread[c] \in live
    BY <1>1 DEF Library, SandboxInv, StageInv
  <2>2. CASE Supported(c)
    BY <2>2, AtomicStutter DEF Supported, kernelVars
  <2>3. CASE LoadFilter(c)
    BY <2>1, <2>3, AtomicLoadFilter
  <2> QED BY <1>1, <2>2, <2>3 DEF Library
<1>2. ASSUME NEW t \in Threads, NEW u \in Threads, Spawn(t, u) PROVE [Atomic!Next]_(Atomic!vars)
  <2>1. Bits' = IF t \in Bits THEN Bits \cup {u} ELSE Bits
    <3>1. ~noNewPrivs[u] /\ noNewPrivs \in [Threads -> BOOLEAN]
      BY <1>2 DEF Spawn, SandboxInv, CoreInv, DeadInv, TypeOK
    <3> QED BY <1>2, <3>1 DEF Spawn, Bits
  <2>2. UNCHANGED <<Asked, Returned>>
    BY <1>2 DEF Spawn, callVars, Asked, Returned
  <2>3. Atomic!StartThread(t, u)
    BY <1>2, <2>1, <2>2 DEF Spawn, Atomic!StartThread, Bits, Asked, Returned
  <2> QED BY <2>3 DEF Atomic!Next
<1>3. ASSUME NEW c \in Callers, NEW t \in Threads, Migrate(c, t) \/ MigrateMain(c, t)
      PROVE  [Atomic!Next]_(Atomic!vars)
  BY <1>3, AtomicStutter DEF Migrate, MigrateMain, kernelVars
<1>4. ASSUME NEW c \in Callers, Main(c) PROVE [Atomic!Next]_(Atomic!vars)
  <2>1. UNCHANGED <<live, filters, noNewPrivs, result>>
    BY <1>4 DEF Main, kernelVars
  <2>2. filter \in [Callers -> FilterType]
    BY DEF SandboxInv, CoreInv, TypeOK
  <2>3. filter' = filter \/ filter' = [filter EXCEPT ![c].flag = "tsync"]
    BY <1>4 DEF Main
  <2>4. \A d \in Callers : filter'[d].noNewPrivs = filter[d].noNewPrivs
    BY <2>2, <2>3 DEF FilterType
  <2> QED BY <2>1, <2>4, AtomicStutter
<1>5. ASSUME NEW c \in Callers, LoadReturned(c) PROVE [Atomic!Next]_(Atomic!vars)
  BY <1>5, AtomicStutter DEF LoadReturned, vars, kernelVars, callVars
<1>6. ASSUME NEW c \in Callers, RunCommand(c) PROVE [Atomic!Next]_(Atomic!vars)
  <2>1. thread[c] \in live /\ thread[c] \in Threads /\ UNCHANGED <<filter, result>>
    BY <1>6 DEF RunCommand, SandboxInv, StageInv, CoreInv, TypeOK
  <2>2. CASE Denied(thread[c], "execve")
    BY <1>6, <2>1, <2>2, AtomicStutter DEF RunCommand, kernelVars
  <2>3. CASE ~Denied(thread[c], "execve")
    <3>1. /\ live' = {thread[c]}
          /\ filters' = [u \in Threads |-> IF u = thread[c] THEN filters[u] ELSE <<>>]
          /\ noNewPrivs' = [u \in Threads |-> u = thread[c] /\ noNewPrivs[u]]
      BY <1>6, <2>3 DEF RunCommand
    <3>2. Bits' = Bits \cap {thread[c]}
      BY <2>1, <3>1 DEF Bits
    <3>3. UNCHANGED <<Asked, Returned>>
      BY <2>1 DEF Asked, Returned
    <3>4. filters' = [u \in Threads |-> IF u = thread[c] THEN filters[thread[c]] ELSE <<>>]
      BY <3>1
    <3>5. PICK t \in Threads : t = thread[c]
      BY <2>1
    <3>6. Atomic!Execute(t)
      BY <3>5, <2>1, <3>1, <3>2, <3>3, <3>4 DEF Atomic!Execute, Bits, Asked, Returned
    <3> QED BY <3>6, AtomicActions
  <2> QED BY <2>2, <2>3
<1>7. CASE UNCHANGED sandboxVars
  BY <1>7, AtomicStutter DEF sandboxVars, vars, kernelVars, callVars
<1> QED BY <1>1, <1>2, <1>3, <1>4, <1>5, <1>6, <1>7 DEF SandboxNext, Thread, Ended

(* LoadFilter takes effect at once or not at all, although it makes two    *)
(* system calls between which goroutines move, threads start and other     *)
(* calls come: with sandboxes or without, it implements AtomicLoad.        *)
THEOREM Refinement == SandboxSpec => LoadsAtomically
BY AtomicInit, AtomicStep, InvAlways, PTL DEF SandboxSpec, LoadsAtomically, Atomic!Spec
=============================================================================
