------------------------------- MODULE Policy -------------------------------
(***************************************************************************)
(* filter.go: a Policy is validated and assembled into a BPF program.      *)
(*                                                                         *)
(* A policy is a record of its default action and its sequence of groups;  *)
(* a group has names (sequence of system call names), namesWithConditions  *)
(* (sequence of [name, conditions]) and an action.  A condition is         *)
(* [argument, operation, value] with a double word as value.  An           *)
(* architecture (arch.Info) is [id, seccompMask, syscallNames,             *)
(* littleEndian]: syscallNames is a function from names to numbers, and    *)
(* the byte order, nativeEndian in the code, goes with the architecture.   *)
(***************************************************************************)
EXTENDS Program

CONSTANTS Policies,    \* the policies to assemble
          Arches,      \* the architectures the program may be built for
          X86_64ID,    \* arch.X86_64.ID, which arch.X32 shares
          X32Mask,     \* arch.X32.SeccompMask
          Calls        \* the system calls a program is asked about: [nr, arch, args]

ASSUME ArchAssumption == X86_64ID \in Word /\ X32Mask \in Word \ {0}

(* Slices are sequences, an argument is a uint32 and a value a uint64.     *)
ASSUME PoliciesAssumption ==
  \A p \in Policies :
    /\ p.default \in Actions
    /\ p.groups \in Seq(Range(p.groups))
    /\ \A g \in Range(p.groups) :
         /\ g.action \in Actions
         /\ g.names \in Seq(Range(g.names))
         /\ g.namesWithConditions \in Seq(Range(g.namesWithConditions))
         /\ \A nc \in Range(g.namesWithConditions) :
              /\ nc.conditions \in Seq(Range(nc.conditions))
              /\ \A c \in Range(nc.conditions) : c.argument \in Nat /\ c.value \in DoubleWord

(* A table has one name for a number; invert may forget numbers of a name. *)
(* Numbers fit a uint32, with the mask too.                                *)
ASSUME ArchesAssumption ==
  \A a \in Arches :
    /\ a.seccompMask \in Nat
    /\ \A n, m \in DOMAIN a.syscallNames :
         /\ a.syscallNames[n] \in Nat
         /\ a.syscallNames[n] + a.seccompMask \in Word
         /\ a.syscallNames[n] = a.syscallNames[m] => n = m

VARIABLES policy,   \* the Policy
          arch,     \* the Info of runtime.GOARCH
          stage,    \* where Policy.Assemble is
          prog,     \* its Program
          pos,      \* its loop counter: a group, then a jump
          output    \* the instructions it returns

vars == <<policy, arch, stage, prog, pos, output>>

ActionNames == {"kill_thread", "kill_process", "trap", "errno", "trace", "log", "allow"}

Operations == {"Equal", "NotEqual", "GreaterThan", "LessThan",
               "GreaterOrEqual", "LessOrEqual", "BitsSet", "BitsNotSet"}

-----------------------------------------------------------------------------
(* The system calls of a group.                                            *)

(* GetInfo has an entry for the architecture, and it has system calls.     *)
Supported(a) == DOMAIN a.syscallNames # {}

(* num | SeccompMask: the mask is a bit above every system call number.    *)
SyscallNum(a, name) == a.syscallNames[name] + a.seccompMask

(* The position of the entry for num, 0 (Go's nil) when there is none.     *)
GetSyscall(syscalls, num) == SelectInSeq(syscalls, LAMBDA s : s.num = num)

(* Mutant of InvalidArguments: one argument too many is accepted.          *)
InvalidArgumentsSeven(conditions) ==
  \E i \in DOMAIN conditions : conditions[i].argument \notin 0 .. 6

InvalidArguments(conditions) ==
  \E i \in DOMAIN conditions : conditions[i].argument \notin 0 .. 5

(* FoldLeftDomain of SequencesExt, except that a round's result is bound   *)
(* to a value before the next round: TLC's lazy arguments would nest too   *)
(* deeply over the loops of a long policy.                                 *)
ForEach(Round(_, _), base, seq) ==
  LET after[i \in 0 .. Len(seq)] ==
        IF i = 0 THEN base ELSE CHOOSE r \in {Round(q, i) : q \in {after[i - 1]}} : TRUE
  IN  after[Len(seq)]

(* toSyscallsWithConditions collects system calls and stops at nothing: a  *)
(* problem is noted and the next name is looked at.                        *)
Problem(acc) == [acc EXCEPT !.problems = @ + 1]

AddSyscall(acc, num, conditions) ==
  [acc EXCEPT !.syscalls = Append(@, [num |-> num, conditions |-> conditions])]

AddName(a, acc, name) ==
  IF name \notin DOMAIN a.syscallNames THEN Problem(acc)
  ELSE IF GetSyscall(acc.syscalls, SyscallNum(a, name)) # 0 THEN Problem(acc)
  ELSE AddSyscall(acc, SyscallNum(a, name), <<>>)

(* Mutant of AddNameWithConditions: a name may have one set of conditions. *)
AddNameWithConditionsOnce(a, acc, nc) ==
  IF \/ nc.name \notin DOMAIN a.syscallNames \/ InvalidArguments(nc.conditions)
     \/ GetSyscall(acc.syscalls, SyscallNum(a, nc.name)) # 0
  THEN Problem(acc)
  ELSE AddSyscall(acc, SyscallNum(a, nc.name), <<nc.conditions>>)

AddNameWithConditions(a, acc, nc) ==
  IF nc.name \notin DOMAIN a.syscallNames \/ InvalidArguments(nc.conditions)
  THEN Problem(acc)
  ELSE LET check == GetSyscall(acc.syscalls, SyscallNum(a, nc.name))
       IN  IF check = 0
           THEN AddSyscall(acc, SyscallNum(a, nc.name), <<nc.conditions>>)
           ELSE IF acc.syscalls[check].conditions = <<>> THEN Problem(acc)
           ELSE [acc EXCEPT !.syscalls[check].conditions = Append(@, nc.conditions)]

ToSyscallsWithConditions(a, group) ==
  LET names == group.names
      ncs == group.namesWithConditions
      plain == ForEach(LAMBDA acc, i : AddName(a, acc, names[i]),
                       [syscalls |-> <<>>, problems |-> 0], names)
  IN  ForEach(LAMBDA acc, i : AddNameWithConditions(a, acc, ncs[i]), plain, ncs)

-----------------------------------------------------------------------------
(* The instructions of a group.                                            *)

NextLabel(p, more, end)  == IF more THEN FreshLabel(p) ELSE end
WithNextLabel(p, more)   == IF more THEN AddLabel(p) ELSE p
SetLabelIf(p, more, label) == IF more THEN SetLabel(p, label) ELSE p

(* How an operation on double words is split: tests of the high word that  *)
(* decide at once, matching or not, and the test of the low word.          *)
Match(cond)   == [cond |-> cond, matches |-> TRUE]
NoMatch(cond) == [cond |-> cond, matches |-> FALSE]

HighTests(operation) ==
  CASE operation = "Equal"          -> <<NoMatch("ne")>>
    [] operation = "NotEqual"       -> <<Match("ne")>>
    [] operation = "GreaterThan"    -> <<Match("gt"), NoMatch("ne")>>
    [] operation = "GreaterOrEqual" -> <<Match("gt"), NoMatch("ne")>>
    [] operation = "LessThan"       -> <<Match("lt"), NoMatch("ne")>>
    [] operation = "LessOrEqual"    -> <<Match("lt"), NoMatch("ne")>>
    [] operation = "BitsSet"        -> <<Match("set")>>
    [] operation = "BitsNotSet"     -> <<NoMatch("set")>>

LowTest(operation) ==
  CASE operation = "Equal"          -> "eq"
    [] operation = "NotEqual"       -> "ne"
    [] operation = "GreaterThan"    -> "gt"
    [] operation = "GreaterOrEqual" -> "ge"
    [] operation = "LessThan"       -> "lt"
    [] operation = "LessOrEqual"    -> "le"
    [] operation = "BitsSet"        -> "set"
    [] operation = "BitsNotSet"     -> "nset"

(* An operation the switch does not know emits nothing but the first load. *)
TestHigh(p, c, test, nextArgument, nextCondition) ==
  JmpIfTrue(p, test.cond, Hi(c.value), IF test.matches THEN nextArgument ELSE nextCondition)

AssembleCondition(p, c, nextArgument, nextCondition) ==
  LET tests == HighTests(c.operation)
      high == LdHi(p, c.argument, arch.littleEndian)
      tested == ForEach(LAMBDA q, i : TestHigh(q, c, tests[i], nextArgument, nextCondition),
                        high, tests)
  IN  IF c.operation \notin Operations THEN high
      ELSE JmpIf(LdLo(tested, c.argument, arch.littleEndian),
                 LowTest(c.operation), Lo(c.value), nextArgument, nextCondition)

(* All conditions of a set must hold.                                      *)
AddCondition(p, conditions, i, action, nextCondition) ==
  LET more == i < Len(conditions)
      nextArgument == NextLabel(p, more, action)
  IN  SetLabelIf(AssembleCondition(WithNextLabel(p, more), conditions[i],
                                   nextArgument, nextCondition),
                 more, nextArgument)

AssembleConditions(p, conditions, action, nextCondition) ==
  ForEach(LAMBDA q, i : AddCondition(q, conditions, i, action, nextCondition), p, conditions)

(* One of the sets of conditions must hold.                                *)
AddConditionSet(p, sets, j, action, nextSyscall) ==
  LET more == j < Len(sets)
      nextCondition == NextLabel(p, more, nextSyscall)
  IN  SetLabelIf(AssembleConditions(WithNextLabel(p, more), sets[j], action, nextCondition),
                 more, nextCondition)

AssembleConditionSets(p, sets, action, nextSyscall) ==
  ForEach(LAMBDA q, j : AddConditionSet(q, sets, j, action, nextSyscall), p, sets)

(* Mutant of AssembleSyscall: the label of the next system call is not set. *)
AssembleSyscallUnset(p, s, more, action, end) ==
  LET nextSyscall == NextLabel(p, more, end)
      head == JmpIfTrue(WithNextLabel(p, more), "ne", s.num, nextSyscall)
  IN  IF s.conditions = <<>>
      THEN IF more THEN JmpIfTrue(p, "eq", s.num, action)
           ELSE JmpIf(p, "eq", s.num, action, end)
      ELSE AssembleConditionSets(head, s.conditions, action, nextSyscall)

AssembleSyscall(p, s, more, action, end) ==
  LET nextSyscall == NextLabel(p, more, end)
      head == JmpIfTrue(WithNextLabel(p, more), "ne", s.num, nextSyscall)
  IN  IF s.conditions = <<>>
      THEN IF more THEN JmpIfTrue(p, "eq", s.num, action)
           ELSE JmpIf(p, "eq", s.num, action, end)
      ELSE SetLabelIf(AssembleConditionSets(head, s.conditions, action, nextSyscall),
                      more, nextSyscall)

AssembleSyscalls(p, syscalls, action, nextGroup) ==
  ForEach(LAMBDA q, i : AssembleSyscall(q, syscalls[i], i < Len(syscalls), action, nextGroup),
          p, syscalls)

AssembleGroup(p, syscalls, groupAction) ==
  LET action == FreshLabel(p)
      nextGroup == FreshLabel(AddLabel(p))
      checks == AssembleSyscalls(AddLabel(AddLabel(p)), syscalls, action, nextGroup)
  IN  SetLabel(Ret(SetLabel(checks, action), groupAction), nextGroup)

-----------------------------------------------------------------------------
(* Policy.Assemble, step by step.                                          *)

Init ==
  /\ policy \in Policies
  /\ arch \in Arches
  /\ stage = "validate"
  /\ prog = NewProgram
  /\ pos = 1
  /\ output = <<>>

Reject == stage' = "error" /\ UNCHANGED <<policy, arch, prog, pos, output>>

(* Validate, then GetInfo for the architecture of the build.               *)
Validate ==
  /\ stage = "validate"
  /\ IF policy.default \in ActionNames /\ policy.groups # <<>> /\ Supported(arch)
     THEN stage' = "groups" /\ UNCHANGED <<policy, arch, prog, pos, output>>
     ELSE Reject

EmptyGroup(group) == group.names = <<>> /\ group.namesWithConditions = <<>>

(* One round of the loop over the groups.                                  *)
AddGroup ==
  /\ stage = "groups"
  /\ pos <= Len(policy.groups)
  /\ LET group == policy.groups[pos]
         found == ToSyscallsWithConditions(arch, group)
     IN  IF ~EmptyGroup(group) /\ found.problems > 0 THEN Reject
         ELSE /\ prog' = IF EmptyGroup(group) THEN prog
                         ELSE AssembleGroup(prog, found.syscalls, group.action)
              /\ pos' = pos + 1
              /\ UNCHANGED <<policy, arch, stage, output>>

AddDefault ==
  /\ stage = "groups"
  /\ pos > Len(policy.groups)
  /\ prog' = Ret(prog, policy.default)
  /\ stage' = "resolve"
  /\ pos' = 1
  /\ UNCHANGED <<policy, arch, output>>

(* One round of the loop of Program.Assemble.                              *)
Resolve ==
  /\ stage = "resolve"
  /\ pos <= Len(prog.jumps)
  /\ LET r == ResolveJump(prog, pos)
     IN  IF r.err # "none" THEN Reject
         ELSE /\ prog' = r.prog
              /\ pos' = pos + 1
              /\ UNCHANGED <<policy, arch, stage, output>>

(* Mutant of X32Filter: the first x32 system call gets through.            *)
X32FilterStrict ==
  IF arch.id = X86_64ID
  THEN << [JumpIf("gt", X32Mask) EXCEPT !.sf = 1], RetConstant("errno_ENOSYS") >>
  ELSE <<>>

X32Filter ==
  IF arch.id = X86_64ID
  THEN << [JumpIf("ge", X32Mask) EXCEPT !.sf = 1], RetConstant("errno_ENOSYS") >>
  ELSE <<>>

(* Mutant of ArchCheck: the jump goes behind the last instruction.         *)
ArchCheckPastEnd(jumpN) ==
  IF jumpN <= MaxSkip
  THEN << [JumpIf("ne", arch.id) EXCEPT !.st = jumpN + 1] >>
  ELSE << [JumpIf("eq", arch.id) EXCEPT !.st = 1], Jump(jumpN + 1) >>

(* A call of another architecture jumps to the last instruction.           *)
ArchCheck(jumpN) ==
  IF jumpN <= MaxSkip
  THEN << [JumpIf("ne", arch.id) EXCEPT !.st = jumpN] >>
  ELSE << [JumpIf("eq", arch.id) EXCEPT !.st = 1], Jump(jumpN) >>

Finish ==
  /\ stage = "resolve"
  /\ pos > Len(prog.jumps)
  /\ LET body == X32Filter \o prog.instructions
     IN  output' = <<LoadAbsolute(archOffset)>> \o ArchCheck(Len(body))
                   \o <<LoadAbsolute(syscallNumOffset)>> \o body
  /\ stage' = "done"
  /\ UNCHANGED <<policy, arch, prog, pos>>

(* Assemble has returned.                                                  *)
Returned == stage \in {"done", "error"} /\ UNCHANGED vars

Next == Validate \/ AddGroup \/ AddDefault \/ Resolve \/ Finish \/ Returned

Spec == Init /\ [][Next]_vars

-----------------------------------------------------------------------------
(* What a policy means.                                                    *)

Holds(c, args) ==
  LET arg == args[c.argument]
  IN  CASE c.operation = "Equal"          -> arg = c.value
        [] c.operation = "NotEqual"       -> arg # c.value
        [] c.operation = "GreaterThan"    -> arg > c.value
        [] c.operation = "GreaterOrEqual" -> arg >= c.value
        [] c.operation = "LessThan"       -> arg < c.value
        [] c.operation = "LessOrEqual"    -> arg <= c.value
        [] c.operation = "BitsSet"        -> BitsOverlap(arg, c.value, 2 * WordBits)
        [] c.operation = "BitsNotSet"     -> ~BitsOverlap(arg, c.value, 2 * WordBits)

AllHold(conditions, args) == \A i \in DOMAIN conditions : Holds(conditions[i], args)

GroupMatches(group, call) ==
  \/ \E i \in DOMAIN group.names : SyscallNum(arch, group.names[i]) = call.nr
  \/ \E i \in DOMAIN group.namesWithConditions :
       LET nc == group.namesWithConditions[i]
       IN  SyscallNum(arch, nc.name) = call.nr /\ AllHold(nc.conditions, call.args)

(* The action of the first group that matches, the default action when     *)
(* none does or the call is of another architecture; x32 is turned away.   *)
Decision(call) ==
  LET first == SelectInSeq(policy.groups, LAMBDA g : GroupMatches(g, call))
  IN  IF call.arch = arch.id /\ arch.id = X86_64ID /\ call.nr >= X32Mask
      THEN "errno_ENOSYS"
      ELSE IF call.arch # arch.id \/ first = 0 THEN RetValue(policy.default)
      ELSE RetValue(policy.groups[first].action)

(* What is wrong with the names of a group, and with a policy.  The action *)
(* of a group is not part of it: Assemble's comment promises an error for  *)
(* invalid actions, and only the default action is looked at.              *)
InvalidGroup(g) ==
  LET names == g.names
      conds == g.namesWithConditions
      known == DOMAIN arch.syscallNames
  IN  \/ \E i \in DOMAIN names : names[i] \notin known
      \/ \E i \in DOMAIN conds : conds[i].name \notin known
      \/ \E i, j \in DOMAIN names : i # j /\ names[i] = names[j]
      \/ \E i \in DOMAIN names, j \in DOMAIN conds : names[i] = conds[j].name
      \/ \E j \in DOMAIN conds : \E k \in DOMAIN conds[j].conditions :
           conds[j].conditions[k].argument > 5

Malformed ==
  \/ policy.default \notin ActionNames
  \/ policy.groups = <<>>
  \/ ~Supported(arch)
  \/ \E i \in DOMAIN policy.groups : InvalidGroup(policy.groups[i])

(* "arguments" is a required setting, but only Program.Assemble looks: a   *)
(* jump over an empty set of conditions is useless.                        *)
EmptyConditions ==
  \E i \in DOMAIN policy.groups : \E j \in DOMAIN policy.groups[i].namesWithConditions :
    policy.groups[i].namesWithConditions[j].conditions = <<>>

-----------------------------------------------------------------------------
(* Properties.                                                             *)

(* Skips fit their instructions, values a word, offsets seccomp_data, and  *)
(* the loops stay within their sequences.                                  *)
TypeOK ==
  /\ stage \in {"validate", "groups", "resolve", "done", "error"}
  /\ prog.instructions \in Seq([op : {"jif"}, cond : Conds, val : Word,
                                st : 0 .. MaxSkip, sf : 0 .. MaxSkip]
                               \cup [op : {"jmp"}, skip : 0 .. (U32 - 1)]
                               \cup [op : {"ret"}, val : {RetValue(a) : a \in Actions}]
                               \cup [op : {"ld"}, off : 16 .. 60])
  /\ pos \in 1 .. (IF stage = "groups" THEN Len(policy.groups) + 1
                   ELSE Len(prog.jumps) + Len(policy.groups) + 1)

(* Program.Assemble never runs into a panic (a label nobody set, or set    *)
(* behind the last instruction) or a jump backwards, whatever groups,      *)
(* names and conditions the labels come from: a jump may be useless, that  *)
(* is all.                                                                 *)
NoPanic ==
  stage = "resolve" /\ pos <= Len(prog.jumps) =>
    ResolveJump(prog, pos).err \in {"none", "useless"}

(* The call fails the conditions of a group that is looked at, and checks  *)
(* of system call numbers come behind that: they find a word of an         *)
(* argument in the accumulator.                                            *)
Exposed(call) ==
  \E g \in DOMAIN policy.groups :
    LET group == policy.groups[g]
        syscalls == ToSyscallsWithConditions(arch, group).syscalls
    IN  /\ \A h \in 1 .. g : ~GroupMatches(policy.groups[h], call)
        /\ \E i \in DOMAIN syscalls :
             /\ syscalls[i].num = call.nr /\ syscalls[i].conditions # <<>>
             /\ \/ i < Len(syscalls)
                \/ \E h \in DOMAIN policy.groups : h > g /\ ~EmptyGroup(policy.groups[h])

(* The program Policy.Assemble returns decides every system call that is   *)
(* not exposed as the policy says: the first group that matches wins, long *)
(* lists are split by early returns that change no decision, 64-bit        *)
(* arguments are compared by words, another architecture gets the default. *)
(* Lists of conditions must not be empty.                                  *)
Faithful ==
  stage = "done" /\ ~EmptyConditions =>
    \A call \in Calls : ~Exposed(call) => Run(output, call, arch.littleEndian) = Decision(call)

(* The same for every system call: "Check the next syscall in this group   *)
(* (if there are more) - Or jump to the next group" after any mismatch,    *)
(* also one of the conditions.                                             *)
FaithfulEverywhere ==
  stage = "done" => \A call \in Calls : Run(output, call, arch.littleEndian) = Decision(call)

(* What the kernel demands of a filter: every jump stays in the program    *)
(* and the last instruction returns.                                       *)
Loadable ==
  stage = "done" =>
    /\ IsRet(Last(output))
    /\ \A i \in DOMAIN output :
         LET inst == output[i]
         IN  /\ IsJumpIf(inst) => i + 1 + inst.st <= Len(output)
                                  /\ i + 1 + inst.sf <= Len(output)
             /\ inst.op = "jmp" => i + 1 + inst.skip <= Len(output)

(* Policy.Assemble returns no program for a malformed policy, however the  *)
(* names are spread over the lists of a group and whatever else is wrong   *)
(* with it.  An action of a group that is none is not among the things     *)
(* that make it malformed: no code looks at it.                            *)
RejectsMalformed == stage = "done" => ~Malformed

(* Only malformed policies are refused: a policy with as many conditions   *)
(* on a name as it likes never runs into an error of the assembler.        *)
AcceptsValid == stage = "error" => Malformed \/ EmptyConditions
=============================================================================
