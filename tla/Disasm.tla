------------------------------- MODULE Disasm -------------------------------
(***************************************************************************)
(* disasm.go: the parser that finds system calls in the objdump of a       *)
(* binary.                                                                 *)
(*                                                                         *)
(* A line of the objdump is one of the kinds the parser tells apart by the *)
(* text in it.  A parser p is a record:                                    *)
(*   p.wrapper       whether the current function is one of those that     *)
(*                   make system calls for others (isSyscallFunction);     *)
(*   p.instructions  the lines since the function began or the last system *)
(*                   call was found;                                       *)
(*   p.lines         the lines read, by whose number a system call is      *)
(*                   located;                                              *)
(*   p.syscalls      the system calls found, as [num, at].                 *)
(***************************************************************************)
EXTENDS Integers, Sequences, SequencesExt

CONSTANT SyscallNumbers   \* the numbers the architecture has names for

ASSUME SyscallNumbersAssumption == SyscallNumbers \subseteq Nat

Text(wrapper) == [kind |-> "text", wrapper |-> wrapper]       \* TEXT ...
Load(to, num) == [kind |-> "load", to |-> to, num |-> num]    \* MOV $num, to
Zero          == [kind |-> "zero"]                            \* XORL AX, AX
Raw           == [kind |-> "raw"]                             \* SYSCALL, INT $0x80
Call          == [kind |-> "call"]                            \* CALL syscall.Syscall(SB)
Other         == [kind |-> "other"]
Overlong      == [kind |-> "overlong"]                        \* too long for a Scanner

(* What a number that does not parse is loaded as, and what a line gives   *)
(* that is no system call.  A negative number -n, which parses, is loaded  *)
(* as -n - 2.                                                              *)
NotFound    == -1
NotASyscall == -2
IsNumber(num) == num \notin {NotFound, NotASyscall}

NewParser == [wrapper |-> FALSE, instructions |-> <<>>, lines |-> 0, syscalls |-> <<>>]

-----------------------------------------------------------------------------
(* Mutant of FindSyscallNum: the first load is taken.                      *)
FindSyscallNumFirst(instructions, to) ==
  LET i == SelectInSeq(instructions, LAMBDA l : l.kind = "load" /\ l.to = to)
  IN  IF i = 0 THEN NotFound ELSE instructions[i].num

(* The last load of the kind a system call needs.                          *)
FindSyscallNum(instructions, to) ==
  LET i == SelectLastInSeq(instructions, LAMBDA l : l.kind = "load" /\ l.to = to)
  IN  IF i = 0 THEN NotFound ELSE instructions[i].num

LastInstructionIsZero(instructions) ==
  /\ Len(instructions) >= 2
  /\ instructions[Len(instructions) - 1].kind = "zero"

(* The number of the system call that line, the last of p.instructions, is.*)
ParseX86_64(p, line) ==
  IF line.kind = "raw" /\ ~p.wrapper
  THEN IF LastInstructionIsZero(p.instructions) THEN 0
       ELSE FindSyscallNum(p.instructions, "register")
  ELSE IF line.kind = "call" THEN FindSyscallNum(p.instructions, "stack")
  ELSE NotASyscall

(* Mutant of BeginFunction: the instructions of the last one are kept.     *)
BeginFunctionKeep(p, line) == [p EXCEPT !.wrapper = line.wrapper]

BeginFunction(p, line) == [p EXCEPT !.wrapper = line.wrapper, !.instructions = <<>>]

(* A number without a name is dropped with a warning.                      *)
FoundSyscall(p, num) ==
  [p EXCEPT !.instructions = <<>>,
            !.syscalls = IF num \in SyscallNumbers
                         THEN Append(@, [num |-> num, at |-> p.lines]) ELSE @]

(* One round of the loop of Parse.  A system call whose number is not      *)
(* found is skipped with a warning.                                        *)
ParseLine(p, line) ==
  LET q == [p EXCEPT !.instructions = Append(@, line), !.lines = @ + 1]
      num == ParseX86_64(q, line)
  IN  IF line.kind = "text" THEN BeginFunction(q, line)
      ELSE IF IsNumber(num) THEN FoundSyscall(q, num)
      ELSE q
=============================================================================
