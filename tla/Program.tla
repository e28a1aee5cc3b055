------------------------------ MODULE Program ------------------------------
(***************************************************************************)
(* assembler.go: a Program under construction and the resolution of its    *)
(* jumps.  Every method is an operator from a program to the program it    *)
(* leaves behind.                                                          *)
(*                                                                         *)
(* A program p is a record:                                                *)
(*   p.instructions  the instructions so far; indices count from 0, so     *)
(*                   index i is p.instructions[i + 1];                     *)
(*   p.jumps         one [index, trueLabel, falseLabel] per JumpIf;        *)
(*   p.labels        p.labels[l] is the list of indices label l stands     *)
(*                   for, empty (Go's nil slice) until SetLabel.           *)
(* A label is created by NewLabel, so the labels are 1..Len(p.labels) and  *)
(* the counter nextLabel of the code is Len(p.labels).                     *)
(***************************************************************************)
EXTENDS BPF, SequencesExt

CONSTANTS MaxSkip,   \* math.MaxUint8: the longest skip of a JumpIf (255)
          U32,       \* how many values a uint32 has
          Actions    \* the values of type Action that a Ret may return

ASSUME MaxSkipAssumption == MaxSkip \in Nat \ {0}
ASSUME U32Assumption == U32 \in Nat \ {0}

(* NewProgram hands out labels from 2 on: label 1 exists and is not used.  *)
NewProgram == [instructions |-> <<>>, jumps |-> <<>>, labels |-> << <<>> >>]

CurrentIndex(p) == Len(p.instructions)
InstAt(p, i)    == p.instructions[i + 1]
Emit(p, inst)   == [p EXCEPT !.instructions = Append(@, inst)]

-----------------------------------------------------------------------------
(* Construction.                                                           *)

(* NewLabel returns the label FreshLabel(p) and leaves AddLabel(p).        *)
FreshLabel(p) == Len(p.labels) + 1
AddLabel(p)   == [p EXCEPT !.labels = Append(@, <<>>)]

SetLabel(p, label) ==
  [p EXCEPT !.labels[label] = Append(@, CurrentIndex(p))]

JmpIf(p, cond, val, trueLabel, falseLabel) ==
  Emit([p EXCEPT !.jumps = Append(@, [index      |-> CurrentIndex(p),
                                      trueLabel  |-> trueLabel,
                                      falseLabel |-> falseLabel])],
       JumpIf(cond, val))

JmpIfTrue(p, cond, val, trueLabel) ==
  LET nextInst == FreshLabel(p)
  IN  SetLabel(JmpIf(AddLabel(p), cond, val, trueLabel, nextInst), nextInst)

(* The value a Ret of action puts in the instruction: errno gets EPERM.    *)
RetValue(action) == IF action = "errno" THEN "errno_EPERM" ELSE action
Ret(p, action)   == Emit(p, RetConstant(RetValue(action)))

(* LdHi and LdLo look at nativeEndian, the byte order of the machine.      *)

(* Mutant of LdHi: the offset of the arguments in seccomp_data is left out. *)
LdHiUnbased(p, arg, littleEndian) ==
  Emit(p, LoadAbsolute(sizeOfUint64 * arg + IF littleEndian THEN sizeOfUint32 ELSE 0))

LdHi(p, arg, littleEndian) ==
  Emit(p, LoadAbsolute(argumentOffset + sizeOfUint64 * arg
                       + IF littleEndian THEN sizeOfUint32 ELSE 0))

(* Mutant of LdLo: the byte order is not looked at.                        *)
LdLoLittle(p, arg, littleEndian) ==
  Emit(p, LoadAbsolute(argumentOffset + sizeOfUint64 * arg))

LdLo(p, arg, littleEndian) ==
  Emit(p, LoadAbsolute(argumentOffset + sizeOfUint64 * arg
                       + IF littleEndian THEN 0 ELSE sizeOfUint32))

-----------------------------------------------------------------------------
(* What a program is, and what it keeps.                                   *)

Instruction ==
  [op : {"jif"}, cond : Conds, val : Nat, st : 0 .. MaxSkip, sf : 0 .. MaxSkip]
  \cup [op : {"jmp"}, skip : 0 .. (U32 - 1)]
  \cup [op : {"ret"}, val : {RetValue(a) : a \in Actions}]
  \cup [op : {"ld"}, off : Nat]

JumpRecord == [index : Nat, trueLabel : Nat, falseLabel : Nat]

ProgramType ==
  [instructions : Seq(Instruction), jumps : Seq(JumpRecord), labels : Seq(Seq(Nat))]

JumpsTracked(p) ==
  /\ \A k \in DOMAIN p.jumps :
       /\ p.jumps[k].index < Len(p.instructions)
       /\ IsJumpIf(InstAt(p, p.jumps[k].index))
  /\ \A j, k \in DOMAIN p.jumps : j < k => p.jumps[j].index < p.jumps[k].index

(* An instruction without its skips, and what is behind the last one.      *)
Content(inst) == IF IsJumpIf(inst) THEN JumpIf(inst.cond, inst.val) ELSE inst
End == [op |-> "end"]
ContentAt(p, i) == IF i < CurrentIndex(p) THEN Content(InstAt(p, i)) ELSE End

-----------------------------------------------------------------------------
(* Resolution of the jumps.                                                *)

(* Mutant of ComputeSkipN: a skip counts from the next instruction.        *)
ComputeSkipNOffByOne(p, jump, label) == p.labels[label][1] - jump.index

ComputeSkipN(p, jump, label) == p.labels[label][1] - jump.index - 1

(* Mutant of FindInsertAfter: the farthest place, whatever is there.       *)
FindInsertAfterFarthest(jumps, currentJump) ==
  [currentJump EXCEPT !.index = @ + MaxSkip - 1]

(* The last jump of the list that is within a short jump of currentJump.   *)
FindInsertAfter(jumps, currentJump) ==
  jumps[SelectLastInSeq(jumps, LAMBDA j : j.index < currentJump.index + MaxSkip)]

ShiftFrom(after, i) == IF i >= after THEN i + 1 ELSE i

(* Mutants of UpdateIndices: one of the two tables is forgotten.           *)
UpdateIndicesLabelsOnly(p, after) ==
  [p EXCEPT !.labels = [l \in DOMAIN @ |->
     [k \in DOMAIN @[l] |-> ShiftFrom(after, @[l][k])]]]

UpdateIndicesJumpsOnly(p, after) ==
  [p EXCEPT !.jumps = [k \in DOMAIN @ |-> [@[k] EXCEPT !.index = ShiftFrom(after, @)]]]

UpdateIndices(p, after) ==
  [instructions |-> p.instructions,
   jumps  |-> [k \in DOMAIN p.jumps |->
                [p.jumps[k] EXCEPT !.index = ShiftFrom(after, p.jumps[k].index)]],
   labels |-> [l \in DOMAIN p.labels |->
                [k \in DOMAIN p.labels[l] |-> ShiftFrom(after, p.labels[l][k])]]]

(* Puts inst right behind the instruction at index.                        *)
InsertAfter(p, index, inst) ==
  UpdateIndices([p EXCEPT !.instructions = InsertAt(@, index + 2, inst)], index + 1)

(* The instruction that stands in for a destination that is too far away:  *)
(* a copy of it when it is a return, else an unconditional jump.           *)
FarInstruction(p, jump, label, after) ==
  LET dest == InstAt(p, p.labels[label][1])
  IN  IF IsRet(dest) THEN dest
      ELSE Jump((ComputeSkipN(p, jump, label) - after) % U32)

LongJump(p, jump, label) ==
  LET after == FindInsertAfter(p.jumps, jump).index
      q == InsertAfter(p, after, FarInstruction(p, jump, label, after))
  IN  [q EXCEPT !.labels[label] = Cons(after + 1, @)]

(* Mutant of FirstForward: only the first destination is looked at.        *)
FirstForwardHead(p, jump, label) ==
  IF p.labels[label][1] > jump.index THEN 1 ELSE 0

(* Destinations at or before the jump are dropped from the label's list.   *)
FirstForward(p, jump, label) ==
  SelectInSeq(p.labels[label], LAMBDA d : d > jump.index)

DropBackward(p, jump, label) ==
  [p EXCEPT !.labels[label] =
     SubSeq(p.labels[label], FirstForward(p, jump, label), Len(p.labels[label]))]

Resolved(p, jump, label) ==
  [prog |-> p, skip |-> ComputeSkipN(p, jump, label) % (MaxSkip + 1), err |-> "none"]

Failed(p, err) == [prog |-> p, skip |-> 0, err |-> err]

(* Mutant of ResolveLabel: the longest short jump is off by one.           *)
ResolveLabelOffByOne(p, jump, label) ==
  LET q == DropBackward(p, jump, label)
  IN  IF p.labels[label] = <<>> THEN Failed(p, "panic")
      ELSE IF FirstForward(p, jump, label) = 0 THEN Failed(p, "backward")
      ELSE IF ComputeSkipN(q, jump, label) <= MaxSkip + 1 THEN Resolved(q, jump, label)
      ELSE IF q.labels[label][1] >= CurrentIndex(q) THEN Failed(q, "panic")
      ELSE Resolved(LongJump(q, jump, label), jump, label)

(* resolveLabel: the program, the skip and the error it returns.  An index *)
(* out of range (a label nobody set, or set behind the last instruction)   *)
(* is a Go panic.  A failure drops the whole program in every caller, so   *)
(* what it leaves in p is not looked at any more.                          *)
ResolveLabel(p, jump, label) ==
  LET q == DropBackward(p, jump, label)
  IN  IF p.labels[label] = <<>> THEN Failed(p, "panic")
      ELSE IF FirstForward(p, jump, label) = 0 THEN Failed(p, "backward")
      ELSE IF ComputeSkipN(q, jump, label) <= MaxSkip THEN Resolved(q, jump, label)
      ELSE IF q.labels[label][1] >= CurrentIndex(q) THEN Failed(q, "panic")
      ELSE Resolved(LongJump(q, jump, label), jump, label)

StoreSkips(p, jump, skipTrue, skipFalse) ==
  [p EXCEPT !.instructions[jump.index + 1] =
     [InstAt(p, jump.index) EXCEPT !.st = skipTrue, !.sf = skipFalse]]

(* One round of the loop of Program.Assemble, for the k-th jump.           *)
ResolveJump(p, k) ==
  LET jump == p.jumps[k]
      t == ResolveLabel(p, jump, jump.trueLabel)
      f == ResolveLabel(t.prog, jump, jump.falseLabel)
  IN  IF t.err # "none" THEN t
      ELSE IF f.err # "none" THEN f
      ELSE IF t.skip = 0 /\ f.skip = 0 THEN Failed(f.prog, "useless")
      ELSE [f EXCEPT !.prog = StoreSkips(f.prog, jump, t.skip, f.skip)]
=============================================================================
