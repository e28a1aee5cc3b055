-------------------------------- MODULE BPF --------------------------------
(***************************************************************************)
(* The instructions of golang.org/x/net/bpf that go-seccomp-bpf emits, and *)
(* the machine that runs them on a struct seccomp_data.  Both are outside  *)
(* the repository (the package is a dependency, the machine is the         *)
(* kernel's, or bpf.NewVM in filter_test.go): they are modelled from the   *)
(* way filter.go, assembler.go and filter_test.go use them.                *)
(*                                                                         *)
(* A program is a sequence of instructions; the code numbers them from 0.  *)
(* A machine word has WordBits bits (32 in the code) and a system call     *)
(* argument is a double word.                                              *)
(***************************************************************************)
EXTENDS Integers, Sequences

CONSTANT WordBits   \* bits of the accumulator and of an instruction's value

ASSUME WordBitsAssumption == WordBits \in Nat \ {0}

W == 2 ^ WordBits
ASSUME WAssumption == W \in Nat \ {0}

Word == 0 .. (W - 1)
DoubleWord == 0 .. (W * W - 1)

Hi(v) == v \div W
Lo(v) == v % W

-----------------------------------------------------------------------------
(* Instructions.  A JumpIf skips st instructions when its test holds and   *)
(* sf when it does not.                                                    *)

Conds == {"eq", "ne", "gt", "lt", "ge", "le", "set", "nset"}

JumpIf(cond, val) == [op |-> "jif", cond |-> cond, val |-> val, st |-> 0, sf |-> 0]
Jump(skip)        == [op |-> "jmp", skip |-> skip]
RetConstant(val)  == [op |-> "ret", val |-> val]
LoadAbsolute(off) == [op |-> "ld", off |-> off]

IsJumpIf(inst) == inst.op = "jif"
IsRet(inst)    == inst.op = "ret"

(* The offsets of struct seccomp_data: the system call number, the audit   *)
(* architecture, (the instruction pointer,) six 64-bit arguments.          *)
syscallNumOffset == 0
archOffset       == 4
argumentOffset   == 16
sizeOfUint32     == 4
sizeOfUint64     == 8

-----------------------------------------------------------------------------
(* The machine.                                                            *)

Fault == "fault"

BitsOverlap(a, b, bits) ==
  \E k \in 0 .. (bits - 1) :
    (a \div 2 ^ k) % 2 = 1 /\ (b \div 2 ^ k) % 2 = 1

Test(cond, acc, val) ==
  CASE cond = "eq"   -> acc = val
    [] cond = "ne"   -> acc # val
    [] cond = "gt"   -> acc > val
    [] cond = "lt"   -> acc < val
    [] cond = "ge"   -> acc >= val
    [] cond = "le"   -> acc <= val
    [] cond = "set"  -> BitsOverlap(acc, val, WordBits)
    [] cond = "nset" -> ~BitsOverlap(acc, val, WordBits)

(* The word a LoadAbsolute at off reads from data, a record with the       *)
(* fields nr, arch and args (a function from argument positions), on a     *)
(* machine that is little-endian or not.                                   *)
WordAt(data, off, littleEndian) ==
  LET arg  == data.args[(off - argumentOffset) \div sizeOfUint64]
      half == (off - argumentOffset) % sizeOfUint64
  IN  CASE off = syscallNumOffset -> data.nr
        [] off = archOffset       -> data.arch
        [] OTHER -> IF littleEndian = (half = sizeOfUint32) THEN Hi(arg) ELSE Lo(arg)

(* What the program returns for data: the value of the first RetConstant   *)
(* it reaches, Fault when control leaves the program.                      *)
Run(insts, data, littleEndian) ==
  LET exec[ip \in 0 .. Len(insts), acc \in Word] ==
        LET inst == insts[ip + 1]
            Goto(skip, a) == LET to == ip + 1 + skip
                             IN  IF to < Len(insts) THEN exec[to, a] ELSE Fault
        IN  IF ip >= Len(insts) THEN Fault
            ELSE CASE inst.op = "ret" -> inst.val
                   [] inst.op = "ld"  -> Goto(0, WordAt(data, inst.off, littleEndian))
                   [] inst.op = "jmp" -> Goto(inst.skip, acc)
                   [] inst.op = "jif" ->
                        Goto(IF Test(inst.cond, acc, inst.val)
                             THEN inst.st ELSE inst.sf, acc)
  IN  exec[0, 0]
=============================================================================
