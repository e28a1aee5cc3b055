----------------------------- MODULE Assembler -----------------------------
(***************************************************************************)
(* A Program used through its methods: a client creates labels and emits   *)
(* instructions in any order, then calls Assemble, which resolves the      *)
(* jumps one after the other and inserts instructions where a jump is too  *)
(* long.  filter.go is one such client (module Policy); this module lets   *)
(* the client do anything the methods allow, except that a label is set at *)
(* most once.                                                              *)
(*                                                                         *)
(* The client gives the JumpIf or load it emits its index as value, so     *)
(* that instructions can be told apart; returns carry one of the Actions.  *)
(***************************************************************************)
EXTENDS Program

CONSTANTS MaxInsts,    \* bound: instructions the client emits
          MaxJumps,    \* bound: jumps among them
          MaxLabels    \* bound: labels of the program

ASSUME BoundsAssumption == {MaxInsts, MaxJumps, MaxLabels} \subseteq Nat

VARIABLES prog,      \* the Program
          phase,     \* what runs: the client, or a half of Assemble's loop body
          cur,       \* position in prog.jumps of the loop's current jump
          skipTrue,  \* jumpInst.SkipTrue while the false label is resolved
          err,       \* the error of Assemble
          home,      \* history: the instruction each label stood for at the call
          crossed    \* history: an insertion fell into a jump already computed

vars == <<prog, phase, cur, skipTrue, err, home, crossed>>

Init ==
  /\ prog = NewProgram
  /\ phase = "building"
  /\ cur = 1
  /\ skipTrue = 0
  /\ err = "none"
  /\ home = <<>>
  /\ crossed = FALSE

-----------------------------------------------------------------------------
(* The client.                                                             *)

(* Labels the client got from NewLabel (or knows of from JmpIfTrue).       *)
Labels == 2 .. Len(prog.labels)

Build(p) ==
  /\ phase = "building"
  /\ Len(p.instructions) <= MaxInsts
  /\ Len(p.jumps) <= MaxJumps
  /\ Len(p.labels) <= MaxLabels
  /\ prog' = p
  /\ UNCHANGED <<phase, cur, skipTrue, err, home, crossed>>

(* The client creates a label when it needs one, uses it in a jump and     *)
(* sets it later: creating or setting an unused label changes nothing.     *)
Used(l) ==
  \E k \in DOMAIN prog.jumps : l \in {prog.jumps[k].trueLabel, prog.jumps[k].falseLabel}

ClientNewLabel ==
  /\ Cardinality({l \in Labels : ~Used(l)}) < 2
  /\ Build(AddLabel(prog))

ClientSetLabel(l) ==
  /\ Used(l)
  /\ prog.labels[l] = <<>>
  /\ Build(SetLabel(prog, l))

ClientJmpIf(t, f) == Build(JmpIf(prog, "eq", CurrentIndex(prog), t, f))

ClientJmpIfTrue(t) == Build(JmpIfTrue(prog, "eq", CurrentIndex(prog), t))

ClientRet(a) == Build(Ret(prog, a))

ClientLoad == Build(LdHi(prog, CurrentIndex(prog), TRUE))

-----------------------------------------------------------------------------
(* Assemble.                                                               *)

Assemble ==
  /\ phase = "building"
  /\ phase' = IF prog.jumps = <<>> THEN "done" ELSE "true"
  /\ home' = [l \in DOMAIN prog.labels |->
                IF prog.labels[l] = <<>> THEN End
                ELSE ContentAt(prog, prog.labels[l][1])]
  /\ UNCHANGED <<prog, cur, skipTrue, err, crossed>>

(* From where to where the jumps computed so far go.                       *)
SpanOf(j, skip) == [from |-> j.index, to |-> j.index + 1 + skip]
Spans ==
  {SpanOf(prog.jumps[k], InstAt(prog, prog.jumps[k].index).st) : k \in 1 .. (cur - 1)}
  \cup {SpanOf(prog.jumps[k], InstAt(prog, prog.jumps[k].index).sf) : k \in 1 .. (cur - 1)}
  \cup {SpanOf(prog.jumps[k], skipTrue) : k \in IF phase = "false" THEN {cur} ELSE {}}

(* Resolving jump leaves p, and the instruction it inserts falls into a    *)
(* jump whose skip is already there.                                       *)
Crosses(p, jump) ==
  /\ Len(p.instructions) > Len(prog.instructions)
  /\ LET at == FindInsertAfter(prog.jumps, jump).index + 1
     IN  \E s \in Spans : s.from < at /\ at <= s.to

Fail(e) ==
  /\ phase' = "failed"
  /\ err' = e
  /\ UNCHANGED <<prog, cur, skipTrue, home, crossed>>

(* The first half of the loop body.  Insertions happen behind the current  *)
(* jump, so the code's copy of it stays equal to prog.jumps[cur].          *)
ResolveTrue ==
  LET jump == prog.jumps[cur]
      r == ResolveLabel(prog, jump, jump.trueLabel)
  IN  /\ phase = "true"
      /\ IF r.err # "none" THEN Fail(r.err)
         ELSE /\ phase' = "false"
              /\ prog' = r.prog
              /\ skipTrue' = r.skip
              /\ crossed' = (crossed \/ Crosses(r.prog, jump))
              /\ UNCHANGED <<cur, err, home>>

(* The second half: the false label, the check for a useless jump and the  *)
(* instruction put back.                                                   *)
ResolveFalse ==
  LET jump == prog.jumps[cur]
      r == ResolveLabel(prog, jump, jump.falseLabel)
  IN  /\ phase = "false"
      /\ IF r.err # "none" THEN Fail(r.err)
         ELSE /\ crossed' = (crossed \/ Crosses(r.prog, jump))
              /\ IF skipTrue = 0 /\ r.skip = 0
                 THEN /\ phase' = "failed"
                      /\ err' = "useless"
                      /\ UNCHANGED <<prog, cur, skipTrue, home>>
                 ELSE /\ prog' = StoreSkips(r.prog, jump, skipTrue, r.skip)
                      /\ phase' = IF cur = Len(prog.jumps) THEN "done" ELSE "true"
                      /\ cur' = cur + 1
                      /\ skipTrue' = 0
                      /\ UNCHANGED <<err, home>>

(* Assemble has returned.                                                  *)
Returned == phase \in {"done", "failed"} /\ UNCHANGED vars

Next ==
  \/ ClientNewLabel
  \/ \E l \in Labels : ClientSetLabel(l)
  \/ \E t, f \in Labels : ClientJmpIf(t, f)
  \/ \E t \in Labels : ClientJmpIfTrue(t)
  \/ \E a \in Actions : ClientRet(a)
  \/ ClientLoad
  \/ Assemble
  \/ ResolveTrue
  \/ ResolveFalse
  \/ Returned

Spec == Init /\ [][Next]_vars

-----------------------------------------------------------------------------
(* Properties.                                                             *)

(* The type of every variable; the loop of Assemble stays within p.jumps.  *)
TypeOK ==
  /\ prog \in ProgramType
  /\ phase \in {"building", "true", "false", "done", "failed"}
  /\ cur \in 1 .. (Len(prog.jumps) + 1)
  /\ phase \in {"true", "false"} => cur <= Len(prog.jumps)
  /\ skipTrue \in 0 .. MaxSkip
  /\ err \in {"none", "panic", "backward", "useless"}
  /\ crossed \in BOOLEAN

(* resolveLabel converts a skip to uint8 without a check of its own, on    *)
(* both of its ways out: the conversion loses nothing.  What is converted  *)
(* is never negative, although destinations are dropped and moved, and     *)
(* never above the limit: the destination is near, or findInsertAfter      *)
(* finds a place that is.                                                  *)
SkipsFit ==
  phase \in {"true", "false"} =>
    LET jump == prog.jumps[cur]
        label == IF phase = "true" THEN jump.trueLabel ELSE jump.falseLabel
        r == ResolveLabel(prog, jump, label)
    IN  r.err = "none" => ComputeSkipN(r.prog, jump, label) \in 0 .. MaxSkip

(* The indices kept in p.jumps follow their instructions through every     *)
(* insertion: they point at JumpIf instructions, so the unchecked type     *)
(* assertions of Assemble and insertAfter ("This is safe since we are only *)
(* accessing instructions that were inserted as bpf.JumpIf") never panic,  *)
(* and they stay in order, as findInsertAfter needs them to be.            *)
JumpsTrack == JumpsTracked(prog)

(* The destinations of a label keep their order, the last one keeps        *)
(* standing for the instruction the client meant, and each one in front of *)
(* it is a stand-in: a copy of that instruction when it is a return, an    *)
(* unconditional jump otherwise.                                           *)
LabelsTrack ==
  phase # "building" =>
    \A l \in DOMAIN prog.labels :
      LET dest == prog.labels[l]
      IN  /\ \A i, j \in DOMAIN dest : i < j => dest[i] < dest[j]
          /\ dest # <<>> => ContentAt(prog, Last(dest)) = home[l]
          /\ \A i \in 1 .. (Len(dest) - 1) :
               IF home[l].op = "ret" THEN ContentAt(prog, dest[i]) = home[l]
               ELSE ContentAt(prog, dest[i]).op = "jmp"

(* Nothing falls into an instruction that was inserted: right in front of  *)
(* it is a jump or a return, never a load ("jump over the new inserted     *)
(* instruction and do not disturb the program flow").                      *)
InsertionsGuarded ==
  /\ \A i \in 0 .. (Len(prog.instructions) - 1) :
       InstAt(prog, i).op = "jmp" => i > 0 /\ InstAt(prog, i - 1).op # "ld"
  /\ \A l \in DOMAIN prog.labels : \A i \in 1 .. (Len(prog.labels[l]) - 1) :
       InstAt(prog, prog.labels[l][i] - 1).op # "ld"

NoLongJump == \A i \in DOMAIN prog.instructions : prog.instructions[i].op # "jmp"

(* Assemble resolves every jump to the instruction its label stands for,   *)
(* or to a copy of that return, as long as no insertion falls into a jump  *)
(* computed before it and every far destination is a return.               *)
LandsHome ==
  ~crossed /\ NoLongJump =>
    \A k \in 1 .. (cur - 1) :
      LET jump == prog.jumps[k]
          inst == InstAt(prog, jump.index)
      IN  /\ ContentAt(prog, jump.index + 1 + inst.st) = home[jump.trueLabel]
          /\ ContentAt(prog, jump.index + 1 + inst.sf) = home[jump.falseLabel]

(* A client that sets every label it jumps to, behind the jump and in      *)
(* front of an instruction, and gives a jump two destinations that differ, *)
(* gets no error and no panic from Assemble, as long as no insertion falls *)
(* into a jump computed before it.                                         *)
WellUsed ==
  \A k \in DOMAIN prog.jumps :
    LET jump == prog.jumps[k]
        Home(l) == Last(prog.labels[l])
    IN  /\ \A l \in {jump.trueLabel, jump.falseLabel} :
             /\ prog.labels[l] # <<>>
             /\ jump.index < Home(l)
             /\ Home(l) < CurrentIndex(prog)
        /\ Home(jump.trueLabel) # Home(jump.falseLabel)

WellUsedSucceeds == WellUsed /\ ~crossed => phase # "failed"
=============================================================================
