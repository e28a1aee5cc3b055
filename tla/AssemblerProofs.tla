-------------------------- MODULE AssemblerProofs --------------------------
(***************************************************************************)
(* Proofs about module Assembler, for every client, every size of program  *)
(* and every length of a short jump: its skips fit a byte unconverted, the *)
(* indices of its jumps and the destinations of its labels follow the      *)
(* insertions of Assemble, nothing falls into an inserted instruction,     *)
(* uncrossed jumps land where their labels say, and a program that is used *)
(* well is assembled without an error.                                     *)
(*                                                                         *)
(* What the operators do to a program is in module ProgramProofs.  Types   *)
(* and indices rest on IInv, the rest on LabelInv on top of it.            *)
(***************************************************************************)
EXTENDS Assembler, ProgramProofs

(* The inductive invariant.  The indices of the jumps follow the           *)
(* insertions only while the labels the jumps name exist (WellFormed), and *)
(* the loop of Assemble stays within p.jumps because it starts at the      *)
(* first jump.                                                             *)
IInv ==
  /\ TypeOK
  /\ WellFormed(prog)
  /\ phase = "building" => cur = 1

(* NewProgram satisfies the inductive invariant.                           *)
LEMMA InitIInv == Init => IInv
<1> SUFFICES ASSUME Init PROVE IInv
  OBVIOUS
<1>1. prog = [instructions |-> <<>>, jumps |-> <<>>, labels |-> << <<>> >>]
  BY DEF Init, NewProgram
<1>2. prog \in ProgramType
  <2>1. <<>> \in Seq(Instruction) /\ <<>> \in Seq(JumpRecord) /\ << <<>> >> \in Seq(Seq(Nat))
    OBVIOUS
  <2> QED BY <1>1, <2>1 DEF ProgramType
<1>3. prog.jumps = <<>> /\ DOMAIN prog.jumps = {} /\ Len(prog.jumps) = 0
  BY <1>1
<1>4. WellFormed(prog)
  BY <1>2, <1>3 DEF WellFormed, JumpsTracked
<1>5. phase = "building" /\ cur = 1 /\ skipTrue = 0 /\ err = "none"
  BY DEF Init
<1>6. TypeOK
  <2>1. crossed \in BOOLEAN
    BY DEF Init
  <2>2. cur \in 1 .. (Len(prog.jumps) + 1) /\ skipTrue \in 0 .. MaxSkip
    BY <1>3, <1>5, MaxSkipAssumption
  <2> QED BY <1>2, <1>5, <2>1, <2>2 DEF TypeOK
<1> QED BY <1>4, <1>5, <1>6 DEF IInv

(* A method of the client that grows the program keeps the invariant.      *)
LEMMA BuildIInv ==
  ASSUME IInv, NEW p, Grows(p, prog), Build(p)
  PROVE  IInv'
<1>1. prog' = p /\ phase = "building"
  BY DEF Build
<1>2. WellFormed(p) /\ p \in ProgramType
  BY DEF Grows, WellFormed
<1>3. Len(prog.jumps) \in Nat /\ Len(p.jumps) \in Nat /\ Len(p.jumps) >= Len(prog.jumps)
  BY <1>2, WellFormedFacts DEF Grows, IInv
<1>4. cur \in 1 .. (Len(prog.jumps) + 1) /\ cur = 1
  BY <1>1 DEF IInv, TypeOK
<1>5. cur \in 1 .. (Len(p.jumps) + 1)
  BY <1>3, <1>4
<1>6. /\ skipTrue' \in 0 .. MaxSkip /\ err' \in {"none", "panic", "backward", "useless"}
      /\ crossed' \in BOOLEAN /\ phase' = "building" /\ cur' = cur
  BY DEF IInv, TypeOK, Build
<1>7. TypeOK'
  BY <1>1, <1>2, <1>5, <1>6 DEF TypeOK
<1>8. WellFormed(prog')
  BY <1>1, <1>2
<1> QED BY <1>4, <1>6, <1>7, <1>8 DEF IInv

(* An error return of Assemble keeps the invariant.                        *)
LEMMA FailIInv ==
  ASSUME IInv, NEW e \in Errors, Fail(e)
  PROVE  IInv'
<1>1. /\ prog' = prog /\ phase' = "failed" /\ err' = e /\ cur' = cur
      /\ skipTrue' = skipTrue /\ crossed' = crossed
  BY DEF Fail
<1>2. /\ prog \in ProgramType /\ cur \in 1 .. (Len(prog.jumps) + 1)
      /\ skipTrue \in 0 .. MaxSkip /\ crossed \in BOOLEAN
  BY DEF IInv, TypeOK
<1>3. TypeOK'
  BY <1>1, <1>2 DEF TypeOK, Errors
<1> QED BY <1>1, <1>3 DEF IInv

(* Entering the loop of Assemble keeps the invariant.                      *)
LEMMA AssembleIInv ==
  ASSUME IInv, Assemble
  PROVE  IInv'
<1>1. /\ prog' = prog /\ err' = err /\ cur' = cur
      /\ skipTrue' = skipTrue /\ crossed' = crossed
      /\ phase' = (IF prog.jumps = <<>> THEN "done" ELSE "true")
      /\ phase = "building"
  BY DEF Assemble
<1>2. /\ prog \in ProgramType /\ cur = 1 /\ cur \in 1 .. (Len(prog.jumps) + 1)
      /\ skipTrue \in 0 .. MaxSkip /\ err \in {"none", "panic", "backward", "useless"}
      /\ crossed \in BOOLEAN
  BY <1>1 DEF IInv, TypeOK
<1>3. prog.jumps # <<>> => 1 <= Len(prog.jumps)
  <2>1. prog.jumps \in Seq(JumpRecord)
    BY WellFormedFacts DEF IInv
  <2> QED BY <2>1
<1>4. /\ phase' \in {"done", "true"}
      /\ phase' = "true" => 1 <= Len(prog.jumps)
  BY <1>1, <1>3
<1>5. TypeOK'
  BY <1>1, <1>2, <1>4 DEF TypeOK
<1> QED BY <1>1, <1>4, <1>5 DEF IInv

(* Resolving the true label of the current jump keeps the invariant.       *)
LEMMA ResolveTrueIInv ==
  ASSUME IInv, ResolveTrue
  PROVE  IInv'
<1> DEFINE jump == prog.jumps[cur]
           r == ResolveLabel(prog, jump, jump.trueLabel)
<1>1. phase = "true"
  BY DEF ResolveTrue
<1>2. /\ WellFormed(prog) /\ cur \in DOMAIN prog.jumps
      /\ jump.trueLabel \in DOMAIN prog.labels
  <2>1. cur \in 1 .. (Len(prog.jumps) + 1) /\ cur <= Len(prog.jumps)
    BY <1>1 DEF IInv, TypeOK
  <2>2. WellFormed(prog)
    BY DEF IInv
  <2>3. cur \in DOMAIN prog.jumps
    BY <2>1, <2>2, WellFormedFacts
  <2> QED BY <2>2, <2>3 DEF WellFormed
<1>3. ResultOK(r, prog, cur)
  BY <1>2, ResolveLabelOK
<1>4. CASE r.err # "none"
  <2>1. Fail(r.err)
    BY <1>4 DEF ResolveTrue
  <2> HIDE DEF r
  <2> QED BY <1>3, <2>1, FailIInv DEF ResultOK
<1>5. CASE r.err = "none"
  <2>1. /\ phase' = "false" /\ prog' = r.prog /\ skipTrue' = r.skip
        /\ crossed' = (crossed \/ Crosses(r.prog, jump))
        /\ cur' = cur /\ err' = err
    BY <1>5 DEF ResolveTrue
  <2>2. crossed' \in BOOLEAN
    BY <2>1
  <2> HIDE DEF r
  <2>3. /\ WellFormed(prog') /\ prog' \in ProgramType
        /\ DOMAIN prog'.jumps = DOMAIN prog.jumps
        /\ skipTrue' \in 0 .. MaxSkip
    BY <1>3, <2>1 DEF ResultOK, Keeps, WellFormed
  <2>4. cur \in 1 .. (Len(prog'.jumps) + 1) /\ cur <= Len(prog'.jumps)
    <3>1. Len(prog'.jumps) \in Nat /\ DOMAIN prog'.jumps = 1 .. Len(prog'.jumps)
      BY <2>3, WellFormedFacts
    <3> QED BY <1>2, <2>3, <3>1
  <2>5. err \in {"none", "panic", "backward", "useless"}
    BY DEF IInv, TypeOK
  <2>6. TypeOK'
    BY <2>1, <2>2, <2>3, <2>4, <2>5 DEF TypeOK
  <2> QED BY <2>1, <2>3, <2>6 DEF IInv
<1> QED BY <1>4, <1>5

(* Resolving the false label and storing both skips keeps the invariant.   *)
LEMMA ResolveFalseIInv ==
  ASSUME IInv, ResolveFalse
  PROVE  IInv'
<1> DEFINE jump == prog.jumps[cur]
           r == ResolveLabel(prog, jump, jump.falseLabel)
           q == StoreSkips(r.prog, jump, skipTrue, r.skip)
<1>1. phase = "false" /\ skipTrue \in 0 .. MaxSkip /\ err \in {"none", "panic", "backward", "useless"}
  BY DEF ResolveFalse, IInv, TypeOK
<1>2. /\ WellFormed(prog) /\ cur \in DOMAIN prog.jumps
      /\ jump.falseLabel \in DOMAIN prog.labels
  <2>1. cur \in 1 .. (Len(prog.jumps) + 1) /\ cur <= Len(prog.jumps)
    BY <1>1 DEF IInv, TypeOK
  <2>2. WellFormed(prog)
    BY DEF IInv
  <2>3. cur \in DOMAIN prog.jumps
    BY <2>1, <2>2, WellFormedFacts
  <2> QED BY <2>2, <2>3 DEF WellFormed
<1>3. ResultOK(r, prog, cur)
  BY <1>2, ResolveLabelOK
<1>4. CASE r.err # "none"
  <2>1. Fail(r.err)
    BY <1>4 DEF ResolveFalse
  <2> HIDE DEF r
  <2> QED BY <1>3, <2>1, FailIInv DEF ResultOK
<1>5. CASE r.err = "none" /\ skipTrue = 0 /\ r.skip = 0
  <2>1. /\ phase' = "failed" /\ err' = "useless" /\ prog' = prog
        /\ skipTrue' = skipTrue /\ cur' = cur
        /\ crossed' = (crossed \/ Crosses(r.prog, jump))
    BY <1>5 DEF ResolveFalse
  <2>2. crossed' \in BOOLEAN
    BY <2>1
  <2>3. prog \in ProgramType /\ cur \in 1 .. (Len(prog.jumps) + 1)
    BY DEF IInv, TypeOK
  <2>4. TypeOK'
    BY <1>1, <2>1, <2>2, <2>3 DEF TypeOK
  <2> QED BY <1>2, <2>1, <2>4 DEF IInv
<1>6. CASE r.err = "none" /\ ~(skipTrue = 0 /\ r.skip = 0)
  <2>1. /\ prog' = q /\ cur' = cur + 1 /\ skipTrue' = 0 /\ err' = err
        /\ phase' = (IF cur = Len(prog.jumps) THEN "done" ELSE "true")
        /\ crossed' = (crossed \/ Crosses(r.prog, jump))
    BY <1>6 DEF ResolveFalse
  <2>2. crossed' \in BOOLEAN
    BY <2>1
  <2>3. /\ WellFormed(r.prog) /\ cur \in DOMAIN r.prog.jumps /\ r.prog.jumps[cur] = jump
        /\ DOMAIN r.prog.jumps = DOMAIN prog.jumps /\ r.skip \in 0 .. MaxSkip
    <3> HIDE DEF r
    <3> QED BY <1>2, <1>3 DEF ResultOK, Keeps
  <2>4. WellFormed(q) /\ DOMAIN q.jumps = DOMAIN prog.jumps
    <3> DEFINE s == r.prog
               sf == r.skip
    <3>1. /\ WellFormed(s) /\ cur \in DOMAIN s.jumps /\ s.jumps[cur] = jump
          /\ DOMAIN s.jumps = DOMAIN prog.jumps /\ sf \in 0 .. MaxSkip
      BY <2>3
    <3> HIDE DEF s, sf, jump
    <3>2. Keeps(StoreSkips(s, s.jumps[cur], skipTrue, sf), s, cur)
      BY <1>1, <3>1, StoreSkipsKeeps
    <3>3. Keeps(StoreSkips(s, jump, skipTrue, sf), s, cur)
      BY <3>1, <3>2
    <3> QED BY <3>1, <3>3 DEF Keeps, s, sf
  <2> HIDE DEF q, r
  <2>5. /\ Len(prog.jumps) \in Nat /\ DOMAIN prog.jumps = 1 .. Len(prog.jumps)
        /\ Len(q.jumps) \in Nat /\ DOMAIN q.jumps = 1 .. Len(q.jumps)
    BY <1>2, <2>4, WellFormedFacts
  <2>6. Len(q.jumps) = Len(prog.jumps)
    BY <2>4, <2>5
  <2>7. /\ cur + 1 \in 1 .. (Len(q.jumps) + 1)
        /\ cur # Len(prog.jumps) => cur + 1 <= Len(q.jumps)
    BY <1>2, <2>5, <2>6
  <2>8. /\ phase' \in {"done", "true"}
        /\ phase' = "true" => cur + 1 <= Len(q.jumps)
    BY <2>1, <2>7
  <2>9. q \in ProgramType
    BY <2>4 DEF WellFormed
  <2>10. 0 \in 0 .. MaxSkip
    BY MaxSkipAssumption
  <2>11. TypeOK'
    BY <1>1, <2>1, <2>2, <2>7, <2>8, <2>9, <2>10 DEF TypeOK
  <2> QED BY <2>1, <2>4, <2>8, <2>11 DEF IInv
<1> QED BY <1>4, <1>5, <1>6

(* Every step keeps the inductive invariant.                               *)
LEMMA NextIInv == IInv /\ [Next]_vars => IInv'
<1> SUFFICES ASSUME IInv, [Next]_vars PROVE IInv'
  OBVIOUS
<1>1. WellFormed(prog) /\ CurrentIndex(prog) \in Nat /\ "eq" \in Conds
  BY WellFormedFacts DEF IInv, CurrentIndex, Conds
<1>2. Labels \subseteq DOMAIN prog.labels
  BY <1>1, WellFormedFacts DEF Labels
<1>3. CASE ClientNewLabel
  BY <1>1, <1>3, AddLabelGrows, BuildIInv DEF ClientNewLabel
<1>4. CASE \E l \in Labels : ClientSetLabel(l)
  BY <1>1, <1>2, <1>4, SetLabelGrows, BuildIInv DEF ClientSetLabel
<1>5. CASE \E t, f \in Labels : ClientJmpIf(t, f)
  BY <1>1, <1>2, <1>5, JmpIfGrows, BuildIInv DEF ClientJmpIf
<1>6. CASE \E t \in Labels : ClientJmpIfTrue(t)
  BY <1>1, <1>2, <1>6, JmpIfTrueGrows, BuildIInv DEF ClientJmpIfTrue
<1>7. CASE \E a \in Actions : ClientRet(a)
  BY <1>1, <1>7, RetGrows, BuildIInv DEF ClientRet
<1>8. CASE ClientLoad
  BY <1>1, <1>8, LdHiGrows, BuildIInv DEF ClientLoad
<1>9. CASE UNCHANGED vars
  BY <1>9 DEF vars, IInv, TypeOK
<1>10. CASE Returned
  BY <1>9, <1>10 DEF Returned
<1> QED BY <1>3, <1>4, <1>5, <1>6, <1>7, <1>8, <1>9, <1>10,
           AssembleIInv, ResolveTrueIInv, ResolveFalseIInv DEF Next

(* The inductive invariant holds in every reachable state.                 *)
LEMMA IInvAlways == Spec => []IInv
BY InitIInv, NextIInv, PTL DEF Spec

(* The index of every jump, through every insertAfter and updateIndices,   *)
(* is the index of a JumpIf instruction, and the indices are in strictly   *)
(* increasing order: the unchecked type assertions of Assemble and         *)
(* resolveLabel never panic and findInsertAfter finds the jump it means.   *)
THEOREM JumpsTracking == Spec => []JumpsTrack
<1>1. IInv => JumpsTrack
  BY DEF IInv, WellFormed, JumpsTrack
<1> QED BY <1>1, IInvAlways, PTL

-----------------------------------------------------------------------------
(* The inductive invariant.  The stand-ins of a label are where they are   *)
(* only while the labels are in order, and until Assemble is called no     *)
(* label has one; while the false label is resolved the true label's first *)
(* destination is where the skip that is not stored yet leads.             *)
LabelInv ==
  /\ phase = "building" => Fresh(prog)
  /\ phase # "building" => LabelsOK(prog, home) /\ JmpsGuarded(prog)
  /\ phase = "false" =>
       LET jump == prog.jumps[cur]
           dest == prog.labels[jump.trueLabel]
       IN  dest # <<>> /\ dest[1] = jump.index + 1 + skipTrue

AInv == IInv /\ LabelInv /\ LandsHome /\ WellUsedSucceeds

(* NewProgram is fresh.                                                    *)
LEMMA InitAInv == Init => AInv
<1> SUFFICES ASSUME Init PROVE AInv
  OBVIOUS
<1>1. IInv
  BY InitIInv
<1>2. /\ phase = "building" /\ cur = 1
      /\ prog = [instructions |-> <<>>, jumps |-> <<>>, labels |-> << <<>> >>]
  BY DEF Init, NewProgram
<1>3. Fresh(prog)
  <2>1. prog.instructions = <<>> /\ prog.labels = << <<>> >>
    BY <1>2
  <2>2. \A l \in DOMAIN << <<>> >> : Len(<< <<>> >>[l]) <= 1
    OBVIOUS
  <2>3. DOMAIN <<>> = {}
    OBVIOUS
  <2> QED BY <2>1, <2>2, <2>3 DEF Fresh
<1>4. LabelInv
  BY <1>2, <1>3 DEF LabelInv
<1>5. LandsHome /\ WellUsedSucceeds
  BY <1>2 DEF LandsHome, WellUsedSucceeds
<1> QED BY <1>1, <1>4, <1>5 DEF AInv

(* A method of the client keeps the invariant if it keeps a program fresh. *)
LEMMA BuildAInv ==
  ASSUME AInv, IInv', NEW p, Fresh(p), Build(p)
  PROVE  AInv'
<1>1. prog' = p /\ phase' = "building" /\ phase = "building" /\ cur' = cur
  BY DEF Build
<1>2. LabelInv'
  BY <1>1 DEF LabelInv
<1>3. cur' = 1
  BY <1>1 DEF IInv
<1>4. LandsHome' /\ WellUsedSucceeds'
  BY <1>1, <1>3 DEF LandsHome, WellUsedSucceeds
<1> QED BY <1>2, <1>4 DEF AInv

(* When Assemble is called every label has at most one destination, and    *)
(* that is its home.                                                       *)
LEMMA AssembleAInv ==
  ASSUME AInv, IInv', Assemble
  PROVE  AInv'
<1>1. /\ phase = "building" /\ prog' = prog /\ cur' = cur
      /\ phase' \in {"done", "true"}
      /\ home' = [l \in DOMAIN prog.labels |->
                    IF prog.labels[l] = <<>> THEN End
                    ELSE ContentAt(prog, prog.labels[l][1])]
  BY DEF Assemble
<1>2. WellFormed(prog) /\ Fresh(prog) /\ cur = 1
  BY <1>1 DEF AInv, IInv, LabelInv
<1>3. \A l \in DOMAIN prog.labels :
        prog.labels[l] # <<>> => home'[l] = ContentAt(prog, prog.labels[l][1])
  BY <1>1
<1>4. LabelsOK(prog, home') /\ JmpsGuarded(prog)
  BY <1>2, <1>3, FreshLabelsOK
<1>5. LabelInv'
  BY <1>1, <1>4 DEF LabelInv
<1>6. LandsHome' /\ WellUsedSucceeds'
  BY <1>1, <1>2 DEF LandsHome, WellUsedSucceeds
<1> QED BY <1>5, <1>6 DEF AInv

(* What a program that is used well has for its k-th jump.                 *)
LEMMA WellUsedFacts ==
  ASSUME WellUsed, NEW k \in DOMAIN prog.jumps
  PROVE  LET jump == prog.jumps[k]
             Home(l) == prog.labels[l][Len(prog.labels[l])]
         IN  /\ \A l \in {jump.trueLabel, jump.falseLabel} :
                  /\ prog.labels[l] # <<>>
                  /\ jump.index < Home(l)
                  /\ Home(l) < Len(prog.instructions)
             /\ Home(jump.trueLabel) # Home(jump.falseLabel)
BY DEF WellUsed, Last, CurrentIndex

(* An error return of Assemble: the program was not used well.             *)
LEMMA FailAInv ==
  ASSUME AInv, IInv', NEW e, Fail(e), phase \in {"true", "false"}, ~WellUsed
  PROVE  AInv'
<1>1. /\ prog' = prog /\ phase' = "failed" /\ cur' = cur /\ home' = home
      /\ crossed' = crossed
  BY DEF Fail
<1>2. LabelInv'
  BY <1>1 DEF AInv, LabelInv
<1>3. LandsHome'
  <2>1. LandsHome
    BY DEF AInv
  <2> QED BY <1>1, <2>1, Zenon DEF LandsHome, NoLongJump
<1>4. WellUsedSucceeds'
  BY <1>1 DEF WellUsedSucceeds, WellUsed
<1> QED BY <1>2, <1>3, <1>4 DEF AInv

(* The state in which a label of the current jump is resolved.             *)
LEMMA ResolvingFacts ==
  ASSUME AInv, phase \in {"true", "false"}
  PROVE  /\ WellFormed(prog) /\ cur \in DOMAIN prog.jumps /\ cur \in Nat
         /\ prog.jumps[cur].trueLabel \in DOMAIN prog.labels
         /\ prog.jumps[cur].falseLabel \in DOMAIN prog.labels
         /\ LabelsOK(prog, home) /\ JmpsGuarded(prog)
         /\ skipTrue \in Nat
<1>1. cur \in 1 .. (Len(prog.jumps) + 1) /\ cur <= Len(prog.jumps) /\ skipTrue \in 0 .. MaxSkip
  BY DEF AInv, IInv, TypeOK
<1>2. WellFormed(prog)
  BY DEF AInv, IInv
<1>3. cur \in DOMAIN prog.jumps /\ cur \in Nat
  BY <1>1, <1>2, WellFormedFacts
<1>4. LabelsOK(prog, home) /\ JmpsGuarded(prog)
  BY DEF AInv, LabelInv
<1>5. skipTrue \in Nat
  BY <1>1, MaxSkipAssumption
<1> QED BY <1>2, <1>3, <1>4, <1>5 DEF WellFormed

(* An insertion that crosses no span is behind where the span leads: every *)
(* span begins in front of the insertion.                                  *)
LEMMA UncrossedSpan ==
  ASSUME AInv, phase \in {"true", "false"}, NEW q, ~Crosses(q, prog.jumps[cur]),
         Len(q.instructions) > Len(prog.instructions),
         NEW j \in DOMAIN prog.jumps, j <= cur, NEW skip \in Nat,
         SpanOf(prog.jumps[j], skip) \in Spans
  PROVE  prog.jumps[j].index + 1 + skip <= FindInsertAfter(prog.jumps, prog.jumps[cur]).index
<1>1. /\ WellFormed(prog) /\ cur \in DOMAIN prog.jumps /\ cur \in Nat
  BY ResolvingFacts
<1>2. PICK m \in DOMAIN prog.jumps :
        m >= cur /\ FindInsertAfter(prog.jumps, prog.jumps[cur]) = prog.jumps[m]
  BY <1>1, FindInsertAfterProperties
<1> DEFINE x == prog.jumps[m].index
           i == prog.jumps[j].index
           s == SpanOf(prog.jumps[j], skip)
<1>3. x \in Nat /\ i \in Nat /\ m \in Nat /\ j \in Nat
  BY <1>1, WellFormedFacts
<1>4. i <= x
  <2>1. CASE j = m
    BY <1>3, <2>1
  <2>2. CASE j # m
    <3>1. j < m
      BY <1>1, <1>2, <1>3, <2>2
    <3>2. i < x
      BY <1>1, <3>1 DEF WellFormed, JumpsTracked
    <3> QED BY <1>3, <3>2
  <2> QED BY <2>1, <2>2
<1>5. s.from = i /\ s.to = i + 1 + skip
  BY DEF SpanOf
<1>6. ~(s.from < x + 1 /\ x + 1 <= s.to)
  BY <1>2 DEF Crosses
<1> HIDE DEF s, x, i
<1>7. i + 1 + skip <= x
  BY <1>3, <1>4, <1>5, <1>6
<1> QED BY <1>2, <1>7 DEF x, i

(* The jumps resolved before the current one still land home when one of   *)
(* its labels is resolved without crossing them.                           *)
LEMMA EarlierLandHome ==
  ASSUME AInv, phase \in {"true", "false"}, NEW label, NEW r, WellFormed(r.prog),
         Lands(r, prog, cur, label, home),
         ~crossed, ~Crosses(r.prog, prog.jumps[cur]), NoJmp(r.prog), NEW j \in 1 .. (cur - 1)
  PROVE  LET jump == r.prog.jumps[j]
             inst == InstAt(r.prog, jump.index)
         IN  /\ jump = prog.jumps[j] /\ inst = InstAt(prog, jump.index)
             /\ ContentAt(r.prog, jump.index + 1 + inst.st) = home[jump.trueLabel]
             /\ ContentAt(r.prog, jump.index + 1 + inst.sf) = home[jump.falseLabel]
<1>1. /\ WellFormed(prog) /\ cur \in DOMAIN prog.jumps /\ cur \in Nat
  BY ResolvingFacts
<1>2. NoLongJump
  BY <1>1, LandsNoJmp DEF NoLongJump, NoJmp
<1>3. j \in DOMAIN prog.jumps /\ j <= cur /\ j < cur
  BY <1>1, WellFormedFacts
<1> DEFINE jump == prog.jumps[j]
           i == jump.index
           inst == InstAt(prog, i)
<1>4. r.prog.jumps[j] = jump /\ InstAt(r.prog, i) = inst
  BY <1>1, <1>3, LandsJumps
<1>5. i \in Nat /\ i < Len(prog.instructions) /\ inst.op = "jif"
  BY <1>1, <1>3, WellFormedFacts DEF WellFormed, JumpsTracked, IsJumpIf
<1>6. inst.st \in Nat /\ inst.sf \in Nat
  <2>1. inst \in Instruction
    BY <1>1, <1>5, InstAtFacts
  <2> HIDE DEF inst
  <2> QED BY <1>5, <2>1, MaxSkipAssumption DEF Instruction
<1>7. SpanOf(jump, inst.st) \in Spans /\ SpanOf(jump, inst.sf) \in Spans
  BY DEF Spans
<1>8. /\ ContentAt(prog, i + 1 + inst.st) = home[jump.trueLabel]
      /\ ContentAt(prog, i + 1 + inst.sf) = home[jump.falseLabel]
  BY <1>2 DEF AInv, LandsHome
<1>9. \A skip \in Nat : SpanOf(jump, skip) \in Spans =>
        ContentAt(r.prog, i + 1 + skip) = ContentAt(prog, i + 1 + skip)
  <2> SUFFICES ASSUME NEW skip \in Nat, SpanOf(jump, skip) \in Spans
               PROVE  ContentAt(r.prog, i + 1 + skip) = ContentAt(prog, i + 1 + skip)
    OBVIOUS
  <2>1. Len(r.prog.instructions) > Len(prog.instructions) =>
          i + 1 + skip <= FindInsertAfter(prog.jumps, prog.jumps[cur]).index
    BY <1>3, UncrossedSpan
  <2> DEFINE to == i + 1 + skip
  <2>2. to \in Nat
    BY <1>5
  <2> HIDE DEF to
  <2>3. ContentAt(r.prog, to) = ContentAt(prog, to)
    BY <1>1, <2>1, <2>2, LandsContent DEF to
  <2> QED BY <2>3 DEF to
<1> QED BY <1>4, <1>6, <1>7, <1>8, <1>9

(* Resolving the true label of the current jump keeps the invariant.       *)
LEMMA ResolveTrueAInv ==
  ASSUME AInv, IInv', ResolveTrue
  PROVE  AInv'
<1> DEFINE jump == prog.jumps[cur]
           label == jump.trueLabel
           r == ResolveLabel(prog, jump, label)
<1>1. phase = "true"
  BY DEF ResolveTrue
<1>2. /\ WellFormed(prog) /\ cur \in DOMAIN prog.jumps /\ cur \in Nat
      /\ label \in DOMAIN prog.labels
      /\ LabelsOK(prog, home) /\ JmpsGuarded(prog)
  BY <1>1, ResolvingFacts
<1>3. CASE r.err # "none"
  <2>1. Fail(r.err)
    BY <1>3 DEF ResolveTrue
  <2>2. ~WellUsed
    <3> SUFFICES ASSUME WellUsed PROVE FALSE
      OBVIOUS
    <3>1. /\ prog.labels[label] # <<>>
          /\ prog.jumps[cur].index < prog.labels[label][Len(prog.labels[label])]
          /\ prog.labels[label][Len(prog.labels[label])] < Len(prog.instructions)
      BY <1>2, WellUsedFacts
    <3>2. r.err = "none"
      <4> HIDE DEF label
      <4> QED BY <1>2, <3>1, ResolveLabelSucceeds
    <3> QED BY <1>3, <3>2
  <2> HIDE DEF r
  <2> QED BY <1>1, <2>1, <2>2, FailAInv
<1>4. CASE r.err = "none"
  <2>1. /\ phase' = "false" /\ prog' = r.prog /\ skipTrue' = r.skip
        /\ crossed' = (crossed \/ Crosses(r.prog, jump))
        /\ cur' = cur /\ home' = home
    BY <1>4 DEF ResolveTrue
  <2>2. Lands(r, prog, cur, label, home)
    <3> HIDE DEF label
    <3> QED BY <1>2, <1>4, ResolveLabelLands
  <2>3. WellFormed(r.prog)
    BY <2>1 DEF IInv
  <2> HIDE DEF r
  <2>4. r.prog.jumps[cur] = jump
    BY <1>2, <2>2, LandsJumps
  <2>5. /\ LabelsOK(r.prog, home) /\ JmpsGuarded(r.prog)
        /\ r.prog.labels[label] # <<>>
        /\ r.prog.labels[label][1] = jump.index + 1 + r.skip
    BY <2>2 DEF Lands
  <2>6. LabelInv'
    BY <2>1, <2>4, <2>5 DEF LabelInv
  <2>7. LandsHome'
    <3> SUFFICES ASSUME ~crossed', NoLongJump', NEW j \in 1 .. (cur' - 1)
                 PROVE  LET jmp == prog'.jumps[j]
                            inst == InstAt(prog', jmp.index)
                        IN  /\ ContentAt(prog', jmp.index + 1 + inst.st) = home'[jmp.trueLabel]
                            /\ ContentAt(prog', jmp.index + 1 + inst.sf) = home'[jmp.falseLabel]
      BY DEF LandsHome
    <3>1. ~crossed /\ ~Crosses(r.prog, prog.jumps[cur]) /\ NoJmp(r.prog) /\ j \in 1 .. (cur - 1)
      BY <2>1 DEF NoLongJump, NoJmp
    <3> HIDE DEF jump, label
    <3>2. LET jmp == r.prog.jumps[j]
              inst == InstAt(r.prog, jmp.index)
          IN  /\ ContentAt(r.prog, jmp.index + 1 + inst.st) = home[jmp.trueLabel]
              /\ ContentAt(r.prog, jmp.index + 1 + inst.sf) = home[jmp.falseLabel]
      BY <1>1, <2>2, <2>3, <3>1, EarlierLandHome
    <3> QED BY <2>1, <3>2
  <2>8. WellUsedSucceeds'
    BY <2>1 DEF WellUsedSucceeds
  <2> QED BY <2>6, <2>7, <2>8 DEF AInv
<1> QED BY <1>3, <1>4

(* Two lists of destinations that share no stand-in and begin, the one,    *)
(* where the other passes, have the same last destination.                 *)
LEMMA SharedDestination ==
  ASSUME NEW t \in Seq(Nat), NEW f \in Seq(Nat), t # <<>>,
         \A a \in 1 .. (Len(t) - 1), b \in DOMAIN f : t[a] # f[b],
         \A a \in 1 .. (Len(f) - 1), b \in DOMAIN t : f[a] # t[b],
         NEW i \in 1 .. Len(f), t[1] = f[i]
  PROVE  t[Len(t)] = f[Len(f)]
<1>1. /\ Len(t) \in Nat /\ Len(t) # 0 /\ Len(f) \in Nat
      /\ DOMAIN t = 1 .. Len(t) /\ DOMAIN f = 1 .. Len(f)
  OBVIOUS
<1>2. \A n \in Nat : n # 0 => 1 \in 1 .. n /\ (n = 1 \/ 1 \in 1 .. (n - 1))
  OBVIOUS
<1>3. \A n \in Nat : \A a \in 1 .. n : a = n \/ a \in 1 .. (n - 1)
  OBVIOUS
<1>4. Len(t) = 1
  BY <1>1, <1>2
<1>5. i = Len(f)
  BY <1>1, <1>2, <1>3
<1> QED BY <1>4, <1>5

(* Two labels share no first destination behind a jump but their homes,    *)
(* so a jump with two destinations is not useless while no insertion       *)
(* crosses it.                                                             *)
LEMMA NotUseless ==
  ASSUME AInv, phase = "false", WellUsed, skipTrue = 0, NEW r, r.skip = 0,
         Lands(r, prog, cur, prog.jumps[cur].falseLabel, home)
  PROVE  Crosses(r.prog, prog.jumps[cur])
<1> DEFINE jump == prog.jumps[cur]
           index == jump.index
           t == prog.labels[jump.trueLabel]
           f == prog.labels[jump.falseLabel]
<1>1. /\ WellFormed(prog) /\ cur \in DOMAIN prog.jumps /\ cur \in Nat
      /\ jump.trueLabel \in DOMAIN prog.labels /\ jump.falseLabel \in DOMAIN prog.labels
      /\ LabelsOK(prog, home)
  BY ResolvingFacts
<1>2. /\ t \in Seq(Nat) /\ f \in Seq(Nat) /\ index \in Nat /\ Len(prog.instructions) \in Nat
  BY <1>1, WellFormedFacts
<1>3. t # <<>> /\ t[1] = index + 1
  BY <1>2 DEF AInv, LabelInv
<1>4. t[Len(t)] # f[Len(f)]
  BY <1>1, WellUsedFacts
<1>5. CASE /\ r.prog.instructions = prog.instructions
           /\ \E i \in 1 .. Len(f) : r.prog.labels[jump.falseLabel][1] = f[i]
  <2>1. PICK i \in 1 .. Len(f) : r.prog.labels[jump.falseLabel][1] = f[i]
    BY <1>5
  <2>2. f[i] = index + 1 /\ i \in 1 .. Len(f)
    BY <1>2, <2>1 DEF Lands
  <2>3. jump.trueLabel # jump.falseLabel
    BY <1>4
  <2>4. /\ \A a \in 1 .. (Len(t) - 1), b \in DOMAIN f : t[a] # f[b]
        /\ \A a \in 1 .. (Len(f) - 1), b \in DOMAIN t : f[a] # t[b]
    BY <1>1, <2>3 DEF LabelsOK, OwnStandIns
  <2> HIDE DEF t, f, index
  <2>5. t[1] = f[i]
    BY <1>3, <2>2
  <2>6. t[Len(t)] = f[Len(f)]
    BY <1>2, <1>3, <2>2, <2>4, <2>5, SharedDestination
  <2> QED BY <1>4, <2>6
<1>6. CASE \E x, inst : /\ Inserts(r.prog, prog, cur, x, inst, home[jump.falseLabel])
                        /\ r.skip = x - index
  <2>1. PICK x, inst : /\ Inserts(r.prog, prog, cur, x, inst, home[jump.falseLabel])
                       /\ r.skip = x - index
    BY <1>6
  <2>2. /\ x \in Nat /\ x = FindInsertAfter(prog.jumps, jump).index
        /\ Spliced(r.prog, prog, x, inst)
    BY <2>1 DEF Inserts
  <2>3. x = index
    BY <1>2, <2>1, <2>2
  <2>4. Len(r.prog.instructions) > Len(prog.instructions)
    BY <1>2, <2>2 DEF Spliced
  <2> DEFINE s == SpanOf(jump, skipTrue)
  <2>5. s \in Spans
    BY DEF Spans
  <2>6. s.from = index /\ s.to = index + 1
    BY <1>2 DEF SpanOf
  <2> HIDE DEF s, index
  <2>7. s.from < x + 1 /\ x + 1 <= s.to
    BY <1>2, <2>3, <2>6
  <2> QED BY <2>2, <2>4, <2>5, <2>7 DEF Crosses
<1> QED BY <1>5, <1>6 DEF Lands

(* Resolving the false label and storing both skips keeps the invariant.   *)
LEMMA ResolveFalseAInv ==
  ASSUME AInv, IInv', ResolveFalse
  PROVE  AInv'
<1> DEFINE jump == prog.jumps[cur]
           label == jump.falseLabel
           r == ResolveLabel(prog, jump, label)
<1>1. phase = "false"
  BY DEF ResolveFalse
<1>2. /\ WellFormed(prog) /\ cur \in DOMAIN prog.jumps /\ cur \in Nat
      /\ label \in DOMAIN prog.labels /\ jump.trueLabel \in DOMAIN prog.labels
      /\ LabelsOK(prog, home) /\ JmpsGuarded(prog) /\ skipTrue \in Nat
      /\ skipTrue \in 0 .. MaxSkip
  BY <1>1, ResolvingFacts DEF AInv, IInv, TypeOK
<1>3. CASE r.err # "none"
  <2>1. Fail(r.err)
    BY <1>3 DEF ResolveFalse
  <2>2. ~WellUsed
    <3> SUFFICES ASSUME WellUsed PROVE FALSE
      OBVIOUS
    <3>1. /\ prog.labels[label] # <<>>
          /\ prog.jumps[cur].index < prog.labels[label][Len(prog.labels[label])]
          /\ prog.labels[label][Len(prog.labels[label])] < Len(prog.instructions)
      BY <1>2, WellUsedFacts
    <3>2. r.err = "none"
      <4> HIDE DEF label
      <4> QED BY <1>2, <3>1, ResolveLabelSucceeds
    <3> QED BY <1>3, <3>2
  <2> HIDE DEF r
  <2> QED BY <1>1, <2>1, <2>2, FailAInv
<1>4. CASE r.err = "none" /\ skipTrue = 0 /\ r.skip = 0
  <2>1. /\ phase' = "failed" /\ prog' = prog /\ cur' = cur /\ home' = home
        /\ crossed' = (crossed \/ Crosses(r.prog, jump))
    BY <1>4 DEF ResolveFalse
  <2>2. Lands(r, prog, cur, label, home)
    <3> HIDE DEF label
    <3> QED BY <1>2, <1>4, ResolveLabelLands
  <2> HIDE DEF r
  <2>3. LabelInv'
    BY <1>2, <2>1 DEF LabelInv
  <2>4. LandsHome'
    BY <2>1 DEF AInv, LandsHome, NoLongJump
  <2>5. WellUsed => crossed'
    BY <1>1, <1>4, <2>1, <2>2, NotUseless
  <2>6. WellUsedSucceeds'
    BY <2>1, <2>5 DEF WellUsedSucceeds, WellUsed
  <2> QED BY <2>3, <2>4, <2>6 DEF AInv
<1>5. CASE r.err = "none" /\ ~(skipTrue = 0 /\ r.skip = 0)
  <2> DEFINE s == r.prog
             q == StoreSkips(s, jump, skipTrue, r.skip)
  <2>1. /\ prog' = q /\ cur' = cur + 1 /\ home' = home
        /\ phase' \in {"done", "true"}
        /\ crossed' = (crossed \/ Crosses(s, jump))
    BY <1>5 DEF ResolveFalse
  <2>2. Lands(r, prog, cur, label, home)
    <3> HIDE DEF label
    <3> QED BY <1>2, <1>5, ResolveLabelLands
  <2>3. WellFormed(s) /\ DOMAIN s.jumps = DOMAIN prog.jumps /\ r.skip \in 0 .. MaxSkip
    <3> HIDE DEF label
    <3>1. ResultOK(r, prog, cur)
      BY <1>2, ResolveLabelOK
    <3> HIDE DEF r
    <3> QED BY <3>1 DEF ResultOK, Keeps
  <2>4. s.jumps[cur] = jump
    <3>1. cur <= cur
      BY <1>2
    <3> HIDE DEF label, r
    <3> QED BY <1>2, <2>2, <3>1, LandsJumps
  <2>5. /\ LabelsOK(s, home) /\ JmpsGuarded(s)
        /\ s.labels[label] # <<>>
        /\ s.labels[label][1] = jump.index + 1 + r.skip
    <3> HIDE DEF r
    <3> QED BY <2>2 DEF Lands
  <2>6. /\ SameContent(q, s)
        /\ InstAt(q, jump.index).st = skipTrue /\ InstAt(q, jump.index).sf = r.skip
        /\ \A i \in 0 .. (Len(s.instructions) - 1) :
             i # jump.index => InstAt(q, i) = InstAt(s, i)
    <3> DEFINE sf == r.skip
    <3>1. WellFormed(s) /\ cur \in DOMAIN s.jumps /\ s.jumps[cur] = jump /\ sf \in 0 .. MaxSkip
      BY <1>2, <2>3, <2>4
    <3> HIDE DEF s, sf, jump
    <3>2. /\ SameContent(StoreSkips(s, s.jumps[cur], skipTrue, sf), s)
          /\ InstAt(StoreSkips(s, s.jumps[cur], skipTrue, sf), s.jumps[cur].index).st = skipTrue
          /\ InstAt(StoreSkips(s, s.jumps[cur], skipTrue, sf), s.jumps[cur].index).sf = sf
          /\ \A i \in 0 .. (Len(s.instructions) - 1) :
               i # s.jumps[cur].index =>
                 InstAt(StoreSkips(s, s.jumps[cur], skipTrue, sf), i) = InstAt(s, i)
      BY <1>2, <3>1, StoreSkipsFacts
    <3> QED BY <3>1, <3>2 DEF s, sf
  <2> HIDE DEF q
  <2>7. LabelsOK(q, home) /\ JmpsGuarded(q)
    <3> HIDE DEF s
    <3> QED BY <2>3, <2>5, <2>6, SameContentLabels
  <2>8. LabelInv'
    BY <2>1, <2>7 DEF LabelInv
  <2>9. LandsHome'
    <3> SUFFICES ASSUME ~crossed', NoLongJump', NEW j \in 1 .. (cur' - 1)
                 PROVE  LET jmp == prog'.jumps[j]
                            inst == InstAt(prog', jmp.index)
                        IN  /\ ContentAt(prog', jmp.index + 1 + inst.st) = home'[jmp.trueLabel]
                            /\ ContentAt(prog', jmp.index + 1 + inst.sf) = home'[jmp.falseLabel]
      BY DEF LandsHome
    <3>1. ~crossed /\ ~Crosses(s, jump) /\ NoJmp(q) /\ j \in 1 .. cur
      <4>1. j \in 1 .. cur
        BY <1>2, <2>1
      <4>2. ~crossed /\ ~Crosses(s, jump)
        BY <2>1
      <4>3. NoJmp(q)
        BY <2>1 DEF NoLongJump, NoJmp
      <4> QED BY <4>1, <4>2, <4>3
    <3>2. /\ q.jumps = s.jumps /\ q.labels = s.labels
          /\ Len(q.instructions) = Len(s.instructions)
          /\ \A i \in Nat : ContentAt(q, i) = ContentAt(s, i)
          /\ \A i \in 0 .. (Len(s.instructions) - 1) : InstAt(q, i).op = InstAt(s, i).op
      BY <2>6 DEF SameContent
    <3>3. NoJmp(s)
      <4>1. /\ Len(s.instructions) \in Nat /\ DOMAIN s.instructions = 1 .. Len(s.instructions)
        BY <2>3, WellFormedFacts
      <4>2. DOMAIN q.instructions = 1 .. Len(q.instructions)
        BY <2>1, WellFormedFacts DEF IInv
      <4> HIDE DEF s
      <4> SUFFICES ASSUME NEW i \in 1 .. Len(s.instructions)
                   PROVE  s.instructions[i].op # "jmp"
        BY <4>1 DEF NoJmp
      <4>3. i - 1 \in 0 .. (Len(s.instructions) - 1) /\ (i - 1) + 1 = i
        BY <4>1
      <4>4. q.instructions[i].op = s.instructions[i].op
        BY <3>2, <4>3 DEF InstAt
      <4> QED BY <3>1, <3>2, <4>1, <4>2, <4>4 DEF NoJmp
    <3>4. CASE j = cur
      <4>1. jump.index \in Nat
        BY <1>2, WellFormedFacts
      <4>2. ContentAt(s, jump.index + 1 + r.skip) = home[label]
        <5>1. label \in DOMAIN s.labels
          <6>1. ResultOK(r, prog, cur)
            BY <1>2, ResolveLabelOK
          <6> HIDE DEF r, label
          <6> QED BY <1>2, <6>1 DEF ResultOK, Keeps
        <5> HIDE DEF r, label, s
        <5>2. ContentAt(s, s.labels[label][1]) = home[label]
          BY <2>3, <2>5, <3>3, <5>1, FirstIsHome
        <5> QED BY <2>5, <5>2
      <4>3. ContentAt(s, jump.index + 1 + skipTrue) = home[jump.trueLabel]
        <5> HIDE DEF label, r
        <5>1. NoJmp(prog)
          BY <1>2, <2>2, <2>3, <3>3, LandsNoJmp
        <5> DEFINE t == jump.trueLabel
                   to == jump.index + 1 + skipTrue
        <5>2. prog.labels[t] # <<>> /\ prog.labels[t][1] = to /\ t \in DOMAIN prog.labels
          BY <1>1, <1>2 DEF AInv, LabelInv
        <5>3. to \in Nat
          BY <1>2, <4>1
        <5>4. ContentAt(prog, to) = home[t]
          <6> HIDE DEF t, to
          <6> QED BY <1>2, <5>1, <5>2, FirstIsHome
        <5>5. Len(s.instructions) > Len(prog.instructions) =>
                to <= FindInsertAfter(prog.jumps, jump).index
          <6>1. SpanOf(prog.jumps[cur], skipTrue) \in Spans
            BY <1>1 DEF Spans
          <6>2. cur <= cur
            BY <1>2
          <6> QED BY <1>1, <1>2, <3>1, <6>1, <6>2, UncrossedSpan
        <5> HIDE DEF to
        <5>6. ContentAt(s, to) = ContentAt(prog, to)
          BY <1>2, <2>2, <5>3, <5>5, LandsContent
        <5> QED BY <5>4, <5>6 DEF to
      <4>4. jump.index + 1 + skipTrue \in Nat /\ jump.index + 1 + r.skip \in Nat
        <5> HIDE DEF r, jump
        <5> QED BY <1>2, <2>3, <4>1, MaxSkipAssumption
      <4> HIDE DEF s, r
      <4> QED BY <2>1, <2>4, <2>6, <3>2, <3>4, <4>2, <4>3, <4>4
    <3>5. CASE j # cur
      <4>1. j \in 1 .. (cur - 1)
        BY <1>2, <3>1, <3>5
      <4> HIDE DEF label, r
      <4> DEFINE jmp == s.jumps[j]
                 i == jmp.index
                 inst == InstAt(s, i)
      <4>2. /\ jmp = prog.jumps[j]
            /\ ContentAt(s, i + 1 + inst.st) = home[jmp.trueLabel]
            /\ ContentAt(s, i + 1 + inst.sf) = home[jmp.falseLabel]
        BY <1>1, <2>2, <2>3, <3>1, <3>3, <4>1, EarlierLandHome
      <4>3. j \in DOMAIN s.jumps /\ cur \in DOMAIN s.jumps /\ j < cur
        <5>1. Len(s.jumps) \in Nat /\ DOMAIN s.jumps = 1 .. Len(s.jumps)
          BY <2>3, WellFormedFacts
        <5>2. cur \in 1 .. Len(s.jumps)
          BY <1>2, <2>3, <5>1
        <5> QED BY <1>2, <4>1, <5>1, <5>2
      <4>4. /\ i \in Nat /\ i < Len(s.instructions) /\ Len(s.instructions) \in Nat
            /\ inst.op = "jif" /\ i < jump.index /\ jump.index \in Nat
        BY <2>3, <2>4, <4>3, WellFormedFacts DEF WellFormed, JumpsTracked, IsJumpIf
      <4>5. inst \in Instruction
        BY <2>3, <4>4, InstAtFacts
      <4> HIDE DEF inst, s, jump
      <4>6. inst.st \in Nat /\ inst.sf \in Nat
        BY <4>4, <4>5, MaxSkipAssumption DEF Instruction
      <4>7. InstAt(q, i) = inst
        BY <2>6, <4>4 DEF inst
      <4>8. i + 1 + inst.st \in Nat /\ i + 1 + inst.sf \in Nat
        <5>1. \A a, b \in Nat : a + 1 + b \in Nat
          OBVIOUS
        <5> QED BY <4>4, <4>6, <5>1
      <4> QED BY <2>1, <3>2, <4>2, <4>7, <4>8
    <3> QED BY <3>4, <3>5
  <2>10. WellUsedSucceeds'
    BY <2>1 DEF WellUsedSucceeds
  <2> QED BY <2>8, <2>9, <2>10 DEF AInv
<1> QED BY <1>3, <1>4, <1>5

(* Every step keeps the inductive invariant.                               *)
LEMMA NextAInv == AInv /\ [Next]_vars => AInv'
<1> SUFFICES ASSUME AInv, [Next]_vars PROVE AInv'
  OBVIOUS
<1>1. IInv /\ IInv'
  BY NextIInv DEF AInv
<1>2. WellFormed(prog) /\ CurrentIndex(prog) \in Nat /\ "eq" \in Conds
  BY <1>1, WellFormedFacts DEF IInv, CurrentIndex, Conds
<1>3. Labels \subseteq DOMAIN prog.labels
  BY <1>2, WellFormedFacts DEF Labels
<1>4. ASSUME NEW p, Build(p), Fresh(prog) => Fresh(p)
      PROVE  AInv'
  <2>1. Fresh(prog)
    BY <1>4 DEF AInv, LabelInv, Build
  <2> QED BY <1>1, <1>4, <2>1, BuildAInv
<1>5. CASE ClientNewLabel
  BY <1>2, <1>4, <1>5, AddLabelFresh DEF ClientNewLabel
<1>6. CASE \E l \in Labels : ClientSetLabel(l)
  BY <1>2, <1>3, <1>4, <1>6, SetLabelFresh DEF ClientSetLabel
<1>7. CASE \E t, f \in Labels : ClientJmpIf(t, f)
  BY <1>2, <1>4, <1>7, JmpIfFresh DEF ClientJmpIf
<1>8. CASE \E t \in Labels : ClientJmpIfTrue(t)
  BY <1>2, <1>3, <1>4, <1>8, JmpIfTrueFresh DEF ClientJmpIfTrue
<1>9. CASE \E a \in Actions : ClientRet(a)
  <2>1. PICK a \in Actions : ClientRet(a)
    BY <1>9
  <2>2. RetConstant(RetValue(a)) \in Instruction /\ RetConstant(RetValue(a)).op # "jmp"
    BY DEF RetConstant, Instruction
  <2>3. Fresh(prog) => Fresh(Ret(prog, a))
    BY <1>2, <2>2, EmitFresh DEF Ret
  <2> QED BY <1>4, <2>1, <2>3 DEF ClientRet
<1>10. CASE ClientLoad
  <2> DEFINE off == argumentOffset + sizeOfUint64 * CurrentIndex(prog) + sizeOfUint32
  <2>1. off \in Nat /\ LdHi(prog, CurrentIndex(prog), TRUE) = Emit(prog, LoadAbsolute(off))
    BY <1>2 DEF argumentOffset, sizeOfUint64, sizeOfUint32, LdHi
  <2> HIDE DEF off
  <2>2. LoadAbsolute(off) \in Instruction /\ LoadAbsolute(off).op # "jmp"
    BY <2>1 DEF LoadAbsolute, Instruction
  <2>3. Fresh(prog) => Fresh(LdHi(prog, CurrentIndex(prog), TRUE))
    BY <1>2, <2>1, <2>2, EmitFresh
  <2> QED BY <1>4, <1>10, <2>3 DEF ClientLoad
<1>11. CASE UNCHANGED vars
  BY <1>1, <1>11 DEF vars, AInv, LabelInv, LandsHome, NoLongJump, WellUsedSucceeds, WellUsed
<1>12. CASE Returned
  BY <1>11, <1>12 DEF Returned
<1> QED BY <1>1, <1>5, <1>6, <1>7, <1>8, <1>9, <1>10, <1>11, <1>12,
           AssembleAInv, ResolveTrueAInv, ResolveFalseAInv DEF Next

(* The inductive invariant holds in every reachable state.                 *)
LEMMA AInvAlways == Spec => []AInv
BY InitAInv, NextAInv, PTL DEF Spec

(* The conversion to uint8 at the end of resolveLabel never changes a      *)
(* skip, whatever was inserted and dropped before: a destination that is   *)
(* too far away always gets a stand-in that a short jump reaches.          *)
THEOREM SkipsFitting == Spec => []SkipsFit
<1>1. AInv => SkipsFit
  <2> SUFFICES ASSUME AInv, phase \in {"true", "false"}, NEW label,
                      label = IF phase = "true" THEN prog.jumps[cur].trueLabel
                              ELSE prog.jumps[cur].falseLabel,
                      NEW r, r = ResolveLabel(prog, prog.jumps[cur], label),
                      r.err = "none"
               PROVE  ComputeSkipN(r.prog, prog.jumps[cur], label) \in 0 .. MaxSkip
    BY DEF SkipsFit
  <2>1. /\ WellFormed(prog) /\ cur \in DOMAIN prog.jumps /\ label \in DOMAIN prog.labels
        /\ LabelsOK(prog, home) /\ JmpsGuarded(prog)
    BY ResolvingFacts
  <2>2. r.skip \in 0 .. MaxSkip
    BY <2>1, ResolveLabelOK DEF ResultOK
  <2>3. r.prog.labels[label][1] = prog.jumps[cur].index + 1 + r.skip
    BY <2>1, ResolveLabelLands DEF Lands
  <2>4. prog.jumps[cur].index \in Nat
    BY <2>1, WellFormedFacts
  <2> QED BY <2>2, <2>3, <2>4, MaxSkipAssumption DEF ComputeSkipN
<1> QED BY <1>1, AInvAlways, PTL

(* Through every insertAfter and updateIndices the destinations of a label *)
(* stay in order, the last one is the instruction the label was set in     *)
(* front of, and those resolveLabel put before it are copies of that       *)
(* return or long jumps.                                                   *)
THEOREM LabelsTracking == Spec => []LabelsTrack
<1>1. AInv => LabelsTrack
  <2> SUFFICES ASSUME AInv, phase # "building", NEW l \in DOMAIN prog.labels
               PROVE  LET dest == prog.labels[l]
                      IN  /\ \A i, j \in DOMAIN dest : i < j => dest[i] < dest[j]
                          /\ dest # <<>> => ContentAt(prog, Last(dest)) = home[l]
                          /\ \A i \in 1 .. (Len(dest) - 1) :
                               IF home[l].op = "ret" THEN ContentAt(prog, dest[i]) = home[l]
                               ELSE ContentAt(prog, dest[i]).op = "jmp"
    BY DEF LabelsTrack
  <2> DEFINE dest == prog.labels[l]
             h == home[l]
  <2>1. WellFormed(prog) /\ DestOK(prog, dest, h)
    BY DEF AInv, IInv, LabelInv, LabelsOK
  <2> HIDE DEF dest, h
  <2>2. \A i \in 1 .. (Len(dest) - 1) :
          IF h.op = "ret" THEN ContentAt(prog, dest[i]) = h
          ELSE ContentAt(prog, dest[i]).op = "jmp"
    <3> TAKE i \in 1 .. (Len(dest) - 1)
    <3>1. StandIn(prog, h, dest[i])
      BY <2>1 DEF DestOK
    <3>2. dest[i] \in 1 .. (Len(prog.instructions) - 1) /\ Len(prog.instructions) \in Nat
      BY <2>1, <3>1, WellFormedFacts DEF StandIn
    <3>3. dest[i] \in Nat /\ dest[i] < Len(prog.instructions)
      BY <3>2
    <3>4. ContentAt(prog, dest[i]).op = InstAt(prog, dest[i]).op
      BY <2>1, <3>3, InstAtFacts
    <3> QED BY <3>1, <3>4 DEF StandIn
  <2> QED BY <2>1, <2>2 DEF DestOK, Last, dest, h
<1> QED BY <1>1, AInvAlways, PTL

(* The code in front of an instruction that insertAfter put in is a jump   *)
(* or a return, in every program and after every insertion: no load falls  *)
(* into it.                                                                *)
THEOREM InsertionsGuarding == Spec => []InsertionsGuarded
<1>1. AInv => InsertionsGuarded
  <2> SUFFICES ASSUME AInv PROVE InsertionsGuarded
    OBVIOUS
  <2>1. WellFormed(prog)
    BY DEF AInv, IInv
  <2>2. CASE phase = "building"
    <3>1. Fresh(prog)
      BY <2>2 DEF AInv, LabelInv
    <3>2. \A i \in 0 .. (Len(prog.instructions) - 1) : InstAt(prog, i).op # "jmp"
      <4> TAKE i \in 0 .. (Len(prog.instructions) - 1)
      <4>1. Len(prog.instructions) \in Nat /\ DOMAIN prog.instructions = 1 .. Len(prog.instructions)
        BY <2>1, WellFormedFacts
      <4>2. i + 1 \in DOMAIN prog.instructions
        BY <4>1
      <4> QED BY <3>1, <4>2 DEF Fresh, InstAt
    <3>3. \A l \in DOMAIN prog.labels : 1 .. (Len(prog.labels[l]) - 1) = {}
      <4> TAKE l \in DOMAIN prog.labels
      <4> DEFINE n == Len(prog.labels[l])
      <4>1. n \in Nat /\ n <= 1
        BY <2>1, <3>1, WellFormedFacts DEF Fresh
      <4> HIDE DEF n
      <4>2. 1 .. (n - 1) = {}
        BY <4>1
      <4> QED BY <4>2 DEF n
    <3> QED BY <3>2, <3>3 DEF InsertionsGuarded
  <2>3. CASE phase # "building"
    <3>1. LabelsOK(prog, home) /\ JmpsGuarded(prog)
      BY <2>3 DEF AInv, LabelInv
    <3> QED BY <3>1 DEF InsertionsGuarded, JmpsGuarded, LabelsOK, DestOK, StandIn
  <2> QED BY <2>2, <2>3
<1> QED BY <1>1, AInvAlways, PTL

(* Assemble resolves every jump to the instruction its label stands for,   *)
(* or to a copy of that return, in every program whose insertions cross no *)
(* resolved jump and which needs no long jump.                             *)
THEOREM LandingHome == Spec => []LandsHome
<1>1. AInv => LandsHome
  BY DEF AInv
<1> QED BY <1>1, AInvAlways, PTL

(* Assemble returns no error and does not panic for a client that sets its *)
(* labels behind their jumps, in front of an instruction, and gives a jump *)
(* two destinations that differ, while no insertion crosses a resolved     *)
(* jump.                                                                   *)
THEOREM WellUsedSucceeding == Spec => []WellUsedSucceeds
<1>1. AInv => WellUsedSucceeds
  BY DEF AInv
<1> QED BY <1>1, AInvAlways, PTL
=============================================================================
