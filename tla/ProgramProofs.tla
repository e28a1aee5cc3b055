--------------------------- MODULE ProgramProofs ---------------------------
(***************************************************************************)
(* Lemmas about the operators of module Program, for programs of every     *)
(* size and every length of a short jump: what the methods of a client and *)
(* each part of Assemble do to the instructions, the jumps and the labels  *)
(* of a program.  The proofs about Assembler and Policy rest on them.      *)
(***************************************************************************)
EXTENDS Program, SequenceTheorems, WellFoundedInduction, TLAPS

(* The minimum of a nonempty set of naturals exists: FindInsertAfter and   *)
(* FirstForward choose positions with it.                                  *)
LEMMA MinProperties ==
  ASSUME NEW T, T \subseteq Nat, T # {}
  PROVE  /\ Min(T) \in T
         /\ \A y \in T : Min(T) <= y
<1>1. PICK x \in T : \A y \in T : ~ (<<y, x>> \in OpToRel(<, Nat))
  BY WFMin, NatLessThanWellFounded
<1>2. \A y \in T : x <= y
  <2> TAKE y \in T
  <2>1. x \in Nat /\ y \in Nat
    OBVIOUS
  <2>2. ~(y < x)
    BY <1>1, <2>1 DEF OpToRel
  <2> QED BY <2>1, <2>2
<1> QED BY <1>2 DEF Min

(* The maximum of a bounded nonempty set of naturals exists, and is the    *)
(* minimum seen from the other end.                                        *)
LEMMA MaxProperties ==
  ASSUME NEW n \in Nat, NEW T, T \subseteq 0 .. n, T # {}
  PROVE  /\ Max(T) \in T
         /\ \A y \in T : Max(T) >= y
<1> DEFINE D == {n - i : i \in T}
<1>1. D \subseteq Nat /\ D # {}
  OBVIOUS
<1>2. Min(D) \in D /\ \A y \in D : Min(D) <= y
  <2> HIDE DEF D
  <2> QED BY <1>1, MinProperties
<1>3. PICK x \in T : n - x = Min(D)
  BY <1>2
<1>4. \A y \in T : x >= y
  <2> TAKE y \in T
  <2>1. n - y \in D
    OBVIOUS
  <2>2. n - x <= n - y
    BY <1>2, <1>3, <2>1
  <2> QED BY <2>2
<1> QED BY <1>4 DEF Max

(* A remainder is below its divisor, also for a negative number: the       *)
(* conversions to uint8 and uint32 of resolveLabel.                        *)
LEMMA ModProperties ==
  ASSUME NEW x \in Int, NEW n \in Nat \ {0}
  PROVE  x % n \in 0 .. (n - 1)
OBVIOUS

-----------------------------------------------------------------------------
(* A program whose jumps are tracked and name labels that exist.           *)
WellFormed(p) ==
  /\ p \in ProgramType
  /\ JumpsTracked(p)
  /\ \A k \in DOMAIN p.jumps : /\ p.jumps[k].trueLabel \in DOMAIN p.labels
                               /\ p.jumps[k].falseLabel \in DOMAIN p.labels

(* The types and domains of the parts of a well-formed program, for the    *)
(* proofs that do not need the rest.                                       *)
LEMMA WellFormedFacts ==
  ASSUME NEW p, WellFormed(p)
  PROVE  /\ p.instructions \in Seq(Instruction)
         /\ p.jumps \in Seq(JumpRecord)
         /\ p.labels \in Seq(Seq(Nat))
         /\ Len(p.instructions) \in Nat /\ DOMAIN p.instructions = 1 .. Len(p.instructions)
         /\ Len(p.jumps) \in Nat /\ DOMAIN p.jumps = 1 .. Len(p.jumps)
         /\ Len(p.labels) \in Nat /\ DOMAIN p.labels = 1 .. Len(p.labels)
         /\ \A k \in DOMAIN p.jumps : p.jumps[k] \in JumpRecord /\ p.jumps[k].index \in Nat
         /\ \A l \in DOMAIN p.labels : p.labels[l] \in Seq(Nat)
<1>1. /\ p.instructions \in Seq(Instruction)
      /\ p.jumps \in Seq(JumpRecord)
      /\ p.labels \in Seq(Seq(Nat))
  BY DEF WellFormed, ProgramType
<1>2. \A k \in DOMAIN p.jumps : p.jumps[k] \in JumpRecord
  BY <1>1
<1>3. \A k \in DOMAIN p.jumps : p.jumps[k].index \in Nat
  BY <1>2 DEF JumpRecord
<1> QED BY <1>1, <1>2, <1>3

(* findInsertAfter returns a jump of the list, not before the current one  *)
(* and within a short jump of it: the current one qualifies.               *)
LEMMA FindInsertAfterProperties ==
  ASSUME NEW p, WellFormed(p), NEW k \in DOMAIN p.jumps
  PROVE  \E m \in DOMAIN p.jumps :
           /\ m >= k
           /\ FindInsertAfter(p.jumps, p.jumps[k]) = p.jumps[m]
           /\ p.jumps[m].index < p.jumps[k].index + MaxSkip
<1> DEFINE n == Len(p.jumps)
           T == {i \in 1 .. n : p.jumps[i].index < p.jumps[k].index + MaxSkip}
<1>1. n \in Nat /\ DOMAIN p.jumps = 1 .. n /\ \A i \in 1 .. n : p.jumps[i].index \in Nat
  BY WellFormedFacts
<1>2. k \in T
  BY <1>1, MaxSkipAssumption
<1>3. Max(T) \in T /\ \A y \in T : Max(T) >= y
  <2>1. T \subseteq 0 .. n /\ T # {}
    BY <1>1, <1>2
  <2> HIDE DEF T
  <2> QED BY <1>1, <2>1, MaxProperties
<1>4. FindInsertAfter(p.jumps, p.jumps[k]) = p.jumps[Max(T)]
  BY <1>2 DEF FindInsertAfter, SelectLastInSeq
<1>5. Max(T) \in DOMAIN p.jumps /\ p.jumps[Max(T)].index < p.jumps[k].index + MaxSkip
  BY <1>1, <1>3
<1>6. Max(T) >= k
  BY <1>2, <1>3
<1> HIDE DEF T
<1> QED BY <1>4, <1>5, <1>6

(* t is s with e inserted at position i.                                   *)
Inserted(t, s, i, e) ==
  /\ Len(t) = Len(s) + 1
  /\ \A j \in 1 .. (i - 1) : t[j] = s[j]
  /\ t[i] = e
  /\ \A j \in (i + 1) .. (Len(s) + 1) : t[j] = s[j - 1]

(* What the splice of insertAfter does to a sequence.                      *)
LEMMA InsertAtProperties ==
  ASSUME NEW S, NEW s \in Seq(S), NEW e \in S, NEW i \in 1 .. (Len(s) + 1)
  PROVE  InsertAt(s, i, e) \in Seq(S) /\ Inserted(InsertAt(s, i, e), s, i, e)
<1> DEFINE a == SubSeq(s, 1, i - 1)
           b == SubSeq(s, i, Len(s))
<1>1. /\ a \in Seq(S) /\ Len(a) = i - 1
      /\ \A j \in 1 .. (i - 1) : a[j] = s[j]
  OBVIOUS
<1>2. /\ b \in Seq(S) /\ Len(b) = Len(s) - i + 1
      /\ \A j \in 1 .. (Len(s) - i + 1) : b[j] = s[i + j - 1]
  OBVIOUS
<1> HIDE DEF a, b
<1>3. <<e>> \in Seq(S) /\ Len(<<e>>) = 1 /\ <<e>>[1] = e
  OBVIOUS
<1> DEFINE c == a \o <<e>>
<1>4. /\ c \in Seq(S)
      /\ Len(c) = i
      /\ \A j \in 1 .. (i - 1) : c[j] = s[j]
      /\ c[i] = e
  BY <1>1, <1>3
<1> HIDE DEF c
<1>5. /\ c \o b \in Seq(S)
      /\ Len(c \o b) = Len(s) + 1
      /\ \A j \in 1 .. i : (c \o b)[j] = c[j]
      /\ \A j \in (i + 1) .. (Len(s) + 1) : (c \o b)[j] = b[j - i]
  BY <1>2, <1>4
<1>6. \A j \in (i + 1) .. (Len(s) + 1) : (c \o b)[j] = s[j - 1]
  <2> TAKE j \in (i + 1) .. (Len(s) + 1)
  <2>1. j - i \in 1 .. (Len(s) - i + 1) /\ i + (j - i) - 1 = j - 1
    OBVIOUS
  <2> QED BY <1>2, <1>5, <2>1
<1>7. InsertAt(s, i, e) = c \o b
  BY DEF InsertAt, a, b, c
<1>8. Inserted(c \o b, s, i, e)
  BY <1>4, <1>5, <1>6 DEF Inserted
<1> QED BY <1>5, <1>7, <1>8

(* The shift of a label's destinations by updateIndices gives              *)
(* destinations.                                                           *)
LEMMA ShiftedSeq ==
  ASSUME NEW s \in Seq(Nat), NEW after \in Nat
  PROVE  [k \in DOMAIN s |-> ShiftFrom(after, s[k])] \in Seq(Nat)
<1> DEFINE t == [k \in 1 .. Len(s) |-> ShiftFrom(after, s[k])]
<1>1. Len(s) \in Nat /\ DOMAIN s = 1 .. Len(s) /\ \A k \in 1 .. Len(s) : s[k] \in Nat
  OBVIOUS
<1>2. t \in [1 .. Len(s) -> Nat]
  BY <1>1 DEF ShiftFrom
<1> HIDE DEF t
<1>3. t \in Seq(Nat)
  BY <1>1, <1>2, SeqDef
<1> QED BY <1>1, <1>3 DEF t

(* updateIndices shifts the index of every jump and leaves its labels and  *)
(* the instructions alone.                                                 *)
LEMMA UpdateIndicesProperties ==
  ASSUME NEW p, p \in ProgramType, NEW after \in Nat
  PROVE  LET q == UpdateIndices(p, after)
         IN  /\ q \in ProgramType
             /\ q.instructions = p.instructions
             /\ DOMAIN q.jumps = DOMAIN p.jumps
             /\ DOMAIN q.labels = DOMAIN p.labels
             /\ \A k \in DOMAIN p.jumps :
                  /\ q.jumps[k].index = ShiftFrom(after, p.jumps[k].index)
                  /\ q.jumps[k].trueLabel = p.jumps[k].trueLabel
                  /\ q.jumps[k].falseLabel = p.jumps[k].falseLabel
             /\ \A l \in DOMAIN p.labels :
                  /\ q.labels[l] = [k \in DOMAIN p.labels[l] |-> ShiftFrom(after, p.labels[l][k])]
                  /\ q.labels[l] \in Seq(Nat)
<1> DEFINE q == UpdateIndices(p, after)
           jumps == [k \in DOMAIN p.jumps |->
                       [p.jumps[k] EXCEPT !.index = ShiftFrom(after, p.jumps[k].index)]]
           entry(l) == [k \in DOMAIN p.labels[l] |-> ShiftFrom(after, p.labels[l][k])]
           labels == [l \in DOMAIN p.labels |-> entry(l)]
<1>1. /\ p.instructions \in Seq(Instruction)
      /\ p.jumps \in Seq(JumpRecord)
      /\ p.labels \in Seq(Seq(Nat))
  BY DEF ProgramType
<1>2. q = [instructions |-> p.instructions, jumps |-> jumps, labels |-> labels]
  BY DEF UpdateIndices
<1>3. \A i \in Nat : ShiftFrom(after, i) \in Nat
  BY DEF ShiftFrom
<1>4. \A k \in DOMAIN p.jumps :
        /\ jumps[k] \in JumpRecord
        /\ jumps[k].index = ShiftFrom(after, p.jumps[k].index)
        /\ jumps[k].trueLabel = p.jumps[k].trueLabel
        /\ jumps[k].falseLabel = p.jumps[k].falseLabel
  <2> TAKE k \in DOMAIN p.jumps
  <2>1. p.jumps[k] \in JumpRecord
    BY <1>1
  <2> QED BY <1>3, <2>1 DEF JumpRecord
<1>5. jumps \in Seq(JumpRecord) /\ DOMAIN jumps = DOMAIN p.jumps
  <2>1. DOMAIN p.jumps = 1 .. Len(p.jumps) /\ Len(p.jumps) \in Nat
    BY <1>1
  <2>2. jumps \in [1 .. Len(p.jumps) -> JumpRecord]
    BY <1>4, <2>1
  <2> HIDE DEF jumps
  <2> QED BY <2>1, <2>2, SeqDef
<1>6. \A l \in DOMAIN p.labels : entry(l) \in Seq(Nat)
  <2> TAKE l \in DOMAIN p.labels
  <2>1. p.labels[l] \in Seq(Nat)
    BY <1>1
  <2> QED BY <2>1, ShiftedSeq
<1>7. labels \in Seq(Seq(Nat)) /\ DOMAIN labels = DOMAIN p.labels
  <2>1. DOMAIN p.labels = 1 .. Len(p.labels) /\ Len(p.labels) \in Nat
    BY <1>1
  <2>2. labels \in [1 .. Len(p.labels) -> Seq(Nat)]
    BY <1>6, <2>1
  <2> HIDE DEF labels
  <2> QED BY <2>1, <2>2, SeqDef
<1>8. \A l \in DOMAIN p.labels : labels[l] = entry(l)
  OBVIOUS
<1> HIDE DEF jumps, labels
<1>9. q \in ProgramType
  BY <1>1, <1>2, <1>5, <1>7 DEF ProgramType
<1>10. q.instructions = p.instructions /\ q.jumps = jumps /\ q.labels = labels
  BY <1>2
<1> HIDE DEF q
<1>11. \A l \in DOMAIN p.labels : q.labels[l] = entry(l) /\ q.labels[l] \in Seq(Nat)
  BY <1>6, <1>8, <1>10
<1> QED BY <1>4, <1>5, <1>7, <1>9, <1>10, <1>11 DEF q

(* insertAfter behind the m-th jump keeps the program well formed, because *)
(* the indices from there on move with the instructions, and leaves the    *)
(* jumps up to the m-th where they are.                                    *)
LEMMA InsertAfterProperties ==
  ASSUME NEW p, WellFormed(p), NEW m \in DOMAIN p.jumps, NEW inst \in Instruction
  PROVE  LET q == InsertAfter(p, p.jumps[m].index, inst)
         IN  /\ WellFormed(q)
             /\ DOMAIN q.jumps = DOMAIN p.jumps
             /\ DOMAIN q.labels = DOMAIN p.labels
             /\ \A k \in DOMAIN p.jumps :
                  /\ k <= m => q.jumps[k] = p.jumps[k]
                  /\ q.jumps[k].index = ShiftFrom(p.jumps[m].index + 1, p.jumps[k].index)
                  /\ q.jumps[k].trueLabel = p.jumps[k].trueLabel
                  /\ q.jumps[k].falseLabel = p.jumps[k].falseLabel
<1> DEFINE x == p.jumps[m].index
           ins == InsertAt(p.instructions, x + 2, inst)
           r == [p EXCEPT !.instructions = InsertAt(@, x + 2, inst)]
           q == UpdateIndices(r, x + 1)
<1>1. /\ x \in Nat /\ x < Len(p.instructions)
      /\ Len(p.instructions) \in Nat
      /\ p.instructions \in Seq(Instruction)
      /\ x + 2 \in 1 .. (Len(p.instructions) + 1)
      /\ x + 1 \in Nat
  BY WellFormedFacts DEF WellFormed, JumpsTracked
<1> HIDE DEF x
<1>2. /\ ins \in Seq(Instruction)
      /\ Len(ins) = Len(p.instructions) + 1
      /\ \A j \in 1 .. (x + 1) : ins[j] = p.instructions[j]
      /\ \A j \in (x + 3) .. (Len(p.instructions) + 1) : ins[j] = p.instructions[j - 1]
  <2> DEFINE i == x + 2
             s == p.instructions
  <2>1. s \in Seq(Instruction) /\ i \in 1 .. (Len(s) + 1)
    BY <1>1
  <2> HIDE DEF i, s
  <2>2. InsertAt(s, i, inst) \in Seq(Instruction) /\ Inserted(InsertAt(s, i, inst), s, i, inst)
    BY <2>1, InsertAtProperties
  <2>3. i - 1 = x + 1 /\ i + 1 = x + 3
    BY <1>1 DEF i
  <2> QED BY <2>2, <2>3 DEF Inserted, i, s
<1> HIDE DEF ins
<1>3. /\ r \in ProgramType
      /\ r.instructions = ins /\ r.jumps = p.jumps /\ r.labels = p.labels
  BY <1>2 DEF WellFormed, ProgramType, ins
<1> HIDE DEF r
<1>4. /\ q \in ProgramType
      /\ q.instructions = ins
      /\ DOMAIN q.jumps = DOMAIN p.jumps
      /\ DOMAIN q.labels = DOMAIN p.labels
      /\ \A k \in DOMAIN p.jumps :
           /\ q.jumps[k].index = ShiftFrom(x + 1, p.jumps[k].index)
           /\ q.jumps[k].trueLabel = p.jumps[k].trueLabel
           /\ q.jumps[k].falseLabel = p.jumps[k].falseLabel
  <2> DEFINE after == x + 1
  <2>1. after \in Nat
    BY <1>1
  <2> HIDE DEF after
  <2>2. /\ UpdateIndices(r, after) \in ProgramType
        /\ UpdateIndices(r, after).instructions = r.instructions
        /\ DOMAIN UpdateIndices(r, after).jumps = DOMAIN r.jumps
        /\ DOMAIN UpdateIndices(r, after).labels = DOMAIN r.labels
        /\ \A k \in DOMAIN r.jumps :
             /\ UpdateIndices(r, after).jumps[k].index = ShiftFrom(after, r.jumps[k].index)
             /\ UpdateIndices(r, after).jumps[k].trueLabel = r.jumps[k].trueLabel
             /\ UpdateIndices(r, after).jumps[k].falseLabel = r.jumps[k].falseLabel
    BY <1>3, <2>1, UpdateIndicesProperties
  <2> QED BY <1>3, <2>2 DEF after
<1> HIDE DEF q
<1>5. \A k \in DOMAIN p.jumps : p.jumps[k].index \in Nat /\ p.jumps[k].index < Len(p.instructions)
  BY WellFormedFacts DEF WellFormed, JumpsTracked
<1>6. \A k \in DOMAIN p.jumps : q.jumps[k].index < Len(q.instructions)
  <2> TAKE k \in DOMAIN p.jumps
  <2>1. q.jumps[k].index \in {p.jumps[k].index, p.jumps[k].index + 1}
    BY <1>4 DEF ShiftFrom
  <2>2. Len(q.instructions) = Len(p.instructions) + 1
    BY <1>2, <1>4
  <2> QED BY <1>1, <1>5, <2>1, <2>2
<1>7. \A k \in DOMAIN p.jumps : InstAt(q, q.jumps[k].index) = InstAt(p, p.jumps[k].index)
  <2> TAKE k \in DOMAIN p.jumps
  <2> DEFINE i == p.jumps[k].index
  <2>1. i \in Nat /\ i < Len(p.instructions) /\ InstAt(p, i) = p.instructions[i + 1]
    BY <1>5 DEF InstAt
  <2>2. q.jumps[k].index = (IF i >= x + 1 THEN i + 1 ELSE i)
    BY <1>4 DEF ShiftFrom
  <2>3. InstAt(q, q.jumps[k].index) = ins[q.jumps[k].index + 1]
    BY <1>4 DEF InstAt
  <2> HIDE DEF i
  <2>4. CASE i >= x + 1
    <3>1. i + 2 \in (x + 3) .. (Len(p.instructions) + 1) /\ (i + 1) + 1 = i + 2
      BY <1>1, <2>1, <2>4
    <3>2. ins[i + 2] = p.instructions[(i + 2) - 1]
      BY <1>1, <1>2, <2>1, <3>1
    <3>3. (i + 2) - 1 = i + 1
      BY <2>1
    <3> QED BY <2>1, <2>2, <2>3, <2>4, <3>1, <3>2, <3>3 DEF i
  <2>5. CASE ~(i >= x + 1)
    <3>1. i + 1 \in 1 .. (x + 1)
      BY <1>1, <2>1, <2>5
    <3> QED BY <1>2, <2>1, <2>2, <2>3, <2>5, <3>1 DEF i
  <2> QED BY <2>4, <2>5
<1>8. \A k \in DOMAIN p.jumps : IsJumpIf(InstAt(q, q.jumps[k].index))
  BY <1>7 DEF WellFormed, JumpsTracked
<1>9. \A j, k \in DOMAIN p.jumps : j < k => q.jumps[j].index < q.jumps[k].index
  <2> TAKE j, k \in DOMAIN p.jumps
  <2> HAVE j < k
  <2>1. p.jumps[j].index < p.jumps[k].index
    BY DEF WellFormed, JumpsTracked
  <2> QED BY <1>1, <1>4, <1>5, <2>1 DEF ShiftFrom
<1>10. WellFormed(q)
  <2>1. JumpsTracked(q)
    BY <1>4, <1>6, <1>8, <1>9 DEF JumpsTracked
  <2> QED BY <1>4, <2>1 DEF WellFormed
<1>11. \A k \in DOMAIN p.jumps : k <= m => q.jumps[k] = p.jumps[k]
  <2> TAKE k \in DOMAIN p.jumps
  <2> HAVE k <= m
  <2>1. p.jumps[k].index <= x
    <3>1. k \in Nat /\ m \in Nat
      BY WellFormedFacts
    <3>2. CASE k = m
      BY <1>1, <3>2 DEF x
    <3>3. CASE k < m
      BY <1>1, <1>5, <3>3 DEF WellFormed, JumpsTracked, x
    <3> QED BY <3>1, <3>2, <3>3
  <2>2. q.jumps[k].index = p.jumps[k].index
    BY <1>1, <1>4, <1>5, <2>1 DEF ShiftFrom
  <2>3. q.jumps[k] \in JumpRecord /\ p.jumps[k] \in JumpRecord
    BY <1>4, <1>10, WellFormedFacts
  <2> QED BY <1>4, <2>2, <2>3 DEF JumpRecord
<1> QED BY <1>4, <1>10, <1>11 DEF InsertAfter, q, r, x

(* Assigning a label other destinations touches nothing else.              *)
LEMMA SetLabelsProperties ==
  ASSUME NEW p, WellFormed(p), NEW label \in DOMAIN p.labels, NEW s \in Seq(Nat)
  PROVE  LET q == [p EXCEPT !.labels[label] = s]
         IN  /\ WellFormed(q)
             /\ q.instructions = p.instructions
             /\ q.jumps = p.jumps
             /\ DOMAIN q.labels = DOMAIN p.labels
             /\ q.labels[label] = s
<1> DEFINE labels == [p.labels EXCEPT ![label] = s]
           q == [p EXCEPT !.labels[label] = s]
<1>1. p.labels \in Seq(Seq(Nat)) /\ label \in 1 .. Len(p.labels)
  BY WellFormedFacts
<1>2. labels \in Seq(Seq(Nat)) /\ DOMAIN labels = DOMAIN p.labels /\ labels[label] = s
  BY <1>1
<1> HIDE DEF labels
<1>3. /\ q \in ProgramType /\ q.instructions = p.instructions
      /\ q.jumps = p.jumps /\ q.labels = labels
  BY <1>2 DEF WellFormed, ProgramType, labels
<1> HIDE DEF q
<1>4. WellFormed(q)
  BY <1>2, <1>3 DEF WellFormed, JumpsTracked, InstAt
<1> QED BY <1>2, <1>3, <1>4 DEF q

-----------------------------------------------------------------------------
(* q is a well-formed program with the jumps and labels of p, and with the *)
(* k-th jump where it was.                                                 *)
Keeps(q, p, k) ==
  /\ WellFormed(q)
  /\ DOMAIN q.jumps = DOMAIN p.jumps
  /\ DOMAIN q.labels = DOMAIN p.labels
  /\ q.jumps[k] = p.jumps[k]

(* The label has a destination.                                            *)
FirstDest(q, label) == q.labels[label][1] \in Nat

(* Dropping the destinations in front of a jump keeps the program well     *)
(* formed and leaves the label a destination, if one is behind the jump.   *)
LEMMA DropBackwardKeeps ==
  ASSUME NEW p, WellFormed(p), NEW k \in DOMAIN p.jumps, NEW label \in DOMAIN p.labels,
         FirstForward(p, p.jumps[k], label) # 0
  PROVE  /\ Keeps(DropBackward(p, p.jumps[k], label), p, k)
         /\ FirstDest(DropBackward(p, p.jumps[k], label), label)
<1> DEFINE s == p.labels[label]
           I == {i \in 1 .. Len(s) : s[i] > p.jumps[k].index}
           f == FirstForward(p, p.jumps[k], label)
           t == SubSeq(s, f, Len(s))
<1>1. s \in Seq(Nat) /\ Len(s) \in Nat
  BY WellFormedFacts
<1>2. f = IF I # {} THEN Min(I) ELSE 0
  BY DEF FirstForward, SelectInSeq
<1>3. I # {} /\ f = Min(I)
  BY <1>2
<1>4. f \in I
  <2>1. I \subseteq Nat
    BY <1>1
  <2> HIDE DEF I
  <2> QED BY <1>3, <2>1, MinProperties
<1>5. f \in 1 .. Len(s)
  BY <1>4
<1> HIDE DEF f, I, s
<1>6. t \in Seq(Nat) /\ t[1] \in Nat
  BY <1>1, <1>5
<1> HIDE DEF t
<1> DEFINE q == [p EXCEPT !.labels[label] = t]
<1>7. /\ WellFormed(q) /\ q.jumps = p.jumps
      /\ DOMAIN q.labels = DOMAIN p.labels /\ q.labels[label] = t
  BY <1>6, SetLabelsProperties
<1>8. DropBackward(p, p.jumps[k], label) = q
  BY DEF DropBackward, t, f, s
<1> HIDE DEF q
<1> QED BY <1>6, <1>7, <1>8 DEF Keeps, FirstDest

(* What resolveLabel inserts for a far destination is an instruction: a    *)
(* copy of one of the program, or a Jump with a uint32 skip.               *)
LEMMA FarInstructionType ==
  ASSUME NEW p, WellFormed(p), NEW k \in DOMAIN p.jumps, NEW label \in DOMAIN p.labels,
         FirstDest(p, label), p.labels[label][1] < CurrentIndex(p), NEW after \in Nat
  PROVE  FarInstruction(p, p.jumps[k], label, after) \in Instruction
<1> DEFINE d == p.labels[label][1]
           x == ComputeSkipN(p, p.jumps[k], label) - after
<1>1. d \in Nat /\ d < Len(p.instructions)
  BY DEF FirstDest, CurrentIndex
<1>2. InstAt(p, d) \in Instruction
  <2>1. p.instructions \in Seq(Instruction) /\ Len(p.instructions) \in Nat
    BY WellFormedFacts
  <2>2. d + 1 \in 1 .. Len(p.instructions)
    BY <1>1, <2>1
  <2> QED BY <2>1, <2>2 DEF InstAt
<1>3. x \in Int
  <2>1. p.jumps[k].index \in Nat
    BY WellFormedFacts
  <2>2. ComputeSkipN(p, p.jumps[k], label) \in Int
    BY <1>1, <2>1 DEF ComputeSkipN
  <2> QED BY <2>2
<1> HIDE DEF x
<1>4. Jump(x % U32) \in Instruction
  <2>1. x % U32 \in 0 .. (U32 - 1)
    BY <1>3, U32Assumption, ModProperties
  <2> QED BY <2>1 DEF Jump, Instruction
<1> QED BY <1>2, <1>4 DEF FarInstruction, x

(* The long jump branch of resolveLabel keeps the program well formed, and *)
(* the jump it serves where it was: the insertion happens behind it.       *)
LEMMA LongJumpKeeps ==
  ASSUME NEW p, WellFormed(p), NEW k \in DOMAIN p.jumps, NEW label \in DOMAIN p.labels,
         FirstDest(p, label), p.labels[label][1] < CurrentIndex(p)
  PROVE  /\ Keeps(LongJump(p, p.jumps[k], label), p, k)
         /\ FirstDest(LongJump(p, p.jumps[k], label), label)
<1>1. PICK m \in DOMAIN p.jumps :
        m >= k /\ FindInsertAfter(p.jumps, p.jumps[k]) = p.jumps[m]
  BY FindInsertAfterProperties
<1> DEFINE after == p.jumps[m].index
           inst == FarInstruction(p, p.jumps[k], label, after)
           q == InsertAfter(p, p.jumps[m].index, inst)
           s == Cons(after + 1, q.labels[label])
           r == [q EXCEPT !.labels[label] = s]
<1>2. after \in Nat
  BY WellFormedFacts
<1>3. inst \in Instruction
  BY <1>2, FarInstructionType
<1>4. k <= m
  BY <1>1, WellFormedFacts
<1> HIDE DEF inst
<1>5. /\ WellFormed(q)
      /\ DOMAIN q.jumps = DOMAIN p.jumps
      /\ DOMAIN q.labels = DOMAIN p.labels
      /\ q.jumps[k] = p.jumps[k]
  BY <1>3, <1>4, InsertAfterProperties
<1> HIDE DEF q
<1>6. q.labels[label] \in Seq(Nat)
  BY <1>5, WellFormedFacts
<1> HIDE DEF after
<1>7. s \in Seq(Nat) /\ s[1] \in Nat
  BY <1>2, <1>6 DEF Cons
<1> HIDE DEF s
<1>8. /\ WellFormed(r) /\ r.jumps = q.jumps
      /\ DOMAIN r.labels = DOMAIN q.labels /\ r.labels[label] = s
  BY <1>5, <1>7, SetLabelsProperties
<1>9. LongJump(p, p.jumps[k], label) = r
  BY <1>1 DEF LongJump, after, q, s, inst
<1> HIDE DEF r
<1> QED BY <1>5, <1>7, <1>8, <1>9 DEF Keeps, FirstDest

(* The errors of Assemble, and none.                                       *)
Errors == {"none", "panic", "backward", "useless"}

(* r is what ResolveLabel may return for the k-th jump of p.               *)
ResultOK(r, p, k) ==
  /\ Keeps(r.prog, p, k)
  /\ r.skip \in 0 .. MaxSkip
  /\ r.err \in Errors

(* An error return of resolveLabel.                                        *)
LEMMA FailedOK ==
  ASSUME NEW p, NEW q, NEW k, Keeps(q, p, k), NEW e \in Errors
  PROVE  ResultOK(Failed(q, e), p, k)
BY MaxSkipAssumption DEF ResultOK, Failed

(* A successful return of resolveLabel: the skip fits a uint8.             *)
LEMMA ResolvedOK ==
  ASSUME NEW p, WellFormed(p), NEW k \in DOMAIN p.jumps, NEW q, Keeps(q, p, k),
         NEW label, FirstDest(q, label)
  PROVE  ResultOK(Resolved(q, p.jumps[k], label), p, k)
<1> DEFINE x == ComputeSkipN(q, p.jumps[k], label)
<1>1. x \in Int
  BY WellFormedFacts DEF FirstDest, ComputeSkipN
<1> HIDE DEF x
<1>2. x % (MaxSkip + 1) \in 0 .. ((MaxSkip + 1) - 1)
  BY <1>1, MaxSkipAssumption, ModProperties
<1>3. (MaxSkip + 1) - 1 = MaxSkip
  BY MaxSkipAssumption
<1>4. x % (MaxSkip + 1) \in 0 .. MaxSkip
  BY <1>2, <1>3
<1> QED BY <1>4 DEF ResultOK, Resolved, Errors, x

(* resolveLabel, whatever branch it takes, keeps the program well formed   *)
(* and the current jump where it was, and returns a skip that fits a       *)
(* uint8.                                                                  *)
LEMMA ResolveLabelOK ==
  ASSUME NEW p, WellFormed(p), NEW k \in DOMAIN p.jumps, NEW label \in DOMAIN p.labels
  PROVE  ResultOK(ResolveLabel(p, p.jumps[k], label), p, k)
<1> DEFINE jump == p.jumps[k]
           q == DropBackward(p, jump, label)
           r == ResolveLabel(p, jump, label)
<1>1. Keeps(p, p, k)
  BY DEF Keeps
<1>2. CASE p.labels[label] = <<>>
  <2>1. r = Failed(p, "panic")
    BY <1>2 DEF ResolveLabel
  <2> QED BY <1>1, <2>1, FailedOK DEF Errors
<1>3. CASE p.labels[label] # <<>> /\ FirstForward(p, jump, label) = 0
  <2>1. r = Failed(p, "backward")
    BY <1>3 DEF ResolveLabel
  <2> QED BY <1>1, <2>1, FailedOK DEF Errors
<1>4. CASE p.labels[label] # <<>> /\ FirstForward(p, jump, label) # 0
  <2>1. Keeps(q, p, k) /\ FirstDest(q, label)
    BY <1>4, DropBackwardKeeps
  <2>2. CASE ComputeSkipN(q, jump, label) <= MaxSkip
    <3>1. r = Resolved(q, jump, label)
      BY <1>4, <2>2 DEF ResolveLabel
    <3> HIDE DEF q
    <3> QED BY <2>1, <3>1, ResolvedOK
  <2>3. CASE ~(ComputeSkipN(q, jump, label) <= MaxSkip) /\ q.labels[label][1] >= CurrentIndex(q)
    <3>1. r = Failed(q, "panic")
      BY <1>4, <2>3 DEF ResolveLabel
    <3> HIDE DEF q
    <3> QED BY <2>1, <3>1, FailedOK DEF Errors
  <2>4. CASE ~(ComputeSkipN(q, jump, label) <= MaxSkip) /\ ~(q.labels[label][1] >= CurrentIndex(q))
    <3>1. r = Resolved(LongJump(q, jump, label), jump, label)
      BY <1>4, <2>4 DEF ResolveLabel
    <3> HIDE DEF q
    <3>2. /\ WellFormed(q) /\ k \in DOMAIN q.jumps /\ label \in DOMAIN q.labels
          /\ q.jumps[k] = jump
      BY <2>1 DEF Keeps
    <3>3. q.labels[label][1] < CurrentIndex(q)
      BY <2>1, <2>4, <3>2, WellFormedFacts DEF FirstDest, CurrentIndex
    <3>4. /\ Keeps(LongJump(q, jump, label), q, k)
          /\ FirstDest(LongJump(q, jump, label), label)
      BY <2>1, <3>2, <3>3, LongJumpKeeps
    <3>5. Keeps(LongJump(q, jump, label), p, k)
      BY <2>1, <3>4 DEF Keeps
    <3> QED BY <3>1, <3>4, <3>5, ResolvedOK
  <2> QED BY <2>2, <2>3, <2>4
<1> QED BY <1>2, <1>3, <1>4

(* Writing the skips back into the JumpIf of a jump keeps the program well *)
(* formed.                                                                 *)
LEMMA StoreSkipsKeeps ==
  ASSUME NEW p, WellFormed(p), NEW k \in DOMAIN p.jumps,
         NEW st \in 0 .. MaxSkip, NEW sf \in 0 .. MaxSkip
  PROVE  Keeps(StoreSkips(p, p.jumps[k], st, sf), p, k)
<1> DEFINE i == p.jumps[k].index
           old == p.instructions[i + 1]
           new == [old EXCEPT !.st = st, !.sf = sf]
           ins == [p.instructions EXCEPT ![i + 1] = new]
           q == [p EXCEPT !.instructions[i + 1] = new]
<1>1. /\ i \in Nat /\ i < Len(p.instructions)
      /\ p.instructions \in Seq(Instruction) /\ Len(p.instructions) \in Nat
      /\ i + 1 \in 1 .. Len(p.instructions)
  BY WellFormedFacts DEF WellFormed, JumpsTracked
<1>2. old \in Instruction /\ old.op = "jif"
  BY <1>1 DEF WellFormed, JumpsTracked, IsJumpIf, InstAt
<1>3. new \in Instruction /\ new.op = "jif"
  BY <1>2 DEF Instruction
<1> HIDE DEF old, new
<1>4. /\ ins \in Seq(Instruction) /\ Len(ins) = Len(p.instructions)
      /\ \A j \in 1 .. Len(p.instructions) :
           ins[j] = p.instructions[j] \/ (j = i + 1 /\ ins[j] = new)
  BY <1>1, <1>3
<1> HIDE DEF ins
<1>5. /\ q \in ProgramType /\ q.instructions = ins
      /\ q.jumps = p.jumps /\ q.labels = p.labels
  BY <1>4 DEF WellFormed, ProgramType, ins
<1> HIDE DEF q, i
<1>6. \A j \in DOMAIN p.jumps : IsJumpIf(InstAt(q, p.jumps[j].index))
  <2> TAKE j \in DOMAIN p.jumps
  <2>1. p.jumps[j].index + 1 \in 1 .. Len(p.instructions)
    BY WellFormedFacts DEF WellFormed, JumpsTracked
  <2>2. p.instructions[p.jumps[j].index + 1].op = "jif"
    BY DEF WellFormed, JumpsTracked, IsJumpIf, InstAt
  <2> QED BY <1>3, <1>4, <1>5, <2>1, <2>2 DEF IsJumpIf, InstAt
<1>7. JumpsTracked(q)
  BY <1>4, <1>5, <1>6 DEF JumpsTracked, WellFormed
<1>8. WellFormed(q)
  BY <1>5, <1>7 DEF WellFormed
<1>9. StoreSkips(p, p.jumps[k], st, sf) = q
  BY DEF StoreSkips, InstAt, q, new, old, i
<1> QED BY <1>5, <1>8, <1>9 DEF Keeps

-----------------------------------------------------------------------------
(* q is well formed, and has p's labels and jumps, perhaps more.           *)
Grows(q, p) ==
  /\ WellFormed(q)
  /\ Len(q.jumps) >= Len(p.jumps)
  /\ DOMAIN p.labels \subseteq DOMAIN q.labels

(* NewLabel grows a program.                                               *)
LEMMA AddLabelGrows ==
  ASSUME NEW p, WellFormed(p)
  PROVE  Grows(AddLabel(p), p) /\ FreshLabel(p) \in DOMAIN AddLabel(p).labels
<1> DEFINE labels == Append(p.labels, <<>>)
           q == [p EXCEPT !.labels = Append(@, <<>>)]
<1>1. p.labels \in Seq(Seq(Nat)) /\ Len(p.labels) \in Nat /\ DOMAIN p.labels = 1 .. Len(p.labels)
  BY WellFormedFacts
<1>2. /\ labels \in Seq(Seq(Nat))
      /\ DOMAIN labels = 1 .. (Len(p.labels) + 1)
  BY <1>1
<1> HIDE DEF labels
<1>3. /\ q \in ProgramType /\ q.instructions = p.instructions
      /\ q.jumps = p.jumps /\ q.labels = labels
  BY <1>2 DEF WellFormed, ProgramType, labels
<1> HIDE DEF q
<1>4. DOMAIN p.labels \subseteq DOMAIN q.labels /\ Len(p.labels) + 1 \in DOMAIN q.labels
  BY <1>1, <1>2, <1>3
<1>5. WellFormed(q)
  BY <1>3, <1>4 DEF WellFormed, JumpsTracked, InstAt
<1>6. Len(q.jumps) >= Len(p.jumps)
  BY <1>3, WellFormedFacts
<1> QED BY <1>4, <1>5, <1>6 DEF Grows, AddLabel, FreshLabel, q

(* SetLabel grows a program.                                               *)
LEMMA SetLabelGrows ==
  ASSUME NEW p, WellFormed(p), NEW label \in DOMAIN p.labels
  PROVE  Grows(SetLabel(p, label), p)
<1> DEFINE s == Append(p.labels[label], CurrentIndex(p))
           q == [p EXCEPT !.labels[label] = s]
<1>1. s \in Seq(Nat)
  BY WellFormedFacts DEF CurrentIndex
<1> HIDE DEF s
<1>2. WellFormed(q) /\ q.jumps = p.jumps /\ DOMAIN q.labels = DOMAIN p.labels
  BY <1>1, SetLabelsProperties
<1>3. SetLabel(p, label) = q
  BY DEF SetLabel, s
<1> HIDE DEF q
<1> QED BY <1>2, <1>3, WellFormedFacts DEF Grows

(* Appending an instruction grows a program.                               *)
LEMMA EmitGrows ==
  ASSUME NEW p, WellFormed(p), NEW inst \in Instruction
  PROVE  Grows(Emit(p, inst), p)
<1> DEFINE ins == Append(p.instructions, inst)
           q == [p EXCEPT !.instructions = Append(@, inst)]
<1>1. p.instructions \in Seq(Instruction) /\ Len(p.instructions) \in Nat
  BY WellFormedFacts
<1>2. /\ ins \in Seq(Instruction) /\ Len(ins) = Len(p.instructions) + 1
      /\ \A j \in 1 .. Len(p.instructions) : ins[j] = p.instructions[j]
  BY <1>1
<1> HIDE DEF ins
<1>3. /\ q \in ProgramType /\ q.instructions = ins
      /\ q.jumps = p.jumps /\ q.labels = p.labels
  BY <1>2 DEF WellFormed, ProgramType, ins
<1>4. Emit(p, inst) = q
  BY DEF Emit
<1> HIDE DEF q
<1>5. \A j \in DOMAIN p.jumps :
        /\ p.jumps[j].index < Len(q.instructions)
        /\ InstAt(q, p.jumps[j].index) = InstAt(p, p.jumps[j].index)
  <2> TAKE j \in DOMAIN p.jumps
  <2>1. p.jumps[j].index \in Nat /\ p.jumps[j].index < Len(p.instructions)
    BY WellFormedFacts DEF WellFormed, JumpsTracked
  <2>2. p.jumps[j].index + 1 \in 1 .. Len(p.instructions)
    BY <1>1, <2>1
  <2> QED BY <1>1, <1>2, <1>3, <2>1, <2>2 DEF InstAt
<1>6. WellFormed(q)
  BY <1>3, <1>5 DEF WellFormed, JumpsTracked
<1> QED BY <1>3, <1>4, <1>6, WellFormedFacts DEF Grows

(* JmpIf grows a program: the new jump is behind the others and points at  *)
(* the JumpIf that is appended with it.                                    *)
LEMMA JmpIfGrows ==
  ASSUME NEW p, WellFormed(p), NEW cond \in Conds, NEW val \in Nat,
         NEW t \in DOMAIN p.labels, NEW f \in DOMAIN p.labels
  PROVE  Grows(JmpIf(p, cond, val, t, f), p)
<1> DEFINE n == Len(p.instructions)
           jump == [index |-> n, trueLabel |-> t, falseLabel |-> f]
           inst == JumpIf(cond, val)
           ins == Append(p.instructions, inst)
           jumps == Append(p.jumps, jump)
           q == [[p EXCEPT !.jumps = Append(@, jump)] EXCEPT !.instructions = Append(@, inst)]
<1>1. /\ p.instructions \in Seq(Instruction) /\ n \in Nat
      /\ p.jumps \in Seq(JumpRecord) /\ Len(p.jumps) \in Nat
      /\ DOMAIN p.jumps = 1 .. Len(p.jumps)
      /\ DOMAIN p.labels \subseteq Nat
  BY WellFormedFacts
<1>2. inst \in Instruction /\ inst.op = "jif"
  BY MaxSkipAssumption DEF JumpIf, Instruction
<1>3. jump \in JumpRecord /\ jump.index = n /\ jump.trueLabel = t /\ jump.falseLabel = f
  BY <1>1 DEF JumpRecord
<1> HIDE DEF inst, jump
<1>4. /\ ins \in Seq(Instruction) /\ Len(ins) = n + 1 /\ ins[n + 1] = inst
      /\ \A j \in 1 .. n : ins[j] = p.instructions[j]
  BY <1>1, <1>2
<1>5. /\ jumps \in Seq(JumpRecord) /\ Len(jumps) = Len(p.jumps) + 1
      /\ DOMAIN jumps = 1 .. (Len(p.jumps) + 1)
      /\ jumps[Len(p.jumps) + 1] = jump
      /\ \A j \in 1 .. Len(p.jumps) : jumps[j] = p.jumps[j]
  BY <1>1, <1>3
<1> HIDE DEF ins, jumps
<1>5a. \A j \in DOMAIN jumps : j = Len(p.jumps) + 1 \/ j \in 1 .. Len(p.jumps)
  <2>1. Len(p.jumps) \in Nat
    BY <1>1
  <2>2. DOMAIN jumps = 1 .. (Len(p.jumps) + 1)
    BY <1>5
  <2> QED BY <2>1, <2>2
<1>6. /\ q \in ProgramType /\ q.instructions = ins
      /\ q.jumps = jumps /\ q.labels = p.labels
  BY <1>4, <1>5 DEF WellFormed, ProgramType, ins, jumps
<1>7. JmpIf(p, cond, val, t, f) = q
  BY DEF JmpIf, Emit, CurrentIndex, inst, jump
<1> HIDE DEF q, n
<1>8. \A j \in 1 .. Len(p.jumps) :
        /\ p.jumps[j].index \in Nat /\ p.jumps[j].index < n
        /\ p.instructions[p.jumps[j].index + 1].op = "jif"
  BY <1>1, WellFormedFacts DEF WellFormed, JumpsTracked, IsJumpIf, InstAt, n
<1>9. \A j \in DOMAIN jumps :
        /\ jumps[j].index \in Nat /\ jumps[j].index < n + 1
        /\ ins[jumps[j].index + 1].op = "jif"
  <2> TAKE j \in DOMAIN jumps
  <2>1. CASE j = Len(p.jumps) + 1
    BY <1>1, <1>2, <1>3, <1>4, <1>5, <2>1
  <2>2. CASE j \in 1 .. Len(p.jumps)
    <3>1. jumps[j] = p.jumps[j] /\ p.jumps[j].index \in Nat /\ p.jumps[j].index < n
      BY <1>5, <1>8, <2>2
    <3>2. p.jumps[j].index + 1 \in 1 .. n
      BY <1>1, <3>1
    <3>3. ins[p.jumps[j].index + 1].op = "jif"
      BY <1>4, <1>8, <2>2, <3>2
    <3> QED BY <1>1, <3>1, <3>3
  <2> QED BY <1>5a, <2>1, <2>2
<1>10. \A i, j \in DOMAIN jumps : i < j => jumps[i].index < jumps[j].index
  <2> TAKE i, j \in DOMAIN jumps
  <2> HAVE i < j
  <2>1. i \in 1 .. Len(p.jumps) /\ jumps[i] = p.jumps[i]
    BY <1>1, <1>5
  <2>2. CASE j = Len(p.jumps) + 1
    BY <1>3, <1>5, <1>8, <2>1, <2>2
  <2>3. CASE j \in 1 .. Len(p.jumps)
    BY <1>1, <1>5, <2>1, <2>3 DEF WellFormed, JumpsTracked
  <2> QED BY <1>5a, <2>2, <2>3
<1>11. \A j \in DOMAIN jumps : jumps[j].trueLabel \in DOMAIN p.labels
                               /\ jumps[j].falseLabel \in DOMAIN p.labels
  <2> TAKE j \in DOMAIN jumps
  <2>1. CASE j = Len(p.jumps) + 1
    BY <1>3, <1>5, <2>1
  <2>2. CASE j \in 1 .. Len(p.jumps)
    BY <1>1, <1>5, <2>2 DEF WellFormed
  <2> QED BY <1>5a, <2>1, <2>2
<1>12. JumpsTracked(q)
  BY <1>4, <1>6, <1>9, <1>10 DEF JumpsTracked, IsJumpIf, InstAt
<1>13. WellFormed(q)
  BY <1>6, <1>11, <1>12 DEF WellFormed
<1> QED BY <1>1, <1>5, <1>6, <1>7, <1>13 DEF Grows

(* JmpIfTrue, a NewLabel, a JmpIf and a SetLabel, grows a program.         *)
LEMMA JmpIfTrueGrows ==
  ASSUME NEW p, WellFormed(p), NEW cond \in Conds, NEW val \in Nat, NEW t \in DOMAIN p.labels
  PROVE  Grows(JmpIfTrue(p, cond, val, t), p)
<1> DEFINE l == FreshLabel(p)
           a == AddLabel(p)
           b == JmpIf(a, cond, val, t, l)
           c == SetLabel(b, l)
<1>1. Grows(a, p) /\ l \in DOMAIN a.labels
  BY AddLabelGrows
<1>2. JmpIfTrue(p, cond, val, t) = c
  BY DEF JmpIfTrue
<1> HIDE DEF a, l
<1>3. Grows(b, a)
  BY <1>1, JmpIfGrows DEF Grows
<1> HIDE DEF b
<1>4. Grows(c, b)
  BY <1>1, <1>3, SetLabelGrows DEF Grows
<1> HIDE DEF c
<1>5. Len(p.jumps) \in Nat /\ Len(a.jumps) \in Nat /\ Len(b.jumps) \in Nat /\ Len(c.jumps) \in Nat
  BY <1>1, <1>3, <1>4, WellFormedFacts DEF Grows
<1> QED BY <1>1, <1>2, <1>3, <1>4, <1>5 DEF Grows

(* Ret grows a program.                                                    *)
LEMMA RetGrows ==
  ASSUME NEW p, WellFormed(p), NEW a \in Actions
  PROVE  Grows(Ret(p, a), p)
<1>1. RetConstant(RetValue(a)) \in Instruction
  BY DEF RetConstant, Instruction
<1> QED BY <1>1, EmitGrows DEF Ret

(* LdHi grows a program.                                                   *)
LEMMA LdHiGrows ==
  ASSUME NEW p, WellFormed(p), NEW arg \in Nat, NEW little \in BOOLEAN
  PROVE  Grows(LdHi(p, arg, little), p)
<1> DEFINE off == argumentOffset + sizeOfUint64 * arg + IF little THEN sizeOfUint32 ELSE 0
<1>1. off \in Nat
  BY DEF argumentOffset, sizeOfUint64, sizeOfUint32
<1>2. LdHi(p, arg, little) = Emit(p, LoadAbsolute(off))
  BY DEF LdHi
<1> HIDE DEF off
<1>3. LoadAbsolute(off) \in Instruction
  BY <1>1 DEF LoadAbsolute, Instruction
<1> QED BY <1>2, <1>3, EmitGrows

-----------------------------------------------------------------------------
(* What a label stands for.                                                *)

(* Position i holds what Assemble puts in front of a far destination inst, *)
(* and the instruction before it does not fall into it.                    *)
StandIn(p, inst, i) ==
  /\ i \in 1 .. (Len(p.instructions) - 1)
  /\ IF inst.op = "ret" THEN ContentAt(p, i) = inst ELSE InstAt(p, i).op = "jmp"
  /\ InstAt(p, i - 1).op # "ld"

(* dest is a list of destinations for the instruction inst: stand-ins,     *)
(* then inst itself, in ascending order.                                   *)
DestOK(p, dest, inst) ==
  /\ \A i, j \in DOMAIN dest : i < j => dest[i] < dest[j]
  /\ dest # <<>> => ContentAt(p, dest[Len(dest)]) = inst
  /\ \A i \in 1 .. (Len(dest) - 1) : StandIn(p, inst, dest[i])

(* A stand-in serves one label.                                            *)
OwnStandIns(labels) ==
  \A l, m \in DOMAIN labels : l # m =>
    \A i \in 1 .. (Len(labels[l]) - 1), j \in DOMAIN labels[m] :
      labels[l][i] # labels[m][j]

LabelsOK(p, h) ==
  /\ \A l \in DOMAIN p.labels : DestOK(p, p.labels[l], h[l])
  /\ OwnStandIns(p.labels)

(* No load falls into a long jump.                                         *)
JmpsGuarded(p) ==
  \A i \in 0 .. (Len(p.instructions) - 1) :
    InstAt(p, i).op = "jmp" => i > 0 /\ InstAt(p, i - 1).op # "ld"

(* A program Assemble has not touched.                                     *)
Fresh(p) ==
  /\ \A l \in DOMAIN p.labels : Len(p.labels[l]) <= 1
  /\ \A i \in DOMAIN p.instructions : p.instructions[i].op # "jmp"

-----------------------------------------------------------------------------
(* Instructions and their contents.                                        *)

(* Forgetting the skips of an instruction keeps what it is.                *)
LEMMA ContentFacts ==
  ASSUME NEW inst \in Instruction
  PROVE  Content(inst).op = inst.op /\ (IsRet(inst) => Content(inst) = inst)
<1>1. CASE IsJumpIf(inst)
  BY <1>1 DEF Content, JumpIf, IsJumpIf, IsRet
<1>2. CASE ~IsJumpIf(inst)
  BY <1>2 DEF Content
<1> QED BY <1>1, <1>2

(* An index of the program names an instruction, and its content is that   *)
(* instruction's.                                                          *)
LEMMA InstAtFacts ==
  ASSUME NEW p, WellFormed(p), NEW i \in Nat, i < Len(p.instructions)
  PROVE  /\ InstAt(p, i) \in Instruction
         /\ ContentAt(p, i) = Content(InstAt(p, i))
         /\ ContentAt(p, i).op = InstAt(p, i).op
<1>1. p.instructions \in Seq(Instruction) /\ Len(p.instructions) \in Nat
  BY WellFormedFacts
<1>2. i + 1 \in 1 .. Len(p.instructions)
  BY <1>1
<1>3. InstAt(p, i) \in Instruction
  BY <1>1, <1>2 DEF InstAt
<1>4. ContentAt(p, i) = Content(InstAt(p, i))
  BY DEF ContentAt, CurrentIndex
<1> QED BY <1>3, <1>4, ContentFacts

(* Where an index goes when an instruction is inserted behind x.           *)
LEMMA ShiftFacts ==
  ASSUME NEW x \in Nat, NEW i \in Nat
  PROVE  /\ ShiftFrom(x + 1, i) \in Nat
         /\ i <= x => ShiftFrom(x + 1, i) = i
         /\ i > x => ShiftFrom(x + 1, i) = i + 1
BY DEF ShiftFrom

-----------------------------------------------------------------------------
(* Insertions.                                                             *)

(* The instructions of q are those of p with inst inserted behind x.       *)
Spliced(q, p, x, inst) ==
  /\ Len(q.instructions) = Len(p.instructions) + 1
  /\ InstAt(q, x + 1) = inst
  /\ \A i \in 0 .. (Len(p.instructions) - 1) : InstAt(q, ShiftFrom(x + 1, i)) = InstAt(p, i)

(* q is p with inst inserted behind x: instructions and destinations move  *)
(* together.                                                               *)
Moves(q, p, x, inst) ==
  /\ Spliced(q, p, x, inst)
  /\ DOMAIN q.labels = DOMAIN p.labels
  /\ \A l \in DOMAIN p.labels :
       /\ Len(q.labels[l]) = Len(p.labels[l])
       /\ \A i \in 1 .. Len(p.labels[l]) : q.labels[l][i] = ShiftFrom(x + 1, p.labels[l][i])

(* insertAfter moves instructions and destinations together.               *)
LEMMA InsertAfterMoves ==
  ASSUME NEW p, WellFormed(p), NEW m \in DOMAIN p.jumps, NEW inst \in Instruction
  PROVE  Moves(InsertAfter(p, p.jumps[m].index, inst), p, p.jumps[m].index, inst)
<1> DEFINE x == p.jumps[m].index
           s == p.instructions
           pos == x + 2
           after == x + 1
           ins == InsertAt(s, pos, inst)
           r == [p EXCEPT !.instructions = InsertAt(@, x + 2, inst)]
           q == UpdateIndices(r, after)
<1>1. /\ x \in Nat /\ x < Len(s) /\ Len(s) \in Nat
      /\ s \in Seq(Instruction)
      /\ pos \in 1 .. (Len(s) + 1)
      /\ after \in Nat
  BY WellFormedFacts DEF WellFormed, JumpsTracked
<1>2. pos = x + 2 /\ after = x + 1
  OBVIOUS
<1> HIDE DEF x, s, pos, after
<1>3. ins \in Seq(Instruction) /\ Inserted(ins, s, pos, inst)
  BY <1>1, InsertAtProperties
<1> HIDE DEF ins
<1>4. /\ r \in ProgramType
      /\ r.instructions = ins /\ r.jumps = p.jumps /\ r.labels = p.labels
  BY <1>3 DEF WellFormed, ProgramType, ins, s, pos
<1> HIDE DEF r
<1>5. /\ q.instructions = ins
      /\ DOMAIN q.labels = DOMAIN p.labels
      /\ \A l \in DOMAIN p.labels :
           q.labels[l] = [k \in DOMAIN p.labels[l] |-> ShiftFrom(after, p.labels[l][k])]
  <2>1. /\ UpdateIndices(r, after).instructions = r.instructions
        /\ DOMAIN UpdateIndices(r, after).labels = DOMAIN r.labels
        /\ \A l \in DOMAIN r.labels :
             UpdateIndices(r, after).labels[l] =
               [k \in DOMAIN r.labels[l] |-> ShiftFrom(after, r.labels[l][k])]
    BY <1>1, <1>4, UpdateIndicesProperties, Zenon
  <2> QED BY <1>4, <2>1
<1>6. InsertAfter(p, p.jumps[m].index, inst) = q
  BY DEF InsertAfter, q, r, x, after
<1> HIDE DEF q
<1>7. Len(q.instructions) = Len(s) + 1 /\ InstAt(q, x + 1) = inst
  <2>1. (x + 1) + 1 = pos
    BY <1>1, <1>2
  <2> QED BY <1>3, <1>5, <2>1 DEF Inserted, InstAt
<1>8. \A i \in 0 .. (Len(s) - 1) : InstAt(q, ShiftFrom(x + 1, i)) = InstAt(p, i)
  <2> TAKE i \in 0 .. (Len(s) - 1)
  <2>1. InstAt(p, i) = s[i + 1] /\ \A j : InstAt(q, j) = ins[j + 1]
    BY <1>5 DEF InstAt, s
  <2>2. CASE i <= x
    <3>1. ShiftFrom(x + 1, i) = i /\ i + 1 \in 1 .. (pos - 1)
      BY <1>1, <1>2, <2>2 DEF ShiftFrom
    <3> QED BY <1>3, <2>1, <3>1 DEF Inserted
  <2>3. CASE i > x
    <3>1. /\ ShiftFrom(x + 1, i) = i + 1
          /\ (i + 1) + 1 \in (pos + 1) .. (Len(s) + 1)
          /\ ((i + 1) + 1) - 1 = i + 1
      BY <1>1, <1>2, <2>3 DEF ShiftFrom
    <3>2. ins[(i + 1) + 1] = s[((i + 1) + 1) - 1]
      BY <1>3, <3>1 DEF Inserted
    <3> QED BY <2>1, <3>1, <3>2
  <2> QED BY <1>1, <2>2, <2>3
<1>9. \A l \in DOMAIN p.labels :
        /\ Len(q.labels[l]) = Len(p.labels[l])
        /\ \A i \in 1 .. Len(p.labels[l]) : q.labels[l][i] = ShiftFrom(x + 1, p.labels[l][i])
  <2> TAKE l \in DOMAIN p.labels
  <2> DEFINE d == p.labels[l]
             e == [k \in 1 .. Len(d) |-> ShiftFrom(after, d[k])]
  <2>1. Len(d) \in Nat /\ DOMAIN d = 1 .. Len(d)
    BY WellFormedFacts
  <2>2. q.labels[l] = e
    BY <1>5, <2>1
  <2>3. Len(e) = Len(d)
    BY <2>1
  <2> QED BY <1>2, <2>2, <2>3
<1> QED BY <1>5, <1>6, <1>7, <1>8, <1>9 DEF Moves, Spliced, x, s

(* An insertion leaves what is at an index, and what is behind the last    *)
(* instruction, at the shifted index.                                      *)
LEMMA MovedContent ==
  ASSUME NEW p, WellFormed(p), NEW q, NEW inst, NEW x \in Nat, x < Len(p.instructions),
         Spliced(q, p, x, inst), NEW i \in Nat
  PROVE  ContentAt(q, ShiftFrom(x + 1, i)) = ContentAt(p, i)
<1>1. Len(p.instructions) \in Nat /\ Len(q.instructions) = Len(p.instructions) + 1
  BY WellFormedFacts DEF Spliced
<1>2. CASE i < Len(p.instructions)
  <2>1. InstAt(q, ShiftFrom(x + 1, i)) = InstAt(p, i)
    BY <1>1, <1>2 DEF Spliced
  <2>2. ShiftFrom(x + 1, i) < Len(q.instructions)
    BY <1>1, <1>2 DEF ShiftFrom
  <2> QED BY <1>2, <2>1, <2>2 DEF ContentAt, CurrentIndex
<1>3. CASE ~(i < Len(p.instructions))
  <2>1. ~(ShiftFrom(x + 1, i) < Len(q.instructions))
    BY <1>1, <1>3 DEF ShiftFrom
  <2> QED BY <1>3, <2>1 DEF ContentAt, CurrentIndex
<1> QED BY <1>2, <1>3

(* A stand-in is still one after an insertion: what comes between it and   *)
(* the instruction before it is not a load.                                *)
LEMMA MovedStandIn ==
  ASSUME NEW p, WellFormed(p), NEW q, NEW inst, NEW x \in Nat, x < Len(p.instructions),
         Spliced(q, p, x, inst), inst.op # "ld", NEW h, NEW i, StandIn(p, h, i)
  PROVE  StandIn(q, h, ShiftFrom(x + 1, i))
<1> DEFINE n == Len(p.instructions)
           j == ShiftFrom(x + 1, i)
<1>1. /\ n \in Nat /\ i \in 1 .. (n - 1) /\ i \in Nat /\ Len(q.instructions) = n + 1
  BY WellFormedFacts DEF StandIn, Spliced
<1>2. j = IF i <= x THEN i ELSE i + 1
  BY <1>1 DEF ShiftFrom
<1>3. j \in 1 .. (Len(q.instructions) - 1)
  BY <1>1, <1>2
<1>4. ContentAt(q, j) = ContentAt(p, i)
  BY <1>1, MovedContent
<1>5. InstAt(q, j) = InstAt(p, i)
  BY <1>1 DEF Spliced
<1>6. InstAt(q, j - 1).op # "ld"
  <2>1. InstAt(p, i - 1).op # "ld" /\ i - 1 \in 0 .. (n - 1)
    BY <1>1 DEF StandIn
  <2>2. InstAt(q, ShiftFrom(x + 1, i - 1)) = InstAt(p, i - 1)
    BY <2>1 DEF Spliced
  <2>3. CASE i = x + 1
    <3>1. j - 1 = x + 1
      BY <1>1, <1>2, <2>3
    <3> QED BY <3>1 DEF Spliced
  <2>4. CASE i # x + 1
    <3>1. j - 1 = ShiftFrom(x + 1, i - 1)
      BY <1>1, <1>2, <2>4 DEF ShiftFrom
    <3> QED BY <2>1, <2>2, <3>1
  <2> QED BY <2>3, <2>4
<1> HIDE DEF j
<1>7. IF h.op = "ret" THEN ContentAt(q, j) = h ELSE InstAt(q, j).op = "jmp"
  BY <1>4, <1>5 DEF StandIn
<1> QED BY <1>3, <1>6, <1>7 DEF StandIn, j

(* The destinations of a label are still right after an insertion.         *)
LEMMA MovedDest ==
  ASSUME NEW p, WellFormed(p), NEW q, NEW inst, NEW x \in Nat, x < Len(p.instructions),
         Moves(q, p, x, inst), inst.op # "ld", NEW h, NEW l \in DOMAIN p.labels,
         q.labels[l] \in Seq(Nat), DestOK(p, p.labels[l], h)
  PROVE  DestOK(q, q.labels[l], h)
<1> DEFINE d == p.labels[l]
           e == q.labels[l]
<1>1. d \in Seq(Nat) /\ e \in Seq(Nat)
  BY WellFormedFacts
<1>2. Len(e) = Len(d) /\ \A i \in 1 .. Len(d) : e[i] = ShiftFrom(x + 1, d[i])
  BY DEF Moves
<1>3. DestOK(p, d, h) /\ Spliced(q, p, x, inst)
  BY DEF Moves
<1> HIDE DEF d, e
<1>4. /\ Len(d) \in Nat /\ DOMAIN d = 1 .. Len(d) /\ DOMAIN e = 1 .. Len(d)
      /\ \A i \in 1 .. Len(d) : d[i] \in Nat
  BY <1>1, <1>2
<1>5. \A i, j \in DOMAIN e : i < j => e[i] < e[j]
  <2> TAKE i, j \in DOMAIN e
  <2> HAVE i < j
  <2>1. d[i] < d[j] /\ d[i] \in Nat /\ d[j] \in Nat
    BY <1>3, <1>4 DEF DestOK
  <2>2. e[i] = ShiftFrom(x + 1, d[i]) /\ e[j] = ShiftFrom(x + 1, d[j])
    BY <1>2, <1>4
  <2> QED BY <2>1, <2>2 DEF ShiftFrom
<1>6. e # <<>> => ContentAt(q, e[Len(e)]) = h
  <2> HAVE e # <<>>
  <2>1. Len(d) \in 1 .. Len(d) /\ d # <<>>
    BY <1>1, <1>2
  <2>2. e[Len(e)] = ShiftFrom(x + 1, d[Len(d)]) /\ d[Len(d)] \in Nat
    BY <1>2, <1>4, <2>1
  <2>3. ContentAt(q, ShiftFrom(x + 1, d[Len(d)])) = ContentAt(p, d[Len(d)])
    BY <1>3, <2>2, MovedContent
  <2> QED BY <1>3, <2>1, <2>2, <2>3 DEF DestOK
<1>7. \A i \in 1 .. (Len(e) - 1) : StandIn(q, h, e[i])
  <2> TAKE i \in 1 .. (Len(e) - 1)
  <2>1. i \in 1 .. (Len(d) - 1) /\ i \in 1 .. Len(d)
    BY <1>2, <1>4
  <2>2. StandIn(p, h, d[i]) /\ e[i] = ShiftFrom(x + 1, d[i])
    BY <1>2, <1>3, <2>1 DEF DestOK
  <2> QED BY <1>3, <2>2, MovedStandIn
<1>8. DestOK(q, e, h)
  BY <1>5, <1>6, <1>7 DEF DestOK
<1> QED BY <1>8 DEF e

(* Destinations that differ still differ after an insertion, and none of   *)
(* them is the inserted instruction.                                       *)
LEMMA MovedOwn ==
  ASSUME NEW p, WellFormed(p), NEW q, q.labels \in Seq(Seq(Nat)), NEW inst, NEW x \in Nat,
         Moves(q, p, x, inst), OwnStandIns(p.labels)
  PROVE  /\ OwnStandIns(q.labels)
         /\ \A l \in DOMAIN q.labels : \A i \in DOMAIN q.labels[l] : q.labels[l][i] # x + 1
<1>1. \A l \in DOMAIN p.labels :
        /\ Len(p.labels[l]) \in Nat
        /\ Len(q.labels[l]) = Len(p.labels[l])
        /\ DOMAIN p.labels[l] = 1 .. Len(p.labels[l])
        /\ DOMAIN q.labels[l] = 1 .. Len(p.labels[l])
  <2> TAKE l \in DOMAIN p.labels
  <2>1. p.labels[l] \in Seq(Nat) /\ q.labels[l] \in Seq(Nat) /\ Len(q.labels[l]) = Len(p.labels[l])
    BY WellFormedFacts DEF Moves
  <2> QED BY <2>1
<1>2. \A l \in DOMAIN p.labels : \A i \in 1 .. Len(p.labels[l]) :
        /\ p.labels[l][i] \in Nat
        /\ q.labels[l][i] = ShiftFrom(x + 1, p.labels[l][i])
  <2> TAKE l \in DOMAIN p.labels
  <2> TAKE i \in 1 .. Len(p.labels[l])
  <2>1. p.labels[l] \in Seq(Nat)
    BY WellFormedFacts
  <2>2. p.labels[l][i] \in Nat
    BY <2>1
  <2>3. q.labels[l][i] = ShiftFrom(x + 1, p.labels[l][i])
    BY DEF Moves
  <2> QED BY <2>2, <2>3
<1>3. DOMAIN q.labels = DOMAIN p.labels
  BY DEF Moves
<1>4. \A l \in DOMAIN q.labels : \A i \in DOMAIN q.labels[l] : q.labels[l][i] # x + 1
  <2> SUFFICES ASSUME NEW l \in DOMAIN p.labels, NEW i \in 1 .. Len(p.labels[l])
               PROVE  q.labels[l][i] # x + 1
    BY <1>1, <1>3
  <2>1. p.labels[l][i] \in Nat /\ q.labels[l][i] = ShiftFrom(x + 1, p.labels[l][i])
    BY <1>2
  <2> QED BY <2>1 DEF ShiftFrom
<1>5. OwnStandIns(q.labels)
  <2> SUFFICES ASSUME NEW l \in DOMAIN p.labels, NEW m \in DOMAIN p.labels, l # m,
                      NEW i \in 1 .. (Len(q.labels[l]) - 1), NEW j \in DOMAIN q.labels[m]
               PROVE  q.labels[l][i] # q.labels[m][j]
    BY <1>3 DEF OwnStandIns
  <2>1. /\ i \in 1 .. (Len(p.labels[l]) - 1) /\ i \in 1 .. Len(p.labels[l])
        /\ j \in 1 .. Len(p.labels[m]) /\ j \in DOMAIN p.labels[m]
    <3>1. Len(p.labels[l]) \in Nat /\ Len(q.labels[l]) = Len(p.labels[l])
      BY <1>1
    <3>2. DOMAIN q.labels[m] = 1 .. Len(p.labels[m]) /\ DOMAIN p.labels[m] = 1 .. Len(p.labels[m])
      BY <1>1
    <3>3. i \in 1 .. (Len(p.labels[l]) - 1) /\ i \in 1 .. Len(p.labels[l])
      BY <3>1
    <3> QED BY <3>2, <3>3
  <2>2. p.labels[l][i] # p.labels[m][j]
    BY <2>1 DEF OwnStandIns
  <2>3. p.labels[l][i] \in Nat /\ p.labels[m][j] \in Nat
    BY <1>2, <2>1
  <2>4. /\ q.labels[l][i] = ShiftFrom(x + 1, p.labels[l][i])
        /\ q.labels[m][j] = ShiftFrom(x + 1, p.labels[m][j])
    BY <1>2, <2>1
  <2>5. \A a, b \in Nat : a # b => ShiftFrom(x + 1, a) # ShiftFrom(x + 1, b)
    BY DEF ShiftFrom
  <2> QED BY <2>2, <2>3, <2>4, <2>5
<1> QED BY <1>4, <1>5

(* No load falls into a long jump after an insertion behind a JumpIf.      *)
LEMMA MovedGuarded ==
  ASSUME NEW p, WellFormed(p), NEW q, NEW inst, NEW x \in Nat, x < Len(p.instructions),
         Spliced(q, p, x, inst), inst.op # "ld", IsJumpIf(InstAt(p, x)), JmpsGuarded(p)
  PROVE  JmpsGuarded(q)
<1> DEFINE n == Len(p.instructions)
<1>1. n \in Nat /\ Len(q.instructions) = n + 1
  BY WellFormedFacts DEF Spliced
<1>2. \A i \in 0 .. (n - 1) : InstAt(q, ShiftFrom(x + 1, i)) = InstAt(p, i)
  BY DEF Spliced
<1> SUFFICES ASSUME NEW j \in 0 .. n, InstAt(q, j).op = "jmp"
             PROVE  j > 0 /\ InstAt(q, j - 1).op # "ld"
  BY <1>1 DEF JmpsGuarded
<1> HIDE DEF n
<1>3. CASE j <= x
  <2>1. /\ j \in 0 .. (n - 1) /\ ShiftFrom(x + 1, j) = j
    BY <1>1, <1>3 DEF ShiftFrom, n
  <2>2. j > 0 /\ InstAt(p, j - 1).op # "ld"
    BY <1>2, <2>1 DEF JmpsGuarded, n
  <2>3. j - 1 \in 0 .. (n - 1) /\ ShiftFrom(x + 1, j - 1) = j - 1
    BY <1>1, <1>3, <2>1, <2>2 DEF ShiftFrom
  <2> QED BY <1>2, <2>2, <2>3
<1>4. CASE j = x + 1
  <2>1. j > 0 /\ j - 1 = x /\ ShiftFrom(x + 1, x) = x /\ x \in 0 .. (n - 1)
    BY <1>1, <1>4 DEF ShiftFrom, n
  <2>2. InstAt(q, x) = InstAt(p, x)
    BY <1>2, <2>1
  <2> QED BY <2>1, <2>2 DEF IsJumpIf
<1>5. CASE j = x + 2
  <2>1. j > 0 /\ j - 1 = x + 1
    BY <1>5
  <2> QED BY <2>1 DEF Spliced
<1>6. CASE j > x + 2
  <2>1. /\ j - 1 \in 0 .. (n - 1) /\ ShiftFrom(x + 1, j - 1) = j
        /\ j - 2 \in 0 .. (n - 1) /\ ShiftFrom(x + 1, j - 2) = j - 1
        /\ (j - 1) - 1 = j - 2
    BY <1>1, <1>6 DEF ShiftFrom
  <2>2. InstAt(p, j - 1).op = "jmp"
    BY <1>2, <2>1
  <2>3. InstAt(p, j - 2).op # "ld"
    BY <2>1, <2>2 DEF JmpsGuarded, n
  <2>4. InstAt(q, j - 1) = InstAt(p, j - 2)
    BY <1>2, <2>1
  <2> QED BY <1>1, <1>6, <2>3, <2>4
<1> QED BY <1>1, <1>3, <1>4, <1>5, <1>6

-----------------------------------------------------------------------------
(* A label gets other destinations.                                        *)

(* The labels are still right when one of them gets destinations that are  *)
(* right for it and share no stand-in with another label.                  *)
LEMMA SetDestOK ==
  ASSUME NEW p, WellFormed(p), NEW h, LabelsOK(p, h), JmpsGuarded(p),
         NEW label \in DOMAIN p.labels, NEW s \in Seq(Nat), DestOK(p, s, h[label]),
         \A m \in DOMAIN p.labels : m # label =>
           /\ \A i \in 1 .. (Len(s) - 1), j \in DOMAIN p.labels[m] : s[i] # p.labels[m][j]
           /\ \A i \in 1 .. (Len(p.labels[m]) - 1), j \in DOMAIN s : p.labels[m][i] # s[j]
  PROVE  LET q == [p EXCEPT !.labels[label] = s]
         IN  LabelsOK(q, h) /\ JmpsGuarded(q)
<1> DEFINE q == [p EXCEPT !.labels[label] = s]
<1>1. /\ q.instructions = p.instructions
      /\ DOMAIN q.labels = DOMAIN p.labels
      /\ q.labels[label] = s
  BY SetLabelsProperties
<1>2. \A m \in DOMAIN p.labels : m # label => q.labels[m] = p.labels[m]
  BY DEF WellFormed, ProgramType
<1> HIDE DEF q
<1>3. \A l \in DOMAIN q.labels : DestOK(q, q.labels[l], h[l])
  <2> TAKE l \in DOMAIN q.labels
  <2>1. DestOK(p, q.labels[l], h[l])
    <3>1. CASE l = label
      BY <1>1, <3>1
    <3>2. CASE l # label
      BY <1>1, <1>2, <3>2 DEF LabelsOK
    <3> QED BY <3>1, <3>2
  <2> DEFINE e == q.labels[l]
             g == h[l]
  <2> HIDE DEF e, g
  <2>2. DestOK(q, e, g) = DestOK(p, e, g)
    BY <1>1 DEF DestOK, StandIn, ContentAt, CurrentIndex, InstAt
  <2> QED BY <2>1, <2>2 DEF e, g
<1>4. OwnStandIns(q.labels)
  <2> SUFFICES ASSUME NEW l \in DOMAIN p.labels, NEW m \in DOMAIN p.labels, l # m,
                      NEW i \in 1 .. (Len(q.labels[l]) - 1), NEW j \in DOMAIN q.labels[m]
               PROVE  q.labels[l][i] # q.labels[m][j]
    BY <1>1 DEF OwnStandIns
  <2>1. CASE l = label
    <3>1. q.labels[l] = s /\ q.labels[m] = p.labels[m] /\ m # label
      BY <1>1, <1>2, <2>1
    <3> QED BY <3>1
  <2>2. CASE m = label
    BY <1>1, <1>2, <2>2
  <2>3. CASE l # label /\ m # label
    BY <1>1, <1>2, <2>3 DEF LabelsOK, OwnStandIns
  <2> QED BY <2>1, <2>2, <2>3
<1>5. JmpsGuarded(q)
  BY <1>1 DEF JmpsGuarded, InstAt
<1> QED BY <1>1, <1>3, <1>4, <1>5 DEF LabelsOK, q

(* Where the destinations behind the k-th jump begin: at f.                *)
LEMMA FirstForwardFacts ==
  ASSUME NEW p, WellFormed(p), NEW k \in DOMAIN p.jumps, NEW label \in DOMAIN p.labels,
         NEW f, f = FirstForward(p, p.jumps[k], label)
  PROVE  /\ f # 0 => f \in 1 .. Len(p.labels[label]) /\ p.labels[label][f] > p.jumps[k].index
         /\ f = 0 => \A i \in 1 .. Len(p.labels[label]) : ~(p.labels[label][i] > p.jumps[k].index)
<1> DEFINE s == p.labels[label]
           I == {i \in 1 .. Len(s) : s[i] > p.jumps[k].index}
<1>1. f = IF I # {} THEN Min(I) ELSE 0
  BY DEF FirstForward, SelectInSeq
<1>2. I \subseteq Nat /\ 0 \notin I
  BY WellFormedFacts
<1>3. I # {} => Min(I) \in I
  <2> HIDE DEF I
  <2> QED BY <1>2, MinProperties
<1>4. f # 0 => f \in I
  BY <1>1, <1>3
<1>5. f = 0 => I = {}
  BY <1>1, <1>2, <1>3
<1> QED BY <1>4, <1>5

(* Dropping the destinations in front of a jump leaves the labels right,   *)
(* and a list that begins behind the jump and ends where it ended.         *)
LEMMA DropBackwardLabels ==
  ASSUME NEW p, WellFormed(p), NEW h, LabelsOK(p, h), JmpsGuarded(p),
         NEW k \in DOMAIN p.jumps, NEW label \in DOMAIN p.labels,
         FirstForward(p, p.jumps[k], label) # 0
  PROVE  LET q == DropBackward(p, p.jumps[k], label)
         IN  /\ LabelsOK(q, h) /\ JmpsGuarded(q)
             /\ q.instructions = p.instructions /\ q.jumps = p.jumps
             /\ DOMAIN q.labels = DOMAIN p.labels
             /\ q.labels[label] # <<>> /\ q.labels[label][1] > p.jumps[k].index
             /\ \E f \in 1 .. Len(p.labels[label]) : q.labels[label][1] = p.labels[label][f]
<1> DEFINE d == p.labels[label]
           f == FirstForward(p, p.jumps[k], label)
           s == SubSeq(d, f, Len(d))
           g == h[label]
           q == [p EXCEPT !.labels[label] = s]
<1>1. d \in Seq(Nat) /\ Len(d) \in Nat /\ DOMAIN d = 1 .. Len(d)
  BY WellFormedFacts
<1>2. f \in 1 .. Len(d) /\ d[f] > p.jumps[k].index
  BY FirstForwardFacts
<1>3. DestOK(p, d, g)
  BY DEF LabelsOK
<1>4. DropBackward(p, p.jumps[k], label) = q
  BY DEF DropBackward
<1> HIDE DEF f, d, g
<1>5. /\ s \in Seq(Nat) /\ Len(s) = Len(d) - f + 1 /\ DOMAIN s = 1 .. Len(s)
      /\ Len(s) \in Nat /\ s # <<>>
      /\ \A i \in 1 .. Len(s) : s[i] = d[f + i - 1]
  <2>1. f \in Nat /\ f >= 1 /\ f <= Len(d)
    BY <1>1, <1>2
  <2>2. s \in Seq(Nat) /\ Len(s) = Len(d) - f + 1
    BY <1>1, <2>1
  <2>3. \A i \in 1 .. Len(s) : s[i] = d[f + i - 1]
    BY <1>1, <2>1, <2>2
  <2> HIDE DEF s
  <2> QED BY <1>1, <2>1, <2>2, <2>3
<1> HIDE DEF s
<1>6. \A i \in 1 .. Len(s) : f + i - 1 \in 1 .. Len(d)
  BY <1>1, <1>2, <1>5
<1>7. \A i \in 1 .. (Len(s) - 1) : i \in 1 .. Len(s) /\ f + i - 1 \in 1 .. (Len(d) - 1)
  BY <1>1, <1>2, <1>5
<1>8. DestOK(p, s, g)
  <2>1. \A i, j \in DOMAIN s : i < j => s[i] < s[j]
    <3> TAKE i, j \in DOMAIN s
    <3> HAVE i < j
    <3>1. f + i - 1 \in DOMAIN d /\ f + j - 1 \in DOMAIN d
      BY <1>1, <1>5, <1>6
    <3>2. f + i - 1 < f + j - 1
      BY <1>1, <1>2, <1>5
    <3>3. d[f + i - 1] < d[f + j - 1]
      BY <1>3, <3>1, <3>2 DEF DestOK
    <3> QED BY <1>5, <3>3
  <2>2. ContentAt(p, s[Len(s)]) = g
    <3>1. f + Len(s) - 1 = Len(d) /\ Len(s) \in 1 .. Len(s) /\ d # <<>>
      BY <1>1, <1>2, <1>5
    <3> QED BY <1>3, <1>5, <3>1 DEF DestOK
  <2>3. \A i \in 1 .. (Len(s) - 1) : StandIn(p, g, s[i])
    BY <1>3, <1>5, <1>7 DEF DestOK
  <2> QED BY <2>1, <2>2, <2>3 DEF DestOK
<1>9. \A m \in DOMAIN p.labels : m # label =>
        /\ \A i \in 1 .. (Len(s) - 1), j \in DOMAIN p.labels[m] : s[i] # p.labels[m][j]
        /\ \A i \in 1 .. (Len(p.labels[m]) - 1), j \in DOMAIN s : p.labels[m][i] # s[j]
  <2> TAKE m \in DOMAIN p.labels
  <2> HAVE m # label
  <2>1. /\ \A i \in 1 .. (Len(d) - 1), j \in DOMAIN p.labels[m] : d[i] # p.labels[m][j]
        /\ \A i \in 1 .. (Len(p.labels[m]) - 1), j \in DOMAIN d : p.labels[m][i] # d[j]
    BY DEF LabelsOK, OwnStandIns, d
  <2>2. \A i \in 1 .. (Len(s) - 1), j \in DOMAIN p.labels[m] : s[i] # p.labels[m][j]
    BY <1>5, <1>7, <2>1
  <2>3. \A i \in 1 .. (Len(p.labels[m]) - 1), j \in DOMAIN s : p.labels[m][i] # s[j]
    BY <1>1, <1>5, <1>6, <2>1
  <2> QED BY <2>2, <2>3
<1>10. LabelsOK(q, h) /\ JmpsGuarded(q)
  BY <1>5, <1>8, <1>9, SetDestOK DEF g
<1>11. /\ q.instructions = p.instructions /\ q.jumps = p.jumps
       /\ DOMAIN q.labels = DOMAIN p.labels /\ q.labels[label] = s
  BY <1>5, SetLabelsProperties
<1>12. s[1] = d[f]
  <2>1. 1 \in 1 .. Len(s) /\ f + 1 - 1 = f
    BY <1>1, <1>2, <1>5
  <2> QED BY <1>5, <2>1
<1> HIDE DEF q
<1> QED BY <1>2, <1>4, <1>5, <1>10, <1>11, <1>12 DEF d

(* The list of a far label with the inserted stand-in in front.            *)
LEMMA ConsDestOK ==
  ASSUME NEW p, NEW h, NEW y \in Nat, NEW d \in Seq(Nat), DestOK(p, d, h),
         d # <<>>, y < d[1], StandIn(p, h, y)
  PROVE  /\ Cons(y, d) \in Seq(Nat) /\ Len(Cons(y, d)) = Len(d) + 1
         /\ Cons(y, d)[1] = y
         /\ \A i \in 1 .. Len(d) : Cons(y, d)[i + 1] = d[i]
         /\ DestOK(p, Cons(y, d), h)
<1> DEFINE s == Cons(y, d)
<1>1. /\ s \in Seq(Nat) /\ Len(s) = Len(d) + 1 /\ s[1] = y
      /\ \A i \in 1 .. Len(d) : s[i + 1] = d[i]
  BY DEF Cons
<1> HIDE DEF s
<1>2. /\ Len(d) \in Nat /\ Len(d) >= 1 /\ DOMAIN d = 1 .. Len(d) /\ DOMAIN s = 1 .. (Len(d) + 1)
      /\ \A i \in 1 .. Len(d) : d[i] \in Nat
  BY <1>1
<1>3. \A i \in 2 .. (Len(d) + 1) : i - 1 \in 1 .. Len(d) /\ s[i] = d[i - 1]
  <2> TAKE i \in 2 .. (Len(d) + 1)
  <2>1. i - 1 \in 1 .. Len(d) /\ (i - 1) + 1 = i
    BY <1>2
  <2> QED BY <1>1, <2>1
<1>4. \A i, j \in DOMAIN s : i < j => s[i] < s[j]
  <2> TAKE i, j \in DOMAIN s
  <2> HAVE i < j
  <2>1. j \in 2 .. (Len(d) + 1) /\ s[j] = d[j - 1] /\ j - 1 \in 1 .. Len(d)
    <3>1. j \in 2 .. (Len(d) + 1)
      BY <1>2
    <3> QED BY <1>3, <3>1
  <2>2. CASE i = 1
    <3>1. d[1] <= d[j - 1]
      <4>1. CASE j - 1 = 1
        BY <1>2, <2>1, <4>1
      <4>2. CASE j - 1 > 1
        <5>1. 1 \in DOMAIN d /\ j - 1 \in DOMAIN d
          BY <1>2, <2>1
        <5>2. d[1] < d[j - 1]
          BY <4>2, <5>1 DEF DestOK
        <5> QED BY <1>2, <2>1, <5>1, <5>2
      <4> QED BY <1>2, <2>1, <4>1, <4>2
    <3>2. d[1] \in Nat /\ d[j - 1] \in Nat
      BY <1>2, <2>1
    <3>3. \A a, b, c \in Nat : a < b /\ b <= c => a < c
      OBVIOUS
    <3>4. y < d[j - 1]
      BY <3>1, <3>2, <3>3
    <3> QED BY <1>1, <2>1, <2>2, <3>4
  <2>3. CASE i # 1
    <3>1. i \in 2 .. (Len(d) + 1)
      BY <1>2, <2>3
    <3>2. s[i] = d[i - 1] /\ i - 1 \in DOMAIN d /\ j - 1 \in DOMAIN d /\ i - 1 < j - 1
      BY <1>2, <1>3, <2>1, <3>1
    <3> QED BY <2>1, <3>2 DEF DestOK
  <2> QED BY <2>2, <2>3
<1>5. ContentAt(p, s[Len(s)]) = h
  BY <1>1, <1>2 DEF DestOK
<1>6. \A i \in 1 .. (Len(s) - 1) : StandIn(p, h, s[i])
  <2> TAKE i \in 1 .. (Len(s) - 1)
  <2>1. CASE i = 1
    BY <1>1, <2>1
  <2>2. CASE i # 1
    <3>1. i \in 2 .. (Len(d) + 1) /\ i - 1 \in 1 .. (Len(d) - 1)
      BY <1>1, <1>2, <2>2
    <3> QED BY <1>3, <3>1 DEF DestOK
  <2> QED BY <2>1, <2>2
<1>7. DestOK(p, s, h)
  BY <1>4, <1>5, <1>6 DEF DestOK
<1> QED BY <1>1, <1>7 DEF s

(* inst is an instruction that Assemble inserts for the instruction h: its *)
(* copy when that is a return, else a long jump.                           *)
StandsFor(inst, h) ==
  /\ inst \in Instruction
  /\ inst.op \in {"ret", "jmp"}
  /\ IF h.op = "ret" THEN inst = h ELSE inst.op = "jmp"

(* What is inserted for a far destination stands for the label's           *)
(* instruction, though it is made from the label's first destination.      *)
LEMMA FarInstructionFacts ==
  ASSUME NEW p, WellFormed(p), NEW k \in DOMAIN p.jumps, NEW label \in DOMAIN p.labels,
         NEW h, DestOK(p, p.labels[label], h), p.labels[label] # <<>>,
         p.labels[label][1] < Len(p.instructions), NEW after \in Nat
  PROVE  StandsFor(FarInstruction(p, p.jumps[k], label, after), h)
<1> DEFINE d == p.labels[label]
           inst == FarInstruction(p, p.jumps[k], label, after)
<1>1. d \in Seq(Nat) /\ d[1] \in Nat /\ Len(d) \in Nat /\ Len(d) >= 1
  BY WellFormedFacts
<1>2. inst \in Instruction
  BY <1>1, FarInstructionType DEF FirstDest, CurrentIndex
<1>3. /\ InstAt(p, d[1]) \in Instruction
      /\ ContentAt(p, d[1]) = Content(InstAt(p, d[1]))
      /\ ContentAt(p, d[1]).op = InstAt(p, d[1]).op
  BY <1>1, InstAtFacts
<1>4. IF h.op = "ret" THEN ContentAt(p, d[1]) = h ELSE InstAt(p, d[1]).op # "ret"
  <2>1. CASE Len(d) = 1
    <3>1. ContentAt(p, d[1]) = h
      BY <2>1 DEF DestOK
    <3> QED BY <1>3, <3>1
  <2>2. CASE Len(d) # 1
    <3>1. 1 \in 1 .. (Len(d) - 1)
      <4> DEFINE n == Len(d)
      <4>1. n \in Nat /\ n >= 1 /\ n # 1
        BY <1>1, <2>2
      <4> HIDE DEF n
      <4>2. 1 \in 1 .. (n - 1)
        BY <4>1
      <4> QED BY <4>2 DEF n
    <3>2. StandIn(p, h, d[1])
      BY <3>1 DEF DestOK
    <3> QED BY <3>2 DEF StandIn
  <2> QED BY <2>1, <2>2
<1>5. CASE h.op = "ret"
  <2>1. IsRet(InstAt(p, d[1]))
    BY <1>3, <1>4, <1>5 DEF IsRet
  <2>2. Content(InstAt(p, d[1])) = InstAt(p, d[1])
    BY <1>3, <2>1, ContentFacts
  <2>3. inst = InstAt(p, d[1])
    BY <2>1 DEF FarInstruction
  <2> HIDE DEF inst
  <2>4. StandsFor(inst, h)
    BY <1>2, <1>3, <1>4, <1>5, <2>2, <2>3 DEF StandsFor
  <2> QED BY <2>4 DEF inst
<1>6. CASE h.op # "ret"
  <2>1. ~IsRet(InstAt(p, d[1]))
    BY <1>4, <1>6 DEF IsRet
  <2>2. inst.op = "jmp"
    BY <2>1 DEF FarInstruction, Jump
  <2> HIDE DEF inst
  <2>3. StandsFor(inst, h)
    BY <1>2, <1>6, <2>2 DEF StandsFor
  <2> QED BY <2>3 DEF inst
<1> QED BY <1>5, <1>6

(* q is p with inst, which stands for h, inserted behind the jump at x     *)
(* that findInsertAfter finds for the k-th jump.                           *)
Inserts(q, p, k, x, inst, h) ==
  /\ x \in Nat /\ x < Len(p.instructions)
  /\ x = FindInsertAfter(p.jumps, p.jumps[k]).index
  /\ p.jumps[k].index <= x /\ x < p.jumps[k].index + MaxSkip
  /\ Spliced(q, p, x, inst)
  /\ \A j \in DOMAIN p.jumps : j <= k => q.jumps[j] = p.jumps[j]
  /\ StandsFor(inst, h)

(* The long jump branch of resolveLabel leaves the labels right, with the  *)
(* inserted instruction the first destination of the label.                *)
LEMMA LongJumpLabels ==
  ASSUME NEW p, WellFormed(p), NEW h, LabelsOK(p, h), JmpsGuarded(p),
         NEW k \in DOMAIN p.jumps, NEW label \in DOMAIN p.labels, p.labels[label] # <<>>,
         p.labels[label][1] < Len(p.instructions),
         p.labels[label][1] > p.jumps[k].index + MaxSkip + 1
  PROVE  LET q == LongJump(p, p.jumps[k], label)
         IN  /\ LabelsOK(q, h) /\ JmpsGuarded(q)
             /\ q.labels[label] # <<>>
             /\ \E x, inst : /\ Inserts(q, p, k, x, inst, h[label])
                             /\ q.labels[label][1] = x + 1
<1>1. PICK m \in DOMAIN p.jumps :
        /\ m >= k /\ FindInsertAfter(p.jumps, p.jumps[k]) = p.jumps[m]
        /\ p.jumps[m].index < p.jumps[k].index + MaxSkip
  BY FindInsertAfterProperties
<1> DEFINE x == p.jumps[m].index
           d == p.labels[label]
           g == h[label]
           inst == FarInstruction(p, p.jumps[k], label, x)
           r == InsertAfter(p, p.jumps[m].index, inst)
           e == r.labels[label]
           s == Cons(x + 1, e)
           q == [r EXCEPT !.labels[label] = s]
<1>2. LongJump(p, p.jumps[k], label) = q
  BY <1>1 DEF LongJump
<1>3. /\ x \in Nat /\ x < Len(p.instructions) /\ IsJumpIf(InstAt(p, x))
      /\ Len(p.instructions) \in Nat /\ p.jumps[k].index \in Nat
  BY WellFormedFacts DEF WellFormed, JumpsTracked
<1>4. DestOK(p, d, g)
  BY DEF LabelsOK
<1>5. StandsFor(inst, g) /\ inst \in Instruction /\ inst.op \in {"ret", "jmp"}
  <2>1. StandsFor(inst, g)
    BY <1>3, <1>4, FarInstructionFacts
  <2> HIDE DEF inst, g
  <2> QED BY <2>1 DEF StandsFor
<1> HIDE DEF inst
<1>6. /\ WellFormed(r)
      /\ DOMAIN r.labels = DOMAIN p.labels
      /\ \A j \in DOMAIN p.jumps : j <= m => r.jumps[j] = p.jumps[j]
  BY <1>5, InsertAfterProperties
<1>7. Moves(r, p, x, inst)
  BY <1>5, InsertAfterMoves
<1> HIDE DEF r, x, g
<1>8. /\ r.labels \in Seq(Seq(Nat)) /\ \A l \in DOMAIN p.labels : r.labels[l] \in Seq(Nat)
      /\ Spliced(r, p, x, inst)
  BY <1>6, <1>7, WellFormedFacts DEF Moves
<1>9. \A l \in DOMAIN p.labels : DestOK(r, r.labels[l], h[l])
  <2> TAKE l \in DOMAIN p.labels
  <2>1. DestOK(p, p.labels[l], h[l]) /\ inst.op # "ld"
    BY <1>5 DEF LabelsOK
  <2> QED BY <1>3, <1>7, <1>8, <2>1, MovedDest
<1>10. /\ OwnStandIns(r.labels)
       /\ \A l \in DOMAIN r.labels : \A i \in DOMAIN r.labels[l] : r.labels[l][i] # x + 1
  BY <1>3, <1>7, <1>8, MovedOwn DEF LabelsOK
<1>11. JmpsGuarded(r)
  BY <1>3, <1>5, <1>8, MovedGuarded
<1>12. /\ d \in Seq(Nat) /\ Len(d) \in Nat /\ d[1] \in Nat /\ Len(e) = Len(d)
       /\ e[1] = ShiftFrom(x + 1, d[1]) /\ 1 \in 1 .. Len(d)
  <2>1. d \in Seq(Nat) /\ Len(d) \in Nat /\ d[1] \in Nat /\ 1 \in 1 .. Len(d)
    <3>1. d \in Seq(Nat) /\ d # <<>>
      BY WellFormedFacts
    <3> HIDE DEF d
    <3> QED BY <3>1
  <2> QED BY <1>7, <2>1 DEF Moves
<1> HIDE DEF d
<1>13. e # <<>> /\ x + 1 < e[1] /\ x + 1 \in Nat /\ e \in Seq(Nat)
  <2>1. d[1] > p.jumps[k].index + MaxSkip + 1 /\ x < p.jumps[k].index + MaxSkip
    BY <1>1 DEF d, x
  <2>2. x + 1 < e[1]
    <3> DEFINE n == d[1]
    <3>1. n \in Nat /\ n > p.jumps[k].index + MaxSkip + 1 /\ e[1] = ShiftFrom(x + 1, n)
      BY <1>12, <2>1
    <3> HIDE DEF n
    <3> QED BY <1>3, <2>1, <3>1, MaxSkipAssumption DEF ShiftFrom
  <2> QED BY <1>3, <1>8, <1>12, <2>2
<1>14. StandIn(r, g, x + 1)
  <2>1. x + 1 \in 1 .. (Len(r.instructions) - 1)
    BY <1>3, <1>8 DEF Spliced
  <2>2. InstAt(r, x + 1) = inst
    BY <1>8 DEF Spliced
  <2>3. IF g.op = "ret" THEN ContentAt(r, x + 1) = g ELSE InstAt(r, x + 1).op = "jmp"
    <3>1. ContentAt(r, x + 1) = Content(inst)
      <4>1. x + 1 < Len(r.instructions) /\ x + 1 \in Nat
        BY <1>3, <1>8 DEF Spliced
      <4> QED BY <1>6, <2>2, <4>1, InstAtFacts
    <3>2. g.op = "ret" => Content(inst) = inst
      BY <1>5, ContentFacts DEF IsRet, StandsFor
    <3> QED BY <1>5, <2>2, <3>1, <3>2 DEF StandsFor
  <2>4. InstAt(r, (x + 1) - 1).op # "ld"
    <3>1. (x + 1) - 1 = x /\ ShiftFrom(x + 1, x) = x /\ x \in 0 .. (Len(p.instructions) - 1)
      BY <1>3 DEF ShiftFrom
    <3>2. InstAt(r, x) = InstAt(p, x)
      BY <1>8, <3>1 DEF Spliced
    <3> QED BY <1>3, <3>1, <3>2 DEF IsJumpIf
  <2> QED BY <2>1, <2>3, <2>4 DEF StandIn
<1>15. DestOK(r, e, g)
  BY <1>9 DEF g
<1>16. /\ s \in Seq(Nat) /\ Len(s) = Len(e) + 1 /\ s[1] = x + 1
       /\ \A i \in 1 .. Len(e) : s[i + 1] = e[i]
       /\ DestOK(r, s, g)
  <2> DEFINE y == x + 1
  <2> HIDE DEF e, y
  <2>1. y \in Nat /\ e \in Seq(Nat) /\ e # <<>> /\ y < e[1] /\ StandIn(r, g, y) /\ DestOK(r, e, g)
    BY <1>13, <1>14, <1>15 DEF e, y
  <2>2. /\ Cons(y, e) \in Seq(Nat) /\ Len(Cons(y, e)) = Len(e) + 1
        /\ Cons(y, e)[1] = y
        /\ \A i \in 1 .. Len(e) : Cons(y, e)[i + 1] = e[i]
        /\ DestOK(r, Cons(y, e), g)
    BY <2>1, ConsDestOK
  <2> QED BY <2>2 DEF y
<1> HIDE DEF s
<1>17. \A i \in 1 .. Len(s) : s[i] = x + 1 \/ (i - 1 \in 1 .. Len(e) /\ s[i] = e[i - 1])
  <2> TAKE i \in 1 .. Len(s)
  <2>1. Len(e) \in Nat
    BY <1>13
  <2>2. CASE i = 1
    BY <1>16, <2>2
  <2>3. CASE i # 1
    <3>1. i - 1 \in 1 .. Len(e) /\ (i - 1) + 1 = i
      <4>1. \A n \in Nat : \A a \in 1 .. (n + 1) : a # 1 => a - 1 \in 1 .. n /\ (a - 1) + 1 = a
        OBVIOUS
      <4> QED BY <1>16, <2>1, <2>3, <4>1
    <3> QED BY <1>16, <3>1
  <2> QED BY <2>2, <2>3
<1>18. \A l \in DOMAIN r.labels : l # label =>
        /\ \A i \in 1 .. (Len(s) - 1), j \in DOMAIN r.labels[l] : s[i] # r.labels[l][j]
        /\ \A i \in 1 .. (Len(r.labels[l]) - 1), j \in DOMAIN s : r.labels[l][i] # s[j]
  <2> TAKE l \in DOMAIN r.labels
  <2> HAVE l # label
  <2>1. label \in DOMAIN r.labels
    BY <1>6
  <2>2. /\ \A i \in 1 .. (Len(e) - 1), j \in DOMAIN r.labels[l] : e[i] # r.labels[l][j]
        /\ \A i \in 1 .. (Len(r.labels[l]) - 1), j \in DOMAIN e : r.labels[l][i] # e[j]
    BY <1>10, <2>1 DEF OwnStandIns
  <2>3. /\ Len(e) \in Nat /\ DOMAIN e = 1 .. Len(e) /\ DOMAIN s = 1 .. Len(s)
        /\ Len(r.labels[l]) \in Nat /\ DOMAIN r.labels[l] = 1 .. Len(r.labels[l])
    <3>1. r.labels[l] \in Seq(Nat)
      BY <1>6, <1>8
    <3>2. e \in Seq(Nat) /\ s \in Seq(Nat)
      BY <1>13, <1>16
    <3> HIDE DEF e
    <3>3. \A t \in Seq(Nat) : Len(t) \in Nat /\ DOMAIN t = 1 .. Len(t)
      OBVIOUS
    <3> QED BY <3>1, <3>2, <3>3
  <2> HIDE DEF e
  <2>4. \A i \in 1 .. (Len(s) - 1), j \in DOMAIN r.labels[l] : s[i] # r.labels[l][j]
    <3> TAKE i \in 1 .. (Len(s) - 1), j \in DOMAIN r.labels[l]
    <3>1. i \in 1 .. Len(s) /\ (i - 1 \in 1 .. Len(e) => i - 1 \in 1 .. (Len(e) - 1))
      BY <1>16, <2>3
    <3> QED BY <1>10, <1>17, <2>2, <3>1
  <2>5. \A i \in 1 .. (Len(r.labels[l]) - 1), j \in DOMAIN s : r.labels[l][i] # s[j]
    <3> TAKE i \in 1 .. (Len(r.labels[l]) - 1), j \in DOMAIN s
    <3>1. i \in DOMAIN r.labels[l]
      BY <2>3
    <3> QED BY <1>10, <1>17, <2>2, <2>3, <3>1
  <2> QED BY <2>4, <2>5
<1>19. LabelsOK(r, h)
  BY <1>6, <1>9, <1>10 DEF LabelsOK
<1>20. LabelsOK(q, h) /\ JmpsGuarded(q)
  BY <1>6, <1>11, <1>16, <1>18, <1>19, SetDestOK DEF g
<1>21. q.instructions = r.instructions /\ q.jumps = r.jumps /\ q.labels[label] = s
  BY <1>6, <1>16, SetLabelsProperties
<1> HIDE DEF q
<1>22. s # <<>> /\ s[1] = x + 1
  BY <1>16, <1>13
<1>23. Inserts(q, p, k, x, inst, g)
  <2>1. Spliced(q, p, x, inst)
    BY <1>8, <1>21 DEF Spliced, InstAt
  <2>2. /\ x = FindInsertAfter(p.jumps, p.jumps[k]).index
        /\ x < p.jumps[k].index + MaxSkip
    BY <1>1 DEF x
  <2>3. k \in Nat /\ m \in Nat /\ k <= m /\ DOMAIN p.jumps \subseteq Nat
    <3>1. Len(p.jumps) \in Nat /\ DOMAIN p.jumps = 1 .. Len(p.jumps)
      BY WellFormedFacts
    <3>2. DOMAIN p.jumps \subseteq Nat
      BY <3>1
    <3> QED BY <1>1, <3>2
  <2>4. p.jumps[k].index <= x
    <3>1. CASE k = m
      BY <1>3, <3>1 DEF x
    <3>2. CASE k < m
      BY <1>3, <3>2 DEF x, WellFormed, JumpsTracked
    <3> QED BY <2>3, <3>1, <3>2
  <2>5. \A j \in DOMAIN p.jumps : j <= k => q.jumps[j] = p.jumps[j]
    BY <1>6, <1>21, <2>3
  <2> QED BY <1>3, <1>5, <2>1, <2>2, <2>4, <2>5 DEF Inserts
<1>24. q.labels[label] # <<>> /\ q.labels[label][1] = x + 1
  BY <1>21, <1>22
<1> QED BY <1>2, <1>20, <1>23, <1>24 DEF g

-----------------------------------------------------------------------------
(* resolveLabel.                                                           *)

(* A conversion to uint8 keeps a number that fits.                         *)
LEMMA ModSmall ==
  ASSUME NEW n \in Nat \ {0}, NEW x \in 0 .. (n - 1)
  PROVE  x % n = x
OBVIOUS

(* What a successful resolveLabel leaves in r for the k-th jump of p: a    *)
(* skip to the first destination of the label, which is one that p had, or *)
(* the instruction that is inserted.                                       *)
Lands(r, p, k, label, h) ==
  /\ LabelsOK(r.prog, h) /\ JmpsGuarded(r.prog)
  /\ r.prog.labels[label] # <<>>
  /\ r.prog.labels[label][1] = p.jumps[k].index + 1 + r.skip
  /\ \/ /\ r.prog.instructions = p.instructions
        /\ r.prog.jumps = p.jumps
        /\ \E f \in 1 .. Len(p.labels[label]) : r.prog.labels[label][1] = p.labels[label][f]
     \/ \E x, inst : /\ Inserts(r.prog, p, k, x, inst, h[label])
                     /\ r.skip = x - p.jumps[k].index

(* Resolving to a near destination.                                        *)
LEMMA NearLands ==
  ASSUME NEW p, WellFormed(p), NEW h, LabelsOK(p, h), JmpsGuarded(p),
         NEW k \in DOMAIN p.jumps, NEW label \in DOMAIN p.labels,
         FirstForward(p, p.jumps[k], label) # 0,
         NEW q, q = DropBackward(p, p.jumps[k], label),
         ComputeSkipN(q, p.jumps[k], label) <= MaxSkip
  PROVE  Lands(Resolved(q, p.jumps[k], label), p, k, label, h)
<1> DEFINE index == p.jumps[k].index
           d == q.labels[label][1]
           skip == ComputeSkipN(q, p.jumps[k], label) % (MaxSkip + 1)
           r == [prog |-> q, skip |-> skip, err |-> "none"]
<1>1. /\ LabelsOK(q, h) /\ JmpsGuarded(q)
      /\ q.instructions = p.instructions /\ q.jumps = p.jumps
      /\ q.labels[label] # <<>> /\ d > index
      /\ \E f \in 1 .. Len(p.labels[label]) : d = p.labels[label][f]
  BY DropBackwardLabels
<1>2. index \in Nat /\ d \in Nat
  BY DropBackwardKeeps, WellFormedFacts DEF FirstDest
<1>3. d = index + 1 + skip
  <2> DEFINE y == d - index - 1
  <2>1. ComputeSkipN(q, p.jumps[k], label) = y
    BY DEF ComputeSkipN
  <2>2. d > index /\ y <= MaxSkip
    BY <1>1, <2>1
  <2> HIDE DEF d, index
  <2>3. y \in 0 .. ((MaxSkip + 1) - 1) /\ MaxSkip + 1 \in Nat \ {0} /\ d = index + 1 + y
    BY <1>2, <2>2, MaxSkipAssumption
  <2> HIDE DEF y
  <2>4. y % (MaxSkip + 1) = y
    BY <2>3, ModSmall
  <2>5. skip = y
    BY <2>1, <2>4
  <2> QED BY <2>3, <2>5
<1>4. Resolved(q, p.jumps[k], label) = r
  BY DEF Resolved
<1> HIDE DEF skip
<1>5. r.prog = q /\ r.skip = skip
  OBVIOUS
<1> HIDE DEF r
<1>6. Lands(r, p, k, label, h)
  BY <1>1, <1>3, <1>5 DEF Lands
<1> QED BY <1>4, <1>6

(* Resolving to a far destination, over an inserted instruction.           *)
LEMMA FarLands ==
  ASSUME NEW p, WellFormed(p), NEW h, LabelsOK(p, h), JmpsGuarded(p),
         NEW k \in DOMAIN p.jumps, NEW label \in DOMAIN p.labels,
         FirstForward(p, p.jumps[k], label) # 0,
         NEW q, q = DropBackward(p, p.jumps[k], label),
         ~(ComputeSkipN(q, p.jumps[k], label) <= MaxSkip),
         ~(q.labels[label][1] >= CurrentIndex(q))
  PROVE  Lands(Resolved(LongJump(q, p.jumps[k], label), p.jumps[k], label), p, k, label, h)
<1> DEFINE index == p.jumps[k].index
           d == q.labels[label][1]
           t == LongJump(q, p.jumps[k], label)
           skip == ComputeSkipN(t, p.jumps[k], label) % (MaxSkip + 1)
           r == [prog |-> t, skip |-> skip, err |-> "none"]
<1>1. /\ LabelsOK(q, h) /\ JmpsGuarded(q)
      /\ q.instructions = p.instructions /\ q.jumps = p.jumps
      /\ q.labels[label] # <<>> /\ d > index
      /\ DOMAIN q.labels = DOMAIN p.labels
  BY DropBackwardLabels
<1>2. WellFormed(q) /\ index \in Nat /\ d \in Nat /\ Len(q.instructions) \in Nat
  BY DropBackwardKeeps, WellFormedFacts DEF FirstDest, Keeps
<1>3. d < Len(q.instructions) /\ d > index + MaxSkip + 1
  BY <1>2, MaxSkipAssumption DEF ComputeSkipN, CurrentIndex
<1>4. /\ LabelsOK(t, h) /\ JmpsGuarded(t) /\ t.labels[label] # <<>>
      /\ \E x, inst : Inserts(t, q, k, x, inst, h[label]) /\ t.labels[label][1] = x + 1
  <2>1. k \in DOMAIN q.jumps /\ label \in DOMAIN q.labels /\ q.jumps[k] = p.jumps[k]
    BY <1>1
  <2>2. /\ LabelsOK(LongJump(q, q.jumps[k], label), h)
        /\ JmpsGuarded(LongJump(q, q.jumps[k], label))
        /\ LongJump(q, q.jumps[k], label).labels[label] # <<>>
        /\ \E x, inst : /\ Inserts(LongJump(q, q.jumps[k], label), q, k, x, inst, h[label])
                        /\ LongJump(q, q.jumps[k], label).labels[label][1] = x + 1
    BY <1>1, <1>2, <1>3, <2>1, LongJumpLabels
  <2> QED BY <2>1, <2>2
<1> HIDE DEF t
<1>5. PICK x, inst : Inserts(t, q, k, x, inst, h[label]) /\ t.labels[label][1] = x + 1
  BY <1>4
<1>6. Inserts(t, p, k, x, inst, h[label])
  <2>1. Spliced(t, p, x, inst)
    BY <1>1, <1>5 DEF Inserts, Spliced, InstAt
  <2> QED BY <1>1, <1>5, <2>1 DEF Inserts
<1>7. x \in Nat /\ index <= x /\ x < index + MaxSkip
  BY <1>6 DEF Inserts
<1>8. skip = x - index
  <2>1. ComputeSkipN(t, p.jumps[k], label) = (x + 1) - index - 1
    BY <1>5 DEF ComputeSkipN
  <2> HIDE DEF index
  <2>2. /\ (x + 1) - index - 1 = x - index
        /\ x - index \in 0 .. ((MaxSkip + 1) - 1) /\ MaxSkip + 1 \in Nat \ {0}
    BY <1>2, <1>7, MaxSkipAssumption
  <2>3. (x - index) % (MaxSkip + 1) = x - index
    BY <2>2, ModSmall
  <2> QED BY <2>1, <2>2, <2>3
<1>9. Resolved(t, p.jumps[k], label) = r
  BY DEF Resolved
<1> HIDE DEF skip
<1>10. r.prog = t /\ r.skip = skip
  OBVIOUS
<1> HIDE DEF r
<1>11. t.labels[label][1] = index + 1 + skip
  <2> HIDE DEF index
  <2> QED BY <1>2, <1>5, <1>7, <1>8
<1>12. Lands(r, p, k, label, h)
  BY <1>4, <1>6, <1>8, <1>10, <1>11 DEF Lands
<1> QED BY <1>9, <1>12 DEF t

(* resolveLabel that returns no error lands on the first destination.      *)
LEMMA ResolveLabelLands ==
  ASSUME NEW p, WellFormed(p), NEW h, LabelsOK(p, h), JmpsGuarded(p),
         NEW k \in DOMAIN p.jumps, NEW label \in DOMAIN p.labels,
         ResolveLabel(p, p.jumps[k], label).err = "none"
  PROVE  Lands(ResolveLabel(p, p.jumps[k], label), p, k, label, h)
<1> DEFINE jump == p.jumps[k]
           q == DropBackward(p, jump, label)
           r == ResolveLabel(p, jump, label)
<1>1. p.labels[label] # <<>>
  BY DEF ResolveLabel, Failed
<1>2. FirstForward(p, jump, label) # 0
  BY <1>1 DEF ResolveLabel, Failed
<1>3. CASE ComputeSkipN(q, jump, label) <= MaxSkip
  <2>1. r = Resolved(q, jump, label)
    BY <1>1, <1>2, <1>3 DEF ResolveLabel
  <2>2. Lands(Resolved(q, jump, label), p, k, label, h)
    BY <1>2, <1>3, NearLands
  <2> QED BY <2>1, <2>2
<1>4. CASE ~(ComputeSkipN(q, jump, label) <= MaxSkip)
  <2>1. ~(q.labels[label][1] >= CurrentIndex(q))
    BY <1>1, <1>2, <1>4 DEF ResolveLabel, Failed
  <2>2. r = Resolved(LongJump(q, jump, label), jump, label)
    BY <1>1, <1>2, <1>4, <2>1 DEF ResolveLabel
  <2>3. Lands(Resolved(LongJump(q, jump, label), jump, label), p, k, label, h)
    BY <1>2, <1>4, <2>1, FarLands
  <2> QED BY <2>2, <2>3
<1> QED BY <1>3, <1>4

(* resolveLabel returns no error for a label whose last destination is     *)
(* behind the jump and in the program.                                     *)
LEMMA ResolveLabelSucceeds ==
  ASSUME NEW p, WellFormed(p), NEW h, LabelsOK(p, h), JmpsGuarded(p),
         NEW k \in DOMAIN p.jumps, NEW label \in DOMAIN p.labels,
         p.labels[label] # <<>>,
         p.jumps[k].index < p.labels[label][Len(p.labels[label])],
         p.labels[label][Len(p.labels[label])] < Len(p.instructions)
  PROVE  ResolveLabel(p, p.jumps[k], label).err = "none"
<1> DEFINE jump == p.jumps[k]
           d == p.labels[label]
           q == DropBackward(p, jump, label)
<1>1. /\ d \in Seq(Nat) /\ Len(d) \in Nat /\ Len(d) \in 1 .. Len(d)
      /\ \A i \in 1 .. Len(d) : d[i] \in Nat
      /\ jump.index \in Nat
  <2>1. d \in Seq(Nat) /\ d # <<>> /\ jump.index \in Nat
    BY WellFormedFacts
  <2> HIDE DEF d, jump
  <2> QED BY <2>1
<1>2. FirstForward(p, jump, label) # 0
  <2>1. d[Len(d)] > jump.index
    BY <1>1
  <2> QED BY <1>1, <2>1, FirstForwardFacts
<1>3. /\ q.instructions = p.instructions
      /\ \E f \in 1 .. Len(d) : q.labels[label][1] = d[f]
  BY <1>2, DropBackwardLabels
<1>4. PICK f \in 1 .. Len(d) : q.labels[label][1] = d[f]
  BY <1>3
<1>5. d[f] <= d[Len(d)]
  <2>1. CASE f = Len(d)
    BY <1>1, <2>1
  <2>2. CASE f # Len(d)
    <3>1. f \in DOMAIN d /\ Len(d) \in DOMAIN d /\ f < Len(d)
      BY <1>1, <2>2
    <3>2. DestOK(p, d, h[label])
      BY DEF LabelsOK
    <3>3. d[f] < d[Len(d)]
      BY <3>1, <3>2 DEF DestOK
    <3> QED BY <1>1, <3>3
  <2> QED BY <2>1, <2>2
<1>6. ~(q.labels[label][1] >= CurrentIndex(q))
  <2>1. Len(p.instructions) \in Nat /\ d[f] \in Nat /\ d[Len(d)] \in Nat
    BY <1>1, WellFormedFacts
  <2>2. d[f] < Len(p.instructions)
    BY <1>5, <2>1
  <2> QED BY <1>3, <1>4, <2>1, <2>2 DEF CurrentIndex
<1>7. CASE ComputeSkipN(q, jump, label) <= MaxSkip
  BY <1>2, <1>7 DEF ResolveLabel, Resolved
<1>8. CASE ~(ComputeSkipN(q, jump, label) <= MaxSkip)
  BY <1>2, <1>6, <1>8 DEF ResolveLabel, Resolved
<1> QED BY <1>7, <1>8

-----------------------------------------------------------------------------
(* Writing the skips back.                                                 *)

(* q differs from p in skips only.                                         *)
SameContent(q, p) ==
  /\ q.jumps = p.jumps /\ q.labels = p.labels
  /\ Len(q.instructions) = Len(p.instructions)
  /\ \A i \in 0 .. (Len(p.instructions) - 1) : InstAt(q, i).op = InstAt(p, i).op
  /\ \A i \in Nat : ContentAt(q, i) = ContentAt(p, i)

(* Writing its skips into a JumpIf changes the skips of that JumpIf.       *)
LEMMA StoreSkipsFacts ==
  ASSUME NEW p, WellFormed(p), NEW k \in DOMAIN p.jumps,
         NEW st \in 0 .. MaxSkip, NEW sf \in 0 .. MaxSkip
  PROVE  LET q == StoreSkips(p, p.jumps[k], st, sf)
         IN  /\ SameContent(q, p)
             /\ InstAt(q, p.jumps[k].index).st = st
             /\ InstAt(q, p.jumps[k].index).sf = sf
             /\ \A i \in 0 .. (Len(p.instructions) - 1) :
                  i # p.jumps[k].index => InstAt(q, i) = InstAt(p, i)
<1> DEFINE x == p.jumps[k].index
           old == p.instructions[x + 1]
           new == [old EXCEPT !.st = st, !.sf = sf]
           ins == [p.instructions EXCEPT ![x + 1] = new]
           q == [p EXCEPT !.instructions[x + 1] = new]
<1>1. /\ x \in Nat /\ x < Len(p.instructions)
      /\ p.instructions \in Seq(Instruction) /\ Len(p.instructions) \in Nat
      /\ x + 1 \in 1 .. Len(p.instructions)
  BY WellFormedFacts DEF WellFormed, JumpsTracked
<1>2. old \in Instruction /\ old.op = "jif"
  BY <1>1 DEF WellFormed, JumpsTracked, IsJumpIf, InstAt
<1>3. new.op = "jif" /\ new.st = st /\ new.sf = sf /\ new.cond = old.cond /\ new.val = old.val
  BY <1>2 DEF Instruction
<1>4. Content(new) = Content(old)
  BY <1>2, <1>3 DEF Content, IsJumpIf
<1>5. StoreSkips(p, p.jumps[k], st, sf) = q
  BY DEF StoreSkips, InstAt
<1> HIDE DEF old, new
<1>6. /\ Len(ins) = Len(p.instructions)
      /\ ins[x + 1] = new
      /\ \A j \in 1 .. Len(p.instructions) : j # x + 1 => ins[j] = p.instructions[j]
  BY <1>1
<1>7. q.instructions = ins /\ q.jumps = p.jumps /\ q.labels = p.labels
  BY DEF WellFormed, ProgramType
<1> HIDE DEF ins, q, x
<1>8. InstAt(q, x) = new /\ InstAt(p, x) = old
  BY <1>6, <1>7 DEF InstAt, old
<1>9. \A i \in 0 .. (Len(p.instructions) - 1) : i # x => InstAt(q, i) = InstAt(p, i)
  <2> TAKE i \in 0 .. (Len(p.instructions) - 1)
  <2> HAVE i # x
  <2>1. i + 1 \in 1 .. Len(p.instructions) /\ i + 1 # x + 1
    BY <1>1
  <2> QED BY <1>6, <1>7, <2>1 DEF InstAt
<1>10. \A i \in 0 .. (Len(p.instructions) - 1) : InstAt(q, i).op = InstAt(p, i).op
  BY <1>2, <1>3, <1>8, <1>9
<1>11. \A i \in Nat : ContentAt(q, i) = ContentAt(p, i)
  <2> TAKE i \in Nat
  <2>1. CASE i < Len(p.instructions)
    <3>1. i \in 0 .. (Len(p.instructions) - 1)
      BY <1>1, <2>1
    <3>2. Content(InstAt(q, i)) = Content(InstAt(p, i))
      BY <1>4, <1>8, <1>9, <3>1
    <3> QED BY <1>6, <1>7, <2>1, <3>2 DEF ContentAt, CurrentIndex
  <2>2. CASE ~(i < Len(p.instructions))
    BY <1>6, <1>7, <2>2 DEF ContentAt, CurrentIndex
  <2> QED BY <2>1, <2>2
<1>12. SameContent(q, p)
  BY <1>6, <1>7, <1>10, <1>11 DEF SameContent
<1> QED BY <1>3, <1>5, <1>8, <1>9, <1>12 DEF x

(* The labels do not depend on the skips.                                  *)
LEMMA SameContentLabels ==
  ASSUME NEW p, WellFormed(p), NEW h, LabelsOK(p, h), JmpsGuarded(p), NEW q, SameContent(q, p)
  PROVE  LabelsOK(q, h) /\ JmpsGuarded(q)
<1> DEFINE n == Len(p.instructions)
<1>1. /\ n \in Nat /\ q.labels = p.labels /\ Len(q.instructions) = n
      /\ \A i \in 0 .. (n - 1) : InstAt(q, i).op = InstAt(p, i).op
      /\ \A i \in Nat : ContentAt(q, i) = ContentAt(p, i)
  BY WellFormedFacts DEF SameContent
<1>2. \A g, i : StandIn(p, g, i) => StandIn(q, g, i)
  <2> SUFFICES ASSUME NEW g, NEW i, StandIn(p, g, i) PROVE StandIn(q, g, i)
    OBVIOUS
  <2>1. i \in 1 .. (n - 1)
    BY DEF StandIn
  <2>2. i \in 0 .. (n - 1) /\ i - 1 \in 0 .. (n - 1) /\ i \in Nat
    BY <1>1, <2>1
  <2>3. /\ InstAt(q, i).op = InstAt(p, i).op /\ InstAt(q, i - 1).op = InstAt(p, i - 1).op
        /\ ContentAt(q, i) = ContentAt(p, i)
    BY <1>1, <2>2
  <2> HIDE DEF n
  <2> QED BY <1>1, <2>1, <2>3 DEF StandIn
<1>3. \A l \in DOMAIN p.labels : DestOK(q, p.labels[l], h[l])
  <2> TAKE l \in DOMAIN p.labels
  <2> DEFINE d == p.labels[l]
             g == h[l]
  <2>1. d \in Seq(Nat) /\ DestOK(p, d, g)
    BY WellFormedFacts DEF LabelsOK
  <2> HIDE DEF d, g
  <2>2. d # <<>> => d[Len(d)] \in Nat
    BY <2>1
  <2>3. DestOK(q, d, g)
    BY <1>1, <1>2, <2>1, <2>2 DEF DestOK
  <2> QED BY <2>3 DEF d, g
<1>4. JmpsGuarded(q)
  <2> SUFFICES ASSUME NEW i \in 0 .. (n - 1), InstAt(q, i).op = "jmp"
               PROVE  i > 0 /\ InstAt(q, i - 1).op # "ld"
    BY <1>1 DEF JmpsGuarded
  <2>1. i > 0 /\ InstAt(p, i - 1).op # "ld"
    BY <1>1 DEF JmpsGuarded
  <2>2. i - 1 \in 0 .. (n - 1)
    BY <1>1, <2>1
  <2> QED BY <1>1, <2>1, <2>2
<1> QED BY <1>1, <1>3, <1>4 DEF LabelsOK

-----------------------------------------------------------------------------
(* The client's methods keep a program fresh: each label has at most one   *)
(* destination, and the client emits no unconditional jump.                *)

(* Emitting an instruction other than a jump keeps a program fresh.        *)
LEMMA EmitFresh ==
  ASSUME NEW p, WellFormed(p), Fresh(p), NEW inst \in Instruction, inst.op # "jmp"
  PROVE  Fresh(Emit(p, inst))
<1> DEFINE ins == Append(p.instructions, inst)
           q == [p EXCEPT !.instructions = Append(@, inst)]
<1>1. p.instructions \in Seq(Instruction)
  BY WellFormedFacts
<1>2. \A i \in DOMAIN ins : ins[i].op # "jmp"
  BY <1>1 DEF Fresh
<1>3. q.instructions = ins /\ q.labels = p.labels
  BY DEF WellFormed, ProgramType
<1> HIDE DEF ins, q
<1>4. Fresh(q)
  BY <1>2, <1>3 DEF Fresh
<1> QED BY <1>4 DEF Emit, q

(* NewLabel keeps a program fresh: the new label has no destination.       *)
LEMMA AddLabelFresh ==
  ASSUME NEW p, WellFormed(p), Fresh(p)
  PROVE  Fresh(AddLabel(p)) /\ AddLabel(p).labels[FreshLabel(p)] = <<>>
<1> DEFINE labels == Append(p.labels, <<>>)
           q == [p EXCEPT !.labels = Append(@, <<>>)]
<1>1. p.labels \in Seq(Seq(Nat)) /\ Len(p.labels) \in Nat
  BY WellFormedFacts
<1>2. \A l \in DOMAIN p.labels : Len(p.labels[l]) <= 1
  BY DEF Fresh
<1>3. DOMAIN labels = 1 .. (Len(p.labels) + 1) /\ DOMAIN p.labels = 1 .. Len(p.labels)
  BY <1>1
<1>4. \A l \in 1 .. Len(p.labels) : labels[l] = p.labels[l]
  BY <1>1
<1>5. labels[Len(p.labels) + 1] = <<>> /\ Len(<<>>) = 0
  BY <1>1
<1>6. q.instructions = p.instructions /\ q.labels = labels
  BY DEF WellFormed, ProgramType
<1> HIDE DEF labels, q
<1>7. \A l \in DOMAIN labels : Len(labels[l]) <= 1
  <2> TAKE l \in DOMAIN labels
  <2>1. CASE l = Len(p.labels) + 1
    BY <1>5, <2>1
  <2>2. CASE l # Len(p.labels) + 1
    <3>1. l \in 1 .. Len(p.labels)
      BY <1>1, <1>3, <2>2
    <3> QED BY <1>2, <1>3, <1>4, <3>1
  <2> QED BY <2>1, <2>2
<1>8. Fresh(q)
  BY <1>6, <1>7 DEF Fresh
<1> QED BY <1>5, <1>6, <1>8 DEF AddLabel, FreshLabel, q

(* SetLabel of a label that is not set keeps a program fresh.              *)
LEMMA SetLabelFresh ==
  ASSUME NEW p, WellFormed(p), Fresh(p), NEW label \in DOMAIN p.labels, p.labels[label] = <<>>
  PROVE  Fresh(SetLabel(p, label))
<1> DEFINE s == <<CurrentIndex(p)>>
           q == [p EXCEPT !.labels[label] = s]
<1>1. s \in Seq(Nat) /\ Len(s) = 1
  BY WellFormedFacts DEF CurrentIndex
<1>2. SetLabel(p, label) = q
  BY DEF SetLabel
<1>3. /\ q.instructions = p.instructions
      /\ DOMAIN q.labels = DOMAIN p.labels /\ q.labels[label] = s
  BY <1>1, SetLabelsProperties
<1>4. \A m \in DOMAIN p.labels : m # label => q.labels[m] = p.labels[m]
  BY DEF WellFormed, ProgramType
<1> HIDE DEF q, s
<1>5. \A m \in DOMAIN q.labels : Len(q.labels[m]) <= 1
  <2> TAKE m \in DOMAIN q.labels
  <2>1. CASE m = label
    <3>1. Len(q.labels[m]) = 1
      BY <1>1, <1>3, <2>1
    <3> QED BY <3>1
  <2>2. CASE m # label
    BY <1>3, <1>4, <2>2 DEF Fresh
  <2> QED BY <2>1, <2>2
<1>6. Fresh(q)
  BY <1>3, <1>5 DEF Fresh
<1> QED BY <1>2, <1>6

(* JmpIf keeps a program fresh and its labels as they are.                 *)
LEMMA JmpIfFresh ==
  ASSUME NEW p, WellFormed(p), Fresh(p), NEW cond, NEW val, NEW t, NEW f
  PROVE  Fresh(JmpIf(p, cond, val, t, f)) /\ JmpIf(p, cond, val, t, f).labels = p.labels
<1> DEFINE jump == [index |-> CurrentIndex(p), trueLabel |-> t, falseLabel |-> f]
           inst == JumpIf(cond, val)
           ins == Append(p.instructions, inst)
           q == [[p EXCEPT !.jumps = Append(@, jump)] EXCEPT !.instructions = Append(@, inst)]
<1>1. p.instructions \in Seq(Instruction) /\ Len(p.instructions) \in Nat
  BY WellFormedFacts
<1>2. inst.op # "jmp"
  BY DEF JumpIf
<1> HIDE DEF inst, jump
<1>3. \A i \in DOMAIN ins : ins[i].op # "jmp"
  BY <1>1, <1>2 DEF Fresh
<1>4. q.instructions = ins /\ q.labels = p.labels
  BY DEF WellFormed, ProgramType
<1>5. JmpIf(p, cond, val, t, f) = q
  BY DEF JmpIf, Emit, inst, jump
<1> HIDE DEF ins, q
<1>6. Fresh(q)
  BY <1>3, <1>4 DEF Fresh
<1> QED BY <1>4, <1>5, <1>6

(* JmpIfTrue keeps a program fresh.                                        *)
LEMMA JmpIfTrueFresh ==
  ASSUME NEW p, WellFormed(p), Fresh(p), NEW cond \in Conds, NEW val \in Nat,
         NEW t \in DOMAIN p.labels
  PROVE  Fresh(JmpIfTrue(p, cond, val, t))
<1> DEFINE l == FreshLabel(p)
           a == AddLabel(p)
           b == JmpIf(a, cond, val, t, l)
           c == SetLabel(b, l)
<1>1. /\ WellFormed(a) /\ DOMAIN p.labels \subseteq DOMAIN a.labels
      /\ l \in DOMAIN a.labels /\ Fresh(a) /\ a.labels[l] = <<>>
  BY AddLabelGrows, AddLabelFresh DEF Grows
<1>2. JmpIfTrue(p, cond, val, t) = c
  BY DEF JmpIfTrue
<1> HIDE DEF a, l
<1>3. WellFormed(b) /\ Fresh(b) /\ b.labels = a.labels
  BY <1>1, JmpIfGrows, JmpIfFresh DEF Grows
<1> HIDE DEF b
<1>4. Fresh(c)
  BY <1>1, <1>3, SetLabelFresh
<1> QED BY <1>2, <1>4

(* A fresh program has its labels in order, whatever they stand for.       *)
LEMMA FreshLabelsOK ==
  ASSUME NEW p, WellFormed(p), Fresh(p), NEW h,
         \A l \in DOMAIN p.labels : p.labels[l] # <<>> => h[l] = ContentAt(p, p.labels[l][1])
  PROVE  LabelsOK(p, h) /\ JmpsGuarded(p)
<1>1. \A l \in DOMAIN p.labels :
        /\ Len(p.labels[l]) \in {0, 1}
        /\ DOMAIN p.labels[l] = 1 .. Len(p.labels[l])
        /\ p.labels[l] # <<>> => Len(p.labels[l]) = 1
  <2> TAKE l \in DOMAIN p.labels
  <2> DEFINE d == p.labels[l]
  <2>1. d \in Seq(Nat) /\ Len(d) <= 1
    BY WellFormedFacts DEF Fresh
  <2> HIDE DEF d
  <2>2. Len(d) \in Nat /\ DOMAIN d = 1 .. Len(d) /\ (d # <<>> => Len(d) # 0)
    BY <2>1
  <2>3. Len(d) \in {0, 1}
    BY <2>1, <2>2
  <2> QED BY <2>2, <2>3 DEF d
<1>2. \A l \in DOMAIN p.labels : DestOK(p, p.labels[l], h[l])
  <2> TAKE l \in DOMAIN p.labels
  <2> DEFINE d == p.labels[l]
             g == h[l]
  <2>1. Len(d) \in {0, 1} /\ DOMAIN d = 1 .. Len(d) /\ (d # <<>> => Len(d) = 1)
    BY <1>1
  <2>2. d # <<>> => g = ContentAt(p, d[1])
    BY <1>1
  <2> HIDE DEF d, g
  <2>3. \A i, j \in DOMAIN d : i < j => d[i] < d[j]
    BY <2>1
  <2>4. \A i \in 1 .. (Len(d) - 1) : StandIn(p, g, d[i])
    BY <2>1
  <2>5. DestOK(p, d, g)
    BY <2>1, <2>2, <2>3, <2>4 DEF DestOK
  <2> QED BY <2>5 DEF d, g
<1>3. OwnStandIns(p.labels)
  <2> SUFFICES ASSUME NEW l \in DOMAIN p.labels, NEW i \in 1 .. (Len(p.labels[l]) - 1)
               PROVE  FALSE
    BY DEF OwnStandIns
  <2> DEFINE n == Len(p.labels[l])
  <2>1. n \in {0, 1} /\ i \in 1 .. (n - 1)
    BY <1>1
  <2> HIDE DEF n
  <2> QED BY <2>1
<1>4. JmpsGuarded(p)
  <2> SUFFICES ASSUME NEW i \in 0 .. (Len(p.instructions) - 1), InstAt(p, i).op = "jmp"
               PROVE  FALSE
    BY DEF JmpsGuarded
  <2>1. Len(p.instructions) \in Nat /\ DOMAIN p.instructions = 1 .. Len(p.instructions)
    BY WellFormedFacts
  <2>2. i + 1 \in DOMAIN p.instructions
    BY <2>1
  <2> QED BY <2>2 DEF Fresh, InstAt
<1>5. LabelsOK(p, h)
  BY <1>2, <1>3 DEF LabelsOK
<1> QED BY <1>4, <1>5

-----------------------------------------------------------------------------
(* What a resolved label means for the jumps resolved before it.           *)

(* A program without a long jump.                                          *)
NoJmp(p) == \A i \in DOMAIN p.instructions : p.instructions[i].op # "jmp"

(* Without long jumps the first destination of a label is as good as the   *)
(* last.                                                                   *)
LEMMA FirstIsHome ==
  ASSUME NEW p, WellFormed(p), NEW h, LabelsOK(p, h), NoJmp(p),
         NEW label \in DOMAIN p.labels, p.labels[label] # <<>>
  PROVE  ContentAt(p, p.labels[label][1]) = h[label]
<1> DEFINE d == p.labels[label]
           g == h[label]
<1>1. d \in Seq(Nat) /\ d # <<>> /\ DestOK(p, d, g)
  BY WellFormedFacts DEF LabelsOK
<1> HIDE DEF d, g
<1>2. CASE Len(d) = 1
  BY <1>1, <1>2 DEF DestOK, d, g
<1>3. CASE Len(d) # 1
  <2>1. 1 \in 1 .. (Len(d) - 1)
    <3>1. Len(d) \in Nat /\ Len(d) # 0
      BY <1>1
    <3>2. \A n \in Nat : n # 0 /\ n # 1 => 1 \in 1 .. (n - 1)
      OBVIOUS
    <3> QED BY <1>3, <3>1, <3>2
  <2>2. StandIn(p, g, d[1])
    BY <1>1, <2>1 DEF DestOK
  <2>3. Len(p.instructions) \in Nat /\ DOMAIN p.instructions = 1 .. Len(p.instructions)
    BY WellFormedFacts
  <2>4. d[1] \in 1 .. (Len(p.instructions) - 1)
    BY <2>2 DEF StandIn
  <2>5. d[1] + 1 \in DOMAIN p.instructions
    BY <2>3, <2>4
  <2>6. InstAt(p, d[1]).op # "jmp"
    BY <2>5 DEF NoJmp, InstAt
  <2> QED BY <2>2, <2>6 DEF StandIn, d, g
<1> QED BY <1>2, <1>3

(* The jumps up to the k-th stay where they are, with their instructions,  *)
(* while a label of the k-th is resolved.                                  *)
LEMMA LandsJumps ==
  ASSUME NEW p, WellFormed(p), NEW h, NEW k \in DOMAIN p.jumps, NEW label, NEW r,
         Lands(r, p, k, label, h), NEW j \in DOMAIN p.jumps, j <= k
  PROVE  /\ r.prog.jumps[j] = p.jumps[j]
         /\ InstAt(r.prog, p.jumps[j].index) = InstAt(p, p.jumps[j].index)
<1>1. CASE r.prog.instructions = p.instructions /\ r.prog.jumps = p.jumps
  BY <1>1 DEF InstAt
<1>2. CASE \E x, inst : Inserts(r.prog, p, k, x, inst, h[label])
  <2>1. PICK x, inst : Inserts(r.prog, p, k, x, inst, h[label])
    BY <1>2
  <2>2. /\ x \in Nat /\ p.jumps[k].index <= x /\ Spliced(r.prog, p, x, inst)
        /\ r.prog.jumps[j] = p.jumps[j]
    BY <2>1 DEF Inserts
  <2>3. /\ p.jumps[j].index \in Nat /\ p.jumps[k].index \in Nat
        /\ p.jumps[j].index < Len(p.instructions) /\ Len(p.instructions) \in Nat
        /\ j \in Nat /\ k \in Nat
    BY WellFormedFacts DEF WellFormed, JumpsTracked
  <2>4. p.jumps[j].index <= p.jumps[k].index
    <3>1. CASE j = k
      BY <2>3, <3>1
    <3>2. CASE j # k
      BY <2>3, <3>2 DEF WellFormed, JumpsTracked
    <3> QED BY <3>1, <3>2
  <2> DEFINE i == p.jumps[j].index
  <2>5. ShiftFrom(x + 1, i) = i /\ i \in 0 .. (Len(p.instructions) - 1)
    BY <2>2, <2>3, <2>4 DEF ShiftFrom
  <2> HIDE DEF i
  <2>6. InstAt(r.prog, i) = InstAt(p, i)
    BY <2>2, <2>5 DEF Spliced
  <2> QED BY <2>2, <2>6 DEF i
<1> QED BY <1>1, <1>2 DEF Lands

(* What is at an index that the insertion does not move.                   *)
LEMMA LandsContent ==
  ASSUME NEW p, WellFormed(p), NEW h, NEW k \in DOMAIN p.jumps, NEW label, NEW r,
         Lands(r, p, k, label, h), NEW i \in Nat,
         Len(r.prog.instructions) > Len(p.instructions) =>
           i <= FindInsertAfter(p.jumps, p.jumps[k]).index
  PROVE  ContentAt(r.prog, i) = ContentAt(p, i)
<1>1. CASE r.prog.instructions = p.instructions
  BY <1>1 DEF ContentAt, CurrentIndex, InstAt
<1>2. CASE \E x, inst : Inserts(r.prog, p, k, x, inst, h[label])
  <2>1. PICK x, inst : Inserts(r.prog, p, k, x, inst, h[label])
    BY <1>2
  <2>2. /\ x \in Nat /\ x < Len(p.instructions) /\ Spliced(r.prog, p, x, inst)
        /\ x = FindInsertAfter(p.jumps, p.jumps[k]).index
    BY <2>1 DEF Inserts
  <2>3. Len(r.prog.instructions) > Len(p.instructions)
    BY <2>2, WellFormedFacts DEF Spliced
  <2>4. ShiftFrom(x + 1, i) = i
    BY <2>2, <2>3 DEF ShiftFrom
  <2>5. ContentAt(r.prog, ShiftFrom(x + 1, i)) = ContentAt(p, i)
    BY <2>2, MovedContent
  <2> QED BY <2>4, <2>5
<1> QED BY <1>1, <1>2 DEF Lands

(* Resolving a label takes no long jump out of the program.                *)
LEMMA LandsNoJmp ==
  ASSUME NEW p, WellFormed(p), NEW h, NEW k \in DOMAIN p.jumps, NEW label, NEW r,
         WellFormed(r.prog), Lands(r, p, k, label, h), NoJmp(r.prog)
  PROVE  NoJmp(p)
<1>1. CASE r.prog.instructions = p.instructions
  BY <1>1 DEF NoJmp
<1>2. CASE \E x, inst : Inserts(r.prog, p, k, x, inst, h[label])
  <2>1. PICK x, inst : Inserts(r.prog, p, k, x, inst, h[label])
    BY <1>2
  <2>2. x \in Nat /\ Spliced(r.prog, p, x, inst)
    BY <2>1 DEF Inserts
  <2>3. /\ Len(p.instructions) \in Nat /\ DOMAIN p.instructions = 1 .. Len(p.instructions)
        /\ DOMAIN r.prog.instructions = 1 .. Len(r.prog.instructions)
    BY WellFormedFacts
  <2> SUFFICES ASSUME NEW i \in 1 .. Len(p.instructions)
               PROVE  p.instructions[i].op # "jmp"
    BY <2>3 DEF NoJmp
  <2> DEFINE j == i - 1
             s == ShiftFrom(x + 1, j)
  <2>4. j \in 0 .. (Len(p.instructions) - 1) /\ j + 1 = i
    BY <2>3
  <2>5. InstAt(r.prog, s) = InstAt(p, j)
    BY <2>2, <2>4 DEF Spliced
  <2>6. s + 1 \in 1 .. Len(r.prog.instructions)
    BY <2>2, <2>3, <2>4 DEF ShiftFrom, Spliced
  <2> HIDE DEF s
  <2>7. InstAt(r.prog, s).op # "jmp"
    BY <2>3, <2>6 DEF NoJmp, InstAt
  <2>8. InstAt(p, j) = p.instructions[i]
    BY <2>4 DEF InstAt
  <2> QED BY <2>5, <2>7, <2>8
<1> QED BY <1>1, <1>2 DEF Lands

-----------------------------------------------------------------------------
(* A program that Policy.Assemble is writing: labels in L are still to be  *)
(* set, every other label that a jump uses is set behind the jump.         *)

(* Values fit a word and loads are of the arguments of seccomp_data.       *)
Fits(inst) ==
  /\ inst.op = "jif" => inst.val \in Word
  /\ inst.op = "ld" => inst.off \in 16 .. 60

AllFit(p) == \A i \in DOMAIN p.instructions : Fits(p.instructions[i])

Comes(p, L, k, label) ==
  \/ label \in L
  \/ p.labels[label] # <<>> /\ p.jumps[k].index < p.labels[label][1]

Placed(p, L) ==
  /\ WellFormed(p) /\ Fresh(p) /\ AllFit(p)
  /\ L \subseteq DOMAIN p.labels
  /\ \A l \in L : p.labels[l] = <<>>
  /\ \A l \in DOMAIN p.labels : p.labels[l] # <<>> => p.labels[l][1] <= Len(p.instructions)
  /\ \A k \in DOMAIN p.jumps : /\ Comes(p, L, k, p.jumps[k].trueLabel)
                               /\ Comes(p, L, k, p.jumps[k].falseLabel)

(* A new program has nothing to set.                                       *)
LEMMA NewProgramPlaced == Placed(NewProgram, {})
<1> DEFINE q == NewProgram
<1>1. q.instructions = <<>> /\ q.jumps = <<>> /\ q.labels = << <<>> >>
  BY DEF NewProgram
<1>2. q \in ProgramType
  <2>1. <<>> \in Seq(Instruction) /\ <<>> \in Seq(JumpRecord) /\ << <<>> >> \in Seq(Seq(Nat))
    OBVIOUS
  <2> QED BY <2>1 DEF NewProgram, ProgramType
<1>3. DOMAIN q.jumps = {} /\ DOMAIN q.instructions = {} /\ DOMAIN q.labels = {1} /\ q.labels[1] = <<>>
  BY <1>1
<1> HIDE DEF q
<1>4. WellFormed(q)
  BY <1>2, <1>3 DEF WellFormed, JumpsTracked
<1>5. Fresh(q) /\ AllFit(q)
  <2>1. Len(<<>>) <= 1
    OBVIOUS
  <2> QED BY <1>3, <2>1 DEF Fresh, AllFit
<1> QED BY <1>3, <1>4, <1>5 DEF Placed, q

(* An instruction that is no jump changes nothing about the labels.        *)
LEMMA EmitPlaced ==
  ASSUME NEW p, NEW L, Placed(p, L), NEW inst \in Instruction, inst.op # "jmp", Fits(inst)
  PROVE  /\ Placed(Emit(p, inst), L)
         /\ Emit(p, inst).jumps = p.jumps /\ Emit(p, inst).labels = p.labels
         /\ Len(Emit(p, inst).instructions) = Len(p.instructions) + 1
<1> DEFINE ins == Append(p.instructions, inst)
           q == [p EXCEPT !.instructions = Append(@, inst)]
<1>1. WellFormed(p) /\ Fresh(p) /\ AllFit(p)
  BY DEF Placed
<1>2. p.instructions \in Seq(Instruction) /\ Len(p.instructions) \in Nat
  BY <1>1, WellFormedFacts
<1>3. \A i \in DOMAIN ins : Fits(ins[i])
  BY <1>1, <1>2 DEF AllFit
<1>4. Len(ins) = Len(p.instructions) + 1
  BY <1>2
<1>5. q.instructions = ins /\ q.labels = p.labels /\ q.jumps = p.jumps
  BY <1>1 DEF WellFormed, ProgramType
<1>6. Emit(p, inst) = q
  BY DEF Emit
<1>7. WellFormed(q) /\ Fresh(q)
  BY <1>1, <1>6, EmitGrows, EmitFresh DEF Grows
<1> HIDE DEF ins, q
<1>8. AllFit(q)
  BY <1>3, <1>5 DEF AllFit
<1>9. \A l \in DOMAIN q.labels : q.labels[l] # <<>> => q.labels[l][1] <= Len(q.instructions)
  <2> TAKE l \in DOMAIN q.labels
  <2> HAVE q.labels[l] # <<>>
  <2>1. p.labels[l] \in Seq(Nat) /\ p.labels[l] # <<>> /\ p.labels[l][1] <= Len(p.instructions)
    BY <1>1, <1>5, WellFormedFacts DEF Placed
  <2>2. p.labels[l][1] \in Nat
    BY <2>1
  <2> QED BY <1>2, <1>4, <1>5, <2>1, <2>2
<1>10. Placed(q, L)
  BY <1>5, <1>7, <1>8, <1>9 DEF Placed, Comes
<1> QED BY <1>4, <1>5, <1>6, <1>10

(* NewLabel adds a label to set.                                           *)
LEMMA AddLabelPlaced ==
  ASSUME NEW p, NEW L, Placed(p, L)
  PROVE  Placed(AddLabel(p), L \cup {FreshLabel(p)}) /\ FreshLabel(p) \notin L
<1> DEFINE labels == Append(p.labels, <<>>)
           q == [p EXCEPT !.labels = Append(@, <<>>)]
           x == FreshLabel(p)
           n == Len(p.labels)
<1>1. WellFormed(p) /\ Fresh(p) /\ AllFit(p)
  BY DEF Placed
<1>2. p.labels \in Seq(Seq(Nat)) /\ n \in Nat /\ DOMAIN p.labels = 1 .. n /\ x = n + 1
  BY <1>1, WellFormedFacts DEF FreshLabel
<1>3. /\ DOMAIN labels = 1 .. (n + 1) /\ labels[n + 1] = <<>>
      /\ \A l \in 1 .. n : labels[l] = p.labels[l]
  BY <1>2
<1>4. q.instructions = p.instructions /\ q.labels = labels /\ q.jumps = p.jumps
  BY <1>1 DEF WellFormed, ProgramType
<1>5. AddLabel(p) = q
  BY DEF AddLabel
<1>6. WellFormed(q) /\ Fresh(q)
  BY <1>1, <1>5, AddLabelGrows, AddLabelFresh DEF Grows
<1> HIDE DEF labels, q, x
<1>7. L \subseteq 1 .. n /\ x \notin L /\ L \cup {x} \subseteq DOMAIN q.labels
  <2>1. L \subseteq 1 .. n
    BY <1>2 DEF Placed
  <2>2. n + 1 \notin 1 .. n /\ 1 .. n \subseteq 1 .. (n + 1) /\ n + 1 \in 1 .. (n + 1)
    BY <1>2
  <2> QED BY <1>2, <1>3, <1>4, <2>1, <2>2
<1>8. \A l \in L \cup {x} : q.labels[l] = <<>>
  BY <1>2, <1>3, <1>4, <1>7 DEF Placed
<1>9. \A l \in DOMAIN q.labels : q.labels[l] # <<>> => q.labels[l][1] <= Len(q.instructions)
  <2> TAKE l \in DOMAIN q.labels
  <2> HAVE q.labels[l] # <<>>
  <2>1. l \in 1 .. n
    BY <1>2, <1>3, <1>4
  <2> QED BY <1>2, <1>3, <1>4, <2>1 DEF Placed
<1>10. ASSUME NEW k \in DOMAIN q.jumps, NEW l \in DOMAIN p.labels, Comes(p, L, k, l)
       PROVE  Comes(q, L \cup {x}, k, l)
  <2>1. q.labels[l] = p.labels[l]
    BY <1>2, <1>3, <1>4
  <2> QED BY <1>4, <1>10, <2>1 DEF Comes
<1>11. \A k \in DOMAIN q.jumps : /\ Comes(q, L \cup {x}, k, q.jumps[k].trueLabel)
                                 /\ Comes(q, L \cup {x}, k, q.jumps[k].falseLabel)
  BY <1>1, <1>4, <1>10 DEF Placed, WellFormed
<1>12. AllFit(q)
  BY <1>1, <1>4 DEF AllFit
<1> QED BY <1>5, <1>6, <1>7, <1>8, <1>9, <1>11, <1>12 DEF Placed, x

(* SetLabel sets a label behind all jumps there are.                       *)
LEMMA SetLabelPlaced ==
  ASSUME NEW p, NEW L, Placed(p, L), NEW label \in L
  PROVE  Placed(SetLabel(p, label), L \ {label})
<1> DEFINE s == <<CurrentIndex(p)>>
           q == [p EXCEPT !.labels[label] = s]
<1>1. /\ WellFormed(p) /\ Fresh(p) /\ AllFit(p)
      /\ label \in DOMAIN p.labels /\ p.labels[label] = <<>>
  BY DEF Placed
<1>2. s \in Seq(Nat) /\ s # <<>> /\ s[1] = Len(p.instructions) /\ Len(p.instructions) \in Nat
  BY <1>1, WellFormedFacts DEF CurrentIndex
<1>3. SetLabel(p, label) = q
  BY <1>1 DEF SetLabel
<1>4. /\ q.instructions = p.instructions /\ q.jumps = p.jumps
      /\ DOMAIN q.labels = DOMAIN p.labels /\ q.labels[label] = s
  BY <1>1, <1>2, SetLabelsProperties
<1>5. \A m \in DOMAIN p.labels : m # label => q.labels[m] = p.labels[m]
  BY <1>1 DEF WellFormed, ProgramType
<1> HIDE DEF q, s
<1>6. WellFormed(q) /\ Fresh(q)
  <2>1. Grows(SetLabel(p, label), p)
    BY <1>1, SetLabelGrows
  <2>2. Fresh(SetLabel(p, label))
    BY <1>1, SetLabelFresh
  <2> QED BY <1>3, <2>1, <2>2 DEF Grows
<1>7. ASSUME NEW k \in DOMAIN q.jumps, NEW l \in DOMAIN p.labels, Comes(p, L, k, l)
      PROVE  Comes(q, L \ {label}, k, l)
  <2>1. CASE l = label
    <3>1. p.jumps[k].index < Len(p.instructions)
      BY <1>1, <1>4 DEF WellFormed, JumpsTracked
    <3> QED BY <1>2, <1>4, <2>1, <3>1 DEF Comes
  <2>2. CASE l # label
    BY <1>4, <1>5, <1>7, <2>2 DEF Comes
  <2> QED BY <2>1, <2>2
<1>8. \A k \in DOMAIN q.jumps : /\ Comes(q, L \ {label}, k, q.jumps[k].trueLabel)
                                /\ Comes(q, L \ {label}, k, q.jumps[k].falseLabel)
  BY <1>1, <1>4, <1>7 DEF Placed, WellFormed
<1>9. AllFit(q)
  BY <1>1, <1>4 DEF AllFit
<1>10. \A l \in DOMAIN q.labels : q.labels[l] # <<>> => q.labels[l][1] <= Len(q.instructions)
  <2> TAKE l \in DOMAIN q.labels
  <2>1. CASE l = label
    BY <1>2, <1>4, <2>1
  <2>2. CASE l # label
    BY <1>4, <1>5, <2>2 DEF Placed
  <2> QED BY <2>1, <2>2
<1>11. L \ {label} \subseteq DOMAIN q.labels /\ \A l \in L \ {label} : q.labels[l] = <<>>
  BY <1>4, <1>5 DEF Placed
<1> QED BY <1>3, <1>6, <1>8, <1>9, <1>10, <1>11 DEF Placed

(* JmpIf uses labels that are to be set.                                   *)
LEMMA JmpIfPlaced ==
  ASSUME NEW p, NEW L, Placed(p, L), NEW cond \in Conds, NEW val \in Word,
         NEW t \in L, NEW f \in L
  PROVE  Placed(JmpIf(p, cond, val, t, f), L)
<1> DEFINE jump == [index |-> CurrentIndex(p), trueLabel |-> t, falseLabel |-> f]
           inst == JumpIf(cond, val)
           ins == Append(p.instructions, inst)
           jumps == Append(p.jumps, jump)
           q == [[p EXCEPT !.jumps = Append(@, jump)] EXCEPT !.instructions = Append(@, inst)]
           n == Len(p.jumps)
<1>1. WellFormed(p) /\ Fresh(p) /\ AllFit(p) /\ t \in DOMAIN p.labels /\ f \in DOMAIN p.labels
  BY DEF Placed
<1>2. /\ p.instructions \in Seq(Instruction) /\ Len(p.instructions) \in Nat
      /\ p.jumps \in Seq(JumpRecord) /\ n \in Nat /\ DOMAIN p.jumps = 1 .. n
  BY <1>1, WellFormedFacts
<1>3. Fits(inst) /\ val \in Nat
  BY WAssumption DEF JumpIf, Fits, Word
<1>4. q.instructions = ins /\ q.labels = p.labels /\ q.jumps = jumps
  BY <1>1 DEF WellFormed, ProgramType
<1>5. JmpIf(p, cond, val, t, f) = q
  BY DEF JmpIf, Emit
<1>6. WellFormed(q) /\ Fresh(q)
  BY <1>1, <1>3, <1>5, JmpIfGrows, JmpIfFresh DEF Grows
<1>7. jump.trueLabel = t /\ jump.falseLabel = f
  OBVIOUS
<1> HIDE DEF inst, jump
<1>8. Len(ins) = Len(p.instructions) + 1 /\ \A i \in DOMAIN ins : Fits(ins[i])
  BY <1>1, <1>2, <1>3 DEF AllFit
<1>9. /\ DOMAIN jumps = 1 .. (n + 1) /\ jumps[n + 1] = jump
      /\ \A j \in 1 .. n : jumps[j] = p.jumps[j]
  BY <1>2
<1> HIDE DEF ins, jumps, q
<1>10. AllFit(q)
  BY <1>4, <1>8 DEF AllFit
<1>11. \A l \in DOMAIN q.labels : q.labels[l] # <<>> => q.labels[l][1] <= Len(q.instructions)
  <2> TAKE l \in DOMAIN q.labels
  <2> HAVE q.labels[l] # <<>>
  <2>1. p.labels[l] \in Seq(Nat) /\ p.labels[l] # <<>> /\ p.labels[l][1] <= Len(p.instructions)
    BY <1>1, <1>4, WellFormedFacts DEF Placed
  <2>2. p.labels[l][1] \in Nat
    BY <2>1
  <2> QED BY <1>2, <1>4, <1>8, <2>1, <2>2
<1>12. ASSUME NEW k \in DOMAIN q.jumps
       PROVE  Comes(q, L, k, q.jumps[k].trueLabel) /\ Comes(q, L, k, q.jumps[k].falseLabel)
  <2>1. CASE k = n + 1
    BY <1>4, <1>7, <1>9, <2>1 DEF Comes
  <2>2. CASE k # n + 1
    <3>1. k \in DOMAIN p.jumps /\ q.jumps[k] = p.jumps[k]
      BY <1>2, <1>4, <1>9, <2>2
    <3>2. Comes(p, L, k, p.jumps[k].trueLabel) /\ Comes(p, L, k, p.jumps[k].falseLabel)
      BY <3>1 DEF Placed
    <3> QED BY <1>4, <3>1, <3>2 DEF Comes
  <2> QED BY <2>1, <2>2
<1>13. L \subseteq DOMAIN q.labels /\ \A l \in L : q.labels[l] = <<>>
  BY <1>4 DEF Placed
<1> QED BY <1>5, <1>6, <1>10, <1>11, <1>12, <1>13 DEF Placed

(* JmpIfTrue sets the label it makes.                                      *)
LEMMA JmpIfTruePlaced ==
  ASSUME NEW p, NEW L, Placed(p, L), NEW cond \in Conds, NEW val \in Word, NEW t \in L
  PROVE  Placed(JmpIfTrue(p, cond, val, t), L)
<1> DEFINE x == FreshLabel(p)
           a == AddLabel(p)
           b == JmpIf(a, cond, val, t, x)
           c == SetLabel(b, x)
<1>1. Placed(a, L \cup {x}) /\ x \notin L
  BY AddLabelPlaced
<1>2. JmpIfTrue(p, cond, val, t) = c
  BY DEF JmpIfTrue
<1> HIDE DEF a, x
<1>3. Placed(b, L \cup {x})
  BY <1>1, JmpIfPlaced
<1> HIDE DEF b
<1>4. Placed(c, (L \cup {x}) \ {x})
  BY <1>3, SetLabelPlaced
<1>5. (L \cup {x}) \ {x} = L
  BY <1>1
<1> QED BY <1>2, <1>4, <1>5

(* Ret changes nothing about the labels, and is behind all of them.        *)
LEMMA RetPlaced ==
  ASSUME NEW p, NEW L, Placed(p, L), NEW a \in Actions
  PROVE  /\ Placed(Ret(p, a), L)
         /\ Ret(p, a).jumps = p.jumps /\ Ret(p, a).labels = p.labels
         /\ Len(Ret(p, a).instructions) = Len(p.instructions) + 1
<1> DEFINE inst == RetConstant(RetValue(a))
<1>1. inst \in Instruction /\ inst.op # "jmp" /\ Fits(inst)
  BY DEF RetConstant, Instruction, Fits
<1>2. Ret(p, a) = Emit(p, inst)
  BY DEF Ret
<1> HIDE DEF inst
<1> QED BY <1>1, <1>2, EmitPlaced

(* Loads of a word of an argument change nothing about the labels.         *)
LEMMA LoadsPlaced ==
  ASSUME NEW p, NEW L, Placed(p, L), NEW arg \in 0 .. 5, NEW little
  PROVE  Placed(LdHi(p, arg, little), L) /\ Placed(LdLo(p, arg, little), L)
<1>1. ASSUME NEW off \in 16 .. 60
      PROVE  Placed(Emit(p, LoadAbsolute(off)), L)
  <2>1. /\ LoadAbsolute(off) \in Instruction /\ LoadAbsolute(off).op # "jmp"
        /\ Fits(LoadAbsolute(off))
    BY DEF LoadAbsolute, Instruction, Fits
  <2> QED BY <2>1, EmitPlaced
<1> DEFINE hi == argumentOffset + sizeOfUint64 * arg + IF little THEN sizeOfUint32 ELSE 0
           lo == argumentOffset + sizeOfUint64 * arg + IF little THEN 0 ELSE sizeOfUint32
<1>2. hi \in 16 .. 60 /\ lo \in 16 .. 60
  BY DEF argumentOffset, sizeOfUint64, sizeOfUint32
<1>3. LdHi(p, arg, little) = Emit(p, LoadAbsolute(hi)) /\ LdLo(p, arg, little) = Emit(p, LoadAbsolute(lo))
  BY DEF LdHi, LdLo
<1> HIDE DEF hi, lo
<1> QED BY <1>1, <1>2, <1>3

-----------------------------------------------------------------------------
(* A program whose jumps Program.Assemble can resolve: every label a jump  *)
(* uses keeps a last destination behind the jump, at an instruction.       *)

HomeOf(p, label) == p.labels[label][Len(p.labels[label])]

Within(p, k, label) ==
  /\ p.labels[label] # <<>>
  /\ p.jumps[k].index < HomeOf(p, label)
  /\ HomeOf(p, label) < Len(p.instructions)

Reachable(p) ==
  \A k \in DOMAIN p.jumps : /\ Within(p, k, p.jumps[k].trueLabel)
                            /\ Within(p, k, p.jumps[k].falseLabel)

(* The jumps of q use the labels that those of p use, and the last         *)
(* destinations and the jumps of q are those of p, shifted by an insertion *)
(* behind x.                                                               *)
Follows(q, p, x) ==
  /\ Len(q.instructions) = Len(p.instructions) + 1
  /\ DOMAIN q.jumps = DOMAIN p.jumps
  /\ \A k \in DOMAIN p.jumps :
       /\ q.jumps[k].index = ShiftFrom(x + 1, p.jumps[k].index)
       /\ q.jumps[k].trueLabel = p.jumps[k].trueLabel
       /\ q.jumps[k].falseLabel = p.jumps[k].falseLabel
  /\ \A l \in DOMAIN p.labels : p.labels[l] # <<>> =>
       /\ q.labels[l] # <<>>
       /\ HomeOf(q, l) = ShiftFrom(x + 1, HomeOf(p, l))

LEMMA HomeIsNat ==
  ASSUME NEW p, WellFormed(p), NEW label \in DOMAIN p.labels, p.labels[label] # <<>>
  PROVE  /\ HomeOf(p, label) \in Nat
         /\ Len(p.labels[label]) \in Nat /\ Len(p.labels[label]) >= 1
<1> DEFINE d == p.labels[label]
<1>1. d \in Seq(Nat) /\ d # <<>>
  BY WellFormedFacts
<1> HIDE DEF d
<1>2. Len(d) \in Nat /\ Len(d) >= 1 /\ d[Len(d)] \in Nat
  BY <1>1
<1> QED BY <1>2 DEF HomeOf, d

LEMMA FollowsReachable ==
  ASSUME NEW p, WellFormed(p), Reachable(p), NEW q, NEW x \in Nat, x < Len(p.instructions),
         Follows(q, p, x)
  PROVE  Reachable(q)
<1>1. ASSUME NEW k \in DOMAIN p.jumps, NEW l \in DOMAIN p.labels, Within(p, k, l)
      PROVE  Within(q, k, l)
  <2>1. p.labels[l] # <<>> /\ HomeOf(p, l) \in Nat
    BY <1>1, HomeIsNat DEF Within
  <2>2. p.jumps[k].index \in Nat /\ Len(p.instructions) \in Nat
    BY WellFormedFacts
  <2>3. /\ q.labels[l] # <<>> /\ HomeOf(q, l) = ShiftFrom(x + 1, HomeOf(p, l))
        /\ q.jumps[k].index = ShiftFrom(x + 1, p.jumps[k].index)
        /\ Len(q.instructions) = Len(p.instructions) + 1
    BY <2>1 DEF Follows
  <2>4. \A i, j \in Nat : i < j => ShiftFrom(x + 1, i) < ShiftFrom(x + 1, j)
    BY DEF ShiftFrom
  <2>5. \A i \in Nat : i < Len(p.instructions) => ShiftFrom(x + 1, i) < Len(p.instructions) + 1
    BY <2>2 DEF ShiftFrom
  <2>6. p.jumps[k].index < HomeOf(p, l) /\ HomeOf(p, l) < Len(p.instructions)
    BY <1>1 DEF Within
  <2> QED BY <2>1, <2>2, <2>3, <2>4, <2>5, <2>6 DEF Within
<1>2. \A k \in DOMAIN p.jumps : p.jumps[k].trueLabel \in DOMAIN p.labels
                                /\ p.jumps[k].falseLabel \in DOMAIN p.labels
  BY DEF WellFormed
<1> QED BY <1>1, <1>2 DEF Reachable, Follows

(* Dropping destinations in front of a jump leaves the last one.           *)
LEMMA DropBackwardReachable ==
  ASSUME NEW p, WellFormed(p), Reachable(p), NEW k \in DOMAIN p.jumps,
         NEW label \in DOMAIN p.labels, FirstForward(p, p.jumps[k], label) # 0
  PROVE  Reachable(DropBackward(p, p.jumps[k], label))
<1> DEFINE d == p.labels[label]
           f == FirstForward(p, p.jumps[k], label)
           s == SubSeq(d, f, Len(d))
           q == [p EXCEPT !.labels[label] = s]
<1>1. d \in Seq(Nat) /\ Len(d) \in Nat
  BY WellFormedFacts
<1>2. f \in 1 .. Len(d)
  BY FirstForwardFacts
<1>3. DropBackward(p, p.jumps[k], label) = q
  BY DEF DropBackward
<1> HIDE DEF f, d
<1>4. s \in Seq(Nat) /\ Len(s) = Len(d) - f + 1
  BY <1>1, <1>2
<1>5. s # <<>> /\ s[Len(s)] = d[Len(d)]
  <2>1. \A i \in 1 .. Len(s) : s[i] = d[f + i - 1]
    BY <1>1, <1>2, <1>4
  <2> HIDE DEF s
  <2>2. Len(s) \in 1 .. Len(s) /\ f + Len(s) - 1 = Len(d)
    BY <1>1, <1>2, <1>4
  <2> QED BY <2>1, <2>2
<1> HIDE DEF s
<1>6. /\ q.instructions = p.instructions /\ q.jumps = p.jumps
      /\ q.labels[label] = s
      /\ \A m \in DOMAIN p.labels : m # label => q.labels[m] = p.labels[m]
  BY <1>4, SetLabelsProperties DEF WellFormed, ProgramType
<1> HIDE DEF q
<1>7. ASSUME NEW j \in DOMAIN p.jumps, NEW l \in DOMAIN p.labels, Within(p, j, l)
      PROVE  Within(q, j, l)
  <2>1. CASE l = label
    BY <1>5, <1>6, <1>7, <2>1 DEF Within, HomeOf, d
  <2>2. CASE l # label
    BY <1>6, <1>7, <2>2 DEF Within, HomeOf
  <2> QED BY <2>1, <2>2
<1>8. \A j \in DOMAIN p.jumps : p.jumps[j].trueLabel \in DOMAIN p.labels
                                /\ p.jumps[j].falseLabel \in DOMAIN p.labels
  BY DEF WellFormed
<1>9. Reachable(q)
  BY <1>6, <1>7, <1>8 DEF Reachable
<1> QED BY <1>3, <1>9

(* A long jump shifts the last destinations with their instructions.       *)
LEMMA LongJumpReachable ==
  ASSUME NEW p, WellFormed(p), Reachable(p), NEW k \in DOMAIN p.jumps,
         NEW label \in DOMAIN p.labels, p.labels[label] # <<>>,
         p.labels[label][1] < Len(p.instructions)
  PROVE  Reachable(LongJump(p, p.jumps[k], label))
<1>1. PICK m \in DOMAIN p.jumps : FindInsertAfter(p.jumps, p.jumps[k]) = p.jumps[m]
  BY FindInsertAfterProperties
<1> DEFINE x == p.jumps[m].index
           inst == FarInstruction(p, p.jumps[k], label, x)
           r == InsertAfter(p, p.jumps[m].index, inst)
           e == r.labels[label]
           s == Cons(x + 1, e)
           q == [r EXCEPT !.labels[label] = s]
<1>2. LongJump(p, p.jumps[k], label) = q
  BY <1>1 DEF LongJump
<1>3. x \in Nat /\ x < Len(p.instructions)
  BY WellFormedFacts DEF WellFormed, JumpsTracked
<1>4. inst \in Instruction
  <2>1. FirstDest(p, label)
    <3>1. p.labels[label] \in Seq(Nat) /\ p.labels[label] # <<>>
      BY WellFormedFacts
    <3> QED BY <3>1 DEF FirstDest
  <2> QED BY <1>3, <2>1, FarInstructionType DEF CurrentIndex
<1> HIDE DEF inst
<1>5. WellFormed(r) /\ Moves(r, p, x, inst) /\ DOMAIN r.jumps = DOMAIN p.jumps
  BY <1>4, InsertAfterProperties, InsertAfterMoves
<1>6. \A j \in DOMAIN p.jumps :
        /\ r.jumps[j].index = ShiftFrom(x + 1, p.jumps[j].index)
        /\ r.jumps[j].trueLabel = p.jumps[j].trueLabel
        /\ r.jumps[j].falseLabel = p.jumps[j].falseLabel
  BY <1>4, InsertAfterProperties
<1> HIDE DEF r, x
<1>7. /\ DOMAIN r.labels = DOMAIN p.labels
      /\ \A l \in DOMAIN p.labels :
           /\ Len(r.labels[l]) = Len(p.labels[l])
           /\ \A i \in 1 .. Len(p.labels[l]) : r.labels[l][i] = ShiftFrom(x + 1, p.labels[l][i])
      /\ Len(r.instructions) = Len(p.instructions) + 1
  BY <1>5 DEF Moves, Spliced
<1>8. ASSUME NEW l \in DOMAIN p.labels, p.labels[l] # <<>>
      PROVE  /\ r.labels[l] # <<>> /\ Len(r.labels[l]) \in Nat
             /\ HomeOf(r, l) = ShiftFrom(x + 1, HomeOf(p, l))
  <2>1. Len(p.labels[l]) \in Nat /\ Len(p.labels[l]) >= 1
    BY <1>8, HomeIsNat
  <2>2. Len(r.labels[l]) = Len(p.labels[l]) /\ Len(p.labels[l]) \in 1 .. Len(p.labels[l])
    BY <1>7, <2>1
  <2>3. r.labels[l] # <<>>
    <3>1. Len(<<>>) = 0
      OBVIOUS
    <3> QED BY <2>1, <2>2, <3>1
  <2> QED BY <1>7, <2>1, <2>2, <2>3 DEF HomeOf
<1>9. e \in Seq(Nat) /\ e # <<>>
  BY <1>5, <1>7, <1>8, WellFormedFacts
<1> HIDE DEF e
<1>10. s \in Seq(Nat) /\ s # <<>> /\ s[Len(s)] = e[Len(e)]
  <2>1. x + 1 \in Nat
    BY <1>3
  <2>2. s \in Seq(Nat) /\ Len(s) = Len(e) + 1 /\ \A i \in 1 .. Len(e) : s[i + 1] = e[i]
    BY <1>9, <2>1 DEF Cons
  <2> HIDE DEF s
  <2>3. Len(e) \in Nat /\ Len(e) \in 1 .. Len(e)
    BY <1>9
  <2> QED BY <2>2, <2>3
<1> HIDE DEF s
<1>11. /\ q.instructions = r.instructions /\ q.jumps = r.jumps
       /\ q.labels[label] = s
       /\ \A l \in DOMAIN r.labels : l # label => q.labels[l] = r.labels[l]
  BY <1>5, <1>7, <1>10, SetLabelsProperties DEF WellFormed, ProgramType
<1> HIDE DEF q
<1>12. \A l \in DOMAIN p.labels : p.labels[l] # <<>> =>
         q.labels[l] # <<>> /\ HomeOf(q, l) = ShiftFrom(x + 1, HomeOf(p, l))
  <2> TAKE l \in DOMAIN p.labels
  <2> HAVE p.labels[l] # <<>>
  <2>1. CASE l = label
    <3>1. HomeOf(q, label) = s[Len(s)] /\ HomeOf(r, label) = e[Len(e)]
      BY <1>11 DEF HomeOf, e
    <3> QED BY <1>8, <1>10, <1>11, <2>1, <3>1
  <2>2. CASE l # label
    <3>1. q.labels[l] = r.labels[l]
      BY <1>7, <1>11, <2>2
    <3> QED BY <1>8, <3>1 DEF HomeOf
  <2> QED BY <2>1, <2>2
<1>13. Follows(q, p, x)
  BY <1>5, <1>6, <1>7, <1>11, <1>12 DEF Follows
<1> QED BY <1>2, <1>3, <1>13, FollowsReachable

(* What Program.Assemble works on.                                         *)
Resolvable(p) ==
  /\ WellFormed(p) /\ AllFit(p) /\ Reachable(p) /\ JmpsGuarded(p)
  /\ \E h : LabelsOK(p, h)

(* A program with no label left to set and an instruction behind the last  *)
(* one can be resolved.                                                    *)
LEMMA PlacedResolvable ==
  ASSUME NEW p, Placed(p, {}),
         \A l \in DOMAIN p.labels : p.labels[l] # <<>> => p.labels[l][1] < Len(p.instructions)
  PROVE  Resolvable(p)
<1>1. WellFormed(p) /\ Fresh(p) /\ AllFit(p)
  BY DEF Placed
<1>2. PICK h : h = [l \in DOMAIN p.labels |-> ContentAt(p, p.labels[l][1])]
  OBVIOUS
<1>3. LabelsOK(p, h) /\ JmpsGuarded(p)
  <2>1. \A l \in DOMAIN p.labels : p.labels[l] # <<>> => h[l] = ContentAt(p, p.labels[l][1])
    BY <1>2
  <2> QED BY <1>1, <2>1, FreshLabelsOK
<1>4. ASSUME NEW k \in DOMAIN p.jumps, NEW l \in DOMAIN p.labels, Comes(p, {}, k, l)
      PROVE  Within(p, k, l)
  <2> DEFINE d == p.labels[l]
  <2>1. d \in Seq(Nat) /\ d # <<>> /\ Len(d) <= 1
    BY <1>1, <1>4, WellFormedFacts DEF Comes, Fresh
  <2>2. p.jumps[k].index < d[1] /\ d[1] < Len(p.instructions)
    BY <1>4 DEF Comes
  <2> HIDE DEF d
  <2>3. Len(d) = 1
    <3> DEFINE n == Len(d)
    <3>1. n \in Nat /\ n # 0 /\ n <= 1
      BY <2>1
    <3> HIDE DEF n
    <3>2. n = 1
      BY <3>1
    <3> QED BY <3>2 DEF n
  <2> QED BY <2>1, <2>2, <2>3 DEF Within, HomeOf, d
<1>5. Reachable(p)
  BY <1>1, <1>4 DEF Reachable, Placed, WellFormed
<1> QED BY <1>1, <1>3, <1>5 DEF Resolvable

(* Inserting a return or a long jump keeps what fits.                      *)
LEMMA SplicedFit ==
  ASSUME NEW p, WellFormed(p), AllFit(p), NEW q, WellFormed(q), NEW x \in Nat, NEW inst,
         x < Len(p.instructions), Spliced(q, p, x, inst), inst.op \in {"ret", "jmp"}
  PROVE  AllFit(q)
<1>1. /\ Len(p.instructions) \in Nat /\ Len(q.instructions) = Len(p.instructions) + 1
      /\ DOMAIN p.instructions = 1 .. Len(p.instructions)
      /\ DOMAIN q.instructions = 1 .. Len(q.instructions)
  BY WellFormedFacts DEF Spliced
<1> SUFFICES ASSUME NEW i \in 1 .. (Len(p.instructions) + 1)
             PROVE  Fits(q.instructions[i])
  BY <1>1 DEF AllFit
<1>2. CASE i = x + 2
  <2>1. q.instructions[i] = inst
    <3>1. (x + 1) + 1 = i
      BY <1>2
    <3> QED BY <3>1 DEF Spliced, InstAt
  <2> QED BY <2>1 DEF Fits
<1>3. CASE i # x + 2
  <2>1. PICK j \in 0 .. (Len(p.instructions) - 1) : ShiftFrom(x + 1, j) = i - 1
    <3>1. CASE i < x + 2
      <4>1. i - 1 \in 0 .. (Len(p.instructions) - 1) /\ ShiftFrom(x + 1, i - 1) = i - 1
        BY <1>1, <3>1 DEF ShiftFrom
      <4> QED BY <4>1
    <3>2. CASE i > x + 2
      <4>1. i - 2 \in 0 .. (Len(p.instructions) - 1) /\ ShiftFrom(x + 1, i - 2) = i - 1
        BY <1>1, <3>2 DEF ShiftFrom
      <4> QED BY <4>1
    <3> QED BY <1>3, <3>1, <3>2
  <2>2. InstAt(q, i - 1) = InstAt(p, j)
    BY <2>1 DEF Spliced
  <2>3. j + 1 \in DOMAIN p.instructions /\ (i - 1) + 1 = i
    BY <1>1
  <2> QED BY <2>2, <2>3 DEF InstAt, AllFit
<1> QED BY <1>2, <1>3

(* resolveLabel succeeds for a label of a jump.                            *)
LEMMA ResolveLabelResolvable ==
  ASSUME NEW p, Resolvable(p), NEW k \in DOMAIN p.jumps,
         NEW label \in {p.jumps[k].trueLabel, p.jumps[k].falseLabel}
  PROVE  LET r == ResolveLabel(p, p.jumps[k], label)
         IN  r.err = "none" /\ Resolvable(r.prog)
<1> DEFINE jump == p.jumps[k]
           q == DropBackward(p, jump, label)
           r == ResolveLabel(p, jump, label)
<1>1. PICK h : LabelsOK(p, h)
  BY DEF Resolvable
<1>2. /\ WellFormed(p) /\ AllFit(p) /\ Reachable(p) /\ JmpsGuarded(p)
      /\ label \in DOMAIN p.labels /\ Within(p, k, label)
  BY DEF Resolvable, WellFormed, Reachable
<1>3. r.err = "none"
  BY <1>1, <1>2, ResolveLabelSucceeds DEF Within, HomeOf
<1>4. Lands(r, p, k, label, h) /\ WellFormed(r.prog)
  <2>1. Lands(r, p, k, label, h)
    BY <1>1, <1>2, <1>3, ResolveLabelLands
  <2>2. ResultOK(r, p, k)
    BY <1>2, ResolveLabelOK
  <2> QED BY <2>1, <2>2 DEF ResultOK, Keeps
<1>5. LabelsOK(r.prog, h) /\ JmpsGuarded(r.prog)
  BY <1>4 DEF Lands
<1>6. AllFit(r.prog)
  <2> HIDE DEF r
  <2>1. CASE r.prog.instructions = p.instructions
    BY <1>2, <2>1 DEF AllFit
  <2>2. CASE \E x, inst : Inserts(r.prog, p, k, x, inst, h[label])
    <3>1. PICK x, inst : Inserts(r.prog, p, k, x, inst, h[label])
      BY <2>2
    <3>2. /\ x \in Nat /\ x < Len(p.instructions) /\ Spliced(r.prog, p, x, inst)
          /\ inst.op \in {"ret", "jmp"}
      BY <3>1 DEF Inserts, StandsFor
    <3> QED BY <1>2, <1>4, <3>2, SplicedFit
  <2> QED BY <1>4, <2>1, <2>2 DEF Lands
<1>7. Reachable(r.prog)
  <2>1. p.labels[label] # <<>> /\ FirstForward(p, jump, label) # 0
    BY <1>3 DEF ResolveLabel, Failed
  <2>2. Reachable(q)
    BY <1>2, <2>1, DropBackwardReachable
  <2>3. Keeps(q, p, k) /\ FirstDest(q, label) /\ q.labels[label] # <<>>
    BY <1>1, <1>2, <2>1, DropBackwardKeeps, DropBackwardLabels
  <2>4. CASE ComputeSkipN(q, jump, label) <= MaxSkip
    <3>1. r = Resolved(q, jump, label)
      BY <2>1, <2>4 DEF ResolveLabel
    <3> HIDE DEF q, r
    <3> QED BY <2>2, <3>1 DEF Resolved
  <2>5. CASE ~(ComputeSkipN(q, jump, label) <= MaxSkip)
    <3>1. ~(q.labels[label][1] >= CurrentIndex(q))
      BY <1>3, <2>1, <2>5 DEF ResolveLabel, Failed
    <3>2. r = Resolved(LongJump(q, jump, label), jump, label)
      BY <2>1, <2>5, <3>1 DEF ResolveLabel
    <3> HIDE DEF q, r
    <3>3. /\ WellFormed(q) /\ k \in DOMAIN q.jumps /\ label \in DOMAIN q.labels
          /\ q.jumps[k] = jump
      BY <1>2, <2>3 DEF Keeps
    <3>4. q.labels[label][1] < Len(q.instructions)
      BY <2>3, <3>1, <3>3, WellFormedFacts DEF FirstDest, CurrentIndex
    <3>5. Reachable(LongJump(q, jump, label))
      BY <2>2, <2>3, <3>3, <3>4, LongJumpReachable
    <3> QED BY <3>2, <3>5 DEF Resolved
  <2> QED BY <2>4, <2>5
<1> QED BY <1>3, <1>4, <1>5, <1>6, <1>7 DEF Resolvable

(* Writing the skips of a jump changes nothing else.                       *)
LEMMA StoreSkipsResolvable ==
  ASSUME NEW p, Resolvable(p), NEW k \in DOMAIN p.jumps,
         NEW st \in 0 .. MaxSkip, NEW sf \in 0 .. MaxSkip
  PROVE  Resolvable(StoreSkips(p, p.jumps[k], st, sf))
<1> DEFINE q == StoreSkips(p, p.jumps[k], st, sf)
           x == p.jumps[k].index
<1>1. PICK h : LabelsOK(p, h)
  BY DEF Resolvable
<1>2. WellFormed(p) /\ AllFit(p) /\ Reachable(p) /\ JmpsGuarded(p)
  BY DEF Resolvable
<1>3. WellFormed(q)
  BY <1>2, StoreSkipsKeeps DEF Keeps
<1>4. SameContent(q, p)
  BY <1>2, StoreSkipsFacts
<1> HIDE DEF q
<1>5. LabelsOK(q, h) /\ JmpsGuarded(q)
  BY <1>1, <1>2, <1>4, SameContentLabels
<1>6. Reachable(q)
  BY <1>2, <1>4 DEF SameContent, Reachable, Within, HomeOf
<1>7. AllFit(q)
  <2>1. /\ Len(q.instructions) = Len(p.instructions) /\ Len(p.instructions) \in Nat
        /\ DOMAIN p.instructions = 1 .. Len(p.instructions)
        /\ DOMAIN q.instructions = 1 .. Len(q.instructions)
    BY <1>2, <1>3, <1>4, WellFormedFacts DEF SameContent
  <2> SUFFICES ASSUME NEW i \in DOMAIN q.instructions
               PROVE  Fits(q.instructions[i])
    BY DEF AllFit
  <2>2. i \in DOMAIN p.instructions /\ i - 1 \in Nat /\ i - 1 < Len(p.instructions) /\ (i - 1) + 1 = i
    BY <2>1
  <2>3. Fits(p.instructions[i])
    BY <1>2, <2>2 DEF AllFit
  <2>4. InstAt(p, i - 1) = p.instructions[i] /\ InstAt(q, i - 1) = q.instructions[i]
    BY <2>2 DEF InstAt
  <2>5. Content(q.instructions[i]) = Content(p.instructions[i])
    <3>1. /\ ContentAt(p, i - 1) = Content(InstAt(p, i - 1))
          /\ ContentAt(q, i - 1) = Content(InstAt(q, i - 1))
      BY <1>2, <1>3, <2>1, <2>2, InstAtFacts
    <3>2. ContentAt(q, i - 1) = ContentAt(p, i - 1)
      BY <1>4, <2>2 DEF SameContent
    <3> QED BY <2>4, <3>1, <3>2
  <2> QED BY <2>3, <2>5 DEF Content, Fits, IsJumpIf, JumpIf
<1> QED BY <1>3, <1>5, <1>6, <1>7 DEF Resolvable, q

(* A round of Program.Assemble fails for a useless jump and nothing else.  *)
LEMMA ResolveJumpResolvable ==
  ASSUME NEW p, Resolvable(p), NEW k \in DOMAIN p.jumps
  PROVE  LET r == ResolveJump(p, k)
         IN  /\ r.err \in {"none", "useless"}
             /\ r.err = "none" => Resolvable(r.prog) /\ DOMAIN r.prog.jumps = DOMAIN p.jumps
<1> DEFINE jump == p.jumps[k]
           t == ResolveLabel(p, jump, jump.trueLabel)
           f == ResolveLabel(t.prog, jump, jump.falseLabel)
           q == StoreSkips(f.prog, jump, t.skip, f.skip)
<1>1. WellFormed(p) /\ jump.trueLabel \in DOMAIN p.labels /\ jump.falseLabel \in DOMAIN p.labels
  BY DEF Resolvable, WellFormed
<1>2. t.err = "none" /\ Resolvable(t.prog)
  BY ResolveLabelResolvable
<1>3. Keeps(t.prog, p, k) /\ t.skip \in 0 .. MaxSkip
  BY <1>1, ResolveLabelOK DEF ResultOK
<1>4. t.prog.jumps[k] = jump /\ k \in DOMAIN t.prog.jumps /\ DOMAIN t.prog.jumps = DOMAIN p.jumps
      /\ jump.falseLabel \in DOMAIN t.prog.labels /\ WellFormed(t.prog)
  BY <1>1, <1>3 DEF Keeps
<1>5. /\ t.err # "none" \/ f.err # "none" \/ (t.skip = 0 /\ f.skip = 0)
         \/ ResolveJump(p, k) = [f EXCEPT !.prog = q]
      /\ t.err = "none" /\ f.err = "none" /\ t.skip = 0 /\ f.skip = 0 =>
           ResolveJump(p, k) = Failed(f.prog, "useless")
  BY DEF ResolveJump
<1> HIDE DEF t
<1>6. f.err = "none" /\ Resolvable(f.prog)
  BY <1>2, <1>4, ResolveLabelResolvable
<1>7. ResultOK(f, t.prog, k)
  BY <1>4, ResolveLabelOK
<1>8. [f EXCEPT !.prog = q].prog = q /\ [f EXCEPT !.prog = q].err = f.err
  BY DEF ResolveLabel, Failed, Resolved
<1> HIDE DEF f
<1>9. /\ f.skip \in 0 .. MaxSkip /\ k \in DOMAIN f.prog.jumps
      /\ f.prog.jumps[k] = jump /\ DOMAIN f.prog.jumps = DOMAIN p.jumps
  BY <1>4, <1>7 DEF ResultOK, Keeps
<1>10. Resolvable(q)
  BY <1>3, <1>6, <1>9, StoreSkipsResolvable
<1>11. DOMAIN q.jumps = DOMAIN p.jumps
  <2>1. WellFormed(f.prog)
    BY <1>6 DEF Resolvable
  <2> QED BY <1>3, <1>9, <2>1, StoreSkipsKeeps DEF Keeps
<1> HIDE DEF q
<1>12. CASE t.skip = 0 /\ f.skip = 0
  <2>1. ResolveJump(p, k) = Failed(f.prog, "useless")
    BY <1>2, <1>5, <1>6, <1>12
  <2> QED BY <2>1 DEF Failed
<1>13. CASE ~(t.skip = 0 /\ f.skip = 0)
  <2>1. ResolveJump(p, k) = [f EXCEPT !.prog = q]
    BY <1>2, <1>5, <1>6, <1>13
  <2> QED BY <1>6, <1>8, <1>10, <1>11, <2>1
<1> QED BY <1>12, <1>13
=============================================================================
