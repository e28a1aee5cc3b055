--------------------------- MODULE ScannerProofs ---------------------------
(***************************************************************************)
(* Proofs about module Scanner, for objdumps of any length and any lines:  *)
(* Parse reports a system call under the number that was loaded for it,    *)
(* and returns every one whose number is loaded right in front of it,      *)
(* unless a line was too long for the scanner.                             *)
(*                                                                         *)
(* The invariant says what the list of instructions is: the last lines     *)
(* read, in their order, all of one function and behind every system call  *)
(* that was reported.                                                      *)
(***************************************************************************)
EXTENDS Scanner, SequenceTheorems, WellFoundedInduction, TLAPS

Parsers ==
  [wrapper : BOOLEAN, instructions : Seq(Lines), lines : Nat,
   syscalls : Seq([num : SyscallNumbers, at : Nat])]

TypeOK == read \in Seq(Lines) /\ parser \in Parsers

(* The parser has seen all that was read but a line that was too long.     *)
LinesInv ==
  /\ parser.lines <= Len(read)
  /\ ~returned => parser.lines = Len(read)
  /\ \A k \in (parser.lines + 1) .. Len(read) : read[k].kind = "overlong"

(* The line in front of the instructions.                                  *)
Start == parser.lines - Len(parser.instructions)

WindowInv ==
  /\ Start >= 0
  /\ \A k \in DOMAIN parser.instructions :
       parser.instructions[k] = read[Start + k] /\ read[Start + k].kind # "text"
  /\ parser.lines > 0 /\ read[parser.lines].kind = "load" => Start < parser.lines

WrapperInv == parser.wrapper <=> InWrapper(parser.lines)

FoundInv ==
  \A n \in DOMAIN parser.syscalls : parser.syscalls[n].at \in 2 .. Start

(* What NoneLost says of the result, said of the calls found so far.       *)
Listed(i) ==
  \E n \in DOMAIN parser.syscalls : parser.syscalls[n] = [num |-> read[i - 1].num, at |-> i]

Ascending ==
  \A m, n \in DOMAIN parser.syscalls : m < n => parser.syscalls[m].at < parser.syscalls[n].at

NoneMissed == (\A i \in 2 .. Len(read) : Numbered(i) => Listed(i)) /\ Ascending

(* What Parse returns is what it has found, or nothing.                    *)
ResultInv ==
  /\ result \in {<<>>, parser.syscalls}
  /\ ~returned => result = <<>>
  /\ returned /\ ~Overran => result = parser.syscalls

ScannerInv ==
  /\ TypeOK /\ LinesInv /\ WindowInv /\ WrapperInv /\ FoundInv
  /\ OwnNumber /\ NoneMissed /\ ResultInv

-----------------------------------------------------------------------------
(* What FindSyscallNum finds: the number of the last load of that kind.    *)

IsLoad(l, to) == l.kind = "load" /\ l.to = to

LastLoad(ins, to, i) ==
  /\ i \in DOMAIN ins
  /\ IsLoad(ins[i], to)
  /\ \A k \in (i + 1) .. Len(ins) : ~IsLoad(ins[k], to)

LEMMA NatHasMax ==
  ASSUME NEW n \in Nat, NEW T, T \subseteq 1 .. n, T # {}
  PROVE  Max(T) \in T /\ \A y \in T : Max(T) >= y
<1> DEFINE D == {n - i : i \in T}
<1>1. D \subseteq Nat /\ D # {}
  <2>1. D \subseteq Nat
    OBVIOUS
  <2>2. D # {}
    OBVIOUS
  <2> QED BY <2>1, <2>2
<1>2. PICK d \in D : \A e \in D : ~ (<<e, d>> \in OpToRel(<, Nat))
  <2> HIDE DEF D
  <2> QED BY <1>1, NatLessThanWellFounded, WFMin
<1>3. PICK x \in T : n - x = d
  BY <1>2
<1>4. \A y \in T : x >= y
  <2> TAKE y \in T
  <2>1. n - y \in D
    OBVIOUS
  <2>2. ~(n - y < d)
    BY <1>1, <1>2, <2>1 DEF OpToRel
  <2> QED BY <1>3, <2>2
<1> QED BY <1>4 DEF Max

LEMMA FindSyscallNumLast ==
  ASSUME NEW ins \in Seq(Lines), NEW to
  PROVE  \/ FindSyscallNum(ins, to) = NotFound /\ \A k \in DOMAIN ins : ~IsLoad(ins[k], to)
         \/ \E i \in DOMAIN ins : LastLoad(ins, to, i) /\ FindSyscallNum(ins, to) = ins[i].num
<1> DEFINE T == {i \in 1 .. Len(ins) : IsLoad(ins[i], to)}
           j == SelectLastInSeq(ins, LAMBDA l : l.kind = "load" /\ l.to = to)
<1>1. j = IF T # {} THEN Max(T) ELSE 0
  BY DEF SelectLastInSeq, IsLoad
<1>2. FindSyscallNum(ins, to) = IF j = 0 THEN NotFound ELSE ins[j].num
  BY DEF FindSyscallNum
<1>3. DOMAIN ins = 1 .. Len(ins) /\ Len(ins) \in Nat
  OBVIOUS
<1> HIDE DEF j
<1>4. CASE T = {}
  BY <1>1, <1>2, <1>3, <1>4
<1>5. CASE T # {}
  <2>1. j \in T /\ \A y \in T : j >= y
    <3> HIDE DEF T
    <3>1. T \subseteq 1 .. Len(ins)
      BY DEF T
    <3> QED BY <1>1, <1>3, <1>5, <3>1, NatHasMax
  <2>2. \A k \in (j + 1) .. Len(ins) : ~IsLoad(ins[k], to)
    BY <1>3, <2>1
  <2>3. LastLoad(ins, to, j)
    BY <1>3, <2>1, <2>2 DEF LastLoad
  <2>4. FindSyscallNum(ins, to) = ins[j].num
    BY <1>2, <1>3, <2>1
  <2> QED BY <1>3, <2>1, <2>3, <2>4
<1> QED BY <1>4, <1>5

-----------------------------------------------------------------------------
(* What ParseLine makes of a line.                                         *)

SiteFor(p, line) == line.kind = "call" \/ (line.kind = "raw" /\ ~p.wrapper)
NeededBy(line) == IF line.kind = "raw" THEN "register" ELSE "stack"

With(p, line) == Append(p.instructions, line)
NumberOf(p, line) ==
  IF line.kind = "raw" /\ LastInstructionIsZero(With(p, line)) THEN 0
  ELSE FindSyscallNum(With(p, line), NeededBy(line))

(* A parser is its four fields.                                            *)
Holds(p, wrapper, instructions, lines, syscalls) ==
  /\ p \in Parsers
  /\ p.wrapper = wrapper /\ p.instructions = instructions
  /\ p.lines = lines /\ p.syscalls = syscalls

Read(p, line) == [p EXCEPT !.instructions = Append(@, line), !.lines = @ + 1]

LEMMA ReadHolds ==
  ASSUME NEW p \in Parsers, NEW line \in Lines
  PROVE  Holds(Read(p, line), p.wrapper, With(p, line), p.lines + 1, p.syscalls)
<1>1. With(p, line) \in Seq(Lines) /\ p.lines + 1 \in Nat
  BY DEF With, Parsers
<1>2. ASSUME NEW ins \in Seq(Lines), NEW n \in Nat
      PROVE  LET q == [p EXCEPT !.instructions = ins, !.lines = n]
             IN  Holds(q, p.wrapper, ins, n, p.syscalls)
  BY DEF Holds, Parsers
<1>3. Read(p, line) = [p EXCEPT !.instructions = With(p, line), !.lines = p.lines + 1]
  BY Zenon DEF Read, With
<1> QED BY <1>1, <1>2, <1>3, Zenon

LEMMA ParseLineText ==
  ASSUME NEW p \in Parsers, NEW line \in Lines, line.kind = "text"
  PROVE  Holds(ParseLine(p, line), line.wrapper, <<>>, p.lines + 1, p.syscalls)
<1>1. ParseLine(p, line) = BeginFunction(Read(p, line), line)
  BY DEF ParseLine, Read
<1>2. line.wrapper \in BOOLEAN
  BY LinesAssumption
<1>3. ASSUME NEW q \in Parsers, NEW w \in BOOLEAN, NEW ins \in Seq(Lines)
      PROVE  LET r == [q EXCEPT !.wrapper = w, !.instructions = ins]
             IN  Holds(r, w, ins, q.lines, q.syscalls)
  BY DEF Holds, Parsers
<1> HIDE DEF Read
<1>4. <<>> \in Seq(Lines) /\ Read(p, line) \in Parsers
  BY ReadHolds DEF Holds
<1>5. Holds(BeginFunction(Read(p, line), line), line.wrapper, <<>>,
            Read(p, line).lines, Read(p, line).syscalls)
  BY <1>2, <1>3, <1>4, Zenon DEF BeginFunction
<1> QED BY <1>1, <1>5, ReadHolds, Zenon DEF Holds

LEMMA ParseLineOther ==
  ASSUME NEW p \in Parsers, NEW line \in Lines, line.kind # "text", ~SiteFor(p, line)
  PROVE  Holds(ParseLine(p, line), p.wrapper, With(p, line), p.lines + 1, p.syscalls)
<1>1. ParseX86_64(Read(p, line), line) = NotASyscall
  BY ReadHolds DEF ParseX86_64, SiteFor, Holds
<1>2. ~IsNumber(NotASyscall)
  BY DEF IsNumber
<1>3. ParseLine(p, line) = Read(p, line)
  BY <1>1, <1>2, Zenon DEF ParseLine, Read
<1> QED BY <1>3, ReadHolds

LEMMA ParseLineSite ==
  ASSUME NEW p \in Parsers, NEW line \in Lines, SiteFor(p, line)
  PROVE  /\ ~IsNumber(NumberOf(p, line)) =>
              Holds(ParseLine(p, line), p.wrapper, With(p, line), p.lines + 1, p.syscalls)
         /\ IsNumber(NumberOf(p, line)) =>
              Holds(ParseLine(p, line), p.wrapper, <<>>, p.lines + 1,
                    IF NumberOf(p, line) \in SyscallNumbers
                    THEN Append(p.syscalls, [num |-> NumberOf(p, line), at |-> p.lines + 1])
                    ELSE p.syscalls)
<1> DEFINE q == Read(p, line)
           num == NumberOf(p, line)
           all == IF num \in SyscallNumbers
                  THEN Append(p.syscalls, [num |-> num, at |-> p.lines + 1]) ELSE p.syscalls
<1>1. Holds(q, p.wrapper, With(p, line), p.lines + 1, p.syscalls)
  BY ReadHolds
<1>2. line.kind # "text"
  BY DEF SiteFor
<1>3. ParseX86_64(q, line) = num
  <2> HIDE DEF q
  <2> QED BY <1>1 DEF ParseX86_64, NumberOf, SiteFor, NeededBy, Holds
<1>4. ParseLine(p, line) = IF IsNumber(num) THEN FoundSyscall(q, num) ELSE q
  BY <1>2, <1>3, Zenon DEF ParseLine, Read
<1>5. all \in Seq([num : SyscallNumbers, at : Nat])
  <2> HIDE DEF num
  <2>1. p.lines + 1 \in Nat /\ p.syscalls \in Seq([num : SyscallNumbers, at : Nat])
    BY DEF Parsers
  <2>2. CASE num \in SyscallNumbers
    <3>1. [num |-> num, at |-> p.lines + 1] \in [num : SyscallNumbers, at : Nat]
      BY <2>1, <2>2
    <3> QED BY <2>1, <2>2, <3>1, AppendProperties, Zenon
  <2>3. CASE num \notin SyscallNumbers
    BY <2>1, <2>3, Zenon
  <2> QED BY <2>2, <2>3
<1>6. FoundSyscall(q, num) = [q EXCEPT !.instructions = <<>>, !.syscalls = all]
  <2> HIDE DEF q, num
  <2> QED BY <1>1, Zenon DEF FoundSyscall, Holds
<1>7. ASSUME NEW r \in Parsers, NEW ins \in Seq(Lines),
             NEW s \in Seq([num : SyscallNumbers, at : Nat])
      PROVE  LET new == [r EXCEPT !.instructions = ins, !.syscalls = s]
             IN  Holds(new, r.wrapper, ins, r.lines, s)
  BY DEF Holds, Parsers
<1>8. <<>> \in Seq(Lines) /\ q \in Parsers
  BY <1>1 DEF Holds
<1> HIDE DEF q, num, all
<1>9. Holds(FoundSyscall(q, num), q.wrapper, <<>>, q.lines, all)
  BY <1>5, <1>6, <1>7, <1>8, Zenon
<1>10. Holds(FoundSyscall(q, num), p.wrapper, <<>>, p.lines + 1, all)
  BY <1>1, <1>9, Zenon DEF Holds
<1> QED BY <1>1, <1>4, <1>10, Zenon DEF num, all, q

-----------------------------------------------------------------------------
(* A line more does not change what holds of the lines before it.          *)

Grown(line) == read \in Seq(Lines) /\ line \in Lines /\ read' = Append(read, line)

LEMMA LinesKept ==
  ASSUME NEW line, Grown(line)
  PROVE  /\ read' \in Seq(Lines)
         /\ Len(read) \in Nat /\ Len(read') = Len(read) + 1
         /\ \A k \in 1 .. Len(read) : read'[k] = read[k]
         /\ read'[Len(read) + 1] = line
BY DEF Grown

LEMMA SameFunctionKept ==
  ASSUME NEW line, Grown(line), NEW i \in Nat, NEW j \in Nat, j <= Len(read)
  PROVE  SameFunction(i, j)' <=> SameFunction(i, j)
<1>1. \A k \in (i + 1) .. j : read'[k] = read[k]
  BY LinesKept
<1> QED BY <1>1 DEF SameFunction

LEMMA InWrapperKept ==
  ASSUME NEW line, Grown(line), NEW i \in Nat, i <= Len(read)
  PROVE  InWrapper(i)' <=> InWrapper(i)
<1>1. \A k \in 1 .. i : read'[k] = read[k] /\ k \in Nat
  BY LinesKept
<1>2. \A k \in 1 .. i : SameFunction(k, i)' <=> SameFunction(k, i)
  BY <1>1, SameFunctionKept
<1> QED BY <1>1, <1>2 DEF InWrapper

LEMMA SitesKept ==
  ASSUME NEW line, Grown(line), NEW i \in 1 .. Len(read)
  PROVE  /\ IsSite(i)' <=> IsSite(i)
         /\ Needs(i)' = Needs(i)
         /\ \A to : Loads(i, to)' <=> Loads(i, to)
<1>1. read'[i] = read[i] /\ i \in Nat /\ i <= Len(read)
  BY LinesKept
<1>2. InWrapper(i)' <=> InWrapper(i)
  BY <1>1, InWrapperKept
<1>3. IsSite(i)' <=> IsSite(i)
  BY <1>1, <1>2 DEF IsSite
<1> QED BY <1>1, <1>3 DEF Needs, Loads

(* The wrapper a line is in is that of the line before, unless the line    *)
(* begins a function.                                                      *)
LEMMA InWrapperNext ==
  ASSUME NEW line, Grown(line), NEW N \in Nat, N = Len(read)
  PROVE  /\ line.kind = "text" => (InWrapper(N + 1)' <=> line.wrapper)
         /\ line.kind # "text" => (InWrapper(N + 1)' <=> InWrapper(N))
<1>1. /\ N \in Nat
      /\ \A k \in 1 .. N : read'[k] = read[k]
      /\ read'[N + 1] = line
  BY LinesKept
<1>2. \A k \in 1 .. N : SameFunction(k, N)' <=> SameFunction(k, N)
  BY <1>1, SameFunctionKept
<1>3. SameFunction(N + 1, N + 1)'
  BY <1>1 DEF SameFunction
<1>4. CASE line.kind = "text"
  <2>1. \A k \in 1 .. N : ~SameFunction(k, N + 1)'
    <3> TAKE k \in 1 .. N
    <3>1. N + 1 \in (k + 1) .. (N + 1)
      BY <1>1
    <3> QED BY <1>1, <1>4, <3>1 DEF SameFunction
  <2>2. \A k \in 1 .. (N + 1) : k \in 1 .. N \/ k = N + 1
    BY <1>1
  <2>3. N + 1 \in 1 .. (N + 1)
    BY <1>1
  <2> QED BY <1>1, <1>3, <1>4, <2>1, <2>2, <2>3 DEF InWrapper
<1>5. CASE line.kind # "text"
  <2>1. \A k \in 1 .. N : SameFunction(k, N + 1)' <=> SameFunction(k, N)'
    BY <1>1, <1>5 DEF SameFunction
  <2>2. \A k \in 1 .. (N + 1) : k \in 1 .. N \/ k = N + 1
    BY <1>1
  <2>3. \A k \in 1 .. N : k \in 1 .. (N + 1)
    BY <1>1
  <2>4. InWrapper(N + 1)' => InWrapper(N)
    BY <1>1, <1>2, <1>5, <2>1, <2>2 DEF InWrapper
  <2>5. InWrapper(N) => InWrapper(N + 1)'
    BY <1>1, <1>2, <1>5, <2>1, <2>3 DEF InWrapper
  <2> QED BY <1>5, <2>4, <2>5
<1> QED BY <1>4, <1>5

-----------------------------------------------------------------------------
(* The number of a system call, seen from the instructions before it.      *)

LEMMA WithFacts ==
  ASSUME NEW p \in Parsers, NEW line \in Lines
  PROVE  /\ p.instructions \in Seq(Lines) /\ With(p, line) \in Seq(Lines)
         /\ Len(p.instructions) \in Nat /\ Len(With(p, line)) = Len(p.instructions) + 1
         /\ DOMAIN p.instructions = 1 .. Len(p.instructions)
         /\ DOMAIN With(p, line) = 1 .. (Len(p.instructions) + 1)
         /\ \A k \in 1 .. Len(p.instructions) : With(p, line)[k] = p.instructions[k]
         /\ With(p, line)[Len(p.instructions) + 1] = line
<1>1. p.instructions \in Seq(Lines)
  BY DEF Parsers
<1> QED BY <1>1 DEF With

LEMMA NumberSource ==
  ASSUME NEW p \in Parsers, NEW line \in Lines, SiteFor(p, line), IsNumber(NumberOf(p, line))
  PROVE  \/ /\ NumberOf(p, line) = 0 /\ line.kind = "raw"
            /\ Len(p.instructions) >= 1 /\ p.instructions[Len(p.instructions)].kind = "zero"
         \/ \E i \in DOMAIN p.instructions :
              /\ LastLoad(p.instructions, NeededBy(line), i)
              /\ NumberOf(p, line) = p.instructions[i].num
<1> DEFINE ins == p.instructions
           all == With(p, line)
           n == Len(ins)
           to == NeededBy(line)
<1>1. /\ all \in Seq(Lines) /\ n \in Nat /\ Len(all) = n + 1
      /\ DOMAIN ins = 1 .. n /\ DOMAIN all = 1 .. (n + 1)
      /\ \A k \in 1 .. n : all[k] = ins[k]
      /\ all[n + 1] = line
  BY WithFacts
<1>2. ~IsLoad(line, to)
  BY DEF SiteFor, IsLoad
<1>3. NumberOf(p, line) = IF line.kind = "raw" /\ LastInstructionIsZero(all) THEN 0
                          ELSE FindSyscallNum(all, to)
  BY DEF NumberOf
<1> HIDE DEF ins, all, n, to
<1>4. CASE line.kind = "raw" /\ LastInstructionIsZero(all)
  <2>1. n >= 1 /\ ins[n].kind = "zero"
    BY <1>1, <1>4 DEF LastInstructionIsZero
  <2> QED BY <1>3, <1>4, <2>1 DEF ins, n
<1>5. CASE ~(line.kind = "raw" /\ LastInstructionIsZero(all))
  <2>1. NumberOf(p, line) = FindSyscallNum(all, to)
    BY <1>3, <1>5
  <2>2. FindSyscallNum(all, to) # NotFound
    BY <2>1 DEF IsNumber
  <2>3. PICK i \in DOMAIN all : LastLoad(all, to, i) /\ FindSyscallNum(all, to) = all[i].num
    BY <1>1, <2>2, FindSyscallNumLast
  <2>4. i # n + 1
    BY <1>1, <1>2, <2>3 DEF LastLoad
  <2>5. i \in 1 .. n
    BY <1>1, <2>4
  <2>6. LastLoad(ins, to, i)
    <3>1. \A k \in (i + 1) .. n : k \in (i + 1) .. (n + 1) /\ all[k] = ins[k]
      BY <1>1, <2>5
    <3>2. IsLoad(ins[i], to)
      BY <1>1, <2>3, <2>5 DEF LastLoad
    <3>3. \A k \in (i + 1) .. n : ~IsLoad(ins[k], to)
      BY <1>1, <2>3, <3>1 DEF LastLoad
    <3> QED BY <1>1, <2>5, <3>2, <3>3 DEF LastLoad, n
  <2> QED BY <1>1, <2>1, <2>3, <2>5, <2>6 DEF ins, to
<1> QED BY <1>4, <1>5

LEMMA NumberInFront ==
  ASSUME NEW p \in Parsers, NEW line \in Lines, SiteFor(p, line), Len(p.instructions) >= 1,
         IsLoad(p.instructions[Len(p.instructions)], NeededBy(line))
  PROVE  NumberOf(p, line) = p.instructions[Len(p.instructions)].num
<1> DEFINE ins == p.instructions
           all == With(p, line)
           n == Len(ins)
           to == NeededBy(line)
<1>1. /\ all \in Seq(Lines) /\ n \in Nat /\ n >= 1 /\ Len(all) = n + 1
      /\ DOMAIN ins = 1 .. n /\ DOMAIN all = 1 .. (n + 1)
      /\ all[n] = ins[n]
      /\ all[n + 1] = line
  BY WithFacts
<1>2. ~IsLoad(line, to) /\ IsLoad(ins[n], to)
  BY DEF SiteFor, IsLoad
<1>3. NumberOf(p, line) = IF line.kind = "raw" /\ LastInstructionIsZero(all) THEN 0
                          ELSE FindSyscallNum(all, to)
  BY DEF NumberOf
<1> HIDE DEF ins, all, n, to
<1>4. ~LastInstructionIsZero(all)
  BY <1>1, <1>2 DEF LastInstructionIsZero, IsLoad
<1>5. PICK i \in DOMAIN all : LastLoad(all, to, i) /\ FindSyscallNum(all, to) = all[i].num
  BY <1>1, <1>2, FindSyscallNumLast
<1>6. i \in 1 .. (n + 1) /\ i # n + 1
  BY <1>1, <1>2, <1>5 DEF LastLoad
<1>7. ~(i < n)
  <2> SUFFICES ASSUME i < n
               PROVE  FALSE
    OBVIOUS
  <2>1. n \in (i + 1) .. Len(all)
    BY <1>1, <1>6
  <2> QED BY <1>1, <1>2, <1>5, <2>1 DEF LastLoad
<1>8. i = n
  BY <1>1, <1>6, <1>7
<1> QED BY <1>1, <1>3, <1>4, <1>5, <1>8 DEF ins, n

-----------------------------------------------------------------------------
(* A round of the loop keeps the invariant.                                *)

(* The calls found before a line, and the one that a line may be.          *)
FoundCall(p, line) == [num |-> NumberOf(p, line), at |-> p.lines + 1]

Reported(p, line) ==
  /\ SiteFor(p, line)
  /\ IsNumber(NumberOf(p, line))
  /\ NumberOf(p, line) \in SyscallNumbers

LEMMA ScanOutcome ==
  ASSUME TypeOK, NEW line \in Lines, Scan(line)
  PROVE  /\ parser' \in Parsers
         /\ parser'.lines = parser.lines + 1
         /\ parser'.wrapper = IF line.kind = "text" THEN line.wrapper ELSE parser.wrapper
         /\ \/ parser'.instructions = <<>> /\ (line.kind = "text" \/ SiteFor(parser, line))
            \/ parser'.instructions = With(parser, line) /\ line.kind # "text"
         /\ parser'.syscalls = IF Reported(parser, line)
                               THEN Append(parser.syscalls, FoundCall(parser, line))
                               ELSE parser.syscalls
<1>1. parser \in Parsers /\ parser' = ParseLine(parser, line)
  BY DEF TypeOK, Scan
<1>2. CASE line.kind = "text"
  <2>1. ~SiteFor(parser, line)
    BY <1>2 DEF SiteFor
  <2>2. Holds(parser', line.wrapper, <<>>, parser.lines + 1, parser.syscalls)
    BY <1>1, <1>2, ParseLineText
  <2> QED BY <1>2, <2>1, <2>2, Zenon DEF Holds, Reported
<1>3. CASE line.kind # "text" /\ ~SiteFor(parser, line)
  <2>1. Holds(parser', parser.wrapper, With(parser, line), parser.lines + 1, parser.syscalls)
    BY <1>1, <1>3, ParseLineOther
  <2> QED BY <1>3, <2>1, Zenon DEF Holds, Reported
<1>4. CASE SiteFor(parser, line)
  <2>1. line.kind # "text"
    BY <1>4 DEF SiteFor
  <2>2. CASE ~IsNumber(NumberOf(parser, line))
    <3>1. Holds(parser', parser.wrapper, With(parser, line), parser.lines + 1, parser.syscalls)
      BY <1>1, <1>4, <2>2, ParseLineSite, Zenon
    <3> QED BY <2>1, <2>2, <3>1, Zenon DEF Holds, Reported
  <2>3. CASE IsNumber(NumberOf(parser, line))
    <3>1. Holds(parser', parser.wrapper, <<>>, parser.lines + 1,
                IF NumberOf(parser, line) \in SyscallNumbers
                THEN Append(parser.syscalls, FoundCall(parser, line)) ELSE parser.syscalls)
      BY <1>1, <1>4, <2>3, ParseLineSite, Zenon DEF FoundCall
    <3> QED BY <1>4, <2>1, <2>3, <3>1, Zenon DEF Holds, Reported
  <2> QED BY <2>2, <2>3
<1> QED BY <1>2, <1>3, <1>4

LEMMA ScanLines ==
  ASSUME TypeOK, LinesInv, WindowInv, NEW line \in Lines, Scan(line), NEW N, N = Len(read)
  PROVE  /\ Grown(line)
         /\ N \in Nat /\ parser.lines = N /\ parser'.lines = N + 1
         /\ Len(read') = N + 1
         /\ \A k \in 1 .. N : read'[k] = read[k]
         /\ read'[N + 1] = line
         /\ TypeOK' /\ LinesInv'
<1>1. Grown(line) /\ ~returned /\ returned' = returned
  BY DEF TypeOK, Scan, Grown
<1>2. /\ N \in Nat /\ Len(read') = N + 1 /\ read' \in Seq(Lines)
      /\ \A k \in 1 .. N : read'[k] = read[k]
      /\ read'[N + 1] = line
  BY <1>1, LinesKept
<1>3. parser' \in Parsers /\ parser'.lines = parser.lines + 1
  BY ScanOutcome
<1>4. parser.lines = N
  BY <1>1 DEF LinesInv
<1>5. TypeOK'
  BY <1>2, <1>3 DEF TypeOK
<1>6. LinesInv'
  <2>1. (N + 2) .. (N + 1) = {}
    BY <1>2
  <2> QED BY <1>2, <1>3, <1>4, <2>1 DEF LinesInv
<1> QED BY <1>1, <1>2, <1>3, <1>4, <1>5, <1>6

LEMMA ScanWindow ==
  ASSUME TypeOK, LinesInv, WindowInv, NEW line \in Lines, Scan(line)
  PROVE  /\ WindowInv'
         /\ Start' >= Start
         /\ Start' \in {Start, parser.lines + 1}
<1> DEFINE N == parser.lines
           ins == parser.instructions
<1>1. /\ N \in Nat /\ Len(read) = N /\ parser'.lines = N + 1
      /\ \A k \in 1 .. N : read'[k] = read[k]
      /\ read'[N + 1] = line
  BY ScanLines
<1>2. /\ ins \in Seq(Lines) /\ Len(ins) \in Nat /\ DOMAIN ins = 1 .. Len(ins)
      /\ Start = N - Len(ins) /\ Start >= 0
  BY DEF TypeOK, Parsers, WindowInv, Start
<1>3. \A k \in 1 .. Len(ins) : ins[k] = read[Start + k] /\ read[Start + k].kind # "text"
  BY <1>2 DEF WindowInv
<1>4. CASE parser'.instructions = <<>> /\ (line.kind = "text" \/ SiteFor(parser, line))
  <2>1. Start' = N + 1
    BY <1>1, <1>4 DEF Start
  <2>2. DOMAIN parser'.instructions = {}
    BY <1>4
  <2>3. line.kind # "load"
    BY <1>4 DEF SiteFor
  <2>4. WindowInv'
    BY <1>1, <2>1, <2>2, <2>3 DEF WindowInv
  <2>5. Start' >= Start
    BY <1>1, <1>2, <2>1
  <2> QED BY <2>1, <2>4, <2>5
<1>5. CASE parser'.instructions = With(parser, line) /\ line.kind # "text"
  <2> DEFINE new == parser'.instructions
  <2>1. /\ Len(new) = Len(ins) + 1 /\ DOMAIN new = 1 .. (Len(ins) + 1)
        /\ \A k \in 1 .. Len(ins) : new[k] = ins[k]
        /\ new[Len(ins) + 1] = line
    BY <1>5, WithFacts DEF TypeOK
  <2>2. Start' = Start
    BY <1>1, <1>2, <2>1 DEF Start
  <2>3. Start' < N + 1
    BY <1>1, <1>2, <2>2
  <2>4. \A k \in 1 .. Len(ins) : Start + k \in 1 .. N
    BY <1>1, <1>2
  <2>5. Start + (Len(ins) + 1) = N + 1
    BY <1>1, <1>2
  <2>6. \A k \in 1 .. (Len(ins) + 1) : k \in 1 .. Len(ins) \/ k = Len(ins) + 1
    BY <1>2
  <2>7. \A k \in DOMAIN new : new[k] = read'[Start' + k] /\ read'[Start' + k].kind # "text"
    <3> TAKE k \in DOMAIN new
    <3>1. CASE k \in 1 .. Len(ins)
      BY <1>1, <1>3, <2>1, <2>2, <2>4, <3>1
    <3>2. CASE k = Len(ins) + 1
      BY <1>1, <1>5, <2>1, <2>2, <2>5, <3>2
    <3> QED BY <2>1, <2>6, <3>1, <3>2
  <2>8. WindowInv'
    BY <1>1, <1>2, <2>2, <2>3, <2>7 DEF WindowInv
  <2> QED BY <1>2, <2>2, <2>8
<1> QED BY <1>4, <1>5, ScanOutcome

LEMMA ScanWrapper ==
  ASSUME TypeOK, LinesInv, WindowInv, WrapperInv, NEW line \in Lines, Scan(line)
  PROVE  WrapperInv'
<1> DEFINE N == Len(read)
<1>1. Grown(line) /\ N \in Nat /\ parser.lines = N /\ parser'.lines = N + 1
  BY ScanLines
<1>2. ASSUME NEW n \in Nat, n = N
      PROVE  /\ line.kind = "text" => (InWrapper(n + 1)' <=> line.wrapper)
             /\ line.kind # "text" => (InWrapper(n + 1)' <=> InWrapper(n))
  BY <1>1, <1>2, InWrapperNext
<1>3. PICK n \in Nat : n = N
  BY <1>1
<1> HIDE DEF N
<1>4. parser'.wrapper = IF line.kind = "text" THEN line.wrapper ELSE parser.wrapper
  BY ScanOutcome
<1>5. WrapperInv' <=> (parser'.wrapper <=> InWrapper(n + 1)')
  BY <1>1, <1>3 DEF WrapperInv
<1>6. parser.wrapper <=> InWrapper(n)
  BY <1>1, <1>3 DEF WrapperInv
<1> QED BY <1>2, <1>3, <1>4, <1>5, <1>6

(* The system calls after a line: those before it, and perhaps the line.   *)
LEMMA ScanSyscalls ==
  ASSUME TypeOK, LinesInv, WindowInv, NEW line \in Lines, Scan(line)
  PROVE  /\ \A n \in DOMAIN parser.syscalls :
              n \in DOMAIN parser'.syscalls /\ parser'.syscalls[n] = parser.syscalls[n]
         /\ \A n \in DOMAIN parser'.syscalls :
              \/ n \in DOMAIN parser.syscalls /\ parser'.syscalls[n] = parser.syscalls[n]
              \/ /\ Reported(parser, line) /\ \A m \in DOMAIN parser.syscalls : m < n
                 /\ n = Len(parser.syscalls) + 1
                 /\ parser'.syscalls[n] = FoundCall(parser, line)
         /\ Reported(parser, line) =>
              \E n \in DOMAIN parser'.syscalls : parser'.syscalls[n] = FoundCall(parser, line)
<1> DEFINE old == parser.syscalls
           new == parser'.syscalls
           call == FoundCall(parser, line)
<1>1. old \in Seq([num : SyscallNumbers, at : Nat])
  BY DEF TypeOK, Parsers
<1>2. new = IF Reported(parser, line) THEN Append(old, call) ELSE old
  BY ScanOutcome
<1> HIDE DEF old, new, call
<1>3. /\ \A n \in DOMAIN old : n \in DOMAIN new /\ new[n] = old[n]
      /\ \A n \in DOMAIN new :
           \/ n \in DOMAIN old /\ new[n] = old[n]
           \/ /\ Reported(parser, line) /\ \A m \in DOMAIN old : m < n
              /\ n = Len(old) + 1 /\ new[n] = call
      /\ Reported(parser, line) => \E n \in DOMAIN new : new[n] = call
  <2>1. CASE Reported(parser, line)
    <3>1. new = Append(old, call)
      BY <1>2, <2>1
    <3>2. /\ Len(old) \in Nat /\ DOMAIN old = 1 .. Len(old) /\ DOMAIN new = 1 .. (Len(old) + 1)
          /\ \A n \in 1 .. Len(old) : new[n] = old[n]
          /\ new[Len(old) + 1] = call
      BY <1>1, <3>1
    <3>3. \A n \in 1 .. (Len(old) + 1) :
            n \in 1 .. Len(old) \/ (n = Len(old) + 1 /\ \A m \in 1 .. Len(old) : m < n)
      BY <3>2
    <3>4. \A n \in 1 .. Len(old) : n \in 1 .. (Len(old) + 1)
      BY <3>2
    <3>5. Len(old) + 1 \in 1 .. (Len(old) + 1)
      BY <3>2
    <3> QED BY <2>1, <3>2, <3>3, <3>4, <3>5
  <2>2. CASE ~Reported(parser, line)
    BY <1>2, <2>2
  <2> QED BY <2>1, <2>2
<1> QED BY <1>3 DEF old, new, call

LEMMA ScanFound ==
  ASSUME TypeOK, LinesInv, WindowInv, FoundInv, NEW line \in Lines, Scan(line)
  PROVE  FoundInv'
<1>1. /\ parser.lines \in Nat /\ parser'.lines = parser.lines + 1
      /\ Start \in Int /\ Start' >= Start /\ Start' \in {Start, parser.lines + 1}
      /\ Start <= parser.lines
  <2>1. parser \in Parsers
    BY DEF TypeOK
  <2>2. parser.instructions \in Seq(Lines) /\ parser.lines \in Nat
    BY <2>1 DEF Parsers
  <2>3. Len(parser.instructions) \in Nat
    BY <2>2
  <2>4. parser'.lines = parser.lines + 1
    BY ScanOutcome
  <2>5. Start' >= Start /\ Start' \in {Start, parser.lines + 1}
    BY ScanWindow
  <2> QED BY <2>2, <2>3, <2>4, <2>5 DEF Start
<1> SUFFICES ASSUME NEW n \in DOMAIN parser'.syscalls
             PROVE  parser'.syscalls[n].at \in 2 .. Start'
  BY DEF FoundInv
<1>2. CASE n \in DOMAIN parser.syscalls /\ parser'.syscalls[n] = parser.syscalls[n]
  <2>1. parser.syscalls[n].at \in 2 .. Start
    BY <1>2 DEF FoundInv
  <2> QED BY <1>1, <1>2, <2>1
<1>3. CASE Reported(parser, line) /\ parser'.syscalls[n] = FoundCall(parser, line)
  <2>1. parser'.syscalls[n].at = parser.lines + 1
    BY <1>3 DEF FoundCall
  <2>2. parser'.instructions = <<>>
    <3>1. parser \in Parsers
      BY DEF TypeOK
    <3>2. Holds(ParseLine(parser, line), parser.wrapper, <<>>, parser.lines + 1,
                IF NumberOf(parser, line) \in SyscallNumbers
                THEN Append(parser.syscalls, [num |-> NumberOf(parser, line),
                                              at |-> parser.lines + 1])
                ELSE parser.syscalls)
      BY <1>3, <3>1, ParseLineSite, Zenon DEF Reported
    <3> QED BY <3>2, Zenon DEF Holds, Scan
  <2>3. Start' = parser.lines + 1
    BY <1>1, <2>2 DEF Start
  <2>4. parser.lines >= 1
    <3>1. parser \in Parsers
      BY DEF TypeOK
    <3>2. Len(parser.instructions) >= 1
      <4>1. parser.instructions \in Seq(Lines)
        BY <3>1 DEF Parsers
      <4>2. \/ Len(parser.instructions) >= 1
            \/ \E i \in DOMAIN parser.instructions : TRUE
        BY <1>3, <3>1, NumberSource DEF Reported
      <4> QED BY <4>1, <4>2
    <3>3. Start >= 0 /\ Start = parser.lines - Len(parser.instructions)
      BY DEF WindowInv, Start
    <3>4. Len(parser.instructions) \in Nat
      BY <3>1 DEF Parsers
    <3> QED BY <1>1, <3>2, <3>3, <3>4
  <2> QED BY <1>1, <2>1, <2>3, <2>4
<1> QED BY <1>2, <1>3, ScanSyscalls

(* What OwnNumber says of one system call.                                 *)
Sourced(s, q) ==
  /\ Loads(q, Needs(s.at)) /\ read[q].num = s.num
  /\ \A k \in (q + 1) .. (s.at - 1) : ~Loads(k, Needs(s.at))
  /\ SameFunction(q, s.at)
  /\ \A m \in DOMAIN parser.syscalls : parser.syscalls[m].at \notin (q + 1) .. (s.at - 1)

Own(s) ==
  /\ IsSite(s.at)
  /\ \/ s.num = 0 /\ read[s.at - 1].kind = "zero" /\ read[s.at].kind = "raw"
     \/ \E q \in 1 .. (s.at - 1) : Sourced(s, q)

LEMMA OwnKept ==
  ASSUME NEW line, Grown(line), NEW s, s.at \in 2 .. Len(read), Own(s),
         \A m \in DOMAIN parser'.syscalls :
           \/ m \in DOMAIN parser.syscalls /\ parser'.syscalls[m] = parser.syscalls[m]
           \/ parser'.syscalls[m].at = Len(read) + 1
  PROVE  Own(s)'
<1> DEFINE N == Len(read)
           at == s.at
<1>1. /\ N \in Nat
      /\ \A k \in 1 .. N : read'[k] = read[k]
      /\ at \in 1 .. N /\ at - 1 \in 1 .. N /\ at \in Nat /\ at <= N
  <2>1. N \in Nat /\ \A k \in 1 .. N : read'[k] = read[k]
    BY LinesKept
  <2> QED BY <2>1
<1>2. ASSUME NEW i \in 1 .. N
      PROVE  /\ IsSite(i)' <=> IsSite(i)
             /\ Needs(i)' = Needs(i)
             /\ \A to : Loads(i, to)' <=> Loads(i, to)
  BY SitesKept
<1>3. IsSite(at)' /\ Needs(at)' = Needs(at)
  BY <1>1, <1>2 DEF Own
<1>4. CASE s.num = 0 /\ read[at - 1].kind = "zero" /\ read[at].kind = "raw"
  <2>1. read'[at] = read[at] /\ read'[at - 1] = read[at - 1]
    BY <1>1
  <2> QED BY <1>3, <1>4, <2>1 DEF Own
<1>5. ASSUME NEW q \in 1 .. (at - 1), Sourced(s, q)
      PROVE  Own(s)'
  <2>1. q \in 1 .. N /\ q \in Nat
    BY <1>1
  <2>2. Loads(q, Needs(at))' /\ read'[q].num = s.num
    BY <1>1, <1>2, <1>3, <1>5, <2>1 DEF Sourced
  <2>3. \A k \in (q + 1) .. (at - 1) : ~Loads(k, Needs(at))'
    <3>1. \A k \in (q + 1) .. (at - 1) : k \in 1 .. N
      BY <1>1, <2>1
    <3> QED BY <1>2, <1>3, <1>5, <3>1 DEF Sourced
  <2>4. SameFunction(q, at)'
    BY <1>1, <1>5, <2>1, SameFunctionKept DEF Sourced
  <2>5. \A m \in DOMAIN parser'.syscalls : parser'.syscalls[m].at \notin (q + 1) .. (at - 1)
    <3> TAKE m \in DOMAIN parser'.syscalls
    <3>1. CASE m \in DOMAIN parser.syscalls /\ parser'.syscalls[m] = parser.syscalls[m]
      BY <1>5, <3>1 DEF Sourced
    <3>2. CASE parser'.syscalls[m].at = N + 1
      BY <1>1, <2>1, <3>2
    <3> QED BY <3>1, <3>2
  <2> QED BY <1>3, <2>2, <2>3, <2>4, <2>5 DEF Own, Sourced
<1> QED BY <1>4, <1>5 DEF Own

LEMMA OwnFound ==
  ASSUME TypeOK, LinesInv, WindowInv, WrapperInv, FoundInv, NEW line \in Lines, Scan(line),
         Reported(parser, line), NEW s, s = FoundCall(parser, line)
  PROVE  Own(s)'
<1> DEFINE ins == parser.instructions
           num == NumberOf(parser, line)
<1>1. PICK N \in Nat : N = Len(read)
  BY DEF TypeOK
<1>2. /\ Grown(line) /\ parser.lines = N
      /\ \A k \in 1 .. N : read'[k] = read[k]
      /\ read'[N + 1] = line
  BY <1>1, ScanLines
<1>3. /\ parser \in Parsers /\ ins \in Seq(Lines) /\ Len(ins) \in Nat
      /\ DOMAIN ins = 1 .. Len(ins)
      /\ Start = N - Len(ins) /\ Start >= 0
  BY <1>2 DEF TypeOK, Parsers, WindowInv, Start
<1>4. \A k \in 1 .. Len(ins) :
        /\ Start + k \in 1 .. N
        /\ ins[k] = read'[Start + k] /\ read'[Start + k].kind # "text"
  <2>1. \A k \in 1 .. Len(ins) : Start + k \in 1 .. N
    BY <1>1, <1>3
  <2> QED BY <1>2, <1>3, <2>1 DEF WindowInv
<1>5. s.at = N + 1 /\ s.num = num
  BY <1>2 DEF FoundCall
<1>6. IsSite(N + 1)'
  <2>1. SiteFor(parser, line)
    BY DEF Reported
  <2>2. line.kind = "raw" => ~InWrapper(N + 1)'
    <3>1. parser.wrapper <=> InWrapper(N)
      BY <1>2 DEF WrapperInv
    <3>2. line.kind # "text" => (InWrapper(N + 1)' <=> InWrapper(N))
      BY <1>1, <1>2, InWrapperNext
    <3> QED BY <2>1, <3>1, <3>2 DEF SiteFor
  <2> QED BY <1>2, <2>1, <2>2 DEF SiteFor, IsSite
<1>7. Needs(N + 1)' = NeededBy(line)
  BY <1>2 DEF Needs, NeededBy
<1>8. \/ /\ num = 0 /\ line.kind = "raw" /\ Len(ins) >= 1 /\ ins[Len(ins)].kind = "zero"
      \/ \E i \in DOMAIN ins : LastLoad(ins, NeededBy(line), i) /\ num = ins[i].num
  BY <1>3, NumberSource DEF Reported
<1> HIDE DEF ins, num
<1>9. CASE num = 0 /\ line.kind = "raw" /\ Len(ins) >= 1 /\ ins[Len(ins)].kind = "zero"
  <2>1. Len(ins) \in 1 .. Len(ins) /\ Start + Len(ins) = N
    BY <1>1, <1>3, <1>9
  <2>2. read'[N].kind = "zero"
    BY <1>4, <1>9, <2>1
  <2>3. s.at - 1 = N
    BY <1>1, <1>5
  <2> QED BY <1>2, <1>5, <1>6, <1>9, <2>2, <2>3 DEF Own
<1>10. ASSUME NEW i \in DOMAIN ins, LastLoad(ins, NeededBy(line), i), num = ins[i].num
       PROVE  Own(s)'
  <2>1. PICK q \in 1 .. N : q = Start + i
    BY <1>3, <1>4
  <2>2. i \in 1 .. Len(ins) /\ i \in Nat /\ s.at - 1 = N
    BY <1>1, <1>3, <1>5
  <2>3. read'[q] = ins[i]
    BY <1>4, <2>1, <2>2
  <2>4. Loads(q, Needs(s.at))' /\ read'[q].num = s.num
    BY <1>5, <1>7, <1>10, <2>3 DEF Loads, LastLoad, IsLoad
  <2>5. \A k \in (q + 1) .. N : k - Start \in (i + 1) .. Len(ins) /\ k - Start \in 1 .. Len(ins)
                                /\ Start + (k - Start) = k
    BY <1>1, <1>3, <2>1, <2>2
  <2>6. \A k \in (q + 1) .. N : read'[k] = ins[k - Start] /\ read'[k].kind # "text"
    <3> TAKE k \in (q + 1) .. N
    <3> DEFINE j == k - Start
    <3>1. j \in 1 .. Len(ins) /\ Start + j = k
      BY <2>5
    <3> HIDE DEF j
    <3>2. ins[j] = read'[k] /\ read'[k].kind # "text"
      BY <1>4, <3>1
    <3> QED BY <3>2 DEF j
  <2>7. \A k \in (q + 1) .. N : ~Loads(k, NeededBy(line))'
    BY <1>10, <2>5, <2>6 DEF Loads, LastLoad, IsLoad
  <2>8. SameFunction(q, N + 1)'
    <3>1. line.kind # "text"
      BY DEF Reported, SiteFor
    <3>2. \A k \in (q + 1) .. (N + 1) : k \in (q + 1) .. N \/ k = N + 1
      BY <1>1
    <3> QED BY <1>2, <2>6, <3>1, <3>2 DEF SameFunction
  <2>9. \A m \in DOMAIN parser'.syscalls : parser'.syscalls[m].at \notin (q + 1) .. N
    <3> TAKE m \in DOMAIN parser'.syscalls
    <3>1. CASE m \in DOMAIN parser.syscalls /\ parser'.syscalls[m] = parser.syscalls[m]
      <4>1. parser.syscalls[m].at \in 2 .. Start
        BY <3>1 DEF FoundInv
      <4> QED BY <1>1, <1>3, <2>1, <2>2, <3>1, <4>1
    <3>2. CASE parser'.syscalls[m] = FoundCall(parser, line)
      <4>1. parser'.syscalls[m].at = N + 1
        BY <1>5, <3>2
      <4> QED BY <1>1, <4>1
    <3> QED BY <3>1, <3>2, ScanSyscalls
  <2>10. Sourced(s, q)'
    BY <1>5, <1>7, <2>2, <2>4, <2>7, <2>8, <2>9 DEF Sourced
  <2> QED BY <1>5, <1>6, <2>2, <2>10 DEF Own
<1> QED BY <1>8, <1>9, <1>10

LEMMA OwnNumberOwn == OwnNumber <=> \A n \in DOMAIN parser.syscalls : Own(parser.syscalls[n])
BY DEF OwnNumber, Own, Sourced

LEMMA ScanOwnNumber ==
  ASSUME ScannerInv, NEW line \in Lines, Scan(line)
  PROVE  OwnNumber'
<1>1. TypeOK /\ LinesInv /\ WindowInv /\ WrapperInv /\ FoundInv
  BY DEF ScannerInv
<1>2. \A n \in DOMAIN parser.syscalls : Own(parser.syscalls[n])
  BY OwnNumberOwn DEF ScannerInv
<1>3. OwnNumber' <=> \A n \in DOMAIN parser'.syscalls : Own(parser.syscalls[n])'
  BY DEF OwnNumber, Own, Sourced
<1> SUFFICES ASSUME NEW n \in DOMAIN parser'.syscalls
             PROVE  Own(parser.syscalls[n])'
  BY <1>3
<1>4. CASE n \in DOMAIN parser.syscalls /\ parser'.syscalls[n] = parser.syscalls[n]
  <2>1. PICK s : s = parser.syscalls[n]
    OBVIOUS
  <2>2. s.at \in 2 .. Start
    BY <1>1, <1>4, <2>1 DEF FoundInv
  <2>3. Grown(line) /\ parser.lines = Len(read) /\ parser.lines \in Nat
    BY <1>1, ScanLines
  <2>4. s.at \in 2 .. Len(read)
    <3>1. Len(parser.instructions) \in Nat
      BY <1>1 DEF TypeOK, Parsers
    <3> QED BY <2>2, <2>3, <3>1 DEF Start
  <2>5. \A m \in DOMAIN parser'.syscalls :
          \/ m \in DOMAIN parser.syscalls /\ parser'.syscalls[m] = parser.syscalls[m]
          \/ parser'.syscalls[m].at = Len(read) + 1
    <3>1. FoundCall(parser, line).at = Len(read) + 1
      BY <2>3 DEF FoundCall
    <3> QED BY <1>1, <3>1, ScanSyscalls
  <2>6. Own(s)
    BY <1>2, <1>4, <2>1
  <2>7. Own(s)'
    BY <2>3, <2>4, <2>5, <2>6, OwnKept
  <2> QED BY <1>4, <2>1, <2>7 DEF Own, Sourced
<1>5. CASE Reported(parser, line) /\ parser'.syscalls[n] = FoundCall(parser, line)
  <2>1. PICK s : s = FoundCall(parser, line)
    OBVIOUS
  <2>2. Own(s)'
    BY <1>1, <1>5, <2>1, OwnFound
  <2> QED BY <1>5, <2>1, <2>2 DEF Own, Sourced
<1> QED BY <1>1, <1>4, <1>5, ScanSyscalls

LEMMA NumberedKept ==
  ASSUME NEW line, Grown(line), NEW i \in 2 .. Len(read)
  PROVE  (Numbered(i)' <=> Numbered(i)) /\ read'[i - 1] = read[i - 1]
<1>1. Len(read) \in Nat /\ \A k \in 1 .. Len(read) : read'[k] = read[k]
  BY LinesKept
<1>2. i \in 1 .. Len(read) /\ i - 1 \in 1 .. Len(read)
  BY <1>1
<1>3. IsSite(i)' <=> IsSite(i)
  BY <1>2, SitesKept
<1>4. Needs(i)' = Needs(i)
  BY <1>2, SitesKept
<1>5. \A to : Loads(i - 1, to)' <=> Loads(i - 1, to)
  BY <1>2, SitesKept
<1>6. read'[i - 1] = read[i - 1]
  BY <1>1, <1>2
<1> QED BY <1>3, <1>4, <1>5, <1>6 DEF Numbered

LEMMA ListedKept ==
  ASSUME TypeOK, LinesInv, WindowInv, NEW line \in Lines, Scan(line),
         NEW i \in 2 .. Len(read), Numbered(i) => Listed(i), Numbered(i)'
  PROVE  Listed(i)'
<1>1. Grown(line)
  BY ScanLines
<1>2. Numbered(i) /\ read'[i - 1] = read[i - 1]
  BY <1>1, NumberedKept
<1>3. PICK n \in DOMAIN parser.syscalls :
        parser.syscalls[n] = [num |-> read[i - 1].num, at |-> i]
  BY <1>2 DEF Listed
<1>4. n \in DOMAIN parser'.syscalls /\ parser'.syscalls[n] = parser.syscalls[n]
  BY <1>3, ScanSyscalls
<1> QED BY <1>2, <1>3, <1>4 DEF Listed

LEMMA ListedFound ==
  ASSUME TypeOK, LinesInv, WindowInv, WrapperInv, NEW line \in Lines, Scan(line),
         NEW N \in Nat, N = Len(read), N >= 1, Numbered(N + 1)'
  PROVE  Listed(N + 1)'
<1> DEFINE ins == parser.instructions
<1>1. /\ Grown(line) /\ parser.lines = N
      /\ \A k \in 1 .. N : read'[k] = read[k]
      /\ read'[N + 1] = line
  BY ScanLines
<1>2. N + 1 - 1 = N /\ N \in 1 .. N /\ read'[N] = read[N]
  BY <1>1
<1>3. Needs(N + 1)' = NeededBy(line)
  BY <1>1 DEF Needs, NeededBy
<1>4. IsLoad(read[N], NeededBy(line)) /\ read[N].num \in SyscallNumbers
  BY <1>2, <1>3 DEF Numbered, Loads, IsLoad
<1>5. SiteFor(parser, line)
  <2>1. IsSite(N + 1)'
    BY DEF Numbered
  <2>2. parser.wrapper <=> InWrapper(N)
    BY <1>1 DEF WrapperInv
  <2>3. line.kind # "text" => (InWrapper(N + 1)' <=> InWrapper(N))
    BY <1>1, InWrapperNext
  <2> QED BY <1>1, <2>1, <2>2, <2>3 DEF IsSite, SiteFor
<1>6. parser \in Parsers /\ ins \in Seq(Lines) /\ Len(ins) \in Nat /\ DOMAIN ins = 1 .. Len(ins)
  BY DEF TypeOK, Parsers
<1>7. Start = N - Len(ins) /\ Start < N
  <2>1. Start = N - Len(ins)
    BY <1>1 DEF Start
  <2>2. read[N].kind = "load"
    BY <1>4 DEF IsLoad
  <2> QED BY <1>1, <2>1, <2>2 DEF WindowInv
<1>8. Len(ins) >= 1 /\ Start + Len(ins) = N
  BY <1>6, <1>7
<1>9. ins[Len(ins)] = read[N]
  <2>1. Len(ins) \in DOMAIN ins
    BY <1>6, <1>8
  <2> QED BY <1>8, <2>1 DEF WindowInv
<1>10. NumberOf(parser, line) = read[N].num
  BY <1>4, <1>5, <1>6, <1>8, <1>9, NumberInFront
<1>11. Reported(parser, line)
  <2>1. read[N].num \in Nat
    BY <1>4, SyscallNumbersAssumption
  <2>2. IsNumber(read[N].num)
    BY <2>1 DEF IsNumber, NotFound, NotASyscall
  <2> QED BY <1>4, <1>5, <1>10, <2>2 DEF Reported
<1>12. PICK n \in DOMAIN parser'.syscalls : parser'.syscalls[n] = FoundCall(parser, line)
  BY <1>11, ScanSyscalls
<1>13. parser'.syscalls[n] = [num |-> read'[N + 1 - 1].num, at |-> N + 1]
  BY <1>1, <1>2, <1>10, <1>12 DEF FoundCall
<1> QED BY <1>12, <1>13 DEF Listed

LEMMA ScanAscending ==
  ASSUME TypeOK, LinesInv, WindowInv, FoundInv, Ascending, NEW line \in Lines, Scan(line)
  PROVE  Ascending'
<1> DEFINE old == parser.syscalls
           new == parser'.syscalls
<1>1. parser.lines \in Nat /\ Start \in Int /\ Start <= parser.lines
  <2>1. Len(parser.instructions) \in Nat /\ parser.lines \in Nat
    BY DEF TypeOK, Parsers
  <2> QED BY <2>1 DEF Start
<1>2. old \in Seq([num : SyscallNumbers, at : Nat]) /\ new \in Seq([num : SyscallNumbers, at : Nat])
  BY ScanLines DEF TypeOK, Parsers
<1>3. DOMAIN new = 1 .. Len(new) /\ DOMAIN old = 1 .. Len(old)
  BY <1>2
<1> SUFFICES ASSUME NEW m \in DOMAIN new, NEW n \in DOMAIN new, m < n
             PROVE  new[m].at < new[n].at
  BY DEF Ascending
<1>4. m \in Nat /\ n \in Nat
  BY <1>3
<1>5. CASE n \in DOMAIN old /\ new[n] = old[n]
  <2>1. m \in DOMAIN old /\ new[m] = old[m]
    <3>1. m \in DOMAIN old \/ \A k \in DOMAIN old : k < m
      BY ScanSyscalls
    <3>2. m \in DOMAIN old
      BY <1>4, <1>5, <3>1
    <3> QED BY <3>2, ScanSyscalls
  <2> QED BY <1>5, <2>1 DEF Ascending
<1>6. CASE n = Len(old) + 1 /\ new[n] = FoundCall(parser, line)
  <2>1. m \in DOMAIN old /\ new[m] = old[m]
    <3>1. (m \in DOMAIN old /\ new[m] = old[m]) \/ m = Len(old) + 1
      BY ScanSyscalls
    <3> QED BY <1>4, <1>6, <3>1
  <2>2. old[m].at \in 2 .. Start
    BY <2>1 DEF FoundInv
  <2>3. new[n].at = parser.lines + 1
    BY <1>6 DEF FoundCall
  <2>4. new[m].at \in 2 .. Start
    BY <2>1, <2>2
  <2> HIDE DEF new
  <2> QED BY <1>1, <2>3, <2>4
<1> QED BY <1>5, <1>6, ScanSyscalls

LEMMA ScanNoneMissed ==
  ASSUME ScannerInv, NEW line \in Lines, Scan(line)
  PROVE  NoneMissed'
<1>1. TypeOK /\ LinesInv /\ WindowInv /\ WrapperInv /\ FoundInv
  BY DEF ScannerInv
<1>2. (\A i \in 2 .. Len(read) : Numbered(i) => Listed(i)) /\ Ascending
  BY DEF ScannerInv, NoneMissed
<1>3. PICK N \in Nat : N = Len(read)
  BY <1>1 DEF TypeOK
<1>4. Len(read') = N + 1
  BY <1>1, <1>3, ScanLines
<1>5. ASSUME NEW i \in 2 .. (N + 1), Numbered(i)'
      PROVE  Listed(i)'
  <2>1. CASE i \in 2 .. N
    <3>1. i \in 2 .. Len(read)
      BY <1>3, <2>1
    <3> QED BY <1>1, <1>2, <1>5, <3>1, ListedKept
  <2>2. CASE i = N + 1
    <3>1. N >= 1
      BY <2>2
    <3>2. Numbered(N + 1)'
      BY <1>5, <2>2
    <3>3. Listed(N + 1)'
      BY <1>1, <1>3, <3>1, <3>2, ListedFound
    <3> QED BY <2>2, <3>3
  <2> QED BY <2>1, <2>2
<1>6. Ascending'
  BY <1>1, <1>2, ScanAscending
<1>7. \A i \in 2 .. Len(read') : Numbered(i)' => Listed(i)'
  BY <1>4, <1>5
<1> QED BY <1>6, <1>7 DEF NoneMissed

-----------------------------------------------------------------------------
(* The invariant.                                                          *)

(* A line that is too long is no system call, and the parser does not see  *)
(* it.                                                                     *)
LEMMA ScanErrorInv ==
  ASSUME ScannerInv, NEW line \in Lines, ScanError(line)
  PROVE  ScannerInv'
<1>1. TypeOK /\ LinesInv /\ WindowInv /\ WrapperInv /\ FoundInv
  BY DEF ScannerInv
<1>2. Grown(line) /\ parser' = parser /\ line.kind = "overlong" /\ returned'
  BY <1>1 DEF ScanError, Grown, TypeOK
<1>3. PICK N \in Nat : N = Len(read)
  BY <1>1 DEF TypeOK
<1>4. /\ read' \in Seq(Lines) /\ Len(read') = N + 1
      /\ \A k \in 1 .. N : read'[k] = read[k]
      /\ read'[N + 1] = line
  BY <1>2, <1>3, LinesKept
<1>5. /\ parser.lines \in Nat /\ parser.lines <= N /\ parser.instructions \in Seq(Lines)
      /\ Len(parser.instructions) \in Nat
      /\ DOMAIN parser.instructions = 1 .. Len(parser.instructions)
      /\ Start = parser.lines - Len(parser.instructions) /\ Start >= 0
  BY <1>1, <1>3 DEF TypeOK, LinesInv, WindowInv, Parsers, Start
<1>6. Start' = Start
  BY <1>2 DEF Start
<1>7. TypeOK'
  BY <1>1, <1>2, <1>4 DEF TypeOK
<1>8. LinesInv'
  <2>1. \A k \in (parser.lines + 1) .. (N + 1) :
          k = N + 1 \/ (k \in (parser.lines + 1) .. N /\ k \in 1 .. N)
    BY <1>3, <1>5
  <2>2. \A k \in (parser.lines + 1) .. N : read[k].kind = "overlong"
    BY <1>1, <1>3 DEF LinesInv
  <2>3. \A k \in (parser.lines + 1) .. (N + 1) : read'[k].kind = "overlong"
    BY <1>2, <1>4, <2>1, <2>2
  <2> QED BY <1>2, <1>3, <1>4, <1>5, <2>3 DEF LinesInv
<1>9. WindowInv'
  <2>1. \A k \in 1 .. Len(parser.instructions) : Start + k \in 1 .. N
    BY <1>3, <1>5
  <2>2. \A k \in DOMAIN parser.instructions :
          parser.instructions[k] = read'[Start + k] /\ read'[Start + k].kind # "text"
    BY <1>1, <1>4, <1>5, <2>1 DEF WindowInv
  <2>3. parser.lines > 0 => read'[parser.lines] = read[parser.lines]
    BY <1>3, <1>4, <1>5
  <2> QED BY <1>1, <1>2, <1>5, <1>6, <2>2, <2>3 DEF WindowInv
<1>10. WrapperInv'
  <2>1. PICK n \in Nat : n = parser.lines
    BY <1>5
  <2>2. InWrapper(n)' <=> InWrapper(n)
    BY <1>2, <1>3, <1>5, <2>1, InWrapperKept
  <2> QED BY <1>1, <1>2, <2>1, <2>2 DEF WrapperInv
<1>11. FoundInv'
  BY <1>1, <1>2, <1>6 DEF FoundInv
<1>12. OwnNumber'
  <2>1. \A n \in DOMAIN parser.syscalls : Own(parser.syscalls[n])
    BY OwnNumberOwn DEF ScannerInv
  <2>2. ASSUME NEW n \in DOMAIN parser.syscalls
        PROVE  Own(parser.syscalls[n])'
    <3>1. PICK s : s = parser.syscalls[n]
      OBVIOUS
    <3>2. s.at \in 2 .. Start
      BY <1>1, <3>1 DEF FoundInv
    <3>3. s.at \in 2 .. Len(read)
      BY <1>3, <1>5, <3>2
    <3>4. Own(s)
      BY <2>1, <3>1
    <3>5. Own(s)'
      BY <1>2, <3>3, <3>4, OwnKept
    <3> QED BY <1>2, <3>1, <3>5 DEF Own, Sourced
  <2> QED BY <1>2, <2>2 DEF OwnNumber, Own, Sourced
<1>13. NoneMissed'
  <2>1. (\A i \in 2 .. Len(read) : Numbered(i) => Listed(i)) /\ Ascending
    BY DEF ScannerInv, NoneMissed
  <2>2. ASSUME NEW i \in 2 .. (N + 1), Numbered(i)'
        PROVE  Listed(i)'
    <3>1. i # N + 1
      <4>1. ~IsSite(N + 1)'
        BY <1>2, <1>4 DEF IsSite
      <4> QED BY <2>2, <4>1 DEF Numbered
    <3>2. i \in 2 .. Len(read)
      BY <1>3, <3>1
    <3>3. Numbered(i) /\ read'[i - 1] = read[i - 1]
      BY <1>2, <2>2, <3>2, NumberedKept
    <3> QED BY <1>2, <2>1, <3>2, <3>3 DEF Listed
  <2>3. \A i \in 2 .. Len(read') : Numbered(i)' => Listed(i)'
    BY <1>4, <2>2
  <2>4. Ascending'
    BY <1>2, <2>1 DEF Ascending
  <2> QED BY <2>3, <2>4 DEF NoneMissed
<1>14. ResultInv'
  <2>1. N + 1 \in DOMAIN read'
    BY <1>3, <1>4
  <2>2. Overran'
    BY <1>2, <1>4, <2>1 DEF Overran
  <2> QED BY <1>2, <2>2 DEF ResultInv, ScanError
<1> QED BY <1>7, <1>8, <1>9, <1>10, <1>11, <1>12, <1>13, <1>14 DEF ScannerInv

LEMMA InitInv == Init => ScannerInv
<1> SUFFICES ASSUME Init
             PROVE  ScannerInv
  OBVIOUS
<1>1. /\ read = <<>> /\ Len(read) = 0
      /\ parser = [wrapper |-> FALSE, instructions |-> <<>>, lines |-> 0, syscalls |-> <<>>]
  BY DEF Init, NewParser
<1>2. /\ parser.wrapper = FALSE /\ parser.instructions = <<>> /\ parser.lines = 0
      /\ parser.syscalls = <<>> /\ DOMAIN parser.syscalls = {} /\ DOMAIN parser.instructions = {}
      /\ Len(parser.instructions) = 0
  BY <1>1
<1>3. TypeOK
  BY <1>1 DEF TypeOK, Parsers
<1>4. LinesInv
  <2>1. 1 .. 0 = {} /\ 0 + 1 = 1
    OBVIOUS
  <2> QED BY <1>1, <1>2, <2>1 DEF LinesInv
<1>5. WindowInv
  BY <1>2 DEF WindowInv, Start
<1>6. WrapperInv
  <2>1. 1 .. 0 = {}
    OBVIOUS
  <2>2. ~InWrapper(0)
    BY <2>1 DEF InWrapper
  <2> QED BY <1>2, <2>2 DEF WrapperInv
<1>7. FoundInv /\ OwnNumber
  BY <1>2 DEF FoundInv, OwnNumber
<1>8. NoneMissed
  <2>1. 2 .. 0 = {}
    OBVIOUS
  <2> QED BY <1>1, <1>2, <2>1 DEF NoneMissed, Ascending
<1>9. ResultInv
  BY DEF Init, ResultInv
<1> QED BY <1>3, <1>4, <1>5, <1>6, <1>7, <1>8, <1>9 DEF ScannerInv

LEMMA UnchangedInv ==
  ASSUME ScannerInv, UNCHANGED <<read, parser>>,
         UNCHANGED <<returned, result>> \/ (result' = parser.syscalls /\ returned')
  PROVE  ScannerInv'
<1>1. TypeOK' /\ LinesInv'
  BY DEF ScannerInv, TypeOK, LinesInv
<1>2. Start' = Start
  BY DEF Start
<1>3. WindowInv' /\ FoundInv'
  BY <1>2 DEF ScannerInv, WindowInv, FoundInv
<1>4. WrapperInv'
  BY DEF ScannerInv, WrapperInv, InWrapper, SameFunction
<1>5. OwnNumber'
  BY DEF ScannerInv, OwnNumber, IsSite, InWrapper, SameFunction, Needs, Loads
<1>6. NoneMissed'
  BY DEF ScannerInv, NoneMissed, Numbered, Listed, Ascending,
         IsSite, InWrapper, SameFunction, Needs, Loads
<1>7. ResultInv'
  BY DEF ScannerInv, ResultInv, Overran
<1> QED BY <1>1, <1>3, <1>4, <1>5, <1>6, <1>7 DEF ScannerInv

LEMMA NextInv == ScannerInv /\ [Next]_vars => ScannerInv'
<1> SUFFICES ASSUME ScannerInv, [Next]_vars
             PROVE  ScannerInv'
  OBVIOUS
<1>1. ASSUME NEW line \in Lines, Scan(line)
      PROVE  ScannerInv'
  <2>1. TypeOK /\ LinesInv /\ WindowInv /\ WrapperInv /\ FoundInv
    BY DEF ScannerInv
  <2>2. TypeOK' /\ LinesInv'
    BY <1>1, <2>1, ScanLines
  <2>3. WindowInv'
    BY <1>1, <2>1, ScanWindow
  <2>4. WrapperInv'
    BY <1>1, <2>1, ScanWrapper
  <2>5. FoundInv'
    BY <1>1, <2>1, ScanFound
  <2>6. OwnNumber' /\ NoneMissed'
    BY <1>1, ScanOwnNumber, ScanNoneMissed
  <2>7. ResultInv'
    BY <1>1 DEF ScannerInv, ResultInv, Scan
  <2> QED BY <2>2, <2>3, <2>4, <2>5, <2>6, <2>7 DEF ScannerInv
<1>2. ASSUME NEW line \in Lines, ScanError(line)
      PROVE  ScannerInv'
  BY <1>2, ScanErrorInv
<1>3. CASE EndOfFile
  BY <1>3, UnchangedInv DEF EndOfFile
<1>4. CASE UNCHANGED vars
  BY <1>4, UnchangedInv DEF vars
<1> QED BY <1>1, <1>2, <1>3, <1>4 DEF Next, Returned

(* The list of instructions is always a tail of the lines read, of one     *)
(* function and behind the system calls reported: what the loop of Parse   *)
(* keeps so that the two properties hold.                                  *)
THEOREM ScannerInvariant == Spec => []ScannerInv
BY InitInv, NextInv, PTL DEF Spec

(* A system call is reported under the number loaded for it, in an objdump *)
(* of any length: by the last load of the right kind since its function    *)
(* began, which no call reported before it used.                           *)
THEOREM OwnNumbers == Spec => []OwnNumber
<1>1. ScannerInv => OwnNumber
  BY DEF ScannerInv
<1> QED BY <1>1, ScannerInvariant, PTL

(* From an objdump of any length, none of whose lines is too long for the  *)
(* scanner, Parse returns every system call whose number is loaded right   *)
(* in front of it; and from any objdump none twice or out of order.        *)
THEOREM NoneLosing == Spec => []NoneLost
<1>1. ScannerInv => NoneLost
  <2> SUFFICES ASSUME ScannerInv PROVE NoneLost
    OBVIOUS
  <2>1. NoneMissed /\ ResultInv
    BY DEF ScannerInv
  <2>2. ASSUME returned, ~Overran, NEW i \in 2 .. Len(read), Numbered(i)
        PROVE  InResult(i)
    <3>1. result = parser.syscalls
      BY <2>1, <2>2 DEF ResultInv
    <3>2. Listed(i)
      BY <2>1, <2>2 DEF NoneMissed
    <3> QED BY <3>1, <3>2, Zenon DEF Listed, InResult
  <2>3. \A m, n \in DOMAIN result : m < n => result[m].at < result[n].at
    <3>1. CASE result = <<>>
      BY <3>1
    <3>2. CASE result = parser.syscalls
      BY <2>1, <3>2, Zenon DEF NoneMissed, Ascending
    <3> QED BY <2>1, <3>1, <3>2 DEF ResultInv
  <2> QED BY <2>2, <2>3 DEF NoneLost
<1> QED BY <1>1, ScannerInvariant, PTL
=============================================================================
