--------------------------- MODULE ProfileProofs ---------------------------
(***************************************************************************)
(* Proofs about what the profiles of module Profiler contain, for any      *)
(* invocations, builds, objdumps and a buffer of any size.                 *)
(*                                                                         *)
(* An invocation parses a file that others wrote, one line after the       *)
(* other, and the first line of it is no objdump.  ProfileInv relates the  *)
(* parser in its memory, at every line, to a parser that reads nothing but *)
(* the objdump of one build (Behind).                                      *)
(***************************************************************************)
EXTENDS ProfilerProofs, NaturalsInduction, WellFoundedInduction

-----------------------------------------------------------------------------
(* What a profile is made of, when invocations do not overlap.             *)

(* The troubles that OneBuild allows.                                      *)
Lone == trouble \subseteq {"unreadable", "rebuilt"}

(* As long as no build came between, a hash is that of the build.          *)
Tied(h, b) == Calm => h \in {b, NoHash}

(* The file is the objdump of one build.                                   *)
HoldsWhole(h, b) == Tied(h, b) /\ cache = Whole(h, b)
Filled == cache = <<>> \/ \E b \in Builds : \E h \in Builds \cup {NoHash} : HoldsWhole(h, b)

(* A writer has the rest of it.                                            *)
WritesDump(m, w) ==
  /\ Rest(m, w)
  /\ Len(cache) = m.offset
  /\ \A k \in 1 .. m.offset : cache[k] = w[k]

Writing(m) == \E b \in Builds : Tied(m.hash, b) /\ WritesDump(m, Whole(m.hash, b))

Prefixed(h, s) == <<HashLine(h)>> \o s

(* The parser p that has read the line with the hash is as far as q, which *)
(* has not: it may still hold that line.                                   *)
Behind(p, q, h) ==
  /\ p.wrapper = q.wrapper
  /\ p.instructions \in {q.instructions, Prefixed(h, q.instructions)}
  /\ Len(p.syscalls) = Len(q.syscalls)
  /\ \A n \in 1 .. Len(q.syscalls) : p.syscalls[n].num = q.syscalls[n].num

(* The fields of a parser; wrapper may be anything.                        *)
IsParser(p) ==
  p \in [wrapper : {p.wrapper}, instructions : Seq(CacheLines), lines : Nat,
         syscalls : Seq([num : Nat, at : Nat])]

(* What an invocation has read of the objdump.                             *)
ReadLines(m, h, b, k) ==
  /\ m.offset = k + 1
  /\ IsParser(m.parser) /\ Behind(m.parser, Parsers(b)[k], h)
  /\ \A l \in 1 .. k : Dump[b][l].kind # "overlong"

HasRead(m, h, b) ==
  \/ m.offset = 0 /\ m.parser = NewParser
  \/ \E k \in 0 .. Len(Dump[b]) : ReadLines(m, h, b, k)

Reading(m) ==
  \E b \in Builds : \E h \in Builds \cup {NoHash} :
    Tied(m.hash, b) /\ cache = Whole(h, b) /\ HasRead(m, h, b)

(* What Parse found in it.                                                 *)
FoundIn(b) == IF Readable(b) THEN SyscallsOf(b) ELSE {}
Found(m) == \E b \in Builds : Tied(m.hash, b) /\ NumbersOf(m.parser) = FoundIn(b)

(* A profile of it.                                                        *)
Reports(r, opts) ==
  \E b \in Builds : Tied(r.hash, b) /\ r.names = Names(FoundIn(b), opts)

Early == {"idle", "hash", "check", "create", "dump"}

PartInv(i) ==
  /\ pc[i] \in Early => mem[i].parser = NewParser
  /\ pc[i] = "dump" => Writing(mem[i])
  /\ pc[i] = "parse" => Reading(mem[i])
  /\ pc[i] \in {"open", "write", "writing"} => Found(mem[i])
  /\ pc[i] = "done" => Reports(profile[i], options[i])

ProfileInv ==
  Lone => /\ \A i \in Invocations : PartInv(i)
          /\ (\A i \in Invocations : ~Writes(i)) => Filled

-----------------------------------------------------------------------------
(* The parser.                                                             *)

(* The number of the system call that line is, the last of the lines s.    *)
NumberAt(wrapper, s, line) ==
  IF line.kind = "raw" /\ ~wrapper
  THEN IF LastInstructionIsZero(s) THEN 0 ELSE FindSyscallNum(s, "register")
  ELSE IF line.kind = "call" THEN FindSyscallNum(s, "stack")
  ELSE NotASyscall

LEMMA ParserFields ==
  ASSUME NEW p, IsParser(p)
  PROVE  /\ p.instructions \in Seq(CacheLines) /\ p.lines \in Nat
         /\ p.syscalls \in Seq([num : Nat, at : Nat])
         /\ Len(p.syscalls) \in Nat /\ Len(p.instructions) \in Nat
BY DEF IsParser

LEMMA NewParserIs ==
  /\ IsParser(NewParser) /\ NewParser.instructions = <<>> /\ NewParser.syscalls = <<>>
  /\ NewParser.wrapper = FALSE /\ NewParser.lines = 0
<1>1. <<>> \in Seq(CacheLines) /\ <<>> \in Seq([num : Nat, at : Nat])
  OBVIOUS
<1> QED BY <1>1 DEF IsParser, NewParser

(* A parser with the next line.                                            *)
NextLine(p, line) == [p EXCEPT !.instructions = Append(@, line), !.lines = @ + 1]

LEMMA NextLineFields ==
  ASSUME NEW p, IsParser(p), NEW line \in CacheLines
  PROVE  LET q == NextLine(p, line)
         IN  /\ IsParser(q) /\ q.wrapper = p.wrapper
             /\ q.instructions = Append(p.instructions, line)
             /\ q.lines = p.lines + 1 /\ q.syscalls = p.syscalls
<1>1. PICK s \in Seq(CacheLines) : s = Append(p.instructions, line)
  BY ParserFields, AppendProperties
<1>2. PICK l \in Nat : l = p.lines + 1
  BY ParserFields
<1>3. PICK q : q = [p EXCEPT !.instructions = s, !.lines = l]
  OBVIOUS
<1>4. /\ IsParser(q) /\ q.wrapper = p.wrapper /\ q.instructions = s
      /\ q.lines = l /\ q.syscalls = p.syscalls
  BY <1>3 DEF IsParser
<1>5. NextLine(p, line) = q
  BY <1>1, <1>2, <1>3, Zenon DEF NextLine
<1> QED BY <1>1, <1>2, <1>4, <1>5, Zenon

(* What a round does to the parser.                                        *)
Begins(p, r, line) ==
  line.kind = "text" =>
    r.wrapper = line.wrapper /\ r.instructions = <<>> /\ r.syscalls = p.syscalls

Finds(p, r, line, num) ==
  line.kind # "text" /\ IsNumber(num) =>
    /\ r.wrapper = p.wrapper /\ r.instructions = <<>>
    /\ r.syscalls = IF num \in SyscallNumbers
                    THEN Append(p.syscalls, [num |-> num, at |-> p.lines + 1])
                    ELSE p.syscalls

Keeps(p, r, line, num) ==
  line.kind # "text" /\ ~IsNumber(num) =>
    r.wrapper = p.wrapper /\ r.instructions = Append(p.instructions, line)
    /\ r.syscalls = p.syscalls

Parsed(p, r, line, num) ==
  IsParser(r) /\ Begins(p, r, line) /\ Finds(p, r, line, num) /\ Keeps(p, r, line, num)

LEMMA ParseLineIs ==
  ASSUME NEW p, IsParser(p), NEW line \in CacheLines
  PROVE  Parsed(p, ParseLine(p, line), line, NumberAt(p.wrapper, Append(p.instructions, line), line))
<1>1. PICK q : q = NextLine(p, line)
  OBVIOUS
<1>2. /\ IsParser(q) /\ q.wrapper = p.wrapper
      /\ q.instructions = Append(p.instructions, line)
      /\ q.lines = p.lines + 1 /\ q.syscalls = p.syscalls
  BY <1>1, NextLineFields, Zenon
<1>3. PICK num : num = NumberAt(p.wrapper, Append(p.instructions, line), line)
  OBVIOUS
<1>4. ParseX86_64(q, line) = num
  BY <1>2, <1>3, Zenon DEF ParseX86_64, NumberAt
<1>5. ParseLine(p, line) = IF line.kind = "text" THEN BeginFunction(q, line)
                           ELSE IF IsNumber(num) THEN FoundSyscall(q, num) ELSE q
  BY <1>1, <1>4, Zenon DEF ParseLine, NextLine
<1>6. PICK r : r = ParseLine(p, line)
  OBVIOUS
<1>7. CASE line.kind = "text"
  <2>1. r = [q EXCEPT !.wrapper = line.wrapper, !.instructions = <<>>]
    BY <1>5, <1>6, <1>7 DEF BeginFunction
  <2>2. <<>> \in Seq(CacheLines)
    OBVIOUS
  <2>3. /\ IsParser(r) /\ r.wrapper = line.wrapper /\ r.instructions = <<>>
        /\ r.syscalls = q.syscalls
    BY <1>2, <2>1, <2>2 DEF IsParser
  <2> QED BY <1>2, <1>3, <1>6, <1>7, <2>3, Zenon DEF Parsed, Begins, Finds, Keeps
<1>8. CASE line.kind # "text" /\ IsNumber(num)
  <2>1. PICK s : s = IF num \in SyscallNumbers
                     THEN Append(q.syscalls, [num |-> num, at |-> q.lines]) ELSE q.syscalls
    OBVIOUS
  <2>2. s \in Seq([num : Nat, at : Nat])
    <3>1. q.syscalls \in Seq([num : Nat, at : Nat]) /\ q.lines \in Nat
      BY <1>2, ParserFields
    <3>2. CASE num \in SyscallNumbers
      <4>1. [num |-> num, at |-> q.lines] \in [num : Nat, at : Nat]
        BY <3>1, <3>2, SyscallNumbersAssumption
      <4> QED BY <2>1, <3>1, <3>2, <4>1, AppendProperties
    <3>3. CASE num \notin SyscallNumbers
      BY <2>1, <3>1, <3>3
    <3> QED BY <3>2, <3>3
  <2>3. r = [q EXCEPT !.instructions = <<>>, !.syscalls = s]
    BY <1>5, <1>6, <1>8, <2>1, Zenon DEF FoundSyscall
  <2>4. <<>> \in Seq(CacheLines)
    OBVIOUS
  <2>5. IsParser(r) /\ r.wrapper = q.wrapper /\ r.instructions = <<>> /\ r.syscalls = s
    BY <1>2, <2>2, <2>3, <2>4 DEF IsParser
  <2>6. s = IF num \in SyscallNumbers
            THEN Append(p.syscalls, [num |-> num, at |-> p.lines + 1]) ELSE p.syscalls
    BY <1>2, <2>1, Zenon
  <2> QED BY <1>2, <1>3, <1>6, <1>8, <2>5, <2>6, Zenon DEF Parsed, Begins, Finds, Keeps
<1>9. CASE line.kind # "text" /\ ~IsNumber(num)
  <2>1. r = q
    BY <1>5, <1>6, <1>9
  <2> QED BY <1>2, <1>3, <1>6, <1>9, <2>1, Zenon DEF Parsed, Begins, Finds, Keeps
<1> QED BY <1>7, <1>8, <1>9

-----------------------------------------------------------------------------
(* The line with the hash makes no difference to the parser.               *)

LEMMA PrefixedIs ==
  ASSUME NEW h \in Builds \cup {NoHash}, NEW s \in Seq(CacheLines)
  PROVE  /\ Prefixed(h, s) \in Seq(CacheLines) /\ Len(Prefixed(h, s)) = Len(s) + 1
         /\ Len(s) \in Nat
         /\ Prefixed(h, s)[1] = HashLine(h)
         /\ \A k \in 1 .. Len(s) : Prefixed(h, s)[k + 1] = s[k]
<1>1. PICK t : t = <<HashLine(h)>>
  OBVIOUS
<1>2. t \in Seq(CacheLines) /\ Len(t) = 1
  BY <1>1, HashLineIsLine
<1>3. t[1] = HashLine(h)
  <2> HIDE DEF HashLine
  <2> QED BY <1>1
<1>4. PICK w : w = t \o s
  OBVIOUS
<1>5. /\ w \in Seq(CacheLines) /\ Len(w) = Len(t) + Len(s)
      /\ \A i \in 1 .. Len(t) + Len(s) : w[i] = IF i <= Len(t) THEN t[i] ELSE s[i - Len(t)]
  BY <1>2, <1>4, ConcatProperties
<1>6. Len(s) \in Nat
  OBVIOUS
<1>7. w[1] = HashLine(h) /\ \A k \in 1 .. Len(s) : w[k + 1] = s[k]
  BY <1>2, <1>3, <1>5, <1>6
<1>8. Prefixed(h, s) = w
  BY <1>1, <1>4, Zenon DEF Prefixed
<1> QED BY <1>2, <1>5, <1>6, <1>7, <1>8

LEMMA PrefixedAppend ==
  ASSUME NEW h \in Builds \cup {NoHash}, NEW s \in Seq(CacheLines), NEW line \in CacheLines
  PROVE  Append(Prefixed(h, s), line) = Prefixed(h, Append(s, line))
<1>1. PICK t, u, v : t = Append(s, line) /\ u = Append(Prefixed(h, s), line) /\ v = Prefixed(h, t)
  OBVIOUS
<1>2. /\ t \in Seq(CacheLines) /\ Len(t) = Len(s) + 1 /\ Len(s) \in Nat
      /\ \A k \in 1 .. Len(s) : t[k] = s[k]
      /\ t[Len(s) + 1] = line
  BY <1>1, AppendProperties
<1>3. PICK w : w = Prefixed(h, s)
  OBVIOUS
<1>4. /\ w \in Seq(CacheLines) /\ Len(w) = Len(s) + 1 /\ w[1] = HashLine(h)
      /\ \A k \in 1 .. Len(s) : w[k + 1] = s[k]
  BY <1>3, PrefixedIs
<1>5. /\ u \in Seq(CacheLines) /\ Len(u) = Len(w) + 1
      /\ \A k \in 1 .. Len(w) : u[k] = w[k]
      /\ u[Len(w) + 1] = line
  BY <1>1, <1>3, <1>4, AppendProperties
<1>6. /\ v \in Seq(CacheLines) /\ Len(v) = Len(t) + 1 /\ v[1] = HashLine(h)
      /\ \A k \in 1 .. Len(t) : v[k + 1] = t[k]
  BY <1>1, <1>2, PrefixedIs
<1>7. Len(u) = Len(v)
  BY <1>2, <1>4, <1>5, <1>6
<1>8. \A k \in 1 .. Len(u) : u[k] = v[k]
  <2> TAKE k \in 1 .. Len(u)
  <2>1. CASE k = 1
    BY <1>2, <1>4, <1>5, <1>6, <2>1
  <2>2. CASE k = Len(s) + 2
    <3>1. k = Len(w) + 1 /\ k - 1 = Len(s) + 1 /\ k - 1 \in 1 .. Len(t) /\ (k - 1) + 1 = k
      BY <1>2, <1>4, <2>2
    <3> QED BY <1>2, <1>5, <1>6, <3>1
  <2>3. CASE k # 1 /\ k # Len(s) + 2
    <3>1. k - 1 \in 1 .. Len(s) /\ k \in 1 .. Len(w) /\ k - 1 \in 1 .. Len(t) /\ (k - 1) + 1 = k
      BY <1>2, <1>4, <1>5, <2>3
    <3>2. u[k] = w[k] /\ v[k] = t[k - 1]
      BY <1>5, <1>6, <3>1
    <3>3. w[k] = s[k - 1] /\ t[k - 1] = s[k - 1]
      BY <1>2, <1>4, <3>1
    <3> QED BY <3>2, <3>3
  <2> QED BY <2>1, <2>2, <2>3
<1>9. u = v
  BY <1>5, <1>6, <1>7, <1>8, SeqEqual
<1> QED BY <1>1, <1>9, Zenon

LEMMA ZeroPrefixed ==
  ASSUME NEW h \in Builds \cup {NoHash}, NEW s \in Seq(CacheLines), Len(s) >= 1
  PROVE  LastInstructionIsZero(Prefixed(h, s)) <=> LastInstructionIsZero(s)
<1>1. PICK w : w = Prefixed(h, s)
  OBVIOUS
<1>2. /\ Len(w) = Len(s) + 1 /\ w[1] = HashLine(h) /\ Len(s) \in Nat
      /\ \A k \in 1 .. Len(s) : w[k + 1] = s[k]
  BY <1>1, PrefixedIs
<1>3. CASE Len(s) = 1
  <2>1. w[Len(w) - 1].kind = "hash"
    BY <1>2, <1>3 DEF HashLine
  <2> QED BY <1>1, <1>3, <2>1 DEF LastInstructionIsZero
<1>4. CASE Len(s) >= 2
  <2>1. Len(s) - 1 \in 1 .. Len(s) /\ (Len(s) - 1) + 1 = Len(w) - 1
    BY <1>2, <1>4
  <2>2. w[Len(w) - 1] = s[Len(s) - 1]
    BY <1>2, <2>1
  <2> QED BY <1>1, <1>2, <1>4, <2>2 DEF LastInstructionIsZero
<1>5. Len(s) = 1 \/ Len(s) >= 2
  <2>1. PICK n \in Nat : n = Len(s)
    BY <1>2
  <2>2. n >= 1
    BY <2>1
  <2> QED BY <2>1, <2>2
<1> QED BY <1>3, <1>4, <1>5, Zenon

(* The positions of the loads.                                             *)
LoadsIn(s, to) == {i \in 1 .. Len(s) : s[i].kind = "load" /\ s[i].to = to}
LastLoad(s, to) == IF LoadsIn(s, to) # {} THEN Max(LoadsIn(s, to)) ELSE 0

LEMMA FindIs ==
  ASSUME NEW s, NEW to
  PROVE  FindSyscallNum(s, to) = IF LastLoad(s, to) = 0 THEN NotFound ELSE s[LastLoad(s, to)].num
BY Zenon DEF FindSyscallNum, SelectLastInSeq, LastLoad, LoadsIn

LEMMA LeastAbove ==
  ASSUME NEW T, T \subseteq Nat, T # {}
  PROVE  \E n \in T : \A m \in T : n <= m
<1>1. PICK n \in T : \A m \in T : ~ (<<m, n>> \in OpToRel(<, Nat))
  BY NatLessThanWellFounded, WFMin
<1>2. \A m \in T : n <= m
  <2> TAKE m \in T
  <2>1. ~(m < n)
    BY <1>1 DEF OpToRel
  <2> QED BY <2>1
<1> QED BY <1>2

LEMMA MaxIs ==
  ASSUME NEW n \in Nat, NEW S \in SUBSET (1 .. n), S # {}
  PROVE  Max(S) \in S /\ \A y \in S : Max(S) >= y
<1> DEFINE T == {k \in Nat : \A y \in S : y <= k}
<1>1. T \subseteq Nat /\ n \in T
  OBVIOUS
<1>2. PICK m \in T : \A k \in T : m <= k
  <2> HIDE DEF T
  <2> QED BY <1>1, LeastAbove
<1>3. m \in Nat /\ \A y \in S : y <= m
  OBVIOUS
<1>4. m \in S
  <2> SUFFICES ASSUME m \notin S PROVE FALSE
    OBVIOUS
  <2>1. \A y \in S : y \in Nat /\ y >= 1 /\ y <= m - 1
    BY <1>3
  <2>2. m - 1 \in Nat
    <3>1. PICK y \in S : TRUE
      OBVIOUS
    <3> QED BY <1>3, <2>1, <3>1
  <2>3. m - 1 \in T
    BY <2>1, <2>2
  <2> QED BY <1>2, <1>3, <2>3
<1>5. \E x \in S : \A y \in S : x >= y
  BY <1>3, <1>4
<1> QED BY <1>5, Zenon DEF Max

LEMMA FindPrefixed ==
  ASSUME NEW h \in Builds \cup {NoHash}, NEW s \in Seq(CacheLines), NEW to
  PROVE  FindSyscallNum(Prefixed(h, s), to) = FindSyscallNum(s, to)
<1>1. PICK w : w = Prefixed(h, s)
  OBVIOUS
<1>2. /\ Len(w) = Len(s) + 1 /\ w[1] = HashLine(h) /\ Len(s) \in Nat
      /\ \A k \in 1 .. Len(s) : w[k + 1] = s[k]
  BY <1>1, PrefixedIs
<1>3. PICK A, B : A = LoadsIn(s, to) /\ B = LoadsIn(w, to)
  OBVIOUS
<1>4. A \in SUBSET (1 .. Len(s)) /\ B \in SUBSET (1 .. Len(w))
  BY <1>3 DEF LoadsIn
<1>5. \A i \in 1 .. Len(s) : i \in A <=> i + 1 \in B
  <2> TAKE i \in 1 .. Len(s)
  <2>1. w[i + 1] = s[i] /\ i + 1 \in 1 .. Len(w)
    BY <1>2
  <2> QED BY <1>3, <2>1 DEF LoadsIn
<1>6. 1 \notin B
  <2>1. w[1].kind = "hash"
    BY <1>2 DEF HashLine
  <2> QED BY <1>3, <2>1 DEF LoadsIn
<1>7. \A j \in B : j - 1 \in A /\ j \in Nat
  <2> TAKE j \in B
  <2>1. j - 1 \in 1 .. Len(s) /\ (j - 1) + 1 = j
    BY <1>2, <1>4, <1>6
  <2> QED BY <1>5, <2>1
<1>8. CASE A = {}
  <2>1. B = {}
    BY <1>7, <1>8
  <2>2. LastLoad(s, to) = 0 /\ LastLoad(w, to) = 0
    BY <1>3, <1>8, <2>1, Zenon DEF LastLoad
  <2> QED BY <1>1, <2>2, FindIs, Zenon
<1>9. CASE A # {}
  <2>1. PICK a : a = Max(A)
    OBVIOUS
  <2>2. a \in A /\ a \in 1 .. Len(s) /\ \A y \in A : a >= y
    BY <1>2, <1>4, <1>9, <2>1, MaxIs
  <2>3. a + 1 \in B
    BY <1>5, <2>2
  <2>4. PICK b : b = Max(B)
    OBVIOUS
  <2>5. b \in B /\ \A y \in B : b >= y
    <3>1. Len(w) \in Nat /\ B # {}
      BY <1>2, <2>3
    <3> QED BY <1>4, <2>4, <3>1, MaxIs
  <2>6. b = a + 1
    BY <1>2, <1>7, <2>2, <2>3, <2>5
  <2>7. LastLoad(s, to) = a /\ LastLoad(w, to) = b
    BY <1>3, <1>9, <2>1, <2>3, <2>4, Zenon DEF LastLoad
  <2>8. a # 0 /\ b # 0 /\ w[b] = s[a]
    BY <1>2, <2>2, <2>6
  <2>9. FindSyscallNum(s, to) = s[a].num /\ FindSyscallNum(w, to) = w[b].num
    BY <2>7, <2>8, FindIs
  <2> QED BY <1>1, <2>8, <2>9
<1> QED BY <1>8, <1>9

LEMMA NumberPrefixed ==
  ASSUME NEW h \in Builds \cup {NoHash}, NEW s \in Seq(CacheLines), Len(s) >= 1,
         NEW wrapper, NEW line
  PROVE  NumberAt(wrapper, Prefixed(h, s), line) = NumberAt(wrapper, s, line)
<1>1. LastInstructionIsZero(Prefixed(h, s)) <=> LastInstructionIsZero(s)
  BY ZeroPrefixed
<1>2. \A to : FindSyscallNum(Prefixed(h, s), to) = FindSyscallNum(s, to)
  BY FindPrefixed
<1> QED BY <1>1, <1>2, Zenon DEF NumberAt

(* The numbers that two parsers have found are the same.                   *)
SameNumbers(s, t) ==
  Len(s) = Len(t) /\ \A n \in 1 .. Len(t) : s[n].num = t[n].num

LEMMA SameNumbersAppend ==
  ASSUME NEW S, NEW s \in Seq(S), NEW t \in Seq(S), SameNumbers(s, t),
         NEW x \in S, NEW y \in S, x.num = y.num
  PROVE  SameNumbers(Append(s, x), Append(t, y))
<1>1. PICK u, v : u = Append(s, x) /\ v = Append(t, y)
  OBVIOUS
<1>2. /\ Len(u) = Len(s) + 1 /\ u[Len(s) + 1] = x /\ \A k \in 1 .. Len(s) : u[k] = s[k]
      /\ Len(s) \in Nat
  BY <1>1, AppendProperties
<1>3. /\ Len(v) = Len(t) + 1 /\ v[Len(t) + 1] = y /\ \A k \in 1 .. Len(t) : v[k] = t[k]
  BY <1>1, AppendProperties
<1>4. Len(s) = Len(t) /\ \A n \in 1 .. Len(t) : s[n].num = t[n].num
  BY DEF SameNumbers
<1>5. ASSUME NEW n \in 1 .. Len(v)
      PROVE  u[n].num = v[n].num
  <2>1. CASE n = Len(t) + 1
    BY <1>2, <1>3, <1>4, <2>1
  <2>2. CASE n # Len(t) + 1
    <3>1. n \in 1 .. Len(t)
      BY <1>2, <1>3, <1>4, <2>2
    <3>2. u[n] = s[n] /\ v[n] = t[n]
      BY <1>2, <1>3, <1>4, <3>1
    <3> QED BY <1>4, <3>1, <3>2
  <2> QED BY <2>1, <2>2
<1>6. SameNumbers(u, v)
  BY <1>2, <1>3, <1>4, <1>5 DEF SameNumbers
<1> QED BY <1>1, <1>6, Zenon

LEMMA BehindLine ==
  ASSUME NEW h \in Builds \cup {NoHash}, NEW p, NEW q, IsParser(p), IsParser(q),
         Behind(p, q, h), NEW line \in CacheLines
  PROVE  /\ IsParser(ParseLine(p, line)) /\ IsParser(ParseLine(q, line))
         /\ Behind(ParseLine(p, line), ParseLine(q, line), h)
<1>1. PICK s, t : s = Append(p.instructions, line) /\ t = Append(q.instructions, line)
  OBVIOUS
<1>2. PICK m, n : m = NumberAt(p.wrapper, s, line) /\ n = NumberAt(q.wrapper, t, line)
  OBVIOUS
<1>3. PICK u, v : u = ParseLine(p, line) /\ v = ParseLine(q, line)
  OBVIOUS
<1>4. Parsed(p, u, line, m) /\ Parsed(q, v, line, n)
  BY <1>1, <1>2, <1>3, ParseLineIs
<1>5. /\ p.wrapper = q.wrapper /\ SameNumbers(p.syscalls, q.syscalls)
      /\ p.instructions \in {q.instructions, Prefixed(h, q.instructions)}
  BY DEF Behind, SameNumbers
<1>6. s \in {t, Prefixed(h, t)} /\ t \in Seq(CacheLines) /\ Len(t) >= 1
  <2>1. q.instructions \in Seq(CacheLines)
    BY ParserFields
  <2>2. t \in Seq(CacheLines) /\ Len(t) = Len(q.instructions) + 1 /\ Len(q.instructions) \in Nat
    BY <1>1, <2>1, AppendProperties
  <2>3. CASE p.instructions = q.instructions
    BY <1>1, <2>2, <2>3
  <2>4. CASE p.instructions = Prefixed(h, q.instructions)
    <3>1. s = Prefixed(h, t)
      BY <1>1, <2>1, <2>4, PrefixedAppend
    <3> QED BY <2>2, <3>1
  <2> QED BY <1>5, <2>3, <2>4
<1>7. m = n
  BY <1>2, <1>5, <1>6, NumberPrefixed
<1>8. IsParser(u) /\ IsParser(v)
  BY <1>4 DEF Parsed
<1>9. Behind(u, v, h)
  <2>1. ASSUME u.wrapper = v.wrapper, u.instructions \in {v.instructions, Prefixed(h, v.instructions)},
               SameNumbers(u.syscalls, v.syscalls)
        PROVE  Behind(u, v, h)
    BY <2>1, Zenon DEF Behind, SameNumbers
  <2>2. CASE line.kind = "text"
    <3>1. /\ u.wrapper = v.wrapper /\ u.instructions = v.instructions
          /\ u.syscalls = p.syscalls /\ v.syscalls = q.syscalls
      BY <1>4, <2>2, Zenon DEF Parsed, Begins
    <3> QED BY <1>5, <2>1, <3>1
  <2>3. CASE line.kind # "text" /\ IsNumber(m)
    <3>1. u.wrapper = v.wrapper /\ u.instructions = v.instructions
      BY <1>4, <1>5, <1>7, <2>3, Zenon DEF Parsed, Finds
    <3>2. SameNumbers(u.syscalls, v.syscalls)
      <4>1. CASE m \in SyscallNumbers
        <5>1. PICK x, y : x = [num |-> m, at |-> p.lines + 1] /\ y = [num |-> m, at |-> q.lines + 1]
          OBVIOUS
        <5>2. u.syscalls = Append(p.syscalls, x) /\ v.syscalls = Append(q.syscalls, y)
          BY <1>4, <1>7, <2>3, <4>1, <5>1, Zenon DEF Parsed, Finds
        <5>3. PICK S : S = [num : Nat, at : Nat]
          OBVIOUS
        <5>4. x \in S /\ y \in S /\ x.num = y.num
          <6>1. p.lines + 1 \in Nat /\ q.lines + 1 \in Nat /\ m \in Nat
            BY <4>1, ParserFields, SyscallNumbersAssumption
          <6> QED BY <5>1, <5>3, <6>1
        <5>5. p.syscalls \in Seq(S) /\ q.syscalls \in Seq(S)
          BY <5>3, ParserFields
        <5> QED BY <1>5, <5>2, <5>4, <5>5, SameNumbersAppend
      <4>2. CASE m \notin SyscallNumbers
        BY <1>4, <1>5, <1>7, <2>3, <4>2, Zenon DEF Parsed, Finds
      <4> QED BY <4>1, <4>2
    <3> QED BY <2>1, <3>1, <3>2
  <2>4. CASE line.kind # "text" /\ ~IsNumber(m)
    <3>1. /\ u.wrapper = p.wrapper /\ v.wrapper = q.wrapper
          /\ u.instructions = s /\ v.instructions = t
          /\ u.syscalls = p.syscalls /\ v.syscalls = q.syscalls
      BY <1>1, <1>4, <1>7, <2>4, Zenon DEF Parsed, Keeps
    <3> QED BY <1>5, <1>6, <2>1, <3>1
  <2> QED BY <2>2, <2>3, <2>4, Zenon
<1> QED BY <1>3, <1>8, <1>9, Zenon

(* The first line of the file is the one with the hash.                    *)
LEMMA BehindHash ==
  ASSUME NEW h \in Builds \cup {NoHash}
  PROVE  /\ IsParser(ParseLine(NewParser, HashLine(h)))
         /\ Behind(ParseLine(NewParser, HashLine(h)), NewParser, h)
<1>1. PICK p, line : p = NewParser /\ line = HashLine(h)
  OBVIOUS
<1>2. IsParser(p) /\ p.instructions = <<>> /\ p.syscalls = <<>>
  BY <1>1, NewParserIs
<1>3. line \in CacheLines /\ line.kind = "hash"
  BY <1>1 DEF CacheLines, HashLine
<1>4. PICK n : n = NumberAt(p.wrapper, Append(p.instructions, line), line)
  OBVIOUS
<1>5. ~IsNumber(n)
  BY <1>3, <1>4 DEF NumberAt, IsNumber
<1>6. PICK u : u = ParseLine(p, line)
  OBVIOUS
<1>7. Parsed(p, u, line, n)
  BY <1>2, <1>3, <1>4, <1>6, ParseLineIs
<1>8. /\ IsParser(u) /\ u.wrapper = p.wrapper
      /\ u.instructions = Append(p.instructions, line) /\ u.syscalls = p.syscalls
  BY <1>3, <1>5, <1>7 DEF Parsed, Keeps
<1>9. u.instructions = Prefixed(h, p.instructions)
  <2>1. Append(<<>>, line) = <<line>> \o <<>>
    OBVIOUS
  <2> QED BY <1>1, <1>2, <1>8, <2>1, Zenon DEF Prefixed
<1>10. Behind(u, p, h)
  BY <1>8, <1>9, Zenon DEF Behind
<1> QED BY <1>1, <1>6, <1>8, <1>10, Zenon

(* A parser that is behind has found the same numbers.                     *)
LEMMA BehindNumbers ==
  ASSUME NEW h, NEW p, NEW q, IsParser(p), IsParser(q), Behind(p, q, h)
  PROVE  NumbersOf(p) = NumbersOf(q)
<1>1. PICK s, t : s = p.syscalls /\ t = q.syscalls
  OBVIOUS
<1>2. PICK S : S = [num : Nat, at : Nat]
  OBVIOUS
<1>3. s \in Seq(S) /\ t \in Seq(S)
  BY <1>1, <1>2, ParserFields
<1>4. Len(s) = Len(t) /\ \A n \in 1 .. Len(t) : s[n].num = t[n].num
  BY <1>1 DEF Behind
<1>5. DOMAIN s = 1 .. Len(t) /\ DOMAIN t = 1 .. Len(t)
  BY <1>3, <1>4
<1>6. {s[n].num : n \in DOMAIN s} = {t[n].num : n \in DOMAIN t}
  BY <1>4, <1>5
<1>7. NumbersOf(p) = {s[n].num : n \in DOMAIN s} /\ NumbersOf(q) = {t[n].num : n \in DOMAIN t}
  BY <1>1 DEF NumbersOf
<1> QED BY <1>6, <1>7

-----------------------------------------------------------------------------
(* The parser of a build.                                                  *)

LEMMA NatInductive ==
  ASSUME NEW S, 0 \in S, \A n \in Nat : n \in S => n + 1 \in S
  PROVE  Nat \subseteq S
<1> DEFINE T == {n \in Nat : n \notin S}
<1> SUFFICES ASSUME T # {} PROVE FALSE
  OBVIOUS
<1>1. PICK n \in T : \A m \in T : n <= m
  <2>1. T \subseteq Nat
    OBVIOUS
  <2> HIDE DEF T
  <2> QED BY <2>1, LeastAbove
<1>2. n \in Nat /\ n # 0
  OBVIOUS
<1>3. n - 1 \in Nat /\ n - 1 < n /\ (n - 1) + 1 = n
  BY <1>2
<1>4. n - 1 \notin T
  BY <1>1, <1>2, <1>3
<1>5. n - 1 \in S
  BY <1>3, <1>4
<1> QED BY <1>2, <1>3, <1>5

(* The equation that defines Parsers.                                      *)
Upto(b, k, c) ==
  c = [i \in 0 .. k |-> IF i = 0 THEN NewParser ELSE ParseLine(c[i - 1], Dump[b][i])]

LEMMA ParsersRun ==
  ASSUME NEW b
  PROVE  Parsers(b) = CHOOSE c : Upto(b, Len(Dump[b]), c)
BY Zenon DEF Parsers, Upto

LEMMA UptoNext ==
  ASSUME NEW b, NEW k \in Nat, NEW c, Upto(b, k, c)
  PROVE  \E g : Upto(b, k + 1, g)
<1> DEFINE B(x, i) == ParseLine(x, Dump[b][i])
<1>0. c = [i \in 0 .. k |-> IF i = 0 THEN NewParser ELSE B(c[i - 1], i)]
  BY Zenon DEF Upto
<1> HIDE DEF B
<1>1. PICK g : g = [i \in 0 .. (k + 1) |-> IF i = k + 1 THEN B(c[k], k + 1) ELSE c[i]]
  OBVIOUS
<1>2. \A i \in 0 .. k : g[i] = c[i]
  BY <1>1
<1>3. ASSUME NEW i \in 0 .. (k + 1)
      PROVE  g[i] = IF i = 0 THEN NewParser ELSE B(g[i - 1], i)
  <2>1. CASE i = k + 1
    <3>1. i # 0 /\ i - 1 = k /\ k \in 0 .. k
      BY <2>1
    <3> QED BY <1>1, <1>2, <2>1, <3>1
  <2>2. CASE i # k + 1 /\ i # 0
    <3>1. i \in 0 .. k /\ i - 1 \in 0 .. k
      BY <2>2
    <3>2. c[i] = B(c[i - 1], i)
      BY <1>0, <2>2, <3>1
    <3> QED BY <1>2, <2>2, <3>1, <3>2
  <2>3. CASE i = 0
    BY <1>0, <1>2, <2>3
  <2> QED BY <2>1, <2>2, <2>3
<1>4. g = [i \in 0 .. (k + 1) |-> IF i = 0 THEN NewParser ELSE B(g[i - 1], i)]
  BY <1>1, <1>3
<1> QED BY <1>4, Zenon DEF Upto, B

LEMMA ParsersIs ==
  ASSUME NEW b \in Builds
  PROVE  /\ Parsers(b)[0] = NewParser
         /\ \A k \in Nat : k < Len(Dump[b]) =>
              Parsers(b)[k + 1] = ParseLine(Parsers(b)[k], Dump[b][k + 1])
<1> DEFINE S == {k \in Nat : \E c : Upto(b, k, c)}
<1>1. 0 \in S
  <2>1. PICK c : c = [i \in 0 .. 0 |-> NewParser]
    OBVIOUS
  <2>2. \A i \in 0 .. 0 : i = 0
    OBVIOUS
  <2>3. c = [i \in 0 .. 0 |-> IF i = 0 THEN NewParser ELSE ParseLine(c[i - 1], Dump[b][i])]
    BY <2>1, <2>2
  <2>4. Upto(b, 0, c)
    BY <2>3, Zenon DEF Upto
  <2> QED BY <2>4
<1>2. ASSUME NEW k \in Nat, k \in S
      PROVE  k + 1 \in S
  <2>1. PICK c : Upto(b, k, c)
    BY <1>2
  <2>2. \E g : Upto(b, k + 1, g)
    BY <2>1, UptoNext
  <2>3. k + 1 \in Nat
    OBVIOUS
  <2> QED BY <2>2, <2>3
<1>3. Len(Dump[b]) \in S
  <2>1. Nat \subseteq S
    <3> HIDE DEF S
    <3> QED BY <1>1, <1>2, NatInductive
  <2> QED BY <2>1, DumpIsSeq
<1>4. PICK n \in Nat : n = Len(Dump[b])
  BY DumpIsSeq
<1>5. PICK f : f = Parsers(b)
  OBVIOUS
<1>6. Upto(b, n, f)
  <2>1. \E c : Upto(b, Len(Dump[b]), c)
    BY <1>3
  <2>2. Upto(b, Len(Dump[b]), Parsers(b))
    BY <2>1, ParsersRun, Zenon
  <2> QED BY <1>4, <1>5, <2>2, Zenon
<1> DEFINE B(x, i) == ParseLine(x, Dump[b][i])
<1>7. f = [i \in 0 .. n |-> IF i = 0 THEN NewParser ELSE B(f[i - 1], i)]
  BY <1>6, Zenon DEF Upto
<1> HIDE DEF B
<1>8. f[0] = NewParser
  BY <1>7
<1>9. ASSUME NEW k \in Nat, k < n
      PROVE  f[k + 1] = B(f[k], k + 1)
  <2>1. k + 1 \in 0 .. n /\ k + 1 # 0 /\ (k + 1) - 1 = k
    BY <1>9
  <2>2. f[k + 1] = B(f[(k + 1) - 1], k + 1)
    BY <1>7, <2>1
  <2> QED BY <2>1, <2>2
<1> QED BY <1>4, <1>5, <1>8, <1>9, Zenon DEF B

LEMMA ParsersAre ==
  ASSUME NEW b \in Builds
  PROVE  \A k \in 0 .. Len(Dump[b]) : IsParser(Parsers(b)[k])
<1>1. PICK f, d : f = Parsers(b) /\ d = Dump[b]
  OBVIOUS
<1>2. /\ f[0] = NewParser
      /\ \A k \in Nat : k < Len(d) => f[k + 1] = ParseLine(f[k], d[k + 1])
  BY <1>1, ParsersIs, Zenon
<1>3. d \in Seq(CacheLines) /\ Len(d) \in Nat
  BY <1>1, DumpIsSeq
<1> DEFINE S == {k \in Nat : k <= Len(d) => IsParser(f[k])}
<1>4. 0 \in S
  BY <1>2, NewParserIs
<1>5. ASSUME NEW k \in Nat, k \in S
      PROVE  k + 1 \in S
  <2>1. CASE k < Len(d)
    <3>1. IsParser(f[k]) /\ d[k + 1] \in CacheLines
      BY <1>3, <1>5, <2>1
    <3>2. IsParser(ParseLine(f[k], d[k + 1]))
      BY <3>1, ParseLineIs DEF Parsed
    <3>3. IsParser(f[k + 1])
      BY <1>2, <2>1, <3>2
    <3> QED BY <3>3
  <2>2. CASE ~(k < Len(d))
    BY <1>3, <2>2
  <2> QED BY <2>1, <2>2
<1>6. Nat \subseteq S
  <2> HIDE DEF S
  <2> QED BY <1>4, <1>5, NatInductive
<1>7. \A k \in 0 .. Len(d) : IsParser(f[k])
  BY <1>3, <1>6
<1> QED BY <1>1, <1>7, Zenon

-----------------------------------------------------------------------------
(* What does not change as long as the file does not.                      *)

LEMMA TiedKeeps ==
  ASSUME trouble \subseteq trouble', NEW h, NEW b, Tied(h, b)
  PROVE  Tied(h, b)'
<1>1. Calm' => Calm
  BY CalmBefore
<1> QED BY <1>1 DEF Tied

LEMMA LoneBefore ==
  ASSUME trouble \subseteq trouble', Lone'
  PROVE  Lone
BY DEF Lone

LEMMA WritingKeeps ==
  ASSUME trouble \subseteq trouble', cache' = cache, NEW m, Writing(m)
  PROVE  Writing(m)'
<1>1. PICK b \in Builds : Tied(m.hash, b) /\ WritesDump(m, Whole(m.hash, b))
  BY DEF Writing
<1>2. PICK w : w = Whole(m.hash, b)
  OBVIOUS
<1>3. WritesDump(m, w)'
  BY <1>1, <1>2 DEF WritesDump, Rest
<1>4. PICK h : h = m.hash
  OBVIOUS
<1>5. Tied(m.hash, b)'
  BY <1>1, <1>4, TiedKeeps
<1>6. (w = Whole(m.hash, b))'
  BY <1>2 DEF Whole
<1> QED BY <1>3, <1>5, <1>6 DEF Writing

LEMMA FilledKeeps ==
  ASSUME trouble \subseteq trouble', cache' = cache, Filled
  PROVE  Filled'
<1>1. CASE cache = <<>>
  BY <1>1 DEF Filled
<1>2. ASSUME NEW b \in Builds, NEW h \in Builds \cup {NoHash}, HoldsWhole(h, b)
      PROVE  Filled'
  <2>1. Tied(h, b)'
    BY <1>2, TiedKeeps DEF HoldsWhole
  <2>2. HoldsWhole(h, b)'
    BY <1>2, <2>1 DEF HoldsWhole, Whole
  <2> QED BY <2>2 DEF Filled
<1> QED BY <1>1, <1>2 DEF Filled

LEMMA ReadingKeeps ==
  ASSUME trouble \subseteq trouble', cache' = cache, NEW m, Reading(m)
  PROVE  Reading(m)'
<1>1. PICK b \in Builds : \E h \in Builds \cup {NoHash} :
        Tied(m.hash, b) /\ cache = Whole(h, b) /\ HasRead(m, h, b)
  BY DEF Reading
<1>2. PICK h \in Builds \cup {NoHash} :
        Tied(m.hash, b) /\ cache = Whole(h, b) /\ HasRead(m, h, b)
  BY <1>1
<1>3. PICK g : g = m.hash
  OBVIOUS
<1>4. Tied(m.hash, b)'
  BY <1>2, <1>3, TiedKeeps
<1>5. HasRead(m, h, b)'
  BY <1>2
<1>6. (cache = Whole(h, b))'
  BY <1>2 DEF Whole
<1> QED BY <1>4, <1>5, <1>6 DEF Reading

LEMMA FoundKeeps ==
  ASSUME trouble \subseteq trouble', NEW m, Found(m)
  PROVE  Found(m)'
<1>1. PICK b \in Builds : Tied(m.hash, b) /\ NumbersOf(m.parser) = FoundIn(b)
  BY DEF Found
<1>2. PICK h : h = m.hash
  OBVIOUS
<1>3. Tied(m.hash, b)'
  BY <1>1, <1>2, TiedKeeps
<1> QED BY <1>1, <1>3 DEF Found

LEMMA ReportsKeeps ==
  ASSUME trouble \subseteq trouble', NEW r, NEW opts, Reports(r, opts)
  PROVE  Reports(r, opts)'
<1>1. PICK b \in Builds : Tied(r.hash, b) /\ r.names = Names(FoundIn(b), opts)
  BY DEF Reports
<1>2. PICK h : h = r.hash
  OBVIOUS
<1>3. Tied(r.hash, b)'
  BY <1>1, <1>2, TiedKeeps
<1> QED BY <1>1, <1>3 DEF Reports

-----------------------------------------------------------------------------
(* A step of the only invocation that runs.                                *)

ProfileAll == CacheAll /\ ProfileInv

(* What an invocation at label with the memory m has got.                  *)
PartOf(label, m, r, opts) ==
  /\ label \in Early => m.parser = NewParser
  /\ label = "dump" => Writing(m)
  /\ label = "parse" => Reading(m)
  /\ label \in {"open", "write", "writing"} => Found(m)
  /\ label = "done" => Reports(r, opts)

LEMMA PartIs ==
  ASSUME NEW i
  PROVE  PartInv(i) <=> PartOf(pc[i], mem[i], profile[i], options[i])
BY Zenon DEF PartInv, PartOf

LEMMA PartKeeps ==
  ASSUME trouble \subseteq trouble', cache' = cache, NEW label, NEW m, NEW r, NEW opts,
         PartOf(label, m, r, opts)
  PROVE  PartOf(label, m, r, opts)'
<1>1. (label = "dump" => Writing(m)') /\ (label = "parse" => Reading(m)')
  BY WritingKeeps, ReadingKeeps DEF PartOf
<1>2. label \in {"open", "write", "writing"} => Found(m)'
  BY FoundKeeps DEF PartOf
<1>3. label = "done" => Reports(r, opts)'
  BY ReportsKeeps DEF PartOf
<1> QED BY <1>1, <1>2, <1>3 DEF PartOf

(* One that does not run has nothing to do with the file.                  *)
LEMMA PartRests ==
  ASSUME trouble \subseteq trouble', NEW label \in {"idle", "done", "failed"}, NEW m, NEW r,
         NEW opts, PartOf(label, m, r, opts)
  PROVE  PartOf(label, m, r, opts)'
<1>1. label = "done" => Reports(r, opts)'
  BY ReportsKeeps DEF PartOf
<1>2. label # "dump" /\ label # "parse" /\ label \notin {"open", "write", "writing"}
  OBVIOUS
<1>3. label \in Early => m.parser = NewParser
  BY DEF PartOf
<1> QED BY <1>1, <1>2, <1>3, Zenon DEF PartOf

LEMMA OthersRest ==
  ASSUME ProfileAll, Lone, NEW i \in Invocations, Running(i), NEW j \in Invocations \ {i}
  PROVE  ~Running(j)
BY DEF ProfileAll, CacheAll, OutputAll, AloneInv, Lone

LEMMA LoneMoves ==
  ASSUME ProfileAll, NEW i \in Invocations, NEW label \in Labels, NEW m, Steady(i, label, m),
         Lone', options' = options,
         \A j \in Invocations \ {i} : ~Running(j) /\ profile'[j] = profile[j],
         NEW r, r = profile'[i], PartOf(label, m, r, options[i])',
         label # "dump" => Filled'
  PROVE  ProfileInv'
<1>1. trouble \subseteq trouble' /\ Lone
  BY LoneBefore DEF Steady
<1>2. /\ pc'[i] = label /\ mem'[i] = m
      /\ \A j \in Invocations \ {i} : pc'[j] = pc[j] /\ mem'[j] = mem[j]
  BY SteadyFacts DEF ProfileAll
<1>3. PartInv(i)'
  <2>1. PartOf(pc[i], mem[i], profile[i], options[i])'
    BY <1>2, Zenon DEF PartOf
  <2> QED BY <2>1, PartIs, Zenon DEF PartInv, PartOf
<1>4. ASSUME NEW j \in Invocations \ {i}
      PROVE  PartInv(j)'
  <2>1. PICK l, n, q, o : l = pc[j] /\ n = mem[j] /\ q = profile[j] /\ o = options[j]
    OBVIOUS
  <2>2. l \in {"idle", "done", "failed"}
    BY <2>1 DEF Running
  <2>3. PartOf(l, n, q, o)
    BY <1>1, <2>1, PartIs DEF ProfileAll, ProfileInv
  <2>4. PartOf(l, n, q, o)'
    BY <1>1, <2>2, <2>3, PartRests
  <2>5. pc'[j] = l /\ mem'[j] = n /\ profile'[j] = q /\ options'[j] = o
    BY <1>2, <2>1
  <2>6. PartOf(pc[j], mem[j], profile[j], options[j])'
    BY <2>4, <2>5, Zenon DEF PartOf
  <2> QED BY <2>6, Zenon DEF PartInv, PartOf
<1>5. (\A j \in Invocations : ~Writes(j)') => Filled'
  BY <1>2 DEF Writes
<1> QED BY <1>3, <1>4, <1>5 DEF ProfileInv

(* Only Parse changes the parser.                                          *)
LEMMA SameParser ==
  ASSUME NEW m, IsMem(m)
  PROVE  /\ \A x : [m EXCEPT !.machine = x].parser = m.parser
         /\ \A x : [m EXCEPT !.hash = x].parser = m.parser
         /\ \A x, y : [m EXCEPT !.buffer = x, !.dumping = y].parser = m.parser
         /\ \A x, y : [m EXCEPT !.buffer = x, !.offset = y].parser = m.parser
BY DEF IsMem

LEMMA CreatedParser ==
  ASSUME NEW m, IsMem(m)
  PROVE  Created(m).parser = m.parser /\ Closed(m).parser = m.parser
<1>1. PICK x, y : x = <<HashLine(m.hash)>> /\ y = Dump[binary]
  OBVIOUS
<1>2. [m EXCEPT !.buffer = x, !.dumping = y].parser = m.parser
  BY SameParser
<1>3. PICK e, o : e = <<>> /\ o = 0
  OBVIOUS
<1>4. [m EXCEPT !.buffer = e, !.offset = o].parser = m.parser
  BY SameParser
<1> QED BY <1>1, <1>2, <1>3, <1>4, Zenon DEF Created, Closed

LEMMA DumpedParser ==
  ASSUME NEW m, IsMem(m), m.dumping # <<>>
  PROVE  Buffered(m).parser = m.parser /\ Flushed(m).parser = m.parser
<1>1. PICK n : n = [m EXCEPT !.dumping = Tail(@)]
  OBVIOUS
<1>2. IsMem(n)
  BY <1>1, PrintedFacts, Zenon
<1>3. n.parser = m.parser
  BY <1>1 DEF IsMem
<1>4. PICK x, y, z : /\ x = Append(n.buffer, Head(m.dumping)) /\ y = n.offset + Len(n.buffer)
                     /\ z = <<Head(m.dumping)>>
  OBVIOUS
<1>5. Buffered(m) = [n EXCEPT !.buffer = x] /\ Flushed(m) = [n EXCEPT !.offset = y, !.buffer = z]
  BY <1>1, <1>4, Zenon DEF Buffered, Flushed
<1>6. [n EXCEPT !.buffer = x].parser = n.parser
      /\ [n EXCEPT !.offset = y, !.buffer = z].parser = n.parser
  BY <1>2 DEF IsMem
<1> QED BY <1>3, <1>5, <1>6

(* A flush of the only writer adds its buffer to the file.                 *)
LEMMA LoneFlush ==
  ASSUME MemInv, NEW m, IsMem(m), NEW w, WritesDump(m, w)
  PROVE  /\ Flush(cache, m) \in Seq(CacheLines)
         /\ Len(Flush(cache, m)) = m.offset + Len(m.buffer)
         /\ \A k \in 1 .. (m.offset + Len(m.buffer)) : Flush(cache, m)[k] = w[k]
<1>1. PICK f, o, n : f = Flush(cache, m) /\ o = m.offset /\ n = Len(m.buffer)
  OBVIOUS
<1>2. o \in Nat /\ n \in Nat /\ cache \in Seq(CacheLines)
  BY <1>1, MemFields DEF MemInv
<1>3. /\ Len(cache) = o
      /\ \A k \in 1 .. o : cache[k] = w[k]
      /\ \A k \in 1 .. n : m.buffer[k] = w[o + k]
  BY <1>1 DEF WritesDump, Rest
<1>4. /\ f \in Seq(CacheLines)
      /\ Len(f) = IF o + n > Len(cache) THEN o + n ELSE Len(cache)
      /\ \A k \in 1 .. Len(f) :
           f[k] = IF k > o /\ k <= o + n THEN m.buffer[k - o]
                  ELSE IF k <= Len(cache) THEN cache[k] ELSE Other
  BY <1>1, <1>2, FlushFacts
<1>5. Len(f) = o + n
  BY <1>2, <1>3, <1>4
<1>6. ASSUME NEW k \in 1 .. (o + n)
      PROVE  f[k] = w[k]
  <2>1. CASE k > o
    <3>1. k - o \in 1 .. n /\ o + (k - o) = k
      BY <1>2, <2>1
    <3>2. f[k] = m.buffer[k - o]
      BY <1>2, <1>4, <1>5, <2>1
    <3> QED BY <1>3, <3>1, <3>2
  <2>2. CASE ~(k > o)
    <3>1. k \in 1 .. o
      BY <1>2, <2>2
    <3>2. f[k] = cache[k]
      BY <1>2, <1>3, <1>4, <1>5, <2>2, <3>1
    <3> QED BY <1>3, <3>1, <3>2
  <2> QED BY <2>1, <2>2
<1> QED BY <1>1, <1>4, <1>5, <1>6

(* The last one makes it whole.                                            *)
LEMMA LoneEnd ==
  ASSUME MemInv, NEW m, IsMem(m), m.dumping = <<>>, NEW b \in Builds,
         WritesDump(m, Whole(m.hash, b))
  PROVE  Flush(cache, m) = Whole(m.hash, b)
<1>1. PICK w : w = Whole(m.hash, b)
  OBVIOUS
<1>2. m.hash \in Builds \cup {NoHash}
  BY MemFields
<1>3. w \in Seq(CacheLines)
  BY <1>1, <1>2, WholeFacts
<1>4. WritesDump(m, w)
  BY <1>1
<1>5. PICK f : f = Flush(cache, m)
  OBVIOUS
<1>6. /\ f \in Seq(CacheLines) /\ Len(f) = m.offset + Len(m.buffer)
      /\ \A k \in 1 .. Len(f) : f[k] = w[k]
  BY <1>4, <1>5, LoneFlush
<1>7. Len(f) = Len(w)
  <2>1. Len(m.dumping) = 0
    OBVIOUS
  <2> QED BY <1>4, <1>6, <2>1, MemFields DEF WritesDump, Rest
<1>8. f = w
  BY <1>3, <1>6, <1>7, SeqEqual
<1> QED BY <1>1, <1>5, <1>8

-----------------------------------------------------------------------------
(* Reading.                                                                *)

(* A line of the whole file.                                               *)
LEMMA ReadHash ==
  ASSUME NEW b \in Builds, NEW h \in Builds \cup {NoHash}, NEW m, IsMem(m),
         m.offset = 0, m.parser = NewParser, NEW line, line = Whole(h, b)[m.offset + 1],
         NEW n, n.offset = m.offset + 1, n.parser = ParseLine(m.parser, line)
  PROVE  line.kind # "overlong" /\ HasRead(n, h, b)
<1>1. line = HashLine(h)
  BY WholeFacts
<1>2. line.kind # "overlong"
  BY <1>1 DEF HashLine
<1>3. IsParser(n.parser) /\ Behind(n.parser, NewParser, h)
  BY <1>1, BehindHash
<1>4. Parsers(b)[0] = NewParser
  BY ParsersIs
<1>5. \A l \in 1 .. 0 : Dump[b][l].kind # "overlong"
  OBVIOUS
<1>6. ReadLines(n, h, b, 0)
  BY <1>3, <1>4, <1>5 DEF ReadLines
<1>7. 0 \in 0 .. Len(Dump[b])
  BY DumpIsSeq
<1> QED BY <1>2, <1>6, <1>7 DEF HasRead

LEMMA ReadNext ==
  ASSUME NEW b \in Builds, NEW h \in Builds \cup {NoHash}, NEW m,
         NEW k \in 0 .. Len(Dump[b]), ReadLines(m, h, b, k),
         m.offset < Len(Whole(h, b)), NEW line, line = Whole(h, b)[m.offset + 1],
         NEW n, n.offset = m.offset + 1, n.parser = ParseLine(m.parser, line)
  PROVE  /\ line.kind = "overlong" => ~Readable(b)
         /\ line.kind # "overlong" => HasRead(n, h, b)
<1>1. PICK d, p, q : d = Dump[b] /\ p = m.parser /\ q = Parsers(b)[k]
  OBVIOUS
<1>2. /\ d \in Seq(CacheLines) /\ Len(d) \in Nat
      /\ Len(Whole(h, b)) = Len(d) + 1
      /\ \A i \in 1 .. Len(d) : Whole(h, b)[i + 1] = d[i]
  BY <1>1, DumpIsSeq, WholeFacts
<1>3. /\ m.offset = k + 1 /\ IsParser(p) /\ Behind(p, q, h)
      /\ \A l \in 1 .. k : d[l].kind # "overlong"
  BY <1>1 DEF ReadLines
<1>4. k \in Nat /\ k < Len(d) /\ k + 1 \in 1 .. Len(d) /\ k + 1 \in 0 .. Len(d)
  BY <1>1, <1>2, <1>3
<1>5. line = d[k + 1] /\ line \in CacheLines
  BY <1>2, <1>3, <1>4
<1>6. line.kind = "overlong" => ~Readable(b)
  BY <1>1, <1>2, <1>4, <1>5 DEF Readable
<1>7. ASSUME line.kind # "overlong"
      PROVE  HasRead(n, h, b)
  <2>1. IsParser(q)
    BY <1>1, ParsersAre
  <2>2. IsParser(ParseLine(p, line)) /\ Behind(ParseLine(p, line), ParseLine(q, line), h)
    BY <1>3, <1>5, <2>1, BehindLine
  <2>3. Parsers(b)[k + 1] = ParseLine(q, line)
    BY <1>1, <1>4, <1>5, ParsersIs
  <2>4. \A l \in 1 .. (k + 1) : d[l].kind # "overlong"
    <3> TAKE l \in 1 .. (k + 1)
    <3>1. l \in 1 .. k \/ l = k + 1
      BY <1>4
    <3> QED BY <1>3, <1>5, <1>7, <3>1
  <2>5. n.offset = (k + 1) + 1 /\ n.parser = ParseLine(p, line)
    BY <1>1, <1>3
  <2>6. ReadLines(n, h, b, k + 1)
    BY <1>1, <2>2, <2>3, <2>4, <2>5 DEF ReadLines
  <2> QED BY <1>1, <1>4, <2>6 DEF HasRead
<1> QED BY <1>6, <1>7

LEMMA ReadAll ==
  ASSUME NEW b \in Builds, NEW h \in Builds \cup {NoHash}, NEW m, IsMem(m),
         HasRead(m, h, b), m.offset >= Len(Whole(h, b))
  PROVE  NumbersOf(m.parser) = FoundIn(b)
<1>1. Len(Whole(h, b)) = Len(Dump[b]) + 1 /\ Len(Dump[b]) \in Nat /\ m.offset # 0
  BY WholeFacts, MemFields
<1>2. PICK k \in 0 .. Len(Dump[b]) : ReadLines(m, h, b, k)
  BY <1>1 DEF HasRead
<1>3. k = Len(Dump[b])
  BY <1>1, <1>2 DEF ReadLines
<1>4. /\ IsParser(m.parser) /\ Behind(m.parser, Parsers(b)[k], h)
      /\ \A l \in 1 .. k : Dump[b][l].kind # "overlong"
  BY <1>2 DEF ReadLines
<1>5. Readable(b)
  <2>1. DOMAIN Dump[b] = 1 .. k
    BY <1>3, DumpIsSeq
  <2> QED BY <1>4, <2>1 DEF Readable
<1>6. IsParser(Parsers(b)[k])
  BY ParsersAre
<1>7. NumbersOf(m.parser) = NumbersOf(Parsers(b)[k])
  BY <1>4, <1>6, BehindNumbers
<1> QED BY <1>3, <1>5, <1>7 DEF FoundIn, SyscallsOf

LEMMA NoNumbers == NumbersOf(NewParser) = {}
<1>1. NewParser.syscalls = <<>>
  BY NewParserIs
<1>2. DOMAIN NewParser.syscalls = {}
  BY <1>1
<1> QED BY <1>2 DEF NumbersOf

-----------------------------------------------------------------------------
(* The steps.                                                              *)

(* A step that leaves the file, the profiles and what the invocation has   *)
(* got alone.                                                              *)
LEMMA LoneQuiet ==
  ASSUME ProfileAll, NEW i \in Invocations, NEW label \in Labels, NEW m, Steady(i, label, m),
         Lone', options' = options, profile' = profile, cache' = cache,
         \A j \in Invocations \ {i} : ~Running(j), pc[i] # "dump",
         label \notin {"dump", "parse", "open", "write", "writing", "done"},
         label \in Early => m.parser = NewParser
  PROVE  ProfileInv'
<1>1. trouble \subseteq trouble' /\ Lone
  BY LoneBefore DEF Steady
<1>2. PICK r : r = profile'[i]
  OBVIOUS
<1>3. PartOf(label, m, r, options[i])'
  BY Zenon DEF PartOf
<1>4. Filled
  BY <1>1 DEF ProfileAll, ProfileInv, Writes, Running
<1>5. Filled'
  BY <1>1, <1>4, FilledKeeps
<1> QED BY <1>2, <1>3, <1>5, LoneMoves

LEMMA StepProfile ==
  ASSUME ProfileAll, NEW i \in Invocations, Step(i) \/ Kill(i)
  PROVE  ProfileInv'
<1> SUFFICES ASSUME Lone'
             PROVE  ProfileInv'
  BY DEF ProfileInv
<1>1. /\ MemInv /\ IsMem(mem[i]) /\ IsMem(NewMem) /\ binary \in Builds /\ cache \in Seq(CacheLines)
      /\ pc[i] \in {"idle", "hash", "check", "create"} => mem[i].offset = 0
  BY NewMemIsMem DEF ProfileAll, CacheAll, OutputAll, MemInv, OffsetInv
<1>2. binary' = binary /\ options' = options /\ trouble \subseteq trouble' /\ Lone
  BY <1>1, StepGoes, LoneBefore
<1>3. \A label, m : IsMem(m) /\ Continue(i, label, m) => Steady(i, label, m)
  BY <1>2 DEF Steady, Goes, Continue
<1>4. PartOf(pc[i], mem[i], profile[i], options[i])
  BY <1>2, PartIs DEF ProfileAll, ProfileInv
<1>5. \A j \in Invocations \ {i} : ~Running(j)
  <2>1. CASE GetBinaryArch(i)
    BY <2>1, NoteFacts DEF GetBinaryArch, Lone
  <2>2. CASE ~GetBinaryArch(i)
    <3>1. Running(i)
      BY <2>2 DEF Step, Kill, HashBinary, CheckCache, CreateDump, DumpLine, DumpEnd, DumpFails,
                  FlushFails, Parse, OpenOutput, WritePart, WriteProfile, WriteFails, Running
    <3> QED BY <1>2, <3>1, OthersRest
  <2> QED BY <2>1, <2>2
<1>6. pc[i] # "dump" => Filled
  BY <1>2, <1>5 DEF ProfileAll, ProfileInv, Writes, Running
<1>7. PICK mi : mi = mem[i]
  OBVIOUS
<1>8. PICK ri : ri = profile'[i]
  OBVIOUS
<1>9. ASSUME NEW label \in {"idle", "hash", "check", "create", "failed"}, NEW m, IsMem(m),
             Continue(i, label, m), cache' = cache, profile' = profile, pc[i] # "dump",
             label # "failed" => m.parser = NewParser
      PROVE  ProfileInv'
  <2>1. /\ label \in Labels /\ label \notin {"dump", "parse", "open", "write", "writing", "done"}
        /\ label \in Early => label # "failed"
    BY DEF Labels, Early
  <2>2. Steady(i, label, m)
    BY <1>3, <1>9
  <2> QED BY <1>2, <1>5, <1>9, <2>1, <2>2, LoneQuiet
<1>10. ASSUME NEW label \in {"dump", "parse", "open", "write", "writing", "done"}, NEW m, IsMem(m),
              Continue(i, label, m), \A j \in Invocations \ {i} : profile'[j] = profile[j],
              PartOf(label, m, ri, options[i])', label # "dump" => Filled'
       PROVE  ProfileInv'
  <2>1. label \in Labels
    BY DEF Labels
  <2>2. Steady(i, label, m)
    BY <1>3, <1>10
  <2> QED BY <1>2, <1>5, <1>8, <1>10, <2>1, <2>2, LoneMoves
<1>11. CASE GetBinaryArch(i)
  <2>1. CASE Machine[binary] = "unknown"
    BY <1>1, <1>9, <1>11, <2>1 DEF GetBinaryArch, Exit
  <2>2. CASE Machine[binary] # "unknown"
    <3>1. PICK m : m = [mem[i] EXCEPT !.machine = Machine[binary]]
      OBVIOUS
    <3>2. IsMem(m) /\ m.parser = NewParser
      BY <1>1, <1>4, <1>11, <3>1, MemMachine, SameParser DEF GetBinaryArch, PartOf, Early
    <3>3. Continue(i, "hash", m) /\ cache' = cache /\ profile' = profile /\ pc[i] = "idle"
      BY <1>11, <2>2, <3>1 DEF GetBinaryArch
    <3> QED BY <1>9, <3>2, <3>3
  <2> QED BY <2>1, <2>2
<1>12. CASE HashBinary(i)
  <2>1. PICK h \in {binary, NoHash} : Continue(i, "check", [mem[i] EXCEPT !.hash = h])
    BY <1>12 DEF HashBinary
  <2>2. PICK m : m = [mem[i] EXCEPT !.hash = h]
    OBVIOUS
  <2>3. h \in Builds \cup {NoHash}
    BY <1>1
  <2>4. IsMem(m) /\ m.parser = NewParser
    BY <1>1, <1>4, <1>12, <2>2, <2>3, MemHash, SameParser DEF HashBinary, PartOf, Early
  <2>5. Continue(i, "check", m) /\ cache' = cache /\ profile' = profile /\ pc[i] = "hash"
    BY <1>12, <2>1, <2>2 DEF HashBinary
  <2> QED BY <1>9, <2>4, <2>5
<1>13. CASE CheckCache(i)
  <2>1. /\ pc[i] = "check" /\ cache' = cache /\ profile' = profile
        /\ mi.parser = NewParser /\ mi.offset = 0 /\ IsMem(mi)
    BY <1>1, <1>4, <1>7, <1>13 DEF CheckCache, PartOf, Early
  <2>2. CASE ~CacheHit(i)
    <3>1. Continue(i, "create", mi)
      BY <1>7, <1>13, <2>2 DEF CheckCache
    <3> QED BY <1>9, <2>1, <3>1
  <2>3. CASE CacheHit(i)
    <3>1. Continue(i, "parse", mi)
      BY <1>7, <1>13, <2>3 DEF CheckCache
    <3>2. cache # <<>> /\ cache[1] = HashLine(mi.hash)
      BY <1>7, <2>3 DEF CacheHit
    <3>3. Filled
      BY <1>6, <2>1
    <3>4. PICK b \in Builds : \E h \in Builds \cup {NoHash} : HoldsWhole(h, b)
      BY <3>2, <3>3 DEF Filled
    <3>5. PICK h \in Builds \cup {NoHash} : HoldsWhole(h, b)
      BY <3>4
    <3>6. cache[1] = HashLine(h)
      BY <3>5, WholeFacts DEF HoldsWhole
    <3>7. mi.hash = h
      BY <3>2, <3>6 DEF HashLine
    <3>8. Reading(mi)
      BY <2>1, <3>5, <3>7 DEF Reading, HoldsWhole, HasRead
    <3>9. Reading(mi)' /\ Filled'
      BY <1>2, <2>1, <3>3, <3>8, ReadingKeeps, FilledKeeps
    <3>10. PartOf("parse", mi, ri, options[i])'
      BY <3>9 DEF PartOf, Early
    <3> QED BY <1>10, <2>1, <3>1, <3>9, <3>10
  <2> QED BY <2>2, <2>3
<1>14. CASE CreateDump(i)
  <2>1. PICK m : m = Created(mem[i])
    OBVIOUS
  <2>2. pc[i] = "create" /\ mem[i].offset = 0 /\ cache' = <<>> /\ profile' = profile /\ Hashed(i)
    BY <1>1, <1>14 DEF CreateDump, Hashed
  <2>3. /\ IsMem(m) /\ m.hash = mem[i].hash /\ m.offset = 0 /\ m.parser = NewParser
    BY <1>1, <1>4, <2>1, <2>2, CreatedFacts, CreatedParser DEF PartOf, Early
  <2>4. Continue(i, "dump", m)
    BY <1>14, <2>1 DEF CreateDump, Created
  <2>5. PICK b \in Builds : b = binary
    BY <1>1
  <2>6. Rest(m, Whole(m.hash, b))
    BY <1>1, <2>1, <2>2, <2>3, <2>5, CreatedRest
  <2>7. Tied(m.hash, b)
    BY <2>2, <2>3, <2>5 DEF Tied, ProfileAll, CacheAll, HashInv
  <2>8. Tied(m.hash, b)'
    <3>1. PICK h : h = m.hash
      OBVIOUS
    <3> QED BY <1>2, <2>7, <3>1, TiedKeeps
  <2>9. WritesDump(m, Whole(m.hash, b))'
    <3>1. PICK w : w = Whole(m.hash, b)
      OBVIOUS
    <3>2. Rest(m, w)' /\ (w = Whole(m.hash, b))'
      BY <2>6, <3>1 DEF Rest, Whole
    <3>3. Len(cache') = m.offset /\ \A k \in 1 .. m.offset : cache'[k] = w[k]
      BY <2>2, <2>3
    <3> QED BY <3>2, <3>3 DEF WritesDump
  <2>10. PartOf("dump", m, ri, options[i])'
    BY <2>3, <2>8, <2>9 DEF PartOf, Writing
  <2> QED BY <1>10, <2>2, <2>3, <2>4, <2>10
<1>15. CASE DumpLine(i)
  <2>1. pc[i] = "dump" /\ mi.dumping # <<>> /\ profile' = profile /\ mi.parser = NewParser
    BY <1>4, <1>7, <1>15 DEF DumpLine, PartOf, Early
  <2>2. PICK b \in Builds : Tied(mi.hash, b) /\ WritesDump(mi, Whole(mi.hash, b))
    BY <1>4, <1>7, <2>1 DEF PartOf, Writing
  <2>3. PICK h, w : h = mi.hash /\ w = Whole(mi.hash, b)
    OBVIOUS
  <2>4. Tied(h, b)' /\ WritesDump(mi, w) /\ (w = Whole(h, b))'
    BY <1>2, <2>2, <2>3, TiedKeeps DEF Whole
  <2>5. ASSUME NEW m, IsMem(m), m.hash = h, m.parser = NewParser, Continue(i, "dump", m),
               WritesDump(m, w)'
        PROVE  ProfileInv'
    <3>1. Writing(m)'
      BY <2>4, <2>5 DEF Writing
    <3>2. PartOf("dump", m, ri, options[i])'
      BY <2>5, <3>1 DEF PartOf
    <3> QED BY <1>10, <2>1, <2>5, <3>2
  <2>6. CASE Continue(i, "dump", Buffered(mi)) /\ cache' = cache
    <3>1. PICK m : m = Buffered(mi)
      OBVIOUS
    <3>2. IsMem(m) /\ m.hash = h /\ m.offset = mi.offset /\ m.parser = NewParser
      BY <1>1, <1>7, <2>1, <2>3, <3>1, BufferedFacts, DumpedParser
    <3>3. Rest(m, w)
      BY <1>1, <1>7, <2>1, <2>4, <3>1, BufferedRest DEF WritesDump
    <3>4. WritesDump(m, w)'
      BY <2>4, <2>6, <3>2, <3>3 DEF WritesDump, Rest
    <3> QED BY <2>5, <2>6, <3>1, <3>2, <3>4
  <2>7. CASE /\ Continue(i, "dump", Flushed(mi))
             /\ cache' = Flush(cache, [mi EXCEPT !.dumping = Tail(@)])
    <3>1. PICK m : m = Flushed(mi)
      OBVIOUS
    <3>2. /\ IsMem(m) /\ m.hash = h /\ m.offset = mi.offset + Len(mi.buffer)
          /\ m.parser = NewParser
      BY <1>1, <1>7, <2>1, <2>3, <3>1, FlushedFacts, DumpedParser
    <3>3. Rest(m, w)
      BY <1>1, <1>7, <2>1, <2>4, <3>1, FlushedRest DEF WritesDump
    <3>4. cache' = Flush(cache, mi)
      <4>1. PICK n : n = [mi EXCEPT !.dumping = Tail(@)]
        OBVIOUS
      <4>2. n.buffer = mi.buffer /\ n.offset = mi.offset
        BY <1>1, <1>7, <2>1, <4>1, PrintedFacts
      <4>3. Flush(cache, n) = Flush(cache, mi)
        BY <4>2 DEF Flush
      <4> QED BY <2>7, <4>1, <4>3, Zenon
    <3>5. Len(cache') = m.offset /\ \A k \in 1 .. m.offset : cache'[k] = w[k]
      BY <1>1, <1>7, <2>4, <3>2, <3>4, LoneFlush
    <3>6. WritesDump(m, w)'
      BY <3>3, <3>5 DEF WritesDump, Rest
    <3> QED BY <2>5, <2>7, <3>1, <3>2, <3>6
  <2> QED BY <1>7, <1>15, <2>6, <2>7, Zenon DEF DumpLine, Buffered, Flushed
<1>16. CASE DumpEnd(i)
  <2>1. PICK m : m = Closed(mi)
    OBVIOUS
  <2>2. /\ pc[i] = "dump" /\ mi.dumping = <<>> /\ profile' = profile /\ mi.parser = NewParser
        /\ cache' = Flush(cache, mi)
    BY <1>4, <1>7, <1>16 DEF DumpEnd, PartOf, Early
  <2>3. IsMem(m) /\ m.hash = mi.hash /\ m.parser = NewParser
    BY <1>1, <1>7, <2>1, <2>2, ClosedFacts, CreatedParser
  <2>4. m.offset = 0
    BY <1>1, <1>7, <2>1 DEF Closed, IsMem
  <2>5. Continue(i, "parse", m)
    BY <1>7, <1>16, <2>1 DEF DumpEnd, Closed
  <2>6. PICK b \in Builds : Tied(mi.hash, b) /\ WritesDump(mi, Whole(mi.hash, b))
    BY <1>4, <1>7, <2>2 DEF PartOf, Writing
  <2>7. PICK h : h = mi.hash
    OBVIOUS
  <2>8. Tied(h, b)' /\ h \in Builds \cup {NoHash}
    BY <1>1, <1>2, <1>7, <2>6, <2>7, TiedKeeps, MemFields
  <2>9. cache' = Whole(h, b)
    BY <1>1, <1>7, <2>2, <2>6, <2>7, LoneEnd
  <2>10. (cache = Whole(h, b))'
    BY <2>9 DEF Whole
  <2>11. Filled'
    BY <2>8, <2>10 DEF Filled, HoldsWhole
  <2>12. HasRead(m, h, b)'
    BY <2>3, <2>4 DEF HasRead
  <2>13. Reading(m)'
    BY <2>3, <2>7, <2>8, <2>10, <2>12 DEF Reading
  <2>14. PartOf("parse", m, ri, options[i])'
    BY <2>13 DEF PartOf, Early
  <2> QED BY <1>10, <2>2, <2>3, <2>5, <2>11, <2>14
<1>17. CASE DumpFails(i)
  <2>1. "stopped" \in trouble'
    BY <1>17, NoteFacts DEF DumpFails
  <2> QED BY <2>1 DEF Lone
<1>18. CASE Kill(i)
  <2>1. pc[i] # "dump"
    <3>1. pc[i] = "dump" => "stopped" \in trouble'
      BY <1>18, NoteFacts DEF Kill
    <3> QED BY <3>1 DEF Lone
  <2> QED BY <1>1, <1>9, <1>18, <2>1 DEF Kill, Exit
<1>19. CASE Parse(i)
  <2>1. pc[i] = "parse" /\ cache' = cache /\ profile' = profile /\ IsMem(mi)
    BY <1>1, <1>7, <1>19 DEF Parse
  <2>2. CASE Continue(i, "failed", NewMem)
    BY <1>1, <1>9, <2>1, <2>2
  <2>3. PICK b \in Builds : \E h \in Builds \cup {NoHash} :
          Tied(mi.hash, b) /\ cache = Whole(h, b) /\ HasRead(mi, h, b)
    BY <1>4, <1>7, <2>1 DEF PartOf, Reading
  <2>4. PICK h \in Builds \cup {NoHash} :
          Tied(mi.hash, b) /\ cache = Whole(h, b) /\ HasRead(mi, h, b)
    BY <2>3
  <2>5. Filled'
    <3>1. Filled
      BY <1>6, <2>1
    <3> QED BY <1>2, <2>1, <3>1, FilledKeeps
  <2>6. ASSUME NEW n, IsMem(n), n.hash = mi.hash, NumbersOf(n.parser) = FoundIn(b),
               Continue(i, "open", n)
        PROVE  ProfileInv'
    <3>1. Found(n)
      BY <2>4, <2>6 DEF Found
    <3>2. Found(n)'
      BY <1>2, <3>1, FoundKeeps
    <3>3. PartOf("open", n, ri, options[i])'
      BY <3>2 DEF PartOf, Early
    <3> QED BY <1>10, <2>1, <2>5, <2>6, <3>3
  <2>7. CASE mi.offset >= Len(cache) /\ Continue(i, "open", mi)
    BY <2>1, <2>4, <2>6, <2>7, ReadAll
  <2>8. PICK line : line = cache[mi.offset + 1]
    OBVIOUS
  <2>9. PICK x, o : x = ParseLine(mi.parser, line) /\ o = mi.offset + 1
    OBVIOUS
  <2>10. PICK n : n = [mi EXCEPT !.parser = x, !.offset = o]
    OBVIOUS
  <2>11. IsMem(n) /\ n.hash = mi.hash /\ n.parser = x /\ n.offset = o
    <3>1. o \in Nat
      BY <2>1, <2>9, MemFields
    <3>2. ASSUME NEW y, NEW p \in Nat
          PROVE  LET r == [mi EXCEPT !.parser = y, !.offset = p]
                 IN  IsMem(r) /\ r.hash = mi.hash /\ r.parser = y /\ r.offset = p
      BY <2>1 DEF IsMem
    <3> QED BY <2>10, <3>1, <3>2, Zenon
  <2>12. ASSUME ~(mi.offset >= Len(cache))
         PROVE  /\ line.kind = "overlong" => ~Readable(b)
                /\ line.kind # "overlong" => HasRead(n, h, b)
    <3>1. mi.offset < Len(cache)
      BY <1>1, <2>1, <2>12, MemFields
    <3>2. CASE mi.offset = 0 /\ mi.parser = NewParser
      BY <2>1, <2>4, <2>8, <2>9, <2>11, <3>2, ReadHash
    <3>3. CASE \E k \in 0 .. Len(Dump[b]) : ReadLines(mi, h, b, k)
      BY <2>4, <2>8, <2>9, <2>11, <3>1, <3>3, ReadNext
    <3> QED BY <2>4, <3>2, <3>3 DEF HasRead
  <2>13. CASE /\ ~(mi.offset >= Len(cache)) /\ line.kind = "overlong"
              /\ Continue(i, "open", [mi EXCEPT !.parser = NewParser])
    <3>1. PICK q : q = [mi EXCEPT !.parser = NewParser]
      OBVIOUS
    <3>2. IsMem(q) /\ q.hash = mi.hash
      BY <2>1, <3>1, MemParser
    <3>3. q.parser = NewParser
      BY <2>1, <3>1 DEF IsMem
    <3>4. NumbersOf(q.parser) = FoundIn(b)
      BY <2>12, <2>13, <3>3, NoNumbers DEF FoundIn
    <3> QED BY <2>6, <2>13, <3>1, <3>2, <3>4
  <2>14. CASE /\ ~(mi.offset >= Len(cache)) /\ line.kind # "overlong"
              /\ Continue(i, "parse", n)
    <3>1. Reading(n)
      BY <2>4, <2>11, <2>12, <2>14 DEF Reading
    <3>2. Reading(n)'
      BY <1>2, <2>1, <3>1, ReadingKeeps
    <3>3. PartOf("parse", n, ri, options[i])'
      BY <3>2 DEF PartOf, Early
    <3> QED BY <1>10, <2>1, <2>5, <2>11, <2>14, <3>3
  <2>15. \/ Continue(i, "failed", NewMem)
         \/ mi.offset >= Len(cache) /\ Continue(i, "open", mi)
         \/ /\ ~(mi.offset >= Len(cache)) /\ line.kind = "overlong"
            /\ Continue(i, "open", [mi EXCEPT !.parser = NewParser])
         \/ /\ ~(mi.offset >= Len(cache)) /\ line.kind # "overlong"
            /\ Continue(i, "parse", [mi EXCEPT !.parser = ParseLine(@, line), !.offset = @ + 1])
    BY <1>7, <1>19, <2>8, Zenon DEF Parse, Exit
  <2>16. n = [mi EXCEPT !.parser = ParseLine(@, line), !.offset = @ + 1]
    BY <2>9, <2>10, Zenon
  <2> QED BY <2>2, <2>7, <2>13, <2>14, <2>15, <2>16, Zenon
<1>20. CASE OpenOutput(i) \/ WritePart(i)
  <2>1. PICK label \in {"write", "writing"} :
          /\ pc[i] \in {"open", "write"} /\ cache' = cache /\ profile' = profile /\ IsMem(mi)
          /\ Continue(i, label, mi)
    BY <1>1, <1>7, <1>20, Zenon DEF OpenOutput, WritePart
  <2>2. Found(mi)
    BY <1>4, <1>7, <2>1 DEF PartOf
  <2>3. Found(mi)' /\ Filled'
    BY <1>2, <1>6, <2>1, <2>2, FoundKeeps, FilledKeeps
  <2>4. PartOf(label, mi, ri, options[i])'
    BY <2>3 DEF PartOf, Early
  <2> QED BY <1>10, <2>1, <2>3, <2>4
<1>21. CASE WriteProfile(i)
  <2>1. PICK o : o = options[i]
    OBVIOUS
  <2>2. PICK r : r = [hash |-> mi.hash, names |-> Names(NumbersOf(mi.parser), o)]
    OBVIOUS
  <2>3. /\ pc[i] \in {"write", "writing"} /\ cache' = cache /\ Continue(i, "done", NewMem)
        /\ profile' = [profile EXCEPT ![i] = r]
    BY <1>7, <1>21, <2>1, <2>2, Zenon DEF WriteProfile, Exit
  <2>4. ri = r /\ \A j \in Invocations \ {i} : profile'[j] = profile[j]
    BY <1>8, <2>3 DEF ProfileAll, CacheAll, OutputAll, PcInv
  <2>5. PICK b \in Builds : Tied(mi.hash, b) /\ NumbersOf(mi.parser) = FoundIn(b)
    BY <1>4, <1>7, <2>3 DEF PartOf, Found
  <2>6. r.hash = mi.hash /\ r.names = Names(FoundIn(b), o)
    BY <2>2, <2>5
  <2>7. Reports(ri, o)
    BY <2>4, <2>5, <2>6 DEF Reports
  <2>8. Reports(ri, o)'
    BY <1>2, <2>7, ReportsKeeps
  <2>9. PartOf("done", NewMem, ri, options[i])'
    BY <1>2, <2>1, <2>8 DEF PartOf, Early
  <2>10. Filled'
    BY <1>2, <1>6, <2>3, FilledKeeps
  <2> QED BY <1>1, <1>10, <2>3, <2>4, <2>9, <2>10
<1>22. CASE WriteFails(i)
  <2>1. pc[i] # "dump"
    BY <1>22 DEF WriteFails
  <2> QED BY <1>1, <1>9, <1>22, <2>1, Zenon DEF WriteFails, Exit
<1>23. CASE FlushFails(i)
  <2>1. "stopped" \in trouble'
    BY <1>23, NoteFacts DEF FlushFails
  <2> QED BY <2>1 DEF Lone
<1> QED BY <1>11, <1>12, <1>13, <1>14, <1>15, <1>16, <1>17, <1>18, <1>19, <1>20, <1>21, <1>22, <1>23,
        Zenon DEF Step

LEMMA ProfileNext == ProfileAll /\ [Next]_vars => ProfileAll'
<1> SUFFICES ASSUME ProfileAll, [Next]_vars
             PROVE  ProfileAll'
  OBVIOUS
<1>1. CacheAll'
  BY CacheNext DEF ProfileAll
<1>2. ASSUME NEW i \in Invocations, Step(i) \/ Kill(i)
      PROVE  ProfileInv'
  BY <1>2, StepProfile
<1>3. ASSUME UNCHANGED <<cache, pc, options, mem, profile>>, trouble \subseteq trouble'
      PROVE  ProfileInv'
  <2> SUFFICES ASSUME Lone'
               PROVE  ProfileInv'
    BY DEF ProfileInv
  <2>1. Lone
    BY <1>3, LoneBefore
  <2>2. ASSUME NEW i \in Invocations
        PROVE  PartInv(i)'
    <3>1. PICK l, n, q, o : l = pc[i] /\ n = mem[i] /\ q = profile[i] /\ o = options[i]
      OBVIOUS
    <3>2. PartOf(l, n, q, o)
      BY <2>1, <3>1, PartIs DEF ProfileAll, ProfileInv
    <3>3. PartOf(l, n, q, o)'
      BY <1>3, <3>2, PartKeeps
    <3>4. pc'[i] = l /\ mem'[i] = n /\ profile'[i] = q /\ options'[i] = o
      BY <1>3, <3>1
    <3>5. PartOf(pc[i], mem[i], profile[i], options[i])'
      BY <3>3, <3>4, Zenon DEF PartOf
    <3> QED BY <3>5, Zenon DEF PartInv, PartOf
  <2>3. (\A i \in Invocations : ~Writes(i)') => Filled'
    <3>1. \A i \in Invocations : Writes(i)' <=> Writes(i)
      BY <1>3 DEF Writes
    <3>2. (\A i \in Invocations : ~Writes(i)) => Filled
      BY <2>1 DEF ProfileAll, ProfileInv
    <3> QED BY <1>3, <3>1, <3>2, FilledKeeps
  <2> QED BY <2>2, <2>3 DEF ProfileInv
<1>4. ASSUME Rebuild
      PROVE  ProfileInv'
  BY <1>3, <1>4, NoteFacts DEF Rebuild
<1>5. ASSUME UNCHANGED vars
      PROVE  ProfileInv'
  BY <1>3, <1>5 DEF vars
<1>6. ProfileInv'
  BY <1>2, <1>4, <1>5, Zenon DEF Next, AllEnded
<1> QED BY <1>1, <1>6 DEF ProfileAll

LEMMA ProfileInit == Init => ProfileAll
<1> SUFFICES ASSUME Init
             PROVE  ProfileAll
  OBVIOUS
<1>1. CacheAll
  BY CacheInit
<1>2. \A i \in Invocations : pc[i] = "idle" /\ mem[i].parser = NewParser
  BY DEF Init, NewMem
<1>3. \A i \in Invocations : PartInv(i)
  BY <1>2 DEF PartInv
<1>4. Filled
  BY DEF Init, Filled
<1> QED BY <1>1, <1>3, <1>4 DEF ProfileAll, ProfileInv

LEMMA ProfilesAre ==
  ASSUME ProfileAll, Lone, NEW i \in Invocations, pc[i] = "done"
  PROVE  \E b \in Builds : Tied(profile[i].hash, b) /\ ProfileOf(b, i)
<1>1. PartInv(i)
  BY DEF ProfileAll, ProfileInv
<1>2. Reports(profile[i], options[i])
  BY <1>1 DEF PartInv
<1> QED BY <1>2, Zenon DEF Reports, ProfileOf, FoundIn

-----------------------------------------------------------------------------
(* What is proved.                                                         *)

(* The inductive invariant of the contents of the profiles: while an       *)
(* invocation runs alone, what it has parsed of the cache is what a parser *)
(* of its own finds in as many lines of the objdump of one build.          *)
THEOREM ProfileInvariant == Spec => []ProfileAll
BY ProfileInit, ProfileNext, PTL DEF Spec

(* A build that replaces the binary between any two of the three times an  *)
(* invocation reads it does not mix the two: the profile is that of one    *)
(* build, for any objdumps, and with the line of the hash in front of      *)
(* them.                                                                   *)
THEOREM OneBuildProfiles == Spec => []OneBuild
<1>1. ProfileAll => OneBuild
  BY ProfilesAre DEF OneBuild, Lone
<1> QED BY <1>1, ProfileInvariant, PTL

(* Without overlap, dumps that are cut short and rebuilds, a profile has   *)
(* what is promised of the build whose hash it has, from a fresh objdump   *)
(* or from the cache of an earlier invocation: the cache of another build  *)
(* is never taken.  Names on both lists, and what an overlong line loses,  *)
(* are not covered.                                                        *)
THEOREM CalmProfiles == Spec => []CalmProfile
<1>1. ASSUME ProfileAll, trouble \subseteq {"unreadable"}
      PROVE  Lone /\ Calm
  BY <1>1, CalmIs DEF Lone
<1>2. ASSUME ProfileAll, trouble \subseteq {"unreadable"}, NEW i \in Invocations, pc[i] = "done"
      PROVE  \E b \in Builds :
               LET names == profile[i].names \ (options[i].allowList \cap options[i].blacklist)
               IN  /\ profile[i].hash \in {b, NoHash}
                   /\ names \subseteq Promised(b, i)
                   /\ Readable(b) => Promised(b, i) \subseteq names
  <2>1. PICK b \in Builds : Tied(profile[i].hash, b) /\ ProfileOf(b, i)
    BY <1>1, <1>2, ProfilesAre
  <2>2. profile[i].hash \in {b, NoHash}
    BY <1>1, <1>2, <2>1 DEF Tied
  <2>3. PICK names : names = profile[i].names \ (options[i].allowList \cap options[i].blacklist)
    OBVIOUS
  <2>4. CASE Readable(b)
    <3>1. names = Promised(b, i)
      BY <2>1, <2>3, <2>4 DEF ProfileOf, Names, Promised
    <3> QED BY <2>2, <2>3, <3>1, Zenon
  <2>5. CASE ~Readable(b)
    <3>1. names \subseteq Promised(b, i)
      BY <2>1, <2>3, <2>5 DEF ProfileOf, Names, Promised
    <3> QED BY <2>2, <2>3, <2>5, <3>1, Zenon
  <2> QED BY <2>4, <2>5
<1>3. ProfileAll => CalmProfile
  BY <1>2, Zenon DEF CalmProfile
<1> QED BY <1>3, ProfileInvariant, PTL
=============================================================================
