---------------------------- MODULE PolicyProofs ----------------------------
(***************************************************************************)
(* Proofs about module Policy, for policies and tables of any size: what   *)
(* the loops of toSyscallsWithConditions find, and with it that            *)
(* Policy.Assemble turns away exactly the malformed policies; and          *)
(* where the labels of the program it builds are, and with it that         *)
(* Program.Assemble never panics over them.                                *)
(*                                                                         *)
(* A loop is a recursive function over the positions of a list.  What      *)
(* every round keeps, AccOK or Placed, is carried to the end of the list   *)
(* by induction over the naturals, in the form of sets (NatInductive).     *)
(***************************************************************************)
EXTENDS Policy, ProgramProofs

-----------------------------------------------------------------------------
(* Induction over the naturals.                                            *)

LEMMA NatInductive ==
  ASSUME NEW S, 0 \in S, \A n \in Nat : n \in S => n + 1 \in S
  PROVE  Nat \subseteq S
<1> DEFINE T == {n \in Nat : n \notin S}
<1> SUFFICES ASSUME T # {} PROVE FALSE
  OBVIOUS
<1>1. PICK n \in T : \A m \in T : ~ (<<m, n>> \in OpToRel(<, Nat))
  <2>1. T \subseteq Nat
    OBVIOUS
  <2> HIDE DEF T
  <2> QED BY <2>1, NatLessThanWellFounded, WFMin
<1>2. n \in Nat /\ n # 0
  OBVIOUS
<1>3. n - 1 \in Nat /\ n - 1 < n /\ (n - 1) + 1 = n
  BY <1>2
<1>4. n - 1 \notin T
  BY <1>1, <1>2, <1>3 DEF OpToRel
<1>5. n - 1 \in S
  BY <1>3, <1>4
<1> QED BY <1>2, <1>3, <1>5

-----------------------------------------------------------------------------
(* What a round of toSyscallsWithConditions keeps.                         *)

Known == DOMAIN arch.syscallNames

(* The system calls collected, as they come from a group.                  *)
Entries(g) ==
  [num : Word, conditions : Seq({nc.conditions : nc \in Range(g.namesWithConditions)})]

Accs(g) == [syscalls : Seq(Entries(g)), problems : Nat]

(* The position s has the number of name, without conditions.              *)
PlainEntry(syscalls, s, name) ==
  syscalls[s].num = SyscallNum(arch, name) /\ syscalls[s].conditions = <<>>

(* No number is there twice.                                               *)
OneEach(syscalls) ==
  \A s, t \in DOMAIN syscalls : syscalls[s].num = syscalls[t].num => s = t

(* What has no conditions is one of the first i names.                     *)
PlainNamed(g, syscalls, i) ==
  \A s \in DOMAIN syscalls : syscalls[s].conditions = <<>> =>
    \E k \in 1 .. i : g.names[k] \in Known /\ syscalls[s].num = SyscallNum(arch, g.names[k])

(* The first i names and the first j names with conditions are in order.   *)
NamesGood(g, syscalls, i) ==
  /\ \A k \in 1 .. i :
       /\ g.names[k] \in Known
       /\ \E s \in DOMAIN syscalls : PlainEntry(syscalls, s, g.names[k])
  /\ \A k, l \in 1 .. i : k # l => g.names[k] # g.names[l]

CondGood(g, i, nc) ==
  /\ nc.name \in Known /\ ~InvalidArguments(nc.conditions)
  /\ \A k \in 1 .. i : g.names[k] # nc.name

AccOK(g, acc, i, j) ==
  /\ acc \in Accs(g)
  /\ OneEach(acc.syscalls)
  /\ PlainNamed(g, acc.syscalls, i)
  /\ acc.problems = 0 => /\ NamesGood(g, acc.syscalls, i)
                         /\ \A m \in 1 .. j : CondGood(g, i, g.namesWithConditions[m])
  /\ acc.problems # 0 => InvalidGroup(g)

(* A group of a policy, for an architecture of the program.                *)
Proper(g) ==
  /\ arch.seccompMask \in Nat
  /\ \A n, m \in Known : /\ arch.syscallNames[n] \in Nat
                         /\ arch.syscallNames[n] + arch.seccompMask \in Word
                         /\ arch.syscallNames[n] = arch.syscallNames[m] => n = m
  /\ g.names \in Seq(Range(g.names))
  /\ g.namesWithConditions \in Seq(Range(g.namesWithConditions))
  /\ \A nc \in Range(g.namesWithConditions) :
       /\ nc.conditions \in Seq(Range(nc.conditions))
       /\ \A c \in Range(nc.conditions) : c.argument \in Nat /\ c.value \in DoubleWord

LEMMA SyscallNumFacts ==
  ASSUME NEW g, Proper(g), NEW n \in Known, NEW m \in Known
  PROVE  /\ SyscallNum(arch, n) \in Word
         /\ SyscallNum(arch, n) = SyscallNum(arch, m) => n = m
BY DEF Proper, SyscallNum

LEMMA GetSyscallFacts ==
  ASSUME NEW S, NEW syscalls \in Seq(S), NEW num
  PROVE  \/ /\ GetSyscall(syscalls, num) = 0
            /\ \A s \in DOMAIN syscalls : syscalls[s].num # num
         \/ /\ GetSyscall(syscalls, num) \in DOMAIN syscalls
            /\ GetSyscall(syscalls, num) # 0
            /\ syscalls[GetSyscall(syscalls, num)].num = num
<1> DEFINE T == {s \in 1 .. Len(syscalls) : syscalls[s].num = num}
<1>1. GetSyscall(syscalls, num) = IF T # {} THEN Min(T) ELSE 0
  BY DEF GetSyscall, SelectInSeq
<1>2. DOMAIN syscalls = 1 .. Len(syscalls) /\ Len(syscalls) \in Nat
  OBVIOUS
<1>3. CASE T = {}
  BY <1>1, <1>2, <1>3
<1>4. CASE T # {}
  <2>1. T \subseteq Nat
    BY <1>2
  <2>2. Min(T) \in T
    <3> HIDE DEF T
    <3> QED BY <1>4, <2>1, MinProperties
  <2> QED BY <1>1, <1>2, <1>4, <2>2
<1> QED BY <1>3, <1>4

-----------------------------------------------------------------------------
(* One round.                                                              *)

LEMMA ProblemOK ==
  ASSUME NEW g, InvalidGroup(g), NEW i \in Nat, NEW j \in Nat, NEW k \in Nat, NEW l \in Nat,
         NEW acc, AccOK(g, acc, i, j), k >= i
  PROVE  AccOK(g, Problem(acc), k, l)
<1>1. /\ Problem(acc) \in Accs(g)
      /\ Problem(acc).syscalls = acc.syscalls
      /\ Problem(acc).problems = acc.problems + 1
      /\ acc.problems \in Nat
  BY DEF AccOK, Accs, Problem
<1>2. Problem(acc).problems # 0
  BY <1>1
<1>3. PlainNamed(g, acc.syscalls, k)
  <2>1. 1 .. i \subseteq 1 .. k
    OBVIOUS
  <2> QED BY <2>1 DEF AccOK, PlainNamed
<1> QED BY <1>1, <1>2, <1>3 DEF AccOK

(* new is acc, with its n entries, and another one.                        *)
Added(g, new, acc, n, num, conds) ==
  /\ new \in Accs(g) /\ new.problems = acc.problems
  /\ n \in Nat /\ DOMAIN acc.syscalls = 1 .. n /\ DOMAIN new.syscalls = 1 .. (n + 1)
  /\ \A s \in 1 .. n : new.syscalls[s] = acc.syscalls[s]
  /\ new.syscalls[n + 1].num = num
  /\ new.syscalls[n + 1].conditions = conds

LEMMA AddSyscallFacts ==
  ASSUME NEW g, NEW acc \in Accs(g), NEW num \in Word,
         NEW conds \in Seq({nc.conditions : nc \in Range(g.namesWithConditions)})
  PROVE  Added(g, AddSyscall(acc, num, conds), acc, Len(acc.syscalls), num, conds)
<1> DEFINE e == [num |-> num, conditions |-> conds]
<1>1. e \in Entries(g) /\ e.num = num /\ e.conditions = conds
  BY DEF Entries
<1>2. acc.syscalls \in Seq(Entries(g)) /\ acc.problems \in Nat
  BY DEF Accs
<1>3. AddSyscall(acc, num, conds) = [acc EXCEPT !.syscalls = Append(acc.syscalls, e)]
  BY Zenon DEF AddSyscall
<1> HIDE DEF e
<1>4. /\ Append(acc.syscalls, e) \in Seq(Entries(g))
      /\ Len(acc.syscalls) \in Nat
      /\ DOMAIN acc.syscalls = 1 .. Len(acc.syscalls)
      /\ DOMAIN Append(acc.syscalls, e) = 1 .. (Len(acc.syscalls) + 1)
      /\ \A s \in 1 .. Len(acc.syscalls) : Append(acc.syscalls, e)[s] = acc.syscalls[s]
      /\ Append(acc.syscalls, e)[Len(acc.syscalls) + 1] = e
  BY <1>1, <1>2
<1>5. ASSUME NEW q \in Seq(Entries(g))
      PROVE  LET new == [acc EXCEPT !.syscalls = q]
             IN  new \in Accs(g) /\ new.problems = acc.problems /\ new.syscalls = q
  BY DEF Accs
<1>6. PICK q \in Seq(Entries(g)) : q = Append(acc.syscalls, e)
  BY <1>4
<1>7. PICK new : new = [acc EXCEPT !.syscalls = q]
  OBVIOUS
<1>8. new \in Accs(g) /\ new.problems = acc.problems /\ new.syscalls = q
  BY <1>5, <1>7
<1>9. new = AddSyscall(acc, num, conds)
  BY <1>3, <1>6, <1>7, Zenon
<1>10. Added(g, new, acc, Len(acc.syscalls), num, conds)
  BY <1>1, <1>4, <1>6, <1>8 DEF Added
<1> QED BY <1>9, <1>10, Zenon

(* r is q with a number behind it that it does not have.                   *)
NewNumber(q, r, n, num) ==
  /\ n \in Nat /\ DOMAIN q = 1 .. n /\ DOMAIN r = 1 .. (n + 1)
  /\ \A s \in 1 .. n : r[s].num = q[s].num
  /\ r[n + 1].num = num
  /\ \A s \in 1 .. n : q[s].num # num

LEMMA AddedOnce ==
  ASSUME NEW q, NEW r, NEW n, NEW num, NewNumber(q, r, n, num), OneEach(q)
  PROVE  OneEach(r)
<1> USE DEF NewNumber
<1> SUFFICES ASSUME NEW s \in 1 .. (n + 1), NEW t \in 1 .. (n + 1), r[s].num = r[t].num
             PROVE  s = t
  BY DEF OneEach
<1>1. \A u \in 1 .. (n + 1) : u # n + 1 => u \in 1 .. n
  OBVIOUS
<1>2. CASE s = n + 1 /\ t # n + 1
  BY <1>1, <1>2
<1>3. CASE s # n + 1 /\ t = n + 1
  BY <1>1, <1>3
<1>4. CASE s # n + 1 /\ t # n + 1
  <2>1. s \in 1 .. n /\ t \in 1 .. n
    BY <1>1, <1>4
  <2>2. q[s].num = q[t].num
    BY <2>1
  <2> QED BY <2>1, <2>2 DEF OneEach
<1> QED BY <1>2, <1>3, <1>4

(* While names without conditions are read, nothing has conditions.        *)
AllPlain(syscalls) == \A s \in DOMAIN syscalls : syscalls[s].conditions = <<>>

LEMMA AddNameOK ==
  ASSUME NEW g, Proper(g), NEW i \in Nat, i + 1 \in DOMAIN g.names,
         NEW acc, AccOK(g, acc, i, 0), AllPlain(acc.syscalls)
  PROVE  LET new == AddName(arch, acc, g.names[i + 1])
         IN  AccOK(g, new, i + 1, 0) /\ AllPlain(new.syscalls)
<1> DEFINE name == g.names[i + 1]
           num == SyscallNum(arch, name)
           new == AddName(arch, acc, name)
<1>0. /\ DOMAIN g.names = 1 .. Len(g.names) /\ Len(g.names) \in Nat
      /\ i + 1 \in Nat /\ i <= i + 1
  BY DEF Proper
<1>1. ASSUME InvalidGroup(g), new = Problem(acc)
      PROVE  AccOK(g, new, i + 1, 0) /\ AllPlain(new.syscalls)
  <2>1. AccOK(g, Problem(acc), i + 1, 0)
    BY <1>0, <1>1, ProblemOK
  <2>2. Problem(acc).syscalls = acc.syscalls
    BY DEF Problem, AccOK, Accs
  <2> QED BY <1>1, <2>1, <2>2, Zenon
<1>2. CASE name \notin Known
  <2>1. InvalidGroup(g)
    BY <1>2 DEF InvalidGroup, Known
  <2>2. new = Problem(acc)
    BY <1>2, Zenon DEF AddName, Known
  <2> QED BY <1>1, <2>1, <2>2
<1>3. CASE name \in Known /\ GetSyscall(acc.syscalls, num) # 0
  <2>1. PICK s \in DOMAIN acc.syscalls : acc.syscalls[s].num = num
    <3>1. acc.syscalls \in Seq(Entries(g))
      BY DEF AccOK, Accs
    <3> QED BY <1>3, <3>1, GetSyscallFacts
  <2>2. PICK k \in 1 .. i : g.names[k] \in Known
                            /\ acc.syscalls[s].num = SyscallNum(arch, g.names[k])
    BY <2>1 DEF AccOK, PlainNamed, AllPlain
  <2>3. g.names[k] = name /\ k # i + 1 /\ k \in DOMAIN g.names
    <3>1. g.names[k] = name
      BY <1>3, <2>1, <2>2, SyscallNumFacts
    <3> QED BY <1>0, <3>1
  <2>4. InvalidGroup(g)
    BY <2>3 DEF InvalidGroup
  <2>5. new = Problem(acc)
    BY <1>3, Zenon DEF AddName, Known
  <2> QED BY <1>1, <2>4, <2>5 DEF Added
<1>4. CASE name \in Known /\ GetSyscall(acc.syscalls, num) = 0
  <2> DEFINE n == Len(acc.syscalls)
  <2>1. new = AddSyscall(acc, num, <<>>)
    BY <1>4, Zenon DEF AddName, Known
  <2>2. num \in Word /\ acc \in Accs(g) /\ acc.syscalls \in Seq(Entries(g))
    BY <1>4, SyscallNumFacts DEF AccOK, Accs
  <2>3. <<>> \in Seq({nc.conditions : nc \in Range(g.namesWithConditions)})
    OBVIOUS
  <2>4. Added(g, new, acc, n, num, <<>>)
    BY <2>1, <2>2, <2>3, AddSyscallFacts, Zenon
  <2>5. \A s \in DOMAIN acc.syscalls : acc.syscalls[s].num # num
    BY <1>4, <2>2, GetSyscallFacts
  <2> HIDE DEF new, num
  <2>6. OneEach(new.syscalls)
    <3>1. OneEach(acc.syscalls)
      BY DEF AccOK
    <3>2. NewNumber(acc.syscalls, new.syscalls, n, num)
      BY <2>4, <2>5 DEF Added, NewNumber
    <3> QED BY <3>1, <3>2, AddedOnce, Zenon
  <2>7. AllPlain(new.syscalls)
    <3> SUFFICES ASSUME NEW s \in 1 .. (n + 1)
                 PROVE  new.syscalls[s].conditions = <<>>
      BY <2>4 DEF AllPlain, Added
    <3>1. CASE s = n + 1
      BY <2>4, <3>1 DEF Added
    <3>2. CASE s # n + 1
      <4>1. s \in DOMAIN acc.syscalls /\ new.syscalls[s] = acc.syscalls[s]
        BY <2>4, <3>2 DEF Added
      <4> QED BY <4>1 DEF AllPlain
    <3> QED BY <3>1, <3>2
  <2>8. PlainNamed(g, new.syscalls, i + 1)
    <3> SUFFICES ASSUME NEW s \in 1 .. (n + 1)
                 PROVE  \E k \in 1 .. (i + 1) : g.names[k] \in Known
                                                /\ new.syscalls[s].num = SyscallNum(arch, g.names[k])
      BY <2>4 DEF PlainNamed, Added
    <3>1. CASE s = n + 1
      BY <1>0, <1>4, <2>4, <3>1 DEF num, Added
    <3>2. CASE s # n + 1
      <4>1. s \in DOMAIN acc.syscalls /\ new.syscalls[s] = acc.syscalls[s]
        BY <2>4, <3>2 DEF Added
      <4>2. PICK k \in 1 .. i : g.names[k] \in Known
                                /\ acc.syscalls[s].num = SyscallNum(arch, g.names[k])
        BY <4>1 DEF AccOK, PlainNamed, AllPlain
      <4> QED BY <4>1, <4>2
    <3> QED BY <3>1, <3>2
  <2>9. ASSUME acc.problems = 0
        PROVE  NamesGood(g, new.syscalls, i + 1)
    <3>1. NamesGood(g, acc.syscalls, i)
      BY <2>9 DEF AccOK
    <3>2. ASSUME NEW k \in 1 .. (i + 1)
          PROVE  g.names[k] \in Known
                 /\ \E s \in DOMAIN new.syscalls : PlainEntry(new.syscalls, s, g.names[k])
      <4>1. CASE k = i + 1
        BY <1>4, <2>4, <4>1 DEF PlainEntry, num, Added
      <4>2. CASE k # i + 1
        <5>1. k \in 1 .. i
          BY <4>2
        <5>2. g.names[k] \in Known
          BY <3>1, <5>1 DEF NamesGood
        <5>3. PICK s \in DOMAIN acc.syscalls : PlainEntry(acc.syscalls, s, g.names[k])
          BY <3>1, <5>1 DEF NamesGood
        <5>4. s \in DOMAIN new.syscalls /\ new.syscalls[s] = acc.syscalls[s]
          BY <2>4 DEF Added
        <5> QED BY <5>2, <5>3, <5>4 DEF PlainEntry
      <4> QED BY <4>1, <4>2
    <3>3. \A k \in 1 .. i : g.names[k] # name
      BY <2>5, <3>1 DEF NamesGood, PlainEntry, num
    <3>4. \A k, l \in 1 .. (i + 1) : k # l => g.names[k] # g.names[l]
      BY <3>1, <3>3 DEF NamesGood
    <3> QED BY <3>2, <3>4 DEF NamesGood
  <2>10. /\ acc.problems # 0 => InvalidGroup(g)
         /\ \A m \in 1 .. 0 : CondGood(g, i + 1, g.namesWithConditions[m])
    BY DEF AccOK
  <2>11. AccOK(g, new, i + 1, 0)
    BY <2>4, <2>6, <2>8, <2>9, <2>10, Zenon DEF AccOK, Added
  <2> QED BY <2>7, <2>11 DEF new
<1> QED BY <1>2, <1>3, <1>4

(* A call that has conditions gets others.                                 *)
Changed(g, new, acc, c) ==
  /\ new \in Accs(g) /\ new.problems = acc.problems
  /\ DOMAIN new.syscalls = DOMAIN acc.syscalls
  /\ \A s \in DOMAIN acc.syscalls : new.syscalls[s].num = acc.syscalls[s].num
  /\ \A s \in DOMAIN acc.syscalls : s # c => new.syscalls[s] = acc.syscalls[s]
  /\ new.syscalls[c].conditions # <<>>

LEMMA AppendConditionsFacts ==
  ASSUME NEW g, NEW acc \in Accs(g), NEW c \in DOMAIN acc.syscalls,
         NEW nc \in Range(g.namesWithConditions)
  PROVE  Changed(g, [acc EXCEPT !.syscalls[c].conditions = Append(@, nc.conditions)], acc, c)
<1>0. PICK conds : conds = nc.conditions
  OBVIOUS
<1> DEFINE C == {x.conditions : x \in Range(g.namesWithConditions)}
           q == acc.syscalls
<1>1. q \in Seq(Entries(g)) /\ q[c] \in Entries(g) /\ acc.problems \in Nat
  BY DEF Accs
<1> HIDE DEF C
<1>2. PICK d : d = Append(q[c].conditions, conds)
  OBVIOUS
<1>3. d \in Seq(C) /\ d # <<>>
  <2>1. q[c].conditions \in Seq(C)
    BY <1>1 DEF Entries, C
  <2>2. conds \in C
    BY <1>0 DEF C
  <2> QED BY <1>2, <2>1, <2>2
<1>4. PICK e : e = [q[c] EXCEPT !.conditions = d]
  OBVIOUS
<1>5. e \in Entries(g) /\ e.num = q[c].num /\ e.conditions = d
  BY <1>1, <1>3, <1>4 DEF Entries, C
<1>6. PICK r : r = [q EXCEPT ![c] = e]
  OBVIOUS
<1>7. /\ r \in Seq(Entries(g)) /\ DOMAIN r = DOMAIN q /\ r[c] = e
      /\ \A s \in DOMAIN q : s # c => r[s] = q[s]
  BY <1>1, <1>5, <1>6
<1>8. PICK new : new = [acc EXCEPT !.syscalls = r]
  OBVIOUS
<1>9. new \in Accs(g) /\ new.problems = acc.problems /\ new.syscalls = r
  BY <1>7, <1>8 DEF Accs
<1>10. [acc EXCEPT !.syscalls[c].conditions = Append(@, nc.conditions)] = new
  BY <1>0, <1>2, <1>4, <1>6, <1>8
<1>11. Changed(g, new, acc, c)
  <2>1. \A s \in DOMAIN q : r[s].num = q[s].num
    BY <1>5, <1>7
  <2> QED BY <1>3, <1>5, <1>7, <1>9, <2>1 DEF Changed
<1> QED BY <1>10, <1>11, Zenon

LEMMA AddNameWithConditionsOK ==
  ASSUME NEW g, Proper(g), NEW j \in Nat, j + 1 \in DOMAIN g.namesWithConditions,
         NEW acc, AccOK(g, acc, Len(g.names), j)
  PROVE  AccOK(g, AddNameWithConditions(arch, acc, g.namesWithConditions[j + 1]),
               Len(g.names), j + 1)
<1> DEFINE nc == g.namesWithConditions[j + 1]
           num == SyscallNum(arch, nc.name)
           check == GetSyscall(acc.syscalls, num)
           new == AddNameWithConditions(arch, acc, nc)
           N == Len(g.names)
<1>0. /\ DOMAIN g.names = 1 .. N /\ N \in Nat
      /\ nc \in Range(g.namesWithConditions) /\ j + 1 \in Nat
      /\ acc \in Accs(g) /\ acc.syscalls \in Seq(Entries(g))
  BY DEF Proper, AccOK, Accs, Range
<1>1. ASSUME InvalidGroup(g), new = Problem(acc)
      PROVE  AccOK(g, new, N, j + 1)
  <2>1. N >= N /\ AccOK(g, acc, N, j)
    BY <1>0
  <2> HIDE DEF N, new
  <2>2. AccOK(g, Problem(acc), N, j + 1)
    BY <1>0, <1>1, <2>1, ProblemOK
  <2> QED BY <1>1, <2>2, Zenon
<1>2. CASE nc.name \notin Known
  <2>1. InvalidGroup(g)
    BY <1>2 DEF InvalidGroup, Known
  <2>2. new = Problem(acc)
    BY <1>2, Zenon DEF AddNameWithConditions, Known
  <2> QED BY <1>1, <2>1, <2>2
<1>3. CASE InvalidArguments(nc.conditions)
  <2>1. PICK k \in DOMAIN nc.conditions : nc.conditions[k].argument \notin 0 .. 5
    BY <1>3 DEF InvalidArguments
  <2>2. nc.conditions[k].argument \in Nat
    BY <1>0, <2>1 DEF Proper, Range
  <2>3. nc.conditions[k].argument > 5
    BY <2>1, <2>2
  <2>4. InvalidGroup(g)
    BY <2>1, <2>3 DEF InvalidGroup
  <2>5. new = Problem(acc)
    BY <1>3, Zenon DEF AddNameWithConditions
  <2> QED BY <1>1, <2>4, <2>5
<1>4. CASE nc.name \in Known /\ ~InvalidArguments(nc.conditions)
  <2>1. num \in Word
    BY <1>4, SyscallNumFacts
  <2>2. /\ acc.problems # 0 => InvalidGroup(g)
        /\ acc.problems = 0 => /\ NamesGood(g, acc.syscalls, N)
                               /\ \A m \in 1 .. j : CondGood(g, N, g.namesWithConditions[m])
        /\ OneEach(acc.syscalls) /\ PlainNamed(g, acc.syscalls, N)
    BY DEF AccOK
  <2>3. ASSUME new \in Accs(g), new.problems = acc.problems, OneEach(new.syscalls),
               PlainNamed(g, new.syscalls, N),
               acc.problems = 0 => /\ NamesGood(g, new.syscalls, N)
                                   /\ \A k \in 1 .. N : g.names[k] # nc.name
        PROVE  AccOK(g, new, N, j + 1)
    <3>1. ASSUME acc.problems = 0, NEW m \in 1 .. (j + 1)
          PROVE  CondGood(g, N, g.namesWithConditions[m])
      <4>1. CASE m = j + 1
        BY <1>4, <2>3, <3>1, <4>1 DEF CondGood
      <4>2. CASE m # j + 1
        BY <2>2, <3>1, <4>2
      <4> QED BY <4>1, <4>2
    <3> HIDE DEF new, N
    <3> QED BY <2>2, <2>3, <3>1, Zenon DEF AccOK
  <2>4. CASE check = 0
    <3> DEFINE n == Len(acc.syscalls)
    <3>1. new = AddSyscall(acc, num, <<nc.conditions>>)
      BY <1>4, <2>4, Zenon DEF AddNameWithConditions, Known
    <3>2. <<nc.conditions>> \in Seq({x.conditions : x \in Range(g.namesWithConditions)})
          /\ <<nc.conditions>> # <<>>
      BY <1>0
    <3>3. Added(g, new, acc, n, num, <<nc.conditions>>)
      BY <1>0, <2>1, <3>1, <3>2, AddSyscallFacts, Zenon
    <3>4. \A s \in DOMAIN acc.syscalls : acc.syscalls[s].num # num
      BY <1>0, <2>4, GetSyscallFacts
    <3> HIDE DEF new, num, N
    <3>5. OneEach(new.syscalls)
      <4>1. OneEach(acc.syscalls)
        BY <2>2
      <4>2. NewNumber(acc.syscalls, new.syscalls, n, num)
        BY <3>3, <3>4 DEF Added, NewNumber
      <4> QED BY <4>1, <4>2, AddedOnce, Zenon
    <3>6. PlainNamed(g, new.syscalls, N)
      <4> SUFFICES ASSUME NEW s \in DOMAIN new.syscalls, new.syscalls[s].conditions = <<>>
                   PROVE  \E k \in 1 .. N : g.names[k] \in Known
                                            /\ new.syscalls[s].num = SyscallNum(arch, g.names[k])
        BY DEF PlainNamed
      <4>1. s \in DOMAIN acc.syscalls /\ new.syscalls[s] = acc.syscalls[s]
        <5>1. s # n + 1
          BY <3>2, <3>3 DEF Added
        <5> QED BY <3>3, <5>1 DEF Added
      <4> QED BY <2>2, <4>1 DEF PlainNamed
    <3>7. ASSUME acc.problems = 0
          PROVE  NamesGood(g, new.syscalls, N) /\ \A k \in 1 .. N : g.names[k] # nc.name
      <4>1. ASSUME NEW k \in 1 .. N
            PROVE  /\ g.names[k] \in Known /\ g.names[k] # nc.name
                   /\ \E s \in DOMAIN new.syscalls : PlainEntry(new.syscalls, s, g.names[k])
        <5>1. g.names[k] \in Known
          BY <2>2, <3>7 DEF NamesGood
        <5>2. PICK s \in DOMAIN acc.syscalls : PlainEntry(acc.syscalls, s, g.names[k])
          BY <2>2, <3>7 DEF NamesGood
        <5>3. s \in DOMAIN new.syscalls /\ new.syscalls[s] = acc.syscalls[s]
          BY <3>3 DEF Added
        <5>4. g.names[k] # nc.name
          BY <3>4, <5>2 DEF PlainEntry, num
        <5> QED BY <5>1, <5>2, <5>3, <5>4 DEF PlainEntry
      <4> QED BY <2>2, <3>7, <4>1 DEF NamesGood
    <3>8. new \in Accs(g) /\ new.problems = acc.problems
      BY <3>3 DEF Added
    <3> QED BY <2>3, <3>5, <3>6, <3>7, <3>8, Zenon DEF new, N
  <2>5. CASE check # 0
    <3>1. check \in DOMAIN acc.syscalls /\ acc.syscalls[check].num = num
      BY <1>0, <2>5, GetSyscallFacts
    <3>2. CASE acc.syscalls[check].conditions = <<>>
      <4>1. PICK k \in 1 .. N : g.names[k] \in Known
                                /\ acc.syscalls[check].num = SyscallNum(arch, g.names[k])
        BY <2>2, <3>1, <3>2 DEF PlainNamed
      <4>2. g.names[k] = nc.name /\ k \in DOMAIN g.names
        BY <1>0, <1>4, <3>1, <4>1, SyscallNumFacts
      <4>3. InvalidGroup(g)
        BY <4>2 DEF InvalidGroup
      <4>4. new = Problem(acc)
        BY <1>4, <2>5, <3>2, Zenon DEF AddNameWithConditions, Known
      <4> QED BY <1>1, <4>3, <4>4
    <3>3. CASE acc.syscalls[check].conditions # <<>>
      <4>1. new = [acc EXCEPT !.syscalls[check].conditions = Append(@, nc.conditions)]
        BY <1>4, <2>5, <3>3, Zenon DEF AddNameWithConditions, Known
      <4>2. Changed(g, new, acc, check)
        <5> HIDE DEF new, check, nc
        <5>1. Changed(g, [acc EXCEPT !.syscalls[check].conditions = Append(@, nc.conditions)],
                      acc, check)
          BY <1>0, <3>1, AppendConditionsFacts
        <5> QED BY <4>1, <5>1, Zenon
      <4> HIDE DEF new, num, N, check
      <4>3. OneEach(new.syscalls)
        BY <2>2, <4>2 DEF OneEach, Changed
      <4>4. PlainNamed(g, new.syscalls, N)
        <5> SUFFICES ASSUME NEW s \in DOMAIN new.syscalls, new.syscalls[s].conditions = <<>>
                     PROVE  \E k \in 1 .. N : g.names[k] \in Known
                                              /\ new.syscalls[s].num = SyscallNum(arch, g.names[k])
          BY DEF PlainNamed
        <5>1. s \in DOMAIN acc.syscalls /\ new.syscalls[s] = acc.syscalls[s]
          BY <4>2 DEF Changed
        <5> QED BY <2>2, <5>1 DEF PlainNamed
      <4>5. ASSUME acc.problems = 0
            PROVE  NamesGood(g, new.syscalls, N) /\ \A k \in 1 .. N : g.names[k] # nc.name
        <5>1. ASSUME NEW k \in 1 .. N
              PROVE  /\ g.names[k] \in Known /\ g.names[k] # nc.name
                     /\ \E s \in DOMAIN new.syscalls : PlainEntry(new.syscalls, s, g.names[k])
          <6>1. g.names[k] \in Known
            BY <2>2, <4>5 DEF NamesGood
          <6>2. PICK s \in DOMAIN acc.syscalls : PlainEntry(acc.syscalls, s, g.names[k])
            BY <2>2, <4>5 DEF NamesGood
          <6>3. s # check
            BY <3>3, <6>2 DEF PlainEntry
          <6>4. s \in DOMAIN new.syscalls /\ new.syscalls[s] = acc.syscalls[s]
            BY <4>2, <6>3 DEF Changed
          <6>5. g.names[k] # nc.name
            BY <2>2, <3>1, <6>2, <6>3 DEF PlainEntry, OneEach, num
          <6> QED BY <6>1, <6>2, <6>4, <6>5 DEF PlainEntry
        <5> QED BY <2>2, <4>5, <5>1 DEF NamesGood
      <4>6. new \in Accs(g) /\ new.problems = acc.problems
        BY <4>2 DEF Changed
      <4> QED BY <2>3, <4>3, <4>4, <4>5, <4>6, Zenon DEF new, N
    <3> QED BY <3>2, <3>3
  <2> QED BY <2>4, <2>5
<1> QED BY <1>2, <1>3, <1>4

-----------------------------------------------------------------------------
(* The loops.                                                              *)

Nothing == [syscalls |-> <<>>, problems |-> 0]

(* The rounds of the two loops, as ForEach has them.                       *)
NamesRounds(a, names, f) ==
  f = [i \in 0 .. Len(names) |->
         IF i = 0 THEN Nothing
         ELSE CHOOSE r \in {AddName(a, q, names[i]) : q \in {f[i - 1]}} : TRUE]

CondsRounds(a, ncs, base, f) ==
  f = [i \in 0 .. Len(ncs) |->
         IF i = 0 THEN base
         ELSE CHOOSE r \in {AddNameWithConditions(a, q, ncs[i]) : q \in {f[i - 1]}} : TRUE]

NamesRun(a, names)     == CHOOSE f : NamesRounds(a, names, f)
CondsRun(a, ncs, base) == CHOOSE f : CondsRounds(a, ncs, base, f)

LEMMA LoopsAre ==
  ASSUME NEW g
  PROVE  LET plain == NamesRun(arch, g.names)[Len(g.names)]
         IN  ToSyscallsWithConditions(arch, g) =
               CondsRun(arch, g.namesWithConditions, plain)[Len(g.namesWithConditions)]
BY Zenon DEF ToSyscallsWithConditions, ForEach, NamesRun, CondsRun, NamesRounds, CondsRounds,
             Nothing

(* ForEach binds what a round returns; that is what it returns.            *)
LEMMA ChooseOne ==
  ASSUME NEW y, NEW S, S = {y}
  PROVE  (CHOOSE r \in S : TRUE) = y
<1>1. (CHOOSE r \in S : TRUE) \in S
  OBVIOUS
<1> QED BY <1>1

LEMMA BindName ==
  ASSUME NEW a, NEW n, NEW x
  PROVE  (CHOOSE r \in {AddName(a, q, n) : q \in {x}} : TRUE) = AddName(a, x, n)
<1>1. {AddName(a, q, n) : q \in {x}} = {AddName(a, x, n)}
  BY Zenon
<1> QED BY <1>1, ChooseOne, Zenon

LEMMA BindConds ==
  ASSUME NEW a, NEW n, NEW x
  PROVE  (CHOOSE r \in {AddNameWithConditions(a, q, n) : q \in {x}} : TRUE)
           = AddNameWithConditions(a, x, n)
<1>1. {AddNameWithConditions(a, q, n) : q \in {x}} = {AddNameWithConditions(a, x, n)}
  BY Zenon
<1> QED BY <1>1, ChooseOne, Zenon

(* Both loops start with what they are given and do one round after the    *)
(* other.                                                                  *)
LEMMA NamesLoop ==
  ASSUME NEW a, NEW names, Len(names) \in Nat,
         NEW f, f = NamesRun(a, names)
  PROVE  /\ f[0] = Nothing
         /\ \A i \in Nat : i < Len(names) => f[i + 1] = AddName(a, f[i], names[i + 1])
<1> DEFINE B(x, i) == CHOOSE r \in {AddName(a, q, names[i]) : q \in {x}} : TRUE
           Upto(k, c) == c = [i \in 0 .. k |-> IF i = 0 THEN Nothing ELSE B(c[i - 1], i)]
           S == {k \in Nat : \E c : Upto(k, c)}
<1>1. \A x, i : B(x, i) = AddName(a, x, names[i])
  BY BindName
<1>2. \A c : NamesRounds(a, names, c) <=> Upto(Len(names), c)
  BY Zenon DEF NamesRounds
<1> HIDE DEF B
<1>3. 0 \in S
  <2>1. PICK c : c = [i \in 0 .. 0 |-> Nothing]
    OBVIOUS
  <2>2. Upto(0, c)
    BY <2>1
  <2> QED BY <2>2
<1>4. ASSUME NEW k \in Nat, k \in S
      PROVE  k + 1 \in S
  <2>1. PICK c : Upto(k, c)
    BY <1>4
  <2>2. PICK h : h = [i \in 0 .. (k + 1) |-> IF i = k + 1 THEN B(c[k], k + 1) ELSE c[i]]
    OBVIOUS
  <2>3. \A i \in 0 .. k : h[i] = c[i]
    BY <2>2
  <2>4. ASSUME NEW i \in 0 .. (k + 1)
        PROVE  h[i] = IF i = 0 THEN Nothing ELSE B(h[i - 1], i)
    <3>1. CASE i = k + 1
      <4>1. i # 0 /\ i - 1 = k /\ k \in 0 .. k
        BY <3>1
      <4> QED BY <2>2, <2>3, <3>1, <4>1
    <3>2. CASE i # k + 1 /\ i # 0
      <4>1. i \in 0 .. k /\ i - 1 \in 0 .. k
        BY <3>2
      <4>2. c[i] = B(c[i - 1], i)
        BY <2>1, <3>2, <4>1
      <4> QED BY <2>3, <3>2, <4>1, <4>2
    <3>3. CASE i = 0
      BY <2>1, <2>3, <3>3
    <3> QED BY <3>1, <3>2, <3>3
  <2>5. Upto(k + 1, h)
    BY <2>2, <2>4
  <2>6. k + 1 \in Nat
    OBVIOUS
  <2> QED BY <2>5, <2>6
<1>5. \E c : Upto(Len(names), c)
  <2>1. Nat \subseteq S
    <3> HIDE DEF S
    <3> QED BY <1>3, <1>4, NatInductive
  <2> QED BY <2>1
<1>6. Upto(Len(names), f)
  <2>1. \E h : NamesRounds(a, names, h)
    BY <1>2, <1>5
  <2>2. NamesRounds(a, names, f)
    BY <2>1, Zenon DEF NamesRun
  <2> QED BY <1>2, <2>2
<1>7. f[0] = Nothing
  BY <1>6
<1>8. ASSUME NEW i \in Nat, i < Len(names)
      PROVE  f[i + 1] = AddName(a, f[i], names[i + 1])
  <2>1. i + 1 \in 0 .. Len(names) /\ i + 1 # 0 /\ (i + 1) - 1 = i
    BY <1>8
  <2>2. f[i + 1] = B(f[(i + 1) - 1], i + 1)
    BY <1>6, <2>1
  <2> QED BY <1>1, <2>1, <2>2
<1> QED BY <1>7, <1>8

LEMMA CondsLoop ==
  ASSUME NEW a, NEW ncs, NEW base, Len(ncs) \in Nat,
         NEW f, f = CondsRun(a, ncs, base)
  PROVE  /\ f[0] = base
         /\ \A i \in Nat : i < Len(ncs) => f[i + 1] = AddNameWithConditions(a, f[i], ncs[i + 1])
<1> DEFINE B(x, i) == CHOOSE r \in {AddNameWithConditions(a, q, ncs[i]) : q \in {x}} : TRUE
           Upto(k, c) == c = [i \in 0 .. k |-> IF i = 0 THEN base ELSE B(c[i - 1], i)]
           S == {k \in Nat : \E c : Upto(k, c)}
<1>1. \A x, i : B(x, i) = AddNameWithConditions(a, x, ncs[i])
  BY BindConds
<1>2. \A c : CondsRounds(a, ncs, base, c) <=> Upto(Len(ncs), c)
  BY Zenon DEF CondsRounds
<1> HIDE DEF B
<1>3. 0 \in S
  <2>1. PICK c : c = [i \in 0 .. 0 |-> base]
    OBVIOUS
  <2>2. Upto(0, c)
    BY <2>1
  <2> QED BY <2>2
<1>4. ASSUME NEW k \in Nat, k \in S
      PROVE  k + 1 \in S
  <2>1. PICK c : Upto(k, c)
    BY <1>4
  <2>2. PICK h : h = [i \in 0 .. (k + 1) |-> IF i = k + 1 THEN B(c[k], k + 1) ELSE c[i]]
    OBVIOUS
  <2>3. \A i \in 0 .. k : h[i] = c[i]
    BY <2>2
  <2>4. ASSUME NEW i \in 0 .. (k + 1)
        PROVE  h[i] = IF i = 0 THEN base ELSE B(h[i - 1], i)
    <3>1. CASE i = k + 1
      <4>1. i # 0 /\ i - 1 = k /\ k \in 0 .. k
        BY <3>1
      <4> QED BY <2>2, <2>3, <3>1, <4>1
    <3>2. CASE i # k + 1 /\ i # 0
      <4>1. i \in 0 .. k /\ i - 1 \in 0 .. k
        BY <3>2
      <4>2. c[i] = B(c[i - 1], i)
        BY <2>1, <3>2, <4>1
      <4> QED BY <2>3, <3>2, <4>1, <4>2
    <3>3. CASE i = 0
      BY <2>1, <2>3, <3>3
    <3> QED BY <3>1, <3>2, <3>3
  <2>5. Upto(k + 1, h)
    BY <2>2, <2>4
  <2>6. k + 1 \in Nat
    OBVIOUS
  <2> QED BY <2>5, <2>6
<1>5. \E c : Upto(Len(ncs), c)
  <2>1. Nat \subseteq S
    <3> HIDE DEF S
    <3> QED BY <1>3, <1>4, NatInductive
  <2> QED BY <2>1
<1>6. Upto(Len(ncs), f)
  <2>1. \E h : CondsRounds(a, ncs, base, h)
    BY <1>2, <1>5
  <2>2. CondsRounds(a, ncs, base, f)
    BY <2>1, Zenon DEF CondsRun
  <2> QED BY <1>2, <2>2
<1>7. f[0] = base
  BY <1>6
<1>8. ASSUME NEW i \in Nat, i < Len(ncs)
      PROVE  f[i + 1] = AddNameWithConditions(a, f[i], ncs[i + 1])
  <2>1. i + 1 \in 0 .. Len(ncs) /\ i + 1 # 0 /\ (i + 1) - 1 = i
    BY <1>8
  <2>2. f[i + 1] = B(f[(i + 1) - 1], i + 1)
    BY <1>6, <2>1
  <2> QED BY <1>1, <2>1, <2>2
<1> QED BY <1>7, <1>8

(* What every round keeps holds in the end: toSyscallsWithConditions finds *)
(* problems in the invalid groups and in no other ones.                    *)
LEMMA GroupOK ==
  ASSUME NEW g, Proper(g)
  PROVE  AccOK(g, ToSyscallsWithConditions(arch, g), Len(g.names), Len(g.namesWithConditions))
<1> DEFINE N == Len(g.names)
           M == Len(g.namesWithConditions)
<1>1. /\ N \in Nat /\ DOMAIN g.names = 1 .. N
      /\ M \in Nat /\ DOMAIN g.namesWithConditions = 1 .. M
  BY DEF Proper
<1>2. PICK f : f = NamesRun(arch, g.names)
  OBVIOUS
<1>3. PICK h : h = CondsRun(arch, g.namesWithConditions, f[N])
  OBVIOUS
<1>4. ToSyscallsWithConditions(arch, g) = h[M]
  BY <1>2, <1>3, LoopsAre, Zenon
<1>5. /\ f[0] = Nothing
      /\ \A i \in Nat : i < N => f[i + 1] = AddName(arch, f[i], g.names[i + 1])
  BY <1>1, <1>2, NamesLoop
<1>6. /\ h[0] = f[N]
      /\ \A i \in Nat : i < M =>
           h[i + 1] = AddNameWithConditions(arch, h[i], g.namesWithConditions[i + 1])
  BY <1>1, <1>3, CondsLoop
<1>7. AccOK(g, f[N], N, 0)
  <2> DEFINE S == {i \in Nat : i <= N => AccOK(g, f[i], i, 0) /\ AllPlain(f[i].syscalls)}
  <2>1. 0 \in S
    <3>1. Nothing \in Accs(g) /\ Nothing.syscalls = <<>> /\ Nothing.problems = 0
      BY DEF Nothing, Accs
    <3>2. OneEach(Nothing.syscalls) /\ PlainNamed(g, Nothing.syscalls, 0)
          /\ AllPlain(Nothing.syscalls)
      BY <3>1 DEF OneEach, PlainNamed, AllPlain
    <3>3. NamesGood(g, Nothing.syscalls, 0)
      BY DEF NamesGood
    <3>4. \A m \in 1 .. 0 : CondGood(g, 0, g.namesWithConditions[m])
      OBVIOUS
    <3>5. AccOK(g, Nothing, 0, 0)
      BY <3>1, <3>2, <3>3, <3>4, Zenon DEF AccOK
    <3> QED BY <1>5, <3>2, <3>5
  <2>2. ASSUME NEW i \in Nat, i \in S
        PROVE  i + 1 \in S
    <3>1. CASE i + 1 <= N
      <4>1. i < N /\ i + 1 \in DOMAIN g.names
        BY <1>1, <3>1
      <4>2. AccOK(g, f[i], i, 0) /\ AllPlain(f[i].syscalls)
        BY <1>1, <2>2, <4>1
      <4>3. f[i + 1] = AddName(arch, f[i], g.names[i + 1])
        BY <1>5, <4>1
      <4>4. AccOK(g, f[i + 1], i + 1, 0) /\ AllPlain(f[i + 1].syscalls)
        <5>1. PICK x : x = f[i]
          OBVIOUS
        <5> QED BY <4>1, <4>2, <4>3, <5>1, AddNameOK, Zenon
      <4> QED BY <4>4
    <3>2. CASE ~(i + 1 <= N)
      BY <3>2
    <3> QED BY <3>1, <3>2
  <2>3. Nat \subseteq S
    <3> HIDE DEF S
    <3> QED BY <2>1, <2>2, NatInductive
  <2> QED BY <1>1, <2>3
<1>8. AccOK(g, h[M], N, M)
  <2> DEFINE S == {i \in Nat : i <= M => AccOK(g, h[i], N, i)}
  <2>1. 0 \in S
    BY <1>6, <1>7
  <2>2. ASSUME NEW i \in Nat, i \in S
        PROVE  i + 1 \in S
    <3>1. CASE i + 1 <= M
      <4>1. i < M /\ i + 1 \in DOMAIN g.namesWithConditions
        BY <1>1, <3>1
      <4>2. AccOK(g, h[i], N, i)
        BY <1>1, <2>2, <4>1
      <4>3. h[i + 1] = AddNameWithConditions(arch, h[i], g.namesWithConditions[i + 1])
        BY <1>6, <4>1
      <4>4. AccOK(g, h[i + 1], N, i + 1)
        BY <4>1, <4>2, <4>3, AddNameWithConditionsOK, Zenon
      <4> QED BY <4>4
    <3>2. CASE ~(i + 1 <= M)
      BY <3>2
    <3> QED BY <3>1, <3>2
  <2>3. Nat \subseteq S
    <3> HIDE DEF S
    <3> QED BY <2>1, <2>2, NatInductive
  <2> QED BY <1>1, <2>3
<1> QED BY <1>4, <1>8, Zenon

LEMMA ProblemsAreInvalid ==
  ASSUME NEW g, Proper(g)
  PROVE  /\ ToSyscallsWithConditions(arch, g).problems \in Nat
         /\ ToSyscallsWithConditions(arch, g).problems = 0 <=> ~InvalidGroup(g)
<1> DEFINE acc == ToSyscallsWithConditions(arch, g)
           names == g.names
           ncs == g.namesWithConditions
<1>1. AccOK(g, acc, Len(names), Len(ncs))
  BY GroupOK
<1> HIDE DEF acc
<1>2. acc.problems \in Nat
  BY <1>1 DEF AccOK, Accs
<1>3. acc.problems # 0 => InvalidGroup(g)
  BY <1>1 DEF AccOK
<1>4. ASSUME acc.problems = 0
      PROVE  ~InvalidGroup(g)
  <2>1. /\ DOMAIN names = 1 .. Len(names) /\ DOMAIN ncs = 1 .. Len(ncs)
        /\ \A c \in Range(ncs) : \A x \in Range(c.conditions) : x.argument \in Nat
    BY DEF Proper
  <2>2. /\ NamesGood(g, acc.syscalls, Len(names))
        /\ \A m \in DOMAIN ncs : CondGood(g, Len(names), ncs[m])
    BY <1>1, <1>4, <2>1 DEF AccOK
  <2>3. ~ \E i \in DOMAIN names : names[i] \notin Known
    BY <2>1, <2>2 DEF NamesGood
  <2>4. ~ \E i \in DOMAIN ncs : ncs[i].name \notin Known
    BY <2>2 DEF CondGood
  <2>5. ~ \E i, j \in DOMAIN names : i # j /\ names[i] = names[j]
    BY <2>1, <2>2 DEF NamesGood
  <2>6. ~ \E i \in DOMAIN names, j \in DOMAIN ncs : names[i] = ncs[j].name
    BY <2>1, <2>2 DEF CondGood
  <2>7. ~ \E j \in DOMAIN ncs : \E k \in DOMAIN ncs[j].conditions :
            ncs[j].conditions[k].argument > 5
    <3> SUFFICES ASSUME NEW j \in DOMAIN ncs, NEW k \in DOMAIN ncs[j].conditions
                 PROVE  ~(ncs[j].conditions[k].argument > 5)
      OBVIOUS
    <3>1. ncs[j].conditions[k].argument \in 0 .. 5
      BY <2>2 DEF CondGood, InvalidArguments
    <3> QED BY <3>1
  <2> QED BY <2>3, <2>4, <2>5, <2>6, <2>7, Zenon DEF InvalidGroup, Known
<1> QED BY <1>2, <1>3, <1>4 DEF acc

-----------------------------------------------------------------------------
(* Policy.Assemble.                                                        *)

(* The loop over the groups has looked at those in front of pos and found  *)
(* nothing wrong; behind the loop there is nothing wrong with any.         *)
ValidInv ==
  /\ policy \in Policies /\ arch \in Arches /\ pos \in Nat \ {0}
  /\ stage \in {"validate", "groups", "resolve", "done", "error"}
  /\ stage = "validate" => pos = 1
  /\ stage = "groups" =>
       /\ policy.default \in ActionNames /\ policy.groups # <<>> /\ Supported(arch)
       /\ \A i \in DOMAIN policy.groups : i < pos => ~InvalidGroup(policy.groups[i])
  /\ stage \in {"resolve", "done"} => ~Malformed

LEMMA GroupsProper ==
  ASSUME ValidInv, NEW i \in DOMAIN policy.groups
  PROVE  Proper(policy.groups[i])
<1>1. policy.groups[i] \in Range(policy.groups)
  BY DEF Range
<1> QED BY <1>1, PoliciesAssumption, ArchesAssumption DEF ValidInv, Proper, Known

LEMMA EmptyIsValid ==
  ASSUME NEW g, EmptyGroup(g)
  PROVE  ~InvalidGroup(g)
BY DEF EmptyGroup, InvalidGroup

(* A group is added only when it is valid, and one that is refused is not. *)
LEMMA AddGroupFacts ==
  ASSUME ValidInv, AddGroup
  PROVE  /\ stage = "groups" /\ pos \in DOMAIN policy.groups /\ UNCHANGED <<policy, arch>>
         /\ \/ stage' = "error" /\ pos' = pos /\ InvalidGroup(policy.groups[pos])
            \/ stage' = "groups" /\ pos' = pos + 1 /\ ~InvalidGroup(policy.groups[pos])
<1> DEFINE group == policy.groups[pos]
           found == ToSyscallsWithConditions(arch, group)
<1>1. policy.groups \in Seq(Range(policy.groups)) /\ pos \in Nat \ {0}
  BY PoliciesAssumption DEF ValidInv
<1>2. stage = "groups" /\ pos \in DOMAIN policy.groups
  BY <1>1 DEF AddGroup
<1>3. Proper(group)
  BY <1>2, GroupsProper
<1>4. found.problems \in Nat /\ (found.problems = 0 <=> ~InvalidGroup(group))
  BY <1>3, ProblemsAreInvalid
<1>5. EmptyGroup(group) => ~InvalidGroup(group)
  BY EmptyIsValid
<1>6. \/ ~EmptyGroup(group) /\ found.problems > 0 /\ Reject
      \/ /\ EmptyGroup(group) \/ ~(found.problems > 0)
         /\ pos' = pos + 1 /\ UNCHANGED <<policy, arch, stage>>
  BY Zenon DEF AddGroup
<1> HIDE DEF found, group
<1>7. CASE ~EmptyGroup(group) /\ found.problems > 0 /\ Reject
  <2>1. InvalidGroup(group)
    BY <1>4, <1>7
  <2> QED BY <1>2, <1>7, <2>1 DEF Reject, group
<1>8. CASE /\ EmptyGroup(group) \/ ~(found.problems > 0)
           /\ pos' = pos + 1 /\ UNCHANGED <<policy, arch, stage>>
  <2>1. ~InvalidGroup(group)
    BY <1>4, <1>5, <1>8
  <2> QED BY <1>2, <1>8, <2>1 DEF group
<1> QED BY <1>6, <1>7, <1>8

(* InvalidGroup looks at its group and at the architecture only.           *)
LEMMA InvalidKept ==
  ASSUME UNCHANGED <<policy, arch>>
  PROVE  /\ Malformed' = Malformed
         /\ \A i : InvalidGroup(policy.groups[i])' = InvalidGroup(policy.groups[i])
BY DEF Malformed, InvalidGroup, Supported

LEMMA InitValid == Init => ValidInv
BY DEF Init, ValidInv

LEMMA NextValid == ValidInv /\ [Next]_vars => ValidInv'
<1> SUFFICES ASSUME ValidInv, [Next]_vars
             PROVE  ValidInv'
  OBVIOUS
<1>1. /\ policy.groups \in Seq(Range(policy.groups)) /\ pos \in Nat \ {0}
      /\ policy \in Policies /\ arch \in Arches
      /\ DOMAIN policy.groups = 1 .. Len(policy.groups)
  BY PoliciesAssumption DEF ValidInv
<1>2. ASSUME UNCHANGED <<policy, arch>>, pos' \in Nat \ {0}, stage' = "error"
      PROVE  ValidInv'
  BY <1>1, <1>2 DEF ValidInv
<1>3. CASE Validate
  <2>1. CASE stage' = "error" /\ UNCHANGED <<policy, arch, pos>>
    BY <1>1, <1>2, <2>1
  <2>2. CASE /\ policy.default \in ActionNames /\ policy.groups # <<>> /\ Supported(arch)
             /\ stage' = "groups" /\ UNCHANGED <<policy, arch, pos>>
    <3>1. pos = 1
      BY <1>3 DEF Validate, ValidInv
    <3>2. \A i \in DOMAIN policy.groups : ~(i < pos')
      BY <1>1, <2>2, <3>1
    <3> QED BY <1>1, <2>2, <3>2 DEF ValidInv, Supported
  <2> QED BY <1>3, <2>1, <2>2, Zenon DEF Validate, Reject
<1>4. CASE AddGroup
  <2>1. /\ stage = "groups" /\ pos \in DOMAIN policy.groups /\ UNCHANGED <<policy, arch>>
        /\ \/ stage' = "error" /\ pos' = pos
           \/ stage' = "groups" /\ pos' = pos + 1 /\ ~InvalidGroup(policy.groups[pos])
    BY <1>4, AddGroupFacts
  <2>2. CASE stage' = "error" /\ pos' = pos
    BY <1>1, <1>2, <2>1, <2>2
  <2>3. CASE stage' = "groups" /\ pos' = pos + 1 /\ ~InvalidGroup(policy.groups[pos])
    <3>1. /\ policy.default \in ActionNames /\ policy.groups # <<>> /\ Supported(arch)
          /\ \A i \in DOMAIN policy.groups : i < pos => ~InvalidGroup(policy.groups[i])
      BY <2>1 DEF ValidInv
    <3>2. \A i \in DOMAIN policy.groups : i < pos' => ~InvalidGroup(policy.groups[i])
      <4> TAKE i \in DOMAIN policy.groups
      <4>1. i < pos' => i < pos \/ i = pos
        BY <1>1, <2>3
      <4> QED BY <2>3, <3>1, <4>1
    <3>3. \A i \in DOMAIN policy'.groups : i < pos' => ~InvalidGroup(policy.groups[i])'
      BY <2>1, <3>2, InvalidKept
    <3> QED BY <1>1, <2>1, <2>3, <3>1, <3>3 DEF ValidInv, Supported
  <2> QED BY <2>1, <2>2, <2>3
<1>5. CASE AddDefault
  <2>1. /\ stage = "groups" /\ pos > Len(policy.groups) /\ stage' = "resolve" /\ pos' = 1
        /\ UNCHANGED <<policy, arch>>
    BY <1>5 DEF AddDefault
  <2>2. /\ policy.default \in ActionNames /\ policy.groups # <<>> /\ Supported(arch)
        /\ \A i \in DOMAIN policy.groups : ~InvalidGroup(policy.groups[i])
    BY <1>1, <2>1 DEF ValidInv
  <2>3. ~Malformed
    BY <2>2 DEF Malformed
  <2>4. ~Malformed'
    BY <2>1, <2>3, InvalidKept
  <2> QED BY <1>1, <2>1, <2>4 DEF ValidInv
<1>6. CASE stage = "resolve" /\ stage' \in {"resolve", "done"} /\ pos' \in Nat \ {0}
           /\ UNCHANGED <<policy, arch>>
  <2>1. ~Malformed'
    BY <1>6, InvalidKept DEF ValidInv
  <2> QED BY <1>1, <1>6, <2>1 DEF ValidInv
<1>7. CASE Resolve
  <2>1. stage = "resolve" /\ UNCHANGED <<policy, arch>>
    BY <1>7 DEF Resolve, Reject
  <2>2. \/ stage' = "error" /\ pos' = pos
        \/ stage' = "resolve" /\ pos' = pos + 1
    BY <1>7, <2>1, Zenon DEF Resolve, Reject
  <2> QED BY <1>1, <1>2, <1>6, <2>1, <2>2
<1>8. CASE Finish
  BY <1>1, <1>6, <1>8 DEF Finish
<1>9. CASE UNCHANGED vars
  <2>1. UNCHANGED <<policy, arch, stage, pos>>
    BY <1>9 DEF vars
  <2>2. Malformed' = Malformed
    BY <2>1, InvalidKept
  <2>3. \A i : InvalidGroup(policy.groups[i])' = InvalidGroup(policy.groups[i])
    BY <2>1, InvalidKept
  <2> QED BY <2>1, <2>2, <2>3 DEF ValidInv, Supported
<1> QED BY <1>3, <1>4, <1>5, <1>7, <1>8, <1>9, Zenon DEF Next, Returned
-----------------------------------------------------------------------------
(* Loops over programs.  A round takes programs of a set to programs of    *)
(* that set; so does the loop.                                             *)

Rolls(c, S, n, base, step) ==
  /\ c \in [0 .. n -> S] /\ c[0] = base
  /\ \A i \in 1 .. n : c[i] = step[i][c[i - 1]]

LEMMA LoopExists ==
  ASSUME NEW S, NEW n \in Nat, NEW base \in S, NEW step \in [1 .. n -> [S -> S]]
  PROVE  \E c : Rolls(c, S, n, base, step)
<1> DEFINE Upto(k, c) == /\ c \in [0 .. k -> S] /\ c[0] = base
                         /\ \A i \in 1 .. k : c[i] = step[i][c[i - 1]]
           T == {k \in Nat : k <= n => \E c : Upto(k, c)}
<1>1. 0 \in T
  <2>1. PICK c : c = [i \in 0 .. 0 |-> base]
    OBVIOUS
  <2>2. Upto(0, c)
    BY <2>1
  <2> QED BY <2>2
<1>2. ASSUME NEW k \in Nat, k \in T
      PROVE  k + 1 \in T
  <2>1. CASE ~(k + 1 <= n)
    BY <2>1
  <2>2. CASE k + 1 <= n
    <3>1. PICK c : Upto(k, c)
      BY <1>2, <2>2
    <3>2. c[k] \in S /\ k + 1 \in 1 .. n
      BY <2>2, <3>1
    <3>3. step[k + 1][c[k]] \in S
      BY <3>2
    <3>4. PICK y \in S : y = step[k + 1][c[k]]
      BY <3>3
    <3>5. PICK h : h = [i \in 0 .. (k + 1) |-> IF i = k + 1 THEN y ELSE c[i]]
      OBVIOUS
    <3>6. h[k + 1] = y /\ \A i \in 0 .. k : h[i] = c[i]
      BY <3>5
    <3>7. h \in [0 .. (k + 1) -> S]
      <4>1. \A i \in 0 .. (k + 1) : i # k + 1 => c[i] \in S
        BY <3>1
      <4> QED BY <3>5, <4>1
    <3>8. \A i \in 1 .. (k + 1) : h[i] = step[i][h[i - 1]]
      <4> TAKE i \in 1 .. (k + 1)
      <4>1. CASE i = k + 1
        <5>1. i - 1 = k /\ k \in 0 .. k
          BY <4>1
        <5> QED BY <3>4, <3>6, <4>1, <5>1
      <4>2. CASE i # k + 1
        <5>1. i \in 1 .. k /\ i \in 0 .. k /\ i - 1 \in 0 .. k
          BY <4>2
        <5> QED BY <3>1, <3>6, <5>1
      <4> QED BY <4>1, <4>2
    <3>9. h[0] = base
      BY <3>1, <3>6
    <3>10. Upto(k + 1, h)
      BY <3>7, <3>8, <3>9
    <3> QED BY <3>10
  <2> QED BY <2>1, <2>2
<1>3. Nat \subseteq T
  <2> HIDE DEF T
  <2> QED BY <1>1, <1>2, NatInductive
<1>4. PICK c : Upto(n, c)
  BY <1>3
<1>5. Rolls(c, S, n, base, step)
  BY <1>4 DEF Rolls
<1> QED BY <1>5

LEMMA LoopStays ==
  ASSUME NEW S, NEW n \in Nat, NEW f, f[0] \in S, \A i \in 1 .. n : f[i - 1] \in S => f[i] \in S
  PROVE  f[n] \in S
<1> DEFINE T == {k \in Nat : k <= n => f[k] \in S}
<1>1. 0 \in T
  OBVIOUS
<1>2. ASSUME NEW k \in Nat, k \in T
      PROVE  k + 1 \in T
  <2>1. CASE ~(k + 1 <= n)
    BY <2>1
  <2>2. CASE k + 1 <= n
    <3>1. k + 1 \in 1 .. n /\ (k + 1) - 1 = k /\ f[k] \in S
      BY <1>2, <2>2
    <3> QED BY <3>1
  <2> QED BY <2>1, <2>2
<1>3. Nat \subseteq T
  <2> HIDE DEF T
  <2> QED BY <1>1, <1>2, NatInductive
<1> QED BY <1>3

(* The programs in which the labels of L are to be set.                    *)
Programs(L) == {p \in ProgramType : Placed(p, L)}

LEMMA ProgramsPlaced ==
  ASSUME NEW L, NEW p
  PROVE  p \in Programs(L) <=> Placed(p, L)
BY DEF Programs, Placed, WellFormed

(* run[i] is what i rounds leave: what ForEach makes of the rounds of the  *)
(* four loops.                                                             *)
TestsRounds(base, c, tests, t, f, run) ==
  run = [i \in 0 .. Len(tests) |->
          IF i = 0 THEN base
          ELSE CHOOSE r \in {TestHigh(q, c, tests[i], t, f) : q \in {run[i - 1]}} : TRUE]

ConditionsRounds(base, conditions, t, f, run) ==
  run = [i \in 0 .. Len(conditions) |->
          IF i = 0 THEN base
          ELSE CHOOSE r \in {AddCondition(q, conditions, i, t, f) : q \in {run[i - 1]}} : TRUE]

SetsRounds(base, sets, t, f, run) ==
  run = [i \in 0 .. Len(sets) |->
          IF i = 0 THEN base
          ELSE CHOOSE r \in {AddConditionSet(q, sets, i, t, f) : q \in {run[i - 1]}} : TRUE]

SyscallsRounds(base, syscalls, t, f, run) ==
  run = [i \in 0 .. Len(syscalls) |->
          IF i = 0 THEN base
          ELSE CHOOSE r \in {AssembleSyscall(q, syscalls[i], i < Len(syscalls), t, f) :
                              q \in {run[i - 1]}} : TRUE]

TestsRun(base, c, tests, t, f) == CHOOSE run : TestsRounds(base, c, tests, t, f, run)
ConditionsRun(base, conditions, t, f) == CHOOSE run : ConditionsRounds(base, conditions, t, f, run)
SetsRun(base, sets, t, f) == CHOOSE run : SetsRounds(base, sets, t, f, run)
SyscallsRun(base, syscalls, t, f) == CHOOSE run : SyscallsRounds(base, syscalls, t, f, run)

LEMMA TestsLoop ==
  ASSUME NEW base, NEW c, NEW tests, NEW t, NEW f, NEW L, Len(tests) \in Nat, Placed(base, L),
         \A x \in Programs(L), i \in 1 .. Len(tests) : Placed(TestHigh(x, c, tests[i], t, f), L)
  PROVE  Placed(TestsRun(base, c, tests, t, f)[Len(tests)], L)
<1> DEFINE n == Len(tests)
           S == Programs(L)
           Round(x, i) == TestHigh(x, c, tests[i], t, f)
           B(x, i) == CHOOSE r \in {TestHigh(q, c, tests[i], t, f) : q \in {x}} : TRUE
<1>1. \A x, i : B(x, i) = Round(x, i)
  <2> TAKE x, i
  <2>1. {TestHigh(q, c, tests[i], t, f) : q \in {x}} = {Round(x, i)}
    BY Zenon
  <2> QED BY <2>1, ChooseOne, Zenon
<1>2. \A h : TestsRounds(base, c, tests, t, f, h) <=>
        h = [i \in 0 .. n |-> IF i = 0 THEN base ELSE B(h[i - 1], i)]
  BY Zenon DEF TestsRounds
<1>3. base \in S /\ \A x \in S, i \in 1 .. n : Round(x, i) \in S
  BY ProgramsPlaced
<1> HIDE DEF B, Round, S, n
<1>4. n \in Nat
  BY DEF n
<1>5. \E h : TestsRounds(base, c, tests, t, f, h)
  <2>1. PICK step : step = [i \in 1 .. n |-> [x \in S |-> Round(x, i)]]
    OBVIOUS
  <2>2. step \in [1 .. n -> [S -> S]] /\ \A i \in 1 .. n : \A x \in S : step[i][x] = Round(x, i)
    BY <1>3, <2>1
  <2>3. PICK h : Rolls(h, S, n, base, step)
    <3>1. base \in S /\ step \in [1 .. n -> [S -> S]]
      BY <1>3, <2>2
    <3> QED BY <1>4, <3>1, LoopExists, Zenon
  <2>4. \A i \in 1 .. n : h[i] = B(h[i - 1], i)
    <3> TAKE i \in 1 .. n
    <3>1. h[i - 1] \in S /\ h[i] = step[i][h[i - 1]]
      BY <1>4, <2>3 DEF Rolls
    <3> QED BY <1>1, <2>2, <3>1
  <2>5. \A i \in 0 .. n : h[i] = IF i = 0 THEN base ELSE B(h[i - 1], i)
    BY <1>4, <2>3, <2>4 DEF Rolls
  <2>6. h = [i \in 0 .. n |-> IF i = 0 THEN base ELSE B(h[i - 1], i)]
    BY <2>3, <2>5 DEF Rolls
  <2> QED BY <1>2, <2>6
<1>6. PICK h : h = TestsRun(base, c, tests, t, f)
  OBVIOUS
<1>7. h = [i \in 0 .. n |-> IF i = 0 THEN base ELSE B(h[i - 1], i)]
  <2>1. TestsRounds(base, c, tests, t, f, h)
    BY <1>5, <1>6, Zenon DEF TestsRun
  <2> QED BY <1>2, <2>1
<1>8. h[0] = base /\ \A i \in 1 .. n : h[i] = Round(h[i - 1], i)
  <2>1. h[0] = base
    BY <1>4, <1>7
  <2>2. \A i \in 1 .. n : h[i] = B(h[i - 1], i)
    BY <1>4, <1>7
  <2> QED BY <1>1, <2>1, <2>2
<1>9. h[n] \in S
  <2>1. h[0] \in S
    BY <1>3, <1>8
  <2>2. \A i \in 1 .. n : h[i - 1] \in S => h[i] \in S
    BY <1>3, <1>8
  <2> QED BY <1>4, <2>1, <2>2, LoopStays
<1> QED BY <1>6, <1>9, ProgramsPlaced DEF n, S

LEMMA ConditionsLoop ==
  ASSUME NEW base, NEW conditions, NEW t, NEW f, NEW L, Len(conditions) \in Nat, Placed(base, L),
         \A x \in Programs(L), i \in 1 .. Len(conditions) :
           Placed(AddCondition(x, conditions, i, t, f), L)
  PROVE  Placed(ConditionsRun(base, conditions, t, f)[Len(conditions)], L)
<1> DEFINE n == Len(conditions)
           S == Programs(L)
           Round(x, i) == AddCondition(x, conditions, i, t, f)
           B(x, i) == CHOOSE r \in {AddCondition(q, conditions, i, t, f) : q \in {x}} : TRUE
<1>1. \A x, i : B(x, i) = Round(x, i)
  <2> TAKE x, i
  <2>1. {AddCondition(q, conditions, i, t, f) : q \in {x}} = {Round(x, i)}
    BY Zenon
  <2> QED BY <2>1, ChooseOne, Zenon
<1>2. \A h : ConditionsRounds(base, conditions, t, f, h) <=>
        h = [i \in 0 .. n |-> IF i = 0 THEN base ELSE B(h[i - 1], i)]
  BY Zenon DEF ConditionsRounds
<1>3. base \in S /\ \A x \in S, i \in 1 .. n : Round(x, i) \in S
  BY ProgramsPlaced
<1> HIDE DEF B, Round, S, n
<1>4. n \in Nat
  BY DEF n
<1>5. \E h : ConditionsRounds(base, conditions, t, f, h)
  <2>1. PICK step : step = [i \in 1 .. n |-> [x \in S |-> Round(x, i)]]
    OBVIOUS
  <2>2. step \in [1 .. n -> [S -> S]] /\ \A i \in 1 .. n : \A x \in S : step[i][x] = Round(x, i)
    BY <1>3, <2>1
  <2>3. PICK h : Rolls(h, S, n, base, step)
    <3>1. base \in S /\ step \in [1 .. n -> [S -> S]]
      BY <1>3, <2>2
    <3> QED BY <1>4, <3>1, LoopExists, Zenon
  <2>4. \A i \in 1 .. n : h[i] = B(h[i - 1], i)
    <3> TAKE i \in 1 .. n
    <3>1. h[i - 1] \in S /\ h[i] = step[i][h[i - 1]]
      BY <1>4, <2>3 DEF Rolls
    <3> QED BY <1>1, <2>2, <3>1
  <2>5. \A i \in 0 .. n : h[i] = IF i = 0 THEN base ELSE B(h[i - 1], i)
    BY <1>4, <2>3, <2>4 DEF Rolls
  <2>6. h = [i \in 0 .. n |-> IF i = 0 THEN base ELSE B(h[i - 1], i)]
    BY <2>3, <2>5 DEF Rolls
  <2> QED BY <1>2, <2>6
<1>6. PICK h : h = ConditionsRun(base, conditions, t, f)
  OBVIOUS
<1>7. h = [i \in 0 .. n |-> IF i = 0 THEN base ELSE B(h[i - 1], i)]
  <2>1. ConditionsRounds(base, conditions, t, f, h)
    BY <1>5, <1>6, Zenon DEF ConditionsRun
  <2> QED BY <1>2, <2>1
<1>8. h[0] = base /\ \A i \in 1 .. n : h[i] = Round(h[i - 1], i)
  <2>1. h[0] = base
    BY <1>4, <1>7
  <2>2. \A i \in 1 .. n : h[i] = B(h[i - 1], i)
    BY <1>4, <1>7
  <2> QED BY <1>1, <2>1, <2>2
<1>9. h[n] \in S
  <2>1. h[0] \in S
    BY <1>3, <1>8
  <2>2. \A i \in 1 .. n : h[i - 1] \in S => h[i] \in S
    BY <1>3, <1>8
  <2> QED BY <1>4, <2>1, <2>2, LoopStays
<1> QED BY <1>6, <1>9, ProgramsPlaced DEF n, S

LEMMA SetsLoop ==
  ASSUME NEW base, NEW sets, NEW t, NEW f, NEW L, Len(sets) \in Nat, Placed(base, L),
         \A x \in Programs(L), i \in 1 .. Len(sets) :
           Placed(AddConditionSet(x, sets, i, t, f), L)
  PROVE  Placed(SetsRun(base, sets, t, f)[Len(sets)], L)
<1> DEFINE n == Len(sets)
           S == Programs(L)
           Round(x, i) == AddConditionSet(x, sets, i, t, f)
           B(x, i) == CHOOSE r \in {AddConditionSet(q, sets, i, t, f) : q \in {x}} : TRUE
<1>1. \A x, i : B(x, i) = Round(x, i)
  <2> TAKE x, i
  <2>1. {AddConditionSet(q, sets, i, t, f) : q \in {x}} = {Round(x, i)}
    BY Zenon
  <2> QED BY <2>1, ChooseOne, Zenon
<1>2. \A h : SetsRounds(base, sets, t, f, h) <=>
        h = [i \in 0 .. n |-> IF i = 0 THEN base ELSE B(h[i - 1], i)]
  BY Zenon DEF SetsRounds
<1>3. base \in S /\ \A x \in S, i \in 1 .. n : Round(x, i) \in S
  BY ProgramsPlaced
<1> HIDE DEF B, Round, S, n
<1>4. n \in Nat
  BY DEF n
<1>5. \E h : SetsRounds(base, sets, t, f, h)
  <2>1. PICK step : step = [i \in 1 .. n |-> [x \in S |-> Round(x, i)]]
    OBVIOUS
  <2>2. step \in [1 .. n -> [S -> S]] /\ \A i \in 1 .. n : \A x \in S : step[i][x] = Round(x, i)
    BY <1>3, <2>1
  <2>3. PICK h : Rolls(h, S, n, base, step)
    <3>1. base \in S /\ step \in [1 .. n -> [S -> S]]
      BY <1>3, <2>2
    <3> QED BY <1>4, <3>1, LoopExists, Zenon
  <2>4. \A i \in 1 .. n : h[i] = B(h[i - 1], i)
    <3> TAKE i \in 1 .. n
    <3>1. h[i - 1] \in S /\ h[i] = step[i][h[i - 1]]
      BY <1>4, <2>3 DEF Rolls
    <3> QED BY <1>1, <2>2, <3>1
  <2>5. \A i \in 0 .. n : h[i] = IF i = 0 THEN base ELSE B(h[i - 1], i)
    BY <1>4, <2>3, <2>4 DEF Rolls
  <2>6. h = [i \in 0 .. n |-> IF i = 0 THEN base ELSE B(h[i - 1], i)]
    BY <2>3, <2>5 DEF Rolls
  <2> QED BY <1>2, <2>6
<1>6. PICK h : h = SetsRun(base, sets, t, f)
  OBVIOUS
<1>7. h = [i \in 0 .. n |-> IF i = 0 THEN base ELSE B(h[i - 1], i)]
  <2>1. SetsRounds(base, sets, t, f, h)
    BY <1>5, <1>6, Zenon DEF SetsRun
  <2> QED BY <1>2, <2>1
<1>8. h[0] = base /\ \A i \in 1 .. n : h[i] = Round(h[i - 1], i)
  <2>1. h[0] = base
    BY <1>4, <1>7
  <2>2. \A i \in 1 .. n : h[i] = B(h[i - 1], i)
    BY <1>4, <1>7
  <2> QED BY <1>1, <2>1, <2>2
<1>9. h[n] \in S
  <2>1. h[0] \in S
    BY <1>3, <1>8
  <2>2. \A i \in 1 .. n : h[i - 1] \in S => h[i] \in S
    BY <1>3, <1>8
  <2> QED BY <1>4, <2>1, <2>2, LoopStays
<1> QED BY <1>6, <1>9, ProgramsPlaced DEF n, S

LEMMA SyscallsLoop ==
  ASSUME NEW base, NEW syscalls, NEW t, NEW f, NEW L, Len(syscalls) \in Nat, Placed(base, L),
         \A x \in Programs(L), i \in 1 .. Len(syscalls) :
           Placed(AssembleSyscall(x, syscalls[i], i < Len(syscalls), t, f), L)
  PROVE  Placed(SyscallsRun(base, syscalls, t, f)[Len(syscalls)], L)
<1> DEFINE n == Len(syscalls)
           S == Programs(L)
           Round(x, i) == AssembleSyscall(x, syscalls[i], i < Len(syscalls), t, f)
           B(x, i) == CHOOSE r \in {AssembleSyscall(q, syscalls[i], i < Len(syscalls), t, f) : q \in {x}} : TRUE
<1>1. \A x, i : B(x, i) = Round(x, i)
  <2> TAKE x, i
  <2>1. {AssembleSyscall(q, syscalls[i], i < Len(syscalls), t, f) : q \in {x}} = {Round(x, i)}
    BY Zenon
  <2> QED BY <2>1, ChooseOne, Zenon
<1>2. \A h : SyscallsRounds(base, syscalls, t, f, h) <=>
        h = [i \in 0 .. n |-> IF i = 0 THEN base ELSE B(h[i - 1], i)]
  BY Zenon DEF SyscallsRounds
<1>3. base \in S /\ \A x \in S, i \in 1 .. n : Round(x, i) \in S
  BY ProgramsPlaced
<1> HIDE DEF B, Round, S, n
<1>4. n \in Nat
  BY DEF n
<1>5. \E h : SyscallsRounds(base, syscalls, t, f, h)
  <2>1. PICK step : step = [i \in 1 .. n |-> [x \in S |-> Round(x, i)]]
    OBVIOUS
  <2>2. step \in [1 .. n -> [S -> S]] /\ \A i \in 1 .. n : \A x \in S : step[i][x] = Round(x, i)
    BY <1>3, <2>1
  <2>3. PICK h : Rolls(h, S, n, base, step)
    <3>1. base \in S /\ step \in [1 .. n -> [S -> S]]
      BY <1>3, <2>2
    <3> QED BY <1>4, <3>1, LoopExists, Zenon
  <2>4. \A i \in 1 .. n : h[i] = B(h[i - 1], i)
    <3> TAKE i \in 1 .. n
    <3>1. h[i - 1] \in S /\ h[i] = step[i][h[i - 1]]
      BY <1>4, <2>3 DEF Rolls
    <3> QED BY <1>1, <2>2, <3>1
  <2>5. \A i \in 0 .. n : h[i] = IF i = 0 THEN base ELSE B(h[i - 1], i)
    BY <1>4, <2>3, <2>4 DEF Rolls
  <2>6. h = [i \in 0 .. n |-> IF i = 0 THEN base ELSE B(h[i - 1], i)]
    BY <2>3, <2>5 DEF Rolls
  <2> QED BY <1>2, <2>6
<1>6. PICK h : h = SyscallsRun(base, syscalls, t, f)
  OBVIOUS
<1>7. h = [i \in 0 .. n |-> IF i = 0 THEN base ELSE B(h[i - 1], i)]
  <2>1. SyscallsRounds(base, syscalls, t, f, h)
    BY <1>5, <1>6, Zenon DEF SyscallsRun
  <2> QED BY <1>2, <2>1
<1>8. h[0] = base /\ \A i \in 1 .. n : h[i] = Round(h[i - 1], i)
  <2>1. h[0] = base
    BY <1>4, <1>7
  <2>2. \A i \in 1 .. n : h[i] = B(h[i - 1], i)
    BY <1>4, <1>7
  <2> QED BY <1>1, <2>1, <2>2
<1>9. h[n] \in S
  <2>1. h[0] \in S
    BY <1>3, <1>8
  <2>2. \A i \in 1 .. n : h[i - 1] \in S => h[i] \in S
    BY <1>3, <1>8
  <2> QED BY <1>4, <2>1, <2>2, LoopStays
<1> QED BY <1>6, <1>9, ProgramsPlaced DEF n, S

-----------------------------------------------------------------------------
(* What the parts of Policy.Assemble do to the labels.                     *)

(* The words of a value.                                                   *)
LEMMA WordsOfValue ==
  ASSUME NEW v \in DoubleWord
  PROVE  Hi(v) \in Word /\ Lo(v) \in Word
<1>1. W \in Nat \ {0}
  BY WAssumption
<1>2. v \in Nat /\ v < W * W
  BY <1>1 DEF DoubleWord
<1> DEFINE w == W
<1>3. w \in Nat \ {0} /\ v < w * w
  BY <1>1, <1>2
<1> HIDE DEF w
<1>4. v % w \in 0 .. (w - 1)
  BY <1>2, <1>3
<1>5. v \div w \in 0 .. (w - 1)
  <2> DEFINE d == v \div w
  <2>1. d \in Nat /\ w * d <= v
    BY <1>2, <1>3
  <2> HIDE DEF d
  <2>2. d < w
    <3> SUFFICES ASSUME d >= w PROVE FALSE
      BY <1>3, <2>1
    <3>1. w * d >= w * w
      BY <1>3, <2>1
    <3> QED BY <1>2, <1>3, <2>1, <3>1
  <2> QED BY <1>3, <2>1, <2>2 DEF d
<1> QED BY <1>4, <1>5 DEF Hi, Lo, Word, w

LEMMA TestsOfOperation ==
  ASSUME NEW operation \in Operations
  PROVE  /\ HighTests(operation) \in Seq([cond : Conds, matches : BOOLEAN])
         /\ LowTest(operation) \in Conds
<1> DEFINE T == [cond : Conds, matches : BOOLEAN]
<1>1. \A c \in Conds : Match(c) \in T /\ NoMatch(c) \in T
  BY DEF Match, NoMatch
<1>2. {"eq", "ne", "gt", "lt", "ge", "le", "set", "nset"} = Conds
  BY DEF Conds
<1>3. LowTest(operation) \in Conds
  BY <1>2 DEF LowTest, Operations
<1>4. /\ Match("ne") \in T /\ NoMatch("ne") \in T /\ Match("gt") \in T /\ Match("lt") \in T
      /\ Match("set") \in T /\ NoMatch("set") \in T
  BY <1>1, <1>2
<1> HIDE DEF T
<1>5. \A x, y \in T : <<x>> \in Seq(T) /\ <<x, y>> \in Seq(T)
  OBVIOUS
<1>6. HighTests(operation) \in {<<NoMatch("ne")>>, <<Match("ne")>>, <<Match("gt"), NoMatch("ne")>>,
                                <<Match("lt"), NoMatch("ne")>>, <<Match("set")>>, <<NoMatch("set")>>}
  BY DEF HighTests, Operations
<1>7. HighTests(operation) \in Seq(T)
  BY <1>4, <1>5, <1>6
<1> QED BY <1>3, <1>7 DEF T

(* A condition of a valid policy, and a sequence of them.                  *)
ConditionOK(c) == c.argument \in 0 .. 5 /\ c.value \in DoubleWord

ConditionsOK(conditions) ==
  /\ Len(conditions) \in Nat
  /\ \A i \in 1 .. Len(conditions) : ConditionOK(conditions[i])

SetsOK(sets) ==
  /\ Len(sets) \in Nat
  /\ \A j \in 1 .. Len(sets) : ConditionsOK(sets[j])

SyscallOK(s) == s.num \in Word /\ SetsOK(s.conditions)

LEMMA AssembleConditionPlaced ==
  ASSUME NEW p, NEW L, Placed(p, L), NEW c, ConditionOK(c), NEW t \in L, NEW f \in L
  PROVE  Placed(AssembleCondition(p, c, t, f), L)
<1> DEFINE tests == HighTests(c.operation)
           high == LdHi(p, c.argument, arch.littleEndian)
           tested == TestsRun(high, c, tests, t, f)[Len(tests)]
           low == LdLo(tested, c.argument, arch.littleEndian)
<1>1. Placed(high, L)
  BY LoadsPlaced DEF ConditionOK
<1>2. Hi(c.value) \in Word /\ Lo(c.value) \in Word
  BY WordsOfValue DEF ConditionOK
<1>3. CASE c.operation \notin Operations
  BY <1>1, <1>3, Zenon DEF AssembleCondition
<1>4. CASE c.operation \in Operations
  <2>1. AssembleCondition(p, c, t, f) = JmpIf(low, LowTest(c.operation), Lo(c.value), t, f)
    BY <1>4, Zenon DEF AssembleCondition, ForEach, TestsRun, TestsRounds
  <2>2. tests \in Seq([cond : Conds, matches : BOOLEAN]) /\ LowTest(c.operation) \in Conds
    BY <1>4, TestsOfOperation
  <2> HIDE DEF high, tests
  <2>3. Len(tests) \in Nat /\ \A i \in 1 .. Len(tests) : tests[i].cond \in Conds
    <3>1. Len(tests) \in Nat /\ \A i \in 1 .. Len(tests) : tests[i] \in [cond : Conds, matches : BOOLEAN]
      BY <2>2, ElementOfSeq, LenProperties
    <3> QED BY <3>1
  <2>4. \A x \in Programs(L), i \in 1 .. Len(tests) : Placed(TestHigh(x, c, tests[i], t, f), L)
    <3> TAKE x \in Programs(L), i \in 1 .. Len(tests)
    <3>1. Placed(x, L) /\ tests[i].cond \in Conds
      BY <2>3, ProgramsPlaced
    <3>2. PICK label \in L : label = IF tests[i].matches THEN t ELSE f
      OBVIOUS
    <3>3. TestHigh(x, c, tests[i], t, f) = JmpIfTrue(x, tests[i].cond, Hi(c.value), label)
      BY <3>2 DEF TestHigh
    <3> QED BY <1>2, <3>1, <3>3, JmpIfTruePlaced
  <2>5. Placed(tested, L)
    BY <1>1, <2>3, <2>4, TestsLoop
  <2> HIDE DEF tested
  <2>6. Placed(low, L)
    BY <2>5, LoadsPlaced DEF ConditionOK
  <2> HIDE DEF low
  <2> QED BY <1>2, <2>1, <2>2, <2>6, JmpIfPlaced
<1> QED BY <1>3, <1>4

(* A round that makes the label behind it, unless it is the last one,      *)
(* hands it to what it calls and sets it.                                  *)
LEMMA NextLabelPlaced ==
  ASSUME NEW p, NEW L, Placed(p, L), NEW more \in BOOLEAN, NEW end \in L
  PROVE  \E M : /\ L \subseteq M /\ NextLabel(p, more, end) \in M
                /\ Placed(WithNextLabel(p, more), M)
                /\ \A q : Placed(q, M) => Placed(SetLabelIf(q, more, NextLabel(p, more, end)), L)
<1>1. CASE ~more
  <2>1. /\ NextLabel(p, more, end) = end /\ WithNextLabel(p, more) = p
        /\ \A q : SetLabelIf(q, more, NextLabel(p, more, end)) = q
    BY <1>1 DEF NextLabel, WithNextLabel, SetLabelIf
  <2> QED BY <2>1
<1>2. CASE more
  <2> DEFINE x == FreshLabel(p)
             M == L \cup {x}
  <2>1. /\ NextLabel(p, more, end) = x /\ WithNextLabel(p, more) = AddLabel(p)
        /\ \A q : SetLabelIf(q, more, NextLabel(p, more, end)) = SetLabel(q, x)
    BY <1>2 DEF NextLabel, WithNextLabel, SetLabelIf
  <2>2. Placed(AddLabel(p), M) /\ x \notin L
    BY AddLabelPlaced
  <2> HIDE DEF x
  <2>3. M \ {x} = L /\ L \subseteq M /\ x \in M
    BY <2>2
  <2> HIDE DEF M
  <2>4. \A q : Placed(q, M) => Placed(SetLabel(q, x), L)
    BY <2>3, SetLabelPlaced
  <2> QED BY <2>1, <2>2, <2>3, <2>4
<1> QED BY <1>1, <1>2

LEMMA AddConditionPlaced ==
  ASSUME NEW p, NEW L, Placed(p, L), NEW conditions, ConditionsOK(conditions),
         NEW i \in 1 .. Len(conditions), NEW t \in L, NEW f \in L
  PROVE  Placed(AddCondition(p, conditions, i, t, f), L)
<1>1. PICK more \in BOOLEAN : more = (i < Len(conditions))
  <2>1. CASE i < Len(conditions)
    <3>1. TRUE = (i < Len(conditions))
      BY <2>1, Zenon
    <3> QED BY <3>1, Zenon
  <2>2. CASE ~(i < Len(conditions))
    <3>1. (i < Len(conditions)) = FALSE
      BY <2>2
    <3> QED BY <3>1
  <2> QED BY <2>1, <2>2, Zenon
<1> DEFINE next == NextLabel(p, more, t)
           q == AssembleCondition(WithNextLabel(p, more), conditions[i], next, f)
<1>2. AddCondition(p, conditions, i, t, f) = SetLabelIf(q, more, next)
  BY <1>1, Zenon DEF AddCondition
<1>3. PICK M : /\ L \subseteq M /\ NextLabel(p, more, t) \in M
               /\ Placed(WithNextLabel(p, more), M)
               /\ \A r : Placed(r, M) => Placed(SetLabelIf(r, more, NextLabel(p, more, t)), L)
  BY NextLabelPlaced
<1>4. Placed(q, M)
  <2>1. f \in M /\ ConditionOK(conditions[i])
    BY <1>3 DEF ConditionsOK
  <2> QED BY <1>3, <2>1, AssembleConditionPlaced
<1> HIDE DEF q
<1> QED BY <1>2, <1>3, <1>4

LEMMA AssembleConditionsPlaced ==
  ASSUME NEW p, NEW L, Placed(p, L), NEW conditions, ConditionsOK(conditions),
         NEW t \in L, NEW f \in L
  PROVE  Placed(AssembleConditions(p, conditions, t, f), L)
<1>1. AssembleConditions(p, conditions, t, f) = ConditionsRun(p, conditions, t, f)[Len(conditions)]
  BY Zenon DEF AssembleConditions, ForEach, ConditionsRun, ConditionsRounds
<1>2. \A x \in Programs(L), i \in 1 .. Len(conditions) :
        Placed(AddCondition(x, conditions, i, t, f), L)
  BY AddConditionPlaced, ProgramsPlaced
<1>3. Len(conditions) \in Nat
  BY DEF ConditionsOK
<1> QED BY <1>1, <1>2, <1>3, ConditionsLoop

LEMMA AddConditionSetPlaced ==
  ASSUME NEW p, NEW L, Placed(p, L), NEW sets, SetsOK(sets),
         NEW j \in 1 .. Len(sets), NEW t \in L, NEW f \in L
  PROVE  Placed(AddConditionSet(p, sets, j, t, f), L)
<1>1. PICK more \in BOOLEAN : more = (j < Len(sets))
  <2>1. CASE j < Len(sets)
    <3>1. TRUE = (j < Len(sets))
      BY <2>1, Zenon
    <3> QED BY <3>1, Zenon
  <2>2. CASE ~(j < Len(sets))
    <3>1. (j < Len(sets)) = FALSE
      BY <2>2
    <3> QED BY <3>1
  <2> QED BY <2>1, <2>2, Zenon
<1> DEFINE next == NextLabel(p, more, f)
           q == AssembleConditions(WithNextLabel(p, more), sets[j], t, next)
<1>2. AddConditionSet(p, sets, j, t, f) = SetLabelIf(q, more, next)
  BY <1>1, Zenon DEF AddConditionSet
<1>3. PICK M : /\ L \subseteq M /\ NextLabel(p, more, f) \in M
               /\ Placed(WithNextLabel(p, more), M)
               /\ \A r : Placed(r, M) => Placed(SetLabelIf(r, more, NextLabel(p, more, f)), L)
  BY NextLabelPlaced
<1>4. Placed(q, M)
  <2>1. t \in M /\ ConditionsOK(sets[j])
    BY <1>3 DEF SetsOK
  <2> QED BY <1>3, <2>1, AssembleConditionsPlaced
<1> HIDE DEF q
<1> QED BY <1>2, <1>3, <1>4

LEMMA AssembleConditionSetsPlaced ==
  ASSUME NEW p, NEW L, Placed(p, L), NEW sets, SetsOK(sets), NEW t \in L, NEW f \in L
  PROVE  Placed(AssembleConditionSets(p, sets, t, f), L)
<1>1. AssembleConditionSets(p, sets, t, f) = SetsRun(p, sets, t, f)[Len(sets)]
  BY Zenon DEF AssembleConditionSets, ForEach, SetsRun, SetsRounds
<1>2. \A x \in Programs(L), i \in 1 .. Len(sets) : Placed(AddConditionSet(x, sets, i, t, f), L)
  BY AddConditionSetPlaced, ProgramsPlaced
<1>3. Len(sets) \in Nat
  BY DEF SetsOK
<1> QED BY <1>1, <1>2, <1>3, SetsLoop

LEMMA AssembleSyscallPlaced ==
  ASSUME NEW p, NEW L, Placed(p, L), NEW s, SyscallOK(s), NEW more \in BOOLEAN,
         NEW t \in L, NEW f \in L
  PROVE  Placed(AssembleSyscall(p, s, more, t, f), L)
<1> DEFINE next == NextLabel(p, more, f)
           head == JmpIfTrue(WithNextLabel(p, more), "ne", s.num, next)
           q == AssembleConditionSets(head, s.conditions, t, next)
<1>1. s.num \in Word /\ SetsOK(s.conditions) /\ "ne" \in Conds /\ "eq" \in Conds
  BY DEF SyscallOK, Conds
<1>2. CASE s.conditions = <<>>
  <2>1. AssembleSyscall(p, s, more, t, f) = IF more THEN JmpIfTrue(p, "eq", s.num, t)
                                            ELSE JmpIf(p, "eq", s.num, t, f)
    BY <1>2, Zenon DEF AssembleSyscall
  <2>2. Placed(JmpIfTrue(p, "eq", s.num, t), L) /\ Placed(JmpIf(p, "eq", s.num, t, f), L)
    BY <1>1, JmpIfTruePlaced, JmpIfPlaced
  <2> QED BY <2>1, <2>2
<1>3. CASE s.conditions # <<>>
  <2>1. AssembleSyscall(p, s, more, t, f) = SetLabelIf(q, more, next)
    BY <1>3, Zenon DEF AssembleSyscall
  <2>2. PICK M : /\ L \subseteq M /\ NextLabel(p, more, f) \in M
                 /\ Placed(WithNextLabel(p, more), M)
                 /\ \A r : Placed(r, M) => Placed(SetLabelIf(r, more, NextLabel(p, more, f)), L)
    BY NextLabelPlaced
  <2>3. Placed(head, M)
    BY <1>1, <2>2, JmpIfTruePlaced
  <2> HIDE DEF head
  <2>4. Placed(q, M)
    BY <1>1, <2>2, <2>3, AssembleConditionSetsPlaced
  <2> HIDE DEF q
  <2> QED BY <2>1, <2>2, <2>4
<1> QED BY <1>2, <1>3

(* A group leaves no label to set.                                         *)
LEMMA AssembleGroupPlaced ==
  ASSUME NEW p, Placed(p, {}), NEW syscalls, Len(syscalls) \in Nat,
         \A i \in 1 .. Len(syscalls) : SyscallOK(syscalls[i]), NEW a \in Actions
  PROVE  Placed(AssembleGroup(p, syscalls, a), {})
<1> DEFINE t == FreshLabel(p)
           f == FreshLabel(AddLabel(p))
           q == AddLabel(AddLabel(p))
           checks == AssembleSyscalls(q, syscalls, t, f)
           u == SetLabel(checks, t)
           v == Ret(u, a)
           L == ({} \cup {t}) \cup {f}
<1>1. AssembleGroup(p, syscalls, a) = SetLabel(v, f)
  BY Zenon DEF AssembleGroup
<1>2. Placed(AddLabel(p), {} \cup {t})
  BY AddLabelPlaced
<1>3. Placed(q, L) /\ f \notin {} \cup {t}
  BY <1>2, AddLabelPlaced
<1> HIDE DEF t, f, q
<1>4. t \in L /\ f \in L /\ t # f /\ L \ {t} = {f} /\ {f} \ {f} = {}
  BY <1>3
<1> HIDE DEF L
<1>5. Placed(checks, L)
  <2>1. checks = SyscallsRun(q, syscalls, t, f)[Len(syscalls)]
    BY Zenon DEF AssembleSyscalls, ForEach, SyscallsRun, SyscallsRounds
  <2>2. \A x \in Programs(L), i \in 1 .. Len(syscalls) :
          Placed(AssembleSyscall(x, syscalls[i], i < Len(syscalls), t, f), L)
    <3> TAKE x \in Programs(L), i \in 1 .. Len(syscalls)
    <3>1. Placed(x, L) /\ SyscallOK(syscalls[i]) /\ (i < Len(syscalls)) \in BOOLEAN
      BY ProgramsPlaced
    <3> QED BY <1>4, <3>1, AssembleSyscallPlaced
  <2> QED BY <1>3, <2>1, <2>2, SyscallsLoop
<1> HIDE DEF checks
<1>6. Placed(u, {f})
  BY <1>4, <1>5, SetLabelPlaced
<1> HIDE DEF u
<1>7. Placed(v, {f})
  BY <1>6, RetPlaced
<1> HIDE DEF v
<1>8. Placed(SetLabel(v, f), {f} \ {f})
  BY <1>7, SetLabelPlaced
<1> QED BY <1>1, <1>4, <1>8

(* What toSyscallsWithConditions finds in a group without problems.        *)
LEMMA GroupSyscalls ==
  ASSUME NEW g, Proper(g), ToSyscallsWithConditions(arch, g).problems = 0
  PROVE  LET syscalls == ToSyscallsWithConditions(arch, g).syscalls
         IN  /\ Len(syscalls) \in Nat
             /\ \A i \in 1 .. Len(syscalls) : SyscallOK(syscalls[i])
<1> DEFINE acc == ToSyscallsWithConditions(arch, g)
           ncs == g.namesWithConditions
           C == {nc.conditions : nc \in Range(ncs)}
<1>1. AccOK(g, acc, Len(g.names), Len(ncs))
  BY GroupOK
<1>2. acc.problems = 0
  OBVIOUS
<1> HIDE DEF acc
<1>3. acc.syscalls \in Seq([num : Word, conditions : Seq(C)])
  BY <1>1 DEF AccOK, Accs, Entries
<1>4. \A m \in DOMAIN ncs : ~InvalidArguments(ncs[m].conditions)
  <2>1. DOMAIN ncs = 1 .. Len(ncs)
    BY DEF Proper
  <2> QED BY <1>1, <1>2, <2>1 DEF AccOK, CondGood
<1>5. \A conditions \in C : ConditionsOK(conditions)
  <2> SUFFICES ASSUME NEW m \in DOMAIN ncs
               PROVE  ConditionsOK(ncs[m].conditions)
    BY DEF Range
  <2> DEFINE cs == ncs[m].conditions
  <2>1. ncs[m] \in Range(ncs)
    BY DEF Range
  <2>2. cs \in Seq(Range(cs)) /\ \A c \in Range(cs) : c.value \in DoubleWord
    BY <2>1 DEF Proper
  <2>3. \A i \in DOMAIN cs : cs[i].argument \in 0 .. 5
    BY <1>4 DEF InvalidArguments
  <2> HIDE DEF cs
  <2>4. Len(cs) \in Nat /\ DOMAIN cs = 1 .. Len(cs)
    BY <2>2
  <2>5. \A i \in DOMAIN cs : cs[i] \in Range(cs)
    BY DEF Range
  <2>6. \A i \in 1 .. Len(cs) : ConditionOK(cs[i])
    BY <2>2, <2>3, <2>4, <2>5 DEF ConditionOK
  <2> QED BY <2>4, <2>6 DEF ConditionsOK, cs
<1> HIDE DEF C
<1>6. Len(acc.syscalls) \in Nat
      /\ \A i \in 1 .. Len(acc.syscalls) : acc.syscalls[i] \in [num : Word, conditions : Seq(C)]
  BY <1>3, ElementOfSeq, LenProperties
<1>7. \A sets \in Seq(C) : SetsOK(sets)
  <2> TAKE sets \in Seq(C)
  <2>1. Len(sets) \in Nat /\ \A j \in 1 .. Len(sets) : sets[j] \in C
    BY ElementOfSeq, LenProperties
  <2> QED BY <1>5, <2>1 DEF SetsOK
<1>8. \A s \in [num : Word, conditions : Seq(C)] : SyscallOK(s)
  BY <1>7 DEF SyscallOK
<1> QED BY <1>6, <1>8 DEF acc

-----------------------------------------------------------------------------
(* The program that Policy.Assemble builds.                                *)

(* While groups are added, every label is set behind the jumps to it; when *)
(* Program.Assemble takes over, every jump can be resolved, and stays so.  *)
BuildInv ==
  /\ ValidInv
  /\ stage \in {"validate", "groups"} => Placed(prog, {})
  /\ stage = "groups" => pos \in 1 .. (Len(policy.groups) + 1)
  /\ stage = "resolve" => Resolvable(prog) /\ pos \in 1 .. (Len(prog.jumps) + 1)
  /\ stage \in {"done", "error"} =>
       /\ WellFormed(prog) /\ AllFit(prog)
       /\ pos \in 1 .. (Len(prog.jumps) + Len(policy.groups) + 1)

LEMMA InitBuild == Init => BuildInv
<1> SUFFICES ASSUME Init PROVE BuildInv
  OBVIOUS
<1>1. ValidInv
  BY InitValid
<1>2. stage = "validate" /\ prog = NewProgram
  BY DEF Init
<1> QED BY <1>1, <1>2, NewProgramPlaced DEF BuildInv

(* The lengths that bound pos.                                             *)
LEMMA BuildLengths ==
  ASSUME BuildInv
  PROVE  /\ Len(policy.groups) \in Nat /\ DOMAIN policy.groups = 1 .. Len(policy.groups)
         /\ WellFormed(prog) /\ AllFit(prog) /\ Len(prog.jumps) \in Nat
         /\ DOMAIN prog.jumps = 1 .. Len(prog.jumps)
         /\ pos \in 1 .. (Len(prog.jumps) + Len(policy.groups) + 1)
<1>1. policy.groups \in Seq(Range(policy.groups))
  BY PoliciesAssumption DEF BuildInv, ValidInv
<1>2. Len(policy.groups) \in Nat /\ DOMAIN policy.groups = 1 .. Len(policy.groups)
  BY <1>1
<1>3. stage \in {"validate", "groups", "resolve", "done", "error"}
  BY DEF BuildInv, ValidInv
<1>4. WellFormed(prog) /\ AllFit(prog)
  BY <1>3 DEF BuildInv, Placed, Resolvable
<1>5. Len(prog.jumps) \in Nat /\ DOMAIN prog.jumps = 1 .. Len(prog.jumps)
  BY <1>4, WellFormedFacts
<1>6. pos \in 1 .. (Len(prog.jumps) + Len(policy.groups) + 1)
  <2> DEFINE n == Len(prog.jumps)
             m == Len(policy.groups)
  <2>1. n \in Nat /\ m \in Nat
    BY <1>2, <1>5
  <2>2. \/ pos = 1 \/ pos \in 1 .. (m + 1) \/ pos \in 1 .. (n + 1) \/ pos \in 1 .. (n + m + 1)
    BY <1>3 DEF BuildInv, ValidInv
  <2> HIDE DEF n, m
  <2>3. pos \in 1 .. (n + m + 1)
    BY <2>1, <2>2
  <2> QED BY <2>3 DEF n, m
<1> QED BY <1>2, <1>4, <1>5, <1>6

LEMMA NextBuild == BuildInv /\ [Next]_vars => BuildInv'
<1> SUFFICES ASSUME BuildInv, [Next]_vars
             PROVE  BuildInv'
  OBVIOUS
<1>1. ValidInv /\ ValidInv'
  BY NextValid DEF BuildInv
<1>2. /\ Len(policy.groups) \in Nat /\ DOMAIN policy.groups = 1 .. Len(policy.groups)
      /\ WellFormed(prog) /\ AllFit(prog) /\ Len(prog.jumps) \in Nat
      /\ DOMAIN prog.jumps = 1 .. Len(prog.jumps)
      /\ pos \in 1 .. (Len(prog.jumps) + Len(policy.groups) + 1)
  BY BuildLengths
<1>3. ASSUME Reject
      PROVE  BuildInv'
  <2>1. stage' = "error" /\ UNCHANGED <<policy, prog, pos>>
    BY <1>3 DEF Reject
  <2>2. WellFormed(prog)' /\ AllFit(prog)'
    BY <1>2, <2>1
  <2> QED BY <1>1, <1>2, <2>1, <2>2 DEF BuildInv
<1>4. CASE Validate
  <2>1. \/ Reject
        \/ stage' = "groups" /\ UNCHANGED <<policy, arch, prog, pos, output>>
    BY <1>4, Zenon DEF Validate
  <2>2. CASE stage' = "groups" /\ UNCHANGED <<policy, arch, prog, pos, output>>
    <3>1. stage = "validate" /\ pos = 1
      BY <1>1, <1>4 DEF Validate, ValidInv
    <3>2. Placed(prog', {})
      BY <2>2, <3>1 DEF BuildInv
    <3>3. pos' \in 1 .. (Len(policy'.groups) + 1)
      BY <1>2, <2>2, <3>1
    <3> QED BY <1>1, <2>2, <3>2, <3>3 DEF BuildInv
  <2> QED BY <1>3, <2>1, <2>2
<1>5. CASE AddGroup
  <2> DEFINE group == policy.groups[pos]
             found == ToSyscallsWithConditions(arch, group)
  <2>1. stage = "groups" /\ pos \in DOMAIN policy.groups
    BY <1>1, <1>5, AddGroupFacts
  <2>2. Proper(group)
    BY <1>1, <2>1, GroupsProper
  <2>3. Placed(prog, {})
    BY <2>1 DEF BuildInv
  <2>4. group.action \in Actions
    <3>1. group \in Range(policy.groups)
      BY <2>1 DEF Range
    <3> QED BY <1>1, <3>1, PoliciesAssumption DEF ValidInv
  <2>5. found.problems \in Nat
    BY <2>2, ProblemsAreInvalid
  <2>6. found.problems = 0 => Placed(AssembleGroup(prog, found.syscalls, group.action), {})
    <3> SUFFICES ASSUME found.problems = 0
                 PROVE  Placed(AssembleGroup(prog, found.syscalls, group.action), {})
      OBVIOUS
    <3>1. /\ Len(found.syscalls) \in Nat
          /\ \A i \in 1 .. Len(found.syscalls) : SyscallOK(found.syscalls[i])
      BY <2>2, GroupSyscalls
    <3> HIDE DEF found
    <3> QED BY <2>3, <2>4, <3>1, AssembleGroupPlaced
  <2>7. \/ Reject
        \/ /\ EmptyGroup(group) \/ ~(found.problems > 0)
           /\ prog' = IF EmptyGroup(group) THEN prog
                      ELSE AssembleGroup(prog, found.syscalls, group.action)
           /\ pos' = pos + 1
           /\ UNCHANGED <<policy, arch, stage, output>>
    BY <1>5, Zenon DEF AddGroup
  <2> HIDE DEF found, group
  <2>8. CASE /\ EmptyGroup(group) \/ ~(found.problems > 0)
             /\ prog' = IF EmptyGroup(group) THEN prog
                        ELSE AssembleGroup(prog, found.syscalls, group.action)
             /\ pos' = pos + 1
             /\ UNCHANGED <<policy, arch, stage, output>>
    <3>1. Placed(prog', {})
      BY <2>3, <2>5, <2>6, <2>8
    <3>2. pos' \in 1 .. (Len(policy'.groups) + 1)
      BY <1>2, <2>1, <2>8
    <3> QED BY <1>1, <2>1, <2>8, <3>1, <3>2 DEF BuildInv
  <2> QED BY <1>3, <2>7, <2>8
<1>6. CASE AddDefault
  <2>1. /\ stage = "groups" /\ prog' = Ret(prog, policy.default) /\ stage' = "resolve" /\ pos' = 1
        /\ UNCHANGED <<policy, arch, output>>
    BY <1>6 DEF AddDefault
  <2>2. Placed(prog, {})
    BY <2>1 DEF BuildInv
  <2>3. policy.default \in Actions
    BY <1>1, PoliciesAssumption DEF ValidInv
  <2>4. /\ Placed(prog', {}) /\ prog'.labels = prog.labels
        /\ Len(prog'.instructions) = Len(prog.instructions) + 1
    BY <2>1, <2>2, <2>3, RetPlaced
  <2>5. \A l \in DOMAIN prog'.labels : prog'.labels[l] # <<>> =>
          prog'.labels[l][1] < Len(prog'.instructions)
    <3> SUFFICES ASSUME NEW l \in DOMAIN prog.labels, prog.labels[l] # <<>>
                 PROVE  prog.labels[l][1] < Len(prog.instructions) + 1
      BY <2>4
    <3>1. prog.labels[l][1] <= Len(prog.instructions)
      BY <2>2 DEF Placed
    <3>2. prog.labels[l][1] \in Nat /\ Len(prog.instructions) \in Nat
      <4>1. prog.labels[l] \in Seq(Nat) /\ Len(prog.instructions) \in Nat
        BY <1>2, WellFormedFacts
      <4> QED BY <4>1
    <3> QED BY <3>1, <3>2
  <2>6. Resolvable(prog')
    BY <2>4, <2>5, PlacedResolvable
  <2>7. Len(prog'.jumps) \in Nat
    BY <2>6, WellFormedFacts DEF Resolvable
  <2>8. pos' \in 1 .. (Len(prog'.jumps) + 1)
    BY <2>1, <2>7
  <2> QED BY <1>1, <2>1, <2>6, <2>8 DEF BuildInv
<1>7. CASE Resolve
  <2> DEFINE r == ResolveJump(prog, pos)
  <2>1. /\ stage = "resolve" /\ pos <= Len(prog.jumps)
        /\ \/ Reject
           \/ /\ r.err = "none" /\ prog' = r.prog /\ pos' = pos + 1
              /\ UNCHANGED <<policy, arch, stage, output>>
    BY <1>7, Zenon DEF Resolve
  <2>2. pos \in DOMAIN prog.jumps /\ Resolvable(prog)
    BY <1>2, <2>1 DEF BuildInv
  <2>3. r.err = "none" => Resolvable(r.prog) /\ DOMAIN r.prog.jumps = DOMAIN prog.jumps
    BY <2>2, ResolveJumpResolvable
  <2> HIDE DEF r
  <2>4. CASE /\ r.err = "none" /\ prog' = r.prog /\ pos' = pos + 1
             /\ UNCHANGED <<policy, arch, stage, output>>
    <3>1. Resolvable(prog') /\ DOMAIN prog'.jumps = DOMAIN prog.jumps
      BY <2>3, <2>4
    <3>2. Len(prog'.jumps) \in Nat /\ DOMAIN prog'.jumps = 1 .. Len(prog'.jumps)
      BY <3>1, WellFormedFacts DEF Resolvable
    <3>3. pos' \in 1 .. (Len(prog'.jumps) + 1)
      <4>1. pos \in 1 .. Len(prog'.jumps)
        BY <2>2, <3>1, <3>2
      <4> QED BY <2>4, <3>2, <4>1
    <3> QED BY <1>1, <2>1, <2>4, <3>1, <3>3 DEF BuildInv
  <2> QED BY <1>3, <2>1, <2>4
<1>8. CASE Finish
  <2>1. stage' = "done" /\ UNCHANGED <<policy, prog, pos>>
    BY <1>8 DEF Finish
  <2>2. WellFormed(prog)' /\ AllFit(prog)'
    BY <1>2, <2>1
  <2> QED BY <1>1, <1>2, <2>1, <2>2 DEF BuildInv
<1>9. CASE UNCHANGED vars
  <2>1. UNCHANGED <<policy, arch, stage, prog, pos>>
    BY <1>9 DEF vars
  <2>2. /\ stage' \in {"validate", "groups"} => Placed(prog', {})
        /\ stage' = "resolve" => Resolvable(prog')
        /\ WellFormed(prog') /\ AllFit(prog')
    BY <1>2, <2>1 DEF BuildInv
  <2> QED BY <1>1, <1>2, <2>1, <2>2 DEF BuildInv
<1> QED BY <1>4, <1>5, <1>6, <1>7, <1>8, <1>9, Zenon DEF Next, Returned

LEMMA BuildTypes == BuildInv => TypeOK
<1> SUFFICES ASSUME BuildInv PROVE TypeOK
  OBVIOUS
<1> DEFINE T == [op : {"jif"}, cond : Conds, val : Word, st : 0 .. MaxSkip, sf : 0 .. MaxSkip]
                \cup [op : {"jmp"}, skip : 0 .. (U32 - 1)]
                \cup [op : {"ret"}, val : {RetValue(a) : a \in Actions}]
                \cup [op : {"ld"}, off : 16 .. 60]
<1>1. /\ WellFormed(prog) /\ AllFit(prog)
      /\ pos \in 1 .. (Len(prog.jumps) + Len(policy.groups) + 1)
  BY BuildLengths
<1>2. prog.instructions \in Seq(Instruction) /\ Len(prog.instructions) \in Nat
      /\ DOMAIN prog.instructions = 1 .. Len(prog.instructions)
  BY <1>1, WellFormedFacts
<1>3. \A inst \in Instruction : Fits(inst) => inst \in T
  BY DEF Instruction, Fits
<1> HIDE DEF T
<1>4. \A i \in 1 .. Len(prog.instructions) : prog.instructions[i] \in T
  <2> TAKE i \in 1 .. Len(prog.instructions)
  <2>1. prog.instructions[i] \in Instruction
    BY <1>2
  <2>2. Fits(prog.instructions[i])
    BY <1>1, <1>2 DEF AllFit
  <2> QED BY <1>3, <2>1, <2>2
<1>5. prog.instructions \in Seq(T)
  BY <1>2, <1>4
<1>6. /\ stage \in {"validate", "groups", "resolve", "done", "error"}
      /\ stage = "groups" => pos \in 1 .. (Len(policy.groups) + 1)
  BY DEF BuildInv, ValidInv
<1> QED BY <1>1, <1>5, <1>6, Zenon DEF TypeOK, T

LEMMA BuildNoPanic == BuildInv => NoPanic
<1> SUFFICES ASSUME BuildInv, stage = "resolve", pos <= Len(prog.jumps)
             PROVE  ResolveJump(prog, pos).err \in {"none", "useless"}
  BY DEF NoPanic
<1>1. pos \in DOMAIN prog.jumps
  BY BuildLengths
<1>2. Resolvable(prog)
  BY DEF BuildInv
<1> QED BY <1>1, <1>2, ResolveJumpResolvable

-----------------------------------------------------------------------------
(* What is proved.                                                         *)

(* Policy.Assemble returns a program for well-formed policies only: a      *)
(* default action, groups, a table, and in every group names that are      *)
(* known, none of them twice or with and without conditions, and arguments *)
(* that exist.                                                             *)
THEOREM NoMalformedAssembled == Spec => []RejectsMalformed
<1>1. Spec => []ValidInv
  BY InitValid, NextValid, PTL DEF Spec
<1>2. ValidInv => RejectsMalformed
  BY DEF ValidInv, RejectsMalformed
<1> QED BY <1>1, <1>2, PTL

(* The other half, up to the assembler: a policy that is refused before    *)
(* Program.Assemble is called is malformed.                                *)
RefusesOnlyMalformed == [][stage # "resolve" /\ stage' = "error" => Malformed]_vars

(* Before it hands the program to Program.Assemble, Policy.Assemble        *)
(* refuses malformed policies only, however many problems it collects and  *)
(* in whatever order the names are.                                        *)
THEOREM OnlyMalformedRefused == Spec => RefusesOnlyMalformed
<1>1. Spec => []ValidInv
  BY InitValid, NextValid, PTL DEF Spec
<1>2. ValidInv /\ [Next]_vars => [stage # "resolve" /\ stage' = "error" => Malformed]_vars
  <2> SUFFICES ASSUME ValidInv, Next, stage # "resolve", stage' = "error", vars' # vars
               PROVE  Malformed
    OBVIOUS
  <2>1. CASE Validate
    BY <2>1 DEF Validate, Malformed
  <2>2. CASE AddGroup
    <3>1. pos \in DOMAIN policy.groups /\ InvalidGroup(policy.groups[pos])
      BY <2>2, AddGroupFacts
    <3> QED BY <3>1 DEF Malformed
  <2>3. CASE AddDefault
    BY <2>3 DEF AddDefault
  <2>4. CASE Resolve \/ Finish
    BY <2>4 DEF Resolve, Finish
  <2>5. CASE Returned
    BY <2>5 DEF Returned
  <2> QED BY <2>1, <2>2, <2>3, <2>4, <2>5 DEF Next
<1> QED BY <1>1, <1>2, PTL DEF Spec, RefusesOnlyMalformed

(* Whatever the policy, the instructions Policy.Assemble collects are ones *)
(* the kernel's format can hold: comparisons with a word, loads of a word  *)
(* of the arguments, skips of a byte, and its loops stay within their      *)
(* lists.                                                                  *)
THEOREM PolicyTypes == Spec => []TypeOK
<1>1. Spec => []BuildInv
  BY InitBuild, NextBuild, PTL DEF Spec
<1> QED BY <1>1, BuildTypes, PTL

(* Whatever groups, names and conditions a policy has, Program.Assemble    *)
(* never panics over it and meets no jump backwards: every label is set,   *)
(* behind the jumps to it and in front of an instruction, and stays there  *)
(* while long jumps are put in.                                            *)
THEOREM NeverPanics == Spec => []NoPanic
<1>1. Spec => []BuildInv
  BY InitBuild, NextBuild, PTL DEF Spec
<1> QED BY <1>1, BuildNoPanic, PTL
=============================================================================
