---------------------------- MODULE TablesProofs ----------------------------
(***************************************************************************)
(* Proofs about the generator of the tables and the programs built with    *)
(* them: what is in zsyscalls.go whenever it can be compiled is the whole  *)
(* table set of one version, for any files of the kernel, any number of    *)
(* runs and however they end.                                              *)
(*                                                                         *)
(* The proof follows a row from its line to the program: the loop over the *)
(* lines takes it, the sort keeps it, the template writes it behind the    *)
(* tables of the same version, and go build finds it by its number.        *)
(***************************************************************************)
EXTENDS Tables, SequenceTheorems, FiniteSetTheorems, NaturalsInduction, WellFoundedInduction, TLAPS

-----------------------------------------------------------------------------
(* Induction with a set in place of a predicate.                           *)

LEMMA NatInductive ==
  ASSUME NEW S, 0 \in S, \A n \in Nat : n \in S => n + 1 \in S
  PROVE  Nat \subseteq S
<1> DEFINE T == {n \in Nat : n \notin S}
<1> SUFFICES ASSUME T # {} PROVE FALSE
  OBVIOUS
<1>1. PICK n \in T : \A m \in T : ~ (<<m, n>> \in OpToRel(<, Nat))
  <2>1. T \subseteq Nat
    OBVIOUS
  <2> HIDE DEF T
  <2> QED BY <2>1, NatLessThanWellFounded, WFMin
<1>2. n \in Nat /\ n # 0
  OBVIOUS
<1>3. n - 1 \in Nat /\ n - 1 < n /\ (n - 1) + 1 = n
  BY <1>2
<1>4. n - 1 \notin T
  <2>1. <<n - 1, n>> \in OpToRel(<, Nat)
    BY <1>2, <1>3 DEF OpToRel
  <2> QED BY <1>1, <2>1
<1>5. n - 1 \in S
  BY <1>3, <1>4
<1> QED BY <1>2, <1>3, <1>5

-----------------------------------------------------------------------------
(* readSyscalls: the loop over the lines.                                  *)

(* What the loop does with a line.                                         *)
Take(f, lines, s, k) == IF Taken(f, lines[k]) THEN Append(s, Syscall(f, lines[k])) ELSE s

(* The equation that defines Scan.                                         *)
ScanUpto(f, lines, k, c) ==
  c = [i \in 0 .. k |-> IF i = 0 THEN <<>> ELSE Take(f, lines, c[i - 1], i)]

LEMMA ScanRun ==
  ASSUME NEW f, NEW lines
  PROVE  Scan(f, lines) = CHOOSE c : ScanUpto(f, lines, Len(lines), c)
BY Zenon DEF Scan, ScanUpto, Take

LEMMA ScanNext ==
  ASSUME NEW f, NEW lines, NEW k \in Nat, NEW c, ScanUpto(f, lines, k, c)
  PROVE  \E g : ScanUpto(f, lines, k + 1, g)
<1> DEFINE B(x, i) == Take(f, lines, x, i)
<1>0. c = [i \in 0 .. k |-> IF i = 0 THEN <<>> ELSE B(c[i - 1], i)]
  BY Zenon DEF ScanUpto
<1> HIDE DEF B
<1>1. PICK g : g = [i \in 0 .. (k + 1) |-> IF i = k + 1 THEN B(c[k], k + 1) ELSE c[i]]
  OBVIOUS
<1>2. \A i \in 0 .. k : g[i] = c[i]
  BY <1>1
<1>3. ASSUME NEW i \in 0 .. (k + 1)
      PROVE  g[i] = IF i = 0 THEN <<>> ELSE B(g[i - 1], i)
  <2>1. CASE i = k + 1
    <3>1. i # 0 /\ i - 1 = k /\ k \in 0 .. k
      BY <2>1
    <3> QED BY <1>1, <1>2, <2>1, <3>1
  <2>2. CASE i # k + 1 /\ i # 0
    <3>1. i \in 0 .. k /\ i - 1 \in 0 .. k
      BY <2>2
    <3>2. c[i] = B(c[i - 1], i)
      BY <1>0, <2>2, <3>1
    <3> QED BY <1>2, <2>2, <3>1, <3>2
  <2>3. CASE i = 0
    BY <1>0, <1>2, <2>3
  <2> QED BY <2>1, <2>2, <2>3
<1>4. g = [i \in 0 .. (k + 1) |-> IF i = 0 THEN <<>> ELSE B(g[i - 1], i)]
  BY <1>1, <1>3
<1> QED BY <1>4, Zenon DEF ScanUpto, B

LEMMA ScanIs ==
  ASSUME NEW f, NEW lines, Len(lines) \in Nat
  PROVE  /\ Scan(f, lines)[0] = <<>>
         /\ \A k \in Nat : k < Len(lines) =>
              Scan(f, lines)[k + 1] = Take(f, lines, Scan(f, lines)[k], k + 1)
<1> DEFINE S == {k \in Nat : \E c : ScanUpto(f, lines, k, c)}
<1>1. 0 \in S
  <2>1. PICK c : c = [i \in 0 .. 0 |-> <<>>]
    OBVIOUS
  <2>2. \A i \in 0 .. 0 : i = 0
    OBVIOUS
  <2> DEFINE B(x, i) == Take(f, lines, x, i)
  <2> HIDE DEF B
  <2>3. c = [i \in 0 .. 0 |-> IF i = 0 THEN <<>> ELSE B(c[i - 1], i)]
    BY <2>1, <2>2
  <2>4. ScanUpto(f, lines, 0, c)
    BY <2>3, Zenon DEF ScanUpto, B
  <2> QED BY <2>4
<1>2. ASSUME NEW k \in Nat, k \in S
      PROVE  k + 1 \in S
  <2>1. PICK c : ScanUpto(f, lines, k, c)
    BY <1>2
  <2>2. \E g : ScanUpto(f, lines, k + 1, g)
    BY <2>1, ScanNext
  <2>3. k + 1 \in Nat
    OBVIOUS
  <2> QED BY <2>2, <2>3
<1>3. Len(lines) \in S
  <2>1. Nat \subseteq S
    <3> HIDE DEF S
    <3> QED BY <1>1, <1>2, NatInductive
  <2> QED BY <2>1
<1>4. PICK n \in Nat : n = Len(lines)
  OBVIOUS
<1>5. PICK g : g = Scan(f, lines)
  OBVIOUS
<1>6. ScanUpto(f, lines, n, g)
  <2>1. \E c : ScanUpto(f, lines, Len(lines), c)
    BY <1>3
  <2>2. ScanUpto(f, lines, Len(lines), Scan(f, lines))
    BY <2>1, ScanRun, Zenon
  <2> QED BY <1>4, <1>5, <2>2, Zenon
<1> DEFINE B(x, i) == Take(f, lines, x, i)
<1>7. g = [i \in 0 .. n |-> IF i = 0 THEN <<>> ELSE B(g[i - 1], i)]
  BY <1>6, Zenon DEF ScanUpto
<1> HIDE DEF B
<1>8. g[0] = <<>>
  BY <1>7
<1>9. ASSUME NEW k \in Nat, k < n
      PROVE  g[k + 1] = B(g[k], k + 1)
  <2>1. k + 1 \in 0 .. n /\ k + 1 # 0 /\ (k + 1) - 1 = k
    BY <1>9
  <2>2. g[k + 1] = B(g[(k + 1) - 1], k + 1)
    BY <1>7, <2>1
  <2> QED BY <2>1, <2>2
<1> QED BY <1>4, <1>5, <1>8, <1>9, Zenon DEF B

(* What was read of the first k lines.                                     *)
LineRows(f, lines, k) == {i \in 1 .. k : Taken(f, lines[i])}

ReadOf(f, lines, k, s, R) ==
  /\ s \in Seq(R)
  /\ \A i \in LineRows(f, lines, k) : \E j \in DOMAIN s : s[j] = Syscall(f, lines[i])
  /\ \A j \in DOMAIN s : \E i \in LineRows(f, lines, k) : s[j] = Syscall(f, lines[i])
  /\ Distinct(s) \/ \E i, j \in LineRows(f, lines, k) :
                      i # j /\ Syscall(f, lines[i]).num = Syscall(f, lines[j]).num

LEMMA TakeReads ==
  ASSUME NEW f, NEW lines, NEW k \in Nat, NEW s, NEW R, ReadOf(f, lines, k, s, R),
         Taken(f, lines[k + 1]) => Syscall(f, lines[k + 1]) \in R
  PROVE  ReadOf(f, lines, k + 1, Take(f, lines, s, k + 1), R)
<1>0. LineRows(f, lines, k) \subseteq LineRows(f, lines, k + 1)
  BY DEF LineRows
<1>1. CASE ~Taken(f, lines[k + 1])
  <2>1. LineRows(f, lines, k + 1) = LineRows(f, lines, k)
    BY <1>1 DEF LineRows
  <2>2. Take(f, lines, s, k + 1) = s
    BY <1>1 DEF Take
  <2>3. ReadOf(f, lines, k + 1, s, R)
    BY <2>1 DEF ReadOf
  <2> QED BY <2>2, <2>3, Zenon
<1>2. CASE Taken(f, lines[k + 1])
  <2>1. PICK r : r = Syscall(f, lines[k + 1])
    OBVIOUS
  <2>2. PICK t : t = Append(s, r)
    OBVIOUS
  <2>3. s \in Seq(R) /\ r \in R
    BY <1>2, <2>1 DEF ReadOf
  <2>4. /\ t \in Seq(R) /\ Len(t) = Len(s) + 1 /\ Len(s) \in Nat
        /\ DOMAIN t = 1 .. Len(s) + 1 /\ DOMAIN s = 1 .. Len(s)
        /\ t[Len(s) + 1] = r /\ \A j \in 1 .. Len(s) : t[j] = s[j]
    BY <2>2, <2>3
  <2>5. k + 1 \in LineRows(f, lines, k + 1)
    BY <1>2 DEF LineRows
  <2>6. \A i \in LineRows(f, lines, k + 1) : i = k + 1 \/ i \in LineRows(f, lines, k)
    BY DEF LineRows
  <2>7. ASSUME NEW i \in LineRows(f, lines, k + 1)
        PROVE  \E j \in DOMAIN t : t[j] = Syscall(f, lines[i])
    <3>1. CASE i = k + 1
      BY <2>1, <2>4, <3>1
    <3>2. CASE i \in LineRows(f, lines, k)
      <4>1. PICK j \in DOMAIN s : s[j] = Syscall(f, lines[i])
        BY <3>2 DEF ReadOf
      <4> QED BY <2>4, <4>1
    <3> QED BY <2>6, <3>1, <3>2
  <2>8. ASSUME NEW j \in DOMAIN t
        PROVE  \E i \in LineRows(f, lines, k + 1) : t[j] = Syscall(f, lines[i])
    <3>1. CASE j = Len(s) + 1
      BY <2>1, <2>4, <2>5, <3>1
    <3>2. CASE j # Len(s) + 1
      <4>1. j \in DOMAIN s /\ t[j] = s[j]
        BY <2>4, <3>2
      <4>2. PICK i \in LineRows(f, lines, k) : s[j] = Syscall(f, lines[i])
        BY <4>1 DEF ReadOf
      <4> QED BY <1>0, <4>1, <4>2
    <3> QED BY <3>1, <3>2
  <2>9. Distinct(t) \/ \E i, j \in LineRows(f, lines, k + 1) :
                         i # j /\ Syscall(f, lines[i]).num = Syscall(f, lines[j]).num
    <3>1. CASE \E i, j \in LineRows(f, lines, k) :
                 i # j /\ Syscall(f, lines[i]).num = Syscall(f, lines[j]).num
      BY <1>0, <3>1
    <3>2. CASE Distinct(s)
      <4>1. CASE \E j \in DOMAIN s : s[j].num = r.num
        <5>1. PICK j \in DOMAIN s : s[j].num = r.num
          BY <4>1
        <5>2. PICK i \in LineRows(f, lines, k) : s[j] = Syscall(f, lines[i])
          BY <5>1 DEF ReadOf
        <5>3. i # k + 1 /\ Syscall(f, lines[i]).num = Syscall(f, lines[k + 1]).num
          BY <2>1, <5>1, <5>2 DEF LineRows
        <5> QED BY <1>0, <2>5, <5>3
      <4>2. CASE ~\E j \in DOMAIN s : s[j].num = r.num
        <5>1. Distinct(t)
          BY <2>4, <3>2, <4>2 DEF Distinct
        <5> QED BY <5>1
      <4> QED BY <4>1, <4>2
    <3> QED BY <3>1, <3>2 DEF ReadOf
  <2>10. ReadOf(f, lines, k + 1, t, R)
    BY <2>4, <2>7, <2>8, <2>9 DEF ReadOf
  <2>11. Take(f, lines, s, k + 1) = t
    BY <1>2, <2>1, <2>2 DEF Take
  <2> QED BY <2>10, <2>11, Zenon
<1> QED BY <1>1, <1>2

(* What readSyscalls returns: a row for every line that is taken.          *)
LEMMA ReadSyscallsReads ==
  ASSUME NEW f, NEW lines, NEW L, lines \in Seq(L), NEW R,
         \A i \in DOMAIN lines : Taken(f, lines[i]) => Syscall(f, lines[i]) \in R
  PROVE  ReadOf(f, lines, Len(lines), readSyscalls(f, lines), R)
<1>1. PICK g : g = Scan(f, lines)
  OBVIOUS
<1>2. Len(lines) \in Nat /\ DOMAIN lines = 1 .. Len(lines)
  OBVIOUS
<1>3. /\ g[0] = <<>>
      /\ \A k \in Nat : k < Len(lines) => g[k + 1] = Take(f, lines, g[k], k + 1)
  BY <1>1, <1>2, ScanIs, Zenon
<1> DEFINE S == {k \in Nat : k <= Len(lines) => ReadOf(f, lines, k, g[k], R)}
<1>4. 0 \in S
  <2>1. LineRows(f, lines, 0) = {}
    BY DEF LineRows
  <2>2. Distinct(<<>>)
    BY DEF Distinct
  <2>3. ReadOf(f, lines, 0, <<>>, R)
    BY <2>1, <2>2 DEF ReadOf
  <2> QED BY <1>3, <2>3
<1>5. ASSUME NEW k \in Nat, k \in S
      PROVE  k + 1 \in S
  <2>1. CASE k < Len(lines)
    <3>1. ReadOf(f, lines, k, g[k], R)
      BY <1>2, <1>5, <2>1
    <3>2. k + 1 \in DOMAIN lines
      BY <1>2, <2>1
    <3>3. ReadOf(f, lines, k + 1, Take(f, lines, g[k], k + 1), R)
      BY <3>1, <3>2, TakeReads
    <3>4. ReadOf(f, lines, k + 1, g[k + 1], R)
      BY <1>3, <2>1, <3>3
    <3> QED BY <3>4
  <2>2. CASE ~(k < Len(lines))
    BY <1>2, <2>2
  <2> QED BY <2>1, <2>2
<1>6. Nat \subseteq S
  <2> HIDE DEF S
  <2> QED BY <1>4, <1>5, NatInductive
<1>7. ReadOf(f, lines, Len(lines), g[Len(lines)], R)
  BY <1>2, <1>6
<1> QED BY <1>1, <1>7, Zenon DEF readSyscalls

-----------------------------------------------------------------------------
(* sort.Slice: the rows stay the same.                                     *)

Inserted(u, s, r, n, R) ==
  /\ u \in Seq(R) /\ Len(u) = Len(s) + 1
  /\ u[n + 1] = r
  /\ \A i \in 1 .. n : u[i] = s[i]
  /\ \A i \in (n + 1) .. Len(s) : u[i + 1] = s[i]

LEMMA InsertIs ==
  ASSUME NEW R, NEW s \in Seq(R), NEW r \in R
  PROVE  \E n \in 0 .. Len(s) : Inserted(Insert(s, r), s, r, n, R)
<1> DEFINE I == {i \in DOMAIN s : s[i].num <= r.num}
<1>1. PICK n : n = Cardinality(I)
  OBVIOUS
<1>2. n \in 0 .. Len(s)
  <2>1. Len(s) \in Nat /\ DOMAIN s = 1 .. Len(s) /\ 1 \in Int
    OBVIOUS
  <2>2. IsFiniteSet(1 .. Len(s)) /\ Cardinality(1 .. Len(s)) = Len(s)
    <3>1. IsFiniteSet(1 .. Len(s))
      BY <2>1, FS_Interval
    <3>2. Cardinality(1 .. Len(s)) = IF 1 > Len(s) THEN 0 ELSE Len(s) - 1 + 1
      BY <2>1, FS_Interval
    <3> QED BY <2>1, <3>1, <3>2
  <2>3. I \subseteq 1 .. Len(s)
    BY <2>1
  <2> HIDE DEF I
  <2>4. Cardinality(I) <= Cardinality(1 .. Len(s)) /\ IsFiniteSet(I)
    BY <2>2, <2>3, FS_Subset
  <2>5. Cardinality(I) \in Nat
    BY <2>4, FS_CardinalityType
  <2> QED BY <1>1, <2>1, <2>2, <2>4, <2>5
<1>3. PICK a, b : a = SubSeq(s, 1, n) /\ b = SubSeq(s, n + 1, Len(s))
  OBVIOUS
<1>4. a \in Seq(R) /\ Len(a) = n /\ \A i \in 1 .. n : a[i] = s[i]
  BY <1>2, <1>3
<1>5. b \in Seq(R) /\ Len(b) = Len(s) - n /\ \A i \in 1 .. (Len(s) - n) : b[i] = s[n + i]
  <2>1. n + 1 \in 1 .. Len(s) + 1 /\ Len(s) \in Nat /\ n \in Nat
    BY <1>2
  <2>2. CASE n = Len(s)
    <3>1. b = << >>
      BY <1>3, <2>1, <2>2, SubSeqEmpty
    <3> QED BY <2>1, <2>2, <3>1
  <2>3. CASE n # Len(s)
    <3>1. n + 1 \in 1 .. Len(s)
      BY <2>1, <2>3
    <3> QED BY <1>3, <2>1, <3>1
  <2> QED BY <2>2, <2>3
<1>6. PICK c : c = a \o <<r>>
  OBVIOUS
<1>7. c \in Seq(R) /\ Len(c) = n + 1 /\ c[n + 1] = r /\ \A i \in 1 .. n : c[i] = a[i]
  <2>1. c = Append(a, r)
    BY <1>4, <1>6, AppendIsConcat
  <2> QED BY <1>2, <1>4, <2>1
<1>8. PICK d : d = c \o b
  OBVIOUS
<1>9. /\ d \in Seq(R) /\ Len(d) = Len(s) + 1
      /\ \A i \in 1 .. (n + 1) : d[i] = c[i]
      /\ \A i \in 1 .. (Len(s) - n) : d[n + 1 + i] = b[i]
  BY <1>2, <1>5, <1>7, <1>8
<1>10. d = Insert(s, r)
  BY <1>1, <1>3, <1>6, <1>8, Zenon DEF Insert
<1>11. \A i \in 1 .. n : d[i] = s[i]
  BY <1>2, <1>4, <1>7, <1>9
<1>12. d[n + 1] = r
  BY <1>2, <1>7, <1>9
<1>13. ASSUME NEW i \in (n + 1) .. Len(s)
       PROVE  d[i + 1] = s[i]
  <2>1. i - n \in 1 .. (Len(s) - n) /\ n + 1 + (i - n) = i + 1 /\ n + (i - n) = i
    BY <1>2
  <2>2. d[n + 1 + (i - n)] = b[i - n] /\ b[i - n] = s[n + (i - n)]
    BY <1>5, <1>9, <2>1
  <2> QED BY <2>1, <2>2
<1>14. Inserted(d, s, r, n, R)
  BY <1>9, <1>11, <1>12, <1>13 DEF Inserted
<1> QED BY <1>2, <1>10, <1>14

(* t has the first k rows of s, in another order.                          *)
Sorts(t, s, k, R) ==
  /\ t \in Seq(R)
  /\ \A i \in 1 .. k : \E j \in DOMAIN t : t[j] = s[i]
  /\ \A j \in DOMAIN t : \E i \in 1 .. k : t[j] = s[i]
  /\ Distinct(s) => Distinct(t)

LEMMA InsertSorts ==
  ASSUME NEW R, NEW s \in Seq(R), NEW k \in Nat, k < Len(s), NEW t, Sorts(t, s, k, R)
  PROVE  Sorts(Insert(t, s[k + 1]), s, k + 1, R)
<1>1. PICK r : r = s[k + 1]
  OBVIOUS
<1>2. t \in Seq(R) /\ r \in R /\ Len(t) \in Nat /\ DOMAIN t = 1 .. Len(t) /\ k + 1 \in DOMAIN s
  BY <1>1 DEF Sorts
<1>3. PICK u : u = Insert(t, r)
  OBVIOUS
<1>4. PICK n \in 0 .. Len(t) :
        /\ u \in Seq(R) /\ Len(u) = Len(t) + 1 /\ u[n + 1] = r
        /\ \A i \in 1 .. n : u[i] = t[i]
        /\ \A i \in (n + 1) .. Len(t) : u[i + 1] = t[i]
  <2>1. PICK n \in 0 .. Len(t) : Inserted(u, t, r, n, R)
    BY <1>2, <1>3, InsertIs
  <2> QED BY <2>1 DEF Inserted
<1>5. DOMAIN u = 1 .. (Len(t) + 1)
  BY <1>2, <1>4
<1>6. ASSUME NEW i \in 1 .. (k + 1)
      PROVE  \E j \in DOMAIN u : u[j] = s[i]
  <2>1. CASE i = k + 1
    BY <1>1, <1>2, <1>4, <1>5, <2>1
  <2>2. CASE i # k + 1
    <3>1. i \in 1 .. k
      BY <2>2
    <3>2. PICK j \in DOMAIN t : t[j] = s[i]
      BY <3>1 DEF Sorts
    <3>3. j <= n => j \in DOMAIN u /\ u[j] = s[i]
      BY <1>2, <1>4, <1>5, <3>2
    <3>4. j > n => j + 1 \in DOMAIN u /\ u[j + 1] = s[i]
      BY <1>2, <1>4, <1>5, <3>2
    <3>5. j <= n \/ j > n
      BY <1>2, <3>2
    <3> QED BY <3>3, <3>4, <3>5
  <2> QED BY <2>1, <2>2
<1> DEFINE from(j) == IF j <= n THEN j ELSE j - 1
<1>7. \A j \in DOMAIN u : j # n + 1 => from(j) \in DOMAIN t /\ u[j] = t[from(j)]
  <2> SUFFICES ASSUME NEW j \in DOMAIN u, j # n + 1
               PROVE  from(j) \in DOMAIN t /\ u[j] = t[from(j)]
    OBVIOUS
  <2>1. CASE j <= n
    BY <1>2, <1>4, <1>5, <2>1
  <2>2. CASE j > n + 1
    <3>1. j - 1 \in (n + 1) .. Len(t) /\ (j - 1) + 1 = j /\ from(j) = j - 1
      BY <1>2, <1>5, <2>2
    <3> QED BY <1>2, <1>4, <3>1
  <2>3. j <= n \/ j > n + 1
    BY <1>5, <1>2
  <2> QED BY <2>1, <2>2, <2>3
<1>8. ASSUME NEW j \in DOMAIN u
      PROVE  \E i \in 1 .. (k + 1) : u[j] = s[i]
  <2>1. CASE j = n + 1
    BY <1>1, <1>4, <2>1
  <2>2. CASE j # n + 1
    <3>1. PICK m \in DOMAIN t : u[j] = t[m]
      BY <1>7, <2>2
    <3>2. PICK i \in 1 .. k : t[m] = s[i]
      BY <3>1 DEF Sorts
    <3> QED BY <3>1, <3>2
  <2> QED BY <2>1, <2>2
<1>9. ASSUME Distinct(s)
      PROVE  Distinct(u)
  <2>1. Distinct(t)
    BY <1>9 DEF Sorts
  <2>2. \A m \in DOMAIN t : t[m].num # r.num
    <3> SUFFICES ASSUME NEW m \in DOMAIN t, t[m].num = r.num PROVE FALSE
      OBVIOUS
    <3>1. PICK i \in 1 .. k : t[m] = s[i]
      BY DEF Sorts
    <3>2. i \in DOMAIN s /\ i # k + 1 /\ s[i].num = s[k + 1].num
      BY <1>1, <3>1
    <3> QED BY <1>2, <1>9, <3>2 DEF Distinct
  <2> SUFFICES ASSUME NEW i \in DOMAIN u, NEW j \in DOMAIN u, u[i].num = u[j].num
               PROVE  i = j
    BY DEF Distinct
  <2>3. CASE i = n + 1 \/ j = n + 1
    BY <1>4, <1>7, <2>2, <2>3
  <2>4. CASE i # n + 1 /\ j # n + 1
    <3>1. from(i) = from(j)
      BY <1>7, <2>1, <2>4 DEF Distinct
    <3> QED BY <1>2, <1>5, <2>4, <3>1
  <2> QED BY <2>3, <2>4
<1>10. Sorts(u, s, k + 1, R)
  BY <1>4, <1>6, <1>8, <1>9 DEF Sorts
<1> QED BY <1>1, <1>3, <1>10, Zenon

(* The equation that defines Insertions.                                   *)
SortUpto(s, k, c) ==
  c = [i \in 0 .. k |-> IF i = 0 THEN <<>> ELSE Insert(c[i - 1], s[i])]

LEMMA InsertionsRun ==
  ASSUME NEW s
  PROVE  Insertions(s) = CHOOSE c : SortUpto(s, Len(s), c)
BY Zenon DEF Insertions, SortUpto

LEMMA SortNext ==
  ASSUME NEW s, NEW k \in Nat, NEW c, SortUpto(s, k, c)
  PROVE  \E g : SortUpto(s, k + 1, g)
<1> DEFINE B(x, i) == Insert(x, s[i])
<1>0. c = [i \in 0 .. k |-> IF i = 0 THEN <<>> ELSE B(c[i - 1], i)]
  BY Zenon DEF SortUpto
<1> HIDE DEF B
<1>1. PICK g : g = [i \in 0 .. (k + 1) |-> IF i = k + 1 THEN B(c[k], k + 1) ELSE c[i]]
  OBVIOUS
<1>2. \A i \in 0 .. k : g[i] = c[i]
  BY <1>1
<1>3. ASSUME NEW i \in 0 .. (k + 1)
      PROVE  g[i] = IF i = 0 THEN <<>> ELSE B(g[i - 1], i)
  <2>1. CASE i = k + 1
    <3>1. i # 0 /\ i - 1 = k /\ k \in 0 .. k
      BY <2>1
    <3> QED BY <1>1, <1>2, <2>1, <3>1
  <2>2. CASE i # k + 1 /\ i # 0
    <3>1. i \in 0 .. k /\ i - 1 \in 0 .. k
      BY <2>2
    <3>2. c[i] = B(c[i - 1], i)
      BY <1>0, <2>2, <3>1
    <3> QED BY <1>2, <2>2, <3>1, <3>2
  <2>3. CASE i = 0
    BY <1>0, <1>2, <2>3
  <2> QED BY <2>1, <2>2, <2>3
<1>4. g = [i \in 0 .. (k + 1) |-> IF i = 0 THEN <<>> ELSE B(g[i - 1], i)]
  BY <1>1, <1>3
<1> QED BY <1>4, Zenon DEF SortUpto, B

LEMMA InsertionsIs ==
  ASSUME NEW s, Len(s) \in Nat
  PROVE  /\ Insertions(s)[0] = <<>>
         /\ \A k \in Nat : k < Len(s) =>
              Insertions(s)[k + 1] = Insert(Insertions(s)[k], s[k + 1])
<1> DEFINE S == {k \in Nat : \E c : SortUpto(s, k, c)}
<1>1. 0 \in S
  <2>1. PICK c : c = [i \in 0 .. 0 |-> <<>>]
    OBVIOUS
  <2>2. \A i \in 0 .. 0 : i = 0
    OBVIOUS
  <2> DEFINE B(x, i) == Insert(x, s[i])
  <2> HIDE DEF B
  <2>3. c = [i \in 0 .. 0 |-> IF i = 0 THEN <<>> ELSE B(c[i - 1], i)]
    BY <2>1, <2>2
  <2>4. SortUpto(s, 0, c)
    BY <2>3, Zenon DEF SortUpto, B
  <2> QED BY <2>4
<1>2. ASSUME NEW k \in Nat, k \in S
      PROVE  k + 1 \in S
  <2>1. PICK c : SortUpto(s, k, c)
    BY <1>2
  <2>2. \E g : SortUpto(s, k + 1, g)
    BY <2>1, SortNext
  <2>3. k + 1 \in Nat
    OBVIOUS
  <2> QED BY <2>2, <2>3
<1>3. Len(s) \in S
  <2>1. Nat \subseteq S
    <3> HIDE DEF S
    <3> QED BY <1>1, <1>2, NatInductive
  <2> QED BY <2>1
<1>4. PICK n \in Nat : n = Len(s)
  OBVIOUS
<1>5. PICK g : g = Insertions(s)
  OBVIOUS
<1>6. SortUpto(s, n, g)
  <2>1. \E c : SortUpto(s, Len(s), c)
    BY <1>3
  <2>2. SortUpto(s, Len(s), Insertions(s))
    BY <2>1, InsertionsRun, Zenon
  <2> QED BY <1>4, <1>5, <2>2, Zenon
<1> DEFINE B(x, i) == Insert(x, s[i])
<1>7. g = [i \in 0 .. n |-> IF i = 0 THEN <<>> ELSE B(g[i - 1], i)]
  BY <1>6, Zenon DEF SortUpto
<1> HIDE DEF B
<1>8. g[0] = <<>>
  BY <1>7
<1>9. ASSUME NEW k \in Nat, k < n
      PROVE  g[k + 1] = B(g[k], k + 1)
  <2>1. k + 1 \in 0 .. n /\ k + 1 # 0 /\ (k + 1) - 1 = k
    BY <1>9
  <2>2. g[k + 1] = B(g[(k + 1) - 1], k + 1)
    BY <1>7, <2>1
  <2> QED BY <2>1, <2>2
<1> QED BY <1>4, <1>5, <1>8, <1>9, Zenon DEF B

(* Sort only changes the order.                                            *)
LEMMA SortSorts ==
  ASSUME NEW R, NEW s \in Seq(R)
  PROVE  Sorts(Sort(s), s, Len(s), R)
<1>1. PICK g : g = Insertions(s)
  OBVIOUS
<1>2. Len(s) \in Nat
  OBVIOUS
<1>3. /\ g[0] = <<>>
      /\ \A k \in Nat : k < Len(s) => g[k + 1] = Insert(g[k], s[k + 1])
  BY <1>1, <1>2, InsertionsIs, Zenon
<1> DEFINE S == {k \in Nat : k <= Len(s) => Sorts(g[k], s, k, R)}
<1>4. 0 \in S
  <2>1. Distinct(<<>>)
    BY DEF Distinct
  <2>2. Sorts(<<>>, s, 0, R)
    BY <2>1 DEF Sorts
  <2> QED BY <1>3, <2>2
<1>5. ASSUME NEW k \in Nat, k \in S
      PROVE  k + 1 \in S
  <2>1. CASE k < Len(s)
    <3>1. Sorts(g[k], s, k, R)
      BY <1>2, <1>5, <2>1
    <3>2. Sorts(Insert(g[k], s[k + 1]), s, k + 1, R)
      BY <2>1, <3>1, InsertSorts
    <3>3. Sorts(g[k + 1], s, k + 1, R)
      BY <1>3, <2>1, <3>2
    <3> QED BY <3>3
  <2>2. CASE ~(k < Len(s))
    BY <1>2, <2>2
  <2> QED BY <2>1, <2>2
<1>6. Nat \subseteq S
  <2> HIDE DEF S
  <2> QED BY <1>4, <1>5, NatInductive
<1>7. Sorts(g[Len(s)], s, Len(s), R)
  BY <1>2, <1>6
<1> QED BY <1>1, <1>7, Zenon DEF Sort

-----------------------------------------------------------------------------
(* The invariant.  While the builders run, what they have read is what the *)
(* files of the version say (Reads); once all are done, the version is     *)
(* understood and the tables are the kernel's (Whole).                     *)

IsSeq(s) == s \in Seq(Range(s))

(* A place is a file of a builder and a line of it that is taken.          *)
Lines(v, b, n) ==
  LET path == builders[b].files[n].path
  IN  IF path \in DOMAIN Sources[v] THEN Sources[v][path] ELSE <<>>

Places(v, b) ==
  UNION {{<<n, i>> : i \in {i \in DOMAIN Lines(v, b, n) :
                            Taken(builders[b].files[n], Lines(v, b, n)[i])}} :
           n \in DOMAIN builders[b].files}

RowAt(v, b, p) == Syscall(builders[b].files[p[1]], Lines(v, b, p[1])[p[2]])

Once(v, b) == \A p, q \in Places(v, b) : RowAt(v, b, p).num = RowAt(v, b, q).num => p = q

(* The rows are those of the first n files of a builder.                   *)
PlacesTo(v, b, n) == {p \in Places(v, b) : p[1] <= n}

Reads(rows, v, b, n) ==
  /\ IsSeq(rows)
  /\ Range(rows) = {RowAt(v, b, p) : p \in PlacesTo(v, b, n)}
  /\ Once(v, b) => Distinct(rows)

Passed(v, b, n) ==
  /\ builders[b].files[n].path \in DOMAIN Sources[v]
  /\ \A i \in DOMAIN Lines(v, b, n) : ~Refused(builders[b].files[n], Lines(v, b, n)[i])

(* All files of all builders can be read.                                  *)
Understood(v) == \A b \in DOMAIN builders : \A n \in DOMAIN builders[b].files : Passed(v, b, n)

(* No name has two numbers.                                                *)
OneNumber(rows) == \A r, s \in rows : r.name = s.name => r.num = s.num

Good(rows, v, name) ==
  /\ IsSeq(rows) /\ Distinct(rows) /\ Lists(Range(rows), v, name)
  /\ name # "X32" => OneNumber(Range(rows))

(* The tables of a version, from the first one on.                         *)
Whole(o, v) ==
  /\ IsSeq(o) /\ Len(o) <= Len(builders)
  /\ \A i \in DOMAIN o : o[i].name = builders[i].name /\ Good(o[i].syscalls, v, o[i].name)

NFiles(b) == Len(builders[b].files)

PlaceInv ==
  /\ pc \in {"idle", "get", "read", "create", "execute"}
  /\ version \in DOMAIN Sources
  /\ pc \in {"get", "read"} => builder \in DOMAIN builders /\ file \in DOMAIN builders[builder].files

(* The first k builders are done.                                          *)
BuiltTo(p, v, k) ==
  /\ IsSeq(p) /\ Len(p) = k
  /\ \A b \in 1 .. k : /\ p[b].name = builders[b].name
                       /\ Reads(p[b].syscalls, v, b, NFiles(b))
                       /\ \A n \in 1 .. NFiles(b) : Passed(v, b, n)

BuildInv ==
  pc \in {"get", "read"} =>
    /\ Reads(syscalls, version, builder, file - 1)
    /\ \A n \in 1 .. (file - 1) : Passed(version, builder, n)
    /\ BuiltTo(params, version, builder - 1)

(* The file that is about to be read is the one that was just downloaded,  *)
(* although two builders have a file of the same name.                     *)
FileInv ==
  pc = "read" => /\ File.path \in DOMAIN Sources[version] /\ File.base \in DOMAIN tmp
                 /\ tmp[File.base] = Sources[version][File.path]

ParamsInv ==
  pc \in {"create", "execute"} =>
    version \in DOMAIN Kernel /\ Whole(params, version) /\ Len(params) = Len(builders)

WriteInv == pc = "execute" => Whole(output, version) /\ Len(output) < Len(builders)

OutputInv ==
  /\ \E v \in DOMAIN Kernel : Whole(output, v)
  /\ pc # "execute" /\ ~torn => Len(output) = Len(builders)

(* The tables of a program.                                                *)
TablesAre(t, v) ==
  /\ \A a \in TableNames \ Wider : t[a] = Kernel[v][a]
  /\ \A a \in Wider : Lists(EntriesOf(t[a]), v, a)
  /\ \A a \in TableNames \ {"X32"} : IsInjective(t[a])

ProgramInv ==
  program # <<>> => \E v \in DOMAIN Kernel : \E t, n :
    /\ TablesAre(t, v)
    /\ \A a \in TableNames : n[a] \in invert(t[a])
    /\ program = Infos(t, n)

GeneratorInv ==
  PlaceInv /\ BuildInv /\ FileInv /\ ParamsInv /\ WriteInv /\ OutputInv

TablesInv == GeneratorInv /\ ProgramInv

-----------------------------------------------------------------------------
(* The builders.                                                           *)

LEMMA BuildersAre ==
  /\ Len(builders) = 5 /\ DOMAIN builders = 1 .. 5
  /\ builders[1].name = "ARM" /\ builders[2].name = "AARCH64" /\ builders[3].name = "I386"
  /\ builders[4].name = "X32" /\ builders[5].name = "X86_64"
BY DEF builders

LEMMA FilesAre ==
  ASSUME NEW b \in DOMAIN builders
  PROVE  NFiles(b) \in 1 .. 2 /\ DOMAIN builders[b].files = 1 .. NFiles(b)
<1>1. b \in 1 .. 5
  BY BuildersAre
<1>2. CASE b = 1
  BY <1>2 DEF NFiles, builders, buildARM
<1>3. CASE b = 2
  BY <1>3 DEF NFiles, builders, buildAARCH64
<1>4. CASE b = 3
  BY <1>4 DEF NFiles, builders, build386
<1>5. CASE b = 4
  BY <1>5 DEF NFiles, builders, buildX32
<1>6. CASE b = 5
  BY <1>6 DEF NFiles, builders, buildX86_64
<1> QED BY <1>1, <1>2, <1>3, <1>4, <1>5, <1>6

-----------------------------------------------------------------------------
(* What the builders read.                                                 *)

LEMMA SeqIsSeq ==
  ASSUME NEW R, NEW s \in Seq(R)
  PROVE  IsSeq(s)
<1>1. PICK Q : Q = Range(s)
  OBVIOUS
<1>2. \A i \in 1 .. Len(s) : s[i] \in Q
  BY <1>1 DEF Range
<1>3. s \in Seq(Q)
  BY <1>2
<1> QED BY <1>1, <1>3 DEF IsSeq

LEMMA IsSeqIn ==
  ASSUME NEW R, NEW s, IsSeq(s), Range(s) \subseteq R
  PROVE  s \in Seq(R)
<1>1. PICK Q : Q = Range(s)
  OBVIOUS
<1>2. s \in Seq(Q)
  BY <1>1 DEF IsSeq
<1> QED BY <1>1, <1>2

LEMMA LinesAre ==
  ASSUME NEW v \in DOMAIN Sources, NEW b, NEW n
  PROVE  IsSeq(Lines(v, b, n))
<1>1. PICK path : path = builders[b].files[n].path
  OBVIOUS
<1>2. CASE path \in DOMAIN Sources[v]
  <2>1. Lines(v, b, n) = Sources[v][path]
    BY <1>1, <1>2 DEF Lines
  <2>2. Sources[v][path] \in Seq(Range(Sources[v][path]))
    BY <1>2, SourcesAssumption
  <2> QED BY <2>1, <2>2, Zenon DEF IsSeq
<1>3. CASE path \notin DOMAIN Sources[v]
  <2>1. Lines(v, b, n) = <<>>
    BY <1>1, <1>3 DEF Lines
  <2>2. <<>> \in Seq({})
    OBVIOUS
  <2> QED BY <2>1, <2>2, SeqIsSeq
<1> QED BY <1>2, <1>3

LEMMA PlacesAre ==
  ASSUME NEW v, NEW b, NEW p
  PROVE  p \in Places(v, b) <=>
           \E n \in DOMAIN builders[b].files :
             \E i \in DOMAIN Lines(v, b, n) :
               Taken(builders[b].files[n], Lines(v, b, n)[i]) /\ p = <<n, i>>
BY DEF Places

LEMMA ReadsNone ==
  ASSUME NEW v, NEW b \in DOMAIN builders
  PROVE  Reads(<<>>, v, b, 0)
<1>1. IsSeq(<<>>)
  <2>1. <<>> \in Seq({})
    OBVIOUS
  <2> QED BY <2>1, SeqIsSeq
<1>2. Distinct(<<>>) /\ Range(<<>>) = {}
  BY DEF Distinct, Range
<1>3. PlacesTo(v, b, 0) = {}
  <2> SUFFICES ASSUME NEW p \in Places(v, b), p[1] <= 0 PROVE FALSE
    BY DEF PlacesTo
  <2>1. PICK n \in DOMAIN builders[b].files : \E i : p = <<n, i>>
    BY PlacesAre
  <2> QED BY <2>1, FilesAre
<1> QED BY <1>1, <1>2, <1>3 DEF Reads

(* Another file of the builder is read.                                    *)
LEMMA ReadsNext ==
  ASSUME NEW v \in DOMAIN Sources, NEW b \in DOMAIN builders,
         NEW n \in DOMAIN builders[b].files, NEW rows, Reads(rows, v, b, n - 1)
  PROVE  Reads(rows \o readSyscalls(builders[b].files[n], Lines(v, b, n)), v, b, n)
<1>1. PICK f, l : f = builders[b].files[n] /\ l = Lines(v, b, n)
  OBVIOUS
<1>2. PICK s, u : s = readSyscalls(f, l) /\ u = rows \o s
  OBVIOUS
<1>3. PICK L : l \in Seq(L)
  BY <1>1, LinesAre DEF IsSeq
<1>4. PICK R : R = Range(rows) \cup {Syscall(f, l[i]) : i \in DOMAIN l}
  OBVIOUS
<1>5. rows \in Seq(R)
  BY <1>4, IsSeqIn DEF Reads
<1>6. ReadOf(f, l, Len(l), s, R)
  <2>1. \A i \in DOMAIN l : Taken(f, l[i]) => Syscall(f, l[i]) \in R
    BY <1>4
  <2> QED BY <1>2, <1>3, <2>1, ReadSyscallsReads
<1>7. /\ u \in Seq(R) /\ Len(u) = Len(rows) + Len(s) /\ Len(rows) \in Nat /\ Len(s) \in Nat
      /\ DOMAIN u = 1 .. (Len(rows) + Len(s)) /\ DOMAIN rows = 1 .. Len(rows)
      /\ DOMAIN s = 1 .. Len(s)
      /\ \A i \in 1 .. Len(rows) : u[i] = rows[i]
      /\ \A i \in 1 .. Len(s) : u[Len(rows) + i] = s[i]
  <2>1. s \in Seq(R)
    BY <1>6 DEF ReadOf
  <2> QED BY <1>2, <1>5, <2>1
<1>8. n \in Nat /\ n - 1 < n
  BY FilesAre
<1>9. \A i : i \in LineRows(f, l, Len(l)) <=> i \in DOMAIN l /\ Taken(f, l[i])
  BY <1>3 DEF LineRows
<1>10. \A i \in LineRows(f, l, Len(l)) :
         /\ <<n, i>> \in PlacesTo(v, b, n) /\ <<n, i>> \in Places(v, b)
         /\ RowAt(v, b, <<n, i>>) = Syscall(f, l[i])
  <2> TAKE i \in LineRows(f, l, Len(l))
  <2>1. i \in DOMAIN l /\ Taken(f, l[i])
    BY <1>9
  <2>2. <<n, i>> \in Places(v, b)
    BY <1>1, <2>1, PlacesAre
  <2>3. RowAt(v, b, <<n, i>>) = Syscall(f, l[i])
    BY <1>1 DEF RowAt
  <2> QED BY <1>8, <2>2, <2>3 DEF PlacesTo
<1>11. PlacesTo(v, b, n - 1) \subseteq PlacesTo(v, b, n) /\ PlacesTo(v, b, n) \subseteq Places(v, b)
  <2>1. ASSUME NEW p \in Places(v, b)
        PROVE  p[1] \in Nat
    <3>1. PICK m \in DOMAIN builders[b].files : \E i : p = <<m, i>>
      BY PlacesAre
    <3> QED BY <3>1, FilesAre
  <2> QED BY <1>8, <2>1 DEF PlacesTo
<1>12. ASSUME NEW p \in PlacesTo(v, b, n)
       PROVE  p \in PlacesTo(v, b, n - 1) \/ \E i \in LineRows(f, l, Len(l)) : p = <<n, i>>
  <2>1. p \in Places(v, b) /\ p[1] <= n
    BY DEF PlacesTo
  <2>2. PICK m \in DOMAIN builders[b].files :
          \E i \in DOMAIN Lines(v, b, m) :
            Taken(builders[b].files[m], Lines(v, b, m)[i]) /\ p = <<m, i>>
    BY <2>1, PlacesAre
  <2>3. m \in Nat /\ p[1] = m
    BY <2>2, FilesAre
  <2>4. CASE m = n
    BY <1>1, <1>9, <2>2, <2>4
  <2>5. CASE m # n
    BY <1>8, <2>1, <2>3, <2>5 DEF PlacesTo
  <2> QED BY <2>4, <2>5
<1>13. ASSUME NEW i \in DOMAIN u
       PROVE  \E p \in PlacesTo(v, b, n) : u[i] = RowAt(v, b, p)
  <2>1. CASE i <= Len(rows)
    <3>1. i \in DOMAIN rows /\ u[i] = rows[i]
      BY <1>7, <2>1
    <3>2. rows[i] \in Range(rows)
      BY <3>1 DEF Range
    <3>3. PICK p \in PlacesTo(v, b, n - 1) : rows[i] = RowAt(v, b, p)
      BY <3>2 DEF Reads
    <3> QED BY <1>11, <3>1, <3>3
  <2>2. CASE ~(i <= Len(rows))
    <3>1. i - Len(rows) \in DOMAIN s /\ u[i] = s[i - Len(rows)]
      BY <1>7, <2>2
    <3>2. PICK j \in LineRows(f, l, Len(l)) : s[i - Len(rows)] = Syscall(f, l[j])
      BY <1>6, <3>1 DEF ReadOf
    <3> QED BY <1>10, <3>1, <3>2
  <2> QED BY <2>1, <2>2
<1>14. ASSUME NEW p \in PlacesTo(v, b, n)
       PROVE  \E i \in DOMAIN u : u[i] = RowAt(v, b, p)
  <2>1. CASE p \in PlacesTo(v, b, n - 1)
    <3>1. RowAt(v, b, p) \in Range(rows)
      BY <2>1 DEF Reads
    <3>2. PICK i \in DOMAIN rows : rows[i] = RowAt(v, b, p)
      BY <3>1 DEF Range
    <3> QED BY <1>7, <3>2
  <2>2. CASE \E i \in LineRows(f, l, Len(l)) : p = <<n, i>>
    <3>1. PICK i \in LineRows(f, l, Len(l)) : p = <<n, i>>
      BY <2>2
    <3>2. PICK j \in DOMAIN s : s[j] = Syscall(f, l[i])
      BY <1>6, <3>1 DEF ReadOf
    <3>3. Len(rows) + j \in DOMAIN u /\ u[Len(rows) + j] = s[j]
      BY <1>7, <3>2
    <3> QED BY <1>10, <3>1, <3>2, <3>3
  <2> QED BY <1>12, <2>1, <2>2
<1>15. Range(u) = {RowAt(v, b, p) : p \in PlacesTo(v, b, n)}
  BY <1>13, <1>14 DEF Range
<1>16. ASSUME Once(v, b)
       PROVE  Distinct(u)
  <2>1. Distinct(rows)
    BY <1>16 DEF Reads
  <2>2. Distinct(s)
    <3>1. \A i, j \in LineRows(f, l, Len(l)) :
            Syscall(f, l[i]).num = Syscall(f, l[j]).num => i = j
      <4> TAKE i, j \in LineRows(f, l, Len(l))
      <4> HAVE Syscall(f, l[i]).num = Syscall(f, l[j]).num
      <4>1. <<n, i>> = <<n, j>>
        BY <1>10, <1>16 DEF Once
      <4> QED BY <4>1
    <3> QED BY <1>6, <3>1 DEF ReadOf
  <2>3. ASSUME NEW i \in DOMAIN rows, NEW j \in DOMAIN s
        PROVE  rows[i].num # s[j].num
    <3>1. rows[i] \in Range(rows)
      BY DEF Range
    <3>2. PICK p \in PlacesTo(v, b, n - 1) : rows[i] = RowAt(v, b, p)
      BY <3>1 DEF Reads
    <3>3. PICK k \in LineRows(f, l, Len(l)) : s[j] = Syscall(f, l[k])
      BY <1>6 DEF ReadOf
    <3>4. p \in Places(v, b) /\ p # <<n, k>>
      BY <1>8 DEF PlacesTo
    <3>5. RowAt(v, b, p).num # RowAt(v, b, <<n, k>>).num
      BY <1>10, <1>16, <3>4 DEF Once
    <3> QED BY <1>10, <3>2, <3>3, <3>5
  <2> SUFFICES ASSUME NEW i \in DOMAIN u, NEW j \in DOMAIN u, u[i].num = u[j].num
               PROVE  i = j
    BY DEF Distinct
  <2>4. \A k \in DOMAIN u : \/ k \in DOMAIN rows /\ u[k] = rows[k]
                            \/ k - Len(rows) \in DOMAIN s /\ u[k] = s[k - Len(rows)]
    BY <1>7
  <2>5. CASE i \in DOMAIN rows /\ u[i] = rows[i]
    BY <2>1, <2>3, <2>4, <2>5 DEF Distinct
  <2>6. CASE i - Len(rows) \in DOMAIN s /\ u[i] = s[i - Len(rows)]
    <3>1. CASE j \in DOMAIN rows /\ u[j] = rows[j]
      BY <2>3, <2>6, <3>1
    <3>2. CASE j - Len(rows) \in DOMAIN s /\ u[j] = s[j - Len(rows)]
      <4>1. i - Len(rows) = j - Len(rows)
        BY <2>2, <2>6, <3>2 DEF Distinct
      <4> QED BY <1>7, <4>1
    <3> QED BY <2>4, <3>1, <3>2
  <2> QED BY <2>4, <2>5, <2>6
<1>17. IsSeq(u)
  BY <1>7, SeqIsSeq
<1>18. Reads(u, v, b, n)
  BY <1>15, <1>16, <1>17 DEF Reads
<1> QED BY <1>1, <1>2, <1>18, Zenon

(* Sorted rows are the same rows.                                          *)
LEMMA ReadsSort ==
  ASSUME NEW v, NEW b, NEW n, NEW rows, Reads(rows, v, b, n)
  PROVE  Reads(Sort(rows), v, b, n)
<1>1. PICK R : R = Range(rows)
  OBVIOUS
<1>2. rows \in Seq(R)
  BY <1>1 DEF Reads, IsSeq
<1>3. PICK t : t = Sort(rows)
  OBVIOUS
<1>4. Sorts(t, rows, Len(rows), R)
  BY <1>2, <1>3, SortSorts
<1>5. IsSeq(t)
  BY <1>4, SeqIsSeq DEF Sorts
<1>6. Range(t) = Range(rows)
  <2>1. DOMAIN rows = 1 .. Len(rows)
    BY <1>2
  <2>2. \A i \in DOMAIN rows : \E j \in DOMAIN t : t[j] = rows[i]
    BY <1>4, <2>1, Zenon DEF Sorts
  <2>3. \A j \in DOMAIN t : \E i \in DOMAIN rows : t[j] = rows[i]
    BY <1>4, <2>1, Zenon DEF Sorts
  <2> QED BY <2>2, <2>3 DEF Range
<1>7. Reads(t, v, b, n)
  BY <1>4, <1>5, <1>6 DEF Reads, Sorts
<1> QED BY <1>3, <1>7, Zenon

(* A builder takes from a file what makes its table, but for lines that    *)
(* are in no file, and nothing that does not look like it.                 *)
Missed(t, line) ==
  \/ t = "X32" /\ line.abi = "x64"
  \/ t = "AARCH64" /\ line.name = "sync_file_range2"

FileFits(f, t) ==
  /\ f.path \in KernelPaths
  /\ f.path \in {ArmTbl, X86Tbl32, X86Tbl64} => f.format = "table"
  /\ \A line : Gives(t, f.path, line) /\ ~Missed(t, line) => Taken(f, line)
  /\ \A line : Taken(f, line) => Looks(t, f.path, line)
  /\ \A line : Syscall(f, line) =
                 Entry(line.num + (IF f.path = ArmUnistd THEN ArmBase ELSE 0), line.name)

LEMMA TableFileFits ==
  ASSUME NEW path, NEW base, NEW excluded, NEW t, path \in {ArmTbl, X86Tbl32, X86Tbl64},
         \/ t = "ARM" /\ path = ArmTbl /\ excluded = {"oabi"}
         \/ t = "I386" /\ path = X86Tbl32 /\ excluded = {}
         \/ t = "X32" /\ path = X86Tbl64 /\ excluded = {"x64"}
         \/ t = "X86_64" /\ path = X86Tbl64 /\ excluded = {"x32"}
  PROVE  FileFits(TableFile(path, base, excluded), t)
<1>1. PICK f : f = TableFile(path, base, excluded)
  OBVIOUS
<1>2. f.path = path /\ f.format = "table" /\ f.excluded = excluded
  BY <1>1 DEF TableFile
<1>3. \A line : Taken(f, line) <=> line.kind = "row" /\ line.abi \notin excluded
  BY <1>2 DEF Taken
<1>4. path \in KernelPaths /\ path # ArmUnistd /\ path # Unistd
  BY DEF KernelPaths, ArmTbl, ArmUnistd, Unistd, X86Tbl32, X86Tbl64
<1>5. \A line : Syscall(f, line) =
                  Entry(line.num + (IF f.path = ArmUnistd THEN ArmBase ELSE 0), line.name)
  BY SMT, <1>2, <1>4 DEF Syscall, Entry
<1>6. ASSUME NEW line
      PROVE  /\ Gives(t, f.path, line) /\ ~Missed(t, line) => Taken(f, line)
             /\ Taken(f, line) => Looks(t, f.path, line)
  <2>1. CASE t = "ARM" /\ path = ArmTbl /\ excluded = {"oabi"}
    BY <1>2, <1>3, <1>4, <2>1 DEF Gives, Looks, Missed
  <2>2. CASE t = "I386" /\ path = X86Tbl32 /\ excluded = {}
    BY <1>2, <1>3, <1>4, <2>2 DEF Gives, Looks, Missed
  <2>3. CASE t = "X32" /\ path = X86Tbl64 /\ excluded = {"x64"}
    BY <1>2, <1>3, <1>4, <2>3 DEF Gives, Looks, Missed
  <2>4. CASE t = "X86_64" /\ path = X86Tbl64 /\ excluded = {"x32"}
    BY <1>2, <1>3, <1>4, <2>4 DEF Gives, Looks, Missed
  <2> QED BY <2>1, <2>2, <2>3, <2>4
<1>7. FileFits(f, t)
  BY <1>2, <1>4, <1>5, <1>6 DEF FileFits
<1> QED BY <1>1, <1>7, Zenon

LEMMA HeaderFileFits ==
  ASSUME NEW path, NEW base, NEW macro, NEW offset, NEW omit, NEW t,
         \/ /\ t = "ARM" /\ path = ArmUnistd /\ macro = "__ARM_NR" /\ offset = armNrBase
            /\ omit = {}
         \/ /\ t = "AARCH64" /\ path = Unistd /\ macro = "__NR" /\ offset = 0
            /\ omit = {"syscalls", "sync_file_range2"}
  PROVE  FileFits(HeaderFile(path, base, macro, offset, omit), t)
<1>1. PICK f : f = HeaderFile(path, base, macro, offset, omit)
  OBVIOUS
<1>2. /\ f.path = path /\ f.format = "header" /\ f.macro = macro /\ f.offset = offset
      /\ f.omit = omit
  BY <1>1 DEF HeaderFile
<1>3. \A line : Taken(f, line) <=> line.kind = "define" /\ line.macro = macro /\ line.name \notin omit
  BY <1>2 DEF Taken
<1>4. path \in KernelPaths /\ path \notin {ArmTbl, X86Tbl32, X86Tbl64} /\ ArmUnistd # Unistd
  BY DEF KernelPaths, ArmTbl, ArmUnistd, Unistd, X86Tbl32, X86Tbl64
<1>5. offset = IF path = ArmUnistd THEN ArmBase ELSE 0
  BY SMT, <1>4 DEF armNrBase, ArmBase
<1>6. \A line : Syscall(f, line) =
                  Entry(line.num + (IF f.path = ArmUnistd THEN ArmBase ELSE 0), line.name)
  BY SMT, <1>2, <1>5 DEF Syscall, Entry
<1>7. ASSUME NEW line
      PROVE  /\ Gives(t, f.path, line) /\ ~Missed(t, line) => Taken(f, line)
             /\ Taken(f, line) => Looks(t, f.path, line)
  <2>1. CASE t = "ARM" /\ path = ArmUnistd /\ macro = "__ARM_NR" /\ omit = {}
    BY <1>2, <1>3, <1>4, <2>1 DEF Gives, Looks, Missed
  <2>2. CASE t = "AARCH64" /\ path = Unistd /\ macro = "__NR" /\ omit = {"syscalls", "sync_file_range2"}
    BY <1>2, <1>3, <1>4, <2>2 DEF Gives, Looks, Missed
  <2> QED BY <2>1, <2>2
<1>8. FileFits(f, t)
  <2>1. f.path \notin {ArmTbl, X86Tbl32, X86Tbl64} /\ f.path \in KernelPaths
    BY <1>2, <1>4
  <2> QED BY <1>6, <1>7, <2>1, Zenon DEF FileFits
<1> QED BY <1>1, <1>8, Zenon

(* The file of a builder that has a path; none has two.                    *)
LEMMA BuildersFit ==
  ASSUME NEW b \in DOMAIN builders
  PROVE  /\ \A n \in DOMAIN builders[b].files : FileFits(builders[b].files[n], builders[b].name)
         /\ \A m, n \in DOMAIN builders[b].files :
              builders[b].files[m].path = builders[b].files[n].path => m = n
         /\ \A path, line : Gives(builders[b].name, path, line) =>
              \E n \in DOMAIN builders[b].files : builders[b].files[n].path = path
<1>1. b \in 1 .. 5
  BY BuildersAre
<1>2. CASE b = 1
  <2>1. PICK f, g : /\ f = TableFile(ArmTbl, "syscall.tbl", {"oabi"})
                    /\ g = HeaderFile(ArmUnistd, "unistd.h", "__ARM_NR", armNrBase, {})
    OBVIOUS
  <2>2. builders[b].files = <<f, g>> /\ builders[b].name = "ARM"
    BY SMT, <1>2, <2>1 DEF builders, buildARM, ArmTbl, ArmUnistd
  <2>3. FileFits(f, "ARM") /\ FileFits(g, "ARM")
    BY <2>1, TableFileFits, HeaderFileFits
  <2>4. f.path = ArmTbl /\ g.path = ArmUnistd /\ ArmTbl # ArmUnistd
    BY <2>1 DEF TableFile, HeaderFile, ArmTbl, ArmUnistd
  <2>5. \A path, line : Gives("ARM", path, line) => path = ArmTbl \/ path = ArmUnistd
    BY DEF Gives
  <2>6. builders[b].files[1] = f /\ builders[b].files[2] = g /\ DOMAIN builders[b].files = {1, 2}
    BY <2>2
  <2> QED BY <2>2, <2>3, <2>4, <2>5, <2>6
<1>3. CASE b = 2
  <2>1. PICK f : f = HeaderFile(Unistd, "unistd.h", "__NR", 0, {"syscalls", "sync_file_range2"})
    OBVIOUS
  <2>2. builders[b].files = <<f>> /\ builders[b].name = "AARCH64"
    BY <1>3, <2>1 DEF builders, buildAARCH64, Unistd
  <2>3. FileFits(f, "AARCH64")
    BY <2>1, HeaderFileFits
  <2>4. f.path = Unistd
    BY <2>1 DEF HeaderFile
  <2>5. \A path, line : Gives("AARCH64", path, line) => path = Unistd
    BY DEF Gives
  <2>6. builders[b].files[1] = f /\ DOMAIN builders[b].files = {1}
    BY <2>2
  <2> QED BY <2>2, <2>3, <2>4, <2>5, <2>6
<1>4. CASE b = 3
  <2>1. PICK f : f = TableFile(X86Tbl32, "syscall_32.tbl", {})
    OBVIOUS
  <2>2. builders[b].files = <<f>> /\ builders[b].name = "I386"
    BY <1>4, <2>1 DEF builders, build386, X86Tbl32
  <2>3. FileFits(f, "I386")
    BY <2>1, TableFileFits
  <2>4. f.path = X86Tbl32
    BY <2>1 DEF TableFile
  <2>5. \A path, line : Gives("I386", path, line) => path = X86Tbl32
    BY DEF Gives
  <2>6. builders[b].files[1] = f /\ DOMAIN builders[b].files = {1}
    BY <2>2
  <2> QED BY <2>2, <2>3, <2>4, <2>5, <2>6
<1>5. CASE b = 4
  <2>1. PICK f : f = TableFile(X86Tbl64, "syscall_64.tbl", {"x64"})
    OBVIOUS
  <2>2. builders[b].files = <<f>> /\ builders[b].name = "X32"
    BY <1>5, <2>1 DEF builders, buildX32, X86Tbl64
  <2>3. FileFits(f, "X32")
    BY <2>1, TableFileFits
  <2>4. f.path = X86Tbl64
    BY <2>1 DEF TableFile
  <2>5. \A path, line : Gives("X32", path, line) => path = X86Tbl64
    BY DEF Gives
  <2>6. builders[b].files[1] = f /\ DOMAIN builders[b].files = {1}
    BY <2>2
  <2> QED BY <2>2, <2>3, <2>4, <2>5, <2>6
<1>6. CASE b = 5
  <2>1. PICK f : f = TableFile(X86Tbl64, "syscall_64.tbl", {"x32"})
    OBVIOUS
  <2>2. builders[b].files = <<f>> /\ builders[b].name = "X86_64"
    BY <1>6, <2>1 DEF builders, buildX86_64, X86Tbl64
  <2>3. FileFits(f, "X86_64")
    BY <2>1, TableFileFits
  <2>4. f.path = X86Tbl64
    BY <2>1 DEF TableFile
  <2>5. \A path, line : Gives("X86_64", path, line) => path = X86Tbl64
    BY DEF Gives
  <2>6. builders[b].files[1] = f /\ DOMAIN builders[b].files = {1}
    BY <2>2
  <2> QED BY <2>2, <2>3, <2>4, <2>5, <2>6
<1> QED BY <1>1, <1>2, <1>3, <1>4, <1>5, <1>6

LEMMA TablesBuilt ==
  /\ \A t \in TableNames : \E b \in DOMAIN builders : builders[b].name = t
  /\ \A b \in DOMAIN builders : builders[b].name \in TableNames
<1>1. \A t \in TableNames : \E b \in DOMAIN builders : builders[b].name = t
  <2>1. 1 \in 1 .. 5 /\ 2 \in 1 .. 5 /\ 3 \in 1 .. 5 /\ 4 \in 1 .. 5 /\ 5 \in 1 .. 5
    OBVIOUS
  <2> QED BY <2>1, BuildersAre DEF TableNames
<1>2. \A b \in DOMAIN builders : builders[b].name \in TableNames
  <2> SUFFICES ASSUME NEW b \in 1 .. 5 PROVE builders[b].name \in TableNames
    BY BuildersAre
  <2>1. b = 1 \/ b = 2 \/ b = 3 \/ b = 4 \/ b = 5
    OBVIOUS
  <2> QED BY <2>1, BuildersAre DEF TableNames
<1> QED BY <1>1, <1>2

LEMMA NotForArm64 ==
  ASSUME NEW v \in DOMAIN Sources, Unistd \in DOMAIN Sources[v],
         NEW line \in Range(Sources[v][Unistd]), line.kind = "define",
         line.name = "sync_file_range2"
  PROVE  line.guarded
<1>1. PICK i \in DOMAIN Sources[v][Unistd] : line = Sources[v][Unistd][i]
  BY DEF Range
<1> QED BY <1>1, SourcesAssumption, Zenon

(* A line that no builder stops at is in a form that can be read.          *)
LEMMA UnderstoodReadable ==
  ASSUME NEW v \in DOMAIN Sources, Understood(v)
  PROVE  Readable(v)
<1>1. ASSUME NEW b \in DOMAIN builders, NEW n \in DOMAIN builders[b].files
      PROVE  /\ builders[b].files[n].path \in DOMAIN Sources[v]
             /\ \A line \in Range(Sources[v][builders[b].files[n].path]) :
                  ~Refused(builders[b].files[n], line)
  <2>1. PICK f : f = builders[b].files[n]
    OBVIOUS
  <2>2. Passed(v, b, n)
    BY Zenon DEF Understood
  <2>3. f.path \in DOMAIN Sources[v] /\ Lines(v, b, n) = Sources[v][f.path]
    BY <2>1, <2>2 DEF Passed, Lines
  <2>4. \A i \in DOMAIN Sources[v][f.path] : ~Refused(f, Sources[v][f.path][i])
    BY <2>1, <2>2, <2>3, Zenon DEF Passed
  <2> QED BY <2>1, <2>3, <2>4, Zenon DEF Range
<1>2. ASSUME NEW path \in KernelPaths
      PROVE  \E b \in DOMAIN builders : \E n \in DOMAIN builders[b].files :
               builders[b].files[n].path = path
  <2>1. \E t \in TableNames : \E line : Gives(t, path, line)
    <3>1. CASE path = ArmTbl
      <4>1. Gives("ARM", path, [kind |-> "row", abi |-> ""])
        BY <3>1 DEF Gives
      <4> QED BY <4>1 DEF TableNames
    <3>2. CASE path = ArmUnistd
      <4>1. Gives("ARM", path, [kind |-> "define", macro |-> "__ARM_NR"])
        BY <3>2 DEF Gives
      <4> QED BY <4>1 DEF TableNames
    <3>3. CASE path = Unistd
      <4>1. Gives("AARCH64", path, [kind |-> "define", macro |-> "__NR", name |-> "",
                                    guarded |-> FALSE])
        BY <3>3 DEF Gives
      <4> QED BY <4>1 DEF TableNames
    <3>4. CASE path = X86Tbl32
      <4>1. Gives("I386", path, [kind |-> "row"])
        BY <3>4 DEF Gives
      <4> QED BY <4>1 DEF TableNames
    <3>5. CASE path = X86Tbl64
      <4>1. Gives("X86_64", path, [kind |-> "row", abi |-> ""])
        BY <3>5 DEF Gives
      <4> QED BY <4>1 DEF TableNames
    <3> QED BY <3>1, <3>2, <3>3, <3>4, <3>5 DEF KernelPaths
  <2>2. PICK t \in TableNames : \E line : Gives(t, path, line)
    BY <2>1
  <2>3. PICK b \in DOMAIN builders : builders[b].name = t
    BY TablesBuilt
  <2> QED BY <2>2, <2>3, BuildersFit
<1>3. ASSUME NEW path \in KernelPaths
      PROVE  /\ path \in DOMAIN Sources[v]
             /\ \A line \in Range(Sources[v][path]) :
                  /\ line.kind # "overlong"
                  /\ path \in {ArmTbl, X86Tbl32, X86Tbl64} => line.kind # "short"
  <2>1. PICK b \in DOMAIN builders : \E n \in DOMAIN builders[b].files :
          builders[b].files[n].path = path
    BY <1>2
  <2>2. PICK n \in DOMAIN builders[b].files : builders[b].files[n].path = path
    BY <2>1
  <2>3. PICK f : f = builders[b].files[n]
    OBVIOUS
  <2>4. f.path = path /\ (path \in {ArmTbl, X86Tbl32, X86Tbl64} => f.format = "table")
    BY <2>2, <2>3, BuildersFit, Zenon DEF FileFits
  <2>5. path \in DOMAIN Sources[v] /\ \A line \in Range(Sources[v][path]) : ~Refused(f, line)
    BY <1>1, <2>2, <2>3, Zenon
  <2> QED BY <2>4, <2>5, Zenon DEF Refused
<1>4. ASSUME NEW path \in KernelPaths, NEW line \in Range(Sources[v][path]),
             NEW t \in TableNames, Gives(t, path, line), ~Missed(t, line)
      PROVE  line.num # NotANumber
  <2>1. PICK b \in DOMAIN builders : builders[b].name = t
    BY TablesBuilt
  <2>2. PICK n \in DOMAIN builders[b].files : builders[b].files[n].path = path
    BY <1>4, <2>1, BuildersFit
  <2>3. PICK f : f = builders[b].files[n]
    OBVIOUS
  <2>4. Taken(f, line)
    BY <1>4, <2>1, <2>2, <2>3, BuildersFit, Zenon DEF FileFits
  <2>5. ~Refused(f, line)
    BY <1>1, <2>2, <2>3, Zenon
  <2> QED BY <2>4, <2>5, Zenon DEF Refused
<1>5. ASSUME NEW path \in KernelPaths, NEW line \in Range(Sources[v][path]),
             NEW t \in TableNames, Gives(t, path, line)
      PROVE  line.num # NotANumber
  <2>1. CASE ~Missed(t, line)
    BY <1>4, <1>5, <2>1
  <2>2. CASE t = "X32" /\ line.abi = "x64"
    <3>1. Gives("X86_64", path, line)
      BY <1>5, <2>2 DEF Gives
    <3>2. "X86_64" \in TableNames /\ ~Missed("X86_64", line)
      BY DEF TableNames, Missed
    <3> QED BY <1>4, <3>1, <3>2
  <2>3. CASE t = "AARCH64" /\ line.name = "sync_file_range2"
    <3>1. path = Unistd /\ line.kind = "define" /\ ~line.guarded
      BY <1>5, <2>3 DEF Gives
    <3> QED BY <1>3, <2>3, <3>1, NotForArm64
  <2> QED BY <2>1, <2>2, <2>3 DEF Missed
<1> QED BY <1>3, <1>5, Zenon DEF Readable

(* What the assumption says of a version that is understood.               *)
LEMMA VersionGiven ==
  ASSUME NEW v \in DOMAIN Sources, Understood(v)
  PROVE  /\ v \in DOMAIN Kernel
         /\ \A i \in DOMAIN Sources[v][X86Tbl64] :
              Sources[v][X86Tbl64][i].kind = "row" => Sources[v][X86Tbl64][i].abi # "x64"
<1>1. Readable(v)
  BY UnderstoodReadable
<1> QED BY <1>1, SourcesAssumption, Zenon

LEMMA TableGiven ==
  ASSUME NEW v \in DOMAIN Sources, Understood(v), NEW t \in TableNames
  PROVE  /\ {EntryAt(v, p) : p \in Given(v, t)} = EntriesOf(Kernel[v][t])
         /\ \A p, q \in Looking(v, t) :
              /\ EntryAt(v, p).num = EntryAt(v, q).num => p = q
              /\ t # "X32" /\ EntryAt(v, p).name = EntryAt(v, q).name => p = q
<1>1. Readable(v)
  BY UnderstoodReadable
<1> QED BY <1>1, SourcesAssumption, Zenon

(* A place of a builder and the place of the kernel's files it is.         *)
PlaceIs(v, b, p, n, i) ==
  /\ n \in DOMAIN builders[b].files /\ p = <<n, i>>
  /\ RowAt(v, b, p) = EntryAt(v, <<builders[b].files[n].path, i>>)
  /\ <<builders[b].files[n].path, i>> \in Looking(v, builders[b].name)

LEMMA PlaceGiven ==
  ASSUME NEW v \in DOMAIN Sources, Understood(v), NEW b \in DOMAIN builders, NEW p \in Places(v, b)
  PROVE  \E n, i : PlaceIs(v, b, p, n, i)
<1>1. PICK n \in DOMAIN builders[b].files :
        \E i \in DOMAIN Lines(v, b, n) :
          Taken(builders[b].files[n], Lines(v, b, n)[i]) /\ p = <<n, i>>
  BY PlacesAre
<1>2. PICK i \in DOMAIN Lines(v, b, n) :
        Taken(builders[b].files[n], Lines(v, b, n)[i]) /\ p = <<n, i>>
  BY <1>1
<1>3. PICK f, t : f = builders[b].files[n] /\ t = builders[b].name
  OBVIOUS
<1>4. f.path \in DOMAIN Sources[v] /\ Lines(v, b, n) = Sources[v][f.path]
  BY <1>3 DEF Understood, Passed, Lines
<1>5. PICK line : line = Sources[v][f.path][i]
  OBVIOUS
<1>6. i \in DOMAIN Sources[v][f.path] /\ Taken(f, line)
  BY <1>2, <1>3, <1>4, <1>5
<1>7. FileFits(f, t)
  BY <1>3, BuildersFit
<1>8. RowAt(v, b, p) = EntryAt(v, <<f.path, i>>)
  <2>1. RowAt(v, b, p) = Syscall(f, line)
    BY <1>2, <1>3, <1>4, <1>5 DEF RowAt
  <2>2. Syscall(f, line) = Entry(line.num + (IF f.path = ArmUnistd THEN ArmBase ELSE 0), line.name)
    BY <1>7, Zenon DEF FileFits
  <2>3. PICK x : x = <<f.path, i>>
    OBVIOUS
  <2>4. x[1] = f.path /\ x[2] = i
    BY <2>3
  <2>5. EntryAt(v, x) = Entry(line.num + (IF f.path = ArmUnistd THEN ArmBase ELSE 0), line.name)
    BY <1>5, <2>4, Zenon DEF EntryAt
  <2> QED BY <2>1, <2>2, <2>3, <2>5, Zenon
<1>9. <<f.path, i>> \in Looking(v, t)
  <2>1. Looks(t, f.path, line) /\ f.path \in KernelPaths
    BY <1>6, <1>7, Zenon DEF FileFits
  <2> QED BY <1>5, <1>6, <2>1 DEF Looking
<1>10. PlaceIs(v, b, p, n, i)
  BY <1>2, <1>3, <1>8, <1>9, Zenon DEF PlaceIs
<1> QED BY <1>10

(* And the other way round.                                                *)
LEMMA GivenPlace ==
  ASSUME NEW v \in DOMAIN Sources, Understood(v), NEW b \in DOMAIN builders,
         NEW x \in Given(v, builders[b].name)
  PROVE  \E p \in Places(v, b) : RowAt(v, b, p) = EntryAt(v, x)
<1>1. PICK t : t = builders[b].name
  OBVIOUS
<1>2. PICK path \in KernelPaths : \E i \in DOMAIN Sources[v][path] :
        Gives(t, path, Sources[v][path][i]) /\ x = <<path, i>>
  BY <1>1 DEF Given
<1>3. PICK i \in DOMAIN Sources[v][path] : Gives(t, path, Sources[v][path][i]) /\ x = <<path, i>>
  BY <1>2
<1>4. PICK line : line = Sources[v][path][i]
  OBVIOUS
<1>5. PICK n \in DOMAIN builders[b].files : builders[b].files[n].path = path
  BY <1>1, <1>3, BuildersFit
<1>6. PICK f : f = builders[b].files[n]
  OBVIOUS
<1>7. Lines(v, b, n) = Sources[v][path]
  BY <1>5 DEF Understood, Passed, Lines
<1>8. ~Missed(t, line)
  <2>1. CASE t = "X32"
    <3>1. path = X86Tbl64 /\ line.kind = "row"
      BY <1>3, <1>4, <2>1 DEF Gives
    <3>2. line.abi # "x64"
      BY <1>3, <1>4, <3>1, VersionGiven
    <3> QED BY <2>1, <3>2 DEF Missed
  <2>2. CASE t = "AARCH64"
    <3>1. path = Unistd /\ line.kind = "define" /\ ~line.guarded
      BY <1>3, <1>4, <2>2 DEF Gives
    <3>2. Unistd \in DOMAIN Sources[v]
      BY <1>5, <3>1 DEF Understood, Passed
    <3>3. line \in Range(Sources[v][Unistd])
      BY <1>3, <1>4, <3>1 DEF Range
    <3> QED BY <2>2, <3>1, <3>2, <3>3, NotForArm64 DEF Missed
  <2>3. CASE t # "X32" /\ t # "AARCH64"
    BY <2>3 DEF Missed
  <2> QED BY <2>1, <2>2, <2>3
<1>9. Taken(f, line)
  <2>1. FileFits(f, t)
    BY <1>1, <1>6, BuildersFit
  <2>2. Gives(t, f.path, line)
    BY <1>3, <1>4, <1>5, <1>6, Zenon
  <2> QED BY <1>8, <2>1, <2>2, Zenon DEF FileFits
<1>10. <<n, i>> \in Places(v, b)
  BY <1>3, <1>4, <1>6, <1>7, <1>9, PlacesAre
<1>11. RowAt(v, b, <<n, i>>) = EntryAt(v, x)
  <2>1. PICK m, j : PlaceIs(v, b, <<n, i>>, m, j)
    BY <1>10, PlaceGiven
  <2>2. m = n /\ j = i
    BY <2>1 DEF PlaceIs
  <2>3. RowAt(v, b, <<n, i>>) = EntryAt(v, <<builders[b].files[m].path, j>>)
    BY <2>1, Zenon DEF PlaceIs
  <2> QED BY <1>3, <1>5, <2>2, <2>3, Zenon
<1> QED BY <1>10, <1>11

LEMMA UnderstoodOnce ==
  ASSUME NEW v \in DOMAIN Sources, Understood(v), NEW b \in DOMAIN builders
  PROVE  Once(v, b)
<1> SUFFICES ASSUME NEW p \in Places(v, b), NEW q \in Places(v, b),
                    RowAt(v, b, p).num = RowAt(v, b, q).num
             PROVE  p = q
  BY DEF Once
<1>1. PICK t, F : t = builders[b].name /\ F = builders[b].files
  OBVIOUS
<1>2. PICK n, i : PlaceIs(v, b, p, n, i)
  BY PlaceGiven
<1>3. PICK m, j : PlaceIs(v, b, q, m, j)
  BY PlaceGiven
<1>4. EntryAt(v, <<F[n].path, i>>).num = EntryAt(v, <<F[m].path, j>>).num
  BY <1>1, <1>2, <1>3, Zenon DEF PlaceIs
<1>5. F[n].path = F[m].path /\ i = j
  <2>1. t \in TableNames
    BY <1>1, TablesBuilt
  <2>2. <<F[n].path, i>> \in Looking(v, t) /\ <<F[m].path, j>> \in Looking(v, t)
    BY <1>1, <1>2, <1>3, Zenon DEF PlaceIs
  <2>3. <<F[n].path, i>> = <<F[m].path, j>>
    <3>1. \A x, y \in Looking(v, t) : EntryAt(v, x).num = EntryAt(v, y).num => x = y
      BY <2>1, TableGiven
    <3> QED BY <1>4, <2>2, <3>1, Zenon
  <2> QED BY <2>3
<1>6. n = m
  BY <1>1, <1>2, <1>3, <1>5, BuildersFit, Zenon DEF PlaceIs
<1> QED BY <1>2, <1>3, <1>5, <1>6, Zenon DEF PlaceIs

LEMMA UnderstoodOneNumber ==
  ASSUME NEW v \in DOMAIN Sources, Understood(v), NEW b \in DOMAIN builders,
         builders[b].name # "X32"
  PROVE  OneNumber({RowAt(v, b, p) : p \in Places(v, b)})
<1> SUFFICES ASSUME NEW p \in Places(v, b), NEW q \in Places(v, b),
                    RowAt(v, b, p).name = RowAt(v, b, q).name
             PROVE  RowAt(v, b, p).num = RowAt(v, b, q).num
  BY DEF OneNumber
<1>1. PICK x \in Looking(v, builders[b].name) : RowAt(v, b, p) = EntryAt(v, x)
  <2>1. PICK n, i : PlaceIs(v, b, p, n, i)
    BY PlaceGiven
  <2> QED BY <2>1, Zenon DEF PlaceIs
<1>2. PICK y \in Looking(v, builders[b].name) : RowAt(v, b, q) = EntryAt(v, y)
  <2>1. PICK n, i : PlaceIs(v, b, q, n, i)
    BY PlaceGiven
  <2> QED BY <2>1, Zenon DEF PlaceIs
<1>3. builders[b].name \in TableNames
  BY TablesBuilt
<1>4. x = y
  <2>1. EntryAt(v, x).name = EntryAt(v, y).name
    BY <1>1, <1>2, Zenon
  <2> QED BY <1>3, <2>1, TableGiven
<1> QED BY <1>1, <1>2, <1>4, Zenon

LEMMA UnderstoodLists ==
  ASSUME NEW v \in DOMAIN Sources, Understood(v), NEW b \in DOMAIN builders
  PROVE  Lists({RowAt(v, b, p) : p \in Places(v, b)}, v, builders[b].name)
<1>1. PICK t, K, A : /\ t = builders[b].name /\ K = Kernel[v][t]
                     /\ A = {RowAt(v, b, p) : p \in Places(v, b)}
  OBVIOUS
<1>2. t \in TableNames
  BY <1>1, TablesBuilt
<1>3. {EntryAt(v, p) : p \in Given(v, t)} = EntriesOf(K)
  BY <1>1, <1>2, TableGiven, Zenon
<1>4. ASSUME NEW e \in EntriesOf(K)
      PROVE  e \in A
  <2>1. PICK x \in Given(v, t) : e = EntryAt(v, x)
    BY <1>3
  <2>2. PICK p \in Places(v, b) : RowAt(v, b, p) = EntryAt(v, x)
    BY <1>1, <2>1, GivenPlace, Zenon
  <2> QED BY <1>1, <2>1, <2>2
<1>5. ASSUME NEW r \in A
      PROVE  \E x \in Looking(v, t) : r = EntryAt(v, x)
  <2>1. PICK p \in Places(v, b) : r = RowAt(v, b, p)
    BY <1>1
  <2>2. PICK n, i : PlaceIs(v, b, p, n, i)
    BY <2>1, PlaceGiven
  <2> QED BY <1>1, <2>1, <2>2, Zenon DEF PlaceIs
<1>6. ASSUME t \notin Wider, NEW r \in A
      PROVE  r.num \in DOMAIN K
  <2>1. Looking(v, t) = Given(v, t)
    <3>1. \A path, line : Looks(t, path, line) <=> Gives(t, path, line)
      BY <1>6 DEF Looks, Wider
    <3> QED BY <3>1 DEF Looking, Given
  <2>2. r \in EntriesOf(K)
    BY <1>3, <1>5, <2>1
  <2>3. PICK num \in DOMAIN K : r = Entry(num, K[num])
    BY <2>2 DEF EntriesOf
  <2> QED BY <2>3 DEF Entry
<1>7. Lists(A, v, t)
  <2>1. EntriesOf(Kernel[v][t]) \subseteq A
    BY <1>1, <1>4
  <2> QED BY <1>1, <1>5, <1>6, <2>1, Zenon DEF Lists
<1> QED BY <1>1, <1>7, Zenon

(* All files of a version that is understood give the kernel's table.      *)
LEMMA ReadsGood ==
  ASSUME NEW v \in DOMAIN Sources, Understood(v), NEW b \in DOMAIN builders,
         NEW rows, Reads(rows, v, b, NFiles(b))
  PROVE  v \in DOMAIN Kernel /\ Good(rows, v, builders[b].name)
<1>1. PlacesTo(v, b, NFiles(b)) = Places(v, b)
  <2>1. ASSUME NEW p \in Places(v, b)
        PROVE  p[1] <= NFiles(b)
    <3>1. PICK m \in DOMAIN builders[b].files : \E i : p = <<m, i>>
      BY PlacesAre
    <3> QED BY <3>1, FilesAre
  <2> QED BY <2>1 DEF PlacesTo
<1>2. v \in DOMAIN Kernel
  BY VersionGiven, Zenon
<1>3. Once(v, b)
  BY UnderstoodOnce
<1>4. Range(rows) = {RowAt(v, b, p) : p \in Places(v, b)}
  BY <1>1, Zenon DEF Reads
<1>5. Lists(Range(rows), v, builders[b].name)
  BY <1>4, UnderstoodLists, Zenon
<1>6. builders[b].name # "X32" => OneNumber(Range(rows))
  BY <1>4, UnderstoodOneNumber, Zenon
<1> QED BY <1>2, <1>3, <1>5, <1>6 DEF Reads, Good

-----------------------------------------------------------------------------
(* What go build makes of the file.                                        *)

LEMMA GoodTable ==
  ASSUME NEW v \in DOMAIN Kernel, NEW name \in TableNames, NEW rows, Good(rows, v, name)
  PROVE  /\ name \notin Wider => TableOf(rows) = Kernel[v][name]
         /\ Lists(EntriesOf(TableOf(rows)), v, name)
         /\ name # "X32" => IsInjective(TableOf(rows))
<1>1. PICK K, t : K = Kernel[v][name] /\ t = TableOf(rows)
  OBVIOUS
<1>2. K = [num \in DOMAIN K |-> K[num]]
  BY <1>1, KernelAssumption
<1>3. EntriesOf(K) \subseteq Range(rows)
  BY <1>1 DEF Good, Lists
<1>4. name \notin Wider => \A r \in Range(rows) : r.num \in DOMAIN K
  BY <1>1 DEF Good, Lists
<1>5. \A r, s \in Range(rows) : r.num = s.num => r = s
  BY DEF Good, Distinct, Range
<1>6. /\ DOMAIN t = {rows[i].num : i \in DOMAIN rows}
      /\ \A num \in DOMAIN t : t[num] = (CHOOSE r \in Range(rows) : r.num = num).name
  BY <1>1 DEF TableOf
<1>7. ASSUME NEW e \in Range(rows)
      PROVE  e.num \in DOMAIN t /\ t[e.num] = e.name
  <2>1. e.num \in DOMAIN t
    BY <1>6 DEF Range
  <2>2. (CHOOSE r \in Range(rows) : r.num = e.num) = e
    BY <1>5
  <2> QED BY <1>6, <2>1, <2>2
<1>8. ASSUME NEW num \in DOMAIN t
      PROVE  \E e \in Range(rows) : e.num = num /\ e.name = t[num]
  <2>1. PICK i \in DOMAIN rows : num = rows[i].num
    BY <1>6
  <2>2. rows[i] \in Range(rows)
    BY <2>1 DEF Range
  <2> QED BY <1>7, <2>1, <2>2
<1>9. ASSUME NEW num \in DOMAIN K
      PROVE  num \in DOMAIN t /\ t[num] = K[num]
  <2>1. PICK e : e = Entry(num, K[num])
    OBVIOUS
  <2>2. e \in EntriesOf(K)
    BY <2>1 DEF EntriesOf
  <2>3. e \in Range(rows) /\ e.num = num /\ e.name = K[num]
    BY <1>3, <2>1, <2>2 DEF Entry
  <2> QED BY <1>7, <2>3
<1>10. ASSUME name \notin Wider
       PROVE  t = K
  <2>1. DOMAIN t = DOMAIN K
    BY <1>4, <1>8, <1>9, <1>10
  <2>2. t = [num \in DOMAIN t |-> t[num]]
    BY <1>1 DEF TableOf
  <2> QED BY <1>2, <1>9, <2>1, <2>2
<1>11. Lists(EntriesOf(t), v, name)
  <2>1. EntriesOf(K) \subseteq EntriesOf(t)
    BY <1>9 DEF EntriesOf
  <2>2. name \notin Wider => \A r \in EntriesOf(t) : r.num \in DOMAIN K
    <3>1. ASSUME name \notin Wider, NEW r \in EntriesOf(t)
          PROVE  r.num \in DOMAIN K
      <4>1. PICK num \in DOMAIN t : r = Entry(num, t[num])
        BY <3>1 DEF EntriesOf
      <4>2. r.num = num
        BY <4>1 DEF Entry
      <4> QED BY <1>10, <3>1, <4>1, <4>2
    <3> QED BY <3>1
  <2>3. ASSUME v \in DOMAIN Sources, name \in Wider, NEW r \in EntriesOf(t)
        PROVE  \E p \in Looking(v, name) : r = EntryAt(v, p)
    <3>1. PICK num \in DOMAIN t : r = Entry(num, t[num])
      BY <2>3 DEF EntriesOf
    <3>2. PICK e \in Range(rows) : e.num = num /\ e.name = t[num]
      BY <1>8, <3>1
    <3>3. PICK p \in Looking(v, name) : e = EntryAt(v, p)
      BY <2>3, <3>2, Zenon DEF Good, Lists
    <3>4. e = Entry(e.num, e.name)
      BY <3>3 DEF EntryAt, Entry
    <3> QED BY <3>1, <3>2, <3>3, <3>4, Zenon
  <2> QED BY <1>1, <2>1, <2>2, <2>3, Zenon DEF Lists
<1>12. ASSUME name # "X32"
       PROVE  IsInjective(t)
  <2> SUFFICES ASSUME NEW x \in DOMAIN t, NEW y \in DOMAIN t, t[x] = t[y]
               PROVE  x = y
    BY DEF IsInjective
  <2>1. PICK e \in Range(rows) : e.num = x /\ e.name = t[x]
    BY <1>8
  <2>2. PICK f \in Range(rows) : f.num = y /\ f.name = t[y]
    BY <1>8
  <2> QED BY <1>12, <2>1, <2>2 DEF Good, OneNumber
<1> QED BY <1>1, <1>10, <1>11, <1>12, Zenon

LEMMA WholeTables ==
  ASSUME NEW o, NEW v, Whole(o, v)
  PROVE  /\ Len(o) \in 0 .. 5 /\ DOMAIN o = 1 .. Len(o)
         /\ \A i \in DOMAIN o : /\ i \in 1 .. 5 /\ o[i].name = builders[i].name
                                /\ Good(o[i].syscalls, v, o[i].name)
<1>1. PICK R : o \in Seq(R)
  BY DEF Whole, IsSeq
<1>2. Len(o) \in 0 .. 5 /\ DOMAIN o = 1 .. Len(o)
  <2>1. Len(o) <= 5
    BY BuildersAre, Zenon DEF Whole
  <2>2. Len(o) \in Nat /\ DOMAIN o = 1 .. Len(o)
    BY <1>1
  <2> QED BY <2>1, <2>2
<1> QED BY <1>2 DEF Whole

LEMMA WholeCompiles ==
  ASSUME NEW v, Whole(output, v), Len(output) = 5
  PROVE  Compiles
<1>1. DOMAIN output = 1 .. 5
  BY WholeTables
<1>2. \A i \in 1 .. 5 : output[i].name = builders[i].name /\ Distinct(output[i].syscalls)
  BY <1>1, WholeTables DEF Good
<1>3. /\ output[1].name = "ARM" /\ output[2].name = "AARCH64" /\ output[3].name = "I386"
      /\ output[4].name = "X32" /\ output[5].name = "X86_64"
  BY <1>2, BuildersAre
<1>4. {output[i].name : i \in DOMAIN output} \subseteq TableNames
  <2> SUFFICES ASSUME NEW i \in 1 .. 5 PROVE output[i].name \in TableNames
    BY <1>1
  <2>1. i = 1 \/ i = 2 \/ i = 3 \/ i = 4 \/ i = 5
    OBVIOUS
  <2> QED BY <1>3, <2>1 DEF TableNames
<1>5. ASSUME NEW a \in TableNames
      PROVE  \E i \in DOMAIN output : output[i].name = a
  <2>1. 1 \in DOMAIN output /\ 2 \in DOMAIN output /\ 3 \in DOMAIN output /\ 4 \in DOMAIN output
        /\ 5 \in DOMAIN output
    BY <1>1
  <2> QED BY <1>3, <2>1 DEF TableNames
<1>6. {output[i].name : i \in DOMAIN output} = TableNames
  BY <1>4, <1>5
<1> QED BY <1>1, <1>2, <1>6 DEF Compiles

(* A file that was cut off cannot be compiled: its last table is missing.  *)
LEMMA CompilesWhole ==
  ASSUME NEW v, Whole(output, v), Compiles
  PROVE  Len(output) = 5
<1>1. "X86_64" \in {output[i].name : i \in DOMAIN output}
  BY DEF Compiles, TableNames
<1>2. PICK i \in DOMAIN output : output[i].name = "X86_64"
  BY <1>1
<1>3. i \in 1 .. 5 /\ builders[i].name = "X86_64" /\ i <= Len(output) /\ Len(output) \in 0 .. 5
  BY <1>2, WholeTables
<1>4. i = 5
  <2>1. i = 1 \/ i = 2 \/ i = 3 \/ i = 4 \/ i = 5
    BY <1>3
  <2> QED BY <1>3, <2>1, BuildersAre
<1> QED BY <1>3, <1>4

LEMMA BuiltTables ==
  ASSUME NEW v \in DOMAIN Kernel, Whole(output, v), Compiles
  PROVE  TablesAre(Built, v)
<1>1. ASSUME NEW a \in TableNames
      PROVE  \E rows : Good(rows, v, a) /\ Built[a] = TableOf(rows)
  <2>1. \E i \in DOMAIN output : output[i].name = a
    BY DEF Compiles
  <2>2. PICK i : i = CHOOSE k \in DOMAIN output : output[k].name = a
    OBVIOUS
  <2>3. i \in DOMAIN output /\ output[i].name = a
    BY <2>1, <2>2
  <2>4. Good(output[i].syscalls, v, a)
    BY <2>3, WholeTables
  <2>5. Built[a] = TableOf(output[i].syscalls)
    BY <2>2 DEF Built
  <2> QED BY <2>4, <2>5
<1>2. ASSUME NEW a \in TableNames
      PROVE  /\ a \notin Wider => Built[a] = Kernel[v][a]
             /\ Lists(EntriesOf(Built[a]), v, a)
             /\ a # "X32" => IsInjective(Built[a])
  <2>1. PICK rows : Good(rows, v, a) /\ Built[a] = TableOf(rows)
    BY <1>1
  <2> QED BY <2>1, GoodTable, Zenon
<1>3. Wider \subseteq TableNames
  BY DEF Wider, TableNames
<1> QED BY <1>2, <1>3, Zenon DEF TablesAre

-----------------------------------------------------------------------------
(* The package arch.                                                       *)

(* However a map is ranged over, invert translates every name back.        *)
LEMMA InvertUndoes ==
  ASSUME NEW in, NEW f \in invert(in)
  PROVE  /\ DOMAIN f = Range(in)
         /\ \A name \in Range(in) : f[name] \in DOMAIN in /\ in[f[name]] = name
<1> DEFINE again == {name \in Range(in) : Cardinality(NumbersOf(in, name)) > 1}
           kept  == {g \in [again -> DOMAIN in] : \A name \in again : in[g[name]] = name}
<1>1. PICK g \in kept :
        f = [name \in Range(in) |-> IF name \in again THEN g[name]
                                    ELSE CHOOSE num \in NumbersOf(in, name) : TRUE]
  BY Zenon DEF invert
<1>2. g \in [again -> DOMAIN in] /\ \A name \in again : in[g[name]] = name
  BY <1>1
<1>3. \A name \in Range(in) : NumbersOf(in, name) # {}
  BY DEF Range, NumbersOf
<1> HIDE DEF again, kept
<1>4. ASSUME NEW name \in Range(in)
      PROVE  f[name] \in DOMAIN in /\ in[f[name]] = name
  <2>1. CASE name \in again
    BY <1>1, <1>2, <2>1
  <2>2. CASE name \notin again
    <3>1. f[name] = CHOOSE num \in NumbersOf(in, name) : TRUE
      BY <1>1, <2>2
    <3>2. f[name] \in NumbersOf(in, name)
      BY <1>3, <3>1
    <3> QED BY <3>2 DEF NumbersOf
  <2> QED BY <2>1, <2>2
<1> QED BY <1>1, <1>4

LEMMA InvertBoth ==
  ASSUME NEW in, NEW f \in invert(in)
  PROVE  /\ Undoes(in, f)
         /\ IsInjective(in) => Undoes(f, in)
<1>1. Undoes(in, f)
  BY InvertUndoes DEF Undoes
<1>2. ASSUME IsInjective(in)
      PROVE  Undoes(f, in)
  <2> SUFFICES ASSUME NEW x \in DOMAIN in
               PROVE  in[x] \in DOMAIN f /\ f[in[x]] = x
    BY DEF Undoes
  <2>1. in[x] \in Range(in)
    BY DEF Range
  <2>2. f[in[x]] \in DOMAIN in /\ in[f[in[x]]] = in[x]
    BY <2>1, InvertUndoes
  <2> QED BY <1>2, <2>1, <2>2, InvertUndoes DEF IsInjective
<1> QED BY <1>1, <1>2

LEMMA InfosAre ==
  ASSUME NEW t, NEW n, NEW p, p = Infos(t, n)
  PROVE  /\ p.arm.syscallNumbers = t.ARM /\ p.arm.syscallNames = n.ARM
         /\ p.aarch64.syscallNumbers = t.AARCH64 /\ p.aarch64.syscallNames = n.AARCH64
         /\ p.i386.syscallNumbers = t.I386 /\ p.i386.syscallNames = n.I386
         /\ p.x32.syscallNumbers = t.X32 /\ p.x32.syscallNames = n.X32
         /\ p.x86_64.syscallNumbers = t.X86_64 /\ p.x86_64.syscallNames = n.X86_64
         /\ \A a \in Unimplemented : DOMAIN p[a].syscallNames = {}
<1>1. PICK q : q = Implemented(t, n)
  OBVIOUS
<1>2. DOMAIN q = {"arm", "aarch64", "i386", "x32", "x86_64"}
  BY <1>1 DEF Implemented
<1>3. p = [a \in DOMAIN q \cup Unimplemented |->
             IF a \in Unimplemented THEN Info(a, a, 0, NoSyscalls, [name \in {} |-> 0])
             ELSE q[a]]
  BY <1>1, Zenon DEF Infos
<1>4. \A a \in {"arm", "aarch64", "i386", "x32", "x86_64"} : a \notin Unimplemented
  BY DEF Unimplemented
<1>5. p.arm = q.arm /\ p.aarch64 = q.aarch64 /\ p.i386 = q.i386 /\ p.x32 = q.x32
      /\ p.x86_64 = q.x86_64
  BY <1>2, <1>3, <1>4
<1>6. ASSUME NEW a \in Unimplemented
      PROVE  DOMAIN p[a].syscallNames = {}
  <2>1. p[a] = Info(a, a, 0, NoSyscalls, [name \in {} |-> 0])
    BY <1>3
  <2> QED BY <2>1 DEF Info
<1> QED BY <1>1, <1>5, <1>6 DEF Implemented, Info

LEMMA ArchesAre ==
  ASSUME NEW key \in DOMAIN arches
  PROVE  arches[key] \in {"arm", "aarch64", "i386", "x32", "x86_64"} \cup Unimplemented
BY DEF arches, Unimplemented

-----------------------------------------------------------------------------
(* The repository's file.                                                  *)

LEMMA TupleIsSeq ==
  ASSUME NEW s, NEW n \in Nat, s = [i \in 1 .. n |-> s[i]]
  PROVE  IsSeq(s)
<1>1. PICK R : R = {s[i] : i \in 1 .. n}
  OBVIOUS
<1>2. s \in [1 .. n -> R]
  BY <1>1
<1>3. s \in Seq(R)
  BY <1>2, SeqDef
<1> QED BY <1>3, SeqIsSeq

LEMMA RepositoryDistinct ==
  \A i \in DOMAIN zsyscalls :
    /\ IsSeq(zsyscalls[i].syscalls) /\ Distinct(zsyscalls[i].syscalls)
    /\ zsyscalls[i].name # "X32" => OneNumber(Range(zsyscalls[i].syscalls))
<1>1. IsSeq(syscallsARM) /\ Distinct(syscallsARM) /\ OneNumber(Range(syscallsARM))
  <2>1. 7 \in Nat /\ syscallsARM = [i \in 1 .. 7 |-> syscallsARM[i]]
    BY SMT DEF syscallsARM
  <2>2. Distinct(syscallsARM)
    BY SMT DEF syscallsARM, Entry, Distinct
  <2>3. \A i, j \in DOMAIN syscallsARM : syscallsARM[i].name = syscallsARM[j].name => i = j
    BY SMT DEF syscallsARM, Entry
  <2>4. OneNumber(Range(syscallsARM))
    BY <2>3 DEF OneNumber, Range
  <2> QED BY <2>1, <2>2, <2>4, TupleIsSeq
<1>2. IsSeq(syscallsAARCH64) /\ Distinct(syscallsAARCH64) /\ OneNumber(Range(syscallsAARCH64))
  <2>1. 8 \in Nat /\ syscallsAARCH64 = [i \in 1 .. 8 |-> syscallsAARCH64[i]]
    BY SMT DEF syscallsAARCH64
  <2>2. Distinct(syscallsAARCH64)
    BY SMT DEF syscallsAARCH64, Entry, Distinct
  <2>3. \A i, j \in DOMAIN syscallsAARCH64 : syscallsAARCH64[i].name = syscallsAARCH64[j].name => i = j
    BY SMT DEF syscallsAARCH64, Entry
  <2>4. OneNumber(Range(syscallsAARCH64))
    BY <2>3 DEF OneNumber, Range
  <2> QED BY <2>1, <2>2, <2>4, TupleIsSeq
<1>3. IsSeq(syscalls386) /\ Distinct(syscalls386) /\ OneNumber(Range(syscalls386))
  <2>1. 5 \in Nat /\ syscalls386 = [i \in 1 .. 5 |-> syscalls386[i]]
    BY SMT DEF syscalls386
  <2>2. Distinct(syscalls386)
    BY SMT DEF syscalls386, Entry, Distinct
  <2>3. \A i, j \in DOMAIN syscalls386 : syscalls386[i].name = syscalls386[j].name => i = j
    BY SMT DEF syscalls386, Entry
  <2>4. OneNumber(Range(syscalls386))
    BY <2>3 DEF OneNumber, Range
  <2> QED BY <2>1, <2>2, <2>4, TupleIsSeq
<1>4. IsSeq(syscallsX32) /\ Distinct(syscallsX32)
  <2>1. 7 \in Nat /\ syscallsX32 = [i \in 1 .. 7 |-> syscallsX32[i]]
    BY SMT DEF syscallsX32
  <2>2. Distinct(syscallsX32)
    BY SMT DEF syscallsX32, Entry, Distinct
  <2> QED BY <2>1, <2>2, TupleIsSeq
<1>5. IsSeq(syscallsX86_64) /\ Distinct(syscallsX86_64) /\ OneNumber(Range(syscallsX86_64))
  <2>1. 5 \in Nat /\ syscallsX86_64 = [i \in 1 .. 5 |-> syscallsX86_64[i]]
    BY SMT DEF syscallsX86_64
  <2>2. Distinct(syscallsX86_64)
    BY SMT DEF syscallsX86_64, Entry, Distinct
  <2>3. \A i, j \in DOMAIN syscallsX86_64 : syscallsX86_64[i].name = syscallsX86_64[j].name => i = j
    BY SMT DEF syscallsX86_64, Entry
  <2>4. OneNumber(Range(syscallsX86_64))
    BY <2>3 DEF OneNumber, Range
  <2> QED BY <2>1, <2>2, <2>4, TupleIsSeq
<1>6. /\ DOMAIN zsyscalls = 1 .. 5
      /\ zsyscalls[1].syscalls = syscallsARM /\ zsyscalls[2].syscalls = syscallsAARCH64
      /\ zsyscalls[3].syscalls = syscalls386 /\ zsyscalls[4].syscalls = syscallsX32
      /\ zsyscalls[5].syscalls = syscallsX86_64 /\ zsyscalls[4].name = "X32"
  BY DEF zsyscalls, Table
<1> SUFFICES ASSUME NEW i \in 1 .. 5
             PROVE  /\ IsSeq(zsyscalls[i].syscalls) /\ Distinct(zsyscalls[i].syscalls)
                    /\ zsyscalls[i].name # "X32" => OneNumber(Range(zsyscalls[i].syscalls))
  BY <1>6
<1>7. i = 1 \/ i = 2 \/ i = 3 \/ i = 4 \/ i = 5
  OBVIOUS
<1> QED BY <1>1, <1>2, <1>3, <1>4, <1>5, <1>6, <1>7, Zenon

LEMMA RepositoryWhole ==
  /\ Len(zsyscalls) = 5
  /\ \E v \in DOMAIN Kernel : Whole(zsyscalls, v)
<1>1. Len(zsyscalls) = 5 /\ DOMAIN zsyscalls = 1 .. 5
  BY DEF zsyscalls
<1>2. \A i \in 1 .. 5 : zsyscalls[i].name = builders[i].name
  BY DEF zsyscalls, Table, builders
<1>3. PICK v \in DOMAIN Kernel : \A i \in DOMAIN zsyscalls :
        Lists(Range(zsyscalls[i].syscalls), v, zsyscalls[i].name)
  BY KernelAssumption, Zenon
<1>4. \A i \in DOMAIN zsyscalls : Good(zsyscalls[i].syscalls, v, zsyscalls[i].name)
  BY <1>3, RepositoryDistinct, Zenon DEF Good
<1>5. IsSeq(zsyscalls)
  <2>1. 5 \in Nat /\ zsyscalls = [i \in 1 .. 5 |-> zsyscalls[i]]
    BY DEF zsyscalls
  <2> QED BY <2>1, TupleIsSeq
<1>6. Whole(zsyscalls, v)
  BY <1>1, <1>2, <1>4, <1>5, BuildersAre DEF Whole
<1> QED BY <1>1, <1>6

LEMMA InitInv ==
  ASSUME Init
  PROVE  TablesInv
<1>1. pc = "idle" /\ version \in DOMAIN Sources /\ output = zsyscalls /\ program = <<>>
  BY Zenon DEF Init
<1>2. PlaceInv /\ BuildInv /\ FileInv /\ ParamsInv /\ WriteInv /\ ProgramInv
  BY <1>1 DEF PlaceInv, BuildInv, FileInv, ParamsInv, WriteInv, ProgramInv
<1>3. OutputInv
  <2>1. Len(output) = Len(builders)
    BY <1>1, BuildersAre, RepositoryWhole
  <2> QED BY <1>1, <2>1, RepositoryWhole, Zenon DEF OutputInv
<1> QED BY <1>2, <1>3 DEF TablesInv, GeneratorInv

-----------------------------------------------------------------------------
(* The actions.                                                            *)

LEMMA ProgramKept ==
  ASSUME ProgramInv, program' = program
  PROVE  ProgramInv'
BY Zenon DEF ProgramInv

(* A run that ends leaves a whole file unless it was writing it.           *)
LEMMA StopKeeps ==
  ASSUME GeneratorInv, pc' = "idle", version' = version, output' = output,
         ~torn' => ~torn /\ pc # "execute"
  PROVE  GeneratorInv'
<1>1. PlaceInv' /\ BuildInv' /\ FileInv' /\ ParamsInv' /\ WriteInv'
  BY DEF GeneratorInv, PlaceInv, BuildInv, FileInv, ParamsInv, WriteInv
<1>2. OutputInv'
  <2>1. OutputInv
    BY DEF GeneratorInv
  <2> QED BY <2>1, Zenon DEF OutputInv
<1> QED BY <1>1, <1>2 DEF GeneratorInv

LEMMA StartKeeps ==
  ASSUME TablesInv, NEW v \in DOMAIN Sources, Start(v)
  PROVE  TablesInv'
<1>1. /\ pc = "idle" /\ pc' = "get" /\ version' = v /\ builder' = 1 /\ file' = 1
      /\ syscalls' = <<>> /\ params' = <<>> /\ output' = output /\ torn' = torn
      /\ program' = program
  BY DEF Start
<1>2. 1 \in DOMAIN builders /\ 1 \in DOMAIN builders[1].files
  BY BuildersAre, FilesAre
<1>3. PlaceInv'
  BY <1>1, <1>2 DEF PlaceInv
<1>4. BuildInv'
  <2>1. Reads(<<>>, v, 1, 1 - 1)
    BY <1>2, ReadsNone
  <2>2. 1 .. (1 - 1) = {} /\ Len(<<>>) = 1 - 1
    OBVIOUS
  <2>3. BuiltTo(<<>>, v, 1 - 1)
    BY <2>1, <2>2 DEF Reads, BuiltTo
  <2> QED BY <1>1, <2>1, <2>2, <2>3 DEF BuildInv
<1>5. FileInv' /\ ParamsInv' /\ WriteInv'
  BY <1>1 DEF FileInv, ParamsInv, WriteInv
<1>6. OutputInv'
  <2>1. OutputInv
    BY DEF TablesInv, GeneratorInv
  <2> QED BY <1>1, <2>1 DEF OutputInv
<1>7. ProgramInv'
  BY <1>1, ProgramKept DEF TablesInv
<1> QED BY <1>3, <1>4, <1>5, <1>6, <1>7 DEF TablesInv, GeneratorInv

LEMMA DownloadKeeps ==
  ASSUME TablesInv, downloadFile
  PROVE  TablesInv'
<1>1. /\ pc = "get" /\ pc' = "read" /\ File.path \in DOMAIN Sources[version]
      /\ tmp' = Saved(File.base, Sources[version][File.path])
      /\ version' = version /\ builder' = builder /\ file' = file /\ syscalls' = syscalls
      /\ params' = params /\ output' = output /\ torn' = torn /\ program' = program
  BY DEF downloadFile
<1>2. PlaceInv'
  <2>1. PlaceInv
    BY DEF TablesInv, GeneratorInv
  <2> QED BY <1>1, <2>1 DEF PlaceInv
<1>3. BuildInv'
  <2>1. BuildInv
    BY DEF TablesInv, GeneratorInv
  <2> QED BY <1>1, <2>1 DEF BuildInv
<1>4. FileInv'
  <2>1. File' = File
    BY <1>1 DEF File
  <2>2. PICK b, l : b = File.base /\ l = Sources[version][File.path]
    OBVIOUS
  <2>3. tmp' = [x \in DOMAIN tmp \cup {b} |-> IF x = b THEN l ELSE tmp[x]]
    BY <1>1, <2>2, Zenon DEF Saved
  <2>4. b \in DOMAIN tmp' /\ tmp'[b] = l
    BY <2>3
  <2> QED BY <1>1, <2>1, <2>2, <2>4 DEF FileInv
<1>5. ParamsInv' /\ WriteInv'
  BY <1>1 DEF ParamsInv, WriteInv
<1>6. OutputInv'
  <2>1. OutputInv
    BY DEF TablesInv, GeneratorInv
  <2> QED BY <1>1, <2>1 DEF OutputInv
<1>7. ProgramInv'
  BY <1>1, ProgramKept DEF TablesInv
<1> QED BY <1>2, <1>3, <1>4, <1>5, <1>6, <1>7 DEF TablesInv, GeneratorInv

(* What is left unfinished by a run that stops.                            *)
LEMMA FailureKeeps ==
  ASSUME TablesInv, downloadFails \/ ReadFails \/ CreateFails \/ ExecuteFails \/ Kill
  PROVE  TablesInv'
<1>1. /\ pc' = "idle" /\ version' = version /\ output' = output /\ program' = program
      /\ ~torn' => ~torn /\ pc # "execute"
  <2>1. CASE downloadFails
    BY <2>1 DEF downloadFails, Exit
  <2>2. CASE ReadFails
    BY <2>2 DEF ReadFails, Fatal, Exit
  <2>3. CASE CreateFails
    BY <2>3 DEF CreateFails, Fatal, Exit
  <2>4. CASE ExecuteFails
    BY <2>4 DEF ExecuteFails, Fatal, Exit
  <2>5. CASE Kill
    BY <2>5 DEF Kill, Fatal, Exit
  <2> QED BY <2>1, <2>2, <2>3, <2>4, <2>5
<1>2. GeneratorInv'
  BY <1>1, StopKeeps DEF TablesInv
<1>3. ProgramInv'
  BY <1>1, ProgramKept DEF TablesInv
<1> QED BY <1>2, <1>3 DEF TablesInv

(* The builder has read a file that was not refused.                       *)
LEMMA FileRead ==
  ASSUME GeneratorInv, pc = "read",
         \A i \in DOMAIN tmp[File.base] : ~Refused(File, tmp[File.base][i])
  PROVE  /\ version \in DOMAIN Sources /\ builder \in DOMAIN builders
         /\ file \in DOMAIN builders[builder].files
         /\ Reads(syscalls \o readSyscalls(File, tmp[File.base]), version, builder, file)
         /\ Passed(version, builder, file)
<1>1. /\ version \in DOMAIN Sources /\ builder \in DOMAIN builders
      /\ file \in DOMAIN builders[builder].files
  BY DEF GeneratorInv, PlaceInv
<1>2. Reads(syscalls, version, builder, file - 1)
  BY DEF GeneratorInv, BuildInv
<1>3. File.path \in DOMAIN Sources[version] /\ tmp[File.base] = Sources[version][File.path]
  BY DEF GeneratorInv, FileInv
<1>4. tmp[File.base] = Lines(version, builder, file)
  BY <1>3 DEF Lines, File
<1>5. Reads(syscalls \o readSyscalls(File, tmp[File.base]), version, builder, file)
  <2>1. Reads(syscalls \o readSyscalls(builders[builder].files[file],
                                       Lines(version, builder, file)), version, builder, file)
    BY <1>1, <1>2, ReadsNext
  <2> QED BY <1>4, <2>1, Zenon DEF File
<1>6. Passed(version, builder, file)
  BY <1>3, <1>4, Zenon DEF Passed, File
<1> QED BY <1>1, <1>5, <1>6

(* The builder that has read its last file is done.                        *)
LEMMA BuilderDone ==
  ASSUME NEW v, NEW b \in DOMAIN builders, NEW p, BuiltTo(p, v, b - 1),
         NEW rows, Reads(rows, v, b, NFiles(b)), \A n \in 1 .. NFiles(b) : Passed(v, b, n)
  PROVE  BuiltTo(Append(p, Table(builders[b].name, rows)), v, b)
<1>1. PICK t, q : t = Table(builders[b].name, rows) /\ q = Append(p, t)
  OBVIOUS
<1>2. t.name = builders[b].name /\ t.syscalls = rows
  BY <1>1 DEF Table
<1>3. b \in 1 .. 5
  BY BuildersAre
<1>4. PICK R : R = Range(p) \cup {t}
  OBVIOUS
<1>5. p \in Seq(R) /\ t \in R
  BY <1>4, IsSeqIn DEF BuiltTo
<1>6. Len(p) = b - 1
  BY DEF BuiltTo
<1>7. q \in Seq(R) /\ Len(q) = b /\ q[b] = t /\ \A i \in 1 .. (b - 1) : q[i] = p[i]
  BY <1>1, <1>3, <1>5, <1>6
<1>8. IsSeq(q)
  BY <1>7, SeqIsSeq
<1>9. ASSUME NEW c \in 1 .. b
      PROVE  /\ q[c].name = builders[c].name
             /\ Reads(q[c].syscalls, v, c, NFiles(c))
             /\ \A n \in 1 .. NFiles(c) : Passed(v, c, n)
  <2>1. CASE c = b
    BY <1>2, <1>7, <2>1
  <2>2. CASE c # b
    <3>1. c \in 1 .. (b - 1)
      BY <1>3, <2>2
    <3>2. q[c] = p[c]
      BY <1>7, <3>1
    <3> QED BY <3>1, <3>2, Zenon DEF BuiltTo
  <2> QED BY <2>1, <2>2
<1>10. BuiltTo(q, v, b)
  BY <1>7, <1>8, <1>9 DEF BuiltTo
<1> QED BY <1>1, <1>10, Zenon

LEMMA AllDone ==
  ASSUME NEW v \in DOMAIN Sources, NEW p, BuiltTo(p, v, 5)
  PROVE  v \in DOMAIN Kernel /\ Whole(p, v) /\ Len(p) = Len(builders)
<1>1. Understood(v)
  <2> SUFFICES ASSUME NEW b \in DOMAIN builders, NEW n \in DOMAIN builders[b].files
               PROVE  Passed(v, b, n)
    BY Zenon DEF Understood, Passed
  <2>1. b \in 1 .. 5 /\ n \in 1 .. NFiles(b)
    BY BuildersAre, FilesAre
  <2> QED BY <2>1, Zenon DEF BuiltTo
<1>2. IsSeq(p) /\ Len(p) = 5 /\ Len(builders) = 5
  BY BuildersAre, Zenon DEF BuiltTo
<1>3. DOMAIN p = 1 .. 5 /\ DOMAIN builders = 1 .. 5
  <2>1. PICK R : p \in Seq(R)
    BY <1>2 DEF IsSeq
  <2> QED BY <1>2, <2>1, BuildersAre
<1>4. ASSUME NEW b \in 1 .. 5
      PROVE  /\ v \in DOMAIN Kernel /\ p[b].name = builders[b].name
             /\ Good(p[b].syscalls, v, p[b].name)
  <2>1. p[b].name = builders[b].name /\ Reads(p[b].syscalls, v, b, NFiles(b))
    BY Zenon DEF BuiltTo
  <2>2. v \in DOMAIN Kernel /\ Good(p[b].syscalls, v, builders[b].name)
    BY <1>1, <1>3, <2>1, ReadsGood
  <2> QED BY <2>1, <2>2, Zenon
<1>5. v \in DOMAIN Kernel
  <2>1. 1 \in 1 .. 5
    OBVIOUS
  <2> QED BY <1>4, <2>1
<1>6. Whole(p, v)
  <2>1. Len(p) <= Len(builders)
    BY <1>2
  <2> QED BY <1>2, <1>3, <1>4, <2>1, Zenon DEF Whole
<1> QED BY <1>2, <1>5, <1>6

LEMMA ReadFileKeeps ==
  ASSUME TablesInv, ReadFile
  PROVE  TablesInv'
<1>1. PICK read : read = syscalls \o readSyscalls(File, tmp[File.base])
  OBVIOUS
<1>2. /\ pc = "read" /\ \A i \in DOMAIN tmp[File.base] : ~Refused(File, tmp[File.base][i])
      /\ version' = version /\ output' = output /\ torn' = torn /\ program' = program
  BY Zenon DEF ReadFile
<1>3. \/ /\ file < NFiles(builder)
         /\ pc' = "get" /\ file' = file + 1 /\ syscalls' = read /\ builder' = builder
         /\ params' = params
      \/ /\ ~(file < NFiles(builder))
         /\ pc' = IF builder < Len(builders) THEN "get" ELSE "create"
         /\ params' = Append(params, Table(builders[builder].name, Sort(read)))
         /\ builder' = builder + 1 /\ file' = 1 /\ syscalls' = <<>>
  BY <1>1, Zenon DEF ReadFile, NFiles
<1>4. GeneratorInv
  BY DEF TablesInv
<1>5. /\ version \in DOMAIN Sources /\ builder \in DOMAIN builders
      /\ file \in DOMAIN builders[builder].files
      /\ Reads(read, version, builder, file)
      /\ Passed(version, builder, file)
  BY <1>1, <1>2, <1>4, FileRead, Zenon
<1>6. builder \in 1 .. 5 /\ NFiles(builder) \in 1 .. 2 /\ file \in 1 .. NFiles(builder)
  BY <1>5, BuildersAre, FilesAre
<1>7. /\ \A n \in 1 .. (file - 1) : Passed(version, builder, n)
      /\ BuiltTo(params, version, builder - 1)
  BY <1>2, <1>4 DEF GeneratorInv, BuildInv
<1>8. \A n \in 1 .. file : Passed(version, builder, n)
  <2> SUFFICES ASSUME NEW n \in 1 .. file PROVE Passed(version, builder, n)
    OBVIOUS
  <2>1. n = file \/ n \in 1 .. (file - 1)
    BY <1>6
  <2> QED BY <1>5, <1>7, <2>1
<1>9. OutputInv'
  <2>1. OutputInv
    BY <1>4 DEF GeneratorInv
  <2>2. pc # "execute"
    BY <1>2
  <2> QED BY <1>2, <2>1, <2>2, Zenon DEF OutputInv
<1>10. ProgramInv'
  BY <1>2, ProgramKept DEF TablesInv
<1>11. CASE file < NFiles(builder)
  <2>1. /\ pc' = "get" /\ file' = file + 1 /\ syscalls' = read /\ builder' = builder
        /\ params' = params
    BY <1>3, <1>11
  <2>2. PlaceInv'
    <3>1. file + 1 \in DOMAIN builders[builder].files
      BY <1>5, <1>6, <1>11, FilesAre
    <3> QED BY <1>2, <1>5, <2>1, <3>1 DEF PlaceInv
  <2>3. (file + 1) - 1 = file
    BY <1>6
  <2>4. BuildInv'
    BY <1>2, <1>5, <1>7, <1>8, <2>1, <2>3 DEF BuildInv
  <2>5. FileInv' /\ ParamsInv' /\ WriteInv'
    BY <2>1 DEF FileInv, ParamsInv, WriteInv
  <2> QED BY <1>9, <1>10, <2>2, <2>4, <2>5 DEF TablesInv, GeneratorInv
<1>12. CASE ~(file < NFiles(builder))
  <2>1. /\ pc' = IF builder < Len(builders) THEN "get" ELSE "create"
        /\ params' = Append(params, Table(builders[builder].name, Sort(read)))
        /\ builder' = builder + 1 /\ file' = 1 /\ syscalls' = <<>>
    BY <1>3, <1>12
  <2>2. file = NFiles(builder)
    BY <1>6, <1>12
  <2>3. Reads(Sort(read), version, builder, NFiles(builder))
    BY <1>5, <2>2, ReadsSort
  <2>4. BuiltTo(params', version, builder)
    BY <1>5, <1>7, <1>8, <2>1, <2>2, <2>3, BuilderDone
  <2>5. CASE builder < 5
    <3>1. pc' = "get"
      BY <2>1, <2>5, BuildersAre
    <3>2. builder + 1 \in DOMAIN builders /\ (builder + 1) - 1 = builder
      BY <1>6, <2>5, BuildersAre
    <3>3. 1 \in DOMAIN builders[builder + 1].files /\ 1 .. (1 - 1) = {} /\ 1 - 1 = 0
      BY <3>2, FilesAre
    <3>4. PlaceInv'
      BY <1>2, <1>5, <2>1, <3>1, <3>2, <3>3 DEF PlaceInv
    <3>5. Reads(<<>>, version, builder + 1, 1 - 1)
      BY <3>2, <3>3, ReadsNone
    <3>6. BuildInv'
      BY <1>2, <2>1, <2>4, <3>1, <3>2, <3>3, <3>5 DEF BuildInv
    <3>7. FileInv' /\ ParamsInv' /\ WriteInv'
      BY <3>1 DEF FileInv, ParamsInv, WriteInv
    <3> QED BY <1>9, <1>10, <3>4, <3>6, <3>7 DEF TablesInv, GeneratorInv
  <2>6. CASE ~(builder < 5)
    <3>1. pc' = "create" /\ builder = 5
      BY <1>6, <2>1, <2>6, BuildersAre
    <3>2. version \in DOMAIN Kernel /\ Whole(params', version) /\ Len(params') = Len(builders)
      BY <1>5, <2>4, <3>1, AllDone
    <3>3. ParamsInv'
      BY <1>2, <3>2 DEF ParamsInv
    <3>4. PlaceInv' /\ BuildInv' /\ FileInv' /\ WriteInv'
      BY <1>2, <1>5, <3>1 DEF PlaceInv, BuildInv, FileInv, WriteInv
    <3> QED BY <1>9, <1>10, <3>3, <3>4 DEF TablesInv, GeneratorInv
  <2> QED BY <2>5, <2>6
<1> QED BY <1>11, <1>12

LEMMA WholeNone ==
  ASSUME NEW v
  PROVE  Whole(<<>>, v) /\ Len(<<>>) = 0
<1>1. <<>> \in Seq({}) /\ Len(<<>>) = 0 /\ DOMAIN <<>> = {} /\ 0 <= 5
  OBVIOUS
<1>2. IsSeq(<<>>)
  BY <1>1, SeqIsSeq
<1> QED BY <1>1, <1>2, BuildersAre DEF Whole

LEMMA CreateKeeps ==
  ASSUME TablesInv, CreateOutput
  PROVE  TablesInv'
<1>1. /\ pc = "create" /\ pc' = "execute" /\ output' = <<>> /\ version' = version
      /\ params' = params /\ program' = program
  BY DEF CreateOutput
<1>2. /\ version \in DOMAIN Sources /\ version \in DOMAIN Kernel
      /\ Whole(params, version) /\ Len(params) = Len(builders)
  BY <1>1 DEF TablesInv, GeneratorInv, PlaceInv, ParamsInv
<1>3. PlaceInv' /\ BuildInv' /\ FileInv' /\ ParamsInv'
  BY <1>1, <1>2 DEF PlaceInv, BuildInv, FileInv, ParamsInv
<1>4. Whole(output', version') /\ Len(output') < Len(builders)
  BY <1>1, WholeNone, BuildersAre
<1>5. WriteInv' /\ OutputInv'
  BY <1>1, <1>2, <1>4 DEF WriteInv, OutputInv
<1>6. ProgramInv'
  BY <1>1, ProgramKept DEF TablesInv
<1> QED BY <1>3, <1>5, <1>6 DEF TablesInv, GeneratorInv

LEMMA WholeAppend ==
  ASSUME NEW v, NEW o, Whole(o, v), Len(o) < 5, NEW p, Whole(p, v), Len(p) = 5
  PROVE  /\ Whole(Append(o, p[Len(o) + 1]), v)
         /\ Len(Append(o, p[Len(o) + 1])) = Len(o) + 1
<1>1. PICK k : k = Len(o) + 1
  OBVIOUS
<1>2. k \in 1 .. 5 /\ DOMAIN o = 1 .. (k - 1) /\ Len(o) = k - 1 /\ k \in DOMAIN p
  BY <1>1, WholeTables
<1>3. PICK e, q : e = p[k] /\ q = Append(o, e)
  OBVIOUS
<1>4. PICK R : R = Range(o) \cup {e}
  OBVIOUS
<1>5. o \in Seq(R) /\ e \in R
  BY <1>4, IsSeqIn DEF Whole
<1>6. /\ q \in Seq(R) /\ Len(q) = k /\ DOMAIN q = 1 .. k /\ q[k] = e
      /\ \A i \in 1 .. (k - 1) : q[i] = o[i]
  BY <1>2, <1>3, <1>5
<1>7. IsSeq(q)
  BY <1>6, SeqIsSeq
<1>8. ASSUME NEW i \in DOMAIN q
      PROVE  q[i].name = builders[i].name /\ Good(q[i].syscalls, v, q[i].name)
  <2>1. CASE i = k
    BY <1>2, <1>3, <1>6, <2>1, WholeTables
  <2>2. CASE i # k
    <3>1. i \in DOMAIN o /\ q[i] = o[i]
      BY <1>2, <1>6, <2>2
    <3> QED BY <3>1, WholeTables
  <2> QED BY <2>1, <2>2
<1>9. Len(q) <= Len(builders)
  BY <1>2, <1>6, BuildersAre
<1>10. Whole(q, v)
  BY <1>7, <1>8, <1>9, Zenon DEF Whole
<1> QED BY <1>1, <1>3, <1>6, <1>10, Zenon

LEMMA ExecuteKeeps ==
  ASSUME TablesInv, ExecuteTemplate
  PROVE  TablesInv'
<1>1. /\ pc = "execute" /\ output' = Append(output, params[Len(output) + 1])
      /\ version' = version /\ program' = program
  BY DEF ExecuteTemplate, Exit, genVars
<1>2. \/ Len(output') = Len(params) /\ pc' = "idle" /\ torn' = FALSE
      \/ Len(output') # Len(params) /\ pc' = pc /\ params' = params
  BY DEF ExecuteTemplate, Exit, genVars
<1>3. /\ version \in DOMAIN Sources /\ version \in DOMAIN Kernel
      /\ Whole(params, version) /\ Len(params) = Len(builders)
      /\ Whole(output, version) /\ Len(output) < Len(builders)
  BY <1>1 DEF TablesInv, GeneratorInv, PlaceInv, ParamsInv, WriteInv
<1>4. Len(builders) = 5
  BY BuildersAre
<1>5. Whole(output', version) /\ Len(output') = Len(output) + 1
  BY <1>1, <1>3, <1>4, WholeAppend
<1>6. Len(output') \in 0 .. 5
  BY <1>5, WholeTables
<1>7. ProgramInv'
  BY <1>1, ProgramKept DEF TablesInv
<1>8. CASE Len(output') = Len(params) /\ pc' = "idle" /\ torn' = FALSE
  <2>1. PlaceInv' /\ BuildInv' /\ FileInv' /\ ParamsInv' /\ WriteInv'
    BY <1>1, <1>3, <1>8 DEF PlaceInv, BuildInv, FileInv, ParamsInv, WriteInv
  <2>2. OutputInv'
    BY <1>3, <1>5, <1>8, Zenon DEF OutputInv
  <2> QED BY <1>7, <2>1, <2>2 DEF TablesInv, GeneratorInv
<1>9. CASE Len(output') # Len(params) /\ pc' = pc /\ params' = params
  <2>1. PlaceInv' /\ BuildInv' /\ FileInv' /\ ParamsInv'
    BY <1>1, <1>3, <1>9 DEF PlaceInv, BuildInv, FileInv, ParamsInv
  <2>2. Len(output') < Len(builders)
    <3>1. Len(output') # 5
      BY <1>3, <1>4, <1>9, Zenon
    <3>2. Len(output') < 5
      <4>1. PICK m : m = Len(output')
        OBVIOUS
      <4>2. m \in 0 .. 5 /\ m # 5
        BY <1>6, <3>1, <4>1, Zenon
      <4>3. m < 5
        BY <4>2
      <4> QED BY <4>1, <4>3, Zenon
    <3> QED BY <1>4, <3>2
  <2>3. WriteInv'
    BY <1>1, <1>5, <2>2 DEF WriteInv
  <2>4. OutputInv'
    BY <1>1, <1>3, <1>5, <1>9 DEF OutputInv
  <2> QED BY <1>7, <2>1, <2>3, <2>4 DEF TablesInv, GeneratorInv
<1> QED BY <1>2, <1>8, <1>9

LEMMA GoBuildKeeps ==
  ASSUME TablesInv, GoBuild
  PROVE  TablesInv'
<1>1. GeneratorInv'
  <2>1. /\ pc' = pc /\ version' = version /\ builder' = builder /\ file' = file /\ tmp' = tmp
        /\ syscalls' = syscalls /\ params' = params /\ output' = output /\ torn' = torn
    BY DEF GoBuild, genVars
  <2>2. File' = File
    BY <2>1 DEF File
  <2>3. PlaceInv' /\ BuildInv' /\ FileInv' /\ ParamsInv' /\ WriteInv' /\ OutputInv'
    BY <2>1, <2>2, Zenon
       DEF TablesInv, GeneratorInv, PlaceInv, BuildInv, FileInv, ParamsInv, WriteInv, OutputInv
  <2> QED BY <2>3 DEF GeneratorInv
<1>2. ProgramInv'
  <2>1. CASE ~Compiles
    <3>1. program' = <<>>
      BY <2>1 DEF GoBuild
    <3> QED BY <3>1 DEF ProgramInv
  <2>2. CASE Compiles
    <3>1. PICK v \in DOMAIN Kernel : Whole(output, v)
      BY DEF TablesInv, GeneratorInv, OutputInv
    <3>2. PICK t : t = Built
      OBVIOUS
    <3>3. TablesAre(t, v)
      BY <2>2, <3>1, <3>2, BuiltTables
    <3>4. PICK arm \in invert(t.ARM), aarch64 \in invert(t.AARCH64), i386 \in invert(t.I386),
               x32 \in invert(t.X32), x86_64 \in invert(t.X86_64) :
            program' = Infos(t, [ARM |-> arm, AARCH64 |-> aarch64, I386 |-> i386,
                                 X32 |-> x32, X86_64 |-> x86_64])
      BY <2>2, <3>2, Zenon DEF GoBuild
    <3>5. PICK n : n = [ARM |-> arm, AARCH64 |-> aarch64, I386 |-> i386,
                        X32 |-> x32, X86_64 |-> x86_64]
      OBVIOUS
    <3>6. \A a \in TableNames : n[a] \in invert(t[a])
      <4>1. /\ n["ARM"] \in invert(t["ARM"]) /\ n["AARCH64"] \in invert(t["AARCH64"])
            /\ n["I386"] \in invert(t["I386"]) /\ n["X32"] \in invert(t["X32"])
            /\ n["X86_64"] \in invert(t["X86_64"])
        BY <3>4, <3>5
      <4> QED BY <4>1 DEF TableNames
    <3>7. program' = Infos(t, n)
      BY <3>4, <3>5, Zenon
    <3> QED BY <3>3, <3>6, <3>7, Zenon DEF ProgramInv
  <2> QED BY <2>1, <2>2
<1> QED BY <1>1, <1>2 DEF TablesInv

LEMMA NextKeeps ==
  ASSUME TablesInv, [Next]_vars
  PROVE  TablesInv'
<1>1. CASE \E v \in DOMAIN Sources : Start(v)
  BY <1>1, StartKeeps
<1>2. CASE downloadFile
  BY <1>2, DownloadKeeps
<1>3. CASE downloadFails \/ ReadFails \/ CreateFails \/ ExecuteFails \/ Kill
  BY <1>3, FailureKeeps
<1>4. CASE ReadFile
  BY <1>4, ReadFileKeeps
<1>5. CASE CreateOutput
  BY <1>5, CreateKeeps
<1>6. CASE ExecuteTemplate
  BY <1>6, ExecuteKeeps
<1>7. CASE GoBuild
  BY <1>7, GoBuildKeeps
<1>8. CASE UNCHANGED vars
  <2>1. /\ pc' = pc /\ version' = version /\ builder' = builder /\ file' = file /\ tmp' = tmp
        /\ syscalls' = syscalls /\ params' = params /\ output' = output /\ torn' = torn
        /\ program' = program
    BY <1>8 DEF vars, genVars
  <2>2. File' = File
    BY <2>1 DEF File
  <2>3. PlaceInv' /\ BuildInv' /\ FileInv' /\ ParamsInv' /\ WriteInv' /\ OutputInv'
    BY <2>1, <2>2, Zenon
       DEF TablesInv, GeneratorInv, PlaceInv, BuildInv, FileInv, ParamsInv, WriteInv, OutputInv
  <2>4. ProgramInv'
    BY <2>1, ProgramKept DEF TablesInv
  <2> QED BY <2>3, <2>4 DEF TablesInv, GeneratorInv
<1> QED BY <1>1, <1>2, <1>3, <1>4, <1>5, <1>6, <1>7, <1>8, Zenon DEF Next

-----------------------------------------------------------------------------
(* Theorems.                                                               *)

(* The inductive invariant: what the builders have read is what the files  *)
(* of their version say, the file that is parsed is the one downloaded     *)
(* last, zsyscalls.go is the first tables of one version and all of them   *)
(* unless a run is or was stopped writing it, and a program has the tables *)
(* of one version and inverses of them.                                    *)
THEOREM TablesInvariant == Spec => []TablesInv
<1>1. Init => TablesInv
  BY InitInv
<1>2. TablesInv /\ [Next]_vars => TablesInv'
  BY NextKeeps
<1> QED BY <1>1, <1>2, PTL DEF Spec

LEMMA InvUsable ==
  ASSUME TablesInv
  PROVE  FileUsable
<1> SUFFICES ASSUME pc # "execute", ~torn PROVE Compiles
  BY DEF FileUsable
<1>1. PICK v \in DOMAIN Kernel : Whole(output, v)
  BY DEF TablesInv, GeneratorInv, OutputInv
<1>2. Len(output) = 5
  BY BuildersAre, Zenon DEF TablesInv, GeneratorInv, OutputInv
<1> QED BY <1>1, <1>2, WholeCompiles

(* Whatever the kernel's files are, however many runs of the generator     *)
(* there were and however they ended, zsyscalls.go can be compiled unless  *)
(* a run is writing it or was stopped at that: every other failure comes   *)
(* before os.Create.                                                       *)
THEOREM FileUsability == Spec => []FileUsable
<1>1. TablesInv => FileUsable
  BY InvUsable
<1> QED BY <1>1, TablesInvariant, PTL

LEMMA InvOneVersion ==
  ASSUME TablesInv
  PROVE  TablesOfOneVersion
<1> SUFFICES ASSUME program # <<>>
             PROVE  \E v \in DOMAIN Kernel :
                      /\ program.arm.syscallNumbers = Kernel[v].ARM
                      /\ program.i386.syscallNumbers = Kernel[v].I386
                      /\ program.x86_64.syscallNumbers = Kernel[v].X86_64
                      /\ Lists(EntriesOf(program.aarch64.syscallNumbers), v, "AARCH64")
                      /\ Lists(EntriesOf(program.x32.syscallNumbers), v, "X32")
  BY Zenon DEF TablesOfOneVersion
<1>1. PICK v \in DOMAIN Kernel : \E t, n : TablesAre(t, v) /\ program = Infos(t, n)
  BY Zenon DEF TablesInv, ProgramInv
<1>2. PICK t, n : TablesAre(t, v) /\ program = Infos(t, n)
  BY <1>1
<1>3. /\ program.arm.syscallNumbers = t.ARM /\ program.aarch64.syscallNumbers = t.AARCH64
      /\ program.i386.syscallNumbers = t.I386 /\ program.x32.syscallNumbers = t.X32
      /\ program.x86_64.syscallNumbers = t.X86_64
  BY <1>2, InfosAre
<1>4. /\ t["ARM"] = Kernel[v]["ARM"] /\ t["I386"] = Kernel[v]["I386"]
      /\ t["X86_64"] = Kernel[v]["X86_64"]
  <2>1. {"ARM", "I386", "X86_64"} \subseteq TableNames \ Wider
    BY DEF TableNames, Wider
  <2> QED BY <1>2, <2>1, Zenon DEF TablesAre
<1>5. Lists(EntriesOf(t["AARCH64"]), v, "AARCH64") /\ Lists(EntriesOf(t["X32"]), v, "X32")
  <2>1. "AARCH64" \in Wider /\ "X32" \in Wider
    BY DEF Wider
  <2> QED BY <1>2, <2>1, Zenon DEF TablesAre
<1> QED BY <1>3, <1>4, <1>5

(* Every program that was ever built, from whatever the generator had      *)
(* written at that moment, has the tables of one version of the kernel:    *)
(* no file of one architecture or version is taken for that of another,    *)
(* although two share a temporary file.  Those of arm, i386 and x86_64 are *)
(* the kernel's, those of aarch64 and x32 have more, from the same files.  *)
THEOREM OneVersionTables == Spec => []TablesOfOneVersion
<1>1. TablesInv => TablesOfOneVersion
  BY InvOneVersion
<1> QED BY <1>1, TablesInvariant, PTL

LEMMA InvRoundTrip ==
  ASSUME TablesInv
  PROVE  NamesRoundTrip
<1> SUFFICES ASSUME program # <<>>, NEW goarch \in GOARCHes, NEW name \in ArchNames,
                    GetInfo(program, goarch, name) # Unsupported
             PROVE  LET info == GetInfo(program, goarch, name)
                    IN  /\ Undoes(info.syscallNumbers, info.syscallNames)
                        /\ info # program.x32 => Undoes(info.syscallNames, info.syscallNumbers)
  BY Zenon DEF NamesRoundTrip
<1>1. PICK v \in DOMAIN Kernel : \E t, n :
        /\ TablesAre(t, v) /\ \A a \in TableNames : n[a] \in invert(t[a])
        /\ program = Infos(t, n)
  BY Zenon DEF TablesInv, ProgramInv
<1>2. PICK t, n : /\ TablesAre(t, v) /\ \A a \in TableNames : n[a] \in invert(t[a])
                  /\ program = Infos(t, n)
  BY <1>1
<1>3. PICK info : info = GetInfo(program, goarch, name)
  OBVIOUS
<1>4. PICK key : key = IF name = "" THEN goarch ELSE ToLower(name)
  OBVIOUS
<1>5. /\ key \in DOMAIN arches /\ DOMAIN program[arches[key]].syscallNames # {}
      /\ info = program[arches[key]]
  BY <1>3, <1>4, Zenon DEF GetInfo
<1>6. PICK a : a = arches[key]
  OBVIOUS
<1>7. a \in {"arm", "aarch64", "i386", "x32", "x86_64"}
  <2>1. a \in {"arm", "aarch64", "i386", "x32", "x86_64"} \cup Unimplemented
    BY <1>5, <1>6, ArchesAre
  <2>2. a \notin Unimplemented
    BY <1>2, <1>5, <1>6, InfosAre
  <2> QED BY <2>1, <2>2
<1>8. ASSUME NEW T \in TableNames, info.syscallNumbers = t[T], info.syscallNames = n[T]
      PROVE  /\ Undoes(info.syscallNumbers, info.syscallNames)
             /\ T # "X32" => Undoes(info.syscallNames, info.syscallNumbers)
  <2>1. n[T] \in invert(t[T])
    BY <1>2
  <2>2. Undoes(t[T], n[T]) /\ (IsInjective(t[T]) => Undoes(n[T], t[T]))
    BY <2>1, InvertBoth
  <2>3. T # "X32" => IsInjective(t[T])
    BY <1>2 DEF TablesAre
  <2> QED BY <1>8, <2>2, <2>3, Zenon
<1>9. /\ program["arm"].syscallNumbers = t["ARM"] /\ program["arm"].syscallNames = n["ARM"]
      /\ program["aarch64"].syscallNumbers = t["AARCH64"]
      /\ program["aarch64"].syscallNames = n["AARCH64"]
      /\ program["i386"].syscallNumbers = t["I386"] /\ program["i386"].syscallNames = n["I386"]
      /\ program["x32"].syscallNumbers = t["X32"] /\ program["x32"].syscallNames = n["X32"]
      /\ program["x86_64"].syscallNumbers = t["X86_64"]
      /\ program["x86_64"].syscallNames = n["X86_64"]
  BY <1>2, InfosAre
<1>10. /\ "ARM" \in TableNames /\ "AARCH64" \in TableNames /\ "I386" \in TableNames
       /\ "X32" \in TableNames /\ "X86_64" \in TableNames
       /\ "ARM" # "X32" /\ "AARCH64" # "X32" /\ "I386" # "X32" /\ "X86_64" # "X32"
  BY DEF TableNames
<1>11. /\ Undoes(info.syscallNumbers, info.syscallNames)
       /\ a # "x32" => Undoes(info.syscallNames, info.syscallNumbers)
  <2>1. CASE a = "arm"
    <3>1. info.syscallNumbers = t["ARM"] /\ info.syscallNames = n["ARM"]
      BY <1>5, <1>6, <1>9, <2>1
    <3> QED BY <1>8, <1>10, <3>1
  <2>2. CASE a = "aarch64"
    <3>1. info.syscallNumbers = t["AARCH64"] /\ info.syscallNames = n["AARCH64"]
      BY <1>5, <1>6, <1>9, <2>2
    <3> QED BY <1>8, <1>10, <3>1
  <2>3. CASE a = "i386"
    <3>1. info.syscallNumbers = t["I386"] /\ info.syscallNames = n["I386"]
      BY <1>5, <1>6, <1>9, <2>3
    <3> QED BY <1>8, <1>10, <3>1
  <2>4. CASE a = "x32"
    <3>1. info.syscallNumbers = t["X32"] /\ info.syscallNames = n["X32"]
      BY <1>5, <1>6, <1>9, <2>4
    <3> QED BY <1>8, <1>10, <2>4, <3>1
  <2>5. CASE a = "x86_64"
    <3>1. info.syscallNumbers = t["X86_64"] /\ info.syscallNames = n["X86_64"]
      BY <1>5, <1>6, <1>9, <2>5
    <3> QED BY <1>8, <1>10, <3>1
  <2> QED BY <1>7, <2>1, <2>2, <2>3, <2>4, <2>5
<1>12. info # program.x32 => a # "x32"
  BY <1>5, <1>6
<1> QED BY <1>3, <1>11, <1>12, Zenon

(* In every program and under every GOARCH, the names of every table that  *)
(* GetInfo gives stand for numbers they came from, in whatever order a Go  *)
(* map was ranged over to invert it.  Except in that of x32, every number  *)
(* comes back from its name, also where the table has more than the        *)
(* kernel's calls: a version whose files have a name once, which is all    *)
(* that is assumed, cannot end up with it twice.                           *)
THEOREM RoundTrips == Spec => []NamesRoundTrip
<1>1. TablesInv => NamesRoundTrip
  BY InvRoundTrip
<1> QED BY <1>1, TablesInvariant, PTL
=============================================================================
