--------------------------- MODULE ProfilerProofs ---------------------------
(***************************************************************************)
(* Proofs about module Profiler, for any number of invocations, any builds *)
(* and objdumps and a buffer of any size: what the files it shares with    *)
(* other invocations hold.                                                 *)
(*                                                                         *)
(* OutputInv is about the output file, CacheInv about the cache, to which  *)
(* any number of invocations may write at the same time: every line of it  *)
(* is right or will be written by one of them.                             *)
(***************************************************************************)
EXTENDS Profiler, SequenceTheorems, TLAPS

Labels == {"idle", "hash", "check", "create", "dump", "parse", "open", "write",
           "writing", "done", "failed"}

PcInv == pc \in [Invocations -> Labels] /\ profile = [i \in Invocations |-> profile[i]]

(* A line that the cache may hold: of the objdump of a build, or of its    *)
(* own.                                                                    *)
CacheLines ==
  {HashLine(h) : h \in Builds \cup {NoHash}} \cup {Other}
  \cup UNION {Range(Dump[b]) : b \in Builds}

(* The fields of a memory; machine and parser may be anything.             *)
IsMem(m) ==
  m \in [machine : {m.machine}, hash : Builds \cup {NoHash}, dumping : Seq(CacheLines),
         buffer : Seq(CacheLines), offset : Nat, parser : {m.parser}]

MemInv ==
  /\ mem = [i \in Invocations |-> mem[i]]
  /\ \A i \in Invocations : IsMem(mem[i])
  /\ binary \in Builds
  /\ cache \in Seq(CacheLines)

(* Without overlap one invocation runs at a time.                          *)
AloneInv ==
  "overlap" \notin trouble =>
    \A i, j \in Invocations : Running(i) /\ Running(j) => i = j

(* Then the file an invocation writes to is still as it left it, and one   *)
(* that it opened is its own until the next opens it.                      *)
OutputGood ==
  /\ \A i \in Invocations : options[i].out = "file" =>
       /\ pc[i] = "write" => outFile = Out(i, "empty")
       /\ pc[i] = "writing" => outFile = Out(i, "part")
       /\ pc[i] = "done" => outFile.by # Nobody
  /\ \A i \in Invocations : outFile.by = i =>
       /\ options[i].out = "file" /\ pc[i] \in {"write", "writing", "done", "failed"}
       /\ pc[i] = "done" => outFile.holds = "whole"

OutputInv == "overlap" \notin trouble => OutputGood

-----------------------------------------------------------------------------
(* The cache file.                                                         *)

(* The troubles that CacheWhole allows.                                    *)
Calm == trouble \in {{}, {"overlap"}, {"unreadable"}}

(* The whole objdump of a build under a hash.                              *)
Whole(h, b) == <<HashLine(h)>> \o Dump[b]

Hashed(i) == pc[i] \in {"check", "create", "dump", "parse", "open", "write", "writing"}
Writes(i) == pc[i] = "dump"

(* Nothing is written before the file is created.                          *)
OffsetInv ==
  \A i \in Invocations : pc[i] \in {"idle", "hash", "check", "create"} => mem[i].offset = 0

(* What an invocation hashed is the binary that is still there.            *)
HashInv ==
  Calm => \A i \in Invocations :
    Hashed(i) => \/ mem[i].hash = binary
                 \/ mem[i].hash = NoHash /\ "unreadable" \in trouble

(* What is in the buffer of a writer and what it still has to print is the *)
(* rest of the objdump.                                                    *)
Rest(m, w) ==
  /\ m.offset + Len(m.buffer) + Len(m.dumping) = Len(w)
  /\ \A k \in 1 .. Len(m.buffer) : m.buffer[k] = w[m.offset + k]
  /\ \A k \in 1 .. Len(m.dumping) : m.dumping[k] = w[m.offset + Len(m.buffer) + k]

WriterInv ==
  Calm => \A i \in Invocations : Writes(i) => Rest(mem[i], Whole(mem[i].hash, binary))

(* A line of the cache is right, or some writer is yet to write it.        *)
Covered(w) ==
  /\ Len(cache) <= Len(w)
  /\ \A k \in 1 .. Len(w) :
       \/ k <= Len(cache) /\ cache[k] = w[k]
       \/ \E i \in Invocations : Writes(i) /\ mem[i].offset < k

(* The objdump that is being written or was: that of all writers.          *)
Current(h, b) ==
  /\ h \in {b, NoHash}
  /\ \A i \in Invocations : Writes(i) => mem[i].hash = h /\ binary = b
  /\ Covered(Whole(h, b))

CacheInv ==
  Calm => \/ cache = <<>> /\ \A i \in Invocations : ~Writes(i)
          \/ \E b \in Builds : \E h \in {b, NoHash} : Current(h, b)

-----------------------------------------------------------------------------
(* Memories.                                                               *)

LEMMA MemMachine ==
  ASSUME NEW m, IsMem(m), NEW x
  PROVE  LET n == [m EXCEPT !.machine = x]
         IN  IsMem(n) /\ n.hash = m.hash /\ n.buffer = m.buffer /\ n.dumping = m.dumping
             /\ n.offset = m.offset
BY DEF IsMem

LEMMA MemHash ==
  ASSUME NEW m, IsMem(m), NEW h \in Builds \cup {NoHash}
  PROVE  LET n == [m EXCEPT !.hash = h]
         IN  IsMem(n) /\ n.hash = h /\ n.offset = m.offset
BY DEF IsMem

LEMMA MemBuffer ==
  ASSUME NEW m, IsMem(m), NEW b \in Seq(CacheLines)
  PROVE  LET n == [m EXCEPT !.buffer = b]
         IN  IsMem(n) /\ n.hash = m.hash /\ n.buffer = b /\ n.dumping = m.dumping
             /\ n.offset = m.offset
BY DEF IsMem

LEMMA MemPrinted ==
  ASSUME NEW m, IsMem(m), NEW d \in Seq(CacheLines)
  PROVE  LET n == [m EXCEPT !.dumping = d]
         IN  IsMem(n) /\ n.hash = m.hash /\ n.buffer = m.buffer /\ n.dumping = d
             /\ n.offset = m.offset
BY DEF IsMem

LEMMA MemParser ==
  ASSUME NEW m, IsMem(m), NEW x
  PROVE  LET n == [m EXCEPT !.parser = x] IN IsMem(n) /\ n.hash = m.hash
BY DEF IsMem

LEMMA MemParsed ==
  ASSUME NEW m, IsMem(m), NEW x, NEW o \in Nat
  PROVE  LET n == [m EXCEPT !.parser = x, !.offset = o] IN IsMem(n) /\ n.hash = m.hash
BY DEF IsMem

LEMMA NewMemIsMem == IsMem(NewMem)
<1>1. <<>> \in Seq(CacheLines)
  OBVIOUS
<1> QED BY <1>1 DEF IsMem, NewMem

LEMMA MemStep ==
  ASSUME MemInv, NEW i \in Invocations, NEW m, IsMem(m), mem' = [mem EXCEPT ![i] = m],
         binary' \in Builds, cache' \in Seq(CacheLines)
  PROVE  /\ MemInv'
         /\ mem'[i] = m
         /\ \A j \in Invocations \ {i} : mem'[j] = mem[j]
<1>1. mem'[i] = m /\ \A j \in Invocations \ {i} : mem'[j] = mem[j]
  BY DEF MemInv
<1>2. mem' = [j \in Invocations |-> mem'[j]]
  BY DEF MemInv
<1>3. \A j \in Invocations : IsMem(mem'[j])
  <2> TAKE j \in Invocations
  <2>1. CASE j = i
    BY <1>1, <2>1
  <2>2. CASE j # i
    <3>1. IsMem(mem[j])
      BY DEF MemInv
    <3> QED BY <1>1, <2>2, <3>1
  <2> QED BY <2>1, <2>2
<1> QED BY <1>1, <1>2, <1>3 DEF MemInv

LEMMA MemFields ==
  ASSUME NEW m, IsMem(m)
  PROVE  /\ m.hash \in Builds \cup {NoHash}
         /\ m.dumping \in Seq(CacheLines) /\ m.buffer \in Seq(CacheLines) /\ m.offset \in Nat
         /\ Len(m.buffer) \in Nat /\ Len(m.dumping) \in Nat
BY DEF IsMem

(* What a flush leaves in the file.                                        *)
LEMMA FlushFacts ==
  ASSUME NEW f \in Seq(CacheLines), NEW m, IsMem(m)
  PROVE  LET o == m.offset
             n == Len(m.buffer)
         IN  /\ Flush(f, m) \in Seq(CacheLines)
             /\ Len(Flush(f, m)) = IF o + n > Len(f) THEN o + n ELSE Len(f)
             /\ \A k \in 1 .. Len(Flush(f, m)) :
                  Flush(f, m)[k] = IF k > o /\ k <= o + n THEN m.buffer[k - o]
                                   ELSE IF k <= Len(f) THEN f[k] ELSE Other
<1> DEFINE o == m.offset
           n == Len(m.buffer)
           top == IF o + n > Len(f) THEN o + n ELSE Len(f)
           at(k) == IF k > o /\ k <= o + n THEN m.buffer[k - o]
                    ELSE IF k <= Len(f) THEN f[k] ELSE Other
<1>1. o \in Nat /\ n \in Nat /\ Len(f) \in Nat /\ top \in Nat /\ m.buffer \in Seq(CacheLines)
  BY MemFields
<1>2. Flush(f, m) = [k \in 1 .. top |-> at(k)]
  BY DEF Flush
<1> HIDE DEF top
<1>3. \A k \in 1 .. top : at(k) \in CacheLines
  <2> TAKE k \in 1 .. top
  <2>1. CASE k > o /\ k <= o + n
    <3>1. k - o \in 1 .. Len(m.buffer)
      BY <1>1, <2>1
    <3> QED BY <1>1, <2>1, <3>1
  <2>2. CASE ~(k > o /\ k <= o + n) /\ k <= Len(f)
    <3>1. k \in 1 .. Len(f)
      BY <1>1, <2>2
    <3> QED BY <2>2, <3>1
  <2>3. CASE ~(k > o /\ k <= o + n) /\ ~(k <= Len(f))
    BY <2>3 DEF CacheLines
  <2> QED BY <2>1, <2>2, <2>3
<1>4. Flush(f, m) \in Seq(CacheLines) /\ Len(Flush(f, m)) = top
  <2> HIDE DEF at
  <2> QED BY <1>1, <1>2, <1>3
<1>5. \A k \in 1 .. top : Flush(f, m)[k] = at(k)
  <2> HIDE DEF at
  <2> QED BY <1>2
<1> QED BY <1>4, <1>5, Zenon DEF top

LEMMA DumpIsSeq ==
  ASSUME NEW b \in Builds
  PROVE  Dump[b] \in Seq(CacheLines) /\ Len(Dump[b]) \in Nat
<1>1. Dump[b] \in Seq(Range(Dump[b]))
  BY DumpAssumption
<1>2. Range(Dump[b]) \subseteq CacheLines
  BY DEF CacheLines
<1>3. Dump[b] \in Seq(CacheLines)
  BY <1>1, <1>2, SeqMonotonic
<1> QED BY <1>3

LEMMA HashLineIsLine ==
  ASSUME NEW h \in Builds \cup {NoHash}
  PROVE  <<HashLine(h)>> \in Seq(CacheLines) /\ Len(<<HashLine(h)>>) = 1
<1>1. HashLine(h) \in CacheLines
  BY DEF CacheLines
<1> HIDE DEF HashLine
<1> QED BY <1>1

(* The memory that an invocation goes on with.                             *)
Created(m) == [m EXCEPT !.buffer = <<HashLine(m.hash)>>, !.dumping = Dump[binary]]
Buffered(m) ==
  [[m EXCEPT !.dumping = Tail(@)] EXCEPT !.buffer = Append(@, Head(m.dumping))]
Flushed(m) ==
  [[m EXCEPT !.dumping = Tail(@)]
     EXCEPT !.offset = @ + Len([m EXCEPT !.dumping = Tail(@)].buffer),
            !.buffer = <<Head(m.dumping)>>]
Closed(m) == [m EXCEPT !.buffer = <<>>, !.offset = 0]

LEMMA CreatedFacts ==
  ASSUME NEW m, IsMem(m), binary \in Builds
  PROVE  /\ IsMem(Created(m)) /\ Created(m).hash = m.hash /\ Created(m).offset = m.offset
         /\ Created(m).buffer = <<HashLine(m.hash)>> /\ Created(m).dumping = Dump[binary]
<1>1. <<HashLine(m.hash)>> \in Seq(CacheLines) /\ Dump[binary] \in Seq(CacheLines)
  BY MemFields, HashLineIsLine, DumpIsSeq
<1>2. PICK b \in Seq(CacheLines), d \in Seq(CacheLines) :
        b = <<HashLine(m.hash)>> /\ d = Dump[binary]
  BY <1>1, Zenon
<1>3. PICK n : n = [m EXCEPT !.buffer = b, !.dumping = d]
  OBVIOUS
<1>4. IsMem(n) /\ n.hash = m.hash /\ n.offset = m.offset /\ n.buffer = b /\ n.dumping = d
  BY <1>3 DEF IsMem
<1>5. Created(m) = n
  BY <1>2, <1>3, Zenon DEF Created
<1> QED BY <1>2, <1>4, <1>5, Zenon

LEMMA HeadTail ==
  ASSUME NEW S, NEW s \in Seq(S), s # <<>>
  PROVE  /\ Head(s) \in S /\ Tail(s) \in Seq(S)
         /\ Len(s) \in Nat /\ Len(s) >= 1 /\ Len(Tail(s)) = Len(s) - 1
         /\ Head(s) = s[1]
         /\ \A k \in 1 .. (Len(s) - 1) : Tail(s)[k] = s[k + 1]
OBVIOUS

LEMMA PrintedFacts ==
  ASSUME NEW m, IsMem(m), m.dumping # <<>>
  PROVE  LET n == [m EXCEPT !.dumping = Tail(@)]
         IN  IsMem(n) /\ n.hash = m.hash /\ n.buffer = m.buffer /\ n.dumping = Tail(m.dumping)
             /\ n.offset = m.offset
<1>1. Tail(m.dumping) \in Seq(CacheLines)
  BY MemFields, HeadTail
<1> QED BY <1>1, MemPrinted, Zenon

LEMMA BufferedFacts ==
  ASSUME NEW m, IsMem(m), m.dumping # <<>>
  PROVE  /\ IsMem(Buffered(m)) /\ Buffered(m).hash = m.hash /\ Buffered(m).offset = m.offset
         /\ Buffered(m).buffer = Append(m.buffer, Head(m.dumping))
         /\ Buffered(m).dumping = Tail(m.dumping)
<1> DEFINE n == [m EXCEPT !.dumping = Tail(@)]
<1>1. /\ IsMem(n) /\ n.hash = m.hash /\ n.buffer = m.buffer /\ n.dumping = Tail(m.dumping)
      /\ n.offset = m.offset
  BY PrintedFacts
<1>2. Buffered(m) = [n EXCEPT !.buffer = Append(@, Head(m.dumping))]
  BY Zenon DEF Buffered
<1> HIDE DEF n
<1>3. Append(m.buffer, Head(m.dumping)) \in Seq(CacheLines)
  <2>1. m.buffer \in Seq(CacheLines) /\ Head(m.dumping) \in CacheLines
    BY MemFields, HeadTail
  <2> QED BY <2>1, AppendProperties
<1>4. Buffered(m) = [n EXCEPT !.buffer = Append(m.buffer, Head(m.dumping))]
  BY <1>1, <1>2, Zenon
<1>5. LET r == [n EXCEPT !.buffer = Append(m.buffer, Head(m.dumping))]
      IN  IsMem(r) /\ r.hash = n.hash /\ r.buffer = Append(m.buffer, Head(m.dumping))
          /\ r.dumping = n.dumping /\ r.offset = n.offset
  BY <1>1, <1>3, MemBuffer, Zenon
<1> QED BY <1>1, <1>4, <1>5, Zenon

LEMMA FlushedFacts ==
  ASSUME NEW m, IsMem(m), m.dumping # <<>>
  PROVE  /\ IsMem(Flushed(m)) /\ Flushed(m).hash = m.hash
         /\ Flushed(m).offset = m.offset + Len(m.buffer)
         /\ Flushed(m).buffer = <<Head(m.dumping)>>
         /\ Flushed(m).dumping = Tail(m.dumping)
<1> DEFINE n == [m EXCEPT !.dumping = Tail(@)]
           o == m.offset + Len(m.buffer)
           s == <<Head(m.dumping)>>
<1>1. /\ IsMem(n) /\ n.hash = m.hash /\ n.buffer = m.buffer /\ n.dumping = Tail(m.dumping)
      /\ n.offset = m.offset
  BY PrintedFacts
<1>2. Flushed(m) = [n EXCEPT !.offset = @ + Len(n.buffer), !.buffer = s]
  BY Zenon DEF Flushed
<1>3. o \in Nat /\ s \in Seq(CacheLines)
  <2>1. m.offset \in Nat /\ Len(m.buffer) \in Nat /\ Head(m.dumping) \in CacheLines
    BY MemFields, HeadTail
  <2> QED BY <2>1
<1> HIDE DEF n, s
<1>4. Flushed(m) = [n EXCEPT !.offset = o, !.buffer = s]
  BY <1>1, <1>2, Zenon
<1> HIDE DEF o
<1>5. LET r == [n EXCEPT !.offset = o, !.buffer = s]
      IN  IsMem(r) /\ r.hash = n.hash /\ r.buffer = s /\ r.dumping = n.dumping /\ r.offset = o
  <2>1. ASSUME NEW b \in Seq(CacheLines), NEW p \in Nat
        PROVE  LET r == [n EXCEPT !.offset = p, !.buffer = b]
               IN  IsMem(r) /\ r.hash = n.hash /\ r.buffer = b /\ r.dumping = n.dumping
                   /\ r.offset = p
    BY <1>1 DEF IsMem
  <2> QED BY <1>3, <2>1, Zenon
<1> QED BY <1>1, <1>4, <1>5, Zenon DEF o, s

LEMMA ClosedFacts ==
  ASSUME NEW m, IsMem(m)
  PROVE  IsMem(Closed(m)) /\ Closed(m).hash = m.hash
<1>1. <<>> \in Seq(CacheLines) /\ 0 \in Nat
  OBVIOUS
<1>2. ASSUME NEW b \in Seq(CacheLines), NEW o \in Nat
      PROVE  LET n == [m EXCEPT !.buffer = b, !.offset = o] IN IsMem(n) /\ n.hash = m.hash
  BY DEF IsMem
<1> QED BY <1>1, <1>2, Zenon DEF Closed

-----------------------------------------------------------------------------
(* Every step of an invocation moves it and gives it a memory.             *)

Goes(i, label, m) == pc' = [pc EXCEPT ![i] = label] /\ mem' = [mem EXCEPT ![i] = m]

LEMMA NoteFacts ==
  ASSUME NEW what, NEW happened, Note(what, happened)
  PROVE  /\ trouble \subseteq trouble'
         /\ happened => what \in trouble'
BY DEF Note

LEMMA StepGoes ==
  ASSUME MemInv, NEW i \in Invocations, Step(i) \/ Kill(i)
  PROVE  /\ \E label \in Labels : \E m : IsMem(m) /\ Goes(i, label, m)
         /\ binary' = binary /\ options' = options /\ trouble \subseteq trouble'
         /\ cache' \in Seq(CacheLines)
<1>0. /\ IsMem(mem[i]) /\ IsMem(NewMem) /\ binary \in Builds /\ cache \in Seq(CacheLines)
      /\ Flush(cache, mem[i]) \in Seq(CacheLines) /\ <<>> \in Seq(CacheLines)
  <2>1. IsMem(mem[i]) /\ IsMem(NewMem) /\ binary \in Builds /\ cache \in Seq(CacheLines)
    BY NewMemIsMem DEF MemInv
  <2>2. Flush(cache, mem[i]) \in Seq(CacheLines)
    BY <2>1, FlushFacts
  <2>3. <<>> \in Seq(CacheLines)
    OBVIOUS
  <2> QED BY <2>1, <2>2, <2>3
<1> USE DEF Goes, Continue, Exit, Labels
<1>1. CASE GetBinaryArch(i)
  <2>1. IsMem([mem[i] EXCEPT !.machine = Machine[binary]])
    BY <1>0, MemMachine, Zenon
  <2>2. \E label \in Labels : \E m : IsMem(m) /\ Goes(i, label, m)
    <3>1. CASE Machine[binary] = "unknown"
      BY <1>0, <1>1, <3>1, Zenon DEF GetBinaryArch
    <3>2. CASE Machine[binary] # "unknown"
      BY <1>1, <2>1, <3>2, Zenon DEF GetBinaryArch
    <3> QED BY <3>1, <3>2
  <2> QED BY <1>0, <1>1, <2>2, NoteFacts, Zenon DEF GetBinaryArch
<1>2. CASE HashBinary(i)
  <2>1. PICK h \in {binary, NoHash} : /\ Continue(i, "check", [mem[i] EXCEPT !.hash = h])
                                      /\ Note("unreadable", h = NoHash)
    BY <1>2 DEF HashBinary
  <2>2. IsMem([mem[i] EXCEPT !.hash = h])
    <3>1. h \in Builds \cup {NoHash}
      BY <1>0
    <3> QED BY <1>0, <3>1, MemHash, Zenon
  <2>3. \E label \in Labels : \E m : IsMem(m) /\ Goes(i, label, m)
    BY <2>1, <2>2, Zenon
  <2> QED BY <1>0, <1>2, <2>1, <2>3, NoteFacts, Zenon DEF HashBinary
<1>3. CASE CheckCache(i)
  <2>1. \E label \in Labels : \E m : IsMem(m) /\ Goes(i, label, m)
    <3>1. CASE CacheHit(i)
      BY <1>0, <1>3, <3>1, Zenon DEF CheckCache
    <3>2. CASE ~CacheHit(i)
      BY <1>0, <1>3, <3>2, Zenon DEF CheckCache
    <3> QED BY <3>1, <3>2
  <2> QED BY <1>0, <1>3, <2>1, Zenon DEF CheckCache
<1>4. CASE CreateDump(i)
  <2>1. IsMem(Created(mem[i]))
    BY <1>0, CreatedFacts
  <2>2. Goes(i, "dump", Created(mem[i]))
    BY <1>4, Zenon DEF CreateDump, Created
  <2> QED BY <1>0, <1>4, <2>1, <2>2, Zenon DEF CreateDump
<1>5. CASE DumpLine(i)
  <2>1. IsMem(Buffered(mem[i])) /\ IsMem(Flushed(mem[i]))
    BY <1>0, <1>5, BufferedFacts, FlushedFacts DEF DumpLine
  <2>2. \/ Goes(i, "dump", Buffered(mem[i])) /\ cache' = cache
        \/ /\ Goes(i, "dump", Flushed(mem[i]))
           /\ cache' = Flush(cache, [mem[i] EXCEPT !.dumping = Tail(@)])
    BY <1>5, Zenon DEF DumpLine, Buffered, Flushed
  <2>3. Flush(cache, [mem[i] EXCEPT !.dumping = Tail(@)]) \in Seq(CacheLines)
    <3>1. IsMem([mem[i] EXCEPT !.dumping = Tail(@)])
      BY <1>0, <1>5, PrintedFacts, Zenon DEF DumpLine
    <3> QED BY <1>0, <3>1, FlushFacts, Zenon
  <2>4. \E label \in Labels : \E m : IsMem(m) /\ Goes(i, label, m)
    BY <2>1, <2>2, Zenon
  <2> QED BY <1>0, <1>5, <2>2, <2>3, <2>4, Zenon DEF DumpLine
<1>6. CASE DumpEnd(i)
  <2>1. IsMem(Closed(mem[i]))
    BY <1>0, ClosedFacts
  <2>2. Goes(i, "parse", Closed(mem[i]))
    BY <1>6, Zenon DEF DumpEnd, Closed
  <2> QED BY <1>0, <1>6, <2>1, <2>2, Zenon DEF DumpEnd
<1>7. CASE DumpFails(i)
  BY <1>0, <1>7, NoteFacts, Zenon DEF DumpFails
<1>8. CASE Kill(i)
  BY <1>0, <1>8, NoteFacts, Zenon DEF Kill
<1>9. CASE Parse(i)
  <2> DEFINE m == mem[i]
             p == [m EXCEPT !.parser = NewParser]
             q == [m EXCEPT !.parser = ParseLine(@, cache[m.offset + 1]), !.offset = @ + 1]
  <2>1. IsMem(p)
    BY <1>0, MemParser, Zenon
  <2>2. IsMem(q)
    <3>1. \A x : \A o \in Nat : IsMem([m EXCEPT !.parser = x, !.offset = o])
      BY <1>0, MemParsed
    <3>2. m.offset + 1 \in Nat
      BY <1>0, MemFields
    <3> QED BY <3>1, <3>2, Zenon
  <2>3. \/ Goes(i, "failed", NewMem) \/ Goes(i, "open", m)
        \/ Goes(i, "open", p) \/ Goes(i, "parse", q)
    BY <1>9, Zenon DEF Parse
  <2> HIDE DEF p, q
  <2>4. \E label \in Labels : \E n : IsMem(n) /\ Goes(i, label, n)
    BY <1>0, <2>1, <2>2, <2>3, Zenon
  <2> QED BY <1>0, <1>9, <2>4, Zenon DEF Parse
<1>10. CASE OpenOutput(i)
  BY <1>0, <1>10, Zenon DEF OpenOutput
<1>11. CASE WriteProfile(i)
  BY <1>0, <1>11, Zenon DEF WriteProfile
<1>12. CASE WriteFails(i)
  BY <1>0, <1>12, Zenon DEF WriteFails
<1>13. CASE WritePart(i)
  BY <1>0, <1>13, Zenon DEF WritePart
<1>14. CASE FlushFails(i)
  <2>1. IsMem(Closed(mem[i]))
    BY <1>0, ClosedFacts
  <2>2. Goes(i, "parse", Closed(mem[i]))
    BY <1>14, Zenon DEF FlushFails, Closed
  <2> QED BY <1>0, <1>14, <2>1, <2>2, NoteFacts, Zenon DEF FlushFails
<1> QED BY <1>1, <1>2, <1>3, <1>4, <1>5, <1>6, <1>7, <1>8, <1>9, <1>10, <1>11, <1>12, <1>13, <1>14,
           Zenon DEF Step

-----------------------------------------------------------------------------
(* The output file.                                                        *)

(* What a step of one invocation may do to pc: Running only begins with    *)
(* GetBinaryArch.                                                          *)
Moves(i, label) == pc' = [pc EXCEPT ![i] = label]

LEMMA MovesFacts ==
  ASSUME PcInv, NEW i \in Invocations, NEW label \in Labels, Moves(i, label)
  PROVE  /\ pc' \in [Invocations -> Labels]
         /\ pc'[i] = label
         /\ \A j \in Invocations \ {i} : pc'[j] = pc[j]
BY DEF PcInv, Moves, Labels

(* An invocation that runs on is as much alone as before.                  *)
LEMMA AloneMoves ==
  ASSUME PcInv, AloneInv, NEW i \in Invocations, NEW label \in Labels, Moves(i, label),
         trouble \subseteq trouble', Running(i) \/ label \in {"done", "failed"}
  PROVE  AloneInv'
<1>1. pc'[i] = label /\ \A j \in Invocations \ {i} : pc'[j] = pc[j]
  BY MovesFacts
<1>2. \A j \in Invocations : Running(j)' => Running(j)
  <2> TAKE j \in Invocations
  <2>1. CASE j = i
    BY <1>1, <2>1 DEF Running
  <2>2. CASE j # i
    BY <1>1, <2>2 DEF Running
  <2> QED BY <2>1, <2>2
<1> QED BY <1>2 DEF AloneInv

LEMMA AloneStarts ==
  ASSUME PcInv, AloneInv, NEW i \in Invocations, NEW label \in Labels, Moves(i, label),
         trouble \subseteq trouble', (\E j \in Invocations : Running(j)) => "overlap" \in trouble'
  PROVE  AloneInv'
<1>1. \A j \in Invocations \ {i} : pc'[j] = pc[j]
  BY MovesFacts
<1>2. \A j \in Invocations \ {i} : Running(j)' => Running(j)
  BY <1>1 DEF Running
<1> QED BY <1>2 DEF AloneInv

(* A step that leaves outputs and flags alone and writes nothing keeps     *)
(* OutputInv.                                                              *)
BeforeOutput == {"idle", "hash", "check", "create", "dump", "parse"}

LEMMA OutputMoves ==
  ASSUME PcInv, OutputInv, NEW i \in Invocations, NEW label \in Labels, Moves(i, label),
         trouble \subseteq trouble', UNCHANGED <<options, outFile>>,
         pc[i] # "done", label \notin {"done", "write", "writing"},
         label = "failed" \/ pc[i] \in BeforeOutput
  PROVE  OutputInv'
<1> SUFFICES ASSUME "overlap" \notin trouble'
             PROVE  OutputGood'
  BY DEF OutputInv
<1>1. pc'[i] = label /\ \A j \in Invocations \ {i} : pc'[j] = pc[j]
  BY MovesFacts
<1>2. OutputGood
  BY DEF OutputInv
<1>3. ASSUME NEW j \in Invocations, options[j].out = "file"
      PROVE  /\ pc'[j] = "write" => outFile = Out(j, "empty")
             /\ pc'[j] = "writing" => outFile = Out(j, "part")
             /\ pc'[j] = "done" => outFile.by # Nobody
  BY <1>1, <1>2, <1>3 DEF OutputGood
<1>4. ASSUME NEW j \in Invocations, outFile.by = j
      PROVE  /\ options[j].out = "file" /\ pc'[j] \in {"write", "writing", "done", "failed"}
             /\ pc'[j] = "done" => outFile.holds = "whole"
  <2>1. /\ options[j].out = "file" /\ pc[j] \in {"write", "writing", "done", "failed"}
        /\ pc[j] = "done" => outFile.holds = "whole"
    BY <1>2, <1>4 DEF OutputGood
  <2> QED BY <1>1, <2>1 DEF BeforeOutput
<1> QED BY <1>3, <1>4 DEF OutputGood

(* A step of the only invocation that runs and has the file as its own.    *)
LEMMA OutputOwn ==
  ASSUME PcInv, AloneInv, OutputInv, NEW i \in Invocations, NEW label \in {"write", "writing", "done"},
         Moves(i, label), trouble' = trouble, options' = options, Running(i),
         "overlap" \notin trouble =>
           IF options[i].out = "file"
           THEN outFile' = Out(i, CASE label = "write" -> "empty" [] label = "writing" -> "part"
                                    [] label = "done" -> "whole")
           ELSE outFile' = outFile
  PROVE  OutputInv'
<1> SUFFICES ASSUME "overlap" \notin trouble
             PROVE  OutputGood'
  BY DEF OutputInv
<1>1. pc'[i] = label /\ \A j \in Invocations \ {i} : pc'[j] = pc[j]
  BY MovesFacts DEF Labels
<1>2. OutputGood
  BY DEF OutputInv
<1>3. \A j \in Invocations \ {i} : pc'[j] \in {"idle", "done", "failed"}
  BY <1>1 DEF AloneInv, Running
<1>4. CASE options[i].out = "file"
  <2>1. PICK holds : /\ outFile' = Out(i, holds)
                     /\ label = "write" => holds = "empty"
                     /\ label = "writing" => holds = "part"
                     /\ label = "done" => holds = "whole"
    BY <1>4
  <2>2. outFile'.by = i /\ outFile'.holds = holds /\ i # Nobody
    BY <2>1, InvocationsAssumption DEF Out
  <2> HIDE DEF Out
  <2> QED BY <1>1, <1>3, <1>4, <2>1, <2>2 DEF OutputGood
<1>5. CASE options[i].out # "file"
  <2>1. outFile' = outFile /\ outFile.by # i
    BY <1>2, <1>5 DEF OutputGood
  <2>2. \A j \in Invocations : options[j].out = "file" => j # i /\ (pc'[j] = "done" => outFile.by # Nobody)
    BY <1>1, <1>2, <1>5 DEF OutputGood
  <2>3. \A j \in Invocations : outFile.by = j =>
          /\ options[j].out = "file" /\ pc'[j] \in {"write", "writing", "done", "failed"}
          /\ pc'[j] = "done" => outFile.holds = "whole"
    BY <1>1, <1>2, <2>1 DEF OutputGood
  <2> QED BY <1>3, <2>1, <2>2, <2>3 DEF OutputGood
<1> QED BY <1>4, <1>5

LEMMA OutputSteps ==
  ASSUME PcInv, AloneInv, OutputInv, NEW i \in Invocations,
         OpenOutput(i) \/ WritePart(i) \/ WriteProfile(i)
  PROVE  /\ OutputInv' /\ Running(i)
         /\ \E label \in {"write", "writing", "done"} : Moves(i, label)
<1>1. CASE OpenOutput(i)
  <2>1. /\ Moves(i, "write") /\ Running(i) /\ trouble' = trouble /\ options' = options
        /\ outFile' = IF options[i].out = "file" THEN Out(i, "empty") ELSE outFile
    BY <1>1 DEF OpenOutput, Continue, Moves, Running
  <2> QED BY <2>1, OutputOwn
<1>2. CASE WritePart(i)
  <2>1. /\ pc[i] = "write" /\ Moves(i, "writing") /\ Running(i) /\ trouble' = trouble
        /\ options' = options /\ Written(i, "empty", "part")
    BY <1>2 DEF WritePart, Continue, Moves, Running
  <2>2. "overlap" \notin trouble => IF options[i].out = "file" THEN outFile' = Out(i, "part")
                                    ELSE outFile' = outFile
    BY <2>1 DEF OutputInv, OutputGood, Written, Out
  <2> QED BY <2>1, <2>2, OutputOwn
<1>3. CASE WriteProfile(i)
  <2>1. /\ Moves(i, "done") /\ Running(i) /\ trouble' = trouble /\ options' = options
        /\ \/ pc[i] = "write" /\ Written(i, "empty", "whole")
           \/ pc[i] = "writing" /\ Written(i, "part", "whole")
    BY <1>3 DEF WriteProfile, Exit, Continue, Moves, Running
  <2>2. "overlap" \notin trouble => IF options[i].out = "file" THEN outFile' = Out(i, "whole")
                                    ELSE outFile' = outFile
    BY <2>1 DEF OutputInv, OutputGood, Written, Out
  <2> QED BY <2>1, <2>2, OutputOwn
<1> QED BY <1>1, <1>2, <1>3

OutputAll == PcInv /\ MemInv /\ AloneInv /\ OutputInv

LEMMA StepPc ==
  ASSUME OutputAll, NEW i \in Invocations, Step(i) \/ Kill(i)
  PROVE  PcInv' /\ MemInv'
<1>1. PICK label \in Labels : \E m : IsMem(m) /\ Goes(i, label, m)
  BY StepGoes DEF OutputAll
<1>2. PICK m : IsMem(m) /\ Goes(i, label, m)
  BY <1>1
<1>3. MemInv'
  <2>1. binary' \in Builds /\ cache' \in Seq(CacheLines)
    BY StepGoes DEF OutputAll, MemInv
  <2> QED BY <1>2, <2>1, MemStep DEF OutputAll, Goes
<1>4. pc' \in [Invocations -> Labels]
  BY <1>2, MovesFacts DEF OutputAll, Goes, Moves
<1>5. profile' = [j \in Invocations |-> profile'[j]]
  <2>1. CASE WriteProfile(i)
    <3>1. PICK w : profile' = [profile EXCEPT ![i] = w]
      BY <2>1 DEF WriteProfile
    <3>2. profile = [j \in Invocations |-> profile[j]]
      BY DEF OutputAll, PcInv
    <3> QED BY <3>1, <3>2
  <2>2. CASE profile' = profile
    BY <2>2 DEF OutputAll, PcInv
  <2>3. WriteProfile(i) \/ profile' = profile
    BY Zenon DEF Step, Kill, GetBinaryArch, HashBinary, CheckCache, CreateDump, DumpLine, DumpEnd,
                 DumpFails, FlushFails, Parse, OpenOutput, WritePart, WriteFails
  <2> QED BY <2>1, <2>2, <2>3
<1> QED BY <1>3, <1>4, <1>5 DEF PcInv

(* Where the steps that touch no output lead.                              *)
Quiet(i) ==
  \/ HashBinary(i) \/ CheckCache(i) \/ CreateDump(i) \/ DumpLine(i) \/ DumpEnd(i)
  \/ DumpFails(i) \/ FlushFails(i) \/ Parse(i) \/ WriteFails(i) \/ Kill(i)

LEMMA QuietStep ==
  ASSUME NEW i \in Invocations, Quiet(i)
  PROVE  /\ \E label \in Labels \ {"done", "write", "writing", "idle"} :
              Moves(i, label) /\ (label = "failed" \/ pc[i] \in BeforeOutput)
         /\ UNCHANGED <<options, profile, outFile>>
         /\ Running(i)
<1> USE DEF Moves, Continue, Exit
<1>1. \A l \in {"check", "parse", "create", "dump", "failed", "open"} :
        l \in Labels \ {"done", "write", "writing", "idle"}
  BY DEF Labels
<1>2. CASE HashBinary(i)
  BY <1>1, <1>2 DEF HashBinary, Running, BeforeOutput
<1>3. CASE CheckCache(i)
  <2>1. PICK l \in {"parse", "create"} : pc' = [pc EXCEPT ![i] = l]
    BY <1>3 DEF CheckCache
  <2> QED BY <1>1, <1>3, <2>1 DEF CheckCache, Running, BeforeOutput
<1>4. CASE CreateDump(i)
  BY <1>1, <1>4 DEF CreateDump, Running, BeforeOutput
<1>5. CASE DumpLine(i)
  <2>1. pc' = [pc EXCEPT ![i] = "dump"]
    BY <1>5, Zenon DEF DumpLine
  <2> QED BY <1>1, <1>5, <2>1 DEF DumpLine, Running, BeforeOutput
<1>6. CASE DumpEnd(i)
  BY <1>1, <1>6 DEF DumpEnd, Running, BeforeOutput
<1>7. CASE DumpFails(i)
  BY <1>1, <1>7 DEF DumpFails, Running
<1>8. CASE FlushFails(i)
  BY <1>1, <1>8 DEF FlushFails, Running, BeforeOutput
<1>9. CASE Parse(i)
  <2>1. PICK l \in {"failed", "open", "parse"} : pc' = [pc EXCEPT ![i] = l]
    <3>1. \/ pc' = [pc EXCEPT ![i] = "failed"] \/ pc' = [pc EXCEPT ![i] = "open"]
          \/ pc' = [pc EXCEPT ![i] = "parse"]
      BY <1>9, Zenon DEF Parse
    <3> QED BY <3>1
  <2> QED BY <1>1, <1>9, <2>1 DEF Parse, Running, BeforeOutput
<1>10. CASE WriteFails(i)
  BY <1>1, <1>10 DEF WriteFails, Running
<1>11. CASE Kill(i)
  BY <1>1, <1>11 DEF Kill
<1> QED BY <1>2, <1>3, <1>4, <1>5, <1>6, <1>7, <1>8, <1>9, <1>10, <1>11 DEF Quiet

LEMMA StepOutput ==
  ASSUME OutputAll, NEW i \in Invocations, Step(i) \/ Kill(i)
  PROVE  AloneInv' /\ OutputInv'
<1>1. PcInv /\ MemInv /\ AloneInv /\ OutputInv
  BY DEF OutputAll
<1>2. trouble \subseteq trouble'
  BY <1>1, StepGoes
<1>3. CASE Quiet(i)
  <2>1. PICK label \in Labels \ {"done", "write", "writing", "idle"} :
          Moves(i, label) /\ (label = "failed" \/ pc[i] \in BeforeOutput)
    BY <1>3, QuietStep
  <2>2. UNCHANGED <<options, profile, outFile>> /\ Running(i)
    BY <1>3, QuietStep
  <2>3. pc[i] # "done"
    BY <2>2 DEF Running
  <2>4. AloneInv'
    BY <1>1, <1>2, <2>1, <2>2, AloneMoves
  <2>5. OutputInv'
    BY <1>1, <1>2, <2>1, <2>2, <2>3, OutputMoves
  <2> QED BY <2>4, <2>5
<1>4. CASE GetBinaryArch(i)
  <2>1. PICK label \in {"failed", "hash"} : Moves(i, label)
    BY <1>4 DEF GetBinaryArch, Exit, Continue, Moves
  <2>2. label \in Labels /\ label \notin {"done", "write", "writing"}
    BY DEF Labels
  <2>3. (\E j \in Invocations : Running(j)) => "overlap" \in trouble'
    BY <1>4, NoteFacts DEF GetBinaryArch
  <2>4. /\ pc[i] # "done" /\ pc[i] \in BeforeOutput
        /\ UNCHANGED <<options, profile, outFile>>
    BY <1>4 DEF GetBinaryArch, BeforeOutput
  <2>5. AloneInv'
    BY <1>1, <1>2, <2>1, <2>2, <2>3, AloneStarts
  <2>6. OutputInv'
    BY <1>1, <1>2, <2>1, <2>2, <2>4, OutputMoves
  <2> QED BY <2>5, <2>6
<1>5. CASE OpenOutput(i) \/ WritePart(i) \/ WriteProfile(i)
  <2>1. PICK label \in {"write", "writing", "done"} : Moves(i, label)
    BY <1>1, <1>5, OutputSteps
  <2>2. OutputInv' /\ Running(i)
    BY <1>1, <1>5, OutputSteps
  <2>3. AloneInv'
    BY <1>1, <1>2, <2>1, <2>2, AloneMoves DEF Labels
  <2> QED BY <2>2, <2>3
<1> QED BY <1>3, <1>4, <1>5, Zenon DEF Step, Quiet

LEMMA OutputNext == OutputAll /\ [Next]_vars => OutputAll'
<1> SUFFICES ASSUME OutputAll, [Next]_vars
             PROVE  OutputAll'
  OBVIOUS
<1>1. ASSUME NEW i \in Invocations, Step(i) \/ Kill(i)
      PROVE  OutputAll'
  BY <1>1, StepPc, StepOutput DEF OutputAll
<1>2. CASE Rebuild
  <2>1. /\ UNCHANGED <<cache, pc, options, mem, profile, outFile>>
        /\ binary' \in Builds /\ trouble \subseteq trouble'
    BY <1>2, NoteFacts DEF Rebuild
  <2>2. PcInv' /\ MemInv'
    BY <2>1 DEF OutputAll, PcInv, MemInv
  <2>3. AloneInv'
    BY <2>1 DEF OutputAll, AloneInv, Running
  <2>4. OutputInv'
    BY <2>1 DEF OutputAll, OutputInv, OutputGood
  <2> QED BY <2>2, <2>3, <2>4 DEF OutputAll
<1>3. CASE UNCHANGED vars
  <2>1. PcInv' /\ MemInv'
    BY <1>3 DEF vars, OutputAll, PcInv, MemInv
  <2>2. AloneInv' /\ OutputInv'
    BY <1>3 DEF vars, OutputAll, AloneInv, Running, OutputInv, OutputGood
  <2> QED BY <2>1, <2>2 DEF OutputAll
<1> QED BY <1>1, <1>2, <1>3 DEF Next, AllEnded

LEMMA OutputInit == Init => OutputAll
<1> SUFFICES ASSUME Init
             PROVE  OutputAll
  OBVIOUS
<1>1. PcInv
  BY DEF Init, PcInv, Labels
<1>2. MemInv
  <2>1. IsMem(NewMem) /\ <<>> \in Seq(CacheLines)
    BY NewMemIsMem
  <2> QED BY <2>1 DEF Init, MemInv
<1>3. \A i \in Invocations : pc[i] = "idle"
  BY DEF Init
<1>4. AloneInv
  BY <1>3 DEF AloneInv, Running
<1>5. OutputInv
  <2>1. options = [i \in Invocations |-> options[i]] /\ outFile.by \notin Invocations
    BY InvocationsAssumption DEF Init, OutOld, Out
  <2> QED BY <1>3, <2>1 DEF OutputInv, OutputGood
<1> QED BY <1>1, <1>2, <1>4, <1>5 DEF OutputAll

-----------------------------------------------------------------------------
(* The cache file, step by step.                                           *)

CacheAll == OutputAll /\ OffsetInv /\ HashInv /\ WriterInv /\ CacheInv

LEMMA CalmIs ==
  Calm <=> /\ trouble \subseteq {"overlap", "unreadable"}
           /\ ~("overlap" \in trouble /\ "unreadable" \in trouble)
<1>1. ASSUME Calm
      PROVE  /\ trouble \subseteq {"overlap", "unreadable"}
             /\ ~("overlap" \in trouble /\ "unreadable" \in trouble)
  BY <1>1 DEF Calm
<1>2. ASSUME trouble \subseteq {"overlap", "unreadable"},
             ~("overlap" \in trouble /\ "unreadable" \in trouble)
      PROVE  Calm
  <2>1. trouble = {} \/ trouble = {"overlap"} \/ trouble = {"unreadable"}
    BY <1>2
  <2> QED BY <2>1 DEF Calm
<1> QED BY <1>1, <1>2

LEMMA CalmBefore ==
  ASSUME trouble \subseteq trouble', Calm'
  PROVE  /\ Calm
         /\ "stopped" \notin trouble' /\ "rebuilt" \notin trouble'
<1>1. /\ trouble' \subseteq {"overlap", "unreadable"}
      /\ ~("overlap" \in trouble' /\ "unreadable" \in trouble')
  BY CalmIs DEF Calm
<1> QED BY <1>1, CalmIs

(* Invocations that overlap have hashed the same build.                    *)
LEMMA SameHash ==
  ASSUME CacheAll, Calm, NEW i \in Invocations, NEW j \in Invocations, Hashed(i), Hashed(j)
  PROVE  mem[i].hash = mem[j].hash
<1>1. CASE i = j
  BY <1>1
<1>2. CASE i # j
  <2>1. Running(i) /\ Running(j)
    BY DEF Hashed, Running
  <2>2. "overlap" \in trouble
    BY <1>2, <2>1 DEF CacheAll, OutputAll, AloneInv
  <2>3. "unreadable" \notin trouble
    BY <2>2, CalmIs
  <2> QED BY <2>3 DEF CacheAll, HashInv
<1> QED BY <1>1, <1>2

LEMMA WholeFacts ==
  ASSUME NEW b \in Builds, NEW h \in Builds \cup {NoHash}
  PROVE  /\ Whole(h, b) \in Seq(CacheLines)
         /\ Len(Whole(h, b)) = Len(Dump[b]) + 1 /\ Len(Dump[b]) \in Nat
         /\ Whole(h, b)[1] = HashLine(h)
         /\ \A k \in 1 .. Len(Dump[b]) : Whole(h, b)[k + 1] = Dump[b][k]
<1> DEFINE s == <<HashLine(h)>>
           d == Dump[b]
<1>1. s \in Seq(CacheLines) /\ Len(s) = 1 /\ d \in Seq(CacheLines) /\ Len(d) \in Nat
  BY HashLineIsLine, DumpIsSeq
<1>2. s[1] = HashLine(h)
  <2> HIDE DEF HashLine
  <2> QED OBVIOUS
<1>3. Whole(h, b) = s \o d
  BY DEF Whole
<1> HIDE DEF s, d
<1>4. /\ Whole(h, b) \in Seq(CacheLines)
      /\ Len(Whole(h, b)) = Len(d) + 1
      /\ Whole(h, b)[1] = s[1]
      /\ \A k \in 1 .. Len(d) : Whole(h, b)[k + 1] = d[k]
  <2> DEFINE w == s \o d
  <2>0. /\ w \in Seq(CacheLines) /\ Len(w) = Len(s) + Len(d)
        /\ \A i \in 1 .. Len(s) + Len(d) : w[i] = IF i <= Len(s) THEN s[i] ELSE d[i - Len(s)]
    BY <1>1, ConcatProperties, Zenon
  <2> HIDE DEF w
  <2>1. w \in Seq(CacheLines) /\ Len(w) = Len(d) + 1
    BY <1>1, <2>0
  <2>2. w[1] = s[1]
    BY <1>1, <2>0
  <2>3. \A k \in 1 .. Len(d) : w[k + 1] = d[k]
    <3> TAKE k \in 1 .. Len(d)
    <3>1. k + 1 \in 1 .. (Len(s) + Len(d)) /\ ~(k + 1 <= Len(s)) /\ (k + 1) - Len(s) = k
      BY <1>1
    <3> QED BY <2>0, <3>1
  <2>4. Whole(h, b) = w
    BY <1>3 DEF w
  <2> QED BY <2>1, <2>2, <2>3, <2>4
<1> QED BY <1>1, <1>2, <1>4 DEF d

(* A flush keeps what is right, and writes what is right.                  *)
LEMMA FlushRight ==
  ASSUME NEW f \in Seq(CacheLines), NEW m, IsMem(m), NEW w \in Seq(CacheLines),
         Rest(m, w), Len(f) <= Len(w), NEW g, g = Flush(f, m)
  PROVE  /\ Len(g) <= Len(w)
         /\ \A k \in 1 .. Len(w) :
              \/ k \in (m.offset + 1) .. (m.offset + Len(m.buffer))
              \/ k <= Len(f) /\ f[k] = w[k]
              => k <= Len(g) /\ g[k] = w[k]
<1>1. PICK o \in Nat, n \in Nat, d \in Nat :
        o = m.offset /\ n = Len(m.buffer) /\ d = Len(m.dumping)
  BY MemFields
<1>2. /\ Len(f) \in Nat /\ Len(w) \in Nat /\ o + n + d = Len(w) /\ Len(f) <= Len(w)
      /\ \A k \in 1 .. n : m.buffer[k] = w[o + k]
  BY <1>1 DEF Rest
<1>3. /\ Len(g) = IF o + n > Len(f) THEN o + n ELSE Len(f)
      /\ \A k \in 1 .. Len(g) : g[k] = IF k > o /\ k <= o + n THEN m.buffer[k - o]
                                       ELSE IF k <= Len(f) THEN f[k] ELSE Other
  BY <1>1, FlushFacts, Zenon
<1>4. Len(g) <= Len(w) /\ Len(g) \in Nat
  BY <1>2, <1>3
<1>5. ASSUME NEW k \in 1 .. Len(w), k \in (o + 1) .. (o + n)
      PROVE  k <= Len(g) /\ g[k] = w[k]
  <2>1. k \in 1 .. Len(g) /\ k > o /\ k <= o + n /\ k - o \in 1 .. n /\ o + (k - o) = k
    BY <1>2, <1>3, <1>5
  <2>2. g[k] = m.buffer[k - o]
    BY <1>3, <2>1
  <2>3. PICK j \in 1 .. n : j = k - o
    BY <2>1
  <2>4. m.buffer[j] = w[o + j]
    BY <1>2
  <2> QED BY <2>1, <2>2, <2>3, <2>4
<1>6. ASSUME NEW k \in 1 .. Len(w), k <= Len(f), f[k] = w[k]
      PROVE  k <= Len(g) /\ g[k] = w[k]
  <2>1. k \in 1 .. Len(g)
    BY <1>2, <1>3, <1>6
  <2>2. CASE k \in (o + 1) .. (o + n)
    BY <1>5, <2>2
  <2>3. CASE k \notin (o + 1) .. (o + n)
    <3>1. ~(k > o /\ k <= o + n)
      BY <2>3
    <3>2. g[k] = f[k]
      BY <1>3, <1>6, <2>1, <3>1
    <3> QED BY <1>4, <1>6, <2>1, <3>2
  <2> QED BY <2>2, <2>3
<1> QED BY <1>1, <1>4, <1>5, <1>6

(* An invocation that goes on with what it hashed, while the binary stays. *)
Steady(i, label, m) ==
  /\ IsMem(m) /\ Goes(i, label, m)
  /\ binary' = binary /\ trouble \subseteq trouble'

LEMMA SteadyFacts ==
  ASSUME CacheAll, NEW i \in Invocations, NEW label \in Labels, NEW m, Steady(i, label, m)
  PROVE  /\ pc'[i] = label /\ mem'[i] = m
         /\ \A j \in Invocations \ {i} : pc'[j] = pc[j] /\ mem'[j] = mem[j]
<1>1. Moves(i, label) /\ mem' = [mem EXCEPT ![i] = m] /\ PcInv
  BY DEF Steady, Goes, Moves, CacheAll, OutputAll
<1>2. pc'[i] = label /\ \A j \in Invocations \ {i} : pc'[j] = pc[j]
  BY <1>1, MovesFacts
<1>3. mem'[i] = m /\ \A j \in Invocations \ {i} : mem'[j] = mem[j]
  BY <1>1 DEF CacheAll, OutputAll, MemInv
<1> QED BY <1>2, <1>3

HashedLabels == {"check", "create", "dump", "parse", "open", "write", "writing"}

LEMMA SteadyHash ==
  ASSUME CacheAll, NEW i \in Invocations, NEW label \in Labels, NEW m, Steady(i, label, m),
         \/ label \notin HashedLabels
         \/ Hashed(i) /\ m.hash = mem[i].hash
         \/ m.hash = binary
         \/ m.hash = NoHash /\ "unreadable" \in trouble'
  PROVE  HashInv'
<1> SUFFICES ASSUME Calm', NEW j \in Invocations, Hashed(j)'
             PROVE  \/ mem'[j].hash = binary'
                    \/ mem'[j].hash = NoHash /\ "unreadable" \in trouble'
  BY DEF HashInv
<1>1. binary' = binary /\ trouble \subseteq trouble' /\ Calm
  BY CalmBefore DEF Steady
<1>2. \A k \in Invocations : Hashed(k) =>
        mem[k].hash = binary \/ (mem[k].hash = NoHash /\ "unreadable" \in trouble')
  BY <1>1 DEF CacheAll, HashInv
<1>3. CASE j = i
  <2>1. label \in HashedLabels /\ mem'[j] = m
    BY <1>3, SteadyFacts DEF Hashed, HashedLabels
  <2> QED BY <1>1, <1>2, <2>1
<1>4. CASE j # i
  <2>1. Hashed(j) /\ mem'[j] = mem[j]
    BY <1>4, SteadyFacts DEF Hashed
  <2> QED BY <1>1, <1>2, <2>1
<1> QED BY <1>3, <1>4

LEMMA SteadyWriter ==
  ASSUME CacheAll, NEW i \in Invocations, NEW label \in Labels, NEW m, Steady(i, label, m),
         Calm /\ label = "dump" => Rest(m, Whole(m.hash, binary))
  PROVE  WriterInv'
<1> SUFFICES ASSUME Calm', NEW j \in Invocations, Writes(j)'
             PROVE  Rest(mem'[j], Whole(mem'[j].hash, binary'))
  BY DEF WriterInv
<1>1. binary' = binary /\ Calm
  BY CalmBefore DEF Steady
<1>2. CASE j = i
  <2>1. label = "dump" /\ mem'[j] = m
    BY <1>2, SteadyFacts DEF Writes
  <2> QED BY <1>1, <2>1
<1>3. CASE j # i
  <2>1. Writes(j) /\ mem'[j] = mem[j]
    BY <1>3, SteadyFacts DEF Writes
  <2> QED BY <1>1, <2>1 DEF CacheAll, WriterInv
<1> QED BY <1>2, <1>3

(* A step that leaves the file and its writers alone.                      *)
LEMMA SteadyCache ==
  ASSUME CacheAll, NEW i \in Invocations, NEW label \in Labels, NEW m, Steady(i, label, m),
         cache' = cache,
         \/ pc[i] # "dump" /\ label # "dump"
         \/ /\ pc[i] = "dump" /\ label = "dump"
            /\ m.hash = mem[i].hash /\ m.offset = mem[i].offset
  PROVE  CacheInv'
<1> SUFFICES ASSUME Calm'
             PROVE  \/ cache' = <<>> /\ \A j \in Invocations : ~Writes(j)'
                    \/ \E b \in Builds : \E h \in {b, NoHash} : Current(h, b)'
  BY DEF CacheInv
<1>1. binary' = binary /\ Calm
  BY CalmBefore DEF Steady
<1>2. \A j \in Invocations :
        /\ Writes(j)' <=> Writes(j)
        /\ Writes(j) => mem'[j].hash = mem[j].hash /\ mem'[j].offset = mem[j].offset
  <2> TAKE j \in Invocations
  <2>1. CASE j = i
    BY <2>1, SteadyFacts DEF Writes
  <2>2. CASE j # i
    BY <2>2, SteadyFacts DEF Writes
  <2> QED BY <2>1, <2>2
<1>3. CASE cache = <<>> /\ \A j \in Invocations : ~Writes(j)
  BY <1>2, <1>3
<1>4. ASSUME NEW b \in Builds, NEW h \in {b, NoHash}, Current(h, b)
      PROVE  Current(h, b)'
  <2>1. Covered(Whole(h, b))'
    <3>1. PICK w : w = Whole(h, b)
      OBVIOUS
    <3>2. Covered(w)
      BY <1>4, <3>1 DEF Current
    <3>3. Covered(w)'
      BY <1>2, <3>2 DEF Covered
    <3> QED BY <3>1, <3>3 DEF Whole
  <2> QED BY <1>1, <1>2, <1>4, <2>1 DEF Current
<1> QED BY <1>1, <1>3, <1>4 DEF CacheAll, CacheInv

(* A file that was emptied: all of it is yet to be written.                *)
LEMMA CreateCache ==
  ASSUME CacheAll, NEW i \in Invocations, CreateDump(i), NEW m, Steady(i, "dump", m),
         m.hash = mem[i].hash, m.offset = 0
  PROVE  CacheInv'
<1> SUFFICES ASSUME Calm'
             PROVE  \E b \in Builds : \E h \in {b, NoHash} : Current(h, b)'
  BY DEF CacheInv
<1>1. binary' = binary /\ binary \in Builds /\ Calm /\ cache' = <<>> /\ pc[i] = "create"
  BY CalmBefore DEF Steady, CacheAll, OutputAll, MemInv, CreateDump
<1>2. PICK b \in Builds : b = binary
  BY <1>1
<1>3. PICK h \in {b, NoHash} : h = mem[i].hash
  BY <1>1, <1>2 DEF CacheAll, HashInv, Hashed
<1>4. \A j \in Invocations : Writes(j)' => mem'[j].hash = h
  <2> SUFFICES ASSUME NEW j \in Invocations, Writes(j)'
               PROVE  mem'[j].hash = h
    OBVIOUS
  <2>1. CASE j = i
    BY <1>3, <2>1, SteadyFacts DEF Labels
  <2>2. CASE j # i
    <3>1. Writes(j) /\ mem'[j] = mem[j]
      BY <2>2, SteadyFacts DEF Writes, Labels
    <3>2. Hashed(j) /\ Hashed(i)
      BY <1>1, <3>1 DEF Writes, Hashed
    <3> QED BY <1>1, <1>3, <3>1, <3>2, SameHash
  <2> QED BY <2>1, <2>2
<1>5. Writes(i)' /\ mem'[i].offset = 0
  BY SteadyFacts DEF Writes, Labels
<1>6. Covered(Whole(h, b))'
  <2>1. PICK w : w = Whole(h, b)
    OBVIOUS
  <2>2. Len(w) \in Nat /\ Len(cache') = 0
    <3>1. h \in Builds \cup {NoHash}
      OBVIOUS
    <3> QED BY <1>1, <2>1, <3>1, WholeFacts
  <2>3. \A k \in 1 .. Len(w) : Writes(i)' /\ mem'[i].offset < k
    BY <1>5, <2>2
  <2>4. Covered(w)'
    BY <2>2, <2>3 DEF Covered
  <2> QED BY <2>1, <2>4 DEF Whole
<1>7. Current(h, b)'
  BY <1>1, <1>2, <1>4, <1>6 DEF Current
<1> QED BY <1>7

LEMMA FlushCache ==
  ASSUME CacheAll, NEW i \in Invocations, NEW label \in Labels, NEW m, Steady(i, label, m),
         pc[i] = "dump", m.hash = mem[i].hash, cache' = Flush(cache, mem[i]),
         \/ label = "dump" /\ m.offset = mem[i].offset + Len(mem[i].buffer)
         \/ label = "parse" /\ mem[i].dumping = <<>>
  PROVE  CacheInv'
<1> SUFFICES ASSUME Calm'
             PROVE  \E b \in Builds : \E h \in {b, NoHash} : Current(h, b)'
  BY DEF CacheInv
<1>1. binary' = binary /\ Calm
  BY CalmBefore DEF Steady
<1>2. Writes(i) /\ IsMem(mem[i]) /\ cache \in Seq(CacheLines)
  BY DEF Writes, CacheAll, OutputAll, MemInv
<1>0. PICK b \in Builds : \E h \in {b, NoHash} : Current(h, b)
  BY <1>1, <1>2 DEF CacheAll, CacheInv
<1>3. PICK h \in {b, NoHash} : Current(h, b)
  BY <1>0
<1>4. mem[i].hash = h /\ binary = b
  BY <1>2, <1>3 DEF Current
<1>5. PICK w : w = Whole(h, b)
  OBVIOUS
<1>6. w \in Seq(CacheLines) /\ Len(w) \in Nat
  <2>1. h \in Builds \cup {NoHash}
    OBVIOUS
  <2> QED BY <1>5, <2>1, WholeFacts
<1>7. Rest(mem[i], w)
  BY <1>1, <1>2, <1>4, <1>5 DEF CacheAll, WriterInv
<1>8. PICK o \in Nat, n \in Nat, d \in Nat :
        o = mem[i].offset /\ n = Len(mem[i].buffer) /\ d = Len(mem[i].dumping)
  BY <1>2, MemFields
<1>9. o + n + d = Len(w)
  BY <1>7, <1>8 DEF Rest
<1>10. /\ Len(cache) <= Len(w)
       /\ \A k \in 1 .. Len(w) :
            \/ k <= Len(cache) /\ cache[k] = w[k]
            \/ \E j \in Invocations : Writes(j) /\ mem[j].offset < k
  BY <1>3, <1>5 DEF Current, Covered
<1>11. /\ Len(cache') <= Len(w)
       /\ \A k \in 1 .. Len(w) :
            k \in (o + 1) .. (o + n) \/ (k <= Len(cache) /\ cache[k] = w[k])
            => k <= Len(cache') /\ cache'[k] = w[k]
  BY <1>2, <1>6, <1>7, <1>8, <1>10, FlushRight
<1>12. \A j \in Invocations \ {i} : (Writes(j)' <=> Writes(j)) /\ mem'[j] = mem[j]
  BY SteadyFacts DEF Writes
<1>13. pc'[i] = label /\ mem'[i] = m
  BY SteadyFacts
<1>14. Covered(w)'
  <2> SUFFICES ASSUME NEW k \in 1 .. Len(w)
               PROVE  \/ k <= Len(cache') /\ cache'[k] = w[k]
                      \/ \E j \in Invocations : Writes(j)' /\ mem'[j].offset < k
    BY <1>11 DEF Covered
  <2>1. CASE k \in (o + 1) .. (o + n) \/ (k <= Len(cache) /\ cache[k] = w[k])
    BY <1>11, <2>1
  <2>2. CASE k > o + n
    <3>1. label = "dump"
      <4>1. mem[i].dumping = <<>> => d = 0
        BY <1>8
      <4>2. d # 0
        BY <1>6, <1>8, <1>9, <2>2
      <4> QED BY <4>1, <4>2
    <3>2. m.offset = o + n
      BY <1>8, <3>1
    <3> QED BY <1>13, <2>2, <3>1, <3>2 DEF Writes
  <2>3. CASE k <= o /\ ~(k <= Len(cache) /\ cache[k] = w[k])
    <3>1. PICK j \in Invocations : Writes(j) /\ mem[j].offset < k
      BY <1>10, <2>3
    <3>2. j # i
      <4>1. ~(o < k)
        BY <1>6, <1>8, <2>3
      <4> QED BY <1>8, <3>1, <4>1
    <3> QED BY <1>12, <3>1, <3>2
  <2>4. k \in (o + 1) .. (o + n) \/ k > o + n \/ k <= o
    BY <1>6, <1>8
  <2> QED BY <2>1, <2>2, <2>3, <2>4
<1>15. \A j \in Invocations : Writes(j)' => mem'[j].hash = h /\ binary' = b
  <2> SUFFICES ASSUME NEW j \in Invocations, Writes(j)'
               PROVE  mem'[j].hash = h
    BY <1>1, <1>4
  <2>1. CASE j = i
    BY <1>4, <1>13, <2>1
  <2>2. CASE j # i
    BY <1>3, <1>12, <2>2 DEF Current
  <2> QED BY <2>1, <2>2
<1>16. Covered(Whole(h, b))'
  BY <1>5, <1>14 DEF Whole
<1>17. Current(h, b)'
  BY <1>15, <1>16 DEF Current
<1> QED BY <1>17

(* What is left to write, as objdump prints.                               *)
LEMMA CreatedRest ==
  ASSUME NEW m, IsMem(m), binary \in Builds, m.offset = 0
  PROVE  Rest(Created(m), Whole(m.hash, binary))
<1> DEFINE c == Created(m)
           w == Whole(m.hash, binary)
<1>1. c.offset = 0 /\ c.buffer = <<HashLine(m.hash)>> /\ c.dumping = Dump[binary]
  BY CreatedFacts
<1>2. m.hash \in Builds \cup {NoHash}
  BY MemFields
<1>3. /\ Len(w) = Len(Dump[binary]) + 1 /\ Len(Dump[binary]) \in Nat
      /\ w[1] = HashLine(m.hash)
      /\ \A k \in 1 .. Len(Dump[binary]) : w[k + 1] = Dump[binary][k]
  BY <1>2, WholeFacts
<1>4. Len(c.buffer) = 1 /\ c.buffer[1] = HashLine(m.hash)
  <2> HIDE DEF HashLine, c
  <2> QED BY <1>1
<1> HIDE DEF c, w, HashLine
<1>5. \A k \in 1 .. Len(c.buffer) : c.buffer[k] = w[c.offset + k]
  <2> TAKE k \in 1 .. Len(c.buffer)
  <2>1. k = 1
    BY <1>4
  <2>2. c.offset + k = 1
    BY <1>1, <2>1
  <2> QED BY <1>3, <1>4, <2>1, <2>2
<1>6. \A k \in 1 .. Len(c.dumping) : c.dumping[k] = w[c.offset + Len(c.buffer) + k]
  <2> TAKE k \in 1 .. Len(c.dumping)
  <2>1. c.offset + Len(c.buffer) + k = k + 1
    BY <1>1, <1>3, <1>4
  <2> QED BY <1>1, <1>3, <2>1
<1>7. c.offset + Len(c.buffer) + Len(c.dumping) = Len(w)
  BY <1>1, <1>3, <1>4
<1> QED BY <1>5, <1>6, <1>7 DEF Rest, c, w

LEMMA BufferedRest ==
  ASSUME NEW m, IsMem(m), m.dumping # <<>>, NEW w, Rest(m, w)
  PROVE  Rest(Buffered(m), w)
<1> DEFINE c == Buffered(m)
<1>1. /\ c.offset = m.offset /\ c.buffer = Append(m.buffer, Head(m.dumping))
      /\ c.dumping = Tail(m.dumping)
  BY BufferedFacts
<1>2. PICK o \in Nat, n \in Nat, d \in Nat :
        o = m.offset /\ n = Len(m.buffer) /\ d = Len(m.dumping)
  BY MemFields
<1>3. /\ m.buffer \in Seq(CacheLines) /\ m.dumping \in Seq(CacheLines)
  BY MemFields
<1>4. /\ Head(m.dumping) \in CacheLines /\ d >= 1 /\ Len(Tail(m.dumping)) = d - 1
      /\ Head(m.dumping) = m.dumping[1]
      /\ \A k \in 1 .. (d - 1) : Tail(m.dumping)[k] = m.dumping[k + 1]
  BY <1>2, <1>3, HeadTail
<1>5. /\ Len(c.buffer) = n + 1 /\ c.buffer[n + 1] = m.dumping[1]
      /\ \A k \in 1 .. n : c.buffer[k] = m.buffer[k]
  <2> DEFINE x == Head(m.dumping)
  <2> HIDE DEF c, x
  <2>1. c.buffer = Append(m.buffer, x) /\ x \in CacheLines
    BY <1>1, <1>4 DEF x
  <2>2. /\ Len(c.buffer) = n + 1 /\ c.buffer[n + 1] = x
        /\ \A k \in 1 .. n : c.buffer[k] = m.buffer[k]
    BY <1>2, <1>3, <2>1
  <2> QED BY <1>4, <2>2 DEF x
<1>6. /\ o + n + d = Len(w)
      /\ \A k \in 1 .. n : m.buffer[k] = w[o + k]
      /\ \A k \in 1 .. d : m.dumping[k] = w[o + n + k]
  BY <1>2 DEF Rest
<1> HIDE DEF c
<1>7. \A k \in 1 .. (n + 1) : c.buffer[k] = w[o + k]
  <2> TAKE k \in 1 .. (n + 1)
  <2>1. CASE k \in 1 .. n
    BY <1>5, <1>6, <2>1
  <2>2. CASE k = n + 1
    <3>1. 1 \in 1 .. d /\ o + n + 1 = o + k
      BY <1>2, <1>4, <2>2
    <3>2. m.dumping[1] = w[o + n + 1]
      BY <1>6, <3>1
    <3> QED BY <1>5, <2>2, <3>1, <3>2
  <2> QED BY <1>2, <2>1, <2>2
<1>8. \A k \in 1 .. (d - 1) : c.dumping[k] = w[o + (n + 1) + k]
  <2> TAKE k \in 1 .. (d - 1)
  <2>1. k + 1 \in 1 .. d /\ o + n + (k + 1) = o + (n + 1) + k
    <3>1. k \in Nat /\ k + 1 \in 1 .. d
      BY <1>4
    <3>2. \A x, y, z \in Nat : /\ x + y + (z + 1) = x + (y + 1) + z
                               /\ x + y + (z + 1) = (x + y) + 1 + z
      OBVIOUS
    <3> QED BY <3>1, <3>2
  <2>2. m.dumping[k + 1] = w[o + n + (k + 1)]
    BY <1>6, <2>1
  <2> QED BY <1>1, <1>4, <2>1, <2>2
<1>9. o + (n + 1) + (d - 1) = Len(w)
  <2>1. \A x, y, z \in Nat : /\ x + (y + 1) + (z - 1) = x + y + z
                             /\ (x + y) + 1 + (z - 1) = x + y + z
    OBVIOUS
  <2> QED BY <1>6, <2>1
<1>10. c.offset = o /\ Len(c.buffer) = n + 1 /\ Len(c.dumping) = d - 1
  BY <1>1, <1>2, <1>4, <1>5
<1> QED BY <1>7, <1>8, <1>9, <1>10 DEF Rest, c

LEMMA FlushedRest ==
  ASSUME NEW m, IsMem(m), m.dumping # <<>>, NEW w, Rest(m, w)
  PROVE  Rest(Flushed(m), w)
<1> DEFINE c == Flushed(m)
<1>1. /\ c.offset = m.offset + Len(m.buffer) /\ c.buffer = <<Head(m.dumping)>>
      /\ c.dumping = Tail(m.dumping)
  BY FlushedFacts
<1>2. PICK o \in Nat, n \in Nat, d \in Nat :
        o = m.offset /\ n = Len(m.buffer) /\ d = Len(m.dumping)
  BY MemFields
<1>3. m.dumping \in Seq(CacheLines)
  BY MemFields
<1>4. /\ d >= 1 /\ Len(Tail(m.dumping)) = d - 1 /\ Head(m.dumping) = m.dumping[1]
      /\ \A k \in 1 .. (d - 1) : Tail(m.dumping)[k] = m.dumping[k + 1]
  BY <1>2, <1>3, HeadTail
<1>5. Len(c.buffer) = 1 /\ c.buffer[1] = m.dumping[1]
  <2> DEFINE x == Head(m.dumping)
  <2> HIDE DEF c, x
  <2>1. c.buffer = <<x>> /\ x = m.dumping[1]
    BY <1>1, <1>4 DEF x
  <2> QED BY <2>1
<1>6. /\ o + n + d = Len(w)
      /\ \A k \in 1 .. d : m.dumping[k] = w[o + n + k]
  BY <1>2 DEF Rest
<1> HIDE DEF c
<1>7. \A k \in 1 .. 1 : c.buffer[k] = w[(o + n) + k]
  <2> TAKE k \in 1 .. 1
  <2>1. k = 1 /\ 1 \in 1 .. d
    BY <1>2, <1>4
  <2> QED BY <1>5, <1>6, <2>1
<1>8. \A k \in 1 .. (d - 1) : c.dumping[k] = w[(o + n) + 1 + k]
  <2> TAKE k \in 1 .. (d - 1)
  <2>1. k + 1 \in 1 .. d /\ o + n + (k + 1) = (o + n) + 1 + k
    <3>1. k \in Nat /\ k + 1 \in 1 .. d
      BY <1>4
    <3>2. \A x, y, z \in Nat : /\ x + y + (z + 1) = x + (y + 1) + z
                               /\ x + y + (z + 1) = (x + y) + 1 + z
      OBVIOUS
    <3> QED BY <3>1, <3>2
  <2>2. m.dumping[k + 1] = w[o + n + (k + 1)]
    BY <1>6, <2>1
  <2> QED BY <1>1, <1>4, <2>1, <2>2
<1>9. (o + n) + 1 + (d - 1) = Len(w)
  <2>1. \A x, y, z \in Nat : /\ x + (y + 1) + (z - 1) = x + y + z
                             /\ (x + y) + 1 + (z - 1) = x + y + z
    OBVIOUS
  <2> QED BY <1>6, <2>1
<1>10. c.offset = o + n /\ Len(c.buffer) = 1 /\ Len(c.dumping) = d - 1
  BY <1>1, <1>2, <1>4, <1>5
<1> QED BY <1>7, <1>8, <1>9, <1>10 DEF Rest, c

CacheParts == OffsetInv /\ HashInv /\ WriterInv /\ CacheInv

LEMMA SteadyOffset ==
  ASSUME CacheAll, NEW i \in Invocations, NEW label \in Labels, NEW m, Steady(i, label, m),
         label \in {"idle", "hash", "check", "create"} => m.offset = 0
  PROVE  OffsetInv'
<1> SUFFICES ASSUME NEW j \in Invocations, pc'[j] \in {"idle", "hash", "check", "create"}
             PROVE  mem'[j].offset = 0
  BY DEF OffsetInv
<1>1. CASE j = i
  BY <1>1, SteadyFacts
<1>2. CASE j # i
  BY <1>2, SteadyFacts DEF CacheAll, OffsetInv
<1> QED BY <1>1, <1>2

(* A step with which the file and what is written to it have nothing to do.*)
LEMMA SteadyQuiet ==
  ASSUME CacheAll, NEW i \in Invocations, NEW label \in Labels, NEW m, Steady(i, label, m),
         cache' = cache, pc[i] # "dump", label # "dump",
         label \in {"idle", "hash", "check", "create"} => m.offset = 0,
         \/ label \notin HashedLabels
         \/ Hashed(i) /\ m.hash = mem[i].hash
         \/ m.hash = binary
         \/ m.hash = NoHash /\ "unreadable" \in trouble'
  PROVE  CacheParts'
<1>1. OffsetInv'
  BY SteadyOffset
<1>2. HashInv'
  BY SteadyHash
<1>3. WriterInv'
  BY SteadyWriter
<1>4. CacheInv'
  BY SteadyCache
<1> QED BY <1>1, <1>2, <1>3, <1>4 DEF CacheParts

(* A writer that ends before its time leaves all bets off.                 *)
LEMMA SteadyStopped ==
  ASSUME CacheAll, NEW i \in Invocations, NEW label \in {"failed", "parse"}, NEW m,
         Steady(i, label, m), "stopped" \in trouble'
  PROVE  CacheParts'
<1>1. OffsetInv'
  BY SteadyOffset DEF Labels
<1>2. ~Calm'
  BY CalmBefore DEF Steady
<1> QED BY <1>1, <1>2 DEF CacheParts, HashInv, WriterInv, CacheInv

LEMMA StepCache ==
  ASSUME CacheAll, NEW i \in Invocations, Step(i) \/ Kill(i)
  PROVE  CacheParts'
<1>1. /\ MemInv /\ IsMem(mem[i]) /\ IsMem(NewMem) /\ binary \in Builds
      /\ pc[i] \in {"idle", "hash", "check", "create"} => mem[i].offset = 0
  BY NewMemIsMem DEF CacheAll, OutputAll, MemInv, OffsetInv
<1>2. binary' = binary /\ trouble \subseteq trouble'
  BY <1>1, StepGoes
<1>3. \A label, m : IsMem(m) /\ Continue(i, label, m) => Steady(i, label, m)
  BY <1>2 DEF Steady, Goes, Continue
<1>4. CASE GetBinaryArch(i)
  <2>1. CASE Machine[binary] = "unknown"
    <3>1. Steady(i, "failed", NewMem)
      BY <1>1, <1>3, <1>4, <2>1 DEF GetBinaryArch, Exit
    <3> QED BY <1>4, <3>1, SteadyQuiet DEF GetBinaryArch, Labels, HashedLabels
  <2>2. CASE Machine[binary] # "unknown"
    <3>1. PICK m : m = [mem[i] EXCEPT !.machine = Machine[binary]]
      OBVIOUS
    <3>2. IsMem(m) /\ m.offset = 0
      BY <1>1, <1>4, <3>1, MemMachine DEF GetBinaryArch
    <3>3. Steady(i, "hash", m)
      BY <1>3, <1>4, <2>2, <3>1, <3>2 DEF GetBinaryArch
    <3> QED BY <1>4, <3>2, <3>3, SteadyQuiet DEF GetBinaryArch, Labels, HashedLabels
  <2> QED BY <2>1, <2>2
<1>5. CASE HashBinary(i)
  <2>1. PICK h \in {binary, NoHash} : /\ Continue(i, "check", [mem[i] EXCEPT !.hash = h])
                                      /\ Note("unreadable", h = NoHash)
    BY <1>5 DEF HashBinary
  <2>2. PICK m : m = [mem[i] EXCEPT !.hash = h]
    OBVIOUS
  <2>3. IsMem(m) /\ m.hash = h /\ m.offset = 0
    <3>1. h \in Builds \cup {NoHash}
      BY <1>1
    <3> QED BY <1>1, <1>5, <2>2, <3>1, MemHash DEF HashBinary
  <2>4. Steady(i, "check", m)
    BY <1>3, <2>1, <2>2, <2>3
  <2>5. h = binary \/ (h = NoHash /\ "unreadable" \in trouble')
    BY <2>1, NoteFacts
  <2> QED BY <1>5, <2>3, <2>4, <2>5, SteadyQuiet DEF HashBinary, Labels
<1>6. CASE CheckCache(i)
  <2>1. PICK label \in {"parse", "create"} : Continue(i, label, mem[i])
    BY <1>6 DEF CheckCache
  <2>2. Steady(i, label, mem[i]) /\ label \in Labels /\ label # "dump"
    BY <1>1, <1>3, <2>1 DEF Labels
  <2>3. mem[i].offset = 0 /\ Hashed(i) /\ cache' = cache /\ pc[i] # "dump"
    BY <1>1, <1>6 DEF CheckCache, Hashed
  <2> QED BY <2>2, <2>3, SteadyQuiet
<1>7. CASE CreateDump(i)
  <2>1. PICK m : m = Created(mem[i])
    OBVIOUS
  <2>2. pc[i] = "create" /\ mem[i].offset = 0 /\ "dump" \in Labels /\ Hashed(i)
    BY <1>1, <1>7 DEF CreateDump, Labels, Hashed
  <2>3. IsMem(m) /\ m.hash = mem[i].hash /\ m.offset = 0
    BY <1>1, <2>1, <2>2, CreatedFacts
  <2>4. Steady(i, "dump", m)
    BY <1>3, <1>7, <2>1, <2>3 DEF CreateDump, Created
  <2>5. Rest(m, Whole(m.hash, binary))
    BY <1>1, <2>1, <2>2, <2>3, CreatedRest
  <2>6. OffsetInv'
    BY <2>2, <2>4, SteadyOffset
  <2>7. HashInv'
    BY <2>2, <2>3, <2>4, SteadyHash
  <2>8. WriterInv'
    BY <2>2, <2>4, <2>5, SteadyWriter
  <2>9. CacheInv'
    BY <1>7, <2>3, <2>4, CreateCache
  <2> QED BY <2>6, <2>7, <2>8, <2>9 DEF CacheParts
<1>8. CASE DumpLine(i)
  <2>1. pc[i] = "dump" /\ mem[i].dumping # <<>> /\ "dump" \in Labels /\ Hashed(i)
    BY <1>8 DEF DumpLine, Labels, Hashed
  <2>2. Calm => Rest(mem[i], Whole(mem[i].hash, binary))
    BY <2>1 DEF CacheAll, WriterInv, Writes
  <2>3. CASE Continue(i, "dump", Buffered(mem[i])) /\ cache' = cache
    <3>1. PICK m : m = Buffered(mem[i])
      OBVIOUS
    <3>2. IsMem(m) /\ m.hash = mem[i].hash /\ m.offset = mem[i].offset
      BY <1>1, <2>1, <3>1, BufferedFacts
    <3>3. Steady(i, "dump", m)
      BY <1>3, <2>3, <3>1, <3>2
    <3>4. Calm => Rest(m, Whole(m.hash, binary))
      <4>1. ASSUME NEW w, Rest(mem[i], w)
            PROVE  Rest(m, w)
        BY <1>1, <2>1, <3>1, <4>1, BufferedRest
      <4> QED BY <2>2, <3>2, <4>1, Zenon
    <3>5. OffsetInv'
      BY <2>1, <3>3, SteadyOffset
    <3>6. HashInv'
      BY <2>1, <3>2, <3>3, SteadyHash
    <3>7. WriterInv'
      BY <2>1, <3>3, <3>4, SteadyWriter
    <3>8. CacheInv'
      BY <2>1, <2>3, <3>2, <3>3, SteadyCache
    <3> QED BY <3>5, <3>6, <3>7, <3>8 DEF CacheParts
  <2>4. CASE /\ Continue(i, "dump", Flushed(mem[i]))
             /\ cache' = Flush(cache, [mem[i] EXCEPT !.dumping = Tail(@)])
    <3>1. PICK m : m = Flushed(mem[i])
      OBVIOUS
    <3>2. IsMem(m) /\ m.hash = mem[i].hash /\ m.offset = mem[i].offset + Len(mem[i].buffer)
      BY <1>1, <2>1, <3>1, FlushedFacts
    <3>3. Steady(i, "dump", m)
      BY <1>3, <2>4, <3>1, <3>2
    <3>4. Calm => Rest(m, Whole(m.hash, binary))
      <4>1. ASSUME NEW w, Rest(mem[i], w)
            PROVE  Rest(m, w)
        BY <1>1, <2>1, <3>1, <4>1, FlushedRest
      <4> QED BY <2>2, <3>2, <4>1, Zenon
    <3>5. cache' = Flush(cache, mem[i])
      <4>1. PICK n : n = [mem[i] EXCEPT !.dumping = Tail(@)]
        OBVIOUS
      <4>2. n.buffer = mem[i].buffer /\ n.offset = mem[i].offset
        BY <1>1, <2>1, <4>1, PrintedFacts
      <4>3. Flush(cache, n) = Flush(cache, mem[i])
        BY <4>2 DEF Flush
      <4> QED BY <2>4, <4>1, <4>3, Zenon
    <3>6. OffsetInv'
      BY <2>1, <3>3, SteadyOffset
    <3>7. HashInv'
      BY <2>1, <3>2, <3>3, SteadyHash
    <3>8. WriterInv'
      BY <2>1, <3>3, <3>4, SteadyWriter
    <3>9. CacheInv'
      BY <2>1, <3>2, <3>3, <3>5, FlushCache
    <3> QED BY <3>6, <3>7, <3>8, <3>9 DEF CacheParts
  <2> QED BY <1>8, <2>3, <2>4, Zenon DEF DumpLine, Buffered, Flushed
<1>9. CASE DumpEnd(i)
  <2>1. PICK m : m = Closed(mem[i])
    OBVIOUS
  <2>2. /\ pc[i] = "dump" /\ mem[i].dumping = <<>> /\ "parse" \in Labels /\ Hashed(i)
        /\ cache' = Flush(cache, mem[i])
    BY <1>9 DEF DumpEnd, Labels, Hashed
  <2>3. IsMem(m) /\ m.hash = mem[i].hash
    BY <1>1, <2>1, ClosedFacts
  <2>4. Steady(i, "parse", m)
    BY <1>3, <1>9, <2>1, <2>3 DEF DumpEnd, Closed
  <2>5. OffsetInv'
    BY <2>2, <2>4, SteadyOffset
  <2>6. HashInv'
    BY <2>2, <2>3, <2>4, SteadyHash
  <2>7. WriterInv'
    BY <2>2, <2>4, SteadyWriter
  <2>8. CacheInv'
    BY <2>2, <2>3, <2>4, FlushCache
  <2> QED BY <2>5, <2>6, <2>7, <2>8 DEF CacheParts
<1>10. CASE DumpFails(i)
  <2>1. Steady(i, "failed", NewMem) /\ "stopped" \in trouble'
    BY <1>1, <1>3, <1>10, NoteFacts DEF DumpFails, Exit
  <2> QED BY <2>1, SteadyStopped
<1>11. CASE Kill(i)
  <2>1. Steady(i, "failed", NewMem) /\ "failed" \in Labels /\ "failed" \notin HashedLabels
    BY <1>1, <1>3, <1>11 DEF Kill, Exit, Labels, HashedLabels
  <2>2. CASE pc[i] = "dump"
    <3>1. "stopped" \in trouble'
      BY <1>11, <2>2, NoteFacts DEF Kill
    <3> QED BY <2>1, <3>1, SteadyStopped
  <2>3. CASE pc[i] # "dump"
    BY <1>11, <2>1, <2>3, SteadyQuiet DEF Kill
  <2> QED BY <2>2, <2>3
<1>12. CASE Parse(i)
  <2>1. PICK m : m = mem[i]
    OBVIOUS
  <2>2. pc[i] = "parse" /\ Hashed(i) /\ cache' = cache
    BY <1>12 DEF Parse, Hashed
  <2>3. CASE Continue(i, "failed", NewMem)
    <3>1. Steady(i, "failed", NewMem)
      BY <1>1, <1>3, <2>3
    <3> QED BY <2>2, <3>1, SteadyQuiet DEF Labels, HashedLabels
  <2>4. ASSUME NEW n, NEW label \in {"open", "parse"}, Continue(i, label, n), IsMem(n),
               n.hash = m.hash
        PROVE  CacheParts'
    <3>1. Steady(i, label, n)
      BY <1>3, <2>4
    <3>2. label \in Labels /\ label # "dump" /\ label \notin {"idle", "hash", "check", "create"}
      BY DEF Labels
    <3> QED BY <2>1, <2>2, <2>4, <3>1, <3>2, SteadyQuiet
  <2>5. CASE Continue(i, "open", m)
    BY <1>1, <2>1, <2>4, <2>5
  <2>6. CASE Continue(i, "open", [m EXCEPT !.parser = NewParser])
    <3>1. PICK n : n = [m EXCEPT !.parser = NewParser]
      OBVIOUS
    <3>2. IsMem(n) /\ n.hash = m.hash
      BY <1>1, <2>1, <3>1, MemParser
    <3> QED BY <2>4, <2>6, <3>1, <3>2
  <2>7. CASE Continue(i, "parse", [m EXCEPT !.parser = ParseLine(@, cache[m.offset + 1]),
                                            !.offset = @ + 1])
    <3>1. PICK x, o : x = ParseLine(m.parser, cache[m.offset + 1]) /\ o = m.offset + 1
      OBVIOUS
    <3>2. PICK n : n = [m EXCEPT !.parser = x, !.offset = o]
      OBVIOUS
    <3>3. o \in Nat
      BY <1>1, <2>1, <3>1, MemFields
    <3>4. IsMem(n) /\ n.hash = m.hash
      <4>1. ASSUME NEW y, NEW p \in Nat
            PROVE  LET r == [m EXCEPT !.parser = y, !.offset = p] IN IsMem(r) /\ r.hash = m.hash
        BY <1>1, <2>1 DEF IsMem
      <4> QED BY <3>2, <3>3, <4>1, Zenon
    <3>5. Continue(i, "parse", n)
      BY <2>7, <3>1, <3>2, Zenon
    <3> QED BY <2>4, <3>4, <3>5
  <2> QED BY <1>12, <2>1, <2>3, <2>5, <2>6, <2>7, Zenon DEF Parse, Exit
<1>13. CASE OpenOutput(i)
  <2>1. Steady(i, "write", mem[i]) /\ Hashed(i) /\ cache' = cache /\ pc[i] # "dump"
    BY <1>1, <1>3, <1>13 DEF OpenOutput, Hashed
  <2> QED BY <2>1, SteadyQuiet DEF Labels
<1>14. CASE WriteProfile(i)
  <2>1. Steady(i, "done", NewMem) /\ cache' = cache /\ pc[i] # "dump"
    BY <1>1, <1>3, <1>14 DEF WriteProfile, Exit
  <2> QED BY <2>1, SteadyQuiet DEF Labels, HashedLabels
<1>15. CASE WriteFails(i)
  <2>1. Steady(i, "failed", NewMem) /\ cache' = cache /\ pc[i] # "dump"
    BY <1>1, <1>3, <1>15 DEF WriteFails, Exit
  <2> QED BY <2>1, SteadyQuiet DEF Labels, HashedLabels
<1>16. CASE WritePart(i)
  <2>1. Steady(i, "writing", mem[i]) /\ Hashed(i) /\ cache' = cache /\ pc[i] # "dump"
    BY <1>1, <1>3, <1>16 DEF WritePart, Hashed
  <2> QED BY <2>1, SteadyQuiet DEF Labels
<1>17. CASE FlushFails(i)
  <2>1. IsMem(Closed(mem[i]))
    BY <1>1, ClosedFacts
  <2>2. Steady(i, "parse", Closed(mem[i])) /\ "stopped" \in trouble'
    BY <1>3, <1>17, <2>1, NoteFacts DEF FlushFails, Closed
  <2> QED BY <2>2, SteadyStopped
<1> QED BY <1>4, <1>5, <1>6, <1>7, <1>8, <1>9, <1>10, <1>11, <1>12, <1>13, <1>14, <1>15, <1>16, <1>17,
           Zenon DEF Step

LEMMA CacheNext == CacheAll /\ [Next]_vars => CacheAll'
<1> SUFFICES ASSUME CacheAll, [Next]_vars
             PROVE  CacheAll'
  OBVIOUS
<1>1. OutputAll'
  BY OutputNext DEF CacheAll
<1>2. ASSUME NEW i \in Invocations, Step(i) \/ Kill(i)
      PROVE  CacheParts'
  BY <1>2, StepCache
<1>3. ASSUME Rebuild
      PROVE  CacheParts'
  <2>1. UNCHANGED <<cache, pc, mem>> /\ trouble \subseteq trouble'
    BY <1>3, NoteFacts DEF Rebuild
  <2>2. OffsetInv'
    BY <2>1 DEF CacheAll, OffsetInv
  <2>3. CASE ~Calm'
    BY <2>2, <2>3 DEF CacheParts, HashInv, WriterInv, CacheInv
  <2>4. CASE Calm'
    <3>1. Calm /\ \A i \in Invocations : ~Running(i)
      <4>1. Calm /\ "rebuilt" \notin trouble'
        BY <2>1, <2>4, CalmBefore
      <4> QED BY <1>3, <4>1, NoteFacts DEF Rebuild
    <3>2. \A i \in Invocations : ~Hashed(i)' /\ ~Writes(i)' /\ ~Writes(i)
      BY <2>1, <3>1 DEF Hashed, Writes, Running
    <3>3. ASSUME NEW b \in Builds, NEW h \in {b, NoHash}, Current(h, b)
          PROVE  Current(h, b)'
      <4>1. PICK w : w = Whole(h, b)
        OBVIOUS
      <4>2. Covered(w)
        BY <3>3, <4>1 DEF Current
      <4>3. Covered(w)'
        BY <2>1, <3>2, <4>2 DEF Covered
      <4>4. Covered(Whole(h, b))'
        BY <4>1, <4>3 DEF Whole
      <4> QED BY <3>2, <4>4 DEF Current
    <3>4. CacheInv'
      BY <2>1, <3>1, <3>2, <3>3 DEF CacheAll, CacheInv
    <3> QED BY <2>2, <3>2, <3>4 DEF CacheParts, HashInv, WriterInv
  <2> QED BY <2>3, <2>4
<1>4. ASSUME UNCHANGED vars
      PROVE  CacheParts'
  <2>1. UNCHANGED <<cache, pc, mem, binary, trouble>>
    BY <1>4 DEF vars
  <2>2. OffsetInv' /\ HashInv' /\ WriterInv'
    BY <2>1 DEF CacheAll, OffsetInv, HashInv, WriterInv, Calm, Hashed, Writes, Rest, Whole
  <2>3. CacheInv'
    BY <2>1 DEF CacheAll, CacheInv, Current, Covered, Calm, Writes, Whole
  <2> QED BY <2>2, <2>3 DEF CacheParts
<1>5. CacheParts'
  BY <1>2, <1>3, <1>4, Zenon DEF Next, AllEnded
<1> QED BY <1>1, <1>5 DEF CacheAll, CacheParts

LEMMA CacheInit == Init => CacheAll
<1> SUFFICES ASSUME Init
             PROVE  CacheAll
  OBVIOUS
<1>1. OutputAll
  BY OutputInit
<1>2. \A i \in Invocations : pc[i] = "idle" /\ mem[i].offset = 0
  BY DEF Init, NewMem
<1>3. OffsetInv /\ HashInv /\ WriterInv
  BY <1>2 DEF OffsetInv, HashInv, WriterInv, Hashed, Writes
<1>4. CacheInv
  BY <1>2 DEF Init, CacheInv, Writes
<1> QED BY <1>1, <1>3, <1>4 DEF CacheAll

(* With no one left to write, the file is the whole objdump.               *)
LEMMA CacheIsWhole == CacheAll => CacheWhole
<1> SUFFICES ASSUME CacheAll, Calm, \A i \in Invocations : ~Running(i), cache # <<>>
             PROVE  \E b \in Builds :
                      Tail(cache) = Dump[b] /\ cache[1] \in {HashLine(b), HashLine(NoHash)}
  BY DEF CacheWhole, Calm
<1>1. \A i \in Invocations : ~Writes(i)
  BY DEF Writes, Running
<1>2. PICK b \in Builds : \E h \in {b, NoHash} : Current(h, b)
  BY DEF CacheAll, CacheInv
<1>3. PICK h \in {b, NoHash} : Current(h, b)
  BY <1>2
<1>4. PICK w : w = Whole(h, b)
  OBVIOUS
<1>5. /\ w \in Seq(CacheLines) /\ Len(w) = Len(Dump[b]) + 1 /\ Len(Dump[b]) \in Nat
      /\ w[1] = HashLine(h)
      /\ \A k \in 1 .. Len(Dump[b]) : w[k + 1] = Dump[b][k]
  <2>1. h \in Builds \cup {NoHash}
    OBVIOUS
  <2> QED BY <1>4, <2>1, WholeFacts
<1>6. /\ Len(cache) <= Len(w)
      /\ \A k \in 1 .. Len(w) : k <= Len(cache) /\ cache[k] = w[k]
  BY <1>1, <1>3, <1>4 DEF Current, Covered
<1>7. cache \in Seq(CacheLines) /\ Len(cache) \in Nat
  BY DEF CacheAll, OutputAll, MemInv
<1>8. Len(cache) = Len(Dump[b]) + 1
  BY <1>5, <1>6, <1>7
<1>9. cache[1] = HashLine(h)
  BY <1>5, <1>6
<1>10. Tail(cache) = Dump[b]
  <2>1. /\ Tail(cache) \in Seq(CacheLines) /\ Len(Tail(cache)) = Len(Dump[b])
        /\ \A k \in 1 .. Len(Dump[b]) : Tail(cache)[k] = cache[k + 1]
    BY <1>5, <1>7, <1>8, HeadTail
  <2>2. \A k \in 1 .. Len(Dump[b]) : Tail(cache)[k] = Dump[b][k]
    <3> TAKE k \in 1 .. Len(Dump[b])
    <3>1. k + 1 \in 1 .. Len(w)
      BY <1>5
    <3> QED BY <1>5, <1>6, <2>1, <3>1
  <2>3. Dump[b] \in Seq(CacheLines)
    BY DumpIsSeq
  <2> QED BY <2>1, <2>2, <2>3, SeqEqual
<1> QED BY <1>9, <1>10

-----------------------------------------------------------------------------
(* What is proved.                                                         *)

(* The inductive invariant of the profiler's files: a lone invocation      *)
(* finds the output as it left it, and a line of the cache that is not     *)
(* right has an invocation that will write it.                             *)
THEOREM FilesInvariant == Spec => []CacheAll
BY CacheInit, CacheNext, PTL DEF Spec

(* As long as invocations do not overlap, an invocation that reports       *)
(* success and was the last to open the output file has left its whole     *)
(* profile there, for any number of invocations that were killed or failed *)
(* between any two writes before, and any builds.                          *)
THEOREM OutputWholeness == Spec => []OutputWhole
<1>1. CacheAll => OutputWhole
  BY DEF CacheAll, OutputAll, OutputInv, OutputGood, OutputWhole
<1> QED BY <1>1, FilesInvariant, PTL

(* Between invocations the cache is empty or the whole objdump of a build, *)
(* for any number of invocations that wrote it at the same time, with a    *)
(* buffer of any size, each emptying the file under the others.            *)
THEOREM CacheWholeness == Spec => []CacheWhole
BY CacheIsWhole, FilesInvariant, PTL
=============================================================================
