------------------------------ MODULE Scanner ------------------------------
(***************************************************************************)
(* disasm.go's Parse, run over any objdump of at most MaxLines lines.      *)
(***************************************************************************)
EXTENDS Disasm

CONSTANTS Lines,      \* the lines an objdump is made of
          MaxLines    \* bound: lines of an objdump

ASSUME MaxLinesAssumption == MaxLines \in Nat
ASSUME LinesAssumption ==
  \A l \in Lines :
    (l.kind = "text" => l.wrapper \in BOOLEAN) /\ (l.kind = "load" => l.num \in Int)

VARIABLES read,     \* the lines read so far
          parser,   \* the state of the loop
          returned, \* whether Parse has returned, and
          result    \* the system calls it returned

vars == <<read, parser, returned, result>>

Init ==
  /\ read = <<>>
  /\ parser = NewParser
  /\ returned = FALSE
  /\ result = <<>>

Scan(line) ==
  /\ ~returned
  /\ Len(read) < MaxLines
  /\ line.kind # "overlong"
  /\ read' = Append(read, line)
  /\ parser' = ParseLine(parser, line)
  /\ UNCHANGED <<returned, result>>

EndOfFile ==
  /\ ~returned
  /\ returned' = TRUE
  /\ result' = parser.syscalls
  /\ UNCHANGED <<read, parser>>

(* The scanner stops with an error; Parse returns the err of os.Open,      *)
(* which is nil, and no system calls.                                      *)
ScanError(line) ==
  /\ ~returned
  /\ line.kind = "overlong"
  /\ read' = Append(read, line)
  /\ returned' = TRUE
  /\ result' = <<>>
  /\ UNCHANGED parser

(* Parse has returned.                                                     *)
Returned == returned /\ UNCHANGED vars

Next == (\E line \in Lines : Scan(line) \/ ScanError(line)) \/ EndOfFile \/ Returned

Spec == Init /\ [][Next]_vars

-----------------------------------------------------------------------------
(* Properties.                                                             *)

SameFunction(i, j) == \A k \in (i + 1) .. j : read[k].kind # "text"

InWrapper(i) ==
  \E k \in 1 .. i : read[k].kind = "text" /\ read[k].wrapper /\ SameFunction(k, i)

(* The kind of load that line i needs to be a system call.                 *)
Needs(i) == IF read[i].kind = "raw" THEN "register" ELSE "stack"
IsSite(i) == read[i].kind = "call" \/ (read[i].kind = "raw" /\ ~InWrapper(i))
Loads(i, to) == read[i].kind = "load" /\ read[i].to = to

(* A system call is reported under the number that was loaded for it: by   *)
(* the nearest load of the right kind in front of it, in the same          *)
(* function, which no other system call that was reported made use of.     *)
OwnNumber ==
  \A n \in DOMAIN parser.syscalls :
    LET s == parser.syscalls[n]
    IN  /\ IsSite(s.at)
        /\ \/ s.num = 0 /\ read[s.at - 1].kind = "zero" /\ read[s.at].kind = "raw"
           \/ \E q \in 1 .. (s.at - 1) :
                /\ Loads(q, Needs(s.at)) /\ read[q].num = s.num
                /\ \A k \in (q + 1) .. (s.at - 1) : ~Loads(k, Needs(s.at))
                /\ SameFunction(q, s.at)
                /\ \A m \in DOMAIN parser.syscalls :
                     parser.syscalls[m].at \notin (q + 1) .. (s.at - 1)

(* Line i is a system call whose number, which has a name, is loaded right *)
(* in front of it; the result has it; a line was too long for the scanner. *)
Numbered(i) ==
  IsSite(i) /\ Loads(i - 1, Needs(i)) /\ read[i - 1].num \in SyscallNumbers
InResult(i) ==
  \E n \in DOMAIN result : result[n] = [num |-> read[i - 1].num, at |-> i]
Overran == \E i \in DOMAIN read : read[i].kind = "overlong"

(* No system call is lost from what Parse returns whose number is loaded   *)
(* right in front of it, whatever the lines before did to the list of      *)
(* instructions, as long as every line fits the scanner (at one that does  *)
(* not, Parse drops what it found); and none is returned twice or out of   *)
(* order.                                                                  *)
NoneLost ==
  /\ returned /\ ~Overran => \A i \in 2 .. Len(read) : Numbered(i) => InResult(i)
  /\ \A m, n \in DOMAIN result : m < n => result[m].at < result[n].at
=============================================================================
