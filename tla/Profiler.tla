------------------------------ MODULE Profiler ------------------------------
(***************************************************************************)
(* cmd/seccomp-profiler/main.go: invocations of the profiler for one       *)
(* binary, which is rebuilt now and then, and the objdump they keep for    *)
(* each other in the user's cache.                                         *)
(*                                                                         *)
(* The cache file is a sequence of lines, the first of which holds the     *)
(* hash of the binary; a build stands for its own hash.  A line is written *)
(* when the buffer of the bufio.Writer is flushed, at the offset of the    *)
(* writer's own file descriptor.                                           *)
(***************************************************************************)
EXTENDS Disasm

CONSTANTS Invocations,   \* runs of the profiler
          Builds,        \* builds of the binary
          Machine,       \* Machine[b]: "x86_64", "i386", "arm" or "unknown"
          Dump,          \* Dump[b]: the lines go tool objdump prints for b
          Options,       \* the flags of an invocation: [blacklist, allowList, format, out]
          BufferSize,    \* lines the buffer holds
          Troubles       \* kinds of trouble that come in one behaviour

ASSUME BufferAssumption == BufferSize \in Nat \ {0}
ASSUME DumpAssumption == \A b \in Builds : Dump[b] \in Seq(Range(Dump[b]))

VARIABLES binary,    \* the build at the path that is profiled
          cache,     \* the cache file, empty when there is none
          pc,        \* where each invocation is
          options,   \* its flags
          mem,       \* its memory
          profile,   \* the profile it wrote: the build it hashed and the names
          outFile,   \* the file that -out names
          trouble    \* history: what came between an invocation and its files

vars == <<binary, cache, pc, options, mem, profile, outFile, trouble>>

NoHash == "nohash"
NoProfile == [hash |-> NoHash, names |-> {}]

(* What the output file holds and who wrote to it last: it is old, empty,  *)
(* the beginning of a profile or a whole one, or torn when profiles were   *)
(* written over each other.                                                *)
Nobody == "nobody"
Out(i, holds) == [by |-> i, holds |-> holds]
OutOld == Out(Nobody, "old")

ASSUME BuildsAssumption == NoHash \notin Builds
ASSUME InvocationsAssumption == Nobody \notin Invocations

HashLine(h) == [kind |-> "hash", hash |-> h]

(* The architecture, the hash, what objdump still has to print, the buffer *)
(* of the writer, the position in the cache file (writing or reading) and  *)
(* the parser.                                                             *)
NewMem == [machine |-> "unknown", hash |-> NoHash, dumping |-> <<>>, buffer |-> <<>>,
           offset |-> 0, parser |-> NewParser]

Running(i) == pc[i] \notin {"idle", "done", "failed"}

Init ==
  /\ binary \in Builds
  /\ cache = <<>>
  /\ pc = [i \in Invocations |-> "idle"]
  /\ options \in [Invocations -> Options]
  /\ mem = [i \in Invocations |-> NewMem]
  /\ profile = [i \in Invocations |-> NoProfile]
  /\ outFile = OutOld
  /\ trouble = {}

(* The invocation goes on with m in its memory, or ends and loses it.      *)
Continue(i, label, m) ==
  /\ pc' = [pc EXCEPT ![i] = label]
  /\ mem' = [mem EXCEPT ![i] = m]

Exit(i, label) == Continue(i, label, NewMem)

(* A bound: only the kinds of trouble in Troubles come together.           *)
Note(what, happened) ==
  /\ trouble' = IF happened THEN trouble \cup {what} ELSE trouble
  /\ trouble' \in Troubles

-----------------------------------------------------------------------------
(* The steps of main.  log.Fatal ends an invocation as failed.             *)

GetBinaryArch(i) ==
  /\ pc[i] = "idle"
  /\ IF Machine[binary] = "unknown" THEN Exit(i, "failed")
     ELSE Continue(i, "hash", [mem[i] EXCEPT !.machine = Machine[binary]])
  /\ Note("overlap", \E j \in Invocations : Running(j))
  /\ UNCHANGED <<binary, cache, options, profile, outFile>>

(* An error while the binary is read gives the empty hash, and no error.   *)
HashBinary(i) ==
  /\ pc[i] = "hash"
  /\ \E h \in {binary, NoHash} :
       /\ Continue(i, "check", [mem[i] EXCEPT !.hash = h])
       /\ Note("unreadable", h = NoHash)
  /\ UNCHANGED <<binary, cache, options, profile, outFile>>

(* Mutant of CacheHit: any cache will do.                                  *)
CacheHitAny(i) == cache # <<>>

CacheHit(i) == cache # <<>> /\ mem[i].hash # NoHash /\ cache[1] = HashLine(mem[i].hash)

(* Mutant of CheckCache: an invocation waits for the others to end.        *)
CheckCacheWait(i) ==
  /\ pc[i] = "check"
  /\ \A j \in Invocations \ {i} : ~Running(j)
  /\ Continue(i, IF CacheHit(i) THEN "parse" ELSE "create", mem[i])
  /\ UNCHANGED <<binary, cache, options, profile, outFile, trouble>>

CheckCache(i) ==
  /\ pc[i] = "check"
  /\ Continue(i, IF CacheHit(i) THEN "parse" ELSE "create", mem[i])
  /\ UNCHANGED <<binary, cache, options, profile, outFile, trouble>>

(* Mutant of CreateDump: the file is opened without being emptied.         *)
CreateDumpKeep(i) ==
  /\ pc[i] = "create"
  /\ Continue(i, "dump", [mem[i] EXCEPT !.buffer = <<HashLine(mem[i].hash)>>,
                                        !.dumping = Dump[binary]])
  /\ UNCHANGED <<binary, cache, options, profile, outFile, trouble>>

(* os.Create empties the file, the hash goes to the buffer, objdump opens  *)
(* the binary.                                                             *)
CreateDump(i) ==
  /\ pc[i] = "create"
  /\ cache' = <<>>
  /\ Continue(i, "dump", [mem[i] EXCEPT !.buffer = <<HashLine(mem[i].hash)>>,
                                        !.dumping = Dump[binary]])
  /\ UNCHANGED <<binary, options, profile, outFile, trouble>>

(* The file after the buffer of m is written at its offset; a gap reads as *)
(* a line of zeros.                                                        *)
Flush(file, m) ==
  LET start == m.offset
      end == m.offset + Len(m.buffer)
  IN  [k \in 1 .. (IF end > Len(file) THEN end ELSE Len(file)) |->
         IF k > start /\ k <= end THEN m.buffer[k - start]
         ELSE IF k <= Len(file) THEN file[k] ELSE Other]

(* objdump prints a line; a full buffer is flushed first.                  *)
DumpLine(i) ==
  LET m == [mem[i] EXCEPT !.dumping = Tail(@)]
      line == Head(mem[i].dumping)
  IN  /\ pc[i] = "dump"
      /\ mem[i].dumping # <<>>
      /\ IF Len(m.buffer) < BufferSize
         THEN /\ Continue(i, "dump", [m EXCEPT !.buffer = Append(@, line)])
              /\ UNCHANGED cache
         ELSE /\ Continue(i, "dump", [m EXCEPT !.offset = @ + Len(m.buffer),
                                               !.buffer = <<line>>])
              /\ cache' = Flush(cache, m)
      /\ UNCHANGED <<binary, options, profile, outFile, trouble>>

(* Mutant of DumpEnd: the buffer is not flushed.                           *)
DumpEndNoFlush(i) ==
  /\ pc[i] = "dump"
  /\ mem[i].dumping = <<>>
  /\ Continue(i, "parse", [mem[i] EXCEPT !.buffer = <<>>, !.offset = 0])
  /\ UNCHANGED <<binary, cache, options, profile, outFile, trouble>>

(* objdump ends and doObjdump returns; the buffer is flushed by its defer. *)
(* ExtractSyscalls opens the file to read it from the start.               *)
DumpEnd(i) ==
  /\ pc[i] = "dump"
  /\ mem[i].dumping = <<>>
  /\ cache' = Flush(cache, mem[i])
  /\ Continue(i, "parse", [mem[i] EXCEPT !.buffer = <<>>, !.offset = 0])
  /\ UNCHANGED <<binary, options, profile, outFile, trouble>>

(* objdump fails: doObjdump returns its error, and its defer flushes what  *)
(* there is.                                                               *)
DumpFails(i) ==
  /\ pc[i] = "dump"
  /\ cache' = Flush(cache, mem[i])
  /\ Exit(i, "failed")
  /\ Note("stopped", TRUE)
  /\ UNCHANGED <<binary, options, profile, outFile>>

(* objdump ends, but what is left in the buffer cannot be written: nobody  *)
(* looks at the error of the deferred Flush.                               *)
FlushFails(i) ==
  /\ pc[i] = "dump"
  /\ mem[i].dumping = <<>>
  /\ Continue(i, "parse", [mem[i] EXCEPT !.buffer = <<>>, !.offset = 0])
  /\ Note("stopped", TRUE)
  /\ UNCHANGED <<binary, cache, options, profile, outFile>>

(* The user stops the profiler, or log.Fatal does, when a file or a        *)
(* directory cannot be opened or the name of the output is no template:    *)
(* the buffer is lost, and the output is left as far as it was written.    *)
Kill(i) ==
  /\ Running(i)
  /\ Exit(i, "failed")
  /\ Note("stopped", pc[i] = "dump")
  /\ UNCHANGED <<binary, cache, options, profile, outFile>>

(* ExtractSyscalls has no parser for arm.  Parse reads a line of the file, *)
(* to which others may be writing.  At a line that is too long it gives up *)
(* what it has and returns no error.                                       *)
Parse(i) ==
  LET m == mem[i]
      line == cache[m.offset + 1]
  IN  /\ pc[i] = "parse"
      /\ IF m.machine \notin {"x86_64", "i386"} THEN Exit(i, "failed")
         ELSE IF m.offset >= Len(cache) THEN Continue(i, "open", m)
         ELSE IF line.kind = "overlong"
         THEN Continue(i, "open", [m EXCEPT !.parser = NewParser])
         ELSE Continue(i, "parse", [m EXCEPT !.parser = ParseLine(@, line),
                                             !.offset = @ + 1])
      /\ UNCHANGED <<binary, cache, options, profile, outFile, trouble>>

NumbersOf(p) == {p.syscalls[n].num : n \in DOMAIN p.syscalls}

(* The blacklist first, then the allow list as far as the names exist.  A  *)
(* number stands for its name.                                             *)
Names(found, opts) == (found \ opts.blacklist) \cup (opts.allowList \cap SyscallNumbers)

(* Mutant of OpenOutput: the file is opened without being emptied.         *)
OpenOutputKeep(i) ==
  /\ pc[i] = "open"
  /\ Continue(i, "write", mem[i])
  /\ UNCHANGED <<binary, cache, options, profile, outFile, trouble>>

(* os.Create empties the file; "-" is the standard output.                 *)
OpenOutput(i) ==
  /\ pc[i] = "open"
  /\ Continue(i, "write", mem[i])
  /\ outFile' = IF options[i].out = "file" THEN Out(i, "empty") ELSE outFile
  /\ UNCHANGED <<binary, cache, options, profile, trouble>>

(* The invocation writes where it stands: at the start of the file, or     *)
(* behind its own part, unless others have been there meanwhile.           *)
Written(i, from, to) ==
  outFile' = IF options[i].out # "file" THEN outFile
             ELSE IF outFile.holds = from /\ (from = "part" => outFile.by = i) THEN Out(i, to)
             ELSE Out(i, "torn")

(* A template is executed straight into the file, piece by piece; with -d  *)
(* the system calls are written in front of a config.                      *)
WritePart(i) ==
  /\ pc[i] = "write"
  /\ options[i].format \in {"code", "debug"}
  /\ Written(i, "empty", "part")
  /\ Continue(i, "writing", mem[i])
  /\ UNCHANGED <<binary, cache, options, profile, trouble>>

(* The rest of it, or a config, which is marshalled first.                 *)
WriteProfile(i) ==
  /\ \/ pc[i] = "write" /\ options[i].format = "config" /\ Written(i, "empty", "whole")
     \/ pc[i] = "writing" /\ Written(i, "part", "whole")
  /\ profile' = [profile EXCEPT ![i] = [hash |-> mem[i].hash,
                    names |-> Names(NumbersOf(mem[i].parser), options[i])]]
  /\ Exit(i, "done")
  /\ UNCHANGED <<binary, cache, options, trouble>>

(* A format that is unknown is found out now.  A template may be no        *)
(* template, or fail when a part of the profile is written; marshalling    *)
(* may fail.                                                               *)
WriteFails(i) ==
  /\ pc[i] \in {"write", "writing"}
  /\ Exit(i, "failed")
  /\ UNCHANGED <<binary, cache, options, profile, outFile, trouble>>

-----------------------------------------------------------------------------
(* The binary is built again.                                              *)
Rebuild ==
  /\ binary' \in Builds \ {binary}
  /\ \E i \in Invocations : pc[i] \notin {"done", "failed"}
  /\ Note("rebuilt", \E i \in Invocations : Running(i))
  /\ UNCHANGED <<cache, pc, options, mem, profile, outFile>>

AllEnded == (\A i \in Invocations : pc[i] \in {"done", "failed"}) /\ UNCHANGED vars

Step(i) ==
  \/ GetBinaryArch(i) \/ HashBinary(i) \/ CheckCache(i) \/ CreateDump(i)
  \/ DumpLine(i) \/ DumpEnd(i) \/ DumpFails(i) \/ FlushFails(i) \/ Parse(i)
  \/ OpenOutput(i) \/ WritePart(i) \/ WriteProfile(i) \/ WriteFails(i)

Next ==
  \/ \E i \in Invocations : Step(i) \/ Kill(i)
  \/ Rebuild
  \/ AllEnded

Spec == Init /\ [][Next]_vars

(* The system goes on running a process, and objdump prints or ends.       *)
FairSpec == Spec /\ \A i \in Invocations : WF_vars(Step(i))

-----------------------------------------------------------------------------
(* Properties.                                                             *)

(* A parser that reads the object code of a build and nothing else, after  *)
(* every line; the numbers it finds; and whether Parse will find them.     *)
Parsers(b) ==
  LET after[k \in 0 .. Len(Dump[b])] ==
        IF k = 0 THEN NewParser ELSE ParseLine(after[k - 1], Dump[b][k])
  IN  after

SyscallsOf(b) == NumbersOf(Parsers(b)[Len(Dump[b])])
Readable(b) == \A k \in DOMAIN Dump[b] : Dump[b][k].kind # "overlong"

ProfileOf(b, i) ==
  profile[i].names = Names(IF Readable(b) THEN SyscallsOf(b) ELSE {}, options[i])

(* What the README of the profiler promises of a profile of build b: the   *)
(* system calls of its object code and those that are asked for, and none  *)
(* that is blacklisted.                                                    *)
Promised(b, i) ==
  (SyscallsOf(b) \cup (options[i].allowList \cap SyscallNumbers)) \ options[i].blacklist

(* When invocations do not overlap, every dump was written to its end and  *)
(* the binary is not replaced under one, a profile has exactly what is     *)
(* promised of the build that was hashed: the cache of another build is    *)
(* never taken for this one's.  Left out are names that are on both lists, *)
(* which -allow puts back although the README says that -b always filters, *)
(* and what is missing of a build with a line in its objdump that is too   *)
(* long, at which Parse drops what it found; a profile of such a build     *)
(* still has nothing that is not promised.                                 *)
CalmProfile ==
  trouble \subseteq {"unreadable"} => \A i \in Invocations :
    pc[i] = "done" => \E b \in Builds :
      LET names == profile[i].names \ (options[i].allowList \cap options[i].blacklist)
      IN  /\ profile[i].hash \in {b, NoHash}
          /\ names \subseteq Promised(b, i)
          /\ Readable(b) => Promised(b, i) \subseteq names

(* A build that replaces the binary between any two of the three times it  *)
(* is read does not mix the two: a profile is that of one build, even if   *)
(* it is filed under the hash of the other.                                *)
OneBuild ==
  trouble \subseteq {"unreadable", "rebuilt"} => \A i \in Invocations :
    pc[i] = "done" => \E b \in Builds : ProfileOf(b, i)

(* As long as invocations do not overlap, the output file is never cut     *)
(* short behind the back of its user: when the invocation that opened it   *)
(* last has reported success it holds that profile as a whole, whatever an *)
(* earlier one that was killed or failed halfway left in it, and what was  *)
(* there before is gone once any invocation has written to the file.       *)
OutputWhole ==
  "overlap" \notin trouble => \A i \in Invocations :
    pc[i] = "done" =>
      /\ outFile.by = i => outFile.holds = "whole"
      /\ options[i].out = "file" => outFile.by # Nobody

(* Between invocations the cache file is empty or the whole objdump of the *)
(* build whose hash it starts with, even when invocations overlapped and   *)
(* wrote to it at the same time.                                           *)
CacheWhole ==
  /\ trouble \in {{}, {"overlap"}, {"unreadable"}}
  /\ \A i \in Invocations : ~Running(i)
  => cache = <<>> \/ \E b \in Builds :
       Tail(cache) = Dump[b] /\ cache[1] \in {HashLine(b), HashLine(NoHash)}

(* "This will write a seccomp policy that allows the system calls found in *)
(* the binary's object code."                                              *)
ProfileComplete ==
  \A i \in Invocations :
    pc[i] = "done" /\ profile[i].hash \in Builds
      => Names(SyscallsOf(profile[i].hash), options[i]) \subseteq profile[i].names

(* Every invocation ends, also one that reads the cache file while another *)
(* is writing to it.                                                       *)
Ends == \A i \in Invocations : Running(i) ~> ~Running(i)
=============================================================================
