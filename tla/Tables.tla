------------------------------- MODULE Tables -------------------------------
(***************************************************************************)
(* mk_syscalls_linux.go: the generator of zsyscalls.go, and go build,      *)
(* which makes the tables of package arch of it.                           *)
(*                                                                         *)
(* A line of a source file of the kernel is a row of a table, a #define of *)
(* a number, or something else; __NR3264 is taken for __NR.  Of a URL only *)
(* the path counts; the file is kept in the temporary directory under the  *)
(* last part of it.  A file is cut off, by whatever stops a writer, behind *)
(* one of its tables: what is cut off within one does not compile either.  *)
(***************************************************************************)
EXTENDS Arch, Sequences

CONSTANTS Sources,     \* the kernel's files: version -> path -> lines
          Kernel,      \* its system calls: version -> table name -> table
          GOARCHes,    \* architectures go build is run for
          ArchNames,   \* names GetInfo is asked for
          MaxRuns      \* how often the generator is run

ASSUME MaxRunsAssumption == MaxRuns \in Nat

VARIABLES pc,         \* where main is; "idle" between runs
          runs,       \* runs begun
          version,    \* the flag -version
          builder,    \* the builder that runs, and
          file,       \* the file of it that is read
          tmp,        \* the temporary directory: base name -> lines
          syscalls,   \* what the builder has read
          params,     \* the Arches that are built
          output,     \* zsyscalls.go: the tables written
          torn,       \* history: a run was stopped while it wrote the output
          program     \* what the last go build gave

genVars == <<pc, runs, version, builder, file, tmp, syscalls, params>>
vars == <<genVars, output, torn, program>>

Row(num, abi, name)     == [kind |-> "row", num |-> num, abi |-> abi, name |-> name]
Define(macro, num, name) ==
  [kind |-> "define", macro |-> macro, num |-> num, name |-> name, guarded |-> FALSE]
Guarded(macro, num, name) ==   \* in an #if that does not hold for arm64
  [kind |-> "define", macro |-> macro, num |-> num, name |-> name, guarded |-> TRUE]
Short                   == [kind |-> "short"]      \* fewer than three fields
Comment                 == [kind |-> "comment"]    \* or an empty line
Overlong                == [kind |-> "overlong"]   \* too long for a Scanner
NotANumber              == -1                      \* what strconv.Atoi refuses

-----------------------------------------------------------------------------
(* The kernel's files: which of their lines make the table of an           *)
(* architecture, whatever the generator takes from them.                   *)

ArmTbl     == "/arch/arm/tools/syscall.tbl"
ArmUnistd  == "/arch/arm/include/uapi/asm/unistd.h"
Unistd     == "/include/uapi/asm-generic/unistd.h"
X86Tbl32   == "/arch/x86/entry/syscalls/syscall_32.tbl"
X86Tbl64   == "/arch/x86/entry/syscalls/syscall_64.tbl"

ArmBase    == 983040

KernelPaths == {ArmTbl, ArmUnistd, Unistd, X86Tbl32, X86Tbl64}

(* syscalls is the first number that is not used, and                      *)
(* arch_specific_syscall the first of those left to an architecture.       *)
Gives(table, path, line) ==
  CASE table = "ARM"     -> \/ path = ArmTbl /\ line.kind = "row" /\ line.abi # "oabi"
                            \/ path = ArmUnistd /\ line.kind = "define" /\ line.macro = "__ARM_NR"
    [] table = "AARCH64" -> /\ path = Unistd /\ line.kind = "define" /\ line.macro = "__NR"
                            /\ ~line.guarded
                            /\ line.name \notin {"syscalls", "arch_specific_syscall"}
    [] table = "I386"    -> path = X86Tbl32 /\ line.kind = "row"
    [] table = "X32"     -> path = X86Tbl64 /\ line.kind = "row" /\ line.abi # "64"
    [] table = "X86_64"  -> path = X86Tbl64 /\ line.kind = "row" /\ line.abi # "x32"

(* The tables that have lines besides, and all lines that may be taken for *)
(* those of a table: any row with numbers of x86_64, whatever its ABI, and *)
(* a #define that an #if leaves out or that marks the end of the numbers.  *)
Wider == {"AARCH64", "X32"}

Looks(table, path, line) ==
  CASE table = "AARCH64" -> /\ path = Unistd /\ line.kind = "define" /\ line.macro = "__NR"
                            /\ line.name \notin {"syscalls", "sync_file_range2"}
    [] table = "X32"     -> path = X86Tbl64 /\ line.kind = "row"
    [] OTHER             -> Gives(table, path, line)

(* The places, a file and a line, that make a table or look like it, and   *)
(* what is there.                                                          *)
Given(v, table) ==
  UNION {{<<path, i>> : i \in {i \in DOMAIN Sources[v][path] :
                                Gives(table, path, Sources[v][path][i])}} : path \in KernelPaths}

Looking(v, table) ==
  UNION {{<<path, i>> : i \in {i \in DOMAIN Sources[v][path] :
                                Looks(table, path, Sources[v][path][i])}} : path \in KernelPaths}

EntryAt(v, place) ==
  LET line == Sources[v][place[1]][place[2]]
  IN  Entry(line.num + (IF place[1] = ArmUnistd THEN ArmBase ELSE 0), line.name)

EntriesOf(table) == {Entry(num, table[num]) : num \in DOMAIN table}

(* All files are there, in a form that a program can read.                 *)
Readable(v) ==
  \A path \in KernelPaths :
    /\ path \in DOMAIN Sources[v]
    /\ \A line \in Range(Sources[v][path]) :
         /\ line.kind # "overlong"
         /\ path \in {ArmTbl, X86Tbl32, X86Tbl64} => line.kind # "short"
         /\ (\E t \in TableNames : Gives(t, path, line)) => line.num # NotANumber

(* sync_file_range2 is not for arm64.  The lines of a readable version     *)
(* make the kernel's tables.  A number is at one place of those that look  *)
(* like a table's, and a name too, but for x32, which has calls of its own *)
(* for some of x86_64; no ABI of x86_64 is called x64.                     *)
ASSUME SourcesAssumption ==
  \A v \in DOMAIN Sources :
    /\ \A path \in DOMAIN Sources[v] : Sources[v][path] \in Seq(Range(Sources[v][path]))
    /\ Unistd \in DOMAIN Sources[v] =>
         \A i \in DOMAIN Sources[v][Unistd] :
           LET line == Sources[v][Unistd][i]
           IN  line.kind = "define" => line.guarded \/ line.name # "sync_file_range2"
    /\ Readable(v) =>
         /\ v \in DOMAIN Kernel
         /\ \A t \in TableNames :
              /\ {EntryAt(v, p) : p \in Given(v, t)} = EntriesOf(Kernel[v][t])
              /\ \A p, q \in Looking(v, t) :
                   \/ EntryAt(v, p).num = EntryAt(v, q).num
                   \/ t # "X32" /\ EntryAt(v, p).name = EntryAt(v, q).name
                   => p = q
         /\ \A i \in DOMAIN Sources[v][X86Tbl64] :
              Sources[v][X86Tbl64][i].kind = "row" => Sources[v][X86Tbl64][i].abi # "x64"

(* The rows are those of a table of the kernel; the wider ones may have    *)
(* others besides, from lines of the same version.                         *)
Lists(rows, v, table) ==
  /\ EntriesOf(Kernel[v][table]) \subseteq rows
  /\ table \notin Wider => \A r \in rows : r.num \in DOMAIN Kernel[v][table]
  /\ v \in DOMAIN Sources /\ table \in Wider =>
       \A r \in rows : \E p \in Looking(v, table) : r = EntryAt(v, p)

(* The repository's tables are those of a version.                         *)
ASSUME KernelAssumption ==
  /\ \A v \in DOMAIN Kernel, t \in TableNames :
       Kernel[v][t] \in [DOMAIN Kernel[v][t] -> Range(Kernel[v][t])]
  /\ \E v \in DOMAIN Kernel : \A i \in DOMAIN zsyscalls :
       Lists(Range(zsyscalls[i].syscalls), v, zsyscalls[i].name)

-----------------------------------------------------------------------------
(* The builders: the files each reads and what it takes from a line.       *)

armNrBase == 983040

TableFile(path, base, excluded) ==
  [format |-> "table", path |-> path, base |-> base, excluded |-> excluded]

HeaderFile(path, base, macro, offset, omit) ==
  [format |-> "header", path |-> path, base |-> base, macro |-> macro, offset |-> offset,
   omit |-> omit]

buildARM ==
  <<TableFile("/arch/arm/tools/syscall.tbl", "syscall.tbl", {"oabi"}),
    HeaderFile("/arch/arm/include/uapi/asm/unistd.h", "unistd.h", "__ARM_NR", armNrBase, {})>>

(* Mutant of buildAARCH64: sync_file_range2 is taken too.                  *)
buildAARCH64TakeAll ==
  <<HeaderFile("/include/uapi/asm-generic/unistd.h", "unistd.h", "__NR", 0, {"syscalls"})>>

buildAARCH64 ==
  <<HeaderFile("/include/uapi/asm-generic/unistd.h", "unistd.h", "__NR", 0,
               {"syscalls", "sync_file_range2"})>>

build386 ==
  <<TableFile("/arch/x86/entry/syscalls/syscall_32.tbl", "syscall_32.tbl", {})>>

buildX32 ==
  <<TableFile("/arch/x86/entry/syscalls/syscall_64.tbl", "syscall_64.tbl", {"x64"})>>

(* Mutant of buildX86_64: the calls of x32 are taken too.                  *)
buildX86_64TakeX32 == buildX32

buildX86_64 ==
  <<TableFile("/arch/x86/entry/syscalls/syscall_64.tbl", "syscall_64.tbl", {"x32"})>>

builders ==
  <<[name |-> "ARM", files |-> buildARM], [name |-> "AARCH64", files |-> buildAARCH64],
    [name |-> "I386", files |-> build386], [name |-> "X32", files |-> buildX32],
    [name |-> "X86_64", files |-> buildX86_64]>>

(* The lines a parse function takes, and those it stops at with an error.  *)
(* A comment of a table starts with #, as a #define does.                  *)
Taken(f, line) ==
  IF f.format = "table" THEN line.kind = "row" /\ line.abi \notin f.excluded
  ELSE line.kind = "define" /\ line.macro = f.macro /\ line.name \notin f.omit

Refused(f, line) ==
  \/ line.kind = "overlong"
  \/ f.format = "table" /\ line.kind = "short"
  \/ Taken(f, line) /\ line.num = NotANumber

Syscall(f, line) ==
  [num |-> line.num + (IF f.format = "header" THEN f.offset ELSE 0), name |-> line.name]

(* The loop over the lines: what is read of the first k of them.           *)
Scan(f, lines) ==
  LET read[k \in 0 .. Len(lines)] ==
        IF k = 0 THEN <<>>
        ELSE IF Taken(f, lines[k]) THEN Append(read[k - 1], Syscall(f, lines[k]))
        ELSE read[k - 1]
  IN  read

readSyscalls(f, lines) == Scan(f, lines)[Len(lines)]

(* sort.Slice by number.                                                   *)
Insert(rows, r) ==
  LET n == Cardinality({i \in DOMAIN rows : rows[i].num <= r.num})
  IN  SubSeq(rows, 1, n) \o <<r>> \o SubSeq(rows, n + 1, Len(rows))

Insertions(rows) ==
  LET sorted[k \in 0 .. Len(rows)] ==
        IF k = 0 THEN <<>> ELSE Insert(sorted[k - 1], rows[k])
  IN  sorted

Sort(rows) == Insertions(rows)[Len(rows)]

-----------------------------------------------------------------------------
(* main.                                                                   *)

Init ==
  /\ pc = "idle" /\ runs = 0
  /\ version \in DOMAIN Sources
  /\ builder = 1 /\ file = 1
  /\ tmp = <<>> /\ syscalls = <<>> /\ params = <<>>
  /\ output = zsyscalls
  /\ torn = FALSE
  /\ program = <<>>

Start(v) ==
  /\ pc = "idle" /\ runs < MaxRuns
  /\ pc' = "get" /\ runs' = runs + 1 /\ version' = v
  /\ builder' = 1 /\ file' = 1
  /\ tmp' = <<>> /\ syscalls' = <<>> /\ params' = <<>>
  /\ UNCHANGED <<output, torn, program>>

File == builders[builder].files[file]

(* The temporary directory with a file of that name and these lines.       *)
Saved(base, lines) == [b \in DOMAIN tmp \cup {base} |-> IF b = base THEN lines ELSE tmp[b]]

(* The program ends; its locals are gone.  log.Fatal runs no defers, so    *)
(* that the temporary directory is left behind.                            *)
Exit ==
  /\ pc' = "idle"
  /\ builder' = 1 /\ file' = 1 /\ syscalls' = <<>> /\ params' = <<>>
  /\ UNCHANGED <<runs, version, program>>

Fatal == Exit /\ UNCHANGED <<tmp, output>>

(* Mutant of downloadFile: a file that is there is not downloaded again.   *)
downloadFileOnce ==
  /\ pc = "get"
  /\ File.path \in DOMAIN Sources[version]
  /\ tmp' = IF File.base \in DOMAIN tmp THEN tmp
            ELSE Saved(File.base, Sources[version][File.path])
  /\ pc' = "read"
  /\ UNCHANGED <<runs, version, builder, file, syscalls, params, output, torn, program>>

(* os.Create empties a file of the same name.                              *)
downloadFile ==
  /\ pc = "get"
  /\ File.path \in DOMAIN Sources[version]
  /\ tmp' = Saved(File.base, Sources[version][File.path])
  /\ pc' = "read"
  /\ UNCHANGED <<runs, version, builder, file, syscalls, params, output, torn, program>>

(* The request fails, its status is not OK (there may be no such file), or *)
(* the copy breaks off somewhere.                                          *)
downloadFails ==
  /\ pc = "get"
  /\ Exit
  /\ \/ UNCHANGED tmp
     \/ /\ File.path \in DOMAIN Sources[version]
        /\ \E n \in 0 .. Len(Sources[version][File.path]) :
             tmp' = Saved(File.base, SubSeq(Sources[version][File.path], 1, n))
  /\ UNCHANGED <<output, torn>>

(* The rest of readSyscalls: the file is opened and parsed.  The last file *)
(* of a builder ends it, and the next one starts.                          *)
ReadFile ==
  LET f == File
      lines == tmp[f.base]
      read == syscalls \o readSyscalls(f, lines)
  IN  /\ pc = "read"
      /\ \A i \in DOMAIN lines : ~Refused(f, lines[i])
      /\ IF file < Len(builders[builder].files)
         THEN /\ pc' = "get" /\ file' = file + 1 /\ syscalls' = read
              /\ UNCHANGED <<builder, params>>
         ELSE /\ pc' = IF builder < Len(builders) THEN "get" ELSE "create"
              /\ params' = Append(params, Table(builders[builder].name, Sort(read)))
              /\ builder' = builder + 1 /\ file' = 1 /\ syscalls' = <<>>
      /\ UNCHANGED <<runs, version, tmp, output, torn, program>>

ReadFails ==
  /\ pc = "read"
  /\ \E i \in DOMAIN tmp[File.base] : Refused(File, tmp[File.base][i])
  /\ Fatal /\ UNCHANGED torn

CreateOutput ==
  /\ pc = "create"
  /\ pc' = "execute"
  /\ output' = <<>>
  /\ UNCHANGED <<runs, version, builder, file, tmp, syscalls, params, torn, program>>

CreateFails == pc = "create" /\ Fatal /\ UNCHANGED torn

(* The template writes a table behind the other.  In the end the defers    *)
(* close the file and remove the temporary directory.                      *)
ExecuteTemplate ==
  /\ pc = "execute"
  /\ output' = Append(output, params[Len(output) + 1])
  /\ IF Len(output') = Len(params)
     THEN Exit /\ tmp' = <<>> /\ torn' = FALSE
     ELSE UNCHANGED <<genVars, torn, program>>

ExecuteFails == pc = "execute" /\ Fatal /\ torn' = TRUE

Kill == pc # "idle" /\ Fatal /\ torn' = (torn \/ pc = "execute")

-----------------------------------------------------------------------------
(* A program for every architecture has all the tables, and no constant is *)
(* twice a key of a map.                                                   *)
Distinct(rows) == \A i, j \in DOMAIN rows : rows[i].num = rows[j].num => i = j

Compiles ==
  /\ {output[i].name : i \in DOMAIN output} = TableNames
  /\ \A i \in DOMAIN output : Distinct(output[i].syscalls)

TableOf(rows) ==
  [num \in {rows[i].num : i \in DOMAIN rows} |->
     (CHOOSE r \in Range(rows) : r.num = num).name]

Built == [a \in TableNames |->
            TableOf(output[CHOOSE i \in DOMAIN output : output[i].name = a].syscalls)]

(* go build of what is there, while the generator runs or not; the package *)
(* inverts the tables when the program starts.                             *)
GoBuild ==
  /\ IF ~Compiles THEN program' = <<>>
     ELSE LET t == Built
          IN  \E arm \in invert(t.ARM), aarch64 \in invert(t.AARCH64), i386 \in invert(t.I386),
                 x32 \in invert(t.X32), x86_64 \in invert(t.X86_64) :
                program' = Infos(t, [ARM |-> arm, AARCH64 |-> aarch64, I386 |-> i386,
                                     X32 |-> x32, X86_64 |-> x86_64])
  /\ UNCHANGED <<genVars, output, torn>>

Next ==
  \/ \E v \in DOMAIN Sources : Start(v)
  \/ downloadFile \/ downloadFails \/ ReadFile \/ ReadFails
  \/ CreateOutput \/ CreateFails \/ ExecuteTemplate \/ ExecuteFails
  \/ Kill
  \/ GoBuild

Spec == Init /\ [][Next]_vars

-----------------------------------------------------------------------------
(* Properties.                                                             *)

(* zsyscalls.go can be compiled whenever no run is writing it, unless the  *)
(* last run that got as far as writing it was stopped at that: a download  *)
(* that fails, a file that cannot be parsed and a version without the      *)
(* files leave the tables alone, and no table has a number twice.          *)
FileUsable == pc # "execute" /\ ~torn => Compiles

(* Every program that could be built, also from a file that a run was      *)
(* writing or left unfinished, has the tables of one version: those of     *)
(* arm, i386 and x86_64 are exactly the kernel's; those of aarch64 and x32 *)
(* have all of the kernel's and else only what lines of that version say   *)
(* that are for other architectures, mark the end of the numbers or are of *)
(* the other ABI.                                                          *)
TablesOfOneVersion ==
  program # <<>> => \E v \in DOMAIN Kernel :
    /\ program.arm.syscallNumbers = Kernel[v].ARM
    /\ program.i386.syscallNumbers = Kernel[v].I386
    /\ program.x86_64.syscallNumbers = Kernel[v].X86_64
    /\ Lists(EntriesOf(program.aarch64.syscallNumbers), v, "AARCH64")
    /\ Lists(EntriesOf(program.x32.syscallNumbers), v, "X32")

(* g takes back what f gives.                                              *)
Undoes(g, f) == \A x \in DOMAIN f : f[x] \in DOMAIN g /\ g[f[x]] = x

(* However a program asks for an architecture, the names that GetInfo     *)
(* gives it stand for the numbers they came from, whatever order the       *)
(* tables were inverted in, and for every architecture but x32 no number   *)
(* is lost by it.  In the x32 table a name may have the number of x86_64   *)
(* besides its own, and the order decides which of them it stands for.     *)
NamesRoundTrip ==
  program # <<>> => \A goarch \in GOARCHes, name \in ArchNames :
    LET info == GetInfo(program, goarch, name)
    IN  info # Unsupported =>
          /\ Undoes(info.syscallNumbers, info.syscallNames)
          /\ info # program.x32 => Undoes(info.syscallNames, info.syscallNumbers)
=============================================================================
