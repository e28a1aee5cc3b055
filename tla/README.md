# A formal model of go-seccomp-bpf

go-seccomp-bpf turns a *policy* (groups of system call names, with or without
conditions on arguments, each with an action, and a default action) into a BPF
program and hands it to the kernel with `prctl(2)` and `seccomp(2)`. Two
commands come with the library: a profiler that derives a policy from the
object code of a binary, and a sandbox that loads a policy and runs a command.

This directory models that code in TLA+. Every definition that stands for code
is listed in `PROJECT.json` under `map` with the lines it stands for; where a
Go name can be kept it is kept.

## 1. Inventory

| Component | Source | State | Operations |
|---|---|---|---|
| assembler | `assembler.go` | `Program`: instructions, jumps (index, two labels), labels (lists of indices) | `NewLabel`, `SetLabel`, `JmpIf`, `JmpIfTrue`, `Ret`, `LdHi`, `LdLo`; `Assemble` with `resolveLabel`, `insertAfter`, `updateIndices` |
| policy compiler | `filter.go` | the policy, the `Program` it builds, the instructions it returns | `Validate`, `Assemble` for a policy, a group and a system call, `toSyscallsWithConditions` |
| filter loading | `seccomp_linux.go` | in the process and the kernel: threads, their no_new_privs bits and filters | `LoadFilter`, `SetNoNewPrivs`, `Supported` |
| constants | `constants.go`, `internal/unix` | none | names of actions, flags and errnos |
| architectures | `arch/info.go`, `arch/zarches.go`, `arch/zsyscalls.go` | tables of system calls and their inverses, built when a program starts | `GetInfo`, `invert` |
| profiler | `cmd/seccomp-profiler/main.go` | the binary, the cached objdump, the profile, the output file | flags, hash, objdump, extraction, lists, output |
| disassembly parser | `cmd/seccomp-profiler/disasm` | the lines since the last find, the system calls found | `Parse`, `parseX86_64`, `findSyscallNum` |
| sandbox | `cmd/sandbox` | its policy, the process of its command | `parsePolicy` with the `Unpack` methods of `filter.go`, one `LoadFilter`, one exec |
| table generator | `arch/mk_syscalls_linux.go`, `arch/defs_arches_linux.go` | a temporary directory, the calls read so far, `zsyscalls.go` | one builder per architecture: download, parse, sort; one template |
| other platforms | `seccomp_unsupported.go` | none | return constants |

How they interact. `Policy.Assemble` looks names up in the table of the
architecture, emits instructions through the methods of a `Program` and calls
`Program.Assemble`, which resolves labels to skips. `LoadFilter` calls
`Policy.Assemble`, sets no_new_privs when asked and hands the program to the
kernel. The sandbox calls `LoadFilter` and starts a command, which inherits the
filters and may be a sandbox itself. The profiler uses the tables and the
parser and meets other invocations of itself in the cache file and in the
output file. The generator writes the tables that every later build contains.

What is hard about it:

* A skip is 8 bits wide. Far destinations make `Program.Assemble` insert
  instructions while it walks over jumps and labels that hold indices into the
  very sequence that grows. Short programs never get there.
* A 64-bit comparison is compiled to comparisons of 32-bit words, in two byte
  orders, with labels that depend on what comes next.
* no_new_privs and filters belong to threads, while goroutines move between
  threads and the runtime starts threads at any time; `seccomp(2)` has an
  answer that is neither success nor an errno.
* The profiler's cache file survives failures, kills and rebuilds, and
  is shared by invocations that run at the same time; the output file is
  emptied before it is clear that a profile can be written.
* The sandbox forks from whatever thread its main goroutine is on, which need
  not be the one that loaded the filter.
* The generator keeps files of different directories under their base name in
  one place, and rewrites in place a file that is compiled.
* `invert` ranges over a map: for a name with two numbers its result differs
  from run to run.
* The parser carries instructions over from line to line and guesses which
  number belongs to which system call.

What makes each component correct: every jump of an assembled program reaches
the instruction its label stands for; the program decides every call as the
policy says, and only well-formed policies are accepted; what `LoadFilter` reports is
what the kernel has, on every thread it was asked for; a system call is
reported under its own number and none is lost; a profile contains the system
calls of the binary it was asked about; a command runs under the filters of
every sandbox around it; a program has the tables of one version of the kernel,
and names and numbers translate to each other without loss. The list of hazards in `PROJECT.json`
gives the line where each of these can go wrong and the property that watches it.

## 2. Modules

```
BPF ── Program ─┬─ Assembler ─┬─ MCAssembler
                │             └─ AssemblerProofs ─┐
                ├─ ProgramProofs ─────────────────┤  (lemmas of both)
                │             ┌─ PolicyProofs ────┘
                └─ Policy ────┴─ MCPolicy
Arch ─────────── Tables ─────┬── MCTables
                             └── TablesProofs
AtomicLoad ◁─── Seccomp ── Sandbox ─┬─ MCSeccomp     (◁ is implemented by)
                                    └─ SeccompProofs
Disasm ─────────┬─ Scanner ──┬── MCScanner
                │            └── ScannerProofs
                └─ Profiler ─┬── MCProfiler
                             └── ProfilerProofs ── ProfileProofs
```

**BPF** is outside the repository: the instructions of `golang.org/x/net/bpf`
and the machine that runs them over a `struct seccomp_data`. `Run` gives the
value a program returns for a call. A word has `WordBits` bits.

**Program** has the data operators of `assembler.go`, one per method, from a
program to a program. Indices count from 0 as in Go. `ResolveLabel` returns
the program, the skip and the error; an index out of range is the error
`"panic"`. `Actions`, a constant, are the values of type `Action`, valid or not, that a program may return. The uint8 and uint32 conversions are `% (MaxSkip + 1)` and `% U32`.

**Assembler** is the state machine over it. The client may call the methods in
any order; `Assemble` walks over the jumps in two steps per jump (`ResolveTrue`,
`ResolveFalse`), because the skip of the first is kept in a local variable while
the second may insert instructions. Two history variables are used by
properties only: `home`, the instruction
each label stood for when `Assemble` was called, and `crossed`, whether an
insertion fell into a jump that had been computed.

**Policy** is `filter.go`: `Validate`, one step per group, the default action,
one step per jump, then the x32 check, the architecture check and the loads put
in front. The machine's byte order is a field of the architecture. Below it,
`Decision` states what a policy means, without instructions, and `Malformed`
what is wrong with one, except for the action of a group, which no code looks at.

**Seccomp** is `seccomp_linux.go`. A caller is one call of `LoadFilter`; each
of its system calls happens on the thread the goroutine is on at that moment.
`Migrate` is the Go scheduler, `Spawn` a thread started by the runtime. The
kernel is external: the checks of `seccomp(2)` in their order, TSYNC with the
thread id as answer, inheritance by new threads. A filter is what loading can
tell of it: flag, no_new_privs, size, whether it assembles, and whether it
denies one of the system calls that the next `LoadFilter` or an exec needs.
`Supported` asks strict mode for a flag it does not take. The history variable
`prctlOn` is used by one property only.

**AtomicLoad** is the abstract specification of loading: a call attaches its
filter to one thread or to all at once and returns nil, or attaches nothing and
returns an error; no filter is ever lost; what else a call may change is the
no_new_privs bit of a thread, if it asked for it. It allows one more thing,
because the code does it: to return nil without effect when another thread has a
filter of its own (`LoadRefused`, see violation 4). `Seccomp` instantiates it
with a mapping that forgets the steps of a call and the kind of its error.

**Sandbox** composes Seccomp with `main` of the sandbox: each caller is a
goroutine of a program that uses the library, as before, or the main goroutine
of a sandbox. `Main` reads a policy file (a record of what `ucfg` and `Unpack`
look at: whether it is well-formed, and the names of its actions and operations), always asks
for TSYNC, and `RunCommand` replaces the process by one that has what the
forking thread had. `MigrateMain` moves the goroutine in between.

**Arch** has `info.go`, `zarches.go` and a few rows of each table of
`zsyscalls.go`: rows that the generator takes from elsewhere or leaves out, and
names that have another number everywhere, and of AARCH64 two rows that are no
system calls there (see the end of section 3). `invert(in)` is the set of all maps
that `invert` may return. **Tables** is the generator, one action per download,
parse, creation of the file and table written, each with its failure, a kill
anywhere, and `GoBuild`, which compiles whatever is there at any moment. A table
is a sequence of rows until `GoBuild` makes a map of it, since a row that is
there twice is what the compiler refuses. The loop over the lines and the sort
are recursive functions. What the kernel's files contain is a constant, by
version and path, and what they mean is stated twice: by the builders, from the
code, and by `Gives`, which says which lines make the table of an architecture
whatever the generator takes from them: a `#define` of `asm-generic/unistd.h` in
an `#if` that does not hold for arm64 (`Guarded`) is not one of them, nor are the
two that mark the end of the numbers. `SourcesAssumption` ties `Gives` to `Kernel`,
the tables that the kernel has. The generator knows no `#if` and two of
its tables are wider than the kernel's (`Wider`): `Looks` says which lines they may
have besides. How the builders relate to both is proved.

**Disasm** has the operators of the parser. A line of the objdump is one of the
kinds its regular expressions and `strings.Contains` calls tell apart; a number
that is loaded may be one without a name, a negative one, or none at all.
**Scanner** runs them over any file.

**Profiler** is `main`: one action per step between which another invocation, a
rebuild or a kill can come. The cache file is a sequence of lines; each writer
has its own offset and buffer, as `os.Create` and `bufio.Writer` give it, and
objdump's output goes through the buffer line by line. The output file is
opened, and emptied, before the format is looked at, and a template is executed
straight into it: it holds the old content, nothing, the beginning of a profile
(which is what a kill or a failing template leaves), a whole one, or a torn one if
two were written over each other. A dump ends with its last flush or, since
nobody looks at the error of that, without it (`FlushFails`). `trouble` records
what came between an invocation and its files; the constant `Troubles` bounds
the kinds of it that come in one behaviour. `SyscallsOf` is what the parser finds
when it reads nothing but the objdump of a build; `Promised` is what the
profiler's README makes of it: these and what `-allow` names, without
what `-b` names. The properties compare profiles with it.

## 3. Runs

One run assumes fairness. `profiler` has weak fairness of the steps of each
invocation (`FairSpec`): the operating system goes on running a process, and
objdump prints a line, ends or fails. Kills and rebuilds are not fair: they may
never come. Nothing waits for another actor anywhere else. The generator has no fairness: its
`http.Get` has no timeout, so that a download may never end. That `Policy.Assemble`
and `LoadFilter` return is not stated: they have no loop whose bound changes.
Deadlock is checked in all runs; what has returned stutters explicitly.

| Run | Instance | What it shows |
|---|---|---|
| `assembler` | programs of up to 5 instructions, 2 jumps, 3 labels (besides the reserved one), skips of at most 2 | what is converted to a uint8 fits it (`SkipsFit`); jump indices follow insertions (`JumpsTrack`); labels keep their instruction and stand-ins their order (`LabelsTrack`); nothing falls into an inserted instruction (`InsertionsGuarded`); jumps land where they should when no insertion crosses a computed jump (`LandsHome`); proper use gets no error (`WellUsedSucceeds`) |
| `policy_names` | all policies of three runs of six names, skips of at most 2, three architectures, all calls | `Faithful` and `Loadable` when nearly every jump is too long and early returns are inserted; no label loses its destination (`NoPanic`) |
| `policy_conditions` | words of 2 bits: all 8 operations on all 16 values, pairs of conditions, groups that mix; all mixes of up to two plain and two conditional names with mistakes; both byte orders | `Faithful`; no label leads to a panic (`NoPanic`); the malformed policies are refused (`RejectsMalformed`) and no others (`AcceptsValid`) |
| `policy_long_jump` | a group with 64 alternatives between two others, real skips of 255 | violation, see below |
| `policy_stale_skip` | one group with a condition on another call in front of the alternatives | violation |
| `policy_clobber` | two groups, one condition | violation |
| `seccomp` | 2 calls of `LoadFilter` or 2 sandboxes, 3 threads, 11 kinds of filter, with and without privileges and the system call | attached is what was reported (`OnlySuccessLoads`); TSYNC reaches all threads as long as it is always used (`SyncedEverywhere`); a call that set no_new_privs is refused for want of it only if its goroutine was moved (`RefusedOnlyWhenMoved`); `Supported` and `LoadFilter` agree (`SupportedHonest`); no truncated program is loaded (`LoadedWhole`); every command has the filters of all sandboxes around it (`CommandFiltered`); `LoadFilter` implements AtomicLoad (`LoadsAtomically`) |
| `seccomp_diverged` | 2 calls, 2 threads | violation |
| `scanner` | all files of up to 5 lines of 13 kinds | a system call is reported under its own number (`OwnNumber`); what `Parse` returns has every one with its number in front of it, once and in order, unless a line was too long (`NoneLost`) |
| `profiler` | 2 invocations, 4 builds (one for a machine without parser, one with an overlong line), a buffer of 2 lines, a template and a config as output, failures (also of the last flush), kills and rebuilds anywhere | profiles without interference (`CalmProfile`) and with a rebuild between any two reads (`OneBuild`); the cache (`CacheWhole`) and the output file (`OutputWhole`); every invocation ends, also one that reads what another writes (`Ends`) |
| `profiler_partial_cache` | 2 invocations of one build | violation |
| `tables` | 3 runs for 4 versions of the kernel, failures and kills anywhere, builds at any moment for 6 values of GOARCH | `zsyscalls.go` compiles unless a run was stopped in the middle of writing it (`FileUsable`); tables of two versions never mix, those of arm, i386 and x86_64 are exactly the kernel's and those of aarch64 and x32 have all of the kernel's (`TablesOfOneVersion`); names and numbers translate back, for x32 in one direction (`NamesRoundTrip`) |

Why the bounds are enough to be interesting. With skips of at most 2, five
instructions hold jumps that are short, exactly at the limit and too long, an
insertion behind the jump itself and behind the next one, a stand-in that is
used again and one that a later jump has to drop; `policy_names` has up to 18
jumps per program. Words of 2 bits give high words that are smaller,
equal and larger with every low word. In `seccomp` a program may have 3
instructions and the length field 5 values, so that a filter of size 2 fits, one of
4 is too long and one of 7 wraps to 2, a valid length. Two invocations of the profiler show
every interference through one file; dumps of up to 4 lines behind the line of
the hash, with a buffer of 2, are flushed in several parts. `Troubles` lets overlapping
invocations meet each other alone or with a dump that is stopped, and a rebuild
meet a file that cannot be read; kills and failures outside of a dump come at any time, with all
of them. What it leaves out is overlap or a stopped dump together with a rebuild or with a
file that cannot be read. Three runs of the generator are one that leaves
something behind, one that meets it, and one after that.
`seccomp` uses symmetry of threads and of callers: no operator tells two of
them apart, and all it checks is safety.

### Violations: where the code and its documentation disagree

1. `policy_long_jump`: the unconditional jump inserted for a far destination that is not a
   return subtracts an absolute index from a relative distance
   (`assembler.go:195`) and is short by the index of its jump. It lands on the last
   comparison of the conditions it should skip, with the number of the call still in
   the accumulator, and the call of the group behind them, number 0, gets the
   action of the group whose conditions these are.
2. `policy_stale_skip`: an insertion moves indices but not skips that were
   already computed (`assembler.go:198`).
3. `policy_clobber`: after failed conditions the accumulator holds an argument,
   which the next check compares with a system call number (`filter.go:404`).
   `Faithful` leaves out exactly the calls this can happen to (`Exposed`).
4. `seccomp_diverged`: a refused TSYNC is reported as success
   (`seccomp_linux.go:113`).
5. `profiler_partial_cache`: a failed objdump leaves a cache with a valid hash
   (`main.go:270`).

Four more disagreements can be read off a line or two and have no run. The passing
properties leave out exactly what they concern, and say so:

* A comment promises an error for invalid actions (`filter.go:200-201`); the action of
  a group is never looked at. `RejectsMalformed` is about everything else, and the
  policies of its run have such actions.
* At a line that is too long `Parse` returns no system calls and the nil error of
  `os.Open` instead of the scanner's (`disasm.go:117`). `NoneLost` leaves
  out files with such a line; `CalmProfile` says that the profile then has nothing that
  is not promised.
* `-allow` puts back what `-b` removed (`main.go:133`), which the profiler's README says
  is always filtered. `CalmProfile` leaves out names that are on both lists.
* The generator leaves out rows tagged `x64` from the x32 table, while the kernel's tag
  is `64` (`mk_syscalls_linux.go:265`). The table has the rows of both, and 36 names have
  two numbers, of which `invert` keeps any. `TablesOfOneVersion` allows the additional
  rows, and `NamesRoundTrip` says of x32 that a name stands for one of its numbers.

`LandsHome`, `WellUsedSucceeds`, `Faithful`, `SyncedEverywhere`, `CalmProfile`,
`OneBuild` and `CacheWhole` have their other conditions because of the violations:
each condition is the negation of what the violation needs, as far as the model can
say it.

Noticed while modelling, without a run of their own: an empty list of
conditions is accepted and ends in the assembler's "useless jump" error or in
wrong skips; an operation that the switch does not know emits only a load;
`hashBinary` returns the empty string for a file it
cannot read and the cache is then written under that hash; ARM is detected by the
profiler and has no parser; the output file is emptied before the format is
checked, so that an unknown format costs the old profile, and a kill while a
template is executed leaves the beginning of a profile; `prctl` and `seccomp` of
one `LoadFilter` may run on two threads, and `RefusedOnlyWhenMoved` says exactly
when that matters; the generator ignores `#if`, so that the AARCH64 table has
`arch_specific_syscall` (`zsyscalls.go:698`), which marks a range of numbers, and the
time64 calls (734-753), which only 32-bit machines have (`TablesOfOneVersion` allows lines
of these two kinds besides the kernel's calls, and no others); `arches` has no entry for `mipsel`;
`log.Fatal` skips the defers of the generator and leaves its temporary directory.

## 4. Proofs

Eight modules hold theorems. All of them are about the same specifications that
the runs check, for every value of the constants that the named assumptions
allow: TLC shows a property on an instance, the theorem shows it for programs of
any size, any number of threads, calls, sandboxes, invocations and runs, and files
of any length.

| Module | Theorem | States |
|---|---|---|
| `ProgramProofs` | lemmas only | what the operators of Program do to instructions, jumps and labels |
| `AssemblerProofs` | `SkipsFitting`, `JumpsTracking` | `SkipsFit`, `JumpsTrack` |
| `AssemblerProofs` | `LabelsTracking`, `InsertionsGuarding`, `LandingHome`, `WellUsedSucceeding` | `LabelsTrack`, `InsertionsGuarded`, `LandsHome`, `WellUsedSucceeds` |
| `PolicyProofs` | `PolicyTypes`, `NeverPanics` | `TypeOK`, `NoPanic` |
| `PolicyProofs` | `NoMalformedAssembled` | `RejectsMalformed` |
| `PolicyProofs` | `OnlyMalformedRefused` | `RefusesOnlyMalformed`, an action property: what is refused before the assembler is called is malformed |
| `SeccompProofs` | `TypeCorrect`, `OnlySuccessLoading`, `RefusalOnlyWhenMoved`, `SupportHonest`, `LoadingWhole`, `SyncEverywhere`, `CommandsFiltered` | the invariants of the run `seccomp` |
| `SeccompProofs` | `Refinement` | `LoadsAtomically`: Sandbox implements AtomicLoad |
| `ScannerProofs` | `ScannerInvariant`, `OwnNumbers`, `NoneLosing` | `ScannerInv`, `OwnNumber`, `NoneLost` |
| `ProfilerProofs` | `FilesInvariant`, `OutputWholeness`, `CacheWholeness` | `CacheAll`, `OutputWhole`, `CacheWhole` |
| `ProfileProofs` | `ProfileInvariant`, `OneBuildProfiles`, `CalmProfiles` | `ProfileAll`, `OneBuild`, `CalmProfile` |
| `TablesProofs` | `TablesInvariant`, `FileUsability`, `OneVersionTables`, `RoundTrips` | `TablesInv`, `FileUsable`, `TablesOfOneVersion`, `NamesRoundTrip` |

### Assembler: what `Assemble` does while it inserts instructions

Assumptions: `MaxSkipAssumption` and `U32Assumption` (both positive naturals),
`WordBitsAssumption` and `BoundsAssumption` (the bounds are naturals, of any
size). `U32` need not be larger than a program: what the proofs say of long
jumps does not depend on their distance.

Indices. The loop stays within `p.jumps`; the index of each jump is the index of
a `JumpIf` through all insertions, and the indices stay strictly in order. This
is what the unchecked type assertions of `Assemble` and `insertAfter` need, and
what the search of `findInsertAfter` presumes. The inductive invariant `IInv` is
`TypeOK`, `WellFormed(prog)` (the indices are tracked, and the labels of every
jump exist) and `cur = 1` while building. `JumpsTrack` alone is not inductive:
that a resolved label has a list to look at needs the labels to exist, that
`StoreSkips` puts a `JumpIf` back needs the loop to be within `p.jumps`, and that
the loop starts inside needs `cur = 1`. The lemmas follow the code from the
inside out: what `FindInsertAfter`, `InsertAt`, `UpdateIndices` and `InsertAfter`
do to a well-formed program (`InsertAfterProperties` is the heart: behind a jump,
the shift by one keeps order and pointers), then `LongJump`, `ResolveLabel`,
`StoreSkips`, then the client's methods, all in `ProgramProofs`; then one step per
action.

Skips. `resolveLabel` converts what it computed to a uint8 on two ways out, and
checks nothing on the second, behind the insertion of a stand-in. `SkipsFitting`
shows that the conversion loses nothing on either: the distance is not
negative, because a list of destinations keeps only those behind the jump; and it is
at most the limit, because `findInsertAfter` returns a jump that is near
enough, and the stand-in becomes the destination that is looked at. This needs the
order of `p.jumps`, the invariant above.

The labels build on it. `AInv` adds `LabelInv`, `LandsHome` and
`WellUsedSucceeds`. In `LabelInv`, the destinations of a label are in order,
the last one holds the instruction that `home` remembers, and each earlier one is
a *stand-in*: a copy of that return or a long jump, with no load in front of it.
Two things had to be added to make this inductive. A stand-in serves one label
only (`OwnStandIns`), for otherwise resolving a label could change what another
one's stand-ins are; and a program that `Assemble` has not touched has no stand-ins
(`Fresh`), for that is what the history variable starts from. The heart is
`InsertAfterMoves`: instructions and destinations move together, so an insertion
keeps what a destination holds. `LandsHome` then needs that a skip was computed
against the list at that time, and that an insertion which does not cross the
jump moves both of its ends or neither; `WellUsedSucceeds` needs that a label set
behind its jump always keeps a destination in front of it to jump to.

### Policy: what is refused

Assumptions: `PoliciesAssumption` (slices are sequences, actions are members of
`Actions`, the position of an argument is a natural and a value a double word),
`ArchesAssumption` (a table has one name for a number, which its type, a map from
numbers to names, ensures, and a number fits a word together with the mask) and
`WAssumption` (a word has values). Nothing is assumed about
the number of groups, names and conditions, or about what is in them.

`toSyscallsWithConditions` goes over two lists and notes problems without
stopping, so that what it finds in one round depends on what earlier rounds, also
the failed ones, left in its list. `AccOK` is what a round keeps: no number is in
the list twice; what has no conditions comes from the names read so far; without a
problem so far, everything read is in order; with one, the group is malformed. The
last two are the two directions of the result (`ProblemsAreInvalid`: there are
problems exactly if `InvalidGroup` holds, which does not look at the action), the first two are what the
next round needs to recognise a duplicate, and no other name, by its number.
`AddNameOK` and `AddNameWithConditionsOK` are the rounds. That they add up to
the loops is an induction over the lists: `ForEach` is a recursive function over
positions, `NamesLoop` and `CondsLoop` show that the function exists and obeys
its recursion, `GroupOK` carries `AccOK` along it. `NatInductive` states
induction with a set instead of a predicate, which the provers can instantiate,
and rests on the least element of a set of naturals. The invariant of the
specification, `ValidInv`, then says that the groups in front of `pos` are well-formed.

### Policy: what the assembler gets to see

Same assumptions. `SyscallGroup.Assemble` and the three nested loops below it
make labels, hand them down and set them later, each under a condition of its own;
a label that was not set, or set too early, is a panic in `Program.Assemble`.
`NeverPanics` shows that this cannot happen for any policy, and `PolicyTypes`
that every instruction fits the kernel's format.

`Placed(p, L)` is what the loops keep: every jump goes to a label that is set,
once, behind it, or to one of the labels `L` that are still to be set. A method
of the assembler changes `L` by the label it makes or sets
(`AddLabelPlaced`, `SetLabelPlaced`, `JmpIfPlaced`, ...), and each part of
`filter.go` gives back the `L` it got, with the labels it was handed in it:
`AssembleConditionPlaced`, `AddConditionPlaced`, up to `AssembleGroupPlaced`,
which leaves `L` empty. `NextLabelPlaced` is the pattern they share. A loop
is an induction of its own each time (`TestsLoop`, `ConditionsLoop`, `SetsLoop`,
`SyscallsLoop`, on `LoopExists` and `LoopStays`).

With the return of the default action behind the last label, `Placed` becomes
`Resolvable`: every label of a jump keeps its last destination behind the jump and
at an instruction (`Reachable`), next to the facts about stand-ins that the
assembler's proofs already need. One round of `Program.Assemble` keeps it, or ends
with "useless jump" (`ResolveJumpResolvable`); that it keeps `Reachable` is again
that jumps and destinations shift together (`FollowsReachable`). `BuildInv` puts the
two halves together, with `ValidInv`, from which `GroupSyscalls` gets that arguments
and numbers are in range.

### Loading: what a call reports is what the kernel has

Assumptions: `ThreadsAssumption` (there is a thread), `LimitsAssumption` (the
kernel's limit is positive and fits the uint16: `MaxInsns < U16`) and
`FiltersAssumption`. Nothing is assumed about the number of threads and callers
or how deeply sandboxes are nested.

The theorems are about `SandboxSpec`, which contains the calls of a plain
program of the library as well. `SandboxInv` is `CoreInv`, which each action of
Seccomp keeps, and `StageInv`, which ties the stages of a sandbox to its call.
What had to be added to the properties: a call has a result when it
returned (`ResultInv`); a thread that was not started has no filters and no bit
(`DeadInv`), or else a new thread could bring a filter with it; the threads in
`prctlOn` have the bit and still run (`PrctlInv`), which makes
`RefusedOnlyWhenMoved` inductive; `SyncInv`, which says of the calls that loaded
something what `SyncedEverywhere` says if all calls use TSYNC. `SyncedEverywhere`
itself is not inductive with sandboxes, whose flag is set by `Main`: it would have
to say something about a state in which another flag was possible. `StageInv`
says that one sandbox executes its `main` at a time and that all they load uses
TSYNC; `CommandsFiltered` follows from it and `SyncInv`.

`Refinement` shows that the initial states map to initial states of AtomicLoad
and that each step maps to a step of it or a stutter. The lone seccomp call of
`LoadFilter` is where a load takes effect; `prctl` is the abstract step that
sets a bit; migrations and the steps in between are stutters; replacing the
process by that of the command must not lose a filter, which is where
`SandboxInv` is used. TLC checks the same formula in the run `seccomp`.

### Parser

Assumptions: `SyscallNumbersAssumption`, `MaxLinesAssumption` (any natural) and
`LinesAssumption` (a text line says whether it names a wrapper, a load has an
integer).

The inductive invariant `ScannerInv` says what the list of instructions is: the
last lines read (`WindowInv`), of one function, and behind every system call that
was reported (`FoundInv`); that the parser has seen all that was read but an
overlong line (`LinesInv`); and that its wrapper flag is that of the function
(`WrapperInv`). The number that `findSyscallNum` returns is then that of the last
load of its kind in that window (`FindSyscallNumLast`), which no reported call used,
because the list is emptied with every find. The windows of two finds do not
overlap: hence no number is used twice and no call is reported twice. `NoneLosing` is
about what `Parse` returns: the result is what the parser found, unless a line was
too long (`ResultInv`).

### Profiler: the files that invocations share

Assumptions: `BufferAssumption` (a positive size), `DumpAssumption` (an objdump
is a finite sequence of lines) and `BuildsAssumption` (a build is none of the
markers that the model uses in its place).

The output file: without overlap one invocation runs at a time (`AloneInv`), and
the file it is writing to is as it left it: empty once it is opened, with its own
beginning of a profile in the middle of a template (`OutputGood`). A kill or a failure
there leaves that part behind, and the next `os.Create` removes it: hence who
opened the file last and reported success has its whole profile in it.

The cache is harder, because `CacheWhole` allows overlap: any number of invocations
may have it open, each with its own offset and buffer, and each empties it under
the others when it starts. The invariant is that *every line of the file is
right or some writer is yet to write it* (`Covered`), that all writers
print the same objdump under the same hash (`Current`, from `HashInv`: as long as
nothing is rebuilt they hash the same binary), and that buffer and remaining
output of a writer are what is left of that objdump behind its offset (`WriterInv`). A
`Create` makes all lines wrong, and is itself the writer that will write them; a
write behind the end of the file leaves a hole of other bytes, and the writer that
truncated the file has a smaller offset; `DumpEnd` lets a writer go only when it has
written all it had. When no one runs, nothing is left to be written.

### Profiler: what a profile contains

Same assumptions. While invocations do not overlap and none was stopped at the
dump (`Lone`), a profile has the system calls of one build's objdump, whenever the
binary was replaced and whether the objdump came from the cache; and if nothing
was replaced under an invocation, it is the build that was hashed. The
invariant `ProfileInv` follows one invocation from step to step (`PartInv`): a
writer has the rest of one build's objdump and the file has the beginning
(`Writing`), the file is whole when no one writes (`Filled`), a reader has
parsed the first lines of it (`Reading`), and then what `Parse` found is what is in
that objdump (`Found`, `Reports`). `Tied` says which build that is, if it must be
a particular one.

The difficulty is that the reader's parser is not the parser of the objdump: it has
read the line with the hash first, and carries it along as an instruction until
it finds a system call or a new function begins. `Behind` relates the two parsers:
the same wrapper flag and numbers, and the same instructions or those with that line in
front. `FindSyscallNum` looks backwards for a load and never sees the difference
(`SameNumbers`), so that one line keeps `Behind`; `Parsers`, a recursive function
over the lines, exists and obeys its recursion by induction, and `Reading` walks
along it.

### Tables: from a line of the kernel's files to a program

Assumptions: `MaxRunsAssumption` (any natural); `SourcesAssumption`, about the
kernel: the lines that `Gives` says make the kernel's tables, if the files of a
version are there and can be read; `sync_file_range2` is not for arm64; among all
lines that look like a table's, a number is at one place, and a name too but for
x32; no ABI is called `x64`. `KernelAssumption`: the tables in the repository are
those of a version, and what the wider ones have besides are lines of it. That
a table of a program has one number for a name is not assumed: it follows from the places
of the lines it was made of. Nothing is assumed about a version whose files are missing or cannot be
parsed, or about where a run stops.

`TablesInv` follows the rows. Of the lines read so far, the list of a builder has
what its files say, at the places that say it (`BuildInv`, with `Reads`); the
file that is about to be parsed is the one downloaded last, although ARM and
AARCH64 keep a different `unistd.h` under the same name (`FileInv`); all
builders done means all tables of one version (`ParamsInv`); `zsyscalls.go` has the
first tables of one version, also while it is written or after that was stopped
(`OutputInv`), and all of them unless it was; a program has the tables of one
version and some inverse of each (`ProgramInv`). None of the properties is
inductive alone: `FileUsable` says nothing of a run that has not written yet, and a
program outlives the file it was built from.

The lemmas go along the same way. `Scan` takes exactly the lines that `Taken`
accepts, in order, and `Sort`, an insertion sort, keeps the rows and how often
each is there: both by induction over the list, after showing that the recursive
function exists. `BuildersFit` compares what each builder takes with `Gives` and
`Looks`, file by file: no line of a table is missed, and none is taken that does not
look like one, which for arm, i386 and x86_64 is the same. `UnderstoodOnce`,
`UnderstoodOneNumber` and `UnderstoodLists` conclude that a version the generator
does not stop at gives every row once and, but for x32, every name once. A file that
was cut off has fewer tables than names and does not compile (`Compiles` asks for
all of them), which is why a program cannot mix versions; and whatever `invert`
chooses among two numbers of a name, it chooses a number of that name, which is one
direction of the round trip; the other is that no name has two numbers.

`AloneInv`, `OutputInv`, `HashInv`, `WriterInv`, `CacheInv`, `LabelInv` and the
parts of `ScannerInv`, `SandboxInv`, `ProfileInv` and `TablesInv` were checked with TLC on the instances of
the runs before they were proved.

### Model-checked only

* `Ends` is liveness under fairness, which the prover does not do.
* `Faithful`, `Loadable` and `AcceptsValid` of Policy are not true for every value
  of the constants. The runs `policy_long_jump` and `policy_stale_skip` refute
  `Faithful` for larger policies, and the wrapped skip of the first may as well
  leave the program (`Loadable`). `AcceptsValid` fails when short jumps have at most
  one or two instructions: a jump to a far label whose stand-in comes directly
  behind it may have two skips of zero and is "useless". What holds for every policy
  is `NeverPanics`: this is the only error of the assembler that is left.
* The violations: a counterexample needs no proof.

No module uses a RECURSIVE operator.

## 5. Not modelled

* `Policy.Dump`, `String`, `MarshalText`: conversions to text, no state.
* The numbers behind actions, flags and errnos; the models only compare names.
  Likewise the rows of the tables that no case needs, and the text of YAML.
* The text of the profiler's formats and the template for its output name. The error
  of the `Fprintln` that writes a config, which is dropped (`main.go:398`): a
  profile that could not be written is then reported as success.
* `defs_arches_linux.go`: the input of `cgo -godefs`, which writes `zarches.go`.
* Other platforms (functions that return constants), the tests and examples.
* Termination of Policy under fairness was tried and left out: its loops run over
  sequences whose length is fixed when they start, while checking it is slow.
* In the kernel: memory limits on filters, ptrace, user notification, and
  threads that exit.

## 6. Plan

Done, in this order: BPF, Program, Assembler with proofs; Policy; Seccomp;
Disasm and Scanner; Profiler with its output file and liveness; Arch and Tables;
Supported, AtomicLoad and Sandbox; then the proofs about labels, loading and its
refinement, the parser, the profiler's files, what Policy refuses, what a
profile contains, the tables, and the labels of the program that a policy becomes.

Next:

1. That comparing words as `HighTests` and `LowTest` say is comparing double
   words, for every `WordBits`: the arithmetic under `Faithful`.
2. `LandsHome` for Policy, under the condition that no insertion crosses a
   computed jump: `Resolvable` already has what it starts from.
