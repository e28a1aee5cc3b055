------------------------------ MODULE Sandbox ------------------------------
(***************************************************************************)
(* cmd/sandbox/main.go: a policy file is read, its filter loaded and a     *)
(* command executed, which may be a sandbox again.                         *)
(*                                                                         *)
(* A caller of LoadFilter is the main goroutine of a sandbox, or, as in    *)
(* module Seccomp, a goroutine of a program that uses the library.  The    *)
(* threads, filters and bits are those of the innermost process; the       *)
(* sandboxes around it wait for their commands in Cmd.Run.                 *)
(***************************************************************************)
EXTENDS Seccomp

CONSTANT Documents   \* policy files: [wellFormed, actions, operations]

VARIABLE stage       \* "library", or where each sandbox is in main

sandboxVars == <<vars, stage>>

-----------------------------------------------------------------------------
(* The policy file.  Actions and operations are read without regard to     *)
(* case.                                                                   *)

ToLower(name) ==
  CASE name = "ALLOW" -> "allow" [] name = "NotEqual" -> "notequal" [] OTHER -> name

UnpackAction(name) ==
  ToLower(name) \in {"kill_thread", "kill_process", "trap", "errno", "trace", "log", "allow"}

UnpackOperation(name) ==
  ToLower(name) \in {"equal", "notequal", "greaterthan", "lessthan", "greaterorequal",
                     "lessorequal", "bitsset", "bitsnotset"}

(* The file can be read as YAML and unpacked into a Policy.                *)
parsePolicy(doc) ==
  /\ doc.wellFormed
  /\ \A name \in doc.actions : UnpackAction(name)
  /\ \A name \in doc.operations : UnpackOperation(name)

-----------------------------------------------------------------------------
SandboxInit ==
  /\ Init
  /\ stage \in {[c \in Callers |-> "library"]}
               \cup {[c \in Callers |-> IF c = first THEN "main" ELSE "not started"] :
                       first \in Callers}
  /\ \A c \in Callers : stage[c] # "library" => ~locked[c]

Proceed(c, label) == stage' = [stage EXCEPT ![c] = label]

(* A program that uses the library, or LoadFilter within a sandbox.        *)
Library(c) ==
  /\ \/ stage[c] = "library" /\ Supported(c)
     \/ stage[c] \in {"library", "load"} /\ LoadFilter(c)
  /\ UNCHANGED stage

Thread ==
  /\ \/ \E t, u \in Threads : Spawn(t, u)
     \/ \E c \in Callers, t \in Threads :
          stage[c] \in {"library", "load"} /\ Migrate(c, t)
  /\ UNCHANGED stage

(* The main goroutine is moved before it forks.                            *)
MigrateMain(c, t) ==
  /\ stage[c] = "run" /\ t \in live \ {thread[c]}
  /\ thread' = [thread EXCEPT ![c] = t]
  /\ UNCHANGED <<hasSeccomp, privileged, kernelVars, pc, filter, locked, supported, result,
                 prctlOn, stage>>

(* Mutant of Main: the filter is for the calling thread.                   *)
MainNoTSync(c) ==
  /\ stage[c] = "main"
  /\ \/ Proceed(c, "failed") /\ UNCHANGED filter
     \/ \E doc \in Documents :
          IF parsePolicy(doc)
          THEN /\ filter' = [filter EXCEPT ![c].flag = "none"]
               /\ Proceed(c, "load")
          ELSE Proceed(c, "failed") /\ UNCHANGED filter
  /\ UNCHANGED <<hasSeccomp, privileged, kernelVars, pc, locked, thread, supported, result,
                 prctlOn>>

(* The policy is read.  The filter is for all threads, whatever the policy *)
(* and the flag -no-new-privs are.  It fails without a command to execute. *)
Main(c) ==
  /\ stage[c] = "main"
  /\ \/ Proceed(c, "failed") /\ UNCHANGED filter
     \/ \E doc \in Documents :
          IF parsePolicy(doc)
          THEN /\ filter' = [filter EXCEPT ![c].flag = "tsync"]
               /\ Proceed(c, "load")
          ELSE Proceed(c, "failed") /\ UNCHANGED filter
  /\ UNCHANGED <<hasSeccomp, privileged, kernelVars, pc, locked, thread, supported, result,
                 prctlOn>>

LoadReturned(c) ==
  /\ stage[c] = "load" /\ pc[c] = "returned"
  /\ Proceed(c, IF result[c] = "nil" THEN "run" ELSE "failed")
  /\ UNCHANGED vars

(* The command starts, in a process with what the forking thread has, or   *)
(* the filter does not let it.  It may be another sandbox.                 *)
RunCommand(c) ==
  /\ stage[c] = "run"
  /\ IF Denied(thread[c], "execve")
     THEN Proceed(c, "failed") /\ UNCHANGED <<kernelVars, thread>>
     ELSE /\ live' = {thread[c]}
          /\ filters' = [t \in Threads |-> IF t = thread[c] THEN filters[t] ELSE <<>>]
          /\ noNewPrivs' = [t \in Threads |-> t = thread[c] /\ noNewPrivs[t]]
          /\ \/ Proceed(c, "running") /\ UNCHANGED thread
             \/ \E d \in Callers :
                  /\ stage[d] = "not started"
                  /\ stage' = [stage EXCEPT ![c] = "running", ![d] = "main"]
                  /\ thread' = [thread EXCEPT ![d] = thread[c]]
  /\ UNCHANGED <<hasSeccomp, privileged, pc, filter, locked, supported, result, prctlOn>>

(* Every call of a library has returned, or no sandbox goes on.            *)
Ended ==
  /\ \A c \in Callers : IF stage[c] = "library" THEN pc[c] = "returned"
                        ELSE stage[c] \in {"not started", "running", "failed"}
  /\ UNCHANGED sandboxVars

SandboxNext ==
  \/ \E c \in Callers : Library(c) \/ Main(c) \/ LoadReturned(c) \/ RunCommand(c)
  \/ \E c \in Callers, t \in Threads : MigrateMain(c, t)
  \/ Thread
  \/ Ended

SandboxSpec == SandboxInit /\ [][SandboxNext]_sandboxVars

-----------------------------------------------------------------------------
(* Properties.                                                             *)

(* Nothing escapes: every thread of a process that runs as the command of  *)
(* sandboxes, one within the other, has the filters of all of them, though *)
(* a sandbox may fork from another thread than the one that loaded its     *)
(* filter.  A sandbox that could not load its filter runs no command.      *)
CommandFiltered ==
  \A c \in Callers :
    stage[c] = "running" => result[c] = "nil" /\ \A t \in live : Loaded(c, t)
=============================================================================
