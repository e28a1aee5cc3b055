----------------------------- MODULE AtomicLoad -----------------------------
(***************************************************************************)
(* What LoadFilter promises, without its steps: a call takes effect at     *)
(* once or not at all.  A filter is put on top of those of one thread or   *)
(* of all threads, and never at the cost of another filter; a call that    *)
(* returns an error attaches nothing.  What it may leave behind is the     *)
(* no_new_privs bit of a thread, if it asked for that.                     *)
(***************************************************************************)
EXTENDS Sequences, SequencesExt

CONSTANTS Threads, Callers

VARIABLES live,       \* the threads
          attached,   \* each thread's filters
          bits,       \* the threads with no_new_privs
          asked,      \* the callers that may set the bit
          returned    \* what each call returned: "none", "nil" or "error"

vars == <<live, attached, bits, asked, returned>>

Init ==
  /\ \E t \in Threads : live = {t}
  /\ attached = [t \in Threads |-> <<>>]
  /\ bits = {}
  /\ asked \subseteq Callers
  /\ returned = [c \in Callers |-> "none"]

Return(c, value) ==
  /\ returned[c] = "none"
  /\ returned' = [returned EXCEPT ![c] = value]
  /\ UNCHANGED <<live, asked>>

(* A thread starts another one.                                            *)
StartThread(t, u) ==
  /\ t \in live /\ u \notin live
  /\ live' = live \cup {u}
  /\ attached' = [attached EXCEPT ![u] = attached[t]]
  /\ bits' = IF t \in bits THEN bits \cup {u} ELSE bits
  /\ UNCHANGED <<asked, returned>>

(* Thread t executes a command: a process of its own, with what t had.     *)
Execute(t) ==
  /\ t \in live
  /\ live' = {t}
  /\ attached' = [u \in Threads |-> IF u = t THEN attached[t] ELSE <<>>]
  /\ bits' = bits \cap {t}
  /\ UNCHANGED <<asked, returned>>

SetBit(c, t) ==
  /\ c \in asked /\ returned[c] = "none" /\ t \in live
  /\ bits' = bits \cup {t}
  /\ UNCHANGED <<live, attached, asked, returned>>

(* c's filter is attached by thread t to the threads in S.                 *)
Load(c, t, S) ==
  /\ t \in live
  /\ \A u \in S : IsPrefix(attached[u], attached[t])
  /\ attached' = [u \in Threads |-> IF u \in S THEN Append(attached[t], c) ELSE attached[u]]
  /\ bits' = IF t \in bits THEN bits \cup S ELSE bits
  /\ Return(c, "nil")

(* Another thread has a filter that t has not: t cannot load for all, and  *)
(* the call returns as if it had.                                          *)
LoadRefused(c, t) ==
  /\ t \in live
  /\ \E u \in live : ~IsPrefix(attached[u], attached[t])
  /\ Return(c, "nil")
  /\ UNCHANGED <<attached, bits>>

Fail(c) == Return(c, "error") /\ UNCHANGED <<attached, bits>>

Next ==
  \/ \E t, u \in Threads : StartThread(t, u)
  \/ \E t \in Threads : Execute(t)
  \/ \E c \in Callers, t \in Threads :
       SetBit(c, t) \/ Load(c, t, {t}) \/ Load(c, t, live) \/ LoadRefused(c, t)
  \/ \E c \in Callers : Fail(c)

Spec == Init /\ [][Next]_vars
=============================================================================
