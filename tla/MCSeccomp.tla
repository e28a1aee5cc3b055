----------------------------- MODULE MCSeccomp -----------------------------
(***************************************************************************)
(* The filters modules Seccomp and Sandbox are checked with.  A kernel     *)
(* program has at most 3 instructions, and 5 values of a size look         *)
(* different in a SockFprog: the sizes 6 and 7 look like 1 and 2.          *)
(***************************************************************************)
EXTENDS Sandbox

Plain == [flag |-> "none", noNewPrivs |-> TRUE, assembles |-> TRUE, size |-> 2, denies |-> {}]
TSync == [Plain EXCEPT !.flag = "tsync"]

(* Flags, no_new_privs and policies that deny what is needed next.         *)
MixedFilters ==
  {TSync, Plain,
   [TSync EXCEPT !.noNewPrivs = FALSE],
   [TSync EXCEPT !.denies = {"seccomp"}],
   [TSync EXCEPT !.denies = {"prctl"}],
   [TSync EXCEPT !.denies = {"execve"}],
   [Plain EXCEPT !.flag = "log"],
   [Plain EXCEPT !.flag = "invalid"],
   [TSync EXCEPT !.assembles = FALSE],
   [TSync EXCEPT !.size = 4],
   [TSync EXCEPT !.size = 7]}

PlainAndTSync == {Plain, TSync}

Document(wellFormed, actions, operations) ==
  [wellFormed |-> wellFormed, actions |-> actions, operations |-> operations]

MCDocuments ==
  {Document(TRUE, {"ALLOW", "errno"}, {"NotEqual"}), Document(FALSE, {}, {}),
   Document(TRUE, {"user_notify"}, {}), Document(TRUE, {"allow"}, {"masked"})}

(* No operator tells two threads or two callers apart.                     *)
Symmetry == Permutations(Threads) \cup Permutations(Callers)
=============================================================================
