----------------------------- MODULE MCProfiler -----------------------------
(***************************************************************************)
(* Builds of a binary with different system calls, and flags of the        *)
(* profiler.                                                               *)
(***************************************************************************)
EXTENDS Profiler

Site(num) == <<Load("register", num), Raw>>

MCDump ==
  [b \in Builds |-> CASE b = "b1" -> Site(3)
                      [] b = "b2" -> Site(1) \o Site(2)
                      [] b = "b3" -> <<Text(FALSE)>>
                      [] b = "b4" -> Site(1) \o <<Overlong>>]

MCMachine == [b \in Builds |-> CASE b = "b3" -> "arm" [] b = "b4" -> "i386" [] OTHER -> "x86_64"]

Flags(blacklist, allowList, format, out) ==
  [blacklist |-> blacklist, allowList |-> allowList, format |-> format, out |-> out]

MCOptions == {Flags({1}, {1, 9}, "code", "file"), Flags({2}, {}, "config", "file")}

(* A dump that is stopped comes with overlap or alone.                     *)
MCTroubles == SUBSET {"unreadable", "rebuilt"} \cup {{"stopped"}, {"overlap"}, {"overlap", "stopped"}}

PlainOptions == {Flags({}, {}, "config", "-")}
=============================================================================
