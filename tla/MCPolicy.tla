------------------------------ MODULE MCPolicy ------------------------------
(***************************************************************************)
(* The policies, architectures and system calls that module Policy is      *)
(* checked on.                                                             *)
(***************************************************************************)
EXTENDS Policy

(* Architectures.  The x32 bit is the highest bit of a word.               *)
MCX32Mask == W \div 2
X86_64 == [id |-> 1, seccompMask |-> 0, littleEndian |-> TRUE,
           syscallNames |-> [a |-> 1, b |-> 2, c |-> 3, d |-> 4, e |-> 5, f |-> 6]]
I386 == [id |-> 2, seccompMask |-> 0, littleEndian |-> TRUE,
         syscallNames |-> [a |-> 7, b |-> 9, c |-> 3, d |-> 4, e |-> 8, f |-> 0]]
NoTable == [id |-> 3, seccompMask |-> 0, littleEndian |-> TRUE, syscallNames |-> [n \in {} |-> 0]]
AllArches == {X86_64, I386, NoTable}
ArchIDs == {1, 2, 3}

Group(names, conds, action) ==
  [names |-> names, namesWithConditions |-> conds, action |-> action]
MkPolicy(default, groups) == [default |-> default, groups |-> groups]
Cond(argument, operation, value) ==
  [argument |-> argument, operation |-> operation, value |-> value]
With(name, conditions) == [name |-> name, conditions |-> conditions]

-----------------------------------------------------------------------------
(* Lists of names: every policy of three groups that are runs of the       *)
(* system calls a..f, overlapping ones included.                           *)
Table == <<"a", "b", "c", "d", "e", "f">>
Windows == {SubSeq(Table, i, j) : i \in 1 .. 6, j \in 0 .. 6}
NamePolicies ==
  {MkPolicy("errno", <<Group(x, <<>>, "allow"), Group(y, <<>>, "trap"), Group(z, <<>>, "log")>>) :
     x, y, z \in Windows}
NoArgs == {[i \in 0 .. 5 |-> 0]}
NameCalls == [nr : Word, arch : ArchIDs, args : NoArgs]

-----------------------------------------------------------------------------
(* Conditions, with words of two bits: every operation against every       *)
(* value, pairs of conditions that must both hold, pairs of which one must *)
(* hold, and groups that mix them with plain names.  High word and low     *)
(* word of the value 6 differ.                                             *)
SmallArches ==
  {[id |-> 1, seccompMask |-> 0, littleEndian |-> TRUE,
    syscallNames |-> [a |-> 0, b |-> 1, c |-> 2]],
   [id |-> 2, seccompMask |-> 0, littleEndian |-> FALSE,
    syscallNames |-> [a |-> 3, b |-> 1, c |-> 2]]}
OnB(c) == With("b", <<c>>)
ConditionPolicies ==
  {MkPolicy("errno", gs) : gs \in
     {<<Group(<<>>, <<OnB(Cond(1, op, v))>>, "allow")>> : op \in Operations, v \in DoubleWord}
     \cup UNION {{
       <<Group(<<>>, <<With("b", <<Cond(0, op1, 6), Cond(1, op2, 6)>>)>>, "allow")>>,
       <<Group(<<"a">>, <<OnB(Cond(0, op1, 6)), OnB(Cond(1, op2, 6))>>, "allow")>>,
       <<Group(<<"c">>, <<>>, "trap"), Group(<<>>, <<>>, "log"),
         Group(<<"a">>, <<With("c", <<Cond(1, op1, 9)>>), OnB(Cond(1, op2, 6)),
                          With("b", <<Cond(0, op1, 5), Cond(1, op1, 6)>>)>>, "allow"),
         Group(<<"b", "a">>, <<>>, "log")>>} : op1, op2 \in Operations}}
SomeArgs ==
  {[i \in 0 .. 5 |-> IF i = 0 THEN x ELSE IF i = 1 THEN y ELSE 0] :
     x \in {2, 5, 6, 10}, y \in DoubleWord}
ConditionCalls == [nr : Word, arch : {1, 2}, args : SomeArgs]

-----------------------------------------------------------------------------
(* Policies with all kinds of mistakes, alone and together: unknown names  *)
(* (zz), duplicates, a name with and without conditions, arguments that do *)
(* not exist, conditions that are empty, a default action that is none, a  *)
(* group's action that is none.                                            *)
FaultyConds == {With(n, <<Cond(i, "Equal", 1)>>) : n \in {"a", "b", "zz"}, i \in {0, 5, 6}}
               \cup {With("a", <<>>)}
FaultyArches == SmallArches \cup {NoTable}
FaultyPolicies ==
  {MkPolicy(d, gs) : d \in {"allow", "user_notify"}, gs \in
     {<<>>} \cup {<<Group(ns, cs, act), Group(<<"c">>, <<>>, "errno")>> :
                   act \in {"trap", "user_notify"},
                   ns \in SeqOf({"a", "b", "zz"}, 2), cs \in SeqOf(FaultyConds, 2)}}
SmallPolicies == FaultyPolicies \cup ConditionPolicies

-----------------------------------------------------------------------------
(* Policies with conditions that take more than 255 instructions, as the   *)
(* code's skips have it: OrChain(name, n) takes 4 * n + 1.                 *)
OrChain(name, n) == [i \in 1 .. n |-> With(name, <<Cond(0, "Equal", i % 4)>>)]

(* The conditions on b are skipped by a long jump to the third group, to   *)
(* trap a.                                                                 *)
LongJumpPolicies ==
  {MkPolicy("errno", <<Group(<<"c">>, <<>>, "log"), Group(<<>>, OrChain("b", 64), "allow"),
                       Group(<<"a">>, <<>>, "trap")>>)}

(* The conditions on b are skipped by an early return, inserted into the   *)
(* jump that a's condition has to the group's action.                      *)
StaleSkipPolicies ==
  {MkPolicy("errno", <<Group(<<>>, <<With("a", <<Cond(0, "Equal", 6)>>)>> \o OrChain("b", 64),
                             "allow")>>)}

(* The conditions on b fail and a is checked next.                         *)
ClobberPolicies ==
  {MkPolicy("errno", <<Group(<<>>, <<OnB(Cond(0, "Equal", 6))>>, "trap"),
                       Group(<<"a", "b">>, <<>>, "allow")>>)}
=============================================================================
