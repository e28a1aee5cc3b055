----------------------------- MODULE MCScanner -----------------------------
(***************************************************************************)
(* The lines module Scanner is checked on: two system calls with a name    *)
(* (0 and 1), one without (7), a number that does not parse and a negative *)
(* one.                                                                    *)
(***************************************************************************)
EXTENDS Scanner

MCLines ==
  {Text(TRUE), Text(FALSE), Zero, Raw, Call, Other, Overlong,
   Load("register", 1), Load("register", 7), Load("register", NotFound),
   Load("stack", -3),
   Load("stack", 0), Load("stack", 1)}
=============================================================================
