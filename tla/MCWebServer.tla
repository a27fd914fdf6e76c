----------------------------- MODULE MCWebServer ----------------------------
(***************************************************************************)
(* Two numbers, one of them in two spellings, and requests of every kind:  *)
(* with a parameter that is empty, a capacity that is replaced, and a      *)
(* batch with a token that is not understood.  Of three clients one is     *)
(* served, one waits and one finds the backlog full.                       *)
(***************************************************************************)
EXTENDS WebServer

MCNumber  == [s \in Strings |-> IF s = "0" THEN 0 ELSE 1]
MCDecimal == [n \in Numbers |-> IF n = 0 THEN "0" ELSE "1"]

MCRequests ==
  {[api |-> "put", key |-> "0", value |-> "1"],
   [api |-> "put", key |-> "1", value |-> "01"],
   [api |-> "put", key |-> "1", value |-> Empty],
   [api |-> "get", key |-> "01"],
   [api |-> "reset", capacity |-> 0],
   [api |-> "reset", capacity |-> 1],
   [api |-> "batch", ops |-> <<[op |-> "put", key |-> "01", value |-> "0"],
                               [op |-> "none"],
                               [op |-> "get", key |-> "1"],
                               [op |-> "remove", key |-> "0"]>>]}
=============================================================================
