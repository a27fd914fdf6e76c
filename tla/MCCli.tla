------------------------------- MODULE MCCli --------------------------------
(***************************************************************************)
(* A user who types three numbers, one of them in two spellings: "1" and   *)
(* "01" (or "key" and the decimal number that is its hash).  Three keys    *)
(* meet caches of capacity 1 and 2, so that there are evictions.           *)
(***************************************************************************)
EXTENDS Cli

MCNumber  == [s \in Strings |-> CASE s = "0" -> 0 [] s \in {"1", "01"} -> 1 [] s = "2" -> 2]
MCDecimal == [n \in Numbers |-> CASE n = 0 -> "0" [] n = 1 -> "1" [] n = 2 -> "2"]
=============================================================================
