----------------------------- MODULE MCDashboard ----------------------------
(***************************************************************************)
(* Three keys, which are also the values.  Users whose calls overlap have  *)
(* one key; a patient one types two of them, and a simulation draws from   *)
(* all three, of which the larger cache holds two.                         *)
(***************************************************************************)
EXTENDS Dashboard

MCNumber  == [s \in Strings |-> CASE s = "a" -> 0 [] s = "b" -> 1 [] s = "c" -> 2]
MCDecimal == [n \in Numbers |-> CHOOSE s \in Strings : MCNumber[s] = n]

MCOneKey == <<"a">>
MCThreeKeys == <<"a", "b", "c">>

MCOnePut == {[api |-> "put", key |-> "a", value |-> "a"]}
MCOperations ==
  [api : {"put"}, key : {"a", "b"}, value : {"a"}] \cup [api : {"get", "remove"}, key : {"a", "b"}]

(* A patient user's theorems apply to these instances.                     *)
ASSUME OneSpelling /\ CountersSuffice
=============================================================================
