------------------------------ MODULE MC_Sorter ------------------------------
(***************************************************************************)
(* A package tree for Sorter.  Root holds v1 and the clean v2 and has the *)
(* sub-package P1, which holds v3, v4, v5 and has the sub-package P2 with *)
(* v6.  The av modules are placed so that every branch of findAvModule is *)
(* taken, P1's v4 and v5 share a key with Root's v1 (a two-variable bucket *)
(* merged into an existing one), v3 has a key of its own (a bucket entered *)
(* as it is), and P2's v6 is merged through P1 into Root.                 *)
(***************************************************************************)
EXTENDS Sorter

CONSTANTS v1, v2, v3, v4, v5, v6, s1, s2, a1, a2, P1, P2

MCSubPkgs == [p \in Pkgs |-> IF p = Root THEN <<P1>>
                             ELSE IF p = P1 THEN <<P2>> ELSE <<>>]
MCVarsOf == [p \in Pkgs |-> IF p = Root THEN <<v1, v2>>
                            ELSE IF p = P1 THEN <<v3, v4, v5>> ELSE <<v6>>]
MCServerOf == (v1 :> s1) @@ (v2 :> s2) @@ (v3 :> s1) @@ (v4 :> s1)
              @@ (v5 :> s1) @@ (v6 :> s2)
MCVarAvm == [v \in Vars |-> IF v = v3 THEN a2 ELSE NoAvm]
MCPkgAvm == [p \in Pkgs |-> IF p = P1 THEN a1 ELSE NoAvm]
MCServerAvm == (s1 :> NoAvm) @@ (s2 :> a2)
=============================================================================
