----------------------------- MODULE MCDestHide -----------------------------
(* DestHide with two runs, of which the strict one uses its policy twice.    *)
EXTENDS DestHide

MCMaxLaunches == [r \in Run |-> IF r \in Strict THEN 2 ELSE 1]
=============================================================================
