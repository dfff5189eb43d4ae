----------------------------- MODULE MCModelClient -----------------------------
(* The constants of gemini.go. *)
EXTENDS ModelClient

Backoff == [n \in 1..5 |-> IF 2^n > 20 THEN 20 ELSE 2^n]
SomeLatencies == {0, 1, 30, 80, 90}
================================================================================
