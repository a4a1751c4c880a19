------------------------------ MODULE MCLParser ------------------------------
(* Model values and bounds for checking LParser with TLC.                 *)
EXTENDS LParser

CONSTANTS a, b

MCNames == {a, b}
MCName1 == {a}
====
