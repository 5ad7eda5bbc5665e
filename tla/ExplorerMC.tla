------------------------------ MODULE ExplorerMC ------------------------------
(* Instances of Explorer: a root of one page and two folders. *)
EXTENDS Explorer, TLC

SomePages == [d \in Dirs |-> IF d = Root THEN 1 ELSE 2]
=============================================================================
