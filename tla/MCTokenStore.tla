---------------------------- MODULE MCTokenStore ----------------------------
(* Two backends, one of them called by two goroutines, in one process or in  *)
(* two that share the file.                                                *)
EXTENDS TokenStore

CONSTANTS a, b, c1, c2, c3

MCLabelOf == [c \in Callers |-> IF c = c3 THEN b ELSE a]

MCSharings == {[l \in Labels |-> "daemon"], [l \in Labels |-> IF l = a THEN "daemon" ELSE "list"]}
=============================================================================
