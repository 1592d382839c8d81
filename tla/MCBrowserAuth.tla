--------------------------- MODULE MCBrowserAuth ---------------------------
(* Two backends that share a callback port, one with a port of its own and  *)
(* one with an ephemeral port.                                             *)
EXTENDS BrowserAuth

CONSTANTS slack, mail, zoho, linear, f1, f2, shared, own, none

MCAssignments == [Flows -> Authorizers]
MCPortOf == [a \in Fixed |-> IF a = zoho THEN own ELSE shared]
=============================================================================
