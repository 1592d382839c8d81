------------------------------- MODULE MCMux -------------------------------
(* Instances of Mux for TLC: one backend of each interesting kind.         *)
EXTENDS Mux

CONSTANTS cmd, web, exec, oauth, s1, s2, none

WebOAuth == {web, oauth}
CommandOAuth == {cmd, oauth}
ExecOAuth == {exec, oauth}
Web == {web}

KindOf(b) == CASE b = cmd -> "command" [] b = web -> "http" [] b = exec -> "exec" [] OTHER -> "oauth"
MCKind == [b \in Backends |-> KindOf(b)]

Serve(retry, eager) == [daemon |-> TRUE, retry |-> retry, eager |-> eager]
List == [daemon |-> FALSE, retry |-> FALSE, eager |-> FALSE]

EveryMode == {Serve(TRUE, TRUE), Serve(FALSE, FALSE), List}
RetryMode == {Serve(TRUE, FALSE)}
EagerMode == {Serve(TRUE, TRUE)}
=============================================================================
