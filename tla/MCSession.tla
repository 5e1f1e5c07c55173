----------------------------- MODULE MCSession -----------------------------
(***************************************************************************)
(* Instances of StubSession for TLC: one pooled handler, one application   *)
(* thread with a deadline and one without.                                 *)
(***************************************************************************)
EXTENDS StubSession

CONSTANTS handler, app1, app2

MCThreads == {handler, app1, app2}
MCHandlers == {handler}
MCDeadline == {handler, app1}
=============================================================================
