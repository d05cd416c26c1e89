----------------------------- MODULE RunClaims -----------------------------
(***************************************************************************)
(* What the documentation says of a run that the code does not keep.  Each *)
(* formula is checked by a run of its own that expects a counterexample.   *)
(***************************************************************************)
EXTENDS RunChild

\* "When `run_child` returns successfully, a grandchild that called `setsid`
\* is not still running."  kill_adopted gives up after 32 rounds and leaves
\* the missed flag alone.
SuccessMeansEnded == answer = "ok" => \A p \in Proc : state[p] # "running"

=============================================================================
