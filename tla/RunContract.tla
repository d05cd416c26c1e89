---------------------------- MODULE RunContract ----------------------------
(***************************************************************************)
(* What run_child promises about the processes of one run, without any     *)
(* reaper, poll or report byte: the command's processes come and go, and   *)
(* an answer that is neither a timeout nor an error is given only when     *)
(* none of them is left.  The answer is given once.                        *)
(***************************************************************************)
EXTENDS Naturals

CONSTANT Process

VARIABLES
  live,    \* processes of the run that have not ended
  answer   \* none until the call returns

contractVars == <<live, answer>>

Answers == {"none", "ok", "timeout", "descendants", "apply"}

Init == live \in SUBSET Process /\ answer = "none"

\* Processes start and end; once none is left none can start.
Work ==
  /\ live # {}
  /\ live' \in SUBSET Process
  /\ UNCHANGED answer

Return ==
  /\ answer = "none"
  /\ answer' \in Answers \ {"none"}
  /\ answer' = "ok" => live = {}
  /\ UNCHANGED live

Next == Work \/ Return

Spec == Init /\ [][Next]_contractVars
=============================================================================
