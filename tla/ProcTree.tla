------------------------------ MODULE ProcTree ------------------------------
(***************************************************************************)
(* The processes below one reaper, as the kernel keeps them: what fork,    *)
(* setsid, exit, wait and SIGKILL do to a process, its parent and its      *)
(* process group.  None of this is code of the repository; it is what      *)
(* wrap/reaper.rs and wrap/mod.rs rely on when they call fork, prctl,      *)
(* waitpid, kill and killpg, so every definition is external.              *)
(*                                                                         *)
(* Simplifications:                                                        *)
(* - pids are handed out in birth order and never reused, so a child's     *)
(*   number is larger than its parent's;                                   *)
(* - at most MaxProcs processes are ever born (the bound of the model);    *)
(* - a process leaves the reaper's group by setsid or setpgid and does     *)
(*   not come back.                                                        *)
(***************************************************************************)
EXTENDS Integers, FiniteSets

CONSTANTS
  MaxProcs,  \* bound: processes that are ever born below the reaper
  AutoReap   \* TRUE when the host ignores SIGCHLD, which the reaper inherits

ASSUME ProcTreeAssumption == MaxProcs \in Nat \ {0} /\ AutoReap \in BOOLEAN

Proc   == 1 .. MaxProcs
Cmd    == 1    \* the jailed command, the child the reaper forked
Reaper == 0
Outer  == -1   \* the init or subreaper above the reaper

VARIABLES
  born,     \* processes 1..born have been born
  state,    \* state[p]: unborn, running, killed (SIGKILL pending), zombie, gone
  parent,   \* parent[p]: the process that may wait for p
  ingroup   \* processes still in the process group the reaper leads

procVars == <<born, state, parent, ingroup>>

ProcState == {"unborn", "running", "killed", "zombie", "gone"}

ProcTypeOK ==
  /\ born \in Proc
  /\ state \in [Proc -> ProcState]
  /\ parent \in [Proc -> Proc \union {Reaper, Outer}]
  /\ ingroup \in SUBSET Proc

Alive(p)    == state[p] \in {"running", "killed"}
Present(p)  == state[p] \in {"running", "killed", "zombie"}
Children(q) == {p \in Proc : Present(p) /\ parent[p] = q}
Zombies(q)  == {p \in Children(q) : state[p] = "zombie"}

\* Nobody runs and nobody is about to die: the whole tree has ended.
TreeEnded == \A p \in Proc : ~ Alive(p)

ProcInit ==
  /\ born = Cmd
  /\ state = [p \in Proc |-> IF p = Cmd THEN "running" ELSE "unborn"]
  /\ parent = [p \in Proc |-> Reaper]
  /\ ingroup = {Cmd}

\* A zombie that nobody has to wait for disappears at once: pid 1 waits for
\* everything, and so does a parent that ignores SIGCHLD.
Resting(q) == IF q = Outer \/ (q = Reaper /\ AutoReap) THEN "gone" ELSE "zombie"

\* state and parent after the children of q were handed to `to`
HandOver(st, q, to) ==
  /\ state' = [p \in Proc |-> IF st[p] = "zombie" /\ parent[p] = q
                              THEN Resting(to) ELSE st[p]]
  /\ parent' = [p \in Proc |-> IF parent[p] = q THEN to ELSE parent[p]]

Fork(p) ==
  /\ state[p] = "running"
  /\ born < MaxProcs
  /\ born' = born + 1
  /\ state' = [state EXCEPT ![born + 1] = "running"]
  /\ parent' = [parent EXCEPT ![born + 1] = p]
  /\ ingroup' = IF p \in ingroup THEN ingroup \union {born + 1} ELSE ingroup

LeaveGroup(p) ==
  /\ state[p] = "running"
  /\ p \in ingroup
  /\ ingroup' = ingroup \ {p}
  /\ UNCHANGED <<born, state, parent>>

\* p ends; its children go to `adopter`, the nearest living subreaper.
Exit(p, adopter) ==
  /\ Alive(p)
  /\ HandOver([state EXCEPT ![p] = Resting(parent[p])], p, adopter)
  /\ UNCHANGED <<born, ingroup>>

\* A process below the reaper waits for one of its own children.
WaitChild(c) ==
  /\ state[c] = "zombie"
  /\ parent[c] \in Proc
  /\ state[parent[c]] = "running"
  /\ state' = [state EXCEPT ![c] = "gone"]
  /\ UNCHANGED <<born, parent, ingroup>>

\* SIGKILL is pending from the moment it is sent.  The target runs no more
\* code of its own and cannot fork, but it has not ended yet.
Killed(st, S) == [p \in Proc |-> IF p \in S /\ st[p] = "running" THEN "killed" ELSE st[p]]
Collected(st, S) == [p \in Proc |-> IF p \in S THEN "gone" ELSE st[p]]
=============================================================================
