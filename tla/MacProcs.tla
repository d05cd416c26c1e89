------------------------------ MODULE MacProcs ------------------------------
(***************************************************************************)
(* The processes below one reaper on macOS, as the kernel keeps them: the  *)
(* start of the command up to its exec, fork, setsid, exec, exit and wait, *)
(* orphans that go to launchd, fork notes of a kqueue, and pids that come  *)
(* back.  The start is the child's side of supervise_or_continue; nothing  *)
(* else here is code of the repository.                                    *)
(*                                                                         *)
(* Simplifications:                                                        *)
(* - pids are handed out in birth order; one that has gone may come back   *)
(*   as a stranger's, never as a descendant's;                             *)
(* - a child list names the living; nothing but its pid, its parent and its *)
(*   unread note is kept of a process that has ended;                      *)
(* - the command execs once; nobody stops it after that;                   *)
(* - at most MaxProcs processes are ever born (the bound of the model).    *)
(***************************************************************************)
EXTENDS Integers, Sequences, FiniteSets

CONSTANT MaxProcs

ASSUME MacProcsAssumption == MaxProcs \in Nat \ {0}

Proc    == 1 .. MaxProcs
Cmd     == 1    \* the jailed command, the child the reaper forked
Reaper  == 0
Launchd == -1

VARIABLES
  born,     \* processes 1..born have been born
  state,    \* unborn, running, stopped, killed (SIGKILL pending), zombie, gone
  parent,   \* the process that may wait for it
  leads,    \* processes that called setsid
  image,    \* the program: own (the reaper's), cmd or other
  at,       \* how far the command has started
  tty,      \* Ctrl-Z may still reach it before its exec (once)
  watched,  \* processes with a knote
  events,   \* processes with an unread fork note, oldest first
  reused    \* processes whose pid is a stranger's by now

procVars == <<born, state, parent, leads, image, at, tty, watched, events, reused>>

ProcTypeOK ==
  /\ born \in Proc
  /\ state \in [Proc -> {"unborn", "running", "stopped", "killed", "zombie", "gone"}]
  /\ parent \in [Proc -> Proc \union {Reaper, Launchd}]
  /\ image \in [Proc -> {"own", "cmd", "other"}]
  /\ at \in {"fresh", "halted", "token", "hooks", "exec"} /\ tty \in BOOLEAN
  /\ leads \subseteq Proc /\ watched \subseteq Proc /\ events \in Seq(Proc)
  /\ reused \subseteq Proc

Living(p)   == state[p] \in {"running", "stopped", "killed"}
Children(q) == {p \in Proc : Living(p) /\ parent[p] = q}
Unread(p)   == \E i \in DOMAIN events : events[i] = p

ProcInit ==
  /\ born = Cmd
  /\ state = [p \in Proc |-> IF p = Cmd THEN "running" ELSE "unborn"]
  /\ parent = [p \in Proc |-> Reaper]
  /\ leads = {} /\ image = [p \in Proc |-> "own"]
  /\ at = "fresh" /\ tty = TRUE
  /\ watched = {} /\ events = <<>> /\ reused = {}

-----------------------------------------------------------------------------
(* The start of the command. *)

\* kill(getpid(), SIGSTOP)
Halt ==
  /\ at = "fresh" /\ state[Cmd] = "running"
  /\ at' = "halted" /\ state' = [state EXCEPT ![Cmd] = "stopped"]
  /\ UNCHANGED <<born, parent, leads, image, tty, watched, events, reused>>

\* The byte into the handshake pipe, and its end closed.
WriteToken ==
  /\ at = "token" /\ state[Cmd] = "running"
  /\ at' = "hooks"
  /\ UNCHANGED <<born, state, parent, leads, image, tty, watched, events, reused>>

\* Seatbelt or nono are done.
ExecCommand ==
  /\ at = "hooks" /\ state[Cmd] = "running"
  /\ at' = "exec" /\ image' = [image EXCEPT ![Cmd] = "cmd"] /\ tty' = FALSE
  /\ UNCHANGED <<born, state, parent, leads, watched, events, reused>>

\* SIGCONT for the command; one that comes before the stop does nothing.
Continue ==
  IF state[Cmd] = "stopped"
  THEN /\ state' = [state EXCEPT ![Cmd] = "running"]
       /\ at' = IF at = "halted" THEN "token" ELSE at
  ELSE UNCHANGED <<state, at>>

-----------------------------------------------------------------------------
(* What any process does. *)

Fork(p) ==
  /\ state[p] = "running" /\ (p = Cmd => at = "exec") /\ born < MaxProcs
  /\ born' = born + 1
  /\ state' = [state EXCEPT ![born + 1] = "running"]
  /\ parent' = [parent EXCEPT ![born + 1] = p]
  /\ image' = [image EXCEPT ![born + 1] = image[p]]
  /\ events' = IF p \in watched /\ ~ Unread(p) THEN Append(events, p) ELSE events
  /\ UNCHANGED <<leads, at, tty, watched, reused>>

Setsid(p) ==
  /\ p # Cmd /\ state[p] = "running"
  /\ leads' = leads \union {p}
  /\ UNCHANGED <<born, state, parent, image, at, tty, watched, events, reused>>

Exec(p) ==
  /\ p # Cmd /\ state[p] = "running"
  /\ image' = [image EXCEPT ![p] = "other"]
  /\ UNCHANGED <<born, state, parent, leads, at, tty, watched, events, reused>>

\* p ends, by itself, of the reaper's SIGKILL or of anybody's; its children
\* go to launchd.
Exit(p) ==
  /\ Living(p)
  /\ state' = [state EXCEPT ![p] = "zombie"]
  /\ leads' = leads \ {p} /\ watched' = watched \ {p} /\ tty' = (tty /\ p # Cmd)
  /\ parent' = [q \in Proc |-> IF parent[q] = p THEN Launchd ELSE parent[q]]
  /\ image' = [image EXCEPT ![p] = "own"]
  /\ UNCHANGED <<born, at, events, reused>>

\* launchd, or a parent below the reaper, waits for p.
Waited(p) ==
  /\ state[p] = "zombie"
  /\ parent[p] = Launchd \/ (parent[p] \in Proc /\ state[parent[p]] = "running")
  /\ state' = [state EXCEPT ![p] = "gone"]
  /\ UNCHANGED <<born, parent, leads, image, at, tty, watched, events, reused>>

\* A stranger gets the pid of p, not before the reaper has read p's notes.
Reuse(p) ==
  /\ p # Cmd /\ state[p] = "gone" /\ p \notin reused /\ ~ Unread(p)
  /\ reused' = reused \union {p}
  /\ UNCHANGED <<born, state, parent, leads, image, at, tty, watched, events>>

\* SIGKILL for the pids of S. The target runs no more code of its own.
Sigkill(S) ==
  state' = [p \in Proc |-> IF p \in S /\ Living(p) THEN "killed" ELSE state[p]]

TreeStep ==
  \/ Halt \/ WriteToken \/ ExecCommand
  \/ \E p \in Proc : Fork(p) \/ Setsid(p) \/ Exec(p) \/ Exit(p) \/ Waited(p) \/ Reuse(p)
=============================================================================
