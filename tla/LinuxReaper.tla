---------------------------- MODULE LinuxReaper ----------------------------
(***************************************************************************)
(* The Linux reaper of wrap/reaper.rs: reaper_main, stop_for_signal,       *)
(* finish, kill_adopted, drain_zombies and write_report, interleaved with  *)
(* the process tree of the jailed command.  One action per system call     *)
(* that another process can observe or race with.                          *)
(*                                                                         *)
(* Simplifications:                                                        *)
(* - LIST_MAX (1024 pids) and the 4096 byte read buffer truncate a child   *)
(*   list only when it is longer than MAX_PIDS, so truncation is covered   *)
(*   by the comparison with MaxPids;                                       *)
(* - the walk of remember_tree is one step that may overlook any process   *)
(*   (each /proc read is a moment of its own); on Linux its only effect    *)
(*   is the recorded set and the missed flag, because kill_recorded is a   *)
(*   no-op there;                                                          *)
(* - a child-list read may leave children out (the kernel documents it as  *)
(*   unreliable while children exit); MaxLossy bounds how many reads come  *)
(*   back empty although a child exists.                                   *)
(***************************************************************************)
EXTENDS ProcTree

CONSTANTS
  MaxPids,      \* MAX_PIDS: rows of the recorded set
  KillRounds,   \* 32: child-list reads that found a child, in kill_adopted
  EmptyPolls,   \* EMPTY_CHILD_POLLS: empty reads that are not believed
  StopPolls,    \* 20: waits for the command in stop_for_signal
  MaxLossy,     \* bound: empty child-list reads that overlooked a child
  PromptDeath   \* TRUE when a killed child ends before the next 2 ms scan

ASSUME ReaperAssumption ==
  /\ MaxPids \in Nat /\ KillRounds \in Nat /\ EmptyPolls \in Nat
  /\ StopPolls \in Nat /\ MaxLossy \in Nat /\ PromptDeath \in BOOLEAN

VARIABLES
  rpc,      \* where the reaper is
  stop,     \* STOP: SIGTERM was delivered to the handler
  table,    \* TABLE: pids recorded by remember_tree
  missed,   \* MISSED
  polls,    \* passes of the loop in stop_for_signal
  kids,     \* kill_adopted: the children of the last read, not yet signalled
  kills,    \* kill_adopted: rounds that killed
  empties,  \* kill_adopted: empty reads in a row
  lossy,    \* empty reads so far that overlooked a child
  report    \* the byte in the report pipe: none, clean (0) or miss (1)

reaperVars == <<rpc, stop, table, missed, polls, kids, kills, empties, lossy, report>>
vars == <<procVars, reaperVars>>

Running == {"boot", "loop", "wait", "stopwait", "list", "kill", "exiting"}
ReaperUp == rpc \in Running

TypeOK ==
  /\ ProcTypeOK
  /\ rpc \in Running \union {"exited", "dead"}
  /\ stop \in BOOLEAN
  /\ table \in SUBSET Proc
  /\ missed \in BOOLEAN
  /\ polls \in 0 .. StopPolls
  /\ kids \in SUBSET Proc
  /\ kills \in 0 .. KillRounds
  /\ empties \in 0 .. EmptyPolls
  /\ lossy \in 0 .. MaxLossy
  /\ report \in {"none", "clean", "miss"}

\* supervise_or_continue sets PR_SET_CHILD_SUBREAPER before it forks, so the
\* command is below a subreaper from its first instruction.
Init ==
  /\ ProcInit
  /\ rpc = "boot"
  /\ stop = FALSE
  /\ table = {} /\ missed = FALSE
  /\ polls = 0
  /\ kids = {} /\ kills = 0 /\ empties = 0 /\ lossy = 0
  /\ report = "none"

-----------------------------------------------------------------------------
(* The processes of the command. *)

\* Mutant: PR_SET_CHILD_SUBREAPER is set by reaper_main, after the fork.
LateSubreaper == IF ReaperUp /\ rpc # "boot" THEN Reaper ELSE Outer

Adopter == IF ReaperUp THEN Reaper ELSE Outer

ProcStep(p) ==
  /\ \/ Fork(p) \/ LeaveGroup(p) \/ Exit(p, Adopter) \/ WaitChild(p)
  /\ UNCHANGED reaperVars

-----------------------------------------------------------------------------
(* The reaper. *)

\* setpgid, reset_tracking, SIGTERM handler, stdio and fds: nothing another
\* process observes except that SIGTERM is no longer fatal.
Boot ==
  /\ rpc = "boot"
  /\ rpc' = "loop"
  /\ UNCHANGED <<procVars, stop, table, missed, polls, kids, kills, empties, lossy, report>>

\* Processes a walk from the command can reach.
underCmd[p \in Proc] == parent[p] = Cmd \/ (parent[p] \in Proc /\ underCmd[parent[p]])

\* remember_tree: every process it sees gets a row while there is room; one
\* that finds no row is a miss.  Rows are never given back.
RememberTree ==
  \E seen \in SUBSET {p \in Proc : Present(p) /\ underCmd[p]} :
    IF Cardinality(table \union seen) <= MaxPids
    THEN table' = table \union seen /\ UNCHANGED missed
    ELSE /\ \E kept \in SUBSET (seen \ table) :
              /\ Cardinality(table \union kept) = MaxPids
              /\ table' = table \union kept
         /\ missed' = TRUE

\* Loop head without a stop request.
Walk ==
  /\ rpc = "loop" /\ ~ stop
  /\ RememberTree
  /\ rpc' = "wait"
  /\ UNCHANGED <<procVars, stop, polls, kids, kills, empties, lossy, report>>

\* Mutant: the loop goes on after it has collected the command.
ForgetFinish ==
  /\ rpc = "wait"
  /\ rpc' = "loop"
  /\ state' = IF Alive(Cmd) THEN state ELSE Collected(state, {Cmd})
  /\ UNCHANGED <<born, parent, ingroup, stop, table, missed, polls, kids, kills, empties, lossy, report>>

\* waitpid(cmd, WNOHANG) collects the command (finish), finds it already
\* collected (ECHILD, which is the same cleanup), or goes round again.
WaitCmd ==
  /\ rpc = "wait"
  /\ IF Alive(Cmd)
     THEN rpc' = "loop" /\ UNCHANGED state
     ELSE rpc' = "list" /\ state' = Collected(state, {Cmd})
  /\ UNCHANGED <<born, parent, ingroup, stop, table, missed, polls, kids, kills, empties, lossy, report>>

\* Loop head with a stop request: stop_for_signal kills the command.
BeginStop ==
  /\ rpc = "loop" /\ stop
  /\ RememberTree
  /\ state' = Killed(state, {Cmd})
  /\ rpc' = "stopwait"
  /\ UNCHANGED <<born, parent, ingroup, stop, polls, kids, kills, empties, lossy, report>>

\* One pass of the wait in stop_for_signal.  ECHILD does not end it early.
StopWait ==
  /\ rpc = "stopwait"
  /\ \/ /\ polls < StopPolls /\ state[Cmd] = "zombie"
        /\ state' = Collected(state, {Cmd})
        /\ rpc' = "list"
        /\ UNCHANGED <<polls, table, missed>>
     \/ /\ polls < StopPolls /\ state[Cmd] # "zombie"
        /\ RememberTree
        /\ polls' = polls + 1
        /\ UNCHANGED <<state, rpc>>
     \/ /\ polls = StopPolls
        /\ rpc' = "list"
        /\ UNCHANGED <<state, polls, table, missed>>
  /\ UNCHANGED <<born, parent, ingroup, stop, kids, kills, empties, lossy, report>>

\* Mutant: the first empty read ends the loop.
BelieveFirstEmpty ==
  /\ rpc = "list" /\ kills < KillRounds
  /\ Children(Reaper) # {} => lossy < MaxLossy
  /\ lossy' = IF Children(Reaper) = {} THEN lossy ELSE lossy + 1
  /\ rpc' = "exiting"
  /\ UNCHANGED <<procVars, stop, table, missed, polls, kids, kills, empties, report>>

\* The read at the top of kill_adopted's loop.
ListEmpty ==
  /\ rpc = "list" /\ kills < KillRounds
  /\ Children(Reaper) # {} => lossy < MaxLossy
  /\ lossy' = IF Children(Reaper) = {} THEN lossy ELSE lossy + 1
  /\ IF empties < EmptyPolls
     THEN empties' = empties + 1 /\ UNCHANGED rpc
     ELSE rpc' = "exiting" /\ UNCHANGED empties
  /\ UNCHANGED <<procVars, stop, table, missed, polls, kids, kills, report>>

ListKids ==
  /\ rpc = "list" /\ kills < KillRounds
  /\ PromptDeath => \A p \in Children(Reaper) : state[p] # "killed"
  /\ kids' \in SUBSET Children(Reaper) \ {{}}
  /\ missed' = (missed \/ Cardinality(kids') > MaxPids)
  /\ empties' = 0
  /\ kills' = kills + 1
  /\ rpc' = "kill"
  /\ UNCHANGED <<procVars, stop, table, polls, lossy, report>>

\* The loop runs out of rounds: kill_adopted returns and records nothing.
RoundsSpent ==
  /\ rpc = "list" /\ kills = KillRounds
  /\ rpc' = "exiting"
  /\ UNCHANGED <<procVars, stop, table, missed, polls, kids, kills, empties, lossy, report>>

KillKid(k) ==
  /\ rpc = "kill" /\ k \in kids
  /\ state' = Killed(state, {k})
  /\ kids' = kids \ {k}
  /\ UNCHANGED <<born, parent, ingroup, rpc, stop, table, missed, polls, kills, empties, lossy, report>>

\* Mutant: drain_zombies inside the loop over the list that was read.
DrainWhileSignalling ==
  /\ rpc = "kill"
  /\ state' = Collected(state, Zombies(Reaper))
  /\ rpc' = IF kids = {} THEN "list" ELSE rpc
  /\ UNCHANGED <<born, parent, ingroup, stop, table, missed, polls, kids, kills, empties, lossy, report>>

\* drain_zombies after the signals, then a scan interval.
Drain ==
  /\ rpc = "kill" /\ kids = {}
  /\ state' = Collected(state, Zombies(Reaper))
  /\ rpc' = "list"
  /\ UNCHANGED <<born, parent, ingroup, stop, table, missed, polls, kids, kills, empties, lossy, report>>

\* drain_zombies once more, then write_report.
WriteReport ==
  /\ rpc = "exiting" /\ report = "none"
  /\ state' = Collected(state, Zombies(Reaper))
  /\ report' = IF missed THEN "miss" ELSE "clean"
  /\ UNCHANGED <<born, parent, ingroup, rpc, stop, table, missed, polls, kids, kills, empties, lossy>>

\* _exit: whoever is still below the reaper goes to the outer init.
ReaperExit ==
  /\ rpc = "exiting" /\ report # "none"
  /\ rpc' = "exited"
  /\ HandOver(state, Reaper, Outer)
  /\ UNCHANGED <<born, ingroup, stop, table, missed, polls, kids, kills, empties, lossy, report>>

ReaperStep ==
  \/ Boot \/ Walk \/ WaitCmd \/ BeginStop \/ StopWait
  \/ ListEmpty \/ ListKids \/ RoundsSpent
  \/ \E k \in Proc : KillKid(k)
  \/ Drain \/ WriteReport \/ ReaperExit

-----------------------------------------------------------------------------
(* Signals to the reaper, from the host or from anyone else. *)

\* The process is gone without a word on the report pipe.
Die ==
  /\ rpc' = "dead"
  /\ HandOver(state, Reaper, Outer)
  /\ UNCHANGED <<born, ingroup, stop, table, missed, polls, kids, kills, empties, lossy, report>>

\* SIGTERM is fatal until the handler is installed.
Sigterm ==
  \/ rpc = "boot" /\ Die
  \/ /\ ReaperUp /\ rpc # "boot"
     /\ stop' = TRUE
     /\ UNCHANGED <<procVars, rpc, table, missed, polls, kids, kills, empties, lossy, report>>

Sigkill == ReaperUp /\ Die

\* SIGKILL to every member of the reaper's group that can still be reached.
GroupKill ==
  /\ state' = Killed(state, ingroup)
  /\ UNCHANGED <<born, parent, ingroup, reaperVars>>

Next ==
  \/ \E p \in Proc : ProcStep(p)
  \/ ReaperStep
  \/ Sigterm
  \/ Sigkill
  \/ GroupKill

Spec == Init /\ [][Next]_vars

-----------------------------------------------------------------------------
(* Correctness. *)

\* A clean report that was not the result of running out of kill rounds means
\* that the whole tree has ended, whatever the processes did meanwhile and
\* however long a killed one took to die.  (kill_adopted, write_report)
CleanReportMeansEnded ==
  (report = "clean" /\ kills < KillRounds) => TreeEnded

\* Every SIGKILL the reaper has still to send names a process that it has not
\* waited for, so the pid cannot have been given to a stranger: the children
\* of the last read, and the command until it is collected.  (kill_adopted,
\* stop_for_signal)
SignalsOnlyItsOwn ==
  ~ AutoReap =>
    /\ rpc = "kill" => kids \subseteq Children(Reaper)
    /\ rpc \in {"boot", "loop", "wait"} => Cmd \in Children(Reaper)

\* Nobody escapes adoption: while the reaper is up every process of the tree
\* has a parent that is the reaper or a process still present, and once it is
\* gone none is left behind with a dead parent.  (supervise_or_continue)
NobodyEscapes ==
  \A p \in Proc : Alive(p) =>
    \/ parent[p] = Adopter
    \/ parent[p] \in Proc /\ Alive(parent[p])
=============================================================================
