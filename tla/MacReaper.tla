----------------------------- MODULE MacReaper -----------------------------
(***************************************************************************)
(* The macOS reaper of wrap/reaper.rs: it stops the command before its     *)
(* exec until a fork watch is armed, continues it, awaits its handshake,   *)
(* records the descendants it is notified of or finds by walking, kills    *)
(* those it recorded, and reports one byte.                                *)
(*                                                                         *)
(* Simplifications:                                                        *)
(* - a look at a process and the signal that follows from it are one step, *)
(*   except where the command may exec in between (kill_preexec): a pid    *)
(*   that becomes a stranger's between the two, in kill_row, is left out;  *)
(* - a fork note and what on_fork does with it are one step: whether a     *)
(*   parent that just ended ended before the note is read is a choice;     *)
(* - a child list shorter than LIST_MAX is complete, on_fork's rereads     *)
(*   included; launchd's may be late, MaxLies times;                       *)
(* - SEEN holds recorded parents, so it is full only after TABLE is, and   *)
(*   OVERFLOW is never full;                                               *)
(* - the clock can be read; SIGCHLD is not ignored; a script's name is its *)
(*   interpreter's; every process of the run has the caller's uid;         *)
(* - one Ctrl-Z or fg comes before the exec, and none after it.            *)
(***************************************************************************)
EXTENDS MacProcs

CONSTANTS
  MaxPids,   \* MAX_PIDS: rows of TABLE
  Polls,     \* 4: launchd lists read for the report
  MaxLies    \* bound: launchd lists that come late

ASSUME MacAssumption == MaxPids \in Nat /\ Polls \in Nat /\ MaxLies \in Nat

VARIABLES
  limit,    \* SPAWN_DEADLINE_NS: none, ahead, past
  bound,    \* PREEXEC_STOP_BOUND_NS has passed in this wait
  rpc,      \* where the reaper is
  mode,     \* run; stop, stopping: stop_for_signal; finish
  kq,       \* the watch is armed
  open,     \* the reaper holds spawn's error pipe
  seen,     \* the stop was observed
  stop,     \* STOP
  killed, hit,   \* PREEXEC_KILLED, SPAWN_DEADLINE_HIT
  missed,   \* MISSED
  rows,     \* recorded with a start time
  bare,     \* recorded without
  todo,     \* remember_tree: listed, not noted yet
  ident,    \* IDENT: whose start time, and which name, none until ready
  polls, lies,   \* lists read for the report, those that came late
  early,    \* leaders that were launchd's when the report began
  report    \* the byte: none, clean (0), miss (1), deadline (2)

clock    == <<limit, bound>>
flags    == <<killed, hit, stop>>
record   == <<rows, bare, missed>>
closing  == <<polls, lies, early, report>>
reaperVars == <<clock, rpc, mode, kq, open, seen, flags, record, todo, ident, closing>>
vars     == <<procVars, reaperVars>>

Shots == {"shoot_at_the_stop", "shoot_at_the_handshake", "shoot_in_the_loop"}

TypeOK ==
  /\ ProcTypeOK
  /\ limit \in {"none", "ahead", "past"} /\ bound \in BOOLEAN
  /\ rpc \in Shots \union {"await_stop", "close_fds", "resume", "handshake", "identify", "drain",
       "list", "walk", "tend", "wait", "kill", "await_end", "adopted", "settle", "scan", "write", "over"}
  /\ mode \in {"run", "stop", "stopping", "finish"}
  /\ kq \in BOOLEAN /\ open \in BOOLEAN /\ seen \in BOOLEAN /\ stop \in BOOLEAN
  /\ killed \in BOOLEAN /\ hit \in BOOLEAN /\ missed \in BOOLEAN
  /\ rows \subseteq Proc /\ bare \subseteq Proc /\ todo \subseteq Proc /\ early \subseteq Proc
  /\ ident \in [start : {0} \union Proc, name : {"none", "cmd", "other"}]
  /\ polls \in Nat /\ lies \in 0 .. MaxLies
  /\ report \in {"none", "clean", "miss", "deadline"}

Init ==
  /\ ProcInit
  /\ limit \in {"none", "ahead"} /\ bound = FALSE
  /\ rpc = "await_stop" /\ mode = "run" /\ kq = FALSE /\ open = TRUE /\ seen = FALSE
  /\ stop = FALSE /\ killed = FALSE /\ hit = FALSE /\ missed = FALSE
  /\ rows = {} /\ bare = {} /\ todo = {}
  /\ ident = [start |-> 0, name |-> "none"]
  /\ polls = 0 /\ lies = 0 /\ early = {} /\ report = "none"

Goto(there) == rpc' = there
NoSignal == UNCHANGED <<state, at>>
KernelKeeps == UNCHANGED <<born, parent, leads, image, tty, events, reused>>

\* bsdinfo of the command: readable; before its exec and stopped.
Readable == Living(Cmd)
Stopped == state[Cmd] = "stopped" /\ at # "exec"
Executed == Readable /\ at = "exec"
due == limit = "past"
BoundHit == due \/ (limit = "none" /\ bound)
\* The byte, or the end of the pipe.
TokenThere == at \in {"hooks", "exec"} \/ state[Cmd] \in {"zombie", "gone"}

-----------------------------------------------------------------------------
(* The start: watch_command_macos, wait_until_stopped, await_handshake. *)

\* The watch is armed, or not: then the run counts as missed.
ArmAtStop ==
  \E armed \in BOOLEAN :
    /\ kq' = armed /\ missed' = (missed \/ ~ armed)
    /\ watched' = IF armed THEN watched \union {Cmd} ELSE watched
    /\ seen' = TRUE /\ killed' = killed /\ hit' = hit /\ NoSignal

KillPreexec ==
  /\ Sigkill({Cmd}) /\ at' = at
  /\ killed' = TRUE /\ hit' = (hit \/ due)

SeesStop ==
  /\ rpc = "await_stop" /\ ~ stop /\ state[Cmd] = "stopped"
  /\ \/ due /\ KillPreexec /\ UNCHANGED <<kq, missed, watched, seen>>
     \/ ~ due /\ ArmAtStop
  /\ Goto("close_fds")
  /\ KernelKeeps
  /\ UNCHANGED <<clock, mode, open, stop, rows, bare, todo, ident, closing>>

\* The command ended instead: finish, without a watch.
SeesEnd ==
  /\ rpc = "await_stop" /\ ~ stop /\ state[Cmd] = "zombie"
  /\ state' = [state EXCEPT ![Cmd] = "gone"]
  /\ mode' = "finish" /\ Goto("drain")
  /\ UNCHANGED <<at, watched, clock, kq, open, seen, flags, record, todo, ident, closing>>
  /\ KernelKeeps

\* The bound of the wait, where the stop did not show.
StopBound ==
  /\ rpc = "await_stop" /\ ~ stop /\ BoundHit /\ state[Cmd] # "zombie"
  /\ IF Executed THEN missed' = TRUE /\ NoSignal /\ Goto("close_fds") /\ UNCHANGED <<kq, watched, seen, killed, hit>>
     ELSE IF Stopped /\ ~ due THEN ArmAtStop /\ Goto("close_fds")
     ELSE Goto("shoot_at_the_stop") /\ NoSignal /\ UNCHANGED <<kq, watched, seen, killed, hit, missed>>
  /\ KernelKeeps
  /\ UNCHANGED <<clock, mode, open, stop, rows, bare, todo, ident, closing>>

\* SIGTERM came first.
StopsWaiting ==
  /\ rpc = "await_stop" /\ stop
  /\ missed' = TRUE /\ mode' = "stop" /\ Goto("drain")
  /\ UNCHANGED <<procVars, clock, kq, open, seen, flags, rows, bare, todo, ident, closing>>

\* kill_preexec, after its look; SIGTERM counts at once where the stop was awaited.
Shoot ==
  /\ rpc \in Shots
  /\ KillPreexec
  /\ LET stopped == rpc = "shoot_at_the_stop" /\ stop
     IN /\ mode' = IF stopped THEN "stop" ELSE mode
        /\ Goto(CASE rpc = "shoot_in_the_loop" -> "tend"
                  [] rpc = "shoot_at_the_stop" /\ ~ stop -> "close_fds"
                  [] OTHER -> "drain")
  /\ KernelKeeps
  /\ UNCHANGED <<watched, clock, kq, open, seen, stop, record, todo, ident, closing>>

\* close_extra_fds
CloseFds ==
  /\ rpc = "close_fds"
  /\ open' = FALSE /\ Goto("resume")
  /\ UNCHANGED <<procVars, clock, mode, kq, seen, flags, record, todo, ident, closing>>

\* Mutant: the deadline is not looked at after the walk over the fds.
ResumeLate ==
  /\ rpc = "resume"
  /\ ident' = IF seen /\ Readable THEN [ident EXCEPT !.start = Cmd] ELSE ident
  /\ IF seen THEN Continue ELSE UNCHANGED <<state, at>>
  /\ Goto(IF killed THEN "drain" ELSE "handshake")
  /\ bound' = FALSE
  /\ KernelKeeps
  /\ UNCHANGED <<killed, hit, watched, limit, mode, kq, open, seen, stop, record, todo, closing>>

\* capture_command_start, then SIGCONT unless the deadline has passed.
Resume ==
  /\ rpc = "resume"
  /\ ident' = IF seen /\ Readable THEN [ident EXCEPT !.start = Cmd] ELSE ident
  /\ IF ~ seen THEN NoSignal /\ UNCHANGED <<killed, hit>>
     ELSE IF due THEN KillPreexec
     ELSE Continue /\ UNCHANGED <<killed, hit>>
  /\ Goto(IF killed' THEN "drain" ELSE "handshake")
  /\ bound' = FALSE
  /\ KernelKeeps
  /\ UNCHANGED <<watched, limit, mode, kq, open, seen, stop, record, todo, closing>>

Handshake ==
  /\ rpc = "handshake"
  /\ \/ (stop \/ TokenThere) /\ Goto("identify") /\ NoSignal
     \/ /\ ~ stop /\ ~ TokenThere /\ BoundHit /\ NoSignal
        /\ Goto(IF Executed THEN "identify" ELSE "shoot_at_the_handshake")
     \/ /\ ~ stop /\ ~ TokenThere /\ ~ BoundHit /\ Stopped
        /\ Continue /\ UNCHANGED rpc
  /\ KernelKeeps
  /\ UNCHANGED <<watched, clock, mode, kq, open, seen, flags, record, todo, ident, closing>>

-----------------------------------------------------------------------------
(* What the reaper remembers: remember_identity, note_pid, on_fork. *)

\* remember_identity: the first name that is not the reaper's own.
Learn(i, p) ==
  IF i.name # "none" \/ ~ Living(p) \/ image[p] = "own" THEN i
  ELSE [start |-> p, name |-> image[p]]

\* seal_expected_comm
Seal(i) == IF i.name = "none" /\ i.start # 0 THEN [i EXCEPT !.name = "cmd"] ELSE i

\* note_pid for the processes of S, in any order.
Note(S) ==
  LET new  == S \ (rows \union bare)
      free == MaxPids - Cardinality(rows \union bare)
  IN \E fit \in SUBSET new :
       /\ Cardinality(fit) = IF Cardinality(new) <= free THEN Cardinality(new) ELSE IF free > 0 THEN free ELSE 0
       /\ rows' = rows \union {p \in new : Living(p)}
       /\ bare' = bare \union {p \in new : ~ Living(p)}
       /\ watched' = IF kq THEN watched \union {p \in fit : Living(p)} ELSE watched
       /\ missed' = (missed \/ fit # new \/ (fit # {} /\ ~ kq))

\* untracked_same_name: a leader that launchd has, with the name and born
\* with the command or after it, that is not recorded.
Untracked(i, known) ==
  {p \in known \ (rows \union bare) :
     /\ p # Cmd /\ Living(p) /\ parent[p] = Launchd /\ p \in leads
     /\ i.name # "none" /\ i.start # 0 /\ image[p] = i.name /\ p >= i.start}

\* A fork note of p: its children are recorded; an orphan of a p that has
\* ended is looked for among launchd's. A zombie counts as there unless the
\* note says that it ended (also_exit).
OnFork(p, exited) ==
  LET asked == Learn(Learn(ident, p), Cmd)
      kids  == Children(p)
  IN \/ /\ kids # {}
        /\ Note(kids) /\ ident' = asked
     \/ /\ kids = {} /\ ~ exited /\ state[p] # "gone"
        /\ ident' = asked /\ UNCHANGED <<record, watched>>
     \/ /\ kids = {} /\ (exited \/ state[p] = "gone")
        /\ ident' = Seal(asked)
        /\ missed' = (missed \/ Untracked(ident', Proc \ {p}) # {})
        /\ UNCHANGED <<rows, bare, watched>>

\* next_event
TakeEvent ==
  /\ rpc \in {"identify", "drain"} /\ events # <<>>
  /\ events' = Tail(events)
  /\ \E exited \in BOOLEAN :
       /\ exited => ~ Living(Head(events))
       /\ OnFork(Head(events), exited)
  /\ UNCHANGED <<born, state, parent, leads, image, at, tty, reused>>
  /\ UNCHANGED <<clock, rpc, mode, kq, open, seen, flags, todo, closing>>

\* One poll of cache_command_identity; the polls run out at any time.
Identify ==
  /\ rpc = "identify" /\ events = <<>>
  /\ ident' = Learn(ident, Cmd)
  /\ IF Stopped THEN Continue ELSE NoSignal
  /\ Goto("drain")
  /\ KernelKeeps
  /\ UNCHANGED <<watched, clock, mode, kq, open, seen, flags, record, todo, closing>>

-----------------------------------------------------------------------------
(* The loop of reaper_main, and stop_for_signal. *)

\* SIGTERM is seen at the top of the loop.
StopSeen ==
  /\ rpc = "drain" /\ mode = "run" /\ stop
  /\ mode' = "stop"
  /\ UNCHANGED <<procVars, clock, rpc, kq, open, seen, flags, record, todo, ident, closing>>

Drained ==
  /\ rpc = "drain" /\ events = <<>> /\ (mode = "run" => ~ stop)
  /\ Goto("list")
  /\ UNCHANGED <<procVars, clock, mode, kq, open, seen, flags, record, todo, ident, closing>>

\* remember_tree: the children of the command, then below them.
List ==
  /\ rpc = "list"
  /\ todo' = Children(Cmd) /\ Goto("walk")
  /\ UNCHANGED <<procVars, clock, mode, kq, open, seen, flags, record, ident, closing>>

Walk ==
  /\ rpc = "walk"
  /\ \E p \in todo : Note({p}) /\ todo' = (todo \ {p}) \union Children(p)
  /\ UNCHANGED <<state, at, clock, rpc, mode, kq, open, seen, flags, ident, closing>>
  /\ KernelKeeps

Walked ==
  /\ rpc = "walk" /\ todo = {}
  /\ Goto(CASE mode = "run" -> "tend" [] mode = "stopping" -> "await_end" [] OTHER -> "kill")
  /\ UNCHANGED <<procVars, clock, mode, kq, open, seen, flags, record, todo, ident, closing>>

\* Mutant: a command that is stopped after its handshake stays stopped.
TendDeadline ==
  /\ rpc = "tend"
  /\ IF due /\ ~ killed /\ Readable /\ at # "exec"
     THEN Goto("shoot_in_the_loop") /\ ident' = ident
     ELSE ident' = Learn(ident, Cmd) /\ Goto("wait")
  /\ NoSignal
  /\ KernelKeeps
  /\ UNCHANGED <<watched, clock, mode, kq, open, seen, flags, record, todo, closing>>

\* enforce_user_deadline, continue_stopped_preexec, remember_identity.
Tend ==
  /\ rpc = "tend"
  /\ IF due /\ ~ killed /\ Readable /\ at # "exec"
     THEN Goto("shoot_in_the_loop") /\ NoSignal /\ ident' = ident
     ELSE /\ ident' = Learn(ident, Cmd) /\ Goto("wait")
          /\ IF Stopped THEN Continue ELSE NoSignal
  /\ KernelKeeps
  /\ UNCHANGED <<watched, clock, mode, kq, open, seen, flags, record, todo, closing>>

\* waitpid, then block_until_scan.
Wait ==
  /\ rpc = "wait"
  /\ IF state[Cmd] = "zombie"
     THEN state' = [state EXCEPT ![Cmd] = "gone"] /\ mode' = "finish"
     ELSE UNCHANGED <<state, mode>>
  /\ Goto("drain")
  /\ KernelKeeps
  /\ UNCHANGED <<at, watched, clock, kq, open, seen, flags, record, todo, ident, closing>>

\* A row whose pid is the process that was recorded, by its start time.
Same(p) == p \notin reused

\* kill_recorded.  A row without a start time is killed as a child of the
\* reaper or the command only; here its process had ended when it was recorded.
KillRecorded ==
  /\ rpc = "kill"
  /\ Sigkill({p \in rows : Same(p)} \union IF mode = "stop" THEN {Cmd} ELSE {})
  /\ IF mode = "stop" THEN mode' = "stopping" /\ Goto("await_end")
                      ELSE mode' = mode /\ Goto("adopted")
  /\ KernelKeeps
  /\ UNCHANGED <<at, watched, clock, kq, open, seen, flags, record, todo, ident, closing>>

\* stop_for_signal waits twenty rounds for the command at most.
AwaitEnd ==
  /\ rpc = "await_end"
  /\ IF state[Cmd] = "zombie"
     THEN state' = [state EXCEPT ![Cmd] = "gone"] /\ Goto("adopted")
     ELSE state' = state /\ rpc' \in {"drain", "adopted"}
  /\ KernelKeeps
  /\ UNCHANGED <<at, watched, clock, mode, kq, open, seen, flags, record, todo, ident, closing>>

-----------------------------------------------------------------------------
(* The end: kill_adopted, drain_zombies, write_report. *)

\* kill_adopted, whose one child can be the command (thirty-two rounds at most),
\* and the signals that settle_recorded sends before it waits.
Adopted ==
  /\ rpc = "adopted"
  /\ IF state[Cmd] = "zombie" THEN state' = [state EXCEPT ![Cmd] = "gone"] /\ UNCHANGED rpc
     ELSE /\ Sigkill({Cmd} \union {p \in rows : Same(p)})
          /\ Goto("settle")
  /\ KernelKeeps
  /\ UNCHANGED <<at, watched, clock, mode, kq, open, seen, flags, record, todo, ident, closing>>

\* row_pending: the pid answers, and is not known to be another's.
Pending == {p \in rows : (Living(p) \/ state[p] = "zombie") /\ Same(p)}

\* Mutant: a recorded process that still dies does not count.
SettleBlindly ==
  /\ rpc = "settle"
  /\ missed' = (missed \/ bare \intersect reused # {})
  /\ early' = {p \in leads : Living(p) /\ parent[p] = Launchd}
  /\ Goto("scan")
  /\ UNCHANGED <<procVars, clock, mode, kq, open, seen, flags, rows, bare, todo, ident, polls, lies, report>>

\* What settle_recorded still finds after its wait, and recorded_left_running:
\* a pid without a start time that somebody uses.
Settle ==
  /\ rpc = "settle"
  /\ missed' = (missed \/ Pending # {} \/ bare \intersect reused # {})
  /\ early' = {p \in leads : Living(p) /\ parent[p] = Launchd}
  /\ Goto("scan")
  /\ UNCHANGED <<procVars, clock, mode, kq, open, seen, flags, rows, bare, todo, ident, polls, lies, report>>

\* Mutant: one list of launchd's is taken for the truth.
ScanOnce ==
  /\ rpc = "scan"
  /\ ident' = Seal(Learn(ident, Cmd))
  /\ polls' = polls + 1
  /\ \E late \in BOOLEAN :
       /\ late => lies < MaxLies
       /\ lies' = IF late THEN lies + 1 ELSE lies
       /\ missed' = (missed \/ (~ late /\ Untracked(ident', Proc) # {}))
  /\ Goto("write")
  /\ UNCHANGED <<procVars, clock, mode, kq, open, seen, flags, rows, bare, todo, early, report>>

\* untracked_same_name(0), up to four times.
Scan ==
  /\ rpc = "scan"
  /\ ident' = Seal(Learn(ident, Cmd))
  /\ polls' = polls + 1
  /\ \E late \in BOOLEAN :
       /\ late => lies < MaxLies
       /\ lies' = IF late THEN lies + 1 ELSE lies
       /\ LET found == ~ late /\ Untracked(ident', Proc) # {}
          IN missed' = (missed \/ found) /\ Goto(IF found \/ polls' = Polls THEN "write" ELSE "scan")
  /\ UNCHANGED <<procVars, clock, mode, kq, open, seen, flags, rows, bare, todo, early, report>>

WriteReport ==
  /\ rpc = "write"
  /\ report' = IF hit THEN "deadline" ELSE IF missed THEN "miss" ELSE "clean"
  /\ open' = FALSE /\ Goto("over")
  /\ UNCHANGED <<procVars, clock, mode, kq, seen, flags, record, todo, ident, polls, lies, early>>

-----------------------------------------------------------------------------
(* The host and the rest of the world. *)

\* The deadline passes. The reaper asks for it before the command's exec, and
\* while it waits for a stop; after that it is the host's matter.
Deadline ==
  /\ limit = "ahead" /\ Readable /\ (at # "exec" \/ rpc = "await_stop")
  /\ limit' = "past"
  /\ UNCHANGED <<procVars, bound, rpc, mode, kq, open, seen, flags, record, todo, ident, closing>>

Bound ==
  /\ limit = "none" /\ ~ bound /\ rpc \in {"await_stop", "handshake"} /\ bound' = TRUE
  /\ UNCHANGED <<procVars, limit, rpc, mode, kq, open, seen, flags, record, todo, ident, closing>>

\* SIGTERM, from the host after its deadline or from anybody else before it.
Sigterm ==
  /\ ~ stop /\ rpc # "over" /\ stop' = TRUE
  /\ UNCHANGED <<procVars, clock, rpc, mode, kq, open, seen, killed, hit, record, todo, ident, closing>>

\* Ctrl-Z reaches the command, which is in the host's process group, and
\* not the reaper, which is not.
CtrlZ ==
  /\ tty /\ tty' = FALSE
  /\ state[Cmd] = "running" /\ state' = [state EXCEPT ![Cmd] = "stopped"]
  /\ UNCHANGED <<born, parent, leads, image, at, events, reused, watched, reaperVars>>

\* A shell's fg continues the command in its place, before the reaper looked.
Fg ==
  /\ tty /\ tty' = FALSE
  /\ rpc = "await_stop" /\ state[Cmd] = "stopped" /\ Continue
  /\ UNCHANGED <<born, parent, leads, image, events, reused, watched, reaperVars>>

Tree ==
  /\ TreeStep /\ \A p \in reused' \ reused : p \in (rows \union bare) \ todo
  /\ UNCHANGED reaperVars

ReaperStep ==
  \/ SeesStop \/ SeesEnd \/ StopBound \/ StopsWaiting \/ Shoot \/ CloseFds \/ Resume \/ Handshake
  \/ TakeEvent \/ Identify \/ StopSeen \/ Drained \/ List \/ Walk \/ Walked \/ Tend \/ Wait
  \/ KillRecorded \/ AwaitEnd \/ Adopted \/ Settle \/ Scan \/ WriteReport

Next == ReaperStep \/ Tree \/ Deadline \/ Bound \/ Sigterm \/ CtrlZ \/ Fg

\* The reaper runs, its clocks go on, and SIGKILL ends a process.  The command
\* does not have to reach its stop, the end of its hooks or its own end.
Fairness ==
  /\ WF_vars(ReaperStep) /\ WF_vars(Deadline) /\ WF_vars(Bound)
  /\ \A p \in Proc : WF_vars(state[p] = "killed" /\ Exit(p) /\ UNCHANGED reaperVars)

Spec == Init /\ [][Next]_vars /\ Fairness

-----------------------------------------------------------------------------
(* Properties. *)

\* A clean report is never given over a process that called setsid, was
\* launchd's before the report began, has the program's name and is recorded
\* nowhere: the name scan finds it although lists of launchd's are late. Unless
\* the name and the start time were taken from a descendant, as a fork note may.
\* (on_fork, write_report, untracked_same_name)
LeadersAreTold ==
  (report = "clean" /\ seen /\ ident.start \in {0, Cmd}) =>
    \A p \in early \ (rows \union bare) : ~ (Living(p) /\ image[p] = "cmd")

\* With a clean report every process that was recorded alive has ended and
\* been waited for. (settle_recorded, wait_matching_rows)
RecordedAreGone == report = "clean" => \A p \in rows : state[p] = "gone"

\* The reaper never lets a command go from its stop once the deadline has
\* passed: its hooks would start after the host gave up.
\* (reaper_main after close_extra_fds, await_handshake)
NeverStartsLate ==
  [][(ReaperStep /\ at = "halted" /\ at' = "token") => (~ due \/ stop)]_vars

\* Nobody waits for ever: in the end the reaper is over, or spawn is back and
\* the command runs its program or, without a deadline, its hooks.
\* (wait_until_stopped, await_handshake, enforce_user_deadline,
\* continue_stopped_preexec, stop_for_signal)
NobodyWaitsForever ==
  <>[](\/ rpc = "over"
       \/ /\ ~ stop /\ ~ open /\ state[Cmd] = "running"
          /\ at = "exec" \/ (at = "hooks" /\ limit = "none"))

=============================================================================
