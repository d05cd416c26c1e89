------------------------------ MODULE RunChild ------------------------------
(***************************************************************************)
(* The host side of one jailed run on Linux: reap_process_group and        *)
(* finish_reap of wrap/mod.rs, composed with the reaper of LinuxReaper.    *)
(* The child the host spawned is the reaper; its process group holds the   *)
(* command and whatever did not call setsid.                               *)
(*                                                                         *)
(* Simplifications: a clock is a flag that may become true once            *)
(* (`expired`: the caller's timeout, `graceOver`: the 300 ms after         *)
(* SIGTERM); the host does not crash.                                      *)
(***************************************************************************)
EXTENDS LinuxReaper

CONSTANT
  HasTimeout   \* TRUE for the run_child_timeout family, FALSE for run_child

ASSUME RunAssumption == HasTimeout \in BOOLEAN

VARIABLES
  hpc,        \* spawn, poll, grace, killpg, reap, returned
  expired,    \* the caller's deadline has passed
  graceOver,  \* 300 ms have passed since SIGTERM
  timedOut,   \* the flag finish_reap is called with
  refused,    \* timeout_deadline failed: the timeout does not fit on the clock
  answer      \* what run_child returned

hostVars == <<hpc, expired, graceOver, timedOut, refused, answer>>
rvars == <<vars, hostVars>>

RTypeOK ==
  /\ TypeOK
  /\ hpc \in {"spawn", "poll", "grace", "killpg", "reap", "returned"}
  /\ expired \in BOOLEAN /\ graceOver \in BOOLEAN /\ timedOut \in BOOLEAN
  /\ refused \in BOOLEAN
  /\ answer \in {"none", "ok", "timeout", "descendants", "apply"}

RInit ==
  /\ Init
  /\ hpc = "spawn"
  /\ expired = FALSE /\ graceOver = FALSE /\ timedOut = FALSE /\ refused = FALSE
  /\ answer = "none"

\* waitid(P_PID, WEXITED | WNOWAIT | WNOHANG) answers for the reaper.  When
\* the host ignores SIGCHLD the reaper never becomes a zombie and it fails.
ZombieSeen == ~ ReaperUp /\ ~ AutoReap

\* Command::spawn reads its error pipe to the end, so it returns after the
\* reaper has closed every inherited descriptor, handler already installed.
SpawnReturns ==
  /\ hpc = "spawn" /\ rpc # "boot"
  /\ hpc' = "poll"
  /\ UNCHANGED <<vars, expired, graceOver, timedOut, refused, answer>>

Expire ==
  /\ HasTimeout /\ ~ expired /\ hpc = "poll"
  /\ expired' = TRUE
  /\ UNCHANGED <<vars, hpc, graceOver, timedOut, refused, answer>>

GraceEnds ==
  /\ hpc = "grace" /\ ~ graceOver
  /\ graceOver' = TRUE
  /\ UNCHANGED <<vars, hpc, expired, timedOut, refused, answer>>

\* Mutant: the zombie is reaped without the killpg before it.
ReapWithoutKillpg ==
  /\ hpc \in {"poll", "grace"}
  /\ ZombieSeen
  /\ timedOut' = (hpc = "grace")
  /\ hpc' = "reap"
  /\ UNCHANGED <<vars, expired, graceOver, refused, answer>>

\* kill_group_if_zombie in either loop, then on to wait_reaped.
SeeZombie ==
  /\ hpc \in {"poll", "grace"}
  /\ ZombieSeen
  /\ GroupKill
  /\ timedOut' = (hpc = "grace")
  /\ hpc' = "reap"
  /\ UNCHANGED <<expired, graceOver, refused, answer>>

\* Mutant: past the deadline the host waits for the reaper without a signal.
WaitUnsignalled ==
  /\ hpc = "poll" /\ expired /\ ~ ZombieSeen
  /\ hpc' = "reap"
  /\ UNCHANGED <<vars, expired, graceOver, timedOut, refused, answer>>

\* The deadline has passed: SIGTERM asks the reaper to clean up.  A reaper
\* that already ended does not notice.
AskReaper ==
  /\ hpc = "poll" /\ expired /\ ~ ZombieSeen
  /\ Sigterm \/ (~ ReaperUp /\ UNCHANGED vars)
  /\ hpc' = "grace"
  /\ UNCHANGED <<expired, graceOver, timedOut, refused, answer>>

\* The grace is over: SIGKILL to the reaper, then to the group it leads.
KillReaper ==
  /\ hpc = "grace" /\ graceOver /\ ~ ZombieSeen
  /\ Sigkill \/ (~ ReaperUp /\ UNCHANGED vars)
  /\ hpc' = "killpg"
  /\ UNCHANGED <<expired, graceOver, timedOut, refused, answer>>

\* The deadline cannot be computed: SIGKILL at once, no grace, no loop.
RefuseTimeout ==
  /\ HasTimeout /\ hpc = "poll" /\ ~ expired
  /\ Sigkill \/ (~ ReaperUp /\ UNCHANGED vars)
  /\ refused' = TRUE
  /\ hpc' = "killpg"
  /\ UNCHANGED <<expired, graceOver, timedOut, answer>>

\* is_group_leader fails only for a pid that was collected behind our back.
KillItsGroup ==
  /\ hpc = "killpg"
  /\ GroupKill \/ (AutoReap /\ UNCHANGED vars)
  /\ timedOut' = expired
  /\ hpc' = "reap"
  /\ UNCHANGED <<expired, graceOver, refused, answer>>

\* Mutant: a report byte that was never written counts as clean.
UnreadIsClean ==
  /\ hpc = "reap" /\ ~ ReaperUp
  /\ answer' = IF AutoReap \/ refused THEN "apply"
               ELSE IF timedOut THEN "timeout"
               ELSE IF report = "miss" THEN "descendants" ELSE "ok"
  /\ hpc' = "returned"
  /\ UNCHANGED <<vars, expired, graceOver, timedOut, refused>>

\* wait_reaped, then finish_reap: take_report ignores the byte after a
\* timeout, and otherwise an unread or non-zero byte is Descendants.
FinishReap ==
  /\ hpc = "reap" /\ ~ ReaperUp
  /\ answer' = IF AutoReap \/ refused THEN "apply"
               ELSE IF timedOut THEN "timeout"
               ELSE IF report = "clean" THEN "ok" ELSE "descendants"
  /\ hpc' = "returned"
  /\ UNCHANGED <<vars, expired, graceOver, timedOut, refused>>

HostStep == SpawnReturns \/ SeeZombie \/ AskReaper \/ KillReaper \/ RefuseTimeout \/ KillItsGroup \/ FinishReap

RNext ==
  \/ HostStep
  \/ Expire
  \/ GraceEnds
  \/ Next /\ UNCHANGED hostVars

RSpec == RInit /\ [][RNext]_rvars

\* The kernel runs every runnable process and delivers a pending SIGKILL; the
\* 300 ms pass.  Nothing makes the command's own processes end, nor a deadline
\* come or be refused.
Fairness ==
  /\ WF_rvars(ReaperStep /\ UNCHANGED hostVars)
  /\ WF_rvars(HostStep /\ UNCHANGED refused)
  /\ WF_rvars(GraceEnds)
  /\ \A p \in Proc : WF_rvars(state[p] = "killed" /\ Exit(p, Adopter) /\ UNCHANGED <<reaperVars, hostVars>>)

FairSpec == RSpec /\ Fairness

-----------------------------------------------------------------------------
(* Correctness. *)

\* run_child answers with the command's status only when no process of the
\* tree is left, unless kill_adopted ran out of rounds.  A reaper that died
\* without writing its byte never yields that answer.  (finish_reap)
OkMeansEnded == (answer = "ok" /\ kills < KillRounds) => TreeEnded

\* Whatever way the run ended, a process that stayed in the reaper's group no
\* longer runs when the call returns: killpg reaches it after a normal exit,
\* a timeout, or the death of the reaper.  (kill_group_if_zombie)
GroupIsStopped ==
  (answer \in {"ok", "timeout", "descendants"}) => \A p \in ingroup : state[p] # "running"

\* The call returns once its deadline has passed, even though the command
\* and its descendants never end by themselves.
TimeoutReturns == [](expired => <>(hpc = "returned"))

\* Whether or not a deadline ever comes, the call returns once the command has
\* ended, however many descendants it leaves.
ReturnsAfterExit == [](~ Alive(Cmd) => <>(hpc = "returned"))

\* The run as its caller may think of it.  An "ok" that comes from a reaper
\* that had run out of kill rounds is counted as "descendants", the answer
\* the missed flag would have given: RunClaims!SuccessMeansEnded is about it.
Living == {p \in Proc : Alive(p)}
Told == IF answer = "ok" /\ kills = KillRounds THEN "descendants" ELSE answer
Contract == INSTANCE RunContract
              WITH Process <- Proc, live <- Living, answer <- Told
ImplementsContract == Contract!Spec
=============================================================================
