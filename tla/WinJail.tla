------------------------------ MODULE WinJail ------------------------------
(***************************************************************************)
(* One run in the Windows jail (wrap/windows.rs, wrap/windows_net.rs): the *)
(* access lists are edited, the token and the job are made, the command is *)
(* started suspended, confined, resumed and waited for, its output is      *)
(* drained or copied by threads, and the access lists are put back.        *)
(*                                                                         *)
(* Beside the host stand the command and one descendant of it, both in the *)
(* job, the copy threads and the clock.  Every call into Windows that the  *)
(* code checks may fail here.                                              *)
(***************************************************************************)
EXTENDS AclGuards

CONSTANTS
  Stream,       \* the two output streams of the command
  Original,     \* [Object -> SUBSET Ace], the access lists before the run
  RestoreFails  \* the greatest number of restores that fail

ASSUME WinAssumption == Original \in [Object -> SUBSET Ace] /\ RestoreFails \in Nat

VARIABLES
  mode, capture, limit, msys,  \* what the caller asks for
  dacl,     \* [Object -> SUBSET Ace]
  guards,   \* the AclRestores that are not restored yet, in the order made
  todo,     \* the edits of the stage that are still to be made
  failed,   \* the call whose edit failed, "none"
  fails,    \* how many restores failed
  slot,     \* the cached AppContainer: none, filtered or bare of WFP filters
  helper,   \* the helper program is on disk
  token,    \* of the command: none, restricted or container
  job,      \* none, open, closed
  child, kin,  \* the command and a descendant: none, suspended, running,
               \* wedged in the kernel, ended
  confined, \* what was done to the suspended command
  copy,     \* [Stream -> where its drain or copy thread is]
  known,    \* the copy threads that registered
  stop,     \* forward_stop
  due,      \* the deadline has passed
  pc,       \* where the host is
  result,   \* of spawn_prepared_child
  answer    \* of the run

asked == <<mode, capture, limit, msys>>
acls == <<dacl, guards, todo, failed, fails>>
kit == <<slot, helper, token>>
procs == <<child, kin>>
copies == <<copy, known>>
vars == <<asked, acls, kit, job, procs, confined, copies, stop, due, pc, result, answer>>

Stage == {"install", "profile", "first", "token", "job", "second", "wrap",
          "line", "msys", "stdio", "create", "assign", "lock", "dac", "resume",
          "wait", "reap", "code", "drain", "finish", "join", "restore",
          "undo", "drop", "release", "over"}
Confine == {"assign", "lock", "dac", "resume"}

TypeOK ==
  /\ mode \in Mode /\ capture \in {"Inherit", "Collect", "Forward"}
  /\ limit \in BOOLEAN /\ msys \in BOOLEAN
  /\ dacl \in [Object -> SUBSET Ace]
  /\ guards \in Seq(Guard) /\ todo \in Seq(Step)
  /\ failed \in Call \cup {"none"} /\ fails \in Nat
  /\ slot \in {"none", "filtered", "bare"} /\ helper \in BOOLEAN
  /\ token \in {"none", "restricted", "container"}
  /\ job \in {"none", "open", "closed"}
  /\ child \in {"none", "suspended", "running", "wedged", "ended"}
  /\ kin \in {"none", "running", "ended"}
  /\ confined \subseteq Confine
  /\ copy \in [Stream -> {"none", "start", "check", "enter", "read", "again", "leave", "write", "done"}]
  /\ known \subseteq Stream
  /\ stop \in BOOLEAN /\ due \in BOOLEAN
  /\ pc \in Stage
  /\ result \in {"none", "ok", "late", "timeout", "error"}
  /\ answer \in {"none", "Applied", "WfpSkipped", "Late", "Timeout", "Apply", "Restore"}

\* A mistake: the token of the suspended command stays as it was made.
Unlocked(stage) ==
  CASE stage = "create" -> "assign"
    [] stage = "assign" -> "dac"
    [] stage = "dac" -> "resume"
    [] OTHER -> "wait"

\* The order in which spawn_prepared_child confines the command.
ConfineOrder(stage) ==
  CASE stage = "create" -> "assign"
    [] stage = "assign" -> "lock"
    [] stage = "lock" -> "dac"
    [] stage = "dac" -> "resume"
    [] OTHER -> "wait"

\* The stage after a stage, and the edits it starts with.  A container is made
\* before the first edits when it closes the network, after the job when not.
After(stage) ==
  CASE stage = "install" -> "profile"
    [] stage = "profile" -> IF mode = "blocked" THEN "first" ELSE "second"
    [] stage = "first" -> "token"
    [] stage = "token" -> "job"
    [] stage = "job" -> CASE mode = "workspace" -> "line"
                          [] mode = "blocked" -> "second"
                          [] OTHER -> "profile"
    [] stage = "second" -> "wrap"
    [] stage = "wrap" -> "line"
    [] stage = "line" -> IF msys THEN "msys" ELSE "stdio"
    [] stage = "msys" -> "stdio"
    [] stage = "stdio" -> "create"
    [] OTHER -> ConfineOrder(stage)

Edits(stage) ==
  CASE stage = "first" -> FirstPlan
    [] stage = "second" -> SecondPlan(mode)
    [] stage = "msys" -> MsysPlan
    [] OTHER -> <<>>

Advance == pc' = After(pc) /\ todo' = Edits(After(pc))

Init ==
  /\ mode \in Mode /\ capture \in {"Inherit", "Collect", "Forward"}
  /\ limit \in BOOLEAN /\ msys \in BOOLEAN
  /\ dacl = Original /\ guards = <<>> /\ failed = "none" /\ fails = 0
  /\ slot \in (CASE mode = "workspace" -> {"none"}
                [] mode = "blocked" -> {"none", "filtered", "bare"}
                [] OTHER -> {"none", "bare"})
  /\ helper = FALSE /\ token = "none" /\ job = "none"
  /\ child = "none" /\ kin = "none" /\ confined = {}
  /\ copy = [s \in Stream |-> "none"] /\ known = {} /\ stop = FALSE /\ due = FALSE
  /\ pc = (IF mode = "blocked" THEN "install" ELSE "first")
  /\ todo = Edits(pc)
  /\ result = "none" /\ answer = "none"

-----------------------------------------------------------------------------
(* Editing the access lists. *)

\* set_named_ace: read, extend, write, keep the guard.
Edit ==
  /\ pc \in {"first", "second", "msys"} /\ todo # <<>>
  /\ LET step == Head(todo)
     IN /\ dacl' = [dacl EXCEPT ![step.obj] = Edited(@, step.ace)]
        /\ guards' = Append(guards, GuardOf(step, dacl))
  /\ todo' = Tail(todo)
  /\ UNCHANGED <<asked, failed, fails, kit, job, procs, confined, copies, stop, due,
                 pc, result, answer>>

\* The edit fails, and the run can do without it.
SkipEdit ==
  /\ pc \in {"first", "second", "msys"} /\ todo # <<>> /\ Skips(Head(todo))
  /\ todo' = Tail(todo)
  /\ UNCHANGED <<asked, dacl, guards, failed, fails, kit, job, procs, confined, copies,
                 stop, due, pc, result, answer>>

\* The edit fails, and with it the preparation.
FailEdit ==
  /\ pc \in {"first", "second"} /\ todo # <<>> /\ ~Skips(Head(todo))
  /\ failed' = (IF Undoes(Head(todo)) THEN Head(todo).call ELSE "none")
  /\ pc' = (IF Undoes(Head(todo)) THEN "undo" ELSE "drop")
  /\ answer' = "Apply"
  /\ UNCHANGED <<asked, dacl, guards, todo, fails, kit, job, procs, confined, copies, stop,
                 due, result>>

LastIs(call) == guards # <<>> /\ guards[Len(guards)].call = call

\* restore_guards over the guards of the failed call: the last first, up to
\* the first restore that fails.
Undo ==
  /\ pc = "undo"
  /\ \/ /\ LastIs(failed)
        /\ dacl' = Restored(dacl, guards[Len(guards)])
        /\ guards' = WithoutLast(guards)
        /\ UNCHANGED <<fails, pc>>
     \/ /\ LastIs(failed) /\ fails < RestoreFails
        /\ fails' = fails + 1 /\ pc' = "drop"
        /\ UNCHANGED <<dacl, guards>>
     \/ /\ ~LastIs(failed)
        /\ pc' = "drop"
        /\ UNCHANGED <<dacl, guards, fails>>
  /\ UNCHANGED <<asked, todo, failed, kit, job, procs, confined, copies, stop, due,
                 result, answer>>

\* The guards that are left are dropped, the first first.  A drop tries the
\* restore once more and only prints its error.
Drop ==
  /\ pc \in {"drop", "release"} /\ guards # <<>>
  /\ \E k \in DropFirst(guards, failed) :
        /\ \/ dacl' = Restored(dacl, guards[k]) /\ fails' = fails
           \/ fails < RestoreFails /\ fails' = fails + 1 /\ dacl' = dacl
        /\ guards' = WithoutAt(guards, k)
  /\ UNCHANGED <<asked, todo, failed, kit, job, procs, confined, copies, stop, due, pc,
                 result, answer>>

\* The rest of what the preparation or the run holds is dropped: the job is
\* closed, the helper is removed, which fails while it runs.
Release ==
  /\ pc \in {"drop", "release"} /\ guards = <<>>
  /\ job' = (IF job = "none" THEN "none" ELSE "closed")
  /\ helper' = (helper /\ child \in {"running", "wedged"})
  /\ pc' = "over"
  /\ UNCHANGED <<asked, acls, slot, token, procs, confined, copies, stop, due, result,
                 answer>>

-----------------------------------------------------------------------------
(* The token, the job and the AppContainer. *)

\* A stage whose call failed: what was made so far is dropped.
SetupFails ==
  /\ pc \in {"install", "profile", "token", "job", "wrap"}
  /\ ~(pc = "profile" /\ slot # "none")
  /\ pc' = "drop" /\ answer' = "Apply"
  /\ UNCHANGED <<asked, acls, kit, job, procs, confined, copies, stop, due, result>>

\* HelperFile::install writes the helper into the first grant.
Install ==
  /\ pc = "install"
  /\ helper' = TRUE /\ Advance
  /\ UNCHANGED <<asked, dacl, guards, failed, fails, slot, token, job, procs, confined,
                 copies, stop, due, result, answer>>

\* WfpSession::apply: the engine, the filters of the package and those of the
\* helper, up to the first refusal.  A dynamic session that is given up takes
\* its filters with it.
WfpOutcome(refusal) == IF refusal = "none" THEN "filtered" ELSE "bare"

\* cached_blocked_profile: the container of this process, or a new one; only
\* a refusal for want of rights is let through.
BlockedProfile ==
  /\ pc = "profile" /\ mode = "blocked"
  /\ \/ slot # "none" /\ slot' = slot
     \/ slot = "none" /\ \E refusal \in {"none", "denied"} : slot' = WfpOutcome(refusal)
  /\ Advance
  /\ UNCHANGED <<asked, dacl, guards, failed, fails, helper, token, job, procs, confined,
                 copies, stop, due, result, answer>>

\* cached_reexec: a container with the network open, and no filters.
ReexecProfile ==
  /\ pc = "profile" /\ mode = "reexec"
  /\ slot' = "bare" /\ Advance
  /\ UNCHANGED <<asked, dacl, guards, failed, fails, helper, token, job, procs, confined,
                 copies, stop, due, result, answer>>

\* The edits of the stage are made.
EditsDone ==
  /\ pc \in {"first", "second", "msys"} /\ todo = <<>>
  /\ Advance
  /\ UNCHANGED <<asked, dacl, guards, failed, fails, kit, job, procs, confined, copies,
                 stop, due, result, answer>>

MakeToken ==
  /\ pc = "token"
  /\ token' = "restricted" /\ Advance
  /\ UNCHANGED <<asked, dacl, guards, failed, fails, slot, helper, job, procs, confined,
                 copies, stop, due, result, answer>>

MakeJob ==
  /\ pc = "job"
  /\ job' = "open" /\ Advance
  /\ UNCHANGED <<asked, dacl, guards, failed, fails, kit, procs, confined, copies, stop,
                 due, result, answer>>

\* The restricted token is wrapped, or the token of this process when that
\* is refused.
WrapToken ==
  /\ pc = "wrap"
  /\ token' = "container" /\ Advance
  /\ UNCHANGED <<asked, dacl, guards, failed, fails, slot, helper, job, procs, confined,
                 copies, stop, due, result, answer>>

-----------------------------------------------------------------------------
(* Starting the command. *)

\* From here on an error leaves through the restore.
SpawnFails ==
  /\ pc \in {"line", "stdio", "create"}
  /\ result' = "error" /\ pc' = "restore"
  /\ UNCHANGED <<asked, acls, kit, job, procs, confined, copies, stop, due, answer>>

\* The program is found and quoted, behind the helper when there is one.
ComposeLine ==
  /\ pc = "line"
  /\ Advance
  /\ UNCHANGED <<asked, dacl, guards, failed, fails, kit, job, procs, confined, copies,
                 stop, due, result, answer>>

\* The handles the command inherits, or pipes.
OpenStdio ==
  /\ pc = "stdio"
  /\ Advance
  /\ UNCHANGED <<asked, dacl, guards, failed, fails, kit, job, procs, confined, copies,
                 stop, due, result, answer>>

\* Where the thread of a stream starts: a drain reads at once.
FirstOfCopy ==
  CASE capture = "Inherit" -> "none"
    [] capture = "Collect" -> "read"
    [] OTHER -> "start"

\* CreateProcessAsUserW with CREATE_SUSPENDED; the threads start before the
\* command can write.
Create ==
  /\ pc = "create"
  /\ child' = "suspended"
  /\ copy' = [s \in Stream |-> FirstOfCopy]
  /\ Advance
  /\ UNCHANGED <<asked, dacl, guards, failed, fails, kit, job, kin, confined, known, stop,
                 due, result, answer>>

Confined(step) ==
  /\ pc = step
  /\ confined' = confined \cup {step} /\ Advance
  /\ UNCHANGED <<asked, dacl, guards, failed, fails, kit, job, kin, copies, stop, due,
                 result, answer>>

AssignJob == Confined("assign") /\ UNCHANGED child

\* lock_suspended_token: its default DACL, then no way to change it.
LockToken == Confined("lock") /\ UNCHANGED child

\* deny_process_write_dac.
DenyWriteDac == Confined("dac") /\ UNCHANGED child

Resume == Confined("resume") /\ child' = "running"

\* A step that fails ends the command before it has run, and its threads are
\* joined.
ConfineFails ==
  /\ pc \in Confine
  /\ child' = "ended" /\ result' = "error" /\ pc' = "join"
  /\ UNCHANGED <<asked, acls, kit, job, kin, confined, copies, stop, due, answer>>

-----------------------------------------------------------------------------
(* Waiting for it. *)

\* WaitForSingleObject: the command ended, the deadline passed, or the wait
\* failed.  The deadline closes the job.
ChildEnded ==
  /\ pc = "wait" /\ child = "ended"
  /\ pc' = "code"
  /\ UNCHANGED <<asked, acls, kit, job, procs, confined, copies, stop, due, result, answer>>

DeadlinePasses ==
  /\ pc = "wait" /\ limit /\ due /\ child # "ended"
  /\ job' = "closed" /\ result' = "late" /\ pc' = "reap"
  /\ UNCHANGED <<asked, acls, kit, procs, confined, copies, stop, due, answer>>

WaitFails ==
  /\ pc = "wait"
  /\ result' = "error" /\ pc' = "restore"
  /\ UNCHANGED <<asked, acls, kit, job, procs, confined, copies, stop, due, answer>>

\* Five seconds are enough for a process that is not stuck in the kernel.
Reaped ==
  /\ pc = "reap" /\ child = "ended"
  /\ pc' = "code"
  /\ UNCHANGED <<asked, acls, kit, job, procs, confined, copies, stop, due, result, answer>>

NotReaped ==
  /\ pc = "reap" /\ child = "wedged"
  /\ result' = "timeout" /\ pc' = "restore"
  /\ UNCHANGED <<asked, acls, kit, job, procs, confined, copies, stop, due, answer>>

\* GetExitCodeProcess.
ExitCode ==
  /\ pc = "code"
  /\ \/ result' = (IF result = "none" THEN "ok" ELSE result)
     \/ result' = (IF result = "none" THEN "error" ELSE "timeout")
  /\ pc' = (IF capture = "Forward" THEN "drain" ELSE "join")
  /\ UNCHANGED <<asked, acls, kit, job, procs, confined, copies, stop, due, answer>>

CopiesDone == \A s \in Stream : copy[s] \in {"none", "done"}

\* finish_forward waits for the threads until the deadline, and forces them
\* when it passes or has passed.
AwaitCopies ==
  /\ pc = "drain"
  /\ \/ /\ result \in {"late", "timeout"} \/ (limit /\ due /\ ~CopiesDone)
        /\ result' = (IF result = "ok" THEN "late" ELSE result)
        /\ stop' = TRUE /\ pc' = "finish"
     \/ /\ result \notin {"late", "timeout"} /\ (~limit \/ CopiesDone)
        /\ pc' = "join" /\ UNCHANGED <<result, stop>>
  /\ UNCHANGED <<asked, acls, kit, job, procs, confined, copies, due, answer>>

\* A mistake: one round of cancelling.
CancelOnce ==
  /\ pc = "finish"
  /\ copy' = [s \in Stream |->
                IF s \in known /\ copy[s] \in {"read", "write"} THEN "done" ELSE copy[s]]
  /\ pc' = "join"
  /\ UNCHANGED <<asked, acls, kit, job, procs, confined, known, stop, due, result, answer>>

\* CancelSynchronousIo ends the call a registered thread is in, and does
\* nothing to one that is between two calls.  Repeated until all are done or
\* none is registered; that it gives up after five seconds is left out, which
\* leaves an unregistered thread the time it has in the join as well.
Cancel ==
  /\ pc = "finish"
  /\ copy' = [s \in Stream |->
                IF s \in known /\ copy[s] \in {"read", "write"} THEN "done" ELSE copy[s]]
  /\ pc' = (IF CopiesDone' \/ known = {} THEN "join" ELSE "finish")
  /\ UNCHANGED <<asked, acls, kit, job, procs, confined, known, stop, due, result, answer>>

Join ==
  /\ pc = "join" /\ CopiesDone
  /\ pc' = "restore"
  /\ UNCHANGED <<asked, acls, kit, job, procs, confined, copies, stop, due, result, answer>>

\* A mistake: the guards are unwound in the order they were made.
RestoreFirst ==
  /\ pc = "restore" /\ guards # <<>>
  /\ dacl' = Restored(dacl, guards[1])
  /\ guards' = Tail(guards)
  /\ UNCHANGED <<asked, todo, failed, fails, kit, job, procs, confined, copies, stop, due,
                 pc, result, answer>>

\* restore_guards: the last first, up to the first restore that fails.
RestoreLast ==
  /\ pc = "restore" /\ guards # <<>>
  /\ dacl' = Restored(dacl, guards[Len(guards)])
  /\ guards' = WithoutLast(guards)
  /\ UNCHANGED <<asked, todo, failed, fails, kit, job, procs, confined, copies, stop, due,
                 pc, result, answer>>

\* A mistake: a restore that failed speaks louder than the deadline.
RestoreWins(broken) ==
  CASE broken /\ result \in {"ok", "late"} -> "Restore"
    [] result = "ok" -> "Applied"
    [] result = "late" /\ capture # "Inherit" -> "Late"
    [] result = "timeout" \/ result = "late" -> "Timeout"
    [] OTHER -> "Apply"

\* spawn_prepared and combine_spawn_restore.
AnswerOf(broken) ==
  CASE result = "ok" /\ ~broken ->
         IF mode = "blocked" /\ slot = "bare" THEN "WfpSkipped" ELSE "Applied"
    [] result = "late" /\ ~broken /\ capture # "Inherit" -> "Late"
    [] result = "timeout" \/ (result = "late" /\ (broken \/ capture = "Inherit")) -> "Timeout"
    [] result = "ok" /\ broken -> "Restore"
    [] OTHER -> "Apply"

RestoreDone ==
  /\ pc = "restore"
  /\ \/ /\ guards = <<>>
        /\ answer' = AnswerOf(FALSE) /\ fails' = fails
     \/ /\ guards # <<>> /\ fails < RestoreFails
        /\ answer' = AnswerOf(TRUE) /\ fails' = fails + 1
  /\ pc' = "release"
  /\ UNCHANGED <<asked, dacl, guards, todo, failed, kit, job, procs, confined, copies, stop,
                 due, result>>

-----------------------------------------------------------------------------
(* The copy threads, the jailed processes and the clock. *)

WritersGone == child \in {"none", "ended"} /\ kin \in {"none", "ended"}

\* register_forward_thread.  When no handle can be made of the thread, it goes
\* on unregistered.
Register(s) ==
  /\ copy[s] = "start"
  /\ copy' = [copy EXCEPT ![s] = "check"]
  /\ known' \in {known \cup {s}, known}
  /\ UNCHANGED <<asked, acls, kit, job, procs, confined, stop, due, pc, result, answer>>

\* copy_pipe looks at the stop flag before every call.
CopyStep(s) ==
  /\ \/ /\ copy[s] \in {"check", "again"}
        /\ copy' = [copy EXCEPT ![s] = IF stop THEN "done"
                                       ELSE IF copy[s] = "check" THEN "enter" ELSE "leave"]
     \/ /\ copy[s] \in {"enter", "leave"}
        /\ copy' = [copy EXCEPT ![s] = IF copy[s] = "enter" THEN "read" ELSE "write"]
     \/ /\ copy[s] = "read" /\ WritersGone
        /\ copy' = [copy EXCEPT ![s] = "done"]
  /\ UNCHANGED <<asked, acls, kit, job, procs, confined, known, stop, due, pc, result, answer>>

\* The command or its descendant writes; the reader of the parent's stream
\* takes the bytes, or it is closed.
Bytes(s) ==
  /\ \/ /\ copy[s] = "read" /\ (child = "running" \/ kin = "running")
        /\ copy' = [copy EXCEPT ![s] = IF capture = "Collect" THEN "read" ELSE "again"]
     \/ /\ copy[s] = "write"
        /\ \E next \in {"check", "done"} : copy' = [copy EXCEPT ![s] = next]
  /\ UNCHANGED <<asked, acls, kit, job, procs, confined, known, stop, due, pc, result, answer>>

Fork ==
  /\ child = "running" /\ kin = "none" /\ job = "open"
  /\ kin' = "running"
  /\ UNCHANGED <<asked, acls, kit, job, child, confined, copies, stop, due, pc, result, answer>>

Exits ==
  /\ \/ child \in {"running", "wedged"} /\ child' = "ended" /\ kin' = kin
     \/ child = "running" /\ child' = "wedged" /\ kin' = kin
     \/ kin = "running" /\ kin' = "ended" /\ child' = child
  /\ UNCHANGED <<asked, acls, kit, job, confined, copies, stop, due, pc, result, answer>>

\* JOB_OBJECT_LIMIT_KILL_ON_JOB_CLOSE.
JobKills ==
  /\ job = "closed" /\ "assign" \in confined
  /\ \/ child = "running" /\ child' = "ended" /\ kin' = kin
     \/ kin = "running" /\ kin' = "ended" /\ child' = child
  /\ UNCHANGED <<asked, acls, kit, job, confined, copies, stop, due, pc, result, answer>>

Tick ==
  /\ limit /\ ~due /\ pc \in {"wait", "reap", "code", "drain", "finish", "join"}
  /\ due' = TRUE
  /\ UNCHANGED <<asked, acls, kit, job, procs, confined, copies, stop, pc, result, answer>>

\* The run is over.
Rest == pc = "over" /\ UNCHANGED vars

HostStep ==
  \/ Edit \/ SkipEdit \/ FailEdit \/ Undo \/ Drop \/ Release
  \/ SetupFails \/ Install \/ BlockedProfile \/ ReexecProfile \/ EditsDone \/ MakeToken \/ MakeJob \/ WrapToken
  \/ SpawnFails \/ ComposeLine \/ OpenStdio \/ Create
  \/ AssignJob \/ LockToken \/ DenyWriteDac \/ Resume \/ ConfineFails
  \/ ChildEnded \/ DeadlinePasses \/ WaitFails \/ Reaped \/ NotReaped \/ ExitCode
  \/ AwaitCopies \/ Cancel \/ Join \/ RestoreLast \/ RestoreDone

World ==
  \/ \E s \in Stream : Register(s) \/ CopyStep(s) \/ Bytes(s)
  \/ Fork \/ Exits \/ JobKills \/ Tick \/ Rest

Next == HostStep \/ World

\* The host and the threads run, the kernel ends the processes of a closed
\* job, and the clock goes on.  Neither the command nor the reader of the
\* parent's streams ever has to do anything.
Fairness ==
  /\ WF_vars(HostStep) /\ WF_vars(JobKills) /\ WF_vars(Tick)
  /\ \A s \in Stream : WF_vars(Register(s)) /\ WF_vars(CopyStep(s))

Spec == Init /\ [][Next]_vars /\ Fairness
-----------------------------------------------------------------------------
(* What a run promises. *)

Denies ==
  LET plan == IF mode = "workspace" THEN FirstPlan ELSE FirstPlan \o SecondPlan(mode)
  IN {plan[i] : i \in {j \in DOMAIN plan : plan[j].ace.mode = "deny"}}

\* A command that runs is in the job, under a locked token that is wrapped
\* when the network is closed, and every deny of its plan is in force: no
\* later edit takes one away and no restore comes before its end, unless the
\* host lost track of it and says so (spawn_prepared_child, its order).
RunsConfined ==
  child = "running" =>
    /\ confined = Confine
    /\ token = (IF mode = "workspace" THEN "restricted" ELSE "container")
    /\ (result \in {"none", "late"} => \A step \in Denies : step.ace \in dacl[step.obj])

\* A run that answers with an exit or a deadline has put every list back; one
\* that could not names the restore, or the deadline that wins over it
\* (restore_guards, combine_spawn_restore).
OkMeansRestored ==
  answer \in {"Applied", "WfpSkipped", "Late"} => dacl = Original

\* A deadline is never lost: a run that closed the job for it does not answer
\* as a finished one, whatever the restore says; and a run that says it
\* finished leaves no command behind (spawn_prepared).
DeadlineIsTold ==
  /\ (answer # "none" /\ result \in {"late", "timeout"}) => answer \in {"Late", "Timeout"}
  /\ answer \in {"Applied", "WfpSkipped", "Late", "Restore"} => child = "ended"
  /\ pc = "over" => child # "suspended"

\* A copy thread that could not be registered is in a call nobody can cancel.
Deaf(s) == capture = "Forward" /\ s \notin known /\ copy[s] \in {"read", "write"}

\* After the deadline the host returns: when it waits for the command, and
\* when it copies the output of one that has ended, whoever still holds the
\* pipe.  What keeps it is one thing alone, a thread that was not registered
\* and never comes back from its call.  Collected output is joined without a
\* deadline (finish_forward).
DeadlineReturns ==
  (\A s \in Stream : []<>~Deaf(s)) =>
    (((pc = "reap") \/ (limit /\ due /\ pc \in {"drain", "finish"})) ~> (pc = "over"))

\* README.md:141: the jail "restores them when the jail drops".  Checked
\* where every restore succeeds.
AclsComeBack == pc = "over" => dacl = Original
=============================================================================
