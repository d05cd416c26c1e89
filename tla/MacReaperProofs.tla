-------------------------- MODULE MacReaperProofs --------------------------
(***************************************************************************)
(* Theorems about MacReaper for any number of processes, rows, polls and   *)
(* late lists, whatever the command and the rest of the world do.          *)
(***************************************************************************)
EXTENDS MacReaper, TLAPS

\* Pids are handed out in birth order; what has gone may have been reused.
Births ==
  /\ \A p \in Proc : state[p] = "unborn" <=> p > born
  /\ \A p \in reused : state[p] = "gone"

\* Before its exec the command has no descendant and can be stopped; it never
\* leads a session, never runs another program, and nobody else gets its pid.
Start ==
  /\ at # "exec" => born = Cmd
  /\ tty \/ state[Cmd] = "stopped" => at # "exec"
  /\ Cmd \notin leads /\ Cmd \notin reused /\ image[Cmd] # "other"

\* A command that the reaper killed before its exec does not run again, and
\* its handshake is over before it is identified.
Shot ==
  /\ killed => state[Cmd] \in {"killed", "zombie", "gone"}
  /\ rpc = "identify" => stop \/ TokenThere

\* The end of the run: what is recorded was alive once; where nothing was
\* missed all of it is gone by the scan, and the report says what was missed.
Ending == {"scan", "write", "over"}
Recorded ==
  /\ \A p \in rows \union bare \union todo \union early : p <= born
  /\ (rpc \in Ending /\ ~ missed) => \A p \in rows : state[p] = "gone"
  /\ report # "none" => rpc = "over"
  /\ report = "clean" => ~ missed

\* The stop was seen before the exec; a command that was seen and has no
\* start time ended before its exec.
Seen ==
  /\ seen => rpc \notin {"await_stop", "shoot_at_the_stop"}
  /\ (seen /\ rpc \in {"close_fds", "resume"}) =>
       at # "exec" /\ state[Cmd] \in {"stopped", "killed", "zombie", "gone"}
  /\ (seen /\ ident.start = 0 /\ rpc \notin {"close_fds", "resume"}) =>
       at # "exec" /\ state[Cmd] \in {"zombie", "gone"}

\* A name is never without a start time, and the command's is its own; there
\* is none before the command has been continued.
NamedAs(i) ==
  /\ i.start = 0 => i.name = "none"
  /\ i.start = Cmd => i.name # "other"
  /\ i.start \notin {0, Cmd} => i.name # "none"
Named ==
  /\ NamedAs(ident)
  /\ rpc \in {"await_stop", "shoot_at_the_stop", "close_fds", "resume"} => ident.name = "none"

\* Leaders that were launchd's when the report began still are, if they live.
Leaders == \A p \in early : Living(p) => p \in leads /\ parent[p] = Launchd

\* Those that LeadersAreTold speaks of.
Untold == {p \in early \ (rows \union bare) : Living(p) /\ image[p] = "cmd"}

\* A list of launchd's that was not late and shows nobody: there is nobody.
Scanned ==
  /\ (rpc \in Ending /\ ~ missed /\ seen /\ ident.start \in {0, Cmd} /\ polls > lies) => Untold = {}
  /\ (rpc \in {"write", "over"} /\ ~ missed) => polls = Polls
  /\ rpc \notin Ending => polls = lies


USE MacProcsAssumption, MacAssumption

-----------------------------------------------------------------------------
(* Type correctness. *)

LEMMA SigkillType ==
  ASSUME ProcTypeOK, NEW S, Sigkill(S)
  PROVE  state' \in [Proc -> {"unborn", "running", "stopped", "killed", "zombie", "gone"}]
BY DEF ProcTypeOK, Sigkill

LEMMA ContinueType ==
  ASSUME ProcTypeOK, Continue
  PROVE  /\ state' \in [Proc -> {"unborn", "running", "stopped", "killed", "zombie", "gone"}]
         /\ at' \in {"fresh", "halted", "token", "hooks", "exec"}
BY DEF ProcTypeOK, Continue, Proc, Cmd

LEMMA ArmType ==
  ASSUME TypeOK, ArmAtStop
  PROVE  UNCHANGED <<state, at>> /\ watched' \subseteq Proc
<1>1. watched' \in {watched, watched \union {Cmd}}
  BY Zenon DEF ArmAtStop
<1>2. watched \union {Cmd} \subseteq Proc /\ watched \subseteq Proc
  BY DEF TypeOK, ProcTypeOK, Proc, Cmd
<1>3. UNCHANGED <<state, at>>
  BY Zenon DEF ArmAtStop, NoSignal
<1> QED BY <1>1, <1>2, <1>3

LEMMA NoteType ==
  ASSUME TypeOK, NEW S \in SUBSET Proc, Note(S)
  PROVE  /\ rows' \subseteq Proc /\ bare' \subseteq Proc /\ watched' \subseteq Proc
         /\ missed' \in BOOLEAN
BY DEF TypeOK, ProcTypeOK, Note

LEMMA TreeType == ProcTypeOK /\ TreeStep => ProcTypeOK'
<1> SUFFICES ASSUME ProcTypeOK, TreeStep PROVE ProcTypeOK'
  OBVIOUS
<1> USE DEF ProcTypeOK, Proc, Cmd, Reaper, Launchd
<1>1. CASE Halt BY <1>1 DEF Halt
<1>2. CASE WriteToken BY <1>2 DEF WriteToken
<1>3. CASE ExecCommand BY <1>3 DEF ExecCommand
<1>4. ASSUME NEW p \in Proc, Fork(p) PROVE ProcTypeOK'
  <2> HIDE DEF Proc
  <2>1. events' \in Seq(Proc)
    <3>1. events \in Seq(Proc) /\ events' \in {events, Append(events, p)}
      BY <1>4 DEF Fork
    <3> QED BY <3>1
  <2>2. born' \in Proc /\ born + 1 \in Proc
    BY <1>4 DEF Fork, Proc
  <2>3. parent' \in [Proc -> Proc \union {Reaper, Launchd}]
    BY <1>4, <2>2 DEF Fork
  <2>4. image' \in [Proc -> {"own", "cmd", "other"}]
    BY <1>4, <2>2 DEF Fork
  <2>5. state' \in [Proc -> {"unborn", "running", "stopped", "killed", "zombie", "gone"}]
    BY <1>4, <2>2 DEF Fork
  <2> QED BY <1>4, <2>1, <2>2, <2>3, <2>4, <2>5 DEF Fork
<1>5. ASSUME NEW p \in Proc, Setsid(p) PROVE ProcTypeOK'
  BY <1>5 DEF Setsid
<1>6. ASSUME NEW p \in Proc, Exec(p) PROVE ProcTypeOK'
  BY <1>6 DEF Exec
<1>7. ASSUME NEW p \in Proc, Exit(p) PROVE ProcTypeOK'
  BY <1>7 DEF Exit
<1>8. ASSUME NEW p \in Proc, Waited(p) PROVE ProcTypeOK'
  BY <1>8 DEF Waited
<1>9. ASSUME NEW p \in Proc, Reuse(p) PROVE ProcTypeOK'
  BY <1>9 DEF Reuse
<1> QED BY <1>1, <1>2, <1>3, <1>4, <1>5, <1>6, <1>7, <1>8, <1>9 DEF TreeStep

LEMMA OnForkType ==
  ASSUME TypeOK, NEW p \in Proc, NEW exited, OnFork(p, exited)
  PROVE  /\ rows' \subseteq Proc /\ bare' \subseteq Proc /\ watched' \subseteq Proc
         /\ missed' \in BOOLEAN
         /\ ident' \in [start : {0} \union Proc, name : {"none", "cmd", "other"}]
<1>1. Children(p) \in SUBSET Proc
  BY DEF Children
<1>2. Learn(Learn(ident, p), Cmd) \in [start : {0} \union Proc, name : {"none", "cmd", "other"}]
  BY DEF Learn, TypeOK, ProcTypeOK, Proc, Cmd
<1>3. Seal(Learn(Learn(ident, p), Cmd)) \in [start : {0} \union Proc, name : {"none", "cmd", "other"}]
  BY <1>2 DEF Seal
<1>4. ident' \in [start : {0} \union Proc, name : {"none", "cmd", "other"}]
  BY <1>2, <1>3 DEF OnFork
<1>5. CASE Note(Children(p))
  BY <1>1, <1>4, <1>5, NoteType
<1>6. CASE missed' \in {TRUE, FALSE} /\ UNCHANGED <<rows, bare, watched>>
  BY <1>4, <1>6 DEF TypeOK, ProcTypeOK
<1> QED BY <1>5, <1>6 DEF OnFork, record, TypeOK

LEMMA ReaperType == TypeOK /\ ReaperStep => TypeOK'
<1> SUFFICES ASSUME TypeOK, ReaperStep PROVE TypeOK'
  OBVIOUS
<1> USE DEF NoSignal, KernelKeeps, Goto, clock, flags, record, closing, Shots
<1>1. CASE SeesStop
  <2>1. /\ state' \in [Proc -> {"unborn", "running", "stopped", "killed", "zombie", "gone"}]
        /\ at' = at /\ watched' \subseteq Proc
    <3>1. CASE due
      BY <1>1, <3>1, SigkillType DEF SeesStop, KillPreexec, TypeOK, ProcTypeOK
    <3>2. CASE ~ due
      BY <1>1, <3>2, ArmType DEF SeesStop, TypeOK, ProcTypeOK
    <3> QED BY <3>1, <3>2
  <2>3. killed' \in BOOLEAN /\ hit' \in BOOLEAN /\ seen' \in BOOLEAN /\ kq' \in BOOLEAN /\ missed' \in BOOLEAN
    BY <1>1, Zenon DEF SeesStop, KillPreexec, ArmAtStop, TypeOK
  <2>2. ProcTypeOK'
    BY <1>1, <2>1 DEF SeesStop, KillPreexec, ArmAtStop, ProcTypeOK, TypeOK
  <2> QED BY <1>1, <2>2, <2>3 DEF SeesStop, KillPreexec, ArmAtStop, TypeOK
<1>2. CASE SeesEnd
  <2>1. state' \in [Proc -> {"unborn", "running", "stopped", "killed", "zombie", "gone"}]
    BY <1>2 DEF SeesEnd, TypeOK, ProcTypeOK
  <2>2. ProcTypeOK'
    BY <1>2, <2>1 DEF SeesEnd, ProcTypeOK, TypeOK
  <2> QED BY <1>2, <2>2 DEF SeesEnd, TypeOK
<1>3. CASE StopBound
  <2>1. UNCHANGED <<state, at>> /\ watched' \subseteq Proc
    BY <1>3, ArmType DEF StopBound, TypeOK, ProcTypeOK
  <2>3. killed' \in BOOLEAN /\ hit' \in BOOLEAN /\ seen' \in BOOLEAN /\ kq' \in BOOLEAN /\ missed' \in BOOLEAN
    BY <1>3, Zenon DEF StopBound, ArmAtStop, TypeOK
  <2>4. rpc' \in {"close_fds", "shoot_at_the_stop"}
    BY <1>3 DEF StopBound
  <2>2. ProcTypeOK'
    BY <1>3, <2>1 DEF StopBound, ArmAtStop, ProcTypeOK, TypeOK
  <2> QED BY <1>3, <2>2, <2>3, <2>4 DEF StopBound, TypeOK
<1>4. CASE StopsWaiting
  BY <1>4 DEF StopsWaiting, procVars, TypeOK, ProcTypeOK
<1>5. CASE Shoot
  <2>1. /\ state' \in [Proc -> {"unborn", "running", "stopped", "killed", "zombie", "gone"}]
        /\ at' = at
    BY <1>5, SigkillType DEF Shoot, KillPreexec, TypeOK
  <2>2. ProcTypeOK'
    BY <1>5, <2>1 DEF Shoot, KillPreexec, ProcTypeOK, TypeOK
  <2> QED BY <1>5, <2>2 DEF Shoot, KillPreexec, TypeOK
<1>6. CASE CloseFds
  <2>1. open' \in BOOLEAN
    BY <1>6, Zenon DEF CloseFds
  <2> QED BY <1>6, <2>1 DEF CloseFds, procVars, TypeOK, ProcTypeOK
<1>7. CASE Resume
  <2>1. /\ state' \in [Proc -> {"unborn", "running", "stopped", "killed", "zombie", "gone"}]
        /\ at' \in {"fresh", "halted", "token", "hooks", "exec"}
        /\ killed' \in BOOLEAN /\ hit' \in BOOLEAN
    <3>1. CASE seen /\ due
      BY <1>7, <3>1, SigkillType DEF Resume, KillPreexec, TypeOK, ProcTypeOK
    <3>2. CASE ~ (seen /\ due)
      BY <1>7, <3>2, ContinueType DEF Resume, TypeOK, ProcTypeOK
    <3> QED BY <3>1, <3>2
  <2>3. ident' \in [start : {0} \union Proc, name : {"none", "cmd", "other"}]
    BY <1>7 DEF Resume, TypeOK, Proc, Cmd
  <2>2. ProcTypeOK'
    BY <1>7, <2>1 DEF Resume, ProcTypeOK, TypeOK
  <2>4. rpc' \in {"drain", "handshake"} /\ bound' = FALSE
    BY <1>7 DEF Resume, Goto
  <2>5. UNCHANGED <<limit, mode, kq, open, seen, stop, missed, todo, rows, bare, early, polls, lies, report>>
    BY <1>7 DEF Resume, record, closing
  <2>6. /\ kq' \in BOOLEAN /\ open' \in BOOLEAN /\ seen' \in BOOLEAN /\ stop' \in BOOLEAN
        /\ bound' \in BOOLEAN /\ missed' \in BOOLEAN
    BY <2>4, <2>5, Zenon DEF TypeOK
  <2>7. rpc' \in Shots \union {"await_stop", "close_fds", "resume", "handshake", "identify", "drain",
          "list", "walk", "tend", "wait", "kill", "await_end", "adopted", "settle", "scan", "write", "over"}
    BY <2>4
  <2> QED BY <2>1, <2>2, <2>3, <2>5, <2>6, <2>7, Zenon DEF TypeOK
<1>8. CASE Handshake
  BY <1>8, ContinueType DEF Handshake, TypeOK, ProcTypeOK
<1>9. CASE TakeEvent
  <2>1. Head(events) \in Proc /\ events' \in Seq(Proc)
    BY <1>9 DEF TakeEvent, TypeOK, ProcTypeOK
  <2>2. /\ rows' \subseteq Proc /\ bare' \subseteq Proc /\ watched' \subseteq Proc
        /\ missed' \in BOOLEAN
        /\ ident' \in [start : {0} \union Proc, name : {"none", "cmd", "other"}]
    BY <1>9, <2>1, OnForkType DEF TakeEvent
  <2> QED BY <1>9, <2>1, <2>2 DEF TakeEvent, TypeOK, ProcTypeOK
<1>10. CASE Identify
  <2>1. /\ state' \in [Proc -> {"unborn", "running", "stopped", "killed", "zombie", "gone"}]
        /\ at' \in {"fresh", "halted", "token", "hooks", "exec"}
    BY <1>10, ContinueType DEF Identify, TypeOK, ProcTypeOK
  <2>3. ident' \in [start : {0} \union Proc, name : {"none", "cmd", "other"}]
    BY <1>10 DEF Identify, Learn, TypeOK, ProcTypeOK, Proc, Cmd
  <2>2. ProcTypeOK'
    BY <1>10, <2>1 DEF Identify, ProcTypeOK, TypeOK
  <2> QED BY <1>10, <2>2, <2>3 DEF Identify, TypeOK
<1>11. CASE StopSeen \/ Drained \/ Walked
  BY <1>11 DEF StopSeen, Drained, Walked, procVars, TypeOK, ProcTypeOK
<1>12. CASE List
  BY <1>12 DEF List, Children, procVars, TypeOK, ProcTypeOK
<1>13. CASE Walk
  <2>1. PICK p \in todo : Note({p}) /\ todo' = (todo \ {p}) \union Children(p)
    BY <1>13 DEF Walk
  <2>2. /\ rows' \subseteq Proc /\ bare' \subseteq Proc /\ watched' \subseteq Proc
        /\ missed' \in BOOLEAN
    BY <2>1, NoteType DEF TypeOK
  <2> QED BY <1>13, <2>1, <2>2 DEF Walk, Children, TypeOK, ProcTypeOK
<1>14. CASE Tend
  <2>1. /\ state' \in [Proc -> {"unborn", "running", "stopped", "killed", "zombie", "gone"}]
        /\ at' \in {"fresh", "halted", "token", "hooks", "exec"}
    BY <1>14, ContinueType DEF Tend, TypeOK, ProcTypeOK
  <2>3. ident' \in [start : {0} \union Proc, name : {"none", "cmd", "other"}]
    BY <1>14 DEF Tend, Learn, TypeOK, ProcTypeOK, Proc, Cmd
  <2>2. ProcTypeOK'
    BY <1>14, <2>1 DEF Tend, ProcTypeOK, TypeOK
  <2> QED BY <1>14, <2>2, <2>3 DEF Tend, TypeOK
<1>15. CASE Wait \/ AwaitEnd
  BY <1>15 DEF Wait, AwaitEnd, TypeOK, ProcTypeOK
<1>16. CASE KillRecorded
  BY <1>16, SigkillType DEF KillRecorded, TypeOK, ProcTypeOK
<1>17. CASE Adopted
  <2>1. state' \in [Proc -> {"unborn", "running", "stopped", "killed", "zombie", "gone"}]
    BY <1>17, SigkillType DEF Adopted, TypeOK, ProcTypeOK
  <2>2. ProcTypeOK'
    BY <1>17, <2>1 DEF Adopted, ProcTypeOK, TypeOK
  <2> QED BY <1>17, <2>2 DEF Adopted, TypeOK
<1>18. CASE Settle
  BY <1>18 DEF Settle, procVars, TypeOK, ProcTypeOK
<1>19. CASE Scan
  <2>1. Learn(ident, Cmd) \in [start : {0} \union Proc, name : {"none", "cmd", "other"}]
    BY DEF Learn, TypeOK, ProcTypeOK, Proc, Cmd
  <2>3. ident' \in [start : {0} \union Proc, name : {"none", "cmd", "other"}]
    BY <1>19, <2>1 DEF Scan, Seal
  <2>4. polls' \in Nat /\ lies' \in 0 .. MaxLies /\ missed' \in BOOLEAN /\ rpc' \in {"write", "scan"}
    BY <1>19 DEF Scan, TypeOK
  <2>2. ProcTypeOK'
    BY <1>19, <2>1 DEF Scan, procVars, ProcTypeOK, TypeOK
  <2> QED BY <1>19, <2>2, <2>3, <2>4 DEF Scan, procVars, TypeOK
<1>20. CASE WriteReport
  <2>1. open' \in BOOLEAN
    BY <1>20, Zenon DEF WriteReport
  <2> QED BY <1>20, <2>1 DEF WriteReport, procVars, TypeOK, ProcTypeOK
<1> QED BY <1>1, <1>2, <1>3, <1>4, <1>5, <1>6, <1>7, <1>8, <1>9, <1>10, <1>11, <1>12, <1>13,
   <1>14, <1>15, <1>16, <1>17, <1>18, <1>19, <1>20 DEF ReaperStep

LEMMA TypeStep == TypeOK /\ [Next]_vars => TypeOK'
<1> SUFFICES ASSUME TypeOK, [Next]_vars PROVE TypeOK'
  OBVIOUS
<1>1. CASE Tree
  BY <1>1, TreeType DEF Tree, TypeOK, reaperVars, clock, flags, record, closing
<1>2. CASE Deadline \/ Bound \/ Sigterm
  <2>1. limit' \in {"none", "ahead", "past"}
    BY <1>2 DEF Deadline, Bound, Sigterm, TypeOK, clock
  <2>2. bound' \in BOOLEAN /\ stop' \in BOOLEAN /\ killed' \in BOOLEAN /\ hit' \in BOOLEAN
    BY <1>2, Zenon DEF Deadline, Bound, Sigterm, TypeOK, clock, flags
  <2>3. /\ UNCHANGED procVars
        /\ UNCHANGED <<rpc, mode, kq, open, seen, record, todo, ident, closing>>
    BY <1>2 DEF Deadline, Bound, Sigterm
  <2> QED BY <2>1, <2>2, <2>3 DEF TypeOK, ProcTypeOK, procVars, record, closing
<1>3. CASE CtrlZ \/ Fg
  <2>1. /\ state' \in [Proc -> {"unborn", "running", "stopped", "killed", "zombie", "gone"}]
        /\ at' \in {"fresh", "halted", "token", "hooks", "exec"}
    BY <1>3, ContinueType DEF CtrlZ, Fg, TypeOK, ProcTypeOK
  <2>2. tty' \in BOOLEAN
    BY <1>3, Zenon DEF CtrlZ, Fg
  <2> QED BY <1>3, <2>1, <2>2 DEF CtrlZ, Fg, TypeOK, ProcTypeOK, reaperVars, clock, flags, record, closing
<1>4. CASE UNCHANGED vars
  BY <1>4 DEF vars, TypeOK, ProcTypeOK, procVars, reaperVars, clock, flags, record, closing
<1> QED BY <1>1, <1>2, <1>3, <1>4, ReaperType DEF Next

\* Every variable of MacReaper stays in its range.
THEOREM TypeCorrect == Spec => []TypeOK
<1>1. Init => TypeOK
  <2> SUFFICES ASSUME Init PROVE TypeOK
    OBVIOUS
  <2>1. ProcTypeOK
    BY DEF Init, ProcInit, ProcTypeOK, Proc, Cmd, Reaper
  <2>2. /\ bound \in BOOLEAN /\ kq \in BOOLEAN /\ open \in BOOLEAN /\ seen \in BOOLEAN
        /\ stop \in BOOLEAN /\ killed \in BOOLEAN /\ hit \in BOOLEAN /\ missed \in BOOLEAN
    BY Zenon DEF Init
  <2> QED BY <2>1, <2>2 DEF Init, TypeOK
<1> QED BY <1>1, TypeStep, PTL DEF Spec

-----------------------------------------------------------------------------
(* What a step does to the processes: it is a step of theirs, or one of the *)
(* five things that the reaper and the terminal can do to them.             *)

Pushed ==
  /\ UNCHANGED <<born, parent, leads, image, reused>> /\ (tty' => tty)
  /\ \/ UNCHANGED <<state, at>>
     \/ Continue
     \/ \E S \in SUBSET Proc : S \intersect reused = {} /\ Sigkill(S) /\ at' = at
     \/ /\ state[Cmd] = "zombie" /\ state' = [state EXCEPT ![Cmd] = "gone"]
        /\ at' = at
     \/ /\ tty /\ state[Cmd] = "running" /\ state' = [state EXCEPT ![Cmd] = "stopped"]
        /\ at' = at

LEMMA ReaperPushes == TypeOK /\ Cmd \notin reused /\ ReaperStep => Pushed
<1> SUFFICES ASSUME TypeOK, Cmd \notin reused, ReaperStep PROVE Pushed
  OBVIOUS
<1> USE DEF NoSignal, KernelKeeps
<1>a. {Cmd} \in SUBSET Proc /\ {Cmd} \intersect reused = {}
  BY DEF Proc, Cmd
<1>b. /\ {p \in rows : Same(p)} \union {Cmd} \in SUBSET Proc
      /\ ({p \in rows : Same(p)} \union {Cmd}) \intersect reused = {}
      /\ {p \in rows : Same(p)} \in SUBSET Proc
      /\ {p \in rows : Same(p)} \intersect reused = {}
  <2>1. {p \in rows : Same(p)} \subseteq Proc /\ \A p \in rows : Same(p) => p \notin reused
    BY DEF Same, TypeOK
  <2> QED BY <1>a, <2>1
<1>1. CASE SeesStop
  BY <1>1, <1>a DEF SeesStop, KillPreexec, ArmAtStop, Pushed
<1>2. CASE SeesEnd
  BY <1>2 DEF SeesEnd, Pushed
<1>3. CASE StopBound
  BY <1>3, ArmType DEF StopBound, Pushed
<1>4. CASE StopsWaiting \/ CloseFds \/ StopSeen \/ Drained \/ Walked \/ List \/ Settle \/ Scan \/ WriteReport
  BY <1>4 DEF StopsWaiting, CloseFds, StopSeen, Drained, Walked, List, Settle, Scan, WriteReport, procVars, Pushed
<1>5. CASE Shoot
  BY <1>5, <1>a DEF Shoot, KillPreexec, Pushed
<1>7. CASE Resume
  BY <1>7, <1>a DEF Resume, KillPreexec, Pushed
<1>8. CASE Handshake
  BY <1>8 DEF Handshake, Pushed
<1>9. CASE TakeEvent
  BY <1>9 DEF TakeEvent, Pushed
<1>10. CASE Identify \/ Tend
  BY <1>10 DEF Identify, Tend, Pushed
<1>13. CASE Walk
  BY <1>13 DEF Walk, Pushed
<1>15. CASE Wait \/ AwaitEnd
  BY <1>15 DEF Wait, AwaitEnd, Pushed
<1>16. CASE KillRecorded
  <2>2. CASE mode = "stop"
    BY <1>16, <1>b, <2>2 DEF KillRecorded, Pushed
  <2>3. CASE mode # "stop"
    <3>1. Sigkill({p \in rows : Same(p)} \union {}) /\ at' = at
      BY <1>16, <2>3 DEF KillRecorded
    <3>2. {p \in rows : Same(p)} \union {} = {p \in rows : Same(p)}
      OBVIOUS
    <3> QED BY <1>16, <1>b, <3>1, <3>2 DEF KillRecorded, Pushed
  <2> QED BY <2>2, <2>3
<1>17. CASE Adopted
  <2>1. {Cmd} \union {p \in rows : Same(p)} = {p \in rows : Same(p)} \union {Cmd}
    OBVIOUS
  <2> QED BY <1>17, <1>b, <2>1 DEF Adopted, Pushed
<1> QED BY <1>1, <1>2, <1>3, <1>4, <1>5, <1>7, <1>8, <1>9, <1>10, <1>13, <1>15, <1>16, <1>17 DEF ReaperStep

LEMMA StepKinds == TypeOK /\ Cmd \notin reused /\ [Next]_vars => TreeStep \/ Pushed
<1> SUFFICES ASSUME TypeOK, Cmd \notin reused, [Next]_vars, ~ ReaperStep, ~ Tree PROVE Pushed
  BY ReaperPushes DEF Next, Tree, vars
<1>1. CASE Deadline \/ Bound \/ Sigterm \/ UNCHANGED vars
  BY <1>1 DEF Deadline, Bound, Sigterm, vars, procVars, Pushed
<1>2. CASE CtrlZ \/ Fg
  BY <1>2 DEF CtrlZ, Fg, Pushed
<1> QED BY <1>1, <1>2 DEF Next

\* What never turns back, for a process that was born.
Forward ==
  /\ born <= born'
  /\ \A p \in Proc : p <= born =>
       /\ Living(p)' => Living(p)
       /\ state[p] = "gone" => state'[p] = "gone"
       /\ parent[p] = Launchd => parent'[p] = Launchd
       /\ p \in leads /\ Living(p)' => p \in leads'
       /\ p # Cmd /\ image'[p] = "cmd" => image[p] = "cmd"
  /\ at \in {"hooks", "exec"} => at' \in {"hooks", "exec"}
  /\ state[Cmd] \in {"zombie", "gone"} => state'[Cmd] \in {"zombie", "gone"}
  /\ state[Cmd] = "killed" => state'[Cmd] \in {"killed", "zombie"}
  /\ (state[Cmd] # "running" /\ at # "exec") => at' # "exec"

Before == Births /\ Start

LEMMA TreeForward == TypeOK /\ Before /\ TreeStep => Before' /\ Forward
<1> SUFFICES ASSUME TypeOK, Before, TreeStep PROVE Before' /\ Forward
  OBVIOUS
<1> USE DEF TypeOK, ProcTypeOK, Before, Births, Start, Forward, Living, Proc, Cmd, Launchd, Reaper
<1>1. CASE Halt BY <1>1 DEF Halt
<1>2. CASE WriteToken BY <1>2 DEF WriteToken
<1>3. CASE ExecCommand BY <1>3 DEF ExecCommand
<1>4. ASSUME NEW p \in Proc, Fork(p) PROVE Before' /\ Forward
  BY <1>4 DEF Fork
<1>5. ASSUME NEW p \in Proc, Setsid(p) PROVE Before' /\ Forward
  BY <1>5 DEF Setsid
<1>6. ASSUME NEW p \in Proc, Exec(p) PROVE Before' /\ Forward
  BY <1>6 DEF Exec
<1>7. ASSUME NEW p \in Proc, Exit(p) PROVE Before' /\ Forward
  BY <1>7 DEF Exit
<1>8. ASSUME NEW p \in Proc, Waited(p) PROVE Before' /\ Forward
  BY <1>8 DEF Waited
<1>9. ASSUME NEW p \in Proc, Reuse(p) PROVE Before' /\ Forward
  BY <1>9 DEF Reuse
<1> QED BY <1>1, <1>2, <1>3, <1>4, <1>5, <1>6, <1>7, <1>8, <1>9 DEF TreeStep

LEMMA PushedForward == TypeOK /\ Before /\ Pushed => Before' /\ Forward
<1> SUFFICES ASSUME TypeOK, Before, Pushed PROVE Before' /\ Forward
  OBVIOUS
<1> USE DEF TypeOK, ProcTypeOK, Before, Births, Start, Forward, Living, Proc, Cmd, Launchd, Reaper
<1>1. CASE UNCHANGED <<state, at>>
  BY <1>1 DEF Pushed
<1>2. CASE Continue
  BY <1>2 DEF Pushed, Continue
<1>3. ASSUME NEW S \in SUBSET Proc, S \intersect reused = {}, Sigkill(S), at' = at
      PROVE  Before' /\ Forward
  BY <1>3 DEF Pushed, Sigkill
<1>4. CASE state[Cmd] = "zombie" /\ state' = [state EXCEPT ![Cmd] = "gone"] /\ at' = at
  BY <1>4 DEF Pushed
<1>5. CASE tty /\ state[Cmd] = "running" /\ state' = [state EXCEPT ![Cmd] = "stopped"] /\ at' = at
  BY <1>5 DEF Pushed
<1> QED BY <1>1, <1>2, <1>3, <1>4, <1>5 DEF Pushed

LEMMA BeforeStep == TypeOK /\ Before /\ [Next]_vars => Before' /\ Forward
BY StepKinds, TreeForward, PushedForward DEF Before, Start

-----------------------------------------------------------------------------
(* The kill before the exec, and the command that is continued. *)

\* What everybody but the reaper leaves alone.
Elsewhere ==
  /\ UNCHANGED <<rpc, mode, seen, killed, hit, record, todo, ident, closing>>
  /\ stop => stop'

LEMMA NotReaper == [Next]_vars => ReaperStep \/ Elsewhere
<1> SUFFICES ASSUME [Next]_vars, ~ ReaperStep PROVE Elsewhere
  OBVIOUS
<1>1. CASE Tree \/ CtrlZ \/ Fg
  BY <1>1 DEF Tree, CtrlZ, Fg, reaperVars, flags, Elsewhere
<1>2. CASE Deadline \/ Bound \/ UNCHANGED vars
  BY <1>2 DEF Deadline, Bound, vars, reaperVars, flags, Elsewhere
<1>3. CASE Sigterm
  BY <1>3 DEF Sigterm, Elsewhere
<1> QED BY <1>1, <1>2, <1>3 DEF Next

LEMMA KillCommand ==
  ASSUME TypeOK, Births, KillPreexec
  PROVE  state'[Cmd] \in {"killed", "zombie", "gone"}
BY DEF TypeOK, ProcTypeOK, Births, KillPreexec, Sigkill, Living, Proc, Cmd

LEMMA ShotStep == TypeOK /\ Before /\ Shot /\ [Next]_vars => Shot'
<1> SUFFICES ASSUME TypeOK, Before, Shot, [Next]_vars PROVE Shot'
  OBVIOUS
<1>0. Forward
  BY BeforeStep
<1>1. TokenThere => TokenThere'
  BY <1>0 DEF Forward, TokenThere
<1>2. killed => state'[Cmd] \in {"killed", "zombie", "gone"}
  BY <1>0 DEF Forward, Shot
<1> USE DEF Goto, clock, flags, Shots
<1>3. CASE Elsewhere
  BY <1>1, <1>2, <1>3 DEF Elsewhere, Shot
<1>4. CASE SeesStop
  BY <1>2, <1>4, KillCommand DEF SeesStop, ArmAtStop, Before, Shot
<1>5. CASE StopBound
  BY <1>2, <1>5 DEF StopBound, ArmAtStop, Shot
<1>6. CASE Shoot
  BY <1>2, <1>6, KillCommand DEF Shoot, Before, Shot
<1>7. CASE Resume
  BY <1>2, <1>7, KillCommand DEF Resume, Before, Shot
<1>8. CASE Handshake
  BY <1>1, <1>2, <1>8 DEF Handshake, Executed, TokenThere, Shot
<1>9. CASE TakeEvent
  BY <1>1, <1>2, <1>9 DEF TakeEvent, Shot
<1>10. CASE SeesEnd \/ StopsWaiting \/ CloseFds \/ Identify \/ StopSeen \/ Drained
  BY <1>2, <1>10 DEF SeesEnd, StopsWaiting, CloseFds, Identify, StopSeen, Drained, Shot
<1>11. CASE List \/ Walk \/ Walked \/ Tend \/ Wait \/ KillRecorded
  BY <1>2, <1>11 DEF List, Walk, Walked, Tend, Wait, KillRecorded, Shot
<1>12. CASE AwaitEnd \/ Adopted \/ Settle \/ Scan \/ WriteReport
  BY <1>2, <1>12 DEF AwaitEnd, Adopted, Settle, Scan, WriteReport, Shot
<1> QED BY <1>3, <1>4, <1>5, <1>6, <1>7, <1>8, <1>9, <1>10, <1>11, <1>12, NotReaper DEF ReaperStep

-----------------------------------------------------------------------------
(* What is recorded, and the report. *)

LEMMA NoteAdds ==
  ASSUME NEW S, Note(S)
  PROVE  /\ rows' \subseteq rows \union S /\ bare' \subseteq bare \union S
         /\ missed => missed'
BY Zenon DEF Note

\* A living process has been born, and so have all children.
LEMMA ChildrenBorn ==
  ASSUME TypeOK, Births
  PROVE  \A q : \A p \in Children(q) : p \in Proc /\ p <= born
BY DEF TypeOK, ProcTypeOK, Births, Children, Living, Proc

LEMMA OnForkAdds ==
  ASSUME TypeOK, Births, NEW p, NEW exited, OnFork(p, exited)
  PROVE  /\ \A q \in rows' \union bare' : q \in rows \union bare \/ q <= born
         /\ missed => missed'
<1>1. CASE Note(Children(p))
  BY <1>1, NoteAdds, ChildrenBorn
<1>2. CASE UNCHANGED <<rows, bare>> /\ (missed => missed')
  BY <1>2
<1>3. Note(Children(p)) \/ UNCHANGED record \/ (UNCHANGED <<rows, bare>> /\ (missed => missed'))
  BY Zenon DEF OnFork
<1> QED BY <1>1, <1>2, <1>3 DEF record

LEMMA RecordedStep == TypeOK /\ Before /\ Recorded /\ [Next]_vars => Recorded'
<1> SUFFICES ASSUME TypeOK, Before, Recorded, [Next]_vars PROVE Recorded'
  OBVIOUS
<1>0. /\ Forward /\ Before' /\ born \in Int /\ born' \in Int
      /\ rows \subseteq Proc /\ rows \subseteq Int /\ bare \subseteq Int /\ todo \subseteq Int /\ early \subseteq Int
  <2>1. Forward /\ Before' /\ TypeOK'
    BY BeforeStep, TypeStep
  <2>2. born \in Int /\ born' \in Int
    BY <2>1 DEF TypeOK, ProcTypeOK, Proc
  <2>3. Proc \subseteq Int
    BY DEF Proc
  <2> QED BY <2>1, <2>2, <2>3 DEF TypeOK
<1>1. \A p \in rows : state[p] = "gone" => state'[p] = "gone"
  BY <1>0 DEF Forward, Recorded
<1>2. \A p \in rows \union bare \union todo \union early : p <= born'
  BY <1>0 DEF Forward, Recorded
<1> USE DEF Goto, record, closing, Ending, Shots
<1>3. CASE Elsewhere
  BY <1>1, <1>2, <1>3 DEF Elsewhere, Recorded
<1>4. CASE SeesStop \/ SeesEnd \/ StopBound \/ StopsWaiting \/ Shoot \/ CloseFds \/ Resume \/ Handshake
  BY <1>2, <1>4 DEF SeesStop, SeesEnd, StopBound, StopsWaiting, Shoot, CloseFds, Resume, Handshake,
     ArmAtStop, Recorded
<1>5. CASE Identify \/ StopSeen \/ Drained \/ Walked \/ Tend \/ Wait \/ KillRecorded \/ AwaitEnd \/ Adopted
  BY <1>2, <1>5 DEF Identify, StopSeen, Drained, Walked, Tend, Wait, KillRecorded, AwaitEnd, Adopted, Recorded
<1>6. CASE TakeEvent
  <2>1. /\ \A q \in rows' \union bare' : q \in rows \union bare \/ q <= born
        /\ missed => missed'
    BY <1>6, OnForkAdds DEF TakeEvent, Before
  <2> QED BY <1>0, <1>2, <1>6, <2>1 DEF TakeEvent, Forward, Recorded
<1>7. CASE List
  BY <1>0, <1>2, <1>7, ChildrenBorn DEF List, Before, Forward, Recorded
<1>8. CASE Walk
  <2>1. PICK p \in todo : Note({p}) /\ todo' = (todo \ {p}) \union Children(p)
    BY <1>8 DEF Walk
  <2>2. rows' \subseteq rows \union {p} /\ bare' \subseteq bare \union {p} /\ (missed => missed')
    BY <2>1, NoteAdds
  <2>3. \A q \in Children(p) : q <= born'
    <3>1. \A q \in Children(p) : q \in Proc /\ q <= born
      BY ChildrenBorn DEF Before
    <3> QED BY <1>0, <3>1 DEF Forward, Proc
  <2> QED BY <1>2, <1>8, <2>1, <2>2, <2>3 DEF Walk, Recorded
<1>9. CASE Settle
  <2>1. missed' \/ \A p \in rows : state[p] = "gone"
    <3>1. missed' \/ Pending = {}
      BY <1>9, Zenon DEF Settle
    <3>2. \A p \in rows : state[p] # "unborn"
      BY <1>0 DEF Before, Births, Recorded, TypeOK, ProcTypeOK, Proc
    <3>3. \A p \in rows \ Pending : state[p] = "gone"
      BY <3>2 DEF Pending, Living, Same, Before, Births, TypeOK, ProcTypeOK
    <3> QED BY <3>1, <3>3
  <2>2. \A p \in leads : Living(p) => p <= born'
    BY <1>0 DEF Before, Births, Living, Forward, TypeOK, ProcTypeOK
  <2> QED BY <1>1, <1>2, <1>9, <2>1, <2>2 DEF Settle, procVars, Recorded
<1>10. CASE Scan
  BY <1>1, <1>2, <1>10 DEF Scan, procVars, Recorded
<1>11. CASE WriteReport
  BY <1>1, <1>2, <1>11 DEF WriteReport, procVars, Recorded
<1> QED BY <1>3, <1>4, <1>5, <1>6, <1>7, <1>8, <1>9, <1>10, <1>11, NotReaper DEF ReaperStep

-----------------------------------------------------------------------------
(* The identity of the command. *)

Identity == [start : {0} \union Proc, name : {"none", "cmd", "other"}]

\* remember_identity takes a name and a start time together, and only once;
\* the command's own name is its program's.
LEMMA LearnNames ==
  ASSUME TypeOK, Start, NEW i \in Identity, NamedAs(i), NEW p \in Proc
  PROVE  /\ Learn(i, p) \in Identity /\ NamedAs(Learn(i, p))
         /\ i.start # 0 => Learn(i, p).start # 0
         /\ i.start \notin {0, Cmd} => Learn(i, p) = i
BY DEF TypeOK, ProcTypeOK, Start, Identity, NamedAs, Learn, Proc, Cmd

LEMMA SealNames ==
  ASSUME NEW i \in Identity, NamedAs(i)
  PROVE  /\ Seal(i) \in Identity /\ NamedAs(Seal(i)) /\ Seal(i).start = i.start
         /\ i.start \notin {0, Cmd} => Seal(i) = i
         /\ i.start = Cmd => Seal(i).name = "cmd"
BY DEF Identity, NamedAs, Seal, Cmd

LEMMA OnForkNames ==
  ASSUME TypeOK, Start, Named, NEW p \in Proc, NEW exited, OnFork(p, exited)
  PROVE  NamedAs(ident') /\ (ident.start # 0 => ident'.start # 0)
<1>0. Cmd \in Proc /\ ident \in Identity
  BY DEF TypeOK, Identity, Proc, Cmd
<1> DEFINE one == Learn(ident, p)
           two == Learn(one, Cmd)
<1>1. one \in Identity /\ NamedAs(one) /\ (ident.start # 0 => one.start # 0)
  BY <1>0, LearnNames DEF Named
<1>2. two \in Identity /\ NamedAs(two) /\ (one.start # 0 => two.start # 0)
  BY <1>0, <1>1, LearnNames
<1>3. NamedAs(Seal(two)) /\ Seal(two).start = two.start
  BY <1>2, SealNames
<1>4. ident' = two \/ ident' = Seal(two)
  BY Zenon DEF OnFork
<1> QED BY <1>1, <1>2, <1>3, <1>4 DEF Named

\* No step takes the start time away again.
LEMMA NamedStep == TypeOK /\ Start /\ Named /\ [Next]_vars => Named' /\ (ident.start # 0 => ident'.start # 0)
<1> SUFFICES ASSUME TypeOK, Start, Named, [Next]_vars PROVE Named' /\ (ident.start # 0 => ident'.start # 0)
  OBVIOUS
<1>0. Cmd \in Proc /\ ident \in Identity
  BY DEF TypeOK, Identity, Proc, Cmd
<1> DEFINE kept == NamedAs(ident') /\ (ident.start # 0 => ident'.start # 0)
<1>1. UNCHANGED ident => kept
  BY DEF Named, NamedAs
<1>2. ident' = Learn(ident, Cmd) => kept
  BY <1>0, LearnNames DEF Named
<1>3. ident' = Seal(Learn(ident, Cmd)) => kept
  BY <1>0, LearnNames, SealNames DEF Named
<1> USE DEF Goto
<1>4. CASE Resume
  <2>1. ident.name = "none" /\ rpc' \notin {"await_stop", "shoot_at_the_stop", "close_fds", "resume"}
    BY <1>4 DEF Resume, Named
  <2>2. ident' = ident \/ ident' = [ident EXCEPT !.start = Cmd]
    BY <1>4 DEF Resume
  <2> QED BY <1>0, <2>1, <2>2 DEF Named, NamedAs, Identity, Cmd
<1>5. CASE TakeEvent
  <2>1. Head(events) \in Proc
    BY <1>5 DEF TakeEvent, TypeOK, ProcTypeOK
  <2> QED BY <1>5, <2>1, OnForkNames DEF TakeEvent, Named
<1>6. CASE Elsewhere
  BY <1>1, <1>6 DEF Elsewhere, Named
<1>7. CASE SeesStop \/ SeesEnd \/ StopBound \/ StopsWaiting \/ Shoot \/ CloseFds \/ Handshake \/ StopSeen
  BY <1>1, <1>7 DEF SeesStop, SeesEnd, StopBound, StopsWaiting, Shoot, CloseFds, Handshake, StopSeen, Named
<1>8. CASE Drained \/ List \/ Walk \/ Walked \/ Wait \/ KillRecorded \/ AwaitEnd \/ Adopted \/ Settle \/ WriteReport
  BY <1>1, <1>8 DEF Drained, List, Walk, Walked, Wait, KillRecorded, AwaitEnd, Adopted, Settle, WriteReport, Named
<1>9. CASE Identify \/ Tend \/ Scan
  BY <1>1, <1>2, <1>3, <1>9 DEF Identify, Tend, Scan, Shots, Named
<1> QED BY <1>4, <1>5, <1>6, <1>7, <1>8, <1>9, NotReaper DEF ReaperStep

\* Only the reaper continues a command whose stop it has seen.
LEMMA StaysStopped ==
  ASSUME TypeOK, [Next]_vars, ~ ReaperStep, rpc # "await_stop", state[Cmd] # "running"
  PROVE  state'[Cmd] # "running"
<1> USE DEF TypeOK, ProcTypeOK, Proc, Cmd
<1>1. CASE Tree
  <2>1. CASE Halt \/ WriteToken \/ ExecCommand
    BY <2>1 DEF Halt, WriteToken, ExecCommand
  <2>2. ASSUME NEW p \in Proc, Fork(p) \/ Setsid(p) \/ Exec(p) \/ Exit(p) \/ Waited(p) \/ Reuse(p)
        PROVE  state'[Cmd] # "running"
    BY <2>2 DEF Fork, Setsid, Exec, Exit, Waited, Reuse
  <2> QED BY <1>1, <2>1, <2>2 DEF Tree, TreeStep
<1>2. CASE CtrlZ \/ Fg
  BY <1>2 DEF CtrlZ, Fg
<1>3. CASE Deadline \/ Bound \/ Sigterm \/ UNCHANGED vars
  BY <1>3 DEF Deadline, Bound, Sigterm, vars, procVars
<1> QED BY <1>1, <1>2, <1>3 DEF Next

LEMMA SeenStep == TypeOK /\ Before /\ Named /\ Seen /\ [Next]_vars => Seen'
<1> SUFFICES ASSUME TypeOK, Before, Named, Seen, [Next]_vars PROVE Seen'
  OBVIOUS
<1>0. Forward /\ TypeOK' /\ Before' /\ (ident.start # 0 => ident'.start # 0)
  BY BeforeStep, TypeStep, NamedStep DEF Before
<1>1. state[Cmd] \in {"zombie", "gone"} /\ at # "exec" => state'[Cmd] \in {"zombie", "gone"} /\ at' # "exec"
  BY <1>0 DEF Forward
<1>2. state'[Cmd] # "unborn"
  BY <1>0 DEF Before, Births, TypeOK, ProcTypeOK, Proc, Cmd
<1> USE DEF Goto, Shots
<1>3. CASE Elsewhere /\ ~ ReaperStep
  <2>1. CASE seen /\ rpc \in {"close_fds", "resume"}
    <3>1. state[Cmd] # "running" /\ at # "exec" /\ rpc # "await_stop"
      BY <2>1 DEF Seen
    <3>2. state'[Cmd] # "running" /\ at' # "exec"
      BY <1>0, <1>3, <3>1, StaysStopped DEF Forward
    <3>3. state' \in [Proc -> {"unborn", "running", "stopped", "killed", "zombie", "gone"}] /\ Cmd \in Proc
      BY <1>0 DEF TypeOK, ProcTypeOK, Proc, Cmd
    <3> QED BY <1>2, <1>3, <2>1, <3>2, <3>3 DEF Elsewhere, Seen
  <2> QED BY <1>1, <1>3, <2>1 DEF Elsewhere, Seen
<1>4. CASE SeesStop
  BY <1>4 DEF SeesStop, ArmAtStop, NoSignal, Seen, Before, Start
<1>5. CASE StopBound
  BY <1>5 DEF StopBound, ArmAtStop, NoSignal, Stopped, Seen
<1>6. CASE SeesEnd \/ StopsWaiting \/ Shoot
  BY <1>1, <1>6 DEF SeesEnd, StopsWaiting, Shoot, Seen
<1>7. CASE CloseFds
  BY <1>7 DEF CloseFds, procVars, Seen
<1>8. CASE Resume
  <2>1. CASE seen /\ ident'.start = 0
    <3>1. ~ Readable /\ at # "exec" /\ state[Cmd] \in {"stopped", "killed", "zombie", "gone"}
      BY <1>8, <2>1 DEF Resume, Seen, Identity, TypeOK, Cmd
    <3>2. state[Cmd] \in {"zombie", "gone"}
      BY <3>1 DEF Readable, Living
    <3> QED BY <1>1, <1>8, <3>1, <3>2 DEF Resume, Seen
  <2> QED BY <1>8, <2>1 DEF Resume, Seen
<1>9. CASE Handshake \/ TakeEvent \/ Identify \/ StopSeen \/ Drained \/ List
  BY <1>0, <1>1, <1>9 DEF Handshake, TakeEvent, Identify, StopSeen, Drained, List, Seen
<1>10. CASE Walk \/ Walked \/ Tend \/ Wait \/ KillRecorded
  BY <1>0, <1>1, <1>10 DEF Walk, Walked, Tend, Wait, KillRecorded, Seen
<1>11. CASE AwaitEnd \/ Adopted \/ Settle \/ Scan \/ WriteReport
  BY <1>0, <1>1, <1>11 DEF AwaitEnd, Adopted, Settle, Scan, WriteReport, Seen
<1> QED BY <1>3, <1>4, <1>5, <1>6, <1>7, <1>8, <1>9, <1>10, <1>11, NotReaper DEF ReaperStep

-----------------------------------------------------------------------------
(* The scan for leaders. *)

LEMMA LeadersStep == TypeOK /\ Before /\ Recorded /\ Leaders /\ [Next]_vars => Leaders'
<1> SUFFICES ASSUME TypeOK, Before, Recorded, Leaders, [Next]_vars PROVE Leaders'
  OBVIOUS
<1>0. Forward
  BY BeforeStep
<1>1. UNCHANGED early => Leaders'
  BY <1>0 DEF Forward, Leaders, Recorded, TypeOK
<1>2. CASE Settle
  BY <1>2 DEF Settle, procVars, Leaders, Living
<1>3. CASE Elsewhere
  BY <1>1, <1>3 DEF Elsewhere, closing
<1> USE DEF closing
<1>4. CASE SeesStop \/ SeesEnd \/ StopBound \/ StopsWaiting \/ Shoot \/ CloseFds \/ Resume \/ Handshake
  BY <1>1, <1>4 DEF SeesStop, SeesEnd, StopBound, StopsWaiting, Shoot, CloseFds, Resume, Handshake
<1>5. CASE TakeEvent \/ Identify \/ StopSeen \/ Drained \/ List \/ Walk \/ Walked \/ Tend
  BY <1>1, <1>5 DEF TakeEvent, Identify, StopSeen, Drained, List, Walk, Walked, Tend
<1>6. CASE Wait \/ KillRecorded \/ AwaitEnd \/ Adopted \/ Scan \/ WriteReport
  BY <1>1, <1>6 DEF Wait, KillRecorded, AwaitEnd, Adopted, Scan, WriteReport
<1> QED BY <1>2, <1>3, <1>4, <1>5, <1>6, NotReaper DEF ReaperStep

\* Nobody becomes untold after the last walk.
LEMMA UntoldShrinks ==
  ASSUME TypeOK, Before, Recorded, Leaders, [Next]_vars, UNCHANGED <<early, rows, bare>>
  PROVE  Untold' \subseteq Untold
<1>1. Forward /\ Leaders' /\ Before'
  BY BeforeStep, LeadersStep
<1>2. Cmd \notin Untold'
  BY <1>1 DEF Untold, Leaders, Before, Start
<1> QED BY <1>1, <1>2 DEF Untold, Forward, Recorded, TypeOK

\* A list that is not late and shows nobody: there is nobody.
LEMMA NobodyShown ==
  ASSUME TypeOK, Before, Recorded, Leaders, Named, Seen, seen, Scan,
         ident'.start \in {0, Cmd}, Untracked(ident', Proc) = {}
  PROVE  Untold = {}
<1>0. Cmd \in Proc /\ ident \in Identity
  BY DEF TypeOK, Identity, Proc, Cmd
<1>1. ident' = Seal(Learn(ident, Cmd))
  BY DEF Scan
<1>2. Learn(ident, Cmd) \in Identity /\ NamedAs(Learn(ident, Cmd))
  BY <1>0, LearnNames DEF Before, Named
<1>3. Cmd \notin Untold
  BY DEF Untold, Leaders, Before, Start
<1>4. CASE ident'.start = 0
  <2>1. ident.start = 0
    BY <1>0, <1>1, <1>2, <1>4, LearnNames, SealNames DEF Before, Named
  <2>2. born = Cmd
    BY <2>1 DEF Scan, Seen, Before, Start
  <2>3. \A p \in early : p = Cmd
    BY <2>2 DEF Recorded, TypeOK, Proc, Cmd
  <2> QED BY <1>3, <2>3 DEF Untold
<1>5. CASE ident'.start = Cmd
  <2>1. ident'.name = "cmd"
    BY <1>1, <1>2, <1>5, SealNames
  <2>2. \A p \in Untold : p \in Proc /\ p # Cmd /\ p >= Cmd /\ Living(p) /\ p \in leads /\ parent[p] = Launchd
    BY <1>3 DEF Untold, Leaders, TypeOK, Proc, Cmd
  <2>3. \A p \in Untold : p \in Untracked(ident', Proc)
    <3> HIDE DEF Cmd
    <3> QED BY <1>5, <2>1, <2>2 DEF Untold, Untracked, Cmd
  <2> QED BY <2>3
<1> QED BY <1>4, <1>5

LEMMA ScannedStep ==
  TypeOK /\ Before /\ Recorded /\ Leaders /\ Named /\ Seen /\ Scanned /\ [Next]_vars => Scanned'
<1> SUFFICES ASSUME TypeOK, Before, Recorded, Leaders, Named, Seen, Scanned, [Next]_vars PROVE Scanned'
  OBVIOUS
<1> USE DEF Goto, record, closing, Ending, Shots
<1>1. CASE Elsewhere
  <2>1. Untold' \subseteq Untold
    BY <1>1, UntoldShrinks DEF Elsewhere
  <2> QED BY <1>1, <2>1 DEF Elsewhere, Scanned
<1>2. CASE SeesStop \/ SeesEnd \/ StopBound \/ StopsWaiting \/ Shoot \/ CloseFds \/ Resume \/ Handshake
  BY <1>2 DEF SeesStop, SeesEnd, StopBound, StopsWaiting, Shoot, CloseFds, Resume, Handshake, Scanned
<1>3. CASE TakeEvent \/ Identify \/ StopSeen \/ Drained \/ List \/ Walk \/ Walked \/ Tend
  BY <1>3 DEF TakeEvent, Identify, StopSeen, Drained, List, Walk, Walked, Tend, Scanned
<1>4. CASE Wait \/ KillRecorded \/ AwaitEnd \/ Adopted
  BY <1>4 DEF Wait, KillRecorded, AwaitEnd, Adopted, Scanned
<1>5. CASE Settle
  BY <1>5 DEF Settle, Scanned, TypeOK
<1>6. CASE WriteReport
  <2>1. Untold' \subseteq Untold
    BY <1>6, UntoldShrinks DEF WriteReport
  <2> QED BY <1>6, <2>1 DEF WriteReport, Scanned
<1>7. CASE Scan
  <2>0. Cmd \in Proc /\ ident \in Identity /\ polls \in Nat /\ lies \in Nat
    BY DEF TypeOK, Identity, Proc, Cmd
  <2>1. ident.start \notin {0, Cmd} => ident' = ident
    BY <1>7, <2>0, LearnNames, SealNames DEF Scan, Before, Named
  <2>2. Untold' \subseteq Untold
    BY <1>7, UntoldShrinks DEF Scan
  <2>3. PICK late \in BOOLEAN :
          /\ lies' = IF late THEN lies + 1 ELSE lies
          /\ LET found == ~ late /\ Untracked(ident', Proc) # {}
             IN missed' = (missed \/ found) /\ Goto(IF found \/ polls' = Polls THEN "write" ELSE "scan")
    BY <1>7 DEF Scan
  <2>4. polls' = polls + 1 /\ rpc = "scan" /\ UNCHANGED seen
    BY <1>7 DEF Scan
  <2>5. ASSUME ~ missed', seen, ident'.start \in {0, Cmd}, polls' > lies' PROVE Untold = {}
    <3>1. CASE late
      <4>1. ~ missed
        BY <2>3, <2>5, Zenon
      <4>2. polls > lies
        BY <2>0, <2>3, <2>4, <2>5, <3>1
      <4>3. ident.start \in {0, Cmd}
        BY <2>1, <2>5
      <4> QED BY <2>4, <2>5, <4>1, <4>2, <4>3 DEF Scanned
    <3>2. CASE ~ late
      <4>1. Untracked(ident', Proc) = {}
        BY <2>3, <2>5, <3>2
      <4> QED BY <1>7, <2>5, <4>1, NobodyShown
    <3> QED BY <3>1, <3>2
  <2>6. rpc' = "write" => missed' \/ polls' = Polls
    BY <2>3
  <2>7. rpc' \in {"write", "scan"}
    BY <2>3
  <2> QED BY <2>2, <2>4, <2>5, <2>6, <2>7 DEF Scanned
<1> QED BY <1>1, <1>2, <1>3, <1>4, <1>5, <1>6, <1>7, NotReaper DEF ReaperStep

-----------------------------------------------------------------------------
(* The theorems. *)

Inv == Before /\ Shot /\ Recorded /\ Named /\ Seen /\ Leaders /\ Scanned

\* What the theorems below rest on is true at the start and kept by every step.
THEOREM InvCorrect == Spec => []Inv
<1>1. Init => Inv
  <2> SUFFICES ASSUME Init PROVE Inv
    OBVIOUS
  <2>1. Before
    BY DEF Init, ProcInit, Before, Births, Start, Proc, Cmd
  <2>2. Shot /\ Recorded /\ Seen /\ Named /\ Leaders /\ Scanned
    BY DEF Init, Shot, Recorded, Seen, Named, NamedAs, Leaders, Scanned, Ending, Cmd
  <2> QED BY <2>1, <2>2 DEF Inv
<1>2. TypeOK /\ Inv /\ [Next]_vars => Inv'
  BY BeforeStep, ShotStep, RecordedStep, NamedStep, SeenStep, LeadersStep, ScannedStep DEF Inv, Before
<1> QED BY <1>1, <1>2, TypeCorrect, PTL DEF Spec

\* With a clean report every recorded process has been waited for: after
\* settle_recorded nothing is recorded any more, and what is gone stays gone.
THEOREM RecordedCorrect == Spec => []RecordedAreGone
<1>1. TypeOK /\ Inv => RecordedAreGone
  BY DEF TypeOK, Inv, Recorded, Ending, RecordedAreGone
<1> QED BY <1>1, InvCorrect, TypeCorrect, PTL

\* The name scan finds every leader that was launchd's before the report began,
\* if fewer lists come late than write_report reads.
THEOREM LeadersCorrect ==
  ASSUME MaxLies < Polls
  PROVE  Spec => []LeadersAreTold
<1>1. TypeOK /\ Inv => LeadersAreTold
  <2> SUFFICES ASSUME TypeOK, Inv, report = "clean", seen, ident.start \in {0, Cmd}
      PROVE  \A p \in early \ (rows \union bare) : ~ (Living(p) /\ image[p] = "cmd")
    BY DEF LeadersAreTold
  <2>1. rpc = "over" /\ ~ missed
    BY DEF Inv, Recorded
  <2>2. polls > lies
    BY <2>1 DEF Inv, Scanned, TypeOK
  <2>3. Untold = {}
    BY <2>1, <2>2 DEF Inv, Scanned, Ending
  <2> QED BY <2>3 DEF Untold
<1> QED BY <1>1, InvCorrect, TypeCorrect, PTL

\* The reaper continues a stopped command before its deadline only, or in order
\* to end it: Resume and Handshake look at the clock, what is identified has had
\* its handshake, and Tend does not continue what was killed.
THEOREM StartsInTime == Spec => NeverStartsLate
<1>1. Inv /\ ReaperStep /\ at = "halted" /\ at' = "token" => ~ due \/ stop
  <2> SUFFICES ASSUME Inv, ReaperStep, at = "halted", at' = "token" PROVE ~ due \/ stop
    OBVIOUS
  <2> USE DEF NoSignal, KillPreexec, procVars
  <2>1. CASE Resume
    BY <2>1 DEF Resume
  <2>2. CASE Handshake
    BY <2>2 DEF Handshake, BoundHit
  <2>3. CASE Identify
    BY <2>3 DEF Identify, Stopped, Inv, Shot, TokenThere
  <2>4. CASE Tend
    BY <2>4 DEF Tend, Stopped, Readable, Living, Inv, Shot
  <2>5. CASE SeesStop \/ SeesEnd \/ StopBound \/ StopsWaiting \/ Shoot \/ CloseFds \/ TakeEvent
    BY <2>5 DEF SeesStop, SeesEnd, StopBound, ArmAtStop, StopsWaiting, Shoot, CloseFds, TakeEvent
  <2>6. CASE StopSeen \/ Drained \/ List \/ Walk \/ Walked \/ Wait \/ KillRecorded
    BY <2>6 DEF StopSeen, Drained, List, Walk, Walked, Wait, KillRecorded
  <2>7. CASE AwaitEnd \/ Adopted \/ Settle \/ Scan \/ WriteReport
    BY <2>7 DEF AwaitEnd, Adopted, Settle, Scan, WriteReport
  <2> QED BY <2>1, <2>2, <2>3, <2>4, <2>5, <2>6, <2>7 DEF ReaperStep
<1> QED BY <1>1, InvCorrect, PTL DEF Spec, NeverStartsLate
=============================================================================
