--------------------------- MODULE DestHideProofs ---------------------------
(***************************************************************************)
(* The invariants of DestHide for any number of runs, names and edits.     *)
(* Each run is followed through its phases by `Good`, which speaks of its  *)
(* own record and of the files; a step of anybody else is a change of one  *)
(* file that this run learns of only as history.                           *)
(***************************************************************************)
EXTENDS DestHide, TLAPS

USE HideAssumption DEF HideAssumption

-----------------------------------------------------------------------------
(* The inductive invariant.  s is the record of the run r. *)

Names(s) == s.collected \union s.plants

Busy(s) == s.phase \notin {"idle", "crashed"}
HasChild(s) == s.phase \in {"bind", "running"}

\* Mounts are the child's own between Enter and the end of the call.
Mounts(s) ==
  /\ s.entered => HasChild(s)
  /\ s.phase = "bind" => s.entered
  /\ s.phase = "running" /\ s.entered => s.todo = {}

\* What was told when nothing is bound.
Told(r, s) ==
  /\ s.applied = "skipped" => r \notin Strict
  /\ s.phase = "running" /\ ~ s.entered =>
       Names(s) = {} \/ (s.applied = "skipped" /\ Names(s) \subseteq Workspace)

\* A name is bound, still to be bound, or changed since the first bind.
Bound(s) ==
  HasChild(s) /\ s.entered =>
    \A p \in Names(s) : Exists(p) => p \in s.todo \union s.hidden \union s.fresh

\* The run remembers its plants until it removes them, or fails to.
Remembered(r, s) ==
  /\ \A p \in Path : file[p].by = r /\ ~ file[p].data =>
       p \in s.left \/ (p \in s.plants /\ (s.phase = "drop" => p \in s.todo))
  /\ s.phase = "drop" => s.todo \subseteq s.plants
  /\ s.phase = "idle" => s.plants = {}

\* Contents below a plant came after it.
Younger(s) == \A p \in s.plants : file[p].data => file[p].over

\* What the list of names and the plants leave out was changed by others.
Listed(s) ==
  Busy(s) =>
    /\ \A p \in Path : Exists(p) => p \in Names(s) \union s.stale \union s.left
    /\ \A p \in s.collected : ~ Exists(p) => p \in s.stale
    /\ \A p \in s.plants : p \in s.collected \/ file[p].data => p \in s.stale
    /\ \A p \in s.plants : ~ Exists(p) /\ s.phase # "drop" => p \in s.stale
    /\ \A p \in s.plants : s.phase = "drop" /\ Exists(p) /\ p \notin s.todo => p \in s.stale \union s.left

\* A name that could be planted is listed, planted, or next.
Planned(s) ==
  s.probed /\ s.phase \in {"occupy", "spawn", "bind", "running"} =>
    \A p \in Occupiable :
      p \in Names(s) \union s.stale \union s.left \/ (s.phase = "occupy" /\ p \in s.todo)

\* As Bound, for the names that nobody else changed since the listing.
Covered(s) ==
  HasChild(s) /\ s.entered => Names(s) \subseteq s.todo \union s.hidden \union s.stale

Good(r, s) ==
  /\ Mounts(s) /\ Told(r, s) /\ Bound(s) /\ Remembered(r, s)
  /\ Younger(s) /\ Listed(s) /\ Planned(s) /\ Covered(s)

Inv ==
  /\ TypeOK
  /\ \A r \in Run : Good(r, run[r])
  /\ OldFilesSurvive

-----------------------------------------------------------------------------
(* Steps of one run that touch no file. *)

\* It is enough to look at the record that changes.
LEMMA OwnStep ==
  ASSUME Inv, NEW r \in Run, NEW new \in RunState, Set(r, new), Good(r, new)
  PROVE  Inv'
<1> USE DEF Inv, Set, Still
<1>1. TypeOK'
  BY DEF TypeOK
<1>2. OldFilesSurvive'
  BY DEF OldFilesSurvive
<1>3. ASSUME NEW q \in Run PROVE Good(q, run[q])'
  <2>1. run'[q] = IF q = r THEN new ELSE run[q]
    BY DEF TypeOK
  <2>2. Good(q, run'[q])
    BY <2>1
  <2> QED
    BY <2>2 DEF Good, Mounts, Told, Bound, Remembered, Younger, Listed, Planned, Covered, Exists, Names, Busy, HasChild
<1> QED
  BY <1>1, <1>2, <1>3

\* process_jail.
LEMMA CollectGood == ASSUME Inv, NEW r \in Run, Collect(r) PROVE Inv'
<1> DEFINE C == {p \in Path : Exists(p)}
           new == [run[r] EXCEPT !.phase = "ready", !.stale = {}, !.collected = C]
<1>1. C \subseteq Path /\ \A p \in Path : p \in C <=> Exists(p)
  OBVIOUS
<1>2. Set(r, new) /\ run[r].phase = "idle"
  BY DEF Collect, At
<1>3. Good(r, run[r]) /\ run[r] \in RunState
  BY DEF Inv, TypeOK
<1> HIDE DEF C
<1>4. new \in RunState
  BY <1>1, <1>3 DEF RunState, Phases
<1>5. Good(r, new)
  BY <1>1, <1>2, <1>3 DEF Good, Mounts, Told, Bound, Remembered, Younger, Listed, Planned, Covered, Exists, Names, Busy, HasChild, RunState
<1> QED
  BY <1>2, <1>4, <1>5, OwnStep

\* run_child begins.
LEMMA LaunchGood == ASSUME Inv, NEW r \in Run, Launch(r) PROVE Inv'
<1>1. PICK can \in BOOLEAN :
        Set(r, [run[r] EXCEPT !.phase = "occupy", !.launches = @ + 1, !.probed = can,
                              !.todo = IF can THEN Occupiable ELSE {}])
  BY DEF Launch
<1> DEFINE T == IF can THEN Occupiable ELSE {}
           new == [run[r] EXCEPT !.phase = "occupy", !.launches = @ + 1, !.probed = can, !.todo = T]
<1>2. Set(r, new) /\ run[r].phase = "ready"
  BY <1>1 DEF Launch, At
<1>3. Good(r, run[r]) /\ run[r] \in RunState
  BY DEF Inv, TypeOK
<1>4. new \in RunState
  <2>1. T \subseteq Path /\ run[r].launches + 1 \in Nat
    BY <1>3 DEF RunState
  <2> HIDE DEF T
  <2> QED
    BY <1>3, <2>1 DEF RunState, Phases
<1>5. Good(r, new)
  BY <1>2, <1>3 DEF Good, Mounts, Told, Bound, Remembered, Younger, Listed, Planned, Covered, Exists, Names, Busy, HasChild, RunState
<1> QED
  BY <1>2, <1>4, <1>5, OwnStep

\* The call returns, from any of its phases.
LEMMA LeaveGood ==
  ASSUME Inv, NEW r \in Run, GoDrop(r), run[r].phase \in {"occupy", "spawn", "bind", "running"}
  PROVE  Inv'
<1> DEFINE new == Leaving(run[r])
<1>1. Good(r, run[r]) /\ run[r] \in RunState /\ Set(r, new)
  BY DEF Inv, TypeOK, GoDrop
<1>2. new \in RunState
  BY <1>1 DEF RunState, Phases, Leaving
<1>3. Good(r, new)
  BY <1>1 DEF Good, Mounts, Told, Bound, Remembered, Younger, Listed, Planned, Covered, Exists, Names, Busy, HasChild, RunState, Leaving
<1> QED
  BY <1>1, <1>2, <1>3, OwnStep

\* remount_status.
LEMMA HookGood == ASSUME Inv, NEW r \in Run, Hook(r) PROVE Inv'
<1>1. Good(r, run[r]) /\ run[r] \in RunState /\ run[r].phase = "occupy" /\ run[r].todo = {}
  BY DEF Inv, TypeOK, Hook, At
<1>2. ASSUME NEW a \in {"applied", "skipped"}, MaySpawn(r, a),
             Set(r, [run[r] EXCEPT !.phase = "spawn", !.applied = a])
      PROVE  Inv'
  <2> DEFINE new == [run[r] EXCEPT !.phase = "spawn", !.applied = a]
  <2>1. new \in RunState
    BY <1>1 DEF RunState, Phases
  <2>2. Good(r, new)
    BY <1>1, <1>2 DEF Good, Mounts, Told, Bound, Remembered, Younger, Listed, Planned, Covered, Exists, Names, Busy, HasChild, RunState, MaySpawn
  <2> QED
    BY <1>2, <2>1, <2>2, OwnStep
<1>3. CASE GoDrop(r)
  BY <1>1, <1>3, LeaveGood
<1> QED
  BY <1>2, <1>3 DEF Hook, MaySpawn

\* The child gets its namespace, or is told that it may not have one.
LEMMA EnterGood == ASSUME Inv, NEW r \in Run, Enter(r) PROVE Inv'
<1>1. Good(r, run[r]) /\ run[r] \in RunState /\ run[r].phase = "spawn"
  BY DEF Inv, TypeOK, Enter, At
<1>2. CASE GoDrop(r)
  BY <1>1, <1>2, LeaveGood
<1>3. CASE Set(r, [run[r] EXCEPT !.phase = "bind", !.entered = TRUE, !.todo = Dests(r), !.fresh = {}])
  <2> DEFINE new == [run[r] EXCEPT !.phase = "bind", !.entered = TRUE, !.todo = Dests(r), !.fresh = {}]
  <2>1. new \in RunState
    BY <1>1 DEF RunState, Phases, Dests
  <2>2. Good(r, new)
    BY <1>1 DEF Good, Mounts, Told, Bound, Remembered, Younger, Listed, Planned, Covered, Exists, Names, Busy, HasChild, RunState, Dests
  <2> QED
    BY <1>3, <2>1, <2>2, OwnStep
<1>4. CASE /\ Dests(r) = {} \/ (run[r].applied = "skipped" /\ ~ Outside(r))
           /\ Set(r, [run[r] EXCEPT !.phase = "running", !.fresh = {}])
  <2> DEFINE new == [run[r] EXCEPT !.phase = "running", !.fresh = {}]
  <2>1. new \in RunState
    BY <1>1 DEF RunState, Phases
  <2>2. Good(r, new)
    BY <1>1, <1>4 DEF Good, Mounts, Told, Bound, Remembered, Younger, Listed, Planned, Covered, Exists, Names, Busy, HasChild, RunState, Dests, Outside
  <2> QED
    BY <1>4, <2>1, <2>2, OwnStep
<1> QED
  BY <1>2, <1>3, <1>4 DEF Enter

\* bind_over.
LEMMA BindGood == ASSUME Inv, NEW r \in Run, NEW p \in Path, Bind(r, p) PROVE Inv'
<1>1. Good(r, run[r]) /\ run[r] \in RunState /\ run[r].phase = "bind"
  BY DEF Inv, TypeOK, Bind, At
<1>2. CASE Exists(p) /\ Set(r, [run[r] EXCEPT !.todo = @ \ {p}, !.hidden = @ \union {p}])
  <2> DEFINE new == [run[r] EXCEPT !.todo = @ \ {p}, !.hidden = @ \union {p}]
  <2>1. new \in RunState
    BY <1>1 DEF RunState, Phases
  <2>2. Good(r, new)
    BY <1>1, <1>2 DEF Good, Mounts, Told, Bound, Remembered, Younger, Listed, Planned, Covered, Exists, Names, Busy, HasChild, RunState
  <2> QED
    BY <1>2, <2>1, <2>2, OwnStep
<1>3. CASE ~ Exists(p) /\ Set(r, [run[r] EXCEPT !.todo = @ \ {p}])
  <2> DEFINE new == [run[r] EXCEPT !.todo = @ \ {p}]
  <2>1. new \in RunState
    BY <1>1 DEF RunState, Phases
  <2>2. Good(r, new)
    BY <1>1, <1>3 DEF Good, Mounts, Told, Bound, Remembered, Younger, Listed, Planned, Covered, Exists, Names, Busy, HasChild, RunState
  <2> QED
    BY <1>3, <2>1, <2>2, OwnStep
<1>4. CASE GoDrop(r)
  BY <1>1, <1>4, LeaveGood
<1> QED
  BY <1>2, <1>3, <1>4 DEF Bind

\* The child starts.
LEMMA ExecGood == ASSUME Inv, NEW r \in Run, Exec(r) PROVE Inv'
<1>1. Good(r, run[r]) /\ run[r] \in RunState /\ run[r].phase = "bind" /\ run[r].todo = {}
  BY DEF Inv, TypeOK, Exec, At
<1>2. CASE Set(r, [run[r] EXCEPT !.phase = "running"])
  <2> DEFINE new == [run[r] EXCEPT !.phase = "running"]
  <2>1. new \in RunState
    BY <1>1 DEF RunState, Phases
  <2>2. Good(r, new)
    BY <1>1 DEF Good, Mounts, Told, Bound, Remembered, Younger, Listed, Planned, Covered, Exists, Names, Busy, HasChild, RunState
  <2> QED
    BY <1>2, <2>1, <2>2, OwnStep
<1>3. CASE GoDrop(r)
  BY <1>1, <1>3, LeaveGood
<1> QED
  BY <1>2, <1>3 DEF Exec

\* The plants are gone.
LEMMA ReturnGood == ASSUME Inv, NEW r \in Run, Return(r) PROVE Inv'
<1> DEFINE new == [run[r] EXCEPT !.phase = "ready", !.plants = {}, !.applied = "none", !.probed = FALSE]
<1>1. Good(r, run[r]) /\ run[r] \in RunState /\ run[r].phase = "drop" /\ run[r].todo = {} /\ Set(r, new)
  BY DEF Inv, TypeOK, Return, At
<1>2. new \in RunState
  BY <1>1 DEF RunState, Phases
<1>3. Good(r, new)
  BY <1>1 DEF Good, Mounts, Told, Bound, Remembered, Younger, Listed, Planned, Covered, Exists, Names, Busy, HasChild, RunState
<1> QED
  BY <1>1, <1>2, <1>3, OwnStep

\* A host that was killed only leaves its plants.
LEMMA CrashGood == ASSUME Inv, NEW r \in Run, Crash(r) PROVE Inv'
<1> DEFINE new == [run[r] EXCEPT !.phase = "crashed", !.hidden = {}, !.fresh = {}, !.stale = {}, !.collected = {},
                                 !.entered = FALSE, !.todo = {}, !.applied = "none", !.probed = FALSE,
                                 !.launches = 0]
<1>1. Good(r, run[r]) /\ run[r] \in RunState /\ Set(r, new)
  BY DEF Inv, TypeOK, Crash
<1>2. new \in RunState
  BY <1>1 DEF RunState, Phases
<1>3. Good(r, new)
  BY <1>1 DEF Good, Mounts, Told, Bound, Remembered, Younger, Listed, Planned, Covered, Exists, Names, Busy, HasChild, RunState
<1> QED
  BY <1>1, <1>2, <1>3, OwnStep

-----------------------------------------------------------------------------
(* Steps that change a file. *)

\* A run whose name p is changed by somebody else has it among its stale names.
LEMMA ChangeSeen ==
  ASSUME Inv, NEW q \in Run, NEW p \in Path, NEW n \in FileState, NEW who, who # q, n.by # q,
         p \in run[q].plants /\ n.data => n.over,
         file' = [file EXCEPT ![p] = n],
         run'[q] = Changed(run, p, who)[q]
  PROVE  run'[q] \in RunState /\ Good(q, run[q])'
<1> DEFINE H == run[q].hidden \ {p}
           F == IF run[q].phase \in {"bind", "running"} THEN run[q].fresh \union {p} ELSE {}
           S == IF run[q].phase \in {"idle", "crashed"} THEN run[q].stale ELSE run[q].stale \union {p}
<1>1. Good(q, run[q]) /\ run[q] \in RunState /\ file \in [Path -> FileState]
  BY DEF Inv, TypeOK
<1>2. run'[q] = [run[q] EXCEPT !.hidden = H, !.fresh = F, !.stale = S]
  BY DEF Changed
<1>3. H \subseteq Path /\ F \subseteq Path /\ S \subseteq Path
  BY <1>1 DEF RunState
<1>4. run'[q] \in RunState
  <2> HIDE DEF H, F, S
  <2> QED
    BY ZenonT(60), <1>1, <1>2, <1>3 DEF RunState
<1>5. /\ run'[q].phase = run[q].phase /\ run'[q].collected = run[q].collected
      /\ run'[q].plants = run[q].plants /\ run'[q].todo = run[q].todo
      /\ run'[q].applied = run[q].applied /\ run'[q].entered = run[q].entered
      /\ run'[q].hidden = H /\ run'[q].probed = run[q].probed
      /\ run'[q].fresh = F /\ run'[q].stale = S /\ run'[q].left = run[q].left
  <2> HIDE DEF H, F, S
  <2> QED
    BY <1>1, <1>2 DEF RunState
<1>6. \A x \in Path : file'[x] = IF x = p THEN n ELSE file[x]
  BY <1>1
<1>7. run[q].phase \in {"bind", "running"} => F = run[q].fresh \union {p}
  OBVIOUS
<1>8. run[q].phase \notin {"idle", "crashed"} => S = run[q].stale \union {p}
  OBVIOUS
<1>9. run[q].plants \subseteq Path /\ run[q].collected \subseteq Path
  BY <1>1 DEF RunState
<1> HIDE DEF F, S
<1>10. Mounts(run[q])' /\ Told(q, run[q])'
  BY <1>1, <1>5 DEF Good, Mounts, Told, Names, HasChild
<1>11. Bound(run[q])' /\ Covered(run[q])'
  BY <1>1, <1>5, <1>6, <1>7, <1>8, <1>9 DEF Good, Bound, Covered, Names, HasChild, Exists
<1>12. Remembered(q, run[q])' /\ Younger(run[q])'
  BY <1>1, <1>5, <1>6, <1>9 DEF Good, Remembered, Younger
<1>13. Listed(run[q])' /\ Planned(run[q])'
  BY <1>1, <1>5, <1>6, <1>8, <1>9 DEF Good, Listed, Planned, Names, Busy, Exists
<1> QED
  BY <1>4, <1>10, <1>11, <1>12, <1>13 DEF Good

\* The person and the children.
LEMMA ChangeGood ==
  ASSUME Inv, NEW p \in Path, NEW who \in {"user", "child"}, NEW n \in FileState,
         n.by \notin Run, Planted(p) /\ n.data => n.over,
         Edit, file' = [file EXCEPT ![p] = n], run' = Changed(run, p, who)
  PROVE  Inv'
<1>1. ASSUME NEW q \in Run PROVE run'[q] \in RunState /\ Good(q, run[q])'
  <2>1. who # q /\ n.by # q /\ run'[q] = Changed(run, p, who)[q]
    OBVIOUS
  <2>2. p \in run[q].plants /\ n.data => n.over
    BY DEF Planted
  <2> QED
    BY <2>1, <2>2, ChangeSeen
<1>2. run' \in [Run -> RunState]
  <2>1. DOMAIN run' = Run /\ run' = [q \in Run |-> run'[q]]
    BY DEF Changed
  <2> QED
    BY <1>1, <2>1
<1>3. TypeOK'
  BY <1>2 DEF Inv, TypeOK, Edit
<1>4. OldFilesSurvive'
  BY DEF Inv, OldFilesSurvive, Edit
<1> QED
  BY <1>1, <1>3, <1>4 DEF Inv

LEMMA PutGood == ASSUME Inv, NEW p \in Path, Put(p) PROVE Inv'
<1> DEFINE n == File("user", TRUE, Planted(p))
<1>1. n \in FileState /\ n.by \notin Run /\ (Planted(p) /\ n.data => n.over)
  BY DEF File, FileState, Planted
<1> QED
  BY <1>1, ChangeGood DEF Put

LEMMA ChildMakesGood == ASSUME Inv, NEW r \in Run, NEW p \in Path, ChildMakes(r, p) PROVE Inv'
<1> DEFINE n == File("child", TRUE, Planted(p))
<1>1. n \in FileState /\ n.by \notin Run /\ (Planted(p) /\ n.data => n.over)
  BY DEF File, FileState, Planted
<1> QED
  BY <1>1, ChangeGood DEF ChildMakes

LEMMA DeleteGood == ASSUME Inv, NEW p \in Path, Delete(p) PROVE Inv'
<1>1. NoFile \in FileState /\ NoFile.by \notin Run /\ ~ NoFile.data
  BY DEF NoFile, FileState
<1> QED
  BY <1>1, ChangeGood DEF Delete

\* A write in place leaves the name and its mounts alone.
LEMMA WriteToGood == ASSUME Inv, NEW p \in Path, WriteTo(p) PROVE Inv'
<1> DEFINE S(q) == IF At(q, "idle") THEN run[q].stale ELSE run[q].stale \union {p}
<1>1. file \in [Path -> FileState] /\ run \in [Run -> RunState] /\ edits < MaxEdits /\ edits \in Nat
  BY DEF Inv, TypeOK, WriteTo, Edit
<1>2. \A x \in Path : file'[x] = IF x = p THEN [file[p] EXCEPT !.data = TRUE, !.over = TRUE] ELSE file[x]
  BY <1>1 DEF WriteTo
<1>3. file' \in [Path -> FileState]
  BY ZenonT(60), <1>1 DEF WriteTo, FileState
<1>4. \A x \in Path : Exists(x)' <=> Exists(x)
  <2>1. Exists(p) /\ Exists(p)'
    BY <1>1, <1>2 DEF WriteTo, Exists, NoFile, FileState
  <2> QED
    BY <1>2, <2>1 DEF Exists
<1>5. file'[p].data /\ file'[p].over /\ \A x \in Path \ {p} : file'[x] = file[x]
  BY <1>1, <1>2 DEF FileState
<1>6. ASSUME NEW q \in Run PROVE run'[q] \in RunState /\ Good(q, run[q])'
  <2>1. Good(q, run[q]) /\ run[q] \in RunState /\ run'[q] = [run[q] EXCEPT !.stale = S(q)]
    BY <1>1 DEF Inv, WriteTo
  <2>2. S(q) \subseteq Path /\ (run[q].phase # "idle" => S(q) = run[q].stale \union {p})
    BY <2>1 DEF RunState, At
  <2> HIDE DEF S
  <2>3. run'[q] \in RunState
    BY <2>1, <2>2 DEF RunState
  <2>4. /\ run'[q].phase = run[q].phase /\ run'[q].collected = run[q].collected
        /\ run'[q].plants = run[q].plants /\ run'[q].todo = run[q].todo
        /\ run'[q].applied = run[q].applied /\ run'[q].entered = run[q].entered
        /\ run'[q].hidden = run[q].hidden /\ run'[q].probed = run[q].probed
        /\ run'[q].fresh = run[q].fresh /\ run'[q].stale = S(q) /\ run'[q].left = run[q].left
        /\ run[q].plants \subseteq Path /\ run[q].collected \subseteq Path
    BY <2>1 DEF RunState
  <2>5. run[q].phase \notin {"idle", "crashed"} => run[q].stale \subseteq S(q) /\ p \in S(q)
    BY <2>2
  <2>6. Mounts(run[q])' /\ Told(q, run[q])' /\ Bound(run[q])' /\ Covered(run[q])'
    BY <1>4, <2>1, <2>4, <2>5 DEF Good, Mounts, Told, Bound, Covered, Names, HasChild
  <2>7. Remembered(q, run[q])' /\ Younger(run[q])'
    BY <1>5, <2>1, <2>4 DEF Good, Remembered, Younger
  <2>8. Listed(run[q])' /\ Planned(run[q])'
    BY <1>4, <1>5, <2>1, <2>4, <2>5 DEF Good, Listed, Planned, Names, Busy
  <2> QED
    BY <2>3, <2>6, <2>7, <2>8 DEF Good
<1>7. run' \in [Run -> RunState]
  <2>1. DOMAIN run' = Run /\ run' = [q \in Run |-> run'[q]]
    BY DEF WriteTo
  <2> QED
    BY <1>6, <2>1
<1>8. TypeOK' /\ OldFilesSurvive'
  BY <1>1, <1>3, <1>7 DEF Inv, TypeOK, OldFilesSurvive, WriteTo, Edit
<1> QED
  BY <1>6, <1>8 DEF Inv

LEMMA ChangedFunction ==
  ASSUME NEW runs, NEW p, NEW who
  PROVE  /\ DOMAIN Changed(runs, p, who) = Run
         /\ Changed(runs, p, who) = [q \in Run |-> Changed(runs, p, who)[q]]
BY DEF Changed

\* What a run knows once it has itself made or removed a name.
SameBut(s, new) ==
  /\ s.phase = new.phase /\ s.collected = new.collected /\ s.plants = new.plants /\ s.todo = new.todo
  /\ s.applied = new.applied /\ s.entered = new.entered /\ s.probed = new.probed /\ s.stale = new.stale
  /\ s.left = new.left

\* The run r itself makes or removes p; the others see a change.
LEMMA OwnChange ==
  ASSUME Inv, NEW r \in Run, NEW p \in Path, NEW n \in FileState, n.by \in {r, "none"}, ~ n.data,
         NEW new \in RunState, new.phase \in {"occupy", "drop"},
         file' = [file EXCEPT ![p] = n],
         run' = Changed([run EXCEPT ![r] = new], p, r)
  PROVE  /\ file' \in [Path -> FileState] /\ run' \in [Run -> RunState]
         /\ \A q \in Run \ {r} : Good(q, run[q])'
         /\ SameBut(run'[r], new)
<1>1. file \in [Path -> FileState] /\ run \in [Run -> RunState]
  BY DEF Inv, TypeOK
<1>2. ASSUME NEW q \in Run \ {r} PROVE run'[q] \in RunState /\ Good(q, run[q])'
  <2>1. run'[q] = Changed(run, p, r)[q]
    BY <1>1 DEF Changed
  <2>2. r # q /\ n.by # q
    OBVIOUS
  <2> QED
    BY <2>1, <2>2, ChangeSeen
<1> DEFINE H == new.hidden \ {p}
           S == new.stale
<1>3. run'[r] = [new EXCEPT !.hidden = H, !.fresh = {}, !.stale = S]
  BY <1>1 DEF Changed
<1>4. H \subseteq Path /\ S \subseteq Path
  BY DEF RunState
<1>5. run'[r] \in RunState /\ SameBut(run'[r], new)
  <2>1. S = new.stale
    OBVIOUS
  <2> HIDE DEF H, S
  <2>2. [new EXCEPT !.hidden = H, !.fresh = {}, !.stale = S] \in RunState
    BY ZenonT(60), <1>4 DEF RunState
  <2>3. SameBut([new EXCEPT !.hidden = H, !.fresh = {}, !.stale = S], new)
    BY ZenonT(60), <2>1 DEF RunState, SameBut
  <2> QED
    BY <1>3, <2>2, <2>3
<1>6. run' \in [Run -> RunState]
  <2> DEFINE R == [run EXCEPT ![r] = new]
  <2>1. DOMAIN run' = Run /\ run' = [q \in Run |-> run'[q]]
    <3>1. run' = Changed(R, p, r)
      OBVIOUS
    <3> HIDE DEF R
    <3>2. DOMAIN Changed(R, p, r) = Run /\ Changed(R, p, r) = [q \in Run |-> Changed(R, p, r)[q]]
      BY ChangedFunction
    <3> QED
      BY <3>1, <3>2, Zenon
  <2>2. \A q \in Run : run'[q] \in RunState
    BY <1>2, <1>5
  <2> QED
    BY <2>1, <2>2
<1> QED
  BY <1>1, <1>2, <1>5, <1>6

\* occupy_missing: a name that exists, that is planted, or that fails.
LEMMA OccupyGood == ASSUME Inv, NEW r \in Run, NEW p \in Path, OccupyName(r, p) PROVE Inv'
<1>1. Good(r, run[r]) /\ run[r] \in RunState /\ run[r].phase = "occupy" /\ file \in [Path -> FileState]
  BY DEF Inv, TypeOK, OccupyName, At
<1>2. CASE Exists(p) /\ Set(r, [run[r] EXCEPT !.todo = @ \ {p}])
  <2> DEFINE new == [run[r] EXCEPT !.todo = @ \ {p}]
  <2>1. new \in RunState
    BY <1>1 DEF RunState, Phases
  <2>2. Good(r, new)
    BY <1>1, <1>2 DEF Good, Mounts, Told, Bound, Remembered, Younger, Listed, Planned, Covered, Exists, Names, Busy, HasChild, RunState
  <2> QED
    BY <1>2, <2>1, <2>2, OwnStep
<1>3. CASE ~ Exists(p) /\ Plant(r, p)
  <2> DEFINE n == File(r, FALSE, FALSE)
             T == run[r].todo \ {p}
             P == run[r].plants \union {p}
             L == run[r].left \ {p}
             new == [run[r] EXCEPT !.todo = T, !.plants = P, !.left = L]
  <2>1. T \subseteq Path /\ P \subseteq Path /\ L \subseteq Path
    BY <1>1 DEF RunState
  <2>2. [run EXCEPT ![r].todo = @ \ {p}, ![r].plants = @ \union {p}, ![r].left = @ \ {p}] = [run EXCEPT ![r] = new]
    BY DEF Inv, TypeOK
  <2>3. new \in RunState /\ new.phase = "occupy"
    <3> HIDE DEF T, P, L
    <3> QED
      BY <1>1, <2>1 DEF RunState
  <2>4. n \in FileState /\ n.by \in {r, "none"} /\ ~ n.data
    BY DEF File, FileState
  <2>5. file' = [file EXCEPT ![p] = n] /\ run' = Changed([run EXCEPT ![r] = new], p, r)
    BY <1>3, <2>2 DEF Plant
  <2> HIDE DEF n, new
  <2>6. /\ file' \in [Path -> FileState] /\ run' \in [Run -> RunState]
        /\ \A q \in Run \ {r} : Good(q, run[q])'
        /\ SameBut(run'[r], new)
    BY <2>3, <2>4, <2>5, OwnChange
  <2>7. /\ run'[r].phase = "occupy" /\ run'[r].collected = run[r].collected
        /\ run'[r].plants = P /\ run'[r].todo = T
        /\ run'[r].applied = run[r].applied /\ run'[r].entered = run[r].entered
        /\ run'[r].probed = run[r].probed /\ run'[r].stale = run[r].stale /\ run'[r].left = L
        /\ run[r].plants \subseteq Path /\ run[r].collected \subseteq Path
    <3> HIDE DEF T, P, L
    <3> QED
      BY <1>1, <2>1, <2>6 DEF RunState, SameBut, new
  <2>8. \A x \in Path : file'[x] = IF x = p THEN n ELSE file[x]
    BY <1>1, <2>5
  <2>9. n # NoFile /\ ~ n.data
    BY DEF n, File, NoFile
  <2>10. Good(r, run[r])'
    <3>1. Mounts(run[r])' /\ Told(r, run[r])' /\ Bound(run[r])' /\ Covered(run[r])'
      BY <1>1, <2>7 DEF Good, Mounts, Told, Bound, Covered, Names, HasChild
    <3>2. Remembered(r, run[r])' /\ Younger(run[r])'
      BY <1>1, <2>7, <2>8, <2>9 DEF Good, Remembered, Younger
    <3>3. Listed(run[r])' /\ Planned(run[r])'
      BY <1>1, <1>3, <2>7, <2>8, <2>9 DEF Good, Listed, Planned, Names, Busy, Exists
    <3> QED
      BY <3>1, <3>2, <3>3 DEF Good
  <2>11. TypeOK' /\ OldFilesSurvive'
    BY <1>3, <2>6 DEF Inv, TypeOK, OldFilesSurvive, Plant
  <2> QED
    BY <2>6, <2>10, <2>11 DEF Inv
<1>4. CASE GoDrop(r)
  BY <1>1, <1>4, LeaveGood
<1> QED
  BY <1>2, <1>3, <1>4 DEF OccupyName

\* Drop for OccupiedDests: a name that is gone or stays, and one that goes.
LEMMA DropGood == ASSUME Inv, NEW r \in Run, NEW p \in Path, DropOne(r, p) PROVE Inv'
<1> DEFINE T == run[r].todo \ {p}
           new == [run[r] EXCEPT !.todo = T]
<1>1. /\ Good(r, run[r]) /\ run[r] \in RunState /\ file \in [Path -> FileState]
      /\ run[r].phase = "drop" /\ p \in run[r].todo
  BY DEF Inv, TypeOK, DropOne, At
<1>2. T \subseteq Path /\ [run EXCEPT ![r].todo = @ \ {p}] = [run EXCEPT ![r] = new]
  BY <1>1 DEF Inv, TypeOK, RunState
<1>3. new \in RunState /\ new.phase = "drop"
  <2> HIDE DEF T
  <2> QED
    BY <1>1, <1>2 DEF RunState
<1>4. CASE /\ ~ Exists(p) \/ (p \in Folder /\ file[p].data)
           /\ run' = [run EXCEPT ![r] = new] /\ UNCHANGED <<file, lost>>
  <2>1. Good(r, new)
    <3>1. file[p].by = r => file[p].data
      BY <1>1, <1>4 DEF Exists, NoFile
    <3> QED
      BY <1>1, <1>4, <3>1 DEF Good, Mounts, Told, Bound, Remembered, Younger, Listed, Planned, Covered, Exists, Names, Busy, HasChild, RunState
  <2>2. Set(r, new)
    BY <1>4 DEF Set, Still, DropOne
  <2> QED
    BY <1>3, <2>1, <2>2, OwnStep
<1>6. CASE /\ Exists(p) /\ ~ (p \in Folder /\ file[p].data)
           /\ run' = [[run EXCEPT ![r] = new] EXCEPT ![r].left = @ \union {p}] /\ UNCHANGED <<file, lost>>
  <2> DEFINE kept == [new EXCEPT !.left = run[r].left \union {p}]
  <2>1. run' = [run EXCEPT ![r] = kept]
    BY <1>1, <1>3, <1>6 DEF Inv, TypeOK, RunState
  <2>2. kept \in RunState
    BY <1>1, <1>3 DEF RunState
  <2>3. Good(r, kept)
    BY <1>1, <1>2, <1>6 DEF Good, Mounts, Told, Bound, Remembered, Younger, Listed, Planned, Covered, Exists, Names, Busy, HasChild, RunState
  <2>4. Set(r, kept)
    BY <1>6, <2>1 DEF Set, Still, DropOne
  <2> QED
    BY <2>2, <2>3, <2>4, OwnStep
<1>5. CASE /\ Exists(p) /\ ~ (p \in Folder /\ file[p].data)
           /\ file' = [file EXCEPT ![p] = NoFile]
           /\ run' = Changed([run EXCEPT ![r] = new], p, r)
           /\ lost' = lost \union {f \in {file[p]} : f.data}
  <2>1. NoFile \in FileState /\ NoFile.by \in {r, "none"} /\ ~ NoFile.data /\ NoFile.by # r
    BY DEF NoFile, FileState
  <2> HIDE DEF new
  <2>2. /\ file' \in [Path -> FileState] /\ run' \in [Run -> RunState]
        /\ \A q \in Run \ {r} : Good(q, run[q])'
        /\ SameBut(run'[r], new)
    BY <1>3, <1>5, <2>1, OwnChange
  <2>3. /\ run'[r].phase = "drop" /\ run'[r].collected = run[r].collected
        /\ run'[r].plants = run[r].plants /\ run'[r].todo = T
        /\ run'[r].applied = run[r].applied /\ run'[r].entered = run[r].entered
        /\ run'[r].probed = run[r].probed /\ run'[r].stale = run[r].stale /\ run'[r].left = run[r].left
        /\ run[r].plants \subseteq Path /\ run[r].collected \subseteq Path
    <3> HIDE DEF T
    <3> QED
      BY <1>1, <1>2, <2>2 DEF RunState, SameBut, new
  <2>4. \A x \in Path : file'[x] = IF x = p THEN NoFile ELSE file[x]
    BY <1>1, <1>5
  <2>5. Good(r, run[r])'
    <3>1. Mounts(run[r])' /\ Told(r, run[r])' /\ Bound(run[r])' /\ Covered(run[r])'
      BY <1>1, <2>3 DEF Good, Mounts, Told, Bound, Covered, Names, HasChild
    <3>2. Remembered(r, run[r])' /\ Younger(run[r])'
      BY <1>1, <2>1, <2>3, <2>4 DEF Good, Remembered, Younger
    <3>3. Listed(run[r])' /\ Planned(run[r])'
      BY <1>1, <2>1, <2>3, <2>4 DEF Good, Remembered, Listed, Planned, Names, Busy, Exists
    <3> QED
      BY <3>1, <3>2, <3>3 DEF Good
  <2>6. file[p] \in FileState /\ (file[p].data => file[p].over)
    BY <1>1 DEF Good, Remembered, Younger
  <2>7. TypeOK' /\ OldFilesSurvive'
    BY <1>5, <2>2, <2>6 DEF Inv, TypeOK, OldFilesSurvive, DropOne
  <2> QED
    BY <2>2, <2>5, <2>7 DEF Inv
<1> QED
  BY <1>2, <1>4, <1>5, <1>6 DEF DropOne

-----------------------------------------------------------------------------
(* The theorems. *)

LEMMA InitGood == ASSUME Init PROVE Inv
<1>1. ASSUME NEW r \in Run PROVE run[r] \in RunState /\ Good(r, run[r])
  <2>1. file \in [Path -> {NoFile, File("user", TRUE, FALSE)}]
    BY DEF Init
  <2>2. \A p \in Path : file[p].by # r
    BY <2>1 DEF NoFile, File
  <2> QED
    BY <2>2 DEF Init, Good, Mounts, Told, Bound, Remembered, Younger, Listed, Planned, Covered, Exists, Names, Busy, HasChild, RunState, Phases
<1>2. run \in [Run -> RunState]
  BY <1>1 DEF Init
<1>3. file \in [Path -> FileState]
  <2>1. NoFile \in FileState /\ File("user", TRUE, FALSE) \in FileState
    BY DEF NoFile, File, FileState
  <2> QED
    BY <2>1 DEF Init
<1> QED
  BY <1>1, <1>2, <1>3 DEF Init, Inv, TypeOK, OldFilesSurvive

LEMMA StepGood == ASSUME Inv, [Next]_vars PROVE Inv'
<1>1. CASE WriteStep
  BY <1>1, PutGood, WriteToGood, DeleteGood, ChildMakesGood DEF WriteStep
<1>2. ASSUME NEW r \in Run, RunStep(r) PROVE Inv'
  <2>1. CASE \E p \in Path : OccupyName(r, p) \/ Bind(r, p) \/ DropOne(r, p)
    BY <2>1, OccupyGood, BindGood, DropGood
  <2> QED
    BY <1>2, <2>1, CollectGood, LaunchGood, HookGood, EnterGood, ExecGood, ReturnGood, CrashGood, LeaveGood
       DEF RunStep, ChildExits, At
<1>3. CASE UNCHANGED vars
  BY <1>3 DEF vars, Inv, TypeOK, OldFilesSurvive, Good, Mounts, Told, Bound, Remembered, Younger, Listed, Planned, Covered, Exists, Names, Busy, HasChild
<1> QED
  BY <1>1, <1>2, <1>3 DEF Next

LEMMA InvHolds == Spec => []Inv
BY InitGood, StepGood, PTL DEF Spec

\* The variables keep their types.
THEOREM TypeCorrect == Spec => []TypeOK
<1>1. Inv => TypeOK
  BY DEF Inv
<1> QED
  BY <1>1, InvHolds, PTL

\* Every listed or planted name is hidden from a child with mounts of its own,
\* unless somebody changed it after the first bind.  (apply_dest_deny_remounts)
THEOREM DestsHidden == Spec => []DestsAreHidden
<1>1. Inv => DestsAreHidden
  BY DEF Inv, Good, Mounts, Bound, DestsAreHidden, Running, Dests, Names, HasChild
<1> QED
  BY <1>1, InvHolds, PTL

\* And so is every name that exists or could be planted, unless somebody else
\* changed it after the listing.  (process_jail, occupy_missing)
THEOREM NoneMissed == Spec => []NothingIsMissed
<1>1. ASSUME Inv, NEW r \in Run, Running(r), run[r].entered, NEW p \in Path,
             Exists(p) \/ (p \in Occupiable /\ run[r].probed)
      PROVE  p \in run[r].hidden \union run[r].stale \union run[r].left
  BY <1>1 DEF Inv, Good, Mounts, Listed, Planned, Covered, Running, Busy, HasChild
<1>2. Inv => NothingIsMissed
  BY <1>1 DEF NothingIsMissed
<1> QED
  BY <1>2, InvHolds, PTL

\* A child runs without mounts only if its host knows and accepts it.
\* (remount_status, require_dest_hide)
THEOREM NotHiddenTold == Spec => []NotHiddenIsTold
<1>1. Inv => NotHiddenIsTold
  BY DEF Inv, Good, Told, NotHiddenIsTold, Running, Dests, Names
<1> QED
  BY <1>1, InvHolds, PTL

\* No empty plant is forgotten.  (OccupiedDests)
THEOREM PlantsRemoved == Spec => []PlantsAreRemoved
<1>1. Inv => PlantsAreRemoved
  BY DEF Inv, Good, Remembered, PlantsAreRemoved
<1> QED
  BY <1>1, InvHolds, PTL

\* What was there before the plants stays.  (occupy_missing, OccupiedDests)
THEOREM OldFilesKept == Spec => []OldFilesSurvive
<1>1. Inv => OldFilesSurvive
  BY DEF Inv
<1> QED
  BY <1>1, InvHolds, PTL
=============================================================================
