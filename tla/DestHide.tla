------------------------------ MODULE DestHide ------------------------------
(***************************************************************************)
(* How Linux runs hide denied names (wrap/linux.rs, and its callers in     *)
(* wrap/mod.rs): process_jail lists the ones that exist, occupy_missing    *)
(* plants the missing ones, the child binds an unreadable node over each,  *)
(* and the plants are removed in the end.  Several runs share the          *)
(* directories with a person who edits them.                               *)
(*                                                                         *)
(* Simplifications:                                                        *)
(* - the walk of process_jail is one step, plants and binds go in any      *)
(*   order, and a denied name has one path;                                *)
(* - the rest of the child's hardening either applies or fails the spawn;  *)
(* - the child of a run whose host crashed is not followed;                *)
(* - MaxEdits bounds what person and children write, MaxLaunches how often *)
(*   a policy is used.                                                     *)
(***************************************************************************)
EXTENDS Integers

CONSTANTS
  Run,          \* hosts, each with a KernelPolicy of its own
  Path,         \* denied names
  Workspace,    \* those below the first read-write root
  Occupiable,   \* those at a root with a literal glob
  Folder,       \* names of directories
  Strict,       \* runs with require_dest_hide
  MaxEdits,
  MaxLaunches   \* by run

ASSUME HideAssumption ==
  /\ Workspace \subseteq Path /\ Occupiable \subseteq Path /\ Folder \subseteq Path
  /\ Strict \subseteq Run
  /\ {"none", "user", "child"} \intersect Run = {}
  /\ MaxEdits \in Nat /\ MaxLaunches \in [Run -> Nat]

NoFile == [by |-> "none", data |-> FALSE, over |-> FALSE]

\* A file: who made it, whether it has contents, and whether those came to a
\* name that a run had planted (history).
File(by, data, over) == [by |-> by, data |-> data, over |-> over]

VARIABLES
  file,    \* file[p]: the file at the name p
  run,     \* run[r]: where the host r is, and its child
  edits,   \* writes so far
  lost     \* history: files with contents that a run removed

vars == <<file, run, edits, lost>>

Phases == {"idle", "ready", "occupy", "spawn", "bind", "running", "drop", "crashed"}

RunState ==
  [phase : Phases,
   collected : SUBSET Path,    \* dest_denies of the policy
   plants : SUBSET Path,       \* OccupiedDests
   todo : SUBSET Path,         \* of the loop it is in
   applied : {"none", "applied", "skipped"},
   entered : BOOLEAN,          \* the child has its own mounts
   hidden : SUBSET Path,       \* names with a node bound over
   fresh : SUBSET Path,        \* history: changed since the first bind
   stale : SUBSET Path,        \* history: changed by others since the listing
   left : SUBSET Path,         \* history: plants whose removal failed
   probed : BOOLEAN,           \* history: occupy_missing could plant
   launches : Nat]

FileState == [by : Run \union {"none", "user", "child"}, data : BOOLEAN, over : BOOLEAN]

TypeOK ==
  /\ file \in [Path -> FileState]
  /\ run \in [Run -> RunState]
  /\ edits \in 0 .. MaxEdits
  /\ lost \subseteq FileState

Init ==
  /\ file \in [Path -> {NoFile, File("user", TRUE, FALSE)}]
  /\ run = [r \in Run |-> [phase |-> "idle", collected |-> {}, plants |-> {}, todo |-> {},
                           applied |-> "none", entered |-> FALSE, hidden |-> {}, fresh |-> {},
                           stale |-> {}, left |-> {}, probed |-> FALSE, launches |-> 0]]
  /\ edits = 0
  /\ lost = {}

Exists(p) == file[p] # NoFile

\* The entry p is made or removed on the host by `who`: whatever was bound over
\* the old one is gone, in every namespace.
Changed(runs, p, who) ==
  [r \in Run |-> [runs[r] EXCEPT
     !.hidden = @ \ {p},
     !.fresh = IF runs[r].phase \in {"bind", "running"} THEN @ \union {p} ELSE {},
     !.stale = IF r = who \/ runs[r].phase \in {"idle", "crashed"} THEN @ ELSE @ \union {p}]]

At(r, ph) == run[r].phase = ph

Planted(p) == \E r \in Run : p \in run[r].plants

-----------------------------------------------------------------------------
(* The person, and children making files of their own. *)

Edit == edits < MaxEdits /\ edits' = edits + 1 /\ UNCHANGED lost

\* A file is created, or replaced by a rename.
Put(p) ==
  /\ Edit
  /\ file' = [file EXCEPT ![p] = File("user", TRUE, Planted(p))]
  /\ run' = Changed(run, p, "user")

\* A plant is written to in place; a folder gets a file.
WriteTo(p) ==
  /\ Exists(p) /\ ~ file[p].data /\ Edit
  /\ file' = [file EXCEPT ![p].data = TRUE, ![p].over = TRUE]
  /\ run' = [r \in Run |-> [run[r] EXCEPT !.stale = IF At(r, "idle") THEN @ ELSE @ \union {p}]]

Delete(p) ==
  /\ Exists(p) /\ Edit
  /\ file' = [file EXCEPT ![p] = NoFile]
  /\ run' = Changed(run, p, "user")

ChildMakes(r, p) ==
  /\ run[r].phase = "running" /\ ~ Exists(p) /\ Edit
  /\ file' = [file EXCEPT ![p] = File("child", TRUE, Planted(p))]
  /\ run' = Changed(run, p, "child")

WriteStep ==
  \E p \in Path : Put(p) \/ WriteTo(p) \/ Delete(p) \/ \E r \in Run : ChildMakes(r, p)

-----------------------------------------------------------------------------
(* One run. *)

Still == UNCHANGED <<file, edits, lost>>

\* run[r] takes other values, and the files stay.
Set(r, new) == run' = [run EXCEPT ![r] = new] /\ Still

\* The call returns: the child, if any, is gone and the plants are dropped.
Leaving(s) == [s EXCEPT !.phase = "drop", !.todo = s.plants, !.hidden = {}, !.fresh = {}, !.entered = FALSE]
GoDrop(r) == Set(r, Leaving(run[r]))

\* process_jail lists the denied names that exist.
Collect(r) ==
  /\ At(r, "idle")
  /\ Set(r, [run[r] EXCEPT !.phase = "ready", !.stale = {}, !.collected = {p \in Path : Exists(p)}])

\* run_child begins: nothing is planted unless a probe could make a namespace.
Launch(r) ==
  /\ At(r, "ready") /\ run[r].launches < MaxLaunches[r]
  /\ \E can \in BOOLEAN :
       Set(r, [run[r] EXCEPT !.phase = "occupy", !.launches = @ + 1, !.probed = can,
                             !.todo = IF can THEN Occupiable ELSE {}])

\* The occupied name is recorded.
Plant(r, p) ==
  /\ file' = [file EXCEPT ![p] = File(r, FALSE, FALSE)]
  /\ run' = Changed([run EXCEPT ![r].todo = @ \ {p}, ![r].plants = @ \union {p},
                                ![r].left = @ \ {p}], p, r)
  /\ UNCHANGED <<edits, lost>>

\* Mutant: a name that exists is recorded as planted.
RecordName(r, p) ==
  /\ At(r, "occupy") /\ p \in run[r].todo
  /\ \/ Exists(p) /\ Set(r, [run[r] EXCEPT !.todo = @ \ {p}, !.plants = @ \union {p}])
     \/ ~ Exists(p) /\ Plant(r, p)
     \/ ~ Exists(p) /\ GoDrop(r)

\* Mutant: when a name cannot be planted the others stay.
LeavePlants(r, p) ==
  /\ At(r, "occupy") /\ p \in run[r].todo
  /\ \/ Exists(p) /\ Set(r, [run[r] EXCEPT !.todo = @ \ {p}])
     \/ ~ Exists(p) /\ Plant(r, p)
     \/ ~ Exists(p) /\ Set(r, [run[r] EXCEPT !.phase = "ready", !.plants = {}, !.todo = {}])

\* occupy_missing: one name, which may exist, be made, or fail the call.
OccupyName(r, p) ==
  /\ At(r, "occupy") /\ p \in run[r].todo
  /\ \/ Exists(p) /\ Set(r, [run[r] EXCEPT !.todo = @ \ {p}])
     \/ ~ Exists(p) /\ Plant(r, p)
     \/ ~ Exists(p) /\ GoDrop(r)

\* Mutant: what was planted is not hidden.
ListedOnly(r) == run[r].collected

\* What the child has to hide.
Dests(r) == run[r].collected \union run[r].plants

Outside(r) == \E p \in Dests(r) : p \notin Workspace

\* require_applied and require_dest_hide.
MaySpawn(r, applied) == r \in Strict => applied = "applied"

\* remount_status: a second probe, made only when there is something to hide.
Hook(r) ==
  /\ At(r, "occupy") /\ run[r].todo = {}
  /\ \/ Set(r, [run[r] EXCEPT !.phase = "spawn", !.applied = "applied"])
     \/ /\ Dests(r) # {}
        /\ IF Outside(r) \/ ~ MaySpawn(r, "skipped") THEN GoDrop(r)
           ELSE Set(r, [run[r] EXCEPT !.phase = "spawn", !.applied = "skipped"])

\* Mutant: a child that cannot have its own mounts runs without.
EnterIfYouCan(r) ==
  /\ At(r, "spawn")
  /\ \/ GoDrop(r)
     \/ Dests(r) # {} /\ Set(r, [run[r] EXCEPT !.phase = "bind", !.entered = TRUE, !.todo = Dests(r), !.fresh = {}])
     \/ Set(r, [run[r] EXCEPT !.phase = "running", !.fresh = {}])

\* Mutant: only the listed names are handed to the child.
EnterListed(r) ==
  /\ At(r, "spawn")
  /\ \/ GoDrop(r)
     \/ Dests(r) # {} /\ Set(r, [run[r] EXCEPT !.phase = "bind", !.entered = TRUE, !.todo = run[r].collected, !.fresh = {}])
     \/ /\ Dests(r) = {} \/ (run[r].applied = "skipped" /\ ~ Outside(r))
        /\ Set(r, [run[r] EXCEPT !.phase = "running", !.fresh = {}])

\* apply_dest_deny_remounts in the forked child, up to the binds: it gets its
\* namespace, or is told it may not have one, or fails.
Enter(r) ==
  /\ At(r, "spawn")
  /\ \/ GoDrop(r)
     \/ Dests(r) # {} /\ Set(r, [run[r] EXCEPT !.phase = "bind", !.entered = TRUE, !.todo = Dests(r), !.fresh = {}])
     \/ /\ Dests(r) = {} \/ (run[r].applied = "skipped" /\ ~ Outside(r))
        /\ Set(r, [run[r] EXCEPT !.phase = "running", !.fresh = {}])

\* bind_over: a name that is missing by now is skipped.
Bind(r, p) ==
  /\ At(r, "bind") /\ p \in run[r].todo
  /\ \/ Exists(p) /\ Set(r, [run[r] EXCEPT !.todo = @ \ {p}, !.hidden = @ \union {p}])
     \/ ~ Exists(p) /\ Set(r, [run[r] EXCEPT !.todo = @ \ {p}])
     \/ Exists(p) /\ GoDrop(r)

\* lock_namespaces and exec.
Exec(r) ==
  /\ At(r, "bind") /\ run[r].todo = {}
  /\ Set(r, [run[r] EXCEPT !.phase = "running"]) \/ GoDrop(r)

ChildExits(r) == At(r, "running") /\ GoDrop(r)

\* Drop for OccupiedDests: one name.  A folder that is not empty stays, and so
\* does anything else whose removal fails: the error is ignored.
DropOne(r, p) ==
  /\ At(r, "drop") /\ p \in run[r].todo
  /\ LET next == [run EXCEPT ![r].todo = @ \ {p}]
         full == p \in Folder /\ file[p].data
     IN \/ /\ ~ Exists(p) \/ full
           /\ run' = next /\ UNCHANGED <<file, lost>>
        \/ /\ Exists(p) /\ ~ full
           /\ run' = [next EXCEPT ![r].left = @ \union {p}] /\ UNCHANGED <<file, lost>>
        \/ /\ Exists(p) /\ ~ full
           /\ file' = [file EXCEPT ![p] = NoFile]
           /\ run' = Changed(next, p, r)
           /\ lost' = lost \union {f \in {file[p]} : f.data}
  /\ UNCHANGED edits

\* The policy can be used again.
Return(r) ==
  /\ At(r, "drop") /\ run[r].todo = {}
  /\ Set(r, [run[r] EXCEPT !.phase = "ready", !.plants = {}, !.applied = "none", !.probed = FALSE])

\* The host is killed.
Crash(r) ==
  /\ run[r].phase \in {"occupy", "spawn", "bind", "running", "drop"}
  /\ Set(r, [run[r] EXCEPT !.phase = "crashed", !.hidden = {}, !.fresh = {}, !.stale = {}, !.collected = {},
                          !.entered = FALSE, !.todo = {}, !.applied = "none", !.probed = FALSE, !.launches = 0])

RunStep(r) ==
  \/ Collect(r) \/ Launch(r) \/ Hook(r) \/ Enter(r) \/ Exec(r) \/ ChildExits(r) \/ Return(r) \/ Crash(r)
  \/ \E p \in Path : OccupyName(r, p) \/ Bind(r, p) \/ DropOne(r, p)

Next == WriteStep \/ \E r \in Run : RunStep(r)

Spec == Init /\ [][Next]_vars

-----------------------------------------------------------------------------
(* Correctness. *)

Running(r) == run[r].phase = "running"

\* While a child with its own mounts runs, every denied name that its host
\* listed or planted is hidden from it, except names that were made, replaced
\* or removed since the binds began.  (apply_dest_deny_remounts)
DestsAreHidden ==
  \A r \in Run : Running(r) /\ run[r].entered =>
    \A p \in Dests(r) : Exists(p) => p \in run[r].hidden \union run[r].fresh

\* Nor is any other denied name to be seen that nobody else changed since the
\* listing, and one that could be planted is hidden even if it did not exist.  A
\* plant that an earlier call could not remove is seen by the later ones: it
\* exists, and the listing is older.  (process_jail, occupy_missing)
NothingIsMissed ==
  \A r \in Run : Running(r) /\ run[r].entered =>
    \A p \in Path :
      Exists(p) \/ (p \in Occupiable /\ run[r].probed) => p \in run[r].hidden \union run[r].stale \union run[r].left

\* A child that runs without mounts of its own had nothing to hide, or only
\* names in the workspace of a host that was told so and accepts it, whatever
\* the two probes and the child found.  (remount_status, require_dest_hide)
NotHiddenIsTold ==
  \A r \in Run : Running(r) /\ ~ run[r].entered =>
    \/ Dests(r) = {}
    \/ run[r].applied = "skipped" /\ r \notin Strict /\ Dests(r) \subseteq Workspace

\* A plant that nobody wrote to is on the list of its run, which is on its way
\* or was killed, or the run tried to remove it and could not: no exit of a call
\* forgets one.  (OccupiedDests)
PlantsAreRemoved ==
  \A p \in Path : file[p].by \in Run /\ ~ file[p].data =>
    LET r == file[p].by IN p \in run[r].plants \union run[r].left

\* A run removes contents only from names it had planted before they came.
\* (occupy_missing, OccupiedDests)
OldFilesSurvive == \A f \in lost : f.over

=============================================================================
