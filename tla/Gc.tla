--------------------------------- MODULE Gc ---------------------------------
(***************************************************************************)
(* The worktree collector of gc.rs: one call of run_gc_with_policy or of   *)
(* remove_explicit_with_policy (Explicit), interleaved with a person who   *)
(* goes on working in the same repository.  Every git process and every    *)
(* /proc or directory walk is a step of its own.                           *)
(*                                                                         *)
(* Simplifications:                                                        *)
(* - Tree holds the linked worktrees; the primary checkout is skipped by   *)
(*   the code before anything is read;                                     *)
(* - worktrees are visited in any order, git lists them in one;            *)
(* - a worktree holds files of five kinds (FileKind), each once;           *)
(* - a refused home directory or a directory that is no repository ends    *)
(*   the collection like an unreadable registry, before anything is done;  *)
(* - MaxSteps bounds what the person does during one collection.           *)
(***************************************************************************)
EXTENDS Integers, FiniteSets

CONSTANTS
  Tree,      \* linked worktrees
  Commit,
  Outside,   \* worktrees outside leftover_dir
  Hidden,    \* worktrees used only by processes whose /proc/PID/cwd we may not read
  MaxSteps   \* bound: steps of the person

ASSUME GcAssumption ==
  /\ Outside \subseteq Tree /\ Hidden \subseteq Tree
  /\ MaxSteps \in Nat

VARIABLES
  \* the repository
  exists,      \* worktrees whose directory is there
  registered,  \* worktrees git knows
  locked,      \* worktrees with a git lock
  live,        \* worktrees some process has its cwd in
  files,       \* files[t]: the kinds of file in t that its HEAD does not have
  aged,        \* worktrees last used more than max_age ago
  reflog,      \* reflog[t]: commits in the HEAD reflog of t
  branch,      \* commits on a local or remote-tracking branch
  saved,       \* commits under saved_ref_prefix
  \* the collector
  call,        \* what was called
  pc,
  todo,        \* worktrees of the registry that were not visited yet
  cur,         \* the worktree being visited
  wasLocked,   \* worktrees that were locked when the registry was read
  wasListed,   \* worktrees the registry named
  cwds,        \* the cached cwd probe: worktrees in use
  reach,       \* the cached rev-list: commits on branches
  log,         \* reflog_text of cur
  rows,        \* rows[t]: the decision recorded for t, or none
  told,        \* commits whose refs the rows name: Reclaim.saved_refs
  \* what the person did
  steps,       \* how many steps so far
  deleted,     \* worktrees whose directory the person removed
  lateWork,    \* worktrees written to after the last status read of the visit
  lateCwd,     \* worktrees entered after the last cwd probe of the visit
  lateRefs     \* commits taken off their branch after the rev-list

repoVars  == <<exists, registered, locked, live, files, aged, reflog, branch, saved>>
cacheVars == <<todo, wasLocked, wasListed, cwds, reach>>
lateVars  == <<deleted, lateWork, lateCwd, lateRefs>>
userVars  == <<steps, lateVars>>
vars == <<repoVars, call, pc, cur, log, rows, told, cacheVars, userVars>>

\* run_gc with age_gc_registered on or off, or dry_run; remove_explicit with
\* or without its force.
Calls == {"gc", "gc_leftovers", "dry_run", "remove", "force"}
Explicit == call \in {"remove", "force"}
Forced    == call = "force"
DryRun   == call = "dry_run"

\* What a person can have in a worktree: a change to a tracked file; a file of
\* his own, untracked or ignored; and in a directory with the name of a build
\* cache a denied name, anything in a directory that cannot be read, and the
\* rest: what a build made, and what LAST_USED_WALK_LIMIT entries precede.
FileKind   == {"edit", "own", "secret", "sealed", "rest"}
CacheKinds == {"secret", "sealed", "rest"}

KeepReason == {"DirtyWork", "UniqueUntracked", "TooNew", "UntrackedWorktree", "NotAGitDir",
               "StatusUnreadable", "LiveCwd", "Locked"}
Nothing == "none"

\* The worktrees an age collection skips.
Skipped == IF call = "gc_leftovers" THEN Outside ELSE {}

\* A cached probe: not made yet, failed, or its answer.
Unread   == [ok |-> FALSE, read |-> FALSE, set |-> {}]
Failed   == [ok |-> FALSE, read |-> TRUE, set |-> {}]
Known(S) == [ok |-> TRUE, read |-> TRUE, set |-> S]

Working == {"start", "next", "cwd", "age", "status", "reflog", "reach", "save",
            "recheck", "recwd", "remove", "prune"}

\* A repository in which every worktree is clean, old and unused, and every
\* commit is on a branch or at least in one reflog.  What else can be in a
\* worktree the person does on the way.
Init ==
  /\ exists = Tree
  /\ registered \in {Tree} \union {Tree \ {t} : t \in Tree}
  /\ locked \in SUBSET registered
  /\ live = {} /\ aged = Tree
  /\ files = [t \in Tree |-> {}]
  /\ reflog \in [Tree -> SUBSET Commit]
  /\ branch \in SUBSET Commit
  /\ Commit = branch \union UNION {reflog[t] : t \in Tree}
  /\ saved = {}
  /\ call \in Calls
  /\ pc = "start" /\ cur = Nothing
  /\ todo = {} /\ wasLocked = {} /\ wasListed = {}
  /\ cwds = Unread /\ reach = Unread
  /\ log = {}
  /\ rows = [t \in Tree |-> Nothing] /\ told = {}
  /\ steps = 0
  /\ deleted = {} /\ lateWork = {} /\ lateCwd = {} /\ lateRefs = {}

-----------------------------------------------------------------------------
(* The person. *)

\* Files written to in a cache directory do not make the worktree younger:
\* newest_tree_mtime does not enter it.
Younger(t, k) == IF k \in CacheKinds THEN aged ELSE aged \ {t}

Write(t, k) ==
  /\ t \in exists
  /\ files' = [files EXCEPT ![t] = @ \union {k}]
  /\ aged' = Younger(t, k)
  /\ lateWork' = IF t = cur /\ pc \in {"recwd", "remove"} THEN lateWork \union {t} ELSE lateWork
  /\ UNCHANGED <<exists, registered, locked, live, reflog, branch, saved, deleted, lateCwd, lateRefs>>

\* git commit on a detached HEAD: the commit is in the reflog only.
CommitHere(t, c) ==
  /\ t \in exists \cap registered
  /\ files' = [files EXCEPT ![t] = @ \cap CacheKinds]
  /\ reflog' = [reflog EXCEPT ![t] = @ \union {c}]
  /\ aged' = aged \ {t}
  /\ UNCHANGED <<exists, registered, locked, live, branch, saved, lateVars>>

\* git branch -D: the commit stays in the reflogs it is in.
DeleteBranch(c) ==
  /\ c \in branch
  /\ branch' = branch \ {c}
  /\ lateRefs' = IF reach.read THEN lateRefs \union {c} ELSE lateRefs
  /\ UNCHANGED <<exists, registered, locked, live, files, aged, reflog, saved, deleted, lateWork, lateCwd>>

Enter(t) ==
  /\ t \in exists \ live
  /\ live' = live \union {t}
  /\ lateCwd' = IF t = cur /\ pc = "remove" THEN lateCwd \union {t} ELSE lateCwd
  /\ UNCHANGED <<exists, registered, locked, files, aged, reflog, branch, saved, deleted, lateWork, lateRefs>>

Leave(t) ==
  /\ t \in live
  /\ live' = live \ {t}
  /\ UNCHANGED <<exists, registered, locked, files, aged, reflog, branch, saved, lateVars>>

LockOrUnlock(t) ==
  /\ t \in registered
  /\ locked' = IF t \in locked THEN locked \ {t} ELSE locked \union {t}
  /\ UNCHANGED <<exists, registered, live, files, aged, reflog, branch, saved, lateVars>>

\* rm -rf, or a disk that is no longer mounted: git still has the worktree.
DeleteDir(t) ==
  /\ t \in exists \ live
  /\ exists' = exists \ {t}
  /\ files' = [files EXCEPT ![t] = {}]
  /\ deleted' = deleted \union {t}
  /\ UNCHANGED <<registered, locked, live, aged, reflog, branch, saved, lateWork, lateCwd, lateRefs>>

UserStep ==
  /\ pc \in Working
  /\ steps < MaxSteps /\ steps' = steps + 1
  /\ \/ \E t \in Tree, k \in FileKind : Write(t, k)
     \/ \E t \in Tree : Enter(t) \/ Leave(t) \/ LockOrUnlock(t) \/ DeleteDir(t)
     \/ \E t \in Tree, c \in Commit : CommitHere(t, c)
     \/ \E c \in Commit : DeleteBranch(c)
  /\ UNCHANGED <<call, pc, cur, log, rows, told, cacheVars>>

-----------------------------------------------------------------------------
(* The collector: reading the registry and choosing a worktree. *)

Goto(there) == pc' = there /\ UNCHANGED <<cur, rows>>

\* The decision for cur is final; remove_explicit returns with it.
Decide(d) ==
  /\ rows' = [rows EXCEPT ![cur] = d]
  /\ cur' = Nothing
  /\ pc' = IF Explicit THEN "done" ELSE "next"

\* Mutant: worktrees outside leftover_dir are collected as well.
ListEverything ==
  /\ pc = "start" /\ ~ Explicit
  /\ wasLocked' = locked /\ wasListed' = registered
  /\ todo' = registered
  /\ Goto("next")
  /\ UNCHANGED <<repoVars, log, cwds, reach, userVars>>

\* registered_worktrees: one `git worktree list`, with the locks as of now.
\* remove_explicit looks at its own path only.
List ==
  /\ pc = "start"
  /\ wasLocked' = locked /\ wasListed' = registered
  /\ \/ \E t \in exists :
          /\ Explicit
          /\ cur' = t /\ todo' = {}
          /\ IF t \in locked /\ ~ Forced
             THEN pc' = "done" /\ rows' = [rows EXCEPT ![t] = "Locked"]
             ELSE pc' = "cwd" /\ UNCHANGED rows
     \/ /\ ~ Explicit
        /\ todo' = registered \ Skipped
        /\ Goto("next")
  /\ UNCHANGED <<repoVars, log, cwds, reach, userVars>>

\* The registry cannot be read: nothing has happened yet.
ListFails ==
  /\ pc = "start"
  /\ Goto("failed")
  /\ UNCHANGED <<repoVars, log, cacheVars, userVars>>

\* Mutant: the worktree stays on the list of those to visit.
VisitAgain(t) ==
  /\ pc = "next" /\ t \in todo
  /\ IF t \in wasLocked
     THEN rows' = [rows EXCEPT ![t] = "Locked"] /\ UNCHANGED <<pc, cur>>
     ELSE pc' = "cwd" /\ cur' = t /\ UNCHANGED rows
  /\ UNCHANGED <<repoVars, log, cacheVars, userVars>>

Visit(t) ==
  /\ pc = "next" /\ t \in todo
  /\ todo' = todo \ {t}
  /\ IF t \in wasLocked
     THEN rows' = [rows EXCEPT ![t] = "Locked"] /\ UNCHANGED <<pc, cur>>
     ELSE pc' = "cwd" /\ cur' = t /\ UNCHANGED rows
  /\ UNCHANGED <<repoVars, log, wasLocked, wasListed, cwds, reach, userVars>>

\* linux_process_cwds skips every link it cannot read.
Seen == live \ Hidden

\* worktree_has_live_cwd_from: an age collection probes once for all trees,
\* and a probe that failed counts as "in use" everywhere.
ProbeCwds ==
  /\ pc = "cwd"
  /\ IF cwds.read THEN UNCHANGED cwds ELSE cwds' \in {Known(Seen), Failed}
  /\ IF cwds'.ok /\ cur \notin cwds'.set
     THEN Goto(IF Explicit THEN "status" ELSE "age")
     ELSE Decide("LiveCwd")
  /\ UNCHANGED <<repoVars, log, todo, wasLocked, wasListed, reach, userVars>>

\* classify_for_age_gc: newest_tree_mtime, the index and the HEAD commit.
\* The walk fails on an unreadable directory and past its cap.
ReadAge ==
  /\ pc = "age"
  /\ \/ cur \in exists \cap aged /\ Goto("status")
     \/ cur \in exists \ aged /\ Decide("TooNew")
     \/ Decide("StatusUnreadable")
  /\ UNCHANGED <<repoVars, log, cacheVars, userVars>>

\* cache_tree_has_denied_name: a directory that cannot be read counts as one
\* with a denied name, the entries past the limit as none.
HasDeniedName(S) == "secret" \in S \/ "sealed" \in S

\* What `git status` prints of the files S: nothing of a directory it cannot read.
Porcelain(S) == S \ {"sealed"}

\* Mutant: only the cache directories that git prints are walked.
PrintedWork(S) ==
  IF "edit" \in Porcelain(S) THEN "DirtyWork"
  ELSE IF "own" \in Porcelain(S) \/ HasDeniedName(Porcelain(S)) THEN "UniqueUntracked"
  ELSE Nothing

\* unique_work_from: the lines of `git status`, and then every cache directory
\* that is there, whether it was printed or not.
UniqueWork(S) ==
  IF "edit" \in Porcelain(S) THEN "DirtyWork"
  ELSE IF "own" \in Porcelain(S) \/ HasDeniedName(S) THEN "UniqueUntracked"
  ELSE Nothing

\* classify_worktree_with_index: one `git status`.
Classify ==
  /\ pc = "status"
  /\ \/ /\ cur \in exists /\ UniqueWork(files[cur]) = Nothing
        /\ IF DryRun THEN Decide("Reclaim") ELSE Goto("reflog")
     \/ /\ cur \in exists /\ UniqueWork(files[cur]) # Nothing
        /\ Decide(UniqueWork(files[cur]))
     \/ Decide("StatusUnreadable")
     \/ Decide("NotAGitDir")
  /\ UNCHANGED <<repoVars, log, cacheVars, userVars>>

-----------------------------------------------------------------------------
(* The collector: saving what only the worktree refers to. *)

ReadReflog ==
  /\ pc = "reflog"
  /\ \/ log' = reflog[cur] /\ Goto("reach")
     \/ UNCHANGED log /\ Decide("StatusUnreadable")
  /\ UNCHANGED <<repoVars, cacheVars, userVars>>

\* reachable_branch_commits, read once for a whole age collection.
ReadReach ==
  /\ pc = "reach"
  /\ IF reach.read THEN UNCHANGED reach ELSE reach' \in {Known(branch), Failed}
  /\ IF reach'.ok THEN Goto("save") ELSE Decide("StatusUnreadable")
  /\ UNCHANGED <<repoVars, log, todo, wasLocked, wasListed, cwds, userVars>>

\* Mutant: a failing update-ref does not keep the tree.
IgnoreSaveFailure ==
  /\ pc = "save"
  /\ \E some \in SUBSET (log \ reach.set) : saved' = saved \union some
  /\ Goto("recheck")
  /\ UNCHANGED <<exists, registered, locked, live, files, aged, reflog, branch, log, cacheVars, userVars>>

\* save_reflog_shas: each ref is a transaction of its own, so a failure
\* leaves the refs before it in place, and the tree is kept.
SaveRefs ==
  /\ pc = "save"
  /\ \/ saved' = saved \union (log \ reach.set) /\ Goto("recheck")
     \/ /\ \E some \in SUBSET (log \ reach.set) :
             some # log \ reach.set /\ saved' = saved \union some
        /\ Decide("StatusUnreadable")
  /\ UNCHANGED <<exists, registered, locked, live, files, aged, reflog, branch, log, cacheVars, userVars>>

-----------------------------------------------------------------------------
(* The collector: take_if_still_clean. *)

\* unique_work_reason once more.
Recheck ==
  /\ pc = "recheck"
  /\ \/ cur \in exists /\ UniqueWork(files[cur]) = Nothing /\ Goto("recwd")
     \/ cur \in exists /\ UniqueWork(files[cur]) # Nothing /\ Decide(UniqueWork(files[cur]))
     \/ Decide("StatusUnreadable")
  /\ UNCHANGED <<repoVars, log, cacheVars, userVars>>

\* Mutant: the second look at the cwds uses the cached probe.
RecheckCachedCwd ==
  /\ pc = "recwd"
  /\ IF cur \notin cwds.set THEN Goto("remove") ELSE Decide("LiveCwd")
  /\ UNCHANGED <<repoVars, log, cacheVars, userVars>>

\* worktree_has_live_cwd: a probe of its own, not the cached one.
RecheckCwd ==
  /\ pc = "recwd"
  /\ \/ cur \notin Seen /\ Goto("remove")
     \/ Decide("LiveCwd")
  /\ UNCHANGED <<repoVars, log, cacheVars, userVars>>

\* Without a second --force git refuses a locked worktree.
Unlock == Explicit /\ Forced /\ cur \in wasLocked

\* What git forgets with a worktree: its lock and its HEAD reflog.
Unregister(S) ==
  /\ registered' = registered \ S
  /\ locked' = locked \ S
  /\ reflog' = [t \in Tree |-> IF t \in S \cap registered THEN {} ELSE reflog[t]]

\* The directory of cur goes, and with it what git knew of it.
TakeAway ==
  /\ pc = "remove"
  /\ IF cur \in wasListed THEN cur \in registered /\ (cur \in locked => Unlock)
     ELSE cur \in exists
  /\ exists' = exists \ {cur}
  /\ Unregister({cur})
  /\ live' = live \ {cur}
  /\ files' = [files EXCEPT ![cur] = {}]
  /\ Decide("Reclaim")
  /\ UNCHANGED <<aged, branch, saved, log, cacheVars, userVars>>

\* Mutant: the row is the one of classify_worktree, which names no refs.
RemoveUntold == TakeAway /\ UNCHANGED told

\* remove_worktree, or remove_dir_all for a checkout git does not know; the
\* refs that save_reflog_shas made are in the row.
Remove == TakeAway /\ told' = told \union (log \ reach.set)

\* git fails from the repository and from the worktree: the error ends the
\* whole collection and the rows so far are dropped.
RemoveFails ==
  /\ pc = "remove"
  /\ Goto("failed")
  /\ UNCHANGED <<repoVars, log, cacheVars, userVars>>

\* untracked_leftovers: what is in leftover_dir and was not in the registry.
Untracked == exists \ (wasListed \union Outside)

\* All worktrees visited.
Leftovers ==
  /\ pc = "next" /\ todo = {}
  /\ rows' = [t \in Tree |-> IF t \in Untracked THEN "UntrackedWorktree" ELSE rows[t]]
  /\ pc' = IF DryRun THEN "done" ELSE "prune"
  /\ UNCHANGED <<repoVars, cur, log, cacheVars, userVars>>

\* `git worktree prune` forgets every worktree whose directory is not there.
Prune ==
  /\ pc = "prune"
  /\ \/ Unregister(registered \ (exists \union locked)) /\ Goto("done")
     \/ UNCHANGED <<registered, locked, reflog>> /\ Goto("failed")
  /\ UNCHANGED <<exists, live, files, aged, branch, saved, log, cacheVars, userVars>>

GcStep ==
  /\ \/ /\ \/ List \/ ListFails \/ \E t \in Tree : Visit(t)
           \/ ProbeCwds \/ ReadAge \/ Classify
           \/ ReadReflog \/ ReadReach \/ SaveRefs
           \/ Recheck \/ RecheckCwd \/ RemoveFails
           \/ Leftovers \/ Prune
        /\ UNCHANGED told
     \/ Remove
  /\ UNCHANGED call

Next == GcStep \/ UserStep

Spec == Init /\ [][Next]_vars
FairSpec == Spec /\ WF_vars(GcStep)

-----------------------------------------------------------------------------
(* Correctness. *)

TypeOK ==
  /\ exists \in SUBSET Tree /\ registered \in SUBSET Tree /\ locked \in SUBSET registered
  /\ live \in SUBSET Tree /\ aged \in SUBSET Tree
  /\ files \in [Tree -> SUBSET FileKind]
  /\ reflog \in [Tree -> SUBSET Commit]
  /\ branch \in SUBSET Commit /\ saved \in SUBSET Commit
  /\ call \in Calls
  /\ pc \in Working \union {"done", "failed"}
  /\ todo \in SUBSET Tree /\ cur \in Tree \union {Nothing}
  /\ wasLocked \in SUBSET Tree /\ wasListed \in SUBSET Tree
  /\ cwds \in {Unread, Failed} \union {Known(S) : S \in SUBSET Tree}
  /\ reach \in {Unread, Failed} \union {Known(S) : S \in SUBSET Commit}
  /\ log \in SUBSET Commit
  /\ rows \in [Tree -> KeepReason \union {"Reclaim", Nothing}] /\ told \in SUBSET Commit
  /\ steps \in 0 .. MaxSteps
  /\ deleted \in SUBSET Tree /\ lateWork \in SUBSET Tree /\ lateCwd \in SUBSET Tree
  /\ lateRefs \in SUBSET Commit

Gone(t) == t \in exists /\ t \notin exists'
Kept(c) == c \in branch \union saved \/ \E t \in Tree : c \in reflog[t]

\* A worktree is removed only if it holds no work of its own, no denied name
\* and no cache directory that could not be looked into, except what the person
\* wrote after the last status read, and what lies past the limit of the cache
\* walk, which the code lets go on purpose.  (take_if_still_clean)
WorkSurvives ==
  [][GcStep => \A t \in Tree : Gone(t) => files[t] \subseteq {"rest"} \/ t \in lateWork]_vars

\* A commit that only the reflog of a removed worktree named is saved, unless
\* it was made after that reflog was read or lost its branch after the
\* branches were read.  A worktree whose directory is gone is not covered:
\* `git worktree prune` drops its reflog unread.  (save_reflog_shas)
CommitsSurvive ==
  [][GcStep => \A c \in Commit : Kept(c) /\ ~ Kept(c)' =>
        c \notin log \/ c \in lateRefs \/ \E t \in registered \ exists : c \in reflog[t]]_vars

\* A worktree that a process works in stays, except when the process entered
\* it after the probe that immediately precedes the removal, or is one whose
\* /proc/PID/cwd cannot be read (Hidden): the code skips those, although
\* gc.rs:514 says that unknown cwds count as live.
LiveCwdSurvives ==
  [][GcStep => \A t \in Tree : Gone(t) => t \notin Seen \/ t \in lateCwd]_vars

\* The answer of a call is what it did.  A worktree is told as reclaimed exactly
\* when the call removed it, except that one whose directory the person removed
\* may be told either way.  A ref made for a commit is in the answer, or the
\* commit is still in a reflog, unless git forgot a worktree the person removed.
\* (run_gc_with_policy, save_reflog_shas, take_if_still_clean)
AnswerIsTrue ==
  pc = "done" =>
    /\ \A t \in Tree \ deleted : t \notin exists <=> rows[t] = "Reclaim" /\ ~ DryRun
    /\ deleted \subseteq registered => saved \subseteq told \union UNION {reflog[t] : t \in Tree}

\* A worktree outside leftover_dir is neither removed nor forgotten while its
\* directory is there; one that is missing goes with the prune.
OutsideLeftAlone ==
  [][GcStep /\ call = "gc_leftovers" =>
       \A t \in Outside \cap exists : t \in exists' /\ (t \in registered => t \in registered')]_vars

\* The collection ends, whatever the person does meanwhile.
Ends == <>(pc \in {"done", "failed"})
=============================================================================
