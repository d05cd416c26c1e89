------------------------------ MODULE GcProofs ------------------------------
(***************************************************************************)
(* What a collection may remove, for any number of worktrees and commits   *)
(* and however much the person does meanwhile: the properties of Gc follow *)
(* from one invariant, Inv, which says what is known about the worktree    *)
(* that is being visited at each step of its visit.                        *)
(***************************************************************************)
EXTENDS Gc, TLAPS

\* The visit of a worktree, and its parts after which something is known.
Visiting == Working \ {"start", "next", "prune"}
Saved    == {"recheck", "recwd", "remove"}
Clean    == {"recwd", "remove"}

\* The worktree that is visited is one, and no step of a collection of
\* leftover_dir comes to one outside.
CurOK ==
  /\ pc \in Visiting => cur \in Tree
  /\ call = "gc_leftovers" => todo \cap Outside = {} /\ (pc \in Visiting => cur \notin Outside)

\* The commits on branches that were read still are, or lost their branch since.
ReachOK == reach.ok => reach.read /\ reach.set \subseteq branch \union lateRefs

SavedOK ==
  /\ pc = "save" => reach.ok
  /\ pc \in Saved => reach.ok /\ log \subseteq reach.set \union saved
CleanOK == pc \in Clean => files[cur] \subseteq {"rest"} \/ cur \in lateWork
UsedOK  == pc = "remove" => cur \notin Seen \/ cur \in lateCwd

Inv == TypeOK /\ CurOK /\ ReachOK /\ SavedOK /\ CleanOK /\ UsedOK

-----------------------------------------------------------------------------

\* unique_work_from finds nothing only where there is nothing to keep.
LEMMA NothingToKeep ==
  ASSUME NEW S \in SUBSET FileKind, UniqueWork(S) = Nothing
  PROVE  S \subseteq {"rest"}
  BY DEF UniqueWork, Porcelain, HasDeniedName, Nothing, FileKind

\* unique_work_from answers with a reason to keep the tree, or none.
LEMMA WorkIsReason ==
  ASSUME NEW S
  PROVE  UniqueWork(S) \in KeepReason \union {Nothing}
  BY DEF UniqueWork, KeepReason, Nothing

\* The values of the cached probes.
LEMMA Probes ==
  /\ ~ Unread.ok /\ ~ Unread.read /\ ~ Failed.ok /\ Failed.read
  /\ \A S : Known(S).ok /\ Known(S).read /\ Known(S).set = S
  BY DEF Unread, Failed, Known

LEMMA InitInv ==
  ASSUME Init
  PROVE  Inv
<1>1. TypeOK
  <2>1. cur \in Tree \union {Nothing} /\ cwds \in {Unread, Failed} \union {Known(S) : S \in SUBSET Tree}
    BY DEF Init
  <2>2. reach \in {Unread, Failed} \union {Known(S) : S \in SUBSET Commit}
    BY DEF Init
  <2>3. rows \in [Tree -> KeepReason \union {"Reclaim", Nothing}]
    BY DEF Init
  <2>4. registered \in SUBSET Tree /\ steps \in 0 .. MaxSteps
    BY GcAssumption DEF Init
  <2> QED BY <2>1, <2>2, <2>3, <2>4 DEF Init, TypeOK, Working, Calls
<1>2. CurOK /\ SavedOK /\ CleanOK /\ UsedOK
  BY DEF Init, CurOK, SavedOK, CleanOK, UsedOK, Visiting, Saved, Clean, Working, Calls
<1>3. ReachOK
  BY Probes DEF Init, ReachOK
<1> QED BY <1>1, <1>2, <1>3 DEF Inv

-----------------------------------------------------------------------------
(* Steps of the person. *)

LEMMA UserTypeOK ==
  ASSUME TypeOK, UserStep
  PROVE  TypeOK'
<1> steps' \in 0 .. MaxSteps
  BY GcAssumption DEF TypeOK, UserStep
<1> /\ pc' = pc /\ call' = call /\ cur' = cur /\ log' = log /\ rows' = rows /\ told' = told
    /\ todo' = todo /\ wasLocked' = wasLocked /\ wasListed' = wasListed /\ cwds' = cwds /\ reach' = reach
  BY DEF UserStep, cacheVars
<1> DEFINE Ranges == /\ exists' \in SUBSET Tree /\ registered' \in SUBSET Tree
                     /\ locked' \in SUBSET registered'
                     /\ live' \in SUBSET Tree /\ aged' \in SUBSET Tree
                     /\ files' \in [Tree -> SUBSET FileKind]
                     /\ reflog' \in [Tree -> SUBSET Commit]
                     /\ branch' \in SUBSET Commit /\ saved' \in SUBSET Commit
                     /\ deleted' \in SUBSET Tree /\ lateWork' \in SUBSET Tree
                     /\ lateCwd' \in SUBSET Tree /\ lateRefs' \in SUBSET Commit
<1> SUFFICES Ranges
  BY DEF TypeOK
<1>1. ASSUME NEW t \in Tree, NEW k \in FileKind, Write(t, k) PROVE Ranges
  BY <1>1 DEF TypeOK, Write, Younger
<1>2. ASSUME NEW t \in Tree, Enter(t) \/ Leave(t) \/ LockOrUnlock(t) PROVE Ranges
  BY <1>2 DEF TypeOK, Enter, Leave, LockOrUnlock, lateVars
<1>3. ASSUME NEW t \in Tree, DeleteDir(t) PROVE Ranges
  BY <1>3 DEF TypeOK, DeleteDir
<1>4. ASSUME NEW t \in Tree, NEW c \in Commit, CommitHere(t, c) PROVE Ranges
  BY <1>4 DEF TypeOK, CommitHere, lateVars
<1>5. ASSUME NEW c \in Commit, DeleteBranch(c) PROVE Ranges
  BY <1>5 DEF TypeOK, DeleteBranch
<1> HIDE DEF Ranges
<1> QED BY <1>1, <1>2, <1>3, <1>4, <1>5 DEF UserStep

\* Whatever the person does, what is known of the visited worktree stays true,
\* or the late sets say what came in between.
LEMMA UserKeeps ==
  ASSUME Inv, UserStep
  PROVE  (CurOK /\ ReachOK /\ SavedOK /\ CleanOK /\ UsedOK)'
<1> USE DEF Inv
<1> /\ pc' = pc /\ call' = call /\ cur' = cur /\ log' = log
    /\ todo' = todo /\ wasLocked' = wasLocked /\ wasListed' = wasListed /\ cwds' = cwds /\ reach' = reach
  BY DEF UserStep, cacheVars
<1> DEFINE Grows == /\ registered' = registered /\ saved' = saved
                    /\ branch \union lateRefs \subseteq branch' \union lateRefs' \/ ~ reach.read
                    /\ pc \in Clean => \/ files'[cur] \cap {"edit", "own", "secret", "sealed"} \subseteq files[cur]
                                         \/ cur \in lateWork'
                    /\ lateWork \subseteq lateWork' /\ lateCwd \subseteq lateCwd'
                    /\ pc = "remove" /\ cur \in live' => cur \in live \/ cur \in lateCwd'
<1>1. ASSUME NEW t \in Tree, NEW k \in FileKind, Write(t, k) PROVE Grows
  BY <1>1 DEF TypeOK, Write, CurOK, Clean, Visiting, Working
<1>2. ASSUME NEW t \in Tree, Enter(t) \/ Leave(t) \/ LockOrUnlock(t) PROVE Grows
  <2>1. UNCHANGED <<registered, saved, branch, lateRefs, files, lateWork>>
    BY <1>2 DEF Enter, Leave, LockOrUnlock, lateVars
  <2>2. lateCwd \subseteq lateCwd' /\ (pc = "remove" /\ cur \in live' => cur \in live \/ cur \in lateCwd')
    BY <1>2 DEF Enter, Leave, LockOrUnlock, lateVars
  <2> QED BY <2>1, <2>2
<1>3. ASSUME NEW t \in Tree, DeleteDir(t) PROVE Grows
  BY <1>3 DEF TypeOK, DeleteDir, CurOK, Clean, Visiting, Working
<1>4. ASSUME NEW t \in Tree, NEW c \in Commit, CommitHere(t, c) PROVE Grows
  BY <1>4 DEF TypeOK, CommitHere, lateVars, CurOK, Clean, Visiting, Working
<1>5. ASSUME NEW c \in Commit, DeleteBranch(c) PROVE Grows
  BY <1>5 DEF TypeOK, DeleteBranch
<1>6. Grows
  <2> HIDE DEF Grows
  <2> QED BY <1>1, <1>2, <1>3, <1>4, <1>5 DEF UserStep
<1>7. CurOK' /\ SavedOK'
  BY <1>6 DEF CurOK, SavedOK
<1>8. ReachOK'
  BY <1>6 DEF ReachOK
<1>9. CleanOK'
  <2>1. pc \in Clean => files'[cur] \subseteq FileKind
    BY UserTypeOK DEF TypeOK, CurOK, Clean, Visiting, Working
  <2> QED BY <1>6, <2>1 DEF CleanOK, FileKind
<1>10. UsedOK'
  BY <1>6 DEF UsedOK, Seen
<1> QED BY <1>7, <1>8, <1>9, <1>10

-----------------------------------------------------------------------------
(* Steps of the collector. *)

\* The values a row can have.
Row == KeepReason \union {"Reclaim", Nothing}

\* After a decision no worktree is visited.
LEMMA Decided ==
  ASSUME TypeOK, NEW d \in Row, Decide(d)
  PROVE  /\ rows' \in [Tree -> Row] /\ cur' = Nothing
         /\ pc' \in {"done", "next"} /\ pc' \notin Visiting
  BY DEF TypeOK, Decide, Row, Visiting, Working

\* The decisions of this module are rows.
LEMMA Reasons ==
  /\ {"LiveCwd", "TooNew", "StatusUnreadable", "NotAGitDir", "Reclaim"} \subseteq Row
  /\ \A S : UniqueWork(S) # Nothing => UniqueWork(S) \in Row
  BY WorkIsReason DEF Row, KeepReason, Nothing

\* A step that leaves the repository alone and reads no cache keeps its types
\* when its program counter and its rows are right.
LEMMA FrameTypeOK ==
  ASSUME TypeOK, UNCHANGED <<repoVars, call, log, cacheVars, userVars>>, told' \in SUBSET Commit,
         pc' \in Working \union {"done", "failed"},
         cur' \in {cur, Nothing}, rows' \in [Tree -> Row]
  PROVE  TypeOK'
  BY DEF TypeOK, repoVars, cacheVars, userVars, lateVars, Row

\* A step that decides on the visited worktree, or goes on from one probe to the next.
LEMMA SimpleTypeOK ==
  ASSUME TypeOK, UNCHANGED <<repoVars, call, log, cacheVars, userVars>>, told' \in SUBSET Commit,
         \/ \E d \in Row : Decide(d)
         \/ \E there \in Working \union {"done", "failed"} : Goto(there)
  PROVE  TypeOK'
<1>1. ASSUME NEW d \in Row, Decide(d) PROVE TypeOK'
  BY <1>1, Decided, FrameTypeOK DEF Working
<1>2. ASSUME NEW there \in Working \union {"done", "failed"}, Goto(there) PROVE TypeOK'
  <2>1. rows' \in [Tree -> Row] /\ cur' = cur /\ pc' = there
    BY <1>2 DEF Goto, TypeOK, Row
  <2> QED BY <2>1, FrameTypeOK
<1> QED BY <1>1, <1>2

LEMMA StepTypeOK ==
  ASSUME Inv, GcStep
  PROVE  TypeOK'
<1> call' = call /\ TypeOK
  BY DEF GcStep, Inv
<1>0. told' \in SUBSET Commit
  BY DEF GcStep, Remove, TypeOK
<1>1. CASE List
  <2>1. /\ pc' \in Working \union {"done", "failed"} /\ rows' \in [Tree -> Row]
        /\ todo' \in SUBSET Tree /\ cur' \in Tree \union {Nothing}
    BY <1>1 DEF List, Goto, TypeOK, Working, Row, KeepReason
  <2>2. /\ wasLocked' \in SUBSET Tree /\ wasListed' \in SUBSET Tree
        /\ UNCHANGED <<repoVars, log, cwds, reach, userVars>>
    BY <1>1 DEF List, TypeOK
  <2> QED BY <1>0, <2>1, <2>2 DEF TypeOK, repoVars, userVars, lateVars, Row
<1>2. ASSUME NEW t \in Tree, Visit(t) PROVE TypeOK'
  <2>1. /\ pc' \in Working /\ rows' \in [Tree -> Row]
        /\ todo' \in SUBSET Tree /\ cur' \in Tree \union {Nothing}
    BY <1>2 DEF Visit, TypeOK, Working, Row, KeepReason
  <2>2. UNCHANGED <<repoVars, log, wasLocked, wasListed, cwds, reach, userVars>>
    BY <1>2 DEF Visit
  <2> QED BY <1>0, <2>1, <2>2 DEF TypeOK, repoVars, userVars, lateVars, Row
<1>3. CASE ListFails \/ RemoveFails
  BY <1>0, <1>3, SimpleTypeOK DEF ListFails, RemoveFails
<1>4. CASE ReadAge \/ Classify \/ Recheck \/ RecheckCwd
  <2>1. \/ \E d \in Row : Decide(d)
        \/ \E there \in Working \union {"done", "failed"} : Goto(there)
    BY <1>4, Reasons DEF ReadAge, Classify, Recheck, RecheckCwd, Working
  <2>2. UNCHANGED <<repoVars, log, cacheVars, userVars>>
    BY <1>4 DEF ReadAge, Classify, Recheck, RecheckCwd
  <2> QED BY <1>0, <2>1, <2>2, SimpleTypeOK
<1>5. CASE ProbeCwds
  <2>1. cwds' \in {Unread, Failed} \union {Known(S) : S \in SUBSET Tree}
    BY <1>5 DEF ProbeCwds, TypeOK, Seen
  <2>2. /\ pc' \in Working \union {"done", "failed"} /\ rows' \in [Tree -> Row]
        /\ cur' \in {cur, Nothing}
    BY <1>5, Decided, Reasons DEF ProbeCwds, Goto, TypeOK, Working, Row
  <2>3. UNCHANGED <<repoVars, log, todo, wasLocked, wasListed, reach, userVars>>
    BY <1>5 DEF ProbeCwds
  <2> QED BY <1>0, <2>1, <2>2, <2>3 DEF TypeOK, repoVars, userVars, lateVars, Row
<1>6. CASE ReadReflog
  <2>1. log' \in SUBSET Commit
    BY <1>6 DEF ReadReflog, TypeOK, Inv, CurOK, Visiting, Working
  <2>2. /\ pc' \in Working \union {"done", "failed"} /\ rows' \in [Tree -> Row]
        /\ cur' \in {cur, Nothing}
    BY <1>6, Decided, Reasons DEF ReadReflog, Goto, TypeOK, Working, Row
  <2>3. UNCHANGED <<repoVars, cacheVars, userVars>>
    BY <1>6 DEF ReadReflog
  <2> QED BY <1>0, <2>1, <2>2, <2>3 DEF TypeOK, repoVars, cacheVars, userVars, lateVars, Row
<1>7. CASE ReadReach
  <2>1. reach' \in {Unread, Failed} \union {Known(S) : S \in SUBSET Commit}
    BY <1>7 DEF ReadReach, TypeOK
  <2>2. /\ pc' \in Working \union {"done", "failed"} /\ rows' \in [Tree -> Row]
        /\ cur' \in {cur, Nothing}
    BY <1>7, Decided, Reasons DEF ReadReach, Goto, TypeOK, Working, Row
  <2>3. UNCHANGED <<repoVars, log, todo, wasLocked, wasListed, cwds, userVars>>
    BY <1>7 DEF ReadReach
  <2> QED BY <1>0, <2>1, <2>2, <2>3 DEF TypeOK, repoVars, userVars, lateVars, Row
<1>8. CASE SaveRefs
  <2>1. saved' \in SUBSET Commit
    BY <1>8 DEF SaveRefs, TypeOK
  <2>2. /\ pc' \in Working \union {"done", "failed"} /\ rows' \in [Tree -> Row]
        /\ cur' \in {cur, Nothing}
    BY <1>8, Decided, Reasons DEF SaveRefs, Goto, TypeOK, Working, Row
  <2>3. UNCHANGED <<exists, registered, locked, live, files, aged, reflog, branch, log, cacheVars, userVars>>
    BY <1>8 DEF SaveRefs
  <2> QED BY <1>0, <2>1, <2>2, <2>3 DEF TypeOK, cacheVars, userVars, lateVars, Row
<1>9. CASE Remove
  <2>1. /\ exists' \in SUBSET Tree /\ live' \in SUBSET Tree /\ files' \in [Tree -> SUBSET FileKind]
    BY <1>9 DEF Remove, TakeAway, TypeOK
  <2>2. /\ registered' \in SUBSET Tree /\ locked' \in SUBSET registered'
        /\ reflog' \in [Tree -> SUBSET Commit]
    BY <1>9 DEF Remove, TakeAway, Unregister, TypeOK
  <2>3. rows' \in [Tree -> Row] /\ cur' = Nothing /\ pc' \in {"done", "next"}
    BY <1>9, Decided, Reasons DEF Remove, TakeAway
  <2>4. UNCHANGED <<aged, branch, saved, log, cacheVars, userVars>>
    BY <1>9 DEF Remove, TakeAway
  <2> QED BY <1>0, <2>1, <2>2, <2>3, <2>4 DEF TypeOK, cacheVars, userVars, lateVars, Row, Working
<1>10. CASE Leftovers
  <2>1. rows' \in [Tree -> Row] /\ pc' \in Working \union {"done", "failed"}
    BY <1>10 DEF Leftovers, TypeOK, Row, KeepReason, Working
  <2>2. UNCHANGED <<repoVars, cur, log, cacheVars, userVars>>
    BY <1>10 DEF Leftovers
  <2> QED BY <1>0, <2>1, <2>2, FrameTypeOK
<1>11. CASE Prune
  <2>1. /\ registered' \in SUBSET Tree /\ locked' \in SUBSET registered'
        /\ reflog' \in [Tree -> SUBSET Commit]
    BY <1>11 DEF Prune, Unregister, TypeOK
  <2>2. pc' \in {"done", "failed"} /\ cur' = cur /\ rows' = rows
    BY <1>11 DEF Prune, Goto
  <2>3. UNCHANGED <<exists, live, files, aged, branch, saved, log, cacheVars, userVars>>
    BY <1>11 DEF Prune
  <2> QED BY <1>0, <2>1, <2>2, <2>3 DEF TypeOK, cacheVars, userVars, lateVars
<1> QED BY <1>1, <1>2, <1>3, <1>4, <1>5, <1>6, <1>7, <1>8, <1>9, <1>10, <1>11 DEF GcStep

\* A step that decides or ends the visit leaves nothing to know of it.
LEMMA EndsVisit ==
  ASSUME Inv, call' = call, UNCHANGED <<todo, wasListed, lateRefs, lateWork, lateCwd>>,
         pc \in Working \ {"start"}, pc' \notin Visiting, pc' # "start",
         registered' \subseteq registered, ReachOK'
  PROVE  (CurOK /\ ReachOK /\ SavedOK /\ CleanOK /\ UsedOK)'
  BY DEF Inv, CurOK, SavedOK, CleanOK, UsedOK, Visiting, Saved, Clean, Working

\* A step from one part of a visit to the next keeps what was known before.
LEMMA GoesOn ==
  ASSUME Inv, call' = call, cur' = cur,
         UNCHANGED <<exists, registered, live, files, branch, todo, wasListed, lateRefs, lateWork, lateCwd>>,
         pc \in Visiting, pc' \in Visiting, ReachOK',
         pc' = "save" => reach'.ok,
         pc' \in Saved => reach'.ok /\ log' \subseteq reach'.set \union saved',
         pc' \in Clean => files[cur] \subseteq {"rest"} \/ cur \in lateWork,
         pc' = "remove" => cur \notin Seen \/ cur \in lateCwd
  PROVE  (CurOK /\ ReachOK /\ SavedOK /\ CleanOK /\ UsedOK)'
  BY DEF Inv, CurOK, SavedOK, CleanOK, UsedOK, Visiting, Working, Seen

LEMMA StepKeeps ==
  ASSUME Inv, GcStep
  PROVE  (CurOK /\ ReachOK /\ SavedOK /\ CleanOK /\ UsedOK)'
<1> DEFINE Known_ == CurOK /\ ReachOK /\ SavedOK /\ CleanOK /\ UsedOK
<1> call' = call /\ Known_ /\ TypeOK
  BY DEF GcStep, Inv
<1> USE DEF userVars, lateVars, repoVars, cacheVars
<1>0. UNCHANGED <<branch, lateRefs, lateWork, lateCwd>>
  BY DEF GcStep, List, Visit, ListFails, RemoveFails, ReadAge, Classify, Recheck, RecheckCwd, ProbeCwds,
         ReadReflog, ReadReach, SaveRefs, Remove, TakeAway, Leftovers, Prune
<1>1. CASE List
  <2>1. ReachOK'
    BY <1>1 DEF List, ReachOK
  <2>2. pc' \notin Saved /\ pc' \notin Clean /\ pc' # "save"
    BY <1>1 DEF List, Goto, Saved, Clean
  <2>3. CurOK'
    BY <1>1 DEF List, Goto, CurOK, Visiting, Working, Skipped, Explicit, TypeOK
  <2> QED BY <2>1, <2>2, <2>3 DEF SavedOK, CleanOK, UsedOK, Clean
<1>2. ASSUME NEW t \in Tree, Visit(t) PROVE Known_'
  <2>1. ReachOK'
    BY <1>2 DEF Visit, ReachOK
  <2>2. pc' \notin Saved /\ pc' \notin Clean /\ pc' # "save"
    BY <1>2 DEF Visit, Saved, Clean
  <2>3. CurOK'
    BY <1>2 DEF Visit, CurOK, Visiting, Working
  <2> QED BY <2>1, <2>2, <2>3 DEF SavedOK, CleanOK, UsedOK, Clean
<1>3. CASE ListFails
  BY <1>3, <1>0 DEF ListFails, Goto, CurOK, ReachOK, SavedOK, CleanOK, UsedOK, Visiting, Saved, Clean,
     Working, TypeOK
<1>4. CASE ReadAge
  <2>1. CASE \E d \in Row : Decide(d)
    BY <1>4, <1>0, <2>1, Decided, EndsVisit DEF ReadAge, ReachOK, Visiting, Working
  <2>2. CASE Goto("status")
    BY <1>4, <1>0, <2>2, GoesOn DEF ReadAge, Goto, ReachOK, Visiting, Working, Saved, Clean
  <2> QED BY <1>4, <2>1, <2>2, Reasons DEF ReadAge
<1>5. CASE Classify
  <2>1. CASE \E d \in Row : Decide(d)
    BY <1>5, <1>0, <2>1, Decided, EndsVisit DEF Classify, ReachOK, Visiting, Working
  <2>2. CASE Goto("reflog")
    BY <1>5, <1>0, <2>2, GoesOn DEF Classify, Goto, ReachOK, Visiting, Working, Saved, Clean
  <2> QED BY <1>5, <2>1, <2>2, Reasons DEF Classify
<1>6. CASE Recheck
  <2>1. CASE \E d \in Row : Decide(d)
    BY <1>6, <1>0, <2>1, Decided, EndsVisit DEF Recheck, ReachOK, Visiting, Working
  <2>2. CASE Goto("recwd") /\ UniqueWork(files[cur]) = Nothing
    <3>1. files[cur] \subseteq {"rest"}
      <4>1. files[cur] \in SUBSET FileKind
        BY <1>6 DEF Recheck, TypeOK, CurOK, Visiting, Working
      <4> QED BY <2>2, <4>1, NothingToKeep
    <3>2. reach.ok /\ log \subseteq reach.set \union saved
      BY <1>6 DEF Recheck, SavedOK, Saved
    <3> QED BY <1>6, <1>0, <2>2, <3>1, <3>2, GoesOn DEF Recheck, Goto, ReachOK, Visiting, Working
  <2> QED BY <1>6, <2>1, <2>2, Reasons DEF Recheck
<1>7. CASE RecheckCwd
  <2>1. CASE \E d \in Row : Decide(d)
    BY <1>7, <1>0, <2>1, Decided, EndsVisit DEF RecheckCwd, ReachOK, Visiting, Working
  <2>2. CASE Goto("remove") /\ cur \notin Seen
    <3>1. files[cur] \subseteq {"rest"} \/ cur \in lateWork
      BY <1>7 DEF RecheckCwd, CleanOK, Clean
    <3>2. reach.ok /\ log \subseteq reach.set \union saved
      BY <1>7 DEF RecheckCwd, SavedOK, Saved
    <3> QED BY <1>7, <1>0, <2>2, <3>1, <3>2, GoesOn DEF RecheckCwd, Goto, ReachOK, Visiting, Working
  <2> QED BY <1>7, <2>1, <2>2, Reasons DEF RecheckCwd
<1>8. CASE ProbeCwds
  <2>1. CASE \E d \in Row : Decide(d)
    BY <1>8, <1>0, <2>1, Decided, EndsVisit DEF ProbeCwds, ReachOK, Visiting, Working
  <2>2. CASE Goto(IF Explicit THEN "status" ELSE "age")
    BY <1>8, <1>0, <2>2, GoesOn DEF ProbeCwds, Goto, ReachOK, Visiting, Working, Saved, Clean
  <2> QED BY <1>8, <2>1, <2>2, Reasons DEF ProbeCwds
<1>9. CASE ReadReflog
  <2>1. CASE Decide("StatusUnreadable")
    BY <1>9, <1>0, <2>1, Decided, Reasons, EndsVisit DEF ReadReflog, ReachOK, Visiting, Working
  <2>2. CASE Goto("reach")
    BY <1>9, <1>0, <2>2, GoesOn DEF ReadReflog, Goto, ReachOK, Visiting, Working, Saved, Clean
  <2> QED BY <1>9, <2>1, <2>2 DEF ReadReflog
<1>10. CASE ReadReach
  <2>0. ReachOK'
    BY <1>10, <1>0, Probes DEF ReadReach, ReachOK, TypeOK
  <2>1. CASE Decide("StatusUnreadable")
    BY <1>10, <1>0, <2>0, <2>1, Decided, Reasons, EndsVisit DEF ReadReach, Visiting, Working
  <2>2. CASE Goto("save") /\ reach'.ok
    BY <1>10, <1>0, <2>0, <2>2, GoesOn DEF ReadReach, Goto, Visiting, Working, Saved, Clean
  <2> QED BY <1>10, <2>1, <2>2 DEF ReadReach
<1>11. CASE SaveRefs
  <2>1. CASE Decide("StatusUnreadable")
    BY <1>11, <1>0, <2>1, Decided, Reasons, EndsVisit DEF SaveRefs, ReachOK, Visiting, Working
  <2>2. CASE Goto("recheck") /\ saved' = saved \union (log \ reach.set)
    <3>1. reach.ok
      BY <1>11 DEF SaveRefs, SavedOK
    <3> QED BY <1>11, <1>0, <2>2, <3>1, GoesOn DEF SaveRefs, Goto, ReachOK, Visiting, Working, Saved, Clean
  <2> QED BY <1>11, <2>1, <2>2 DEF SaveRefs
<1>12. CASE Remove
  <2>1. registered' \subseteq registered
    BY <1>12 DEF Remove, TakeAway, Unregister
  <2>2. Decide("Reclaim")
    BY <1>12 DEF Remove, TakeAway
  <2> QED BY <1>12, <1>0, <2>1, <2>2, Decided, Reasons, EndsVisit DEF Remove, TakeAway, ReachOK, Visiting, Working
<1>13. CASE RemoveFails
  BY <1>13, <1>0, EndsVisit DEF RemoveFails, Goto, ReachOK, Visiting, Working
<1>14. CASE Leftovers
  BY <1>14, <1>0, EndsVisit DEF Leftovers, ReachOK, Visiting, Working
<1>15. CASE Prune
  <2>1. registered' \subseteq registered /\ pc' \in {"done", "failed"}
    BY <1>15 DEF Prune, Unregister, Goto
  <2> QED BY <1>15, <1>0, <2>1, EndsVisit DEF Prune, ReachOK, Visiting, Working
<1> QED
  BY <1>1, <1>2, <1>3, <1>4, <1>5, <1>6, <1>7, <1>8, <1>9, <1>10, <1>11, <1>12, <1>13, <1>14, <1>15 DEF GcStep

\* The invariant of a collection.
LEMMA InvAlways == Spec => []Inv
<1>1. Init => Inv
  BY InitInv
<1>2. Inv /\ [Next]_vars => Inv'
  <2> SUFFICES ASSUME Inv, [Next]_vars PROVE Inv'
    OBVIOUS
  <2>1. CASE GcStep
    BY <2>1, StepTypeOK, StepKeeps DEF Inv
  <2>2. CASE UserStep
    BY <2>2, UserTypeOK, UserKeeps DEF Inv
  <2>3. CASE UNCHANGED vars
    <3> USE <2>3 DEF vars, repoVars, cacheVars, userVars, lateVars
    <3>1. TypeOK'
      BY DEF Inv, TypeOK
    <3>2. (CurOK /\ ReachOK /\ SavedOK /\ CleanOK /\ UsedOK)'
      BY DEF Inv, CurOK, ReachOK, SavedOK, CleanOK, UsedOK, Seen
    <3> QED BY <3>1, <3>2 DEF Inv
  <2> QED BY <2>1, <2>2, <2>3 DEF Next
<1> QED BY <1>1, <1>2, PTL DEF Spec

-----------------------------------------------------------------------------
(* What the answer says.  A row is final: its worktree is never visited     *)
(* again.  So the commits of an unfinished save stay in a reflog, and those *)
(* of the visited worktree reach the answer or stay there as well.          *)

\* The parts of a visit in which the reflog was read, and in which refs are made.
Logged == {"reach", "save"} \union Saved

\* No row is written twice, and a dry run comes to no reflog.
RowsOK ==
  /\ pc = "start" => \A t \in Tree : rows[t] = Nothing
  /\ \A t \in todo : rows[t] = Nothing
  /\ pc \in Visiting => rows[cur] = Nothing /\ cur \notin todo
  /\ pc \in Logged \union {"reflog"} => ~ DryRun

LogOK == pc \in Logged => log \subseteq reflog[cur]

\* What was taken away is told, and nothing else.
DoneOK == \A t \in Tree \ deleted : t \notin exists <=> rows[t] = "Reclaim" /\ ~ DryRun

\* A commit with a ref is in a reflog that stays, or in that of the visited
\* worktree, whose removal tells of the ref.
Found(c, t) ==
  /\ c \in reflog[t]
  /\ \/ rows[t] \notin {Nothing, "Reclaim"}
     \/ t = cur /\ pc \in Saved /\ c \in log \ reach.set
ToldOK == pc # "failed" /\ deleted \subseteq registered => \A c \in saved \ told : \E t \in Tree : Found(c, t)

Tells == RowsOK /\ LogOK /\ DoneOK /\ ToldOK

LEMMA InitTells ==
  ASSUME Init
  PROVE  Tells
  BY DEF Init, Tells, RowsOK, LogOK, DoneOK, ToldOK, Visiting, Logged, Saved, Working, Nothing

\* The person writes no row; a reflog grows under his hands, and a worktree
\* whose directory he removes is in deleted.
LEMMA UserTells ==
  ASSUME Inv, Tells, UserStep
  PROVE  Tells'
<1> /\ pc' = pc /\ call' = call /\ cur' = cur /\ log' = log /\ rows' = rows /\ told' = told
    /\ todo' = todo /\ reach' = reach
  BY DEF UserStep, cacheVars
<1> TypeOK
  BY DEF Inv
<1> DEFINE Grows == /\ registered' = registered /\ saved' = saved /\ deleted \subseteq deleted'
                    /\ \A t \in Tree \ deleted' : t \in exists' <=> t \in exists
                    /\ \A t \in Tree : reflog[t] \subseteq reflog'[t]
<1>1. ASSUME NEW t \in Tree, NEW k \in FileKind, Write(t, k) PROVE Grows
  BY <1>1 DEF Write
<1>2. ASSUME NEW t \in Tree, Enter(t) \/ Leave(t) \/ LockOrUnlock(t) PROVE Grows
  BY <1>2 DEF Enter, Leave, LockOrUnlock, lateVars
<1>3. ASSUME NEW t \in Tree, DeleteDir(t) PROVE Grows
  BY <1>3 DEF DeleteDir
<1>4. ASSUME NEW t \in Tree, NEW c \in Commit, CommitHere(t, c) PROVE Grows
  BY <1>4 DEF TypeOK, CommitHere, lateVars
<1>5. ASSUME NEW c \in Commit, DeleteBranch(c) PROVE Grows
  BY <1>5 DEF DeleteBranch
<1>6. Grows
  <2> HIDE DEF Grows
  <2> QED BY <1>1, <1>2, <1>3, <1>4, <1>5 DEF UserStep
<1>7. RowsOK' /\ DoneOK'
  BY <1>6 DEF Tells, RowsOK, DoneOK, DryRun
<1>8. LogOK'
  BY <1>6 DEF Tells, LogOK, Inv, CurOK, Logged, Saved, Visiting, Working
<1>9. ToldOK'
  <2>1. \A c, t : t \in Tree /\ Found(c, t) => Found(c, t)'
    BY <1>6 DEF Found
  <2>2. deleted' \subseteq registered' => deleted \subseteq registered
    BY <1>6
  <2> QED BY <1>6, <2>1, <2>2 DEF Tells, ToldOK
<1> QED BY <1>7, <1>8, <1>9 DEF Tells

\* What a step of the collector leaves alone that touches neither the
\* repository nor the answer.
quietVars == <<call, exists, registered, reflog, saved, deleted, told, log>>

\* A decision that removes nothing: the row of the visited worktree is final.
LEMMA DecidesTells ==
  ASSUME Inv, Tells, UNCHANGED <<quietVars, todo>>, pc \in Visiting,
         NEW d \in Row \ {Nothing}, Decide(d), d = "Reclaim" => DryRun
  PROVE  Tells'
<1> TypeOK /\ cur \in Tree
  BY DEF Inv, CurOK
<1> UNCHANGED <<call, exists, registered, reflog, saved, deleted, told, log, todo>>
  BY DEF quietVars
<1>1. rows' = [rows EXCEPT ![cur] = d] /\ pc' \in {"done", "next"} /\ rows[cur] = Nothing /\ cur \notin todo
  BY DEF Decide, Tells, RowsOK
<1>2. pc' \notin Visiting /\ pc' \notin Logged /\ pc' # "start" /\ pc' # "reflog"
  BY <1>1 DEF Visiting, Logged, Saved, Working
<1>3. \A t \in Tree : t # cur => rows'[t] = rows[t]
  BY <1>1 DEF TypeOK
<1>4. rows'[cur] = d
  BY <1>1 DEF TypeOK
<1>5. RowsOK'
  BY <1>1, <1>2, <1>3 DEF Tells, RowsOK, TypeOK
<1>6. DoneOK'
  BY <1>1, <1>3, <1>4 DEF Tells, DoneOK, DryRun, Nothing
<1>7. ToldOK'
  <2>1. ASSUME NEW c, NEW t \in Tree, Found(c, t), pc \in Working PROVE Found(c, t)'
    <3>1. CASE t = cur
      <4>1. pc \in Saved
        BY <1>1, <2>1, <3>1 DEF Found
      <4>2. ~ DryRun
        BY <4>1 DEF Tells, RowsOK, Logged
      <4> QED BY <1>4, <2>1, <3>1, <4>2 DEF Found
    <3>2. CASE t # cur
      BY <1>3, <2>1, <3>2 DEF Found
    <3> QED BY <3>1, <3>2
  <2> QED BY <2>1 DEF Tells, ToldOK, Visiting, Working
<1> QED BY <1>2, <1>5, <1>6, <1>7 DEF Tells, LogOK

\* A step to another part of the collection that writes no row.
LEMMA GoesOnTells ==
  ASSUME Inv, Tells, UNCHANGED <<quietVars, todo, cur, rows>>, pc # "failed", pc' # "start",
         pc' \in Visiting => pc \in Visiting,
         pc' \in Logged => pc \in Logged,
         pc' = "reflog" => ~ DryRun,
         pc \in Saved => (pc' \in Saved \union {"failed"} /\ reach' = reach)
  PROVE  Tells'
<1> UNCHANGED <<call, exists, registered, reflog, saved, deleted, told, log, todo, cur, rows>>
  BY DEF quietVars
<1>1. RowsOK' /\ LogOK' /\ DoneOK'
  BY DEF Tells, RowsOK, LogOK, DoneOK, DryRun
<1>2. ToldOK'
  BY DEF Tells, ToldOK, Found
<1> QED BY <1>1, <1>2 DEF Tells

\* The steps of the collector that neither write to the repository nor add to the answer.
LEMMA QuietTells ==
  ASSUME Inv, Tells, UNCHANGED <<call, told>>,
         ListFails \/ ProbeCwds \/ ReadAge \/ Classify \/ ReadReach \/ Recheck \/ RecheckCwd \/ RemoveFails
  PROVE  Tells'
<1> USE DEF quietVars, repoVars, cacheVars, userVars, lateVars, Visiting, Working, Logged, Saved
<1>1. CASE ListFails \/ RemoveFails
  BY <1>1, GoesOnTells DEF ListFails, RemoveFails, Goto
<1>2. CASE ProbeCwds
  <2>1. CASE Decide("LiveCwd")
    BY <1>2, <2>1, DecidesTells, Reasons DEF ProbeCwds, Nothing
  <2>2. CASE Goto(IF Explicit THEN "status" ELSE "age")
    BY <1>2, <2>2, GoesOnTells DEF ProbeCwds, Goto
  <2> QED BY <1>2, <2>1, <2>2 DEF ProbeCwds
<1>3. CASE ReadAge
  <2>1. CASE Goto("status")
    BY <1>3, <2>1, GoesOnTells DEF ReadAge, Goto
  <2>2. CASE Decide("TooNew") \/ Decide("StatusUnreadable")
    BY <1>3, <2>2, DecidesTells, Reasons DEF ReadAge, Nothing
  <2> QED BY <1>3, <2>1, <2>2 DEF ReadAge
<1>4. CASE Classify
  <2>1. CASE Goto("reflog") /\ ~ DryRun
    BY <1>4, <2>1, GoesOnTells DEF Classify, Goto
  <2>2. CASE Decide("Reclaim") /\ DryRun
    BY <1>4, <2>2, DecidesTells, Reasons DEF Classify, Nothing
  <2>3. CASE UniqueWork(files[cur]) # Nothing /\ Decide(UniqueWork(files[cur]))
    <3>1. UniqueWork(files[cur]) \in Row \ {Nothing, "Reclaim"}
      BY <2>3, WorkIsReason DEF Row, KeepReason, Nothing
    <3> QED BY <1>4, <2>3, <3>1, DecidesTells DEF Classify
  <2>4. CASE Decide("StatusUnreadable") \/ Decide("NotAGitDir")
    BY <1>4, <2>4, DecidesTells, Reasons DEF Classify, Nothing
  <2> QED BY <1>4, <2>1, <2>2, <2>3, <2>4 DEF Classify
<1>5. CASE ReadReach
  <2>1. CASE Decide("StatusUnreadable")
    BY <1>5, <2>1, DecidesTells, Reasons DEF ReadReach, Nothing
  <2>2. CASE Goto("save")
    BY <1>5, <2>2, GoesOnTells DEF ReadReach, Goto
  <2> QED BY <1>5, <2>1, <2>2 DEF ReadReach
<1>6. CASE Recheck
  <2>1. CASE Goto("recwd")
    BY <1>6, <2>1, GoesOnTells DEF Recheck, Goto
  <2>2. CASE UniqueWork(files[cur]) # Nothing /\ Decide(UniqueWork(files[cur]))
    <3>1. UniqueWork(files[cur]) \in Row \ {Nothing, "Reclaim"}
      BY <2>2, WorkIsReason DEF Row, KeepReason, Nothing
    <3> QED BY <1>6, <2>2, <3>1, DecidesTells DEF Recheck
  <2>3. CASE Decide("StatusUnreadable")
    BY <1>6, <2>3, DecidesTells, Reasons DEF Recheck, Nothing
  <2> QED BY <1>6, <2>1, <2>2, <2>3 DEF Recheck
<1>7. CASE RecheckCwd
  <2>1. CASE Goto("remove")
    BY <1>7, <2>1, GoesOnTells DEF RecheckCwd, Goto
  <2>2. CASE Decide("LiveCwd")
    BY <1>7, <2>2, DecidesTells, Reasons DEF RecheckCwd, Nothing
  <2> QED BY <1>7, <2>1, <2>2 DEF RecheckCwd
<1> QED BY <1>1, <1>2, <1>3, <1>4, <1>5, <1>6, <1>7

\* registered_worktrees and the loop over its rows: a locked worktree gets the
\* one row it will have.
LEMMA ListTells ==
  ASSUME Inv, Tells, UNCHANGED <<call, told>>, List \/ \E t \in Tree : Visit(t)
  PROVE  Tells'
<1> UNCHANGED <<call, exists, registered, reflog, saved, deleted, told, log, reach>> /\ TypeOK
  BY DEF List, Visit, repoVars, userVars, lateVars, Inv
<1>1. /\ pc \in {"start", "next"} /\ pc' \in {"next", "cwd", "done"} /\ todo' \subseteq Tree
      /\ pc = "start" => \A u \in Tree : rows[u] = Nothing
  BY DEF List, Visit, Goto, Tells, RowsOK, TypeOK
<1> DEFINE Locks(u) == rows'[u] = "Locked" /\ rows[u] = Nothing /\ u \notin todo'
<1>2. \A u \in Tree : rows'[u] = rows[u] \/ Locks(u)
  <2>1. CASE List
    BY <1>1, <2>1 DEF List, Goto, TypeOK
  <2>2. ASSUME NEW t \in Tree, Visit(t) PROVE \A u \in Tree : rows'[u] = rows[u] \/ Locks(u)
    <3>1. rows[t] = Nothing /\ todo' = todo \ {t}
      BY <2>2 DEF Visit, Tells, RowsOK
    <3>2. rows' = [rows EXCEPT ![t] = "Locked"] \/ rows' = rows
      BY <2>2 DEF Visit
    <3> QED BY <3>1, <3>2 DEF TypeOK
  <2> QED BY <2>1, <2>2
<1>3. RowsOK'
  <2>1. \A u \in todo' : rows[u] = Nothing
    BY <1>1 DEF List, Visit, Tells, RowsOK
  <2>2. pc' = "cwd" => cur' \in Tree /\ rows[cur'] = Nothing /\ rows' = rows /\ cur' \notin todo'
    BY <1>1 DEF List, Visit, Goto, Tells, RowsOK, TypeOK
  <2>3. pc' \in Visiting => pc' = "cwd"
    BY <1>1 DEF Visiting, Working
  <2> QED BY <1>1, <1>2, <2>1, <2>2, <2>3 DEF RowsOK, Logged, Saved
<1>4. DoneOK'
  BY <1>2 DEF Tells, DoneOK, DryRun, Nothing
<1>5. ToldOK' /\ LogOK'
  BY <1>1, <1>2 DEF Tells, ToldOK, LogOK, Found, Logged, Saved, Nothing
<1> QED BY <1>3, <1>4, <1>5 DEF Tells

\* save_reflog_shas: the refs, all of them or some, are for commits that the
\* reflog of the visited worktree has; a failure makes its row final.
LEMMA SaveTells ==
  ASSUME Inv, Tells, UNCHANGED <<call, told>>, ReadReflog \/ SaveRefs
  PROVE  Tells'
<1> UNCHANGED <<call, exists, registered, reflog, deleted, told, todo, reach>> /\ TypeOK
  BY DEF ReadReflog, SaveRefs, repoVars, cacheVars, userVars, lateVars, Inv
<1>0. cur \in Tree /\ rows[cur] = Nothing /\ cur \notin todo /\ ~ DryRun
  BY DEF ReadReflog, SaveRefs, Inv, CurOK, Tells, RowsOK, Visiting, Working, Logged
<1>1. CASE ReadReflog /\ Goto("reach")
  <2>1. RowsOK' /\ LogOK' /\ DoneOK'
    <3>1. log' = reflog[cur] /\ pc' = "reach" /\ cur' = cur /\ rows' = rows
      BY <1>1 DEF ReadReflog, Goto, Decide
    <3> QED BY <1>0, <3>1 DEF Tells, RowsOK, LogOK, DoneOK, DryRun, Logged
  <2>2. ToldOK'
    BY <1>1 DEF ReadReflog, Goto, Tells, ToldOK, Found, repoVars, Saved
  <2> QED BY <2>1, <2>2 DEF Tells
<1>2. CASE ReadReflog /\ Decide("StatusUnreadable")
  <2>1. /\ UNCHANGED log /\ pc \in Visiting /\ saved' = saved
        /\ "StatusUnreadable" \in Row \ {Nothing}
    BY <1>2, Reasons DEF ReadReflog, Goto, Decide, Nothing, repoVars, Visiting, Working
  <2> QED BY <1>2, <2>1, DecidesTells DEF quietVars
<1>3. CASE SaveRefs /\ Goto("recheck")
  <2>1. RowsOK' /\ DoneOK'
    BY <1>0, <1>3 DEF SaveRefs, Goto, Tells, RowsOK, DoneOK, DryRun, Visiting, Working
  <2>2. log' = log /\ cur' = cur /\ log \subseteq reflog[cur]
    BY <1>3 DEF SaveRefs, Goto, Tells, LogOK, Logged
  <2>3. ASSUME NEW c \in saved' \ told', deleted \subseteq registered PROVE \E t \in Tree : Found(c, t)'
    <3>1. CASE c \in saved
      BY <1>3, <2>3, <3>1 DEF SaveRefs, Goto, Tells, ToldOK, Found, Saved
    <3>2. CASE c \notin saved
      BY <1>0, <1>3, <2>2, <2>3, <3>2 DEF SaveRefs, Goto, Found, Saved
    <3> QED BY <3>1, <3>2
  <2> QED BY <2>1, <2>2, <2>3 DEF Tells, LogOK, ToldOK
<1>4. CASE SaveRefs /\ Decide("StatusUnreadable")
  <2>1. /\ pc' \in {"done", "next"} /\ rows' = [rows EXCEPT ![cur] = "StatusUnreadable"]
    BY <1>4 DEF Decide
  <2>2. RowsOK' /\ LogOK'
    BY <1>0, <2>1 DEF Tells, RowsOK, LogOK, TypeOK, Visiting, Working, Logged, Saved
  <2>3. DoneOK'
    BY <1>0, <2>1 DEF Tells, DoneOK, DryRun, TypeOK, Nothing
  <2>4. log \subseteq reflog[cur] /\ rows'[cur] = "StatusUnreadable"
    BY <1>0, <1>4, <2>1 DEF SaveRefs, Tells, LogOK, Logged, TypeOK
  <2>5. ASSUME NEW c \in saved' \ told', deleted \subseteq registered PROVE \E t \in Tree : Found(c, t)'
    <3>1. CASE c \in saved
      <4>1. PICK t \in Tree : c \in reflog[t] /\ rows[t] \notin {Nothing, "Reclaim"}
        BY <1>4, <2>5, <3>1 DEF SaveRefs, Tells, ToldOK, Found, Saved
      <4>2. rows'[t] = rows[t]
        BY <1>0, <2>1, <4>1 DEF TypeOK
      <4> QED BY <4>1, <4>2 DEF Found
    <3>2. CASE c \notin saved
      <4>1. c \in reflog[cur]
        BY <1>4, <2>4, <2>5, <3>2 DEF SaveRefs
      <4> QED BY <1>0, <2>4, <4>1 DEF Found, Nothing
    <3> QED BY <3>1, <3>2
  <2> QED BY <2>2, <2>3, <2>5 DEF Tells, ToldOK
<1> QED BY <1>1, <1>2, <1>3, <1>4 DEF ReadReflog, SaveRefs

\* take_if_still_clean: the directory goes, its row says so, and the refs of
\* its commits are in the row.
LEMMA RemoveTells ==
  ASSUME Inv, Tells, Remove, call' = call
  PROVE  Tells'
<1> TypeOK /\ deleted' = deleted /\ todo' = todo /\ saved' = saved
  BY DEF Remove, TakeAway, cacheVars, userVars, lateVars, Inv
<1>0. cur \in Tree /\ rows[cur] = Nothing /\ cur \notin todo /\ ~ DryRun
  BY DEF Remove, TakeAway, Inv, CurOK, Tells, RowsOK, Visiting, Working, Logged, Saved
<1>1. pc' \in {"done", "next"} /\ rows' = [rows EXCEPT ![cur] = "Reclaim"]
  BY DEF Remove, TakeAway, Decide
<1>2. RowsOK' /\ LogOK'
  BY <1>0, <1>1 DEF Tells, RowsOK, LogOK, TypeOK, Visiting, Working, Logged, Saved
<1>3. DoneOK'
  BY <1>0, <1>1 DEF Remove, TakeAway, Tells, DoneOK, DryRun, TypeOK
<1>4. ASSUME NEW c \in saved' \ told', deleted' \subseteq registered' PROVE \E t \in Tree : Found(c, t)'
  <2>1. c \in saved \ told /\ c \notin log \ reach.set /\ deleted \subseteq registered
    BY <1>4 DEF Remove, TakeAway, Unregister
  <2>2. PICK t \in Tree : c \in reflog[t] /\ rows[t] \notin {Nothing, "Reclaim"}
    BY <2>1 DEF Remove, TakeAway, Tells, ToldOK, Found
  <2>3. t # cur
    BY <1>0, <2>2
  <2>4. rows'[t] = rows[t] /\ reflog'[t] = reflog[t]
    BY <1>0, <1>1, <2>3 DEF Remove, TakeAway, Unregister, TypeOK
  <2> QED BY <2>2, <2>4 DEF Found
<1> QED BY <1>2, <1>3, <1>4 DEF Tells, ToldOK

\* untracked_leftovers and the prune: what is untracked is there, and the prune
\* drops reflogs of worktrees that the person removed.
LEMMA EndTells ==
  ASSUME Inv, Tells, UNCHANGED <<call, told>>, Leftovers \/ Prune
  PROVE  Tells'
<1> UNCHANGED <<call, exists, saved, deleted, told, todo, cur>> /\ TypeOK
  BY DEF Leftovers, Prune, Goto, repoVars, cacheVars, userVars, lateVars, Inv
<1>1. CASE Leftovers
  <2>0. pc' \in {"done", "prune"} /\ todo = {} /\ UNCHANGED <<registered, reflog>> /\ pc = "next"
    BY <1>1 DEF Leftovers, repoVars
  <2>1. \A t \in Tree : rows'[t] = rows[t] \/ (t \in exists /\ rows'[t] = "UntrackedWorktree")
    BY <1>1 DEF Leftovers, Untracked
  <2>2. RowsOK' /\ LogOK'
    BY <2>0, <2>1 DEF RowsOK, LogOK, Visiting, Working, Logged, Saved
  <2>3. DoneOK'
    BY <2>0, <2>1 DEF Tells, DoneOK, DryRun
  <2>4. ToldOK'
    BY <2>0, <2>1 DEF Tells, ToldOK, Found, Saved, Nothing
  <2> QED BY <2>2, <2>3, <2>4 DEF Tells
<1>2. CASE Prune
  <2>1. pc' \in {"done", "failed"} /\ rows' = rows /\ pc = "prune"
    BY <1>2 DEF Prune, Goto
  <2>2. RowsOK' /\ LogOK' /\ DoneOK'
    BY <2>1 DEF Tells, RowsOK, LogOK, DoneOK, DryRun, Visiting, Working, Logged, Saved
  <2>3. ASSUME NEW c \in saved' \ told', deleted' \subseteq registered' PROVE \E t \in Tree : Found(c, t)'
    <3>1. registered' \subseteq registered
      BY <1>2 DEF Prune, Unregister
    <3>2. PICK t \in Tree : c \in reflog[t] /\ rows[t] \notin {Nothing, "Reclaim"}
      BY <2>1, <2>3, <3>1 DEF Tells, ToldOK, Found, Saved
    <3>3. t \in deleted => t \in registered'
      BY <2>3
    <3>4. t \in exists \/ t \in deleted
      BY <3>2 DEF Tells, DoneOK
    <3>5. reflog'[t] = reflog[t]
      BY <1>2, <3>3, <3>4 DEF Prune, Unregister
    <3> QED BY <2>1, <3>2, <3>5 DEF Found
  <2> QED BY <2>2, <2>3 DEF Tells, ToldOK
<1> QED BY <1>1, <1>2

LEMMA TellsAlways == Spec => []Tells
<1>1. Init => Tells
  BY InitTells
<1>2. Inv /\ Tells /\ [Next]_vars => Tells'
  <2> SUFFICES ASSUME Inv, Tells, [Next]_vars PROVE Tells'
    OBVIOUS
  <2>1. CASE GcStep
    BY <2>1, QuietTells, ListTells, SaveTells, RemoveTells, EndTells DEF GcStep
  <2>2. CASE UserStep
    BY <2>2, UserTells
  <2>3. CASE UNCHANGED vars
    BY <2>3 DEF vars, repoVars, cacheVars, userVars, lateVars, Tells, RowsOK, LogOK, DoneOK, ToldOK, Found, DryRun
  <2> QED BY <2>1, <2>2, <2>3 DEF Next
<1> QED BY <1>1, <1>2, InvAlways, PTL DEF Spec

\* run_gc_with_policy, remove_explicit_with_policy: for any worktrees and any
\* commits, the rows name what was taken away, and every ref that was made is
\* in a row unless its commit is still in a reflog.
THEOREM AnswerCorrect == Spec => []AnswerIsTrue
<1>1. Inv /\ Tells => AnswerIsTrue
  BY DEF Inv, TypeOK, Tells, DoneOK, ToldOK, Found, AnswerIsTrue
<1> QED BY <1>1, InvAlways, TellsAlways, PTL

-----------------------------------------------------------------------------
(* What the steps of the collector never do. *)

\* Only the removal takes a directory away, that of the visited worktree.
LEMMA GoneIsRemoved ==
  ASSUME Inv, GcStep, NEW t \in Tree, Gone(t)
  PROVE  Remove /\ t = cur
<1>1. CASE Remove
  BY <1>1 DEF Gone, Remove, TakeAway
<1>2. CASE ~ Remove
  <2>1. UNCHANGED exists
    BY <1>2 DEF GcStep, List, Visit, ListFails, RemoveFails, ReadAge, Classify, Recheck, RecheckCwd, ProbeCwds,
         ReadReflog, ReadReach, SaveRefs, Leftovers, Prune, repoVars
  <2> QED BY <2>1 DEF Gone
<1> QED BY <1>1, <1>2

\* Whatever the person and other programs do in the repository, the variables
\* of a collection stay in their ranges.
THEOREM TypeCorrect == Spec => []TypeOK
<1>1. Inv => TypeOK
  BY DEF Inv
<1> QED BY <1>1, InvAlways, PTL

\* take_if_still_clean: for any worktrees, a removed one held nothing to keep
\* at the last status read.
THEOREM WorkKept == Spec => WorkSurvives
<1>1. Inv /\ [Next]_vars =>
        [GcStep => \A t \in Tree : Gone(t) => files[t] \subseteq {"rest"} \/ t \in lateWork]_vars
  <2> SUFFICES ASSUME Inv, GcStep, NEW t \in Tree, Gone(t)
               PROVE  files[t] \subseteq {"rest"} \/ t \in lateWork
    OBVIOUS
  <2>1. Remove /\ t = cur
    BY GoneIsRemoved
  <2> QED BY <2>1 DEF Remove, TakeAway, Inv, CleanOK, Clean
<1> QED BY <1>1, InvAlways, PTL DEF Spec, WorkSurvives

\* take_if_still_clean: for any worktrees, none goes that a process was in when
\* the last probe was made, as far as its cwd can be read.
THEOREM LiveCwdKept == Spec => LiveCwdSurvives
<1>1. Inv /\ [Next]_vars =>
        [GcStep => \A t \in Tree : Gone(t) => t \notin Seen \/ t \in lateCwd]_vars
  <2> SUFFICES ASSUME Inv, GcStep, NEW t \in Tree, Gone(t)
               PROVE  t \notin Seen \/ t \in lateCwd
    OBVIOUS
  <2>1. Remove /\ t = cur
    BY GoneIsRemoved
  <2> QED BY <2>1 DEF Remove, TakeAway, Inv, UsedOK
<1> QED BY <1>1, InvAlways, PTL DEF Spec, LiveCwdSurvives

\* run_gc with age_gc_registered off: for any worktrees, those outside
\* leftover_dir are neither removed nor forgotten while they are there.
THEOREM OutsideKept == Spec => OutsideLeftAlone
<1> DEFINE Stays == GcStep /\ call = "gc_leftovers" =>
              \A t \in Outside \cap exists : t \in exists' /\ (t \in registered => t \in registered')
<1>1. Inv /\ [Next]_vars => [Stays]_vars
  <2> SUFFICES ASSUME Inv, GcStep, call = "gc_leftovers", NEW t \in Outside \cap exists
               PROVE  t \in exists' /\ (t \in registered => t \in registered')
    OBVIOUS
  <2>1. CASE Remove
    <3>1. t # cur
      BY <2>1 DEF Remove, TakeAway, Inv, CurOK, Visiting, Working
    <3> QED BY <2>1, <3>1 DEF Remove, TakeAway, Unregister
  <2>2. CASE Prune
    BY <2>2 DEF Prune, Unregister
  <2>3. CASE ~ Remove /\ ~ Prune
    BY <2>3 DEF GcStep, List, Visit, ListFails, RemoveFails, ReadAge, Classify, Recheck, RecheckCwd, ProbeCwds,
         ReadReflog, ReadReach, SaveRefs, Leftovers, repoVars
  <2> QED BY <2>1, <2>2, <2>3
<1> QED BY <1>1, InvAlways, PTL DEF Spec, OutsideLeftAlone

\* save_reflog_shas: for any commits, one that only the reflog of the removed
\* worktree named is saved first, unless it lost its branch after the branches
\* were read; `git worktree prune` reads no reflog.
THEOREM CommitsKept == Spec => CommitsSurvive
<1> DEFINE Safe == GcStep => \A c \in Commit : Kept(c) /\ ~ Kept(c)' =>
              c \notin log \/ c \in lateRefs \/ \E t \in registered \ exists : c \in reflog[t]
<1>1. Inv /\ [Next]_vars => [Safe]_vars
  <2> SUFFICES ASSUME Inv, GcStep, NEW c \in Commit, Kept(c), ~ Kept(c)'
               PROVE  c \notin log \/ c \in lateRefs \/ \E t \in registered \ exists : c \in reflog[t]
    OBVIOUS
  <2>1. CASE Remove
    <3>1. c \notin branch \union saved
      BY <2>1 DEF Remove, TakeAway, Kept
    <3>2. log \subseteq branch \union lateRefs \union saved
      BY <2>1 DEF Remove, TakeAway, Inv, SavedOK, ReachOK, Saved
    <3> QED BY <3>1, <3>2
  <2>2. CASE Prune
    <3>1. UNCHANGED <<branch, saved>>
      BY <2>2 DEF Prune
    <3>2. PICK t \in Tree : c \in reflog[t] /\ c \notin reflog'[t]
      BY <3>1 DEF Kept
    <3> QED BY <2>2, <3>2 DEF Prune, Unregister, Inv, TypeOK
  <2>3. CASE ~ Remove /\ ~ Prune
    <3>1. UNCHANGED <<reflog, branch>> /\ saved \subseteq saved'
      BY <2>3 DEF GcStep, List, Visit, ListFails, RemoveFails, ReadAge, Classify, Recheck, RecheckCwd, ProbeCwds,
           ReadReflog, ReadReach, SaveRefs, Leftovers, repoVars
    <3> QED BY <3>1 DEF Kept
  <2> QED BY <2>1, <2>2, <2>3
<1> QED BY <1>1, InvAlways, PTL DEF Spec, CommitsSurvive
=============================================================================
