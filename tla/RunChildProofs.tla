--------------------------- MODULE RunChildProofs ---------------------------
(***************************************************************************)
(* Theorems about LinuxReaper and RunChild for any number of processes,    *)
(* any order of their forks and exits, and any values of the bounds: what  *)
(* the reaper guarantees whatever a host does to it; then that a run is a  *)
(* behaviour of the reaper, that an answer means what RunContract says,    *)
(* and that the reaper's group is stopped.                                 *)
(***************************************************************************)
EXTENDS RunChild, FiniteSetTheorems, WellFoundedInduction, TLAPS

\* Parents are older than their children, and nobody present is left with a
\* parent that is gone.
TreeInv ==
  /\ \A p \in Proc : p > born => state[p] = "unborn"
  /\ \A p \in Proc : parent[p] < p
  /\ \A p \in Proc : Present(p) =>
       \/ parent[p] = Adopter
       \/ parent[p] \in Proc /\ Alive(parent[p])

USE ProcTreeAssumption, ReaperAssumption, RunAssumption

-----------------------------------------------------------------------------
(* Type correctness. *)

LEMMA KilledType ==
  ASSUME NEW st \in [Proc -> ProcState], NEW S
  PROVE  Killed(st, S) \in [Proc -> ProcState]
BY DEF Killed, ProcState

LEMMA CollectedType ==
  ASSUME NEW st \in [Proc -> ProcState], NEW S
  PROVE  Collected(st, S) \in [Proc -> ProcState]
BY DEF Collected, ProcState

LEMMA HandOverType ==
  ASSUME NEW st \in [Proc -> ProcState], NEW q, NEW to \in Proc \union {Reaper, Outer},
         ProcTypeOK, HandOver(st, q, to)
  PROVE  /\ state' \in [Proc -> ProcState]
         /\ parent' \in [Proc -> Proc \union {Reaper, Outer}]
BY DEF HandOver, Resting, ProcState, ProcTypeOK

\* Every variable of LinuxReaper stays in its range.
THEOREM TypeCorrect == Spec => []TypeOK
<1>1. Init => TypeOK
  <2> SUFFICES ASSUME Init PROVE TypeOK
    OBVIOUS
  <2>1. ProcTypeOK
    BY DEF Init, ProcInit, ProcTypeOK, ProcState, Proc, Cmd, ProcTreeAssumption
  <2>2. /\ 0 \in 0 .. StopPolls /\ 0 \in 0 .. KillRounds
        /\ 0 \in 0 .. EmptyPolls /\ 0 \in 0 .. MaxLossy
    BY DEF ReaperAssumption
  <2> QED BY <2>1, <2>2 DEF Init, TypeOK, Running
<1>2. TypeOK /\ [Next]_vars => TypeOK'
  <2> SUFFICES ASSUME TypeOK, [Next]_vars PROVE TypeOK'
    OBVIOUS
  <2> USE DEF TypeOK, ProcTypeOK
  <2>1. ASSUME NEW p \in Proc, ProcStep(p) PROVE TypeOK'
    <3>1. CASE Fork(p)
      BY <2>1, <3>1 DEF ProcStep, Fork, reaperVars, Proc, ProcState
    <3>2. CASE LeaveGroup(p)
      BY <2>1, <3>2 DEF ProcStep, LeaveGroup, reaperVars
    <3>3. CASE Exit(p, Adopter)
      <4>1. [state EXCEPT ![p] = Resting(parent[p])] \in [Proc -> ProcState]
        BY DEF Resting, ProcState
      <4>2. Adopter \in Proc \union {Reaper, Outer}
        BY DEF Adopter
      <4> QED BY <2>1, <3>3, <4>1, <4>2, HandOverType DEF ProcStep, Exit, reaperVars
    <3>4. CASE WaitChild(p)
      BY <2>1, <3>4 DEF ProcStep, WaitChild, reaperVars, ProcState
    <3> QED BY <2>1, <3>1, <3>2, <3>3, <3>4 DEF ProcStep
  <2>2. CASE Boot
    BY <2>2 DEF Boot, procVars, Running
  <2>3. ASSUME RememberTree PROVE table' \in SUBSET Proc /\ missed' \in BOOLEAN
    BY <2>3 DEF RememberTree
  <2>4. CASE Walk
    BY <2>4, <2>3 DEF Walk, procVars, Running
  <2>5. CASE WaitCmd
    BY <2>5, CollectedType DEF WaitCmd, Running
  <2>6. CASE BeginStop
    BY <2>6, <2>3, KilledType DEF BeginStop, Running
  <2>7. CASE StopWait
    BY <2>7, <2>3, CollectedType DEF StopWait, Running
  <2>8. CASE ListEmpty
    BY <2>8 DEF ListEmpty, procVars, Running
  <2>9. CASE ListKids
    BY <2>9 DEF ListKids, procVars, Running, Children
  <2>10. CASE RoundsSpent
    BY <2>10 DEF RoundsSpent, procVars, Running
  <2>11. ASSUME NEW k \in Proc, KillKid(k) PROVE TypeOK'
    BY <2>11, KilledType DEF KillKid
  <2>12. CASE Drain
    BY <2>12, CollectedType DEF Drain, Running
  <2>13. CASE WriteReport
    BY <2>13, CollectedType DEF WriteReport
  <2>14. CASE ReaperExit
    BY <2>14, HandOverType DEF ReaperExit
  <2>15. CASE Die
    BY <2>15, HandOverType DEF Die
  <2>16. CASE Sigterm
    BY <2>16, <2>15 DEF Sigterm, procVars
  <2>17. CASE Sigkill
    BY <2>17, <2>15 DEF Sigkill
  <2>18. CASE GroupKill
    BY <2>18, KilledType DEF GroupKill, reaperVars
  <2>19. CASE UNCHANGED vars
    BY <2>19 DEF vars, procVars, reaperVars
  <2> QED
    BY <2>1, <2>2, <2>4, <2>5, <2>6, <2>7, <2>8, <2>9, <2>10, <2>11, <2>12, <2>13, <2>14,
       <2>16, <2>17, <2>18, <2>19 DEF Next, ReaperStep
<1> QED BY <1>1, <1>2, PTL DEF Spec

-----------------------------------------------------------------------------
(* The shape of the tree. *)

\* The oldest process of a non-empty set, by the well-ordering of births.
LEMMA Oldest ==
  ASSUME NEW S \in SUBSET Proc, S # {}
  PROVE  \E p \in S : \A q \in S : ~ (q < p)
<1>1. S \subseteq Nat
  BY DEF Proc
<1>2. \E p \in S : \A q \in S : <<q, p>> \notin OpToRel(<, Nat)
  BY <1>1, WFMin, NatLessThanWellFounded
<1> QED BY <1>1, <1>2 DEF OpToRel

\* An empty and complete child list proves that the whole tree has ended:
\* the oldest living process would have a living parent older than itself.
LEMMA EmptyMeansEnded ==
  ASSUME TypeOK, TreeInv, ReaperUp, Children(Reaper) = {}
  PROVE  TreeEnded
<1>1. SUFFICES ASSUME NEW r \in Proc, Alive(r) PROVE FALSE
  BY DEF TreeEnded
<1> DEFINE Remaining == {q \in Proc : Alive(q)}
<1>2. Remaining \in SUBSET Proc /\ Remaining # {}
  BY <1>1
<1>3. PICK p \in Remaining : \A q \in Remaining : ~ (q < p)
  BY <1>2, Oldest
<1>4. Present(p)
  BY <1>3 DEF Alive, Present
<1>5. parent[p] # Reaper
  BY <1>3, <1>4 DEF Children
<1>6. parent[p] \in Proc /\ Alive(parent[p])
  BY <1>3, <1>4, <1>5 DEF TreeInv, Adopter
<1>7. parent[p] < p
  BY <1>3 DEF TreeInv
<1> QED BY <1>3, <1>6, <1>7

\* A tree that has ended stays so: only a running process can fork.
LEMMA EndedIsStable ==
  ASSUME TypeOK, TreeEnded, [Next]_vars
  PROVE  TreeEnded'
<1> USE DEF TreeEnded, Alive
<1>1. ASSUME NEW p \in Proc, ProcStep(p) PROVE TreeEnded'
  BY <1>1 DEF ProcStep, Fork, LeaveGroup, Exit, WaitChild, TypeOK, ProcTypeOK
<1>2. ASSUME NEW S, state' = Collected(state, S) \/ state' = Killed(state, S) PROVE TreeEnded'
  BY <1>2 DEF Collected, Killed
<1>3. ASSUME NEW q, NEW to, HandOver(state, q, to) PROVE TreeEnded'
  BY <1>3 DEF HandOver, Resting
<1>4. ASSUME UNCHANGED state PROVE TreeEnded'
  BY <1>4
<1>5. ASSUME ReaperStep PROVE TreeEnded'
  BY <1>5, <1>2, <1>3, <1>4 DEF ReaperStep, Boot, Walk, WaitCmd, BeginStop, StopWait, ListEmpty,
     ListKids, RoundsSpent, KillKid, Drain, WriteReport, ReaperExit, procVars
<1>6. ASSUME Sigterm \/ Sigkill PROVE TreeEnded'
  BY <1>6, <1>3, <1>4 DEF Sigterm, Sigkill, Die, procVars
<1>7. ASSUME GroupKill PROVE TreeEnded'
  BY <1>7, <1>2 DEF GroupKill
<1> QED BY <1>1, <1>4, <1>5, <1>6, <1>7 DEF Next, vars, procVars

\* What HandOver does to the shape: everyone below q is below `to` afterwards.
LEMMA HandOverTree ==
  ASSUME TypeOK, TreeInv, NEW q \in Proc \union {Reaper}, NEW st \in [Proc -> ProcState],
         HandOver(st, q, Adopter'),
         born' = born,
         \A p \in Proc : st[p] = state[p] \/ (p = q /\ st[p] \in {"zombie", "gone"}),
         \/ q \in Proc /\ Adopter' = Adopter /\ Alive(q)
                      /\ st[q] \in {"zombie", "gone"}
         \/ q = Reaper /\ Adopter' = Outer
  PROVE  TreeInv'
<1>1. \A p \in Proc : Alive(p)' => Alive(p) /\ p # q
  BY DEF HandOver, Resting, Alive, ProcState, Proc, Reaper
<1>2. \A p \in Proc : Present(p)' => Present(p)
  BY DEF HandOver, Resting, Present, Alive, ProcState, Proc, Reaper
<1> QED
  BY <1>1, <1>2 DEF HandOver, Resting, TreeInv, Alive, Present, Adopter, Outer, Reaper, Proc,
     TypeOK, ProcTypeOK, ProcState

LEMMA TreeStep == TypeOK /\ TreeInv /\ [Next]_vars => TreeInv'
<1> SUFFICES ASSUME TypeOK, TreeInv, [Next]_vars PROVE TreeInv'
  OBVIOUS
<1> USE DEF TypeOK, ProcTypeOK
<1>1. ASSUME NEW p \in Proc, ProcStep(p) PROVE TreeInv'
  <2>0. Adopter' = Adopter /\ Adopter \in {Reaper, Outer}
    BY <1>1 DEF ProcStep, reaperVars, Adopter, ReaperUp
  <2>1. CASE Fork(p)
    <3>1. born + 1 \in Proc /\ state[born + 1] = "unborn" /\ p <= born
      BY <2>1 DEF Fork, TreeInv, Proc
    <3>2. \A q \in Proc : q # born + 1 => state'[q] = state[q] /\ parent'[q] = parent[q]
      BY <2>1 DEF Fork
    <3>3. state'[born + 1] = "running" /\ parent'[born + 1] = p /\ born' = born + 1
      BY <2>1, <3>1 DEF Fork
    <3>4. state[p] = "running"
      BY <2>1 DEF Fork
    <3>5. \A q \in Proc : q > born' => state'[q] = "unborn"
      BY <3>1, <3>2, <3>3 DEF TreeInv, Proc
    <3>6. \A q \in Proc : parent'[q] < q
      BY <3>1, <3>2, <3>3 DEF TreeInv, Proc
    <3>7. \A q \in Proc : Present(q)' =>
            parent'[q] = Adopter' \/ (parent'[q] \in Proc /\ Alive(parent[q])')
      <4> SUFFICES ASSUME NEW q \in Proc, Present(q)'
                   PROVE  parent'[q] = Adopter' \/ (parent'[q] \in Proc /\ Alive(parent[q])')
        OBVIOUS
      <4>1. CASE q = born + 1
        BY <4>1, <3>1, <3>2, <3>3, <3>4 DEF Alive
      <4>2. CASE q # born + 1
        BY <4>2, <3>1, <3>2, <3>3, <2>0 DEF TreeInv, Alive, Present
      <4> QED BY <4>1, <4>2
    <3> QED BY <2>0, <2>1, <3>2, <3>3, <3>5, <3>6, <3>7 DEF TreeInv, Fork, Proc
  <2>2. CASE LeaveGroup(p)
    BY <2>0, <2>2 DEF LeaveGroup, TreeInv, Alive, Present
  <2>3. CASE Exit(p, Adopter)
    <3> DEFINE st == [state EXCEPT ![p] = Resting(parent[p])]
    <3>1. st \in [Proc -> ProcState] /\ st[p] \in {"zombie", "gone"}
      BY DEF Resting, ProcState
    <3>2. HandOver(st, p, Adopter') /\ born' = born /\ Alive(p)
      BY <2>0, <2>3 DEF Exit
    <3> HIDE DEF st
    <3>3. \A q \in Proc : st[q] = state[q] \/ (q = p /\ st[q] \in {"zombie", "gone"})
      BY <3>1 DEF st
    <3> QED BY <2>0, <3>1, <3>2, <3>3, HandOverTree
  <2>4. CASE WaitChild(p)
    BY <2>0, <2>4 DEF WaitChild, TreeInv, Alive, Present, ProcState
  <2> QED BY <1>1, <2>1, <2>2, <2>3, <2>4 DEF ProcStep
\* Collecting processes that are not alive takes no parent away.
<1>2. ASSUME NEW S, state' = Collected(state, S), \A p \in S \cap Proc : ~ Alive(p) /\ p <= born,
             born' = born, parent' = parent, Adopter' = Adopter
      PROVE  TreeInv'
  <2>1. \A p \in Proc : Alive(p) => Alive(p)'
    BY <1>2 DEF Collected, Alive
  <2>2. \A p \in Proc : Present(p)' => Present(p)
    BY <1>2 DEF Collected, Present
  <2>3. \A p \in Proc : p > born => p \notin S
    BY <1>2 DEF Proc
  <2>4. \A p \in Proc : p > born => state'[p] = "unborn"
    BY <1>2, <2>3 DEF Collected, TreeInv
  <2> QED BY <1>2, <2>1, <2>2, <2>4 DEF TreeInv
<1>3. ASSUME NEW S, state' = Killed(state, S), born' = born, parent' = parent, Adopter' = Adopter
      PROVE  TreeInv'
  BY <1>3 DEF Killed, TreeInv, Alive, Present, ProcState
<1>4. ASSUME UNCHANGED procVars, Adopter' = Adopter PROVE TreeInv'
  BY <1>4 DEF procVars, TreeInv, Alive, Present
<1>5. CASE Boot \/ Walk \/ ListEmpty \/ ListKids \/ RoundsSpent
  <2>1. UNCHANGED procVars /\ Adopter' = Adopter
    BY <1>5 DEF Boot, Walk, ListEmpty, ListKids, RoundsSpent, Adopter, ReaperUp, Running
  <2> QED BY <2>1, <1>4
<1>6. CASE WaitCmd
  <2>1. Adopter' = Adopter
    BY <1>6 DEF WaitCmd, Adopter, ReaperUp, Running
  <2>2. CASE Alive(Cmd)
    BY <1>6, <2>1, <2>2, <1>4 DEF WaitCmd, procVars
  <2>3. CASE ~ Alive(Cmd)
    BY <1>6, <2>1, <2>3, <1>2 DEF WaitCmd, Proc, Cmd
  <2> QED BY <2>2, <2>3
<1>7. CASE BeginStop
  BY <1>7, <1>3 DEF BeginStop, Adopter, ReaperUp, Running
<1>8. CASE StopWait
  <2>1. Adopter' = Adopter
    BY <1>8 DEF StopWait, Adopter, ReaperUp, Running
  <2>2. CASE state[Cmd] = "zombie" /\ state' = Collected(state, {Cmd})
    BY <1>8, <2>1, <2>2, <1>2 DEF StopWait, Alive, Proc, Cmd
  <2>3. CASE state' = state
    BY <1>8, <2>1, <2>3, <1>4 DEF StopWait, procVars
  <2> QED BY <1>8, <2>2, <2>3 DEF StopWait
<1>9. ASSUME NEW k \in Proc, KillKid(k) PROVE TreeInv'
  BY <1>9, <1>3 DEF KillKid, Adopter, ReaperUp
<1>10. CASE Drain \/ WriteReport
  <2>1. Adopter' = Adopter
    BY <1>10 DEF Drain, WriteReport, Adopter, ReaperUp, Running
  <2>2. \A p \in Zombies(Reaper) \cap Proc : ~ Alive(p) /\ p <= born
    BY DEF Zombies, Alive, TreeInv, Proc
  <2> QED BY <1>10, <2>1, <2>2, <1>2 DEF Drain, WriteReport
<1>11. ASSUME ReaperExit \/ Die PROVE TreeInv'
  <2>1. HandOver(state, Reaper, Adopter') /\ Adopter' = Outer /\ born' = born
    BY <1>11 DEF ReaperExit, Die, Adopter, ReaperUp, Running
  <2> QED BY <2>1, HandOverTree
<1>12. CASE Sigterm
  <2>1. CASE Die
    BY <2>1, <1>11
  <2>2. CASE UNCHANGED <<procVars, rpc>>
    BY <2>2, <1>4 DEF Adopter, ReaperUp
  <2> QED BY <1>12, <2>1, <2>2 DEF Sigterm
<1>13. CASE Sigkill
  BY <1>13, <1>11 DEF Sigkill
<1>14. CASE GroupKill
  BY <1>14, <1>3 DEF GroupKill, reaperVars, Adopter, ReaperUp
<1>15. CASE UNCHANGED vars
  BY <1>15, <1>4 DEF vars, reaperVars, Adopter, ReaperUp
<1> QED
  BY <1>1, <1>5, <1>6, <1>7, <1>8, <1>9, <1>10, <1>11, <1>12, <1>13, <1>14, <1>15
  DEF Next, ReaperStep

THEOREM TreeCorrect == Spec => []TreeInv
<1>1. Init => TreeInv
  BY DEF Init, ProcInit, TreeInv, Present, Adopter, ReaperUp, Running, Proc, Cmd, Reaper
<1> QED BY <1>1, TreeStep, TypeCorrect, PTL DEF Spec

\* Every living process keeps a living parent inside the tree, or the reaper
\* while it is up: no setsid descendant drops out of sight of kill_adopted.
THEOREM NobodyEscapesAlways == Spec => []NobodyEscapes
<1>1. TreeInv => NobodyEscapes
  BY DEF TreeInv, NobodyEscapes, Present, Alive
<1> QED BY <1>1, TreeCorrect, PTL

-----------------------------------------------------------------------------
(* What a clean report means. *)

\* CleanReportMeansEnded is not inductive: it needs to know that the empty
\* reads counted so far were either wrong, and so counted in lossy as well,
\* or made when nothing was left.
CleanInv ==
  /\ empties <= lossy \/ TreeEnded
  /\ (rpc = "exiting" /\ kills < KillRounds) => TreeEnded
  /\ CleanReportMeansEnded

LEMMA CleanStep ==
  ASSUME MaxLossy <= EmptyPolls, TypeOK, TreeInv, CleanInv, [Next]_vars
  PROVE  CleanInv'
<1>1. CASE TreeEnded
  BY <1>1, EndedIsStable DEF CleanInv, CleanReportMeansEnded
<1>2. CASE ~ TreeEnded
  <2> USE DEF TypeOK
  <2>1. empties <= lossy /\ (rpc = "exiting" => ~ (kills < KillRounds))
        /\ (report = "clean" => ~ (kills < KillRounds))
    BY <1>2 DEF CleanInv, CleanReportMeansEnded
  <2>2. ASSUME UNCHANGED <<kills, empties, lossy, report>>,
               rpc' = "exiting" => rpc = "exiting"
        PROVE  CleanInv'
    BY <2>1, <2>2 DEF CleanInv, CleanReportMeansEnded
  <2>3. CASE ListEmpty
    <3>1. Children(Reaper) # {}
      BY <1>2, <2>3, EmptyMeansEnded DEF ListEmpty, ReaperUp, Running
    <3>2. lossy < MaxLossy /\ lossy' = lossy + 1
      BY <2>3, <3>1 DEF ListEmpty
    <3>3. empties < EmptyPolls
      BY <2>1, <3>2 DEF ReaperAssumption
    <3> QED BY <2>1, <2>3, <3>2, <3>3
            DEF ListEmpty, CleanInv, CleanReportMeansEnded, ReaperAssumption
  <2>4. CASE ListKids
    BY <2>1, <2>4 DEF ListKids, CleanInv, CleanReportMeansEnded, ReaperAssumption
  <2>5. CASE RoundsSpent
    BY <2>1, <2>5 DEF RoundsSpent, CleanInv, CleanReportMeansEnded, ReaperAssumption
  <2>6. CASE WriteReport
    BY <2>1, <2>6 DEF WriteReport, CleanInv, CleanReportMeansEnded
  <2>7. CASE Boot \/ Walk \/ WaitCmd \/ BeginStop \/ StopWait \/ Drain \/ ReaperExit
             \/ (\E k \in Proc : KillKid(k))
    BY <2>2, <2>7 DEF Boot, Walk, WaitCmd, BeginStop, StopWait, KillKid, Drain, ReaperExit
  <2>8. CASE Sigterm \/ Sigkill
    BY <2>2, <2>8 DEF Sigterm, Sigkill, Die
  <2>9. CASE GroupKill \/ UNCHANGED vars \/ (\E p \in Proc : ProcStep(p))
    BY <2>2, <2>9 DEF GroupKill, vars, ProcStep, reaperVars
  <2> QED BY <2>3, <2>4, <2>5, <2>6, <2>7, <2>8, <2>9 DEF Next, ReaperStep
<1> QED BY <1>1, <1>2

\* The report byte is 0, and kill_adopted did not run out of rounds, only if
\* nothing of the tree is left: for any tree, any interleaving of forks,
\* exits and adoptions with the scans, and any delay between SIGKILL and the
\* death of its target.  The hypothesis is what EMPTY_CHILD_POLLS is for.
THEOREM CleanReport ==
  ASSUME MaxLossy <= EmptyPolls
  PROVE  Spec => []CleanReportMeansEnded
<1>1. Init => CleanInv
  BY DEF Init, CleanInv, CleanReportMeansEnded
<1>2. TypeOK /\ TreeInv /\ CleanInv /\ [Next]_vars => CleanInv'
  BY CleanStep
<1>3. CleanInv => CleanReportMeansEnded
  BY DEF CleanInv
<1> QED BY <1>1, <1>2, <1>3, TypeCorrect, TreeCorrect, PTL DEF Spec

-----------------------------------------------------------------------------
(* Which pids are signalled. *)

LEMMA SignalsStep ==
  ASSUME TypeOK, TreeInv, SignalsOnlyItsOwn, [Next]_vars
  PROVE  SignalsOnlyItsOwn'
<1> SUFFICES ASSUME ~ AutoReap PROVE SignalsOnlyItsOwn'
  BY DEF SignalsOnlyItsOwn
<1> DEFINE Signalled == IF rpc = "kill" THEN kids
                        ELSE IF rpc \in {"boot", "loop", "wait"} THEN {Cmd} ELSE {}
<1>0. Signalled \subseteq Children(Reaper) /\ Signalled \subseteq Proc
  BY DEF SignalsOnlyItsOwn, Children
<1>a. (Signalled \subseteq Children(Reaper))' => SignalsOnlyItsOwn'
  BY DEF SignalsOnlyItsOwn
<1> USE DEF TypeOK, ProcTypeOK
<1>1. ASSUME NEW k \in Children(Reaper), Present(k)', parent'[k] = parent[k]
      PROVE  k \in Children(Reaper)'
  BY <1>1 DEF Children
<1>2. ASSUME UNCHANGED parent, UNCHANGED Signalled,
             \A k \in Signalled : Present(k) => Present(k)'
      PROVE  SignalsOnlyItsOwn'
  BY <1>0, <1>1, <1>2, <1>a DEF Children
<1>3. ASSUME UNCHANGED parent, state' = state \/ (\E S : state' = Killed(state, S)),
             Signalled' \subseteq Signalled
      PROVE  SignalsOnlyItsOwn'
  BY <1>0, <1>1, <1>3, <1>a DEF Children, Killed, Present
<1>4. ASSUME NEW p \in Proc, ProcStep(p) PROVE SignalsOnlyItsOwn'
  <2>1. Signalled' = Signalled
    BY <1>4 DEF ProcStep, reaperVars
  <2>2. CASE Fork(p)
    <3>1. state[born + 1] = "unborn" /\ born + 1 \in Proc
      BY <2>2 DEF Fork, TreeInv, Proc
    <3>2. \A k \in Children(Reaper) : k # born + 1
      BY <3>1 DEF Children, Present
    <3> QED BY <1>0, <1>1, <1>a, <2>1, <2>2, <3>1, <3>2 DEF Fork, Children, Present
  <2>3. CASE LeaveGroup(p)
    BY <1>0, <1>1, <1>a, <2>1, <2>3 DEF LeaveGroup, Children, Present
  <2>4. CASE Exit(p, Adopter)
    <3>1. \A k \in Children(Reaper) : parent'[k] = Reaper \/ parent[k] = p
      BY <2>4 DEF Exit, HandOver, Children
    <3>2. \A k \in Children(Reaper) : k \in Proc /\ parent[k] = Reaper /\ parent[k] # p
      BY DEF Children, Proc, Reaper
    <3>3. \A k \in Children(Reaper) : Present(k)'
      BY <2>4, <3>2 DEF Exit, HandOver, Children, Present, Resting, Outer, Reaper, Proc
    <3> QED BY <1>0, <1>1, <1>a, <2>1, <3>1, <3>2, <3>3
  <2>5. CASE WaitChild(p)
    <3>1. \A k \in Children(Reaper) : k # p
      BY <2>5 DEF WaitChild, Children, Proc, Reaper
    <3>2. \A k \in Children(Reaper) : Present(k)' /\ parent'[k] = parent[k]
      BY <2>5, <3>1 DEF WaitChild, Children, Present
    <3> QED BY <1>0, <1>1, <1>a, <2>1, <3>2
  <2> QED BY <1>4, <2>2, <2>3, <2>4, <2>5 DEF ProcStep
<1>5. CASE Boot \/ Walk \/ ListEmpty \/ RoundsSpent \/ BeginStop \/ WriteReport \/ Drain
           \/ (\E k \in Proc : KillKid(k))
  <2>1. CASE Boot \/ Walk \/ ListEmpty \/ RoundsSpent
    BY <2>1, <1>3 DEF Boot, Walk, ListEmpty, RoundsSpent, procVars
  <2>2. CASE BeginStop
    BY <2>2, <1>3 DEF BeginStop
  <2>3. CASE WriteReport \/ Drain
    BY <2>3, <1>a DEF WriteReport, Drain
  <2>4. CASE \E k \in Proc : KillKid(k)
    BY <2>4, <1>3 DEF KillKid
  <2> QED BY <1>5, <2>1, <2>2, <2>3, <2>4
<1>6. CASE WaitCmd
  BY <1>6, <1>3, <1>a DEF WaitCmd
<1>7. CASE StopWait
  BY <1>7, <1>a DEF StopWait
<1>8. CASE ListKids
  BY <1>8, <1>a DEF ListKids, procVars, Children, Present
<1>9. CASE ReaperExit \/ Sigkill
  BY <1>9, <1>a DEF ReaperExit, Sigkill, Die
<1>10. CASE Sigterm
  BY <1>10, <1>3, <1>a DEF Sigterm, Die, procVars
<1>11. CASE GroupKill \/ UNCHANGED vars
  BY <1>11, <1>3 DEF GroupKill, vars, procVars, reaperVars
<1> QED BY <1>4, <1>5, <1>6, <1>7, <1>8, <1>9, <1>10, <1>11 DEF Next, ReaperStep

\* kill_adopted and stop_for_signal never send SIGKILL to a pid the reaper
\* has already waited for, so none can hit a process that reused it.
THEOREM SignalsSafe == Spec => []SignalsOnlyItsOwn
<1>1. Init => SignalsOnlyItsOwn
  BY DEF Init, ProcInit, SignalsOnlyItsOwn, Children, Present, Proc, Cmd
<1> QED BY <1>1, SignalsStep, TypeCorrect, TreeCorrect, PTL DEF Spec

-----------------------------------------------------------------------------
(* Every step of a run is a step of the reaper and its tree, or none. *)

LEMMA StepOfReaper == [RNext]_rvars => [Next]_vars
BY DEF RNext, rvars, HostStep, SpawnReturns, SeeZombie, AskReaper, KillReaper,
   RefuseTimeout, KillItsGroup, FinishReap, Expire, GraceEnds, Next

\* What the host does to the reaper is what LinuxReaper allows anyone to do,
\* so every theorem about Spec is a theorem about a run.
THEOREM RunIsReaper == RSpec => Spec
<1>1. RInit => Init
  BY DEF RInit
<1> QED BY <1>1, StepOfReaper, PTL DEF RSpec, Spec

LEMMA RunTypeStep == RTypeOK /\ TypeOK' /\ [RNext]_rvars => RTypeOK'
BY ZenonT(60) DEF RTypeOK, RNext, rvars, hostVars, HostStep, SpawnReturns, SeeZombie, AskReaper,
   KillReaper, RefuseTimeout, KillItsGroup, FinishReap, Expire, GraceEnds

\* Every variable of RunChild stays in its range.
THEOREM RunTypeCorrect == RSpec => []RTypeOK
<1>1. RInit /\ TypeOK => RTypeOK
  BY DEF RInit, RTypeOK
<1> QED BY <1>1, RunTypeStep, RunIsReaper, TypeCorrect, PTL DEF RSpec

-----------------------------------------------------------------------------
(* Answers. *)

\* An answer is given after the reaper is gone, and "ok" only for its byte.
AnswerInv ==
  /\ hpc # "returned" <=> answer = "none"
  /\ answer # "none" => ~ ReaperUp
  /\ answer = "ok" => report = "clean"

\* A reaper that is gone writes nothing and never comes back.
LEMMA GoneStaysGone ==
  ASSUME ~ ReaperUp, [Next]_vars
  PROVE  ~ ReaperUp' /\ UNCHANGED <<report, kills>>
BY DEF ReaperUp, Running, Next, vars, ProcStep, reaperVars, ReaperStep, Boot, Walk, WaitCmd,
   BeginStop, StopWait, ListEmpty, ListKids, RoundsSpent, KillKid, Drain, WriteReport,
   ReaperExit, Sigterm, Sigkill, Die, GroupKill

LEMMA AnswerStep ==
  ASSUME AnswerInv, [RNext]_rvars
  PROVE  AnswerInv'
<1>1. CASE hpc = "returned"
  <2>1. [Next]_vars /\ ~ ReaperUp
    BY <1>1, StepOfReaper DEF AnswerInv
  <2>2. UNCHANGED <<hpc, answer>>
    BY <1>1 DEF RNext, rvars, hostVars, HostStep, SpawnReturns, SeeZombie, AskReaper,
       KillReaper, RefuseTimeout, KillItsGroup, FinishReap, Expire, GraceEnds
  <2> QED BY <1>1, <2>1, <2>2, GoneStaysGone DEF AnswerInv
<1>2. CASE hpc # "returned"
  <2>1. CASE FinishReap
    BY <1>2, <2>1 DEF FinishReap, AnswerInv, ReaperUp, vars, reaperVars
  <2>2. CASE ~ FinishReap
    <3>1. answer' = answer /\ hpc' # "returned"
      BY <1>2, <2>2 DEF RNext, rvars, hostVars, HostStep, SpawnReturns, SeeZombie, AskReaper,
         KillReaper, RefuseTimeout, KillItsGroup, Expire, GraceEnds
    <3> QED BY <1>2, <3>1 DEF AnswerInv
  <2> QED BY <2>1, <2>2
<1> QED BY <1>1, <1>2

THEOREM AnswerCorrect == RSpec => []AnswerInv
<1>1. RInit => AnswerInv
  BY DEF RInit, Init, AnswerInv
<1> QED BY <1>1, AnswerStep, PTL DEF RSpec

\* finish_reap answers with the command's own status only if no process of
\* the tree is left, unless kill_adopted ran out of rounds.
THEOREM OkCorrect ==
  ASSUME MaxLossy <= EmptyPolls
  PROVE  RSpec => []OkMeansEnded
<1>1. AnswerInv /\ CleanReportMeansEnded => OkMeansEnded
  BY DEF AnswerInv, CleanReportMeansEnded, OkMeansEnded
<1> QED BY <1>1, AnswerCorrect, RunIsReaper, CleanReport, PTL

-----------------------------------------------------------------------------
(* The abstract run. *)

LEMMA ContractStep ==
  ASSUME TypeOK, RTypeOK, AnswerInv, AnswerInv', OkMeansEnded', [RNext]_rvars
  PROVE  [Contract!Next]_(Contract!contractVars)
<1>0. [Next]_vars
  BY StepOfReaper
<1>1. CASE FinishReap
  <2>1. answer = "none" /\ Told = "none" /\ UNCHANGED Living
    BY <1>1 DEF FinishReap, AnswerInv, Told, Living, Alive, vars, procVars
  <2>2. Told' \in Contract!Answers \ {"none"}
    BY <1>1 DEF FinishReap, Told, Contract!Answers
  <2>3. Told' = "ok" => Living' = {}
    <3>1. SUFFICES ASSUME Told' = "ok" PROVE Living' = {}
      OBVIOUS
    <3>2. answer' = "ok" /\ kills' # KillRounds /\ kills' = kills
      BY <1>1, <3>1 DEF Told, FinishReap, vars, reaperVars
    <3>3. kills \in 0 .. KillRounds /\ KillRounds \in Nat
      BY DEF TypeOK, ReaperAssumption
    <3>4. kills' < KillRounds
      BY <3>2, <3>3
    <3> QED BY <3>2, <3>4 DEF OkMeansEnded, TreeEnded, Living
  <2> QED BY <2>1, <2>2, <2>3 DEF Contract!Next, Contract!Return
<1>2. CASE ~ FinishReap
  <2>1. answer' = answer
    BY <1>2 DEF RNext, rvars, hostVars, HostStep, SpawnReturns, SeeZombie, AskReaper,
       KillReaper, RefuseTimeout, KillItsGroup, Expire, GraceEnds
  <2>2. Told' = Told
    BY <1>0, <2>1, GoneStaysGone DEF Told, AnswerInv
  <2>3. Living = {} => Living' = {}
    BY <1>0, EndedIsStable DEF Living, TreeEnded
  <2>4. Living' \in SUBSET Proc
    BY DEF Living
  <2> QED BY <2>2, <2>3, <2>4 DEF Contract!Next, Contract!Work, Contract!contractVars
<1> QED BY <1>1, <1>2

\* A run, from spawn to answer, is a run as RunContract describes it: the
\* answer comes once, and "ok" only when nothing is left.
THEOREM RunImplementsContract ==
  ASSUME MaxLossy <= EmptyPolls
  PROVE  RSpec => ImplementsContract
<1>1. RInit => Contract!Init
  BY DEF RInit, Told, Living, Contract!Init
<1>2. TypeOK /\ RTypeOK /\ AnswerInv /\ AnswerInv' /\ OkMeansEnded' /\ [RNext]_rvars
        => [Contract!Next]_(Contract!contractVars)
  BY ContractStep
<1> QED BY <1>1, <1>2, RunIsReaper, TypeCorrect, RunTypeCorrect, AnswerCorrect, OkCorrect, PTL
        DEF RSpec, ImplementsContract, Contract!Spec

-----------------------------------------------------------------------------
(* The process group. *)

\* Once a group has had its SIGKILL it has no running member: a killed one
\* cannot fork and nobody joins from outside.
GroupInv ==
  /\ \A p \in ingroup : p <= born
  /\ (hpc \in {"reap", "returned"} /\ ~ AutoReap) => \A p \in ingroup : state[p] # "running"
  /\ answer \in {"ok", "timeout", "descendants"} => hpc = "returned" /\ ~ AutoReap

\* No step but a fork starts a process, and a fork stays in its own group.
LEMMA NoneRuns ==
  ASSUME TypeOK, TreeInv, [Next]_vars, \A p \in ingroup : p <= born
  PROVE  /\ \A p \in ingroup' : p <= born'
         /\ (\A p \in ingroup : state[p] # "running") => \A p \in ingroup' : state'[p] # "running"
<1> USE DEF TypeOK, ProcTypeOK
<1> DEFINE Goal == /\ \A p \in ingroup' : p <= born'
                   /\ (\A p \in ingroup : state[p] # "running")
                         => \A p \in ingroup' : state'[p] # "running"
<1>1. ASSUME ingroup' \subseteq ingroup, born' = born,
             \A p \in Proc : state'[p] = "running" => state[p] = "running"
      PROVE  Goal
  BY <1>1
<1>2. ASSUME NEW p \in Proc, Fork(p) PROVE Goal
  <2>1. born + 1 \in Proc /\ born' = born + 1
    BY <1>2 DEF Fork, Proc, ProcTreeAssumption
  <2>2. \A q \in ingroup : q # born + 1 /\ q <= born'
    BY <2>1 DEF Proc
  <2>3. \A q \in ingroup : state'[q] = state[q]
    BY <1>2, <2>2 DEF Fork
  <2>4. ingroup' = IF p \in ingroup THEN ingroup \union {born + 1} ELSE ingroup
    BY <1>2 DEF Fork
  <2>5. state[p] = "running"
    BY <1>2 DEF Fork
  <2>6. born + 1 <= born'
    BY <2>1 DEF Proc
  <2>7. CASE p \in ingroup
    BY <2>2, <2>4, <2>5, <2>6, <2>7
  <2>8. CASE p \notin ingroup
    BY <2>2, <2>3, <2>4, <2>8
  <2> QED BY <2>7, <2>8
<1>3. ASSUME NEW p \in Proc, LeaveGroup(p) \/ WaitChild(p) PROVE Goal
  BY <1>1, <1>3 DEF LeaveGroup, WaitChild
<1>4. ASSUME NEW st \in [Proc -> ProcState], NEW q, NEW to, HandOver(st, q, to),
             \A p \in Proc : st[p] = "running" => state[p] = "running",
             ingroup' = ingroup, born' = born
      PROVE  Goal
  BY <1>1, <1>4 DEF HandOver, Resting
<1>5. ASSUME NEW p \in Proc, Exit(p, Adopter) PROVE Goal
  <2>1. [state EXCEPT ![p] = Resting(parent[p])] \in [Proc -> ProcState]
    BY DEF Resting, ProcState
  <2>2. \A r \in Proc : [state EXCEPT ![p] = Resting(parent[p])][r] = "running"
                          => state[r] = "running"
    BY DEF Resting
  <2> QED BY <1>4, <1>5, <2>1, <2>2 DEF Exit
<1>6. ASSUME NEW S, state' = Collected(state, S) \/ state' = Killed(state, S),
             ingroup' = ingroup, born' = born
      PROVE  Goal
  BY <1>1, <1>6 DEF Collected, Killed
<1>7. ASSUME UNCHANGED procVars PROVE Goal
  BY <1>7 DEF procVars
<1>8. CASE ReaperStep
  <2>1. CASE Boot \/ Walk \/ ListEmpty \/ ListKids \/ RoundsSpent
    BY <1>7, <2>1 DEF Boot, Walk, ListEmpty, ListKids, RoundsSpent
  <2>2. CASE WaitCmd \/ StopWait
    BY <1>6, <1>7, <2>2 DEF WaitCmd, StopWait, procVars
  <2>3. CASE BeginStop \/ Drain \/ WriteReport \/ \E k \in Proc : KillKid(k)
    BY <1>6, <2>3 DEF BeginStop, Drain, WriteReport, KillKid
  <2>4. CASE ReaperExit
    BY <1>4, <2>4 DEF ReaperExit
  <2> QED BY <1>8, <2>1, <2>2, <2>3, <2>4 DEF ReaperStep
<1>9. CASE Sigterm \/ Sigkill
  BY <1>4, <1>7, <1>9 DEF Sigterm, Sigkill, Die
<1>10. CASE GroupKill
  BY <1>6, <1>10 DEF GroupKill
<1>11. CASE UNCHANGED vars
  BY <1>7, <1>11 DEF vars
<1>12. ASSUME NEW p \in Proc, ProcStep(p) PROVE Goal
  BY <1>2, <1>3, <1>5, <1>12 DEF ProcStep
<1> QED BY <1>8, <1>9, <1>10, <1>11, <1>12 DEF Next

LEMMA GroupStep ==
  ASSUME TypeOK, TreeInv, GroupInv, [RNext]_rvars
  PROVE  GroupInv'
<1>0. [Next]_vars
  BY StepOfReaper
<1>1. /\ \A p \in ingroup' : p <= born'
      /\ (\A p \in ingroup : state[p] # "running") => \A p \in ingroup' : state'[p] # "running"
  BY <1>0, NoneRuns DEF GroupInv
<1>2. CASE hpc \in {"reap", "returned"}
  <2>1. hpc' \in {"reap", "returned"}
    BY <1>2 DEF RNext, rvars, hostVars, HostStep, SpawnReturns, SeeZombie, AskReaper,
       KillReaper, RefuseTimeout, KillItsGroup, FinishReap, Expire, GraceEnds
  <2>2. answer' \in {"ok", "timeout", "descendants"} => hpc' = "returned" /\ ~ AutoReap
    BY <1>2 DEF GroupInv, RNext, rvars, hostVars, HostStep, SpawnReturns, SeeZombie, AskReaper,
       KillReaper, RefuseTimeout, KillItsGroup, FinishReap, Expire, GraceEnds
  <2> QED BY <1>1, <1>2, <2>1, <2>2 DEF GroupInv
<1>3. CASE hpc \notin {"reap", "returned"}
  <2>1. answer' = answer /\ answer \notin {"ok", "timeout", "descendants"}
    BY <1>3 DEF GroupInv, RNext, rvars, hostVars, HostStep, SpawnReturns, SeeZombie, AskReaper,
       KillReaper, RefuseTimeout, KillItsGroup, FinishReap, Expire, GraceEnds
  <2>2. CASE hpc' \notin {"reap", "returned"}
    BY <1>1, <2>1, <2>2 DEF GroupInv
  <2>3. CASE hpc' \in {"reap", "returned"}
    <3>1. SeeZombie \/ KillItsGroup
      BY <1>3, <2>3 DEF RNext, rvars, hostVars, HostStep, SpawnReturns, AskReaper,
         KillReaper, RefuseTimeout, FinishReap, Expire, GraceEnds
    <3>2. ~ AutoReap => GroupKill
      BY <3>1 DEF SeeZombie, KillItsGroup
    <3>3. ~ AutoReap => \A p \in ingroup' : state'[p] # "running"
      BY <3>2 DEF GroupKill, Killed, TypeOK, ProcTypeOK
    <3> QED BY <1>1, <2>1, <3>3 DEF GroupInv
  <2> QED BY <2>2, <2>3
<1> QED BY <1>2, <1>3

\* kill_group_if_zombie and the killpg after the grace stop every process
\* that stayed in the reaper's group, however the run ended.
THEOREM GroupCorrect == RSpec => []GroupIsStopped
<1>1. RInit => GroupInv
  BY DEF RInit, Init, ProcInit, GroupInv, Cmd
<1>2. GroupInv => GroupIsStopped
  BY DEF GroupInv, GroupIsStopped
<1> QED BY <1>1, <1>2, GroupStep, RunIsReaper, TypeCorrect, TreeCorrect, PTL DEF RSpec
=============================================================================
