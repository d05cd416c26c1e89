--------------------------- MODULE WinJailProofs ---------------------------
(***************************************************************************)
(* Theorems about WinJail for every policy, whichever calls fail.          *)
(*                                                                         *)
(* OkMeansRestored: the guards are a stack of saved lists.  What makes     *)
(* unwinding it exact is that the first guard of an object saved the list  *)
(* from before the run, and that an object without a guard has that list;  *)
(* both survive pushing a guard and popping the last one, and neither      *)
(* survives dropping the first, which is why that invariant stops where    *)
(* the guards are dropped.                                                 *)
(*                                                                         *)
(* RunsConfined: a deny of a plan is in force or its edit is still to be   *)
(* made, no failure of it is let through, and no other edit takes it away, *)
(* so it is in force when its stage is over, until the lists are put back. *)
(***************************************************************************)
EXTENDS WinJail, TLAPS

Ends == {"undo", "drop", "release", "over"}
Fine == {"Applied", "WfpSkipped", "Late"}

ListsOK == dacl \in [Object -> SUBSET Ace] /\ guards \in Seq(Guard) /\ todo \in Seq(Step)

\* The first guard of o saved the list o had before the run.
FirstSaved(o, gs) ==
  \A i \in 1..Len(gs) :
    (gs[i].obj = o /\ \A j \in 1..(i - 1) : gs[j].obj # o) => gs[i].saved = Original[o]

\* An object without a guard has the list from before the run.
Untouched(o, gs, lists) ==
  (\A i \in 1..Len(gs) : gs[i].obj # o) => lists[o] = Original[o]

Linked(gs, lists) == \A o \in Object : FirstSaved(o, gs) /\ Untouched(o, gs, lists)

Answers ==
  /\ pc \notin Ends => answer = "none"
  /\ pc \in {"undo", "drop"} => answer = "Apply"
  /\ answer \in Fine => dacl = Original /\ guards = <<>>

Inv ==
  /\ ListsOK
  /\ pc \notin {"drop", "release", "over"} => Linked(guards, dacl)
  /\ Answers

-----------------------------------------------------------------------------
(* The plans. *)

\* The edits of a sequence of objects are steps (the grants and denies of the
\* paths of a policy).
LEMMA EachType ==
  ASSUME NEW objs \in Seq(Object), NEW sid \in Sid \cup {"any"},
         NEW md \in {"grant", "deny", "null"}, NEW call \in Call
  PROVE  Each(objs, sid, md, call) \in Seq(Step)
<1>1. \A i \in 1..Len(objs) : [obj |-> objs[i], ace |-> [sid |-> sid, mode |-> md],
                               call |-> call] \in Step
  BY DEF Step, Ace
<1>2. Len(objs) \in Nat
  OBVIOUS
<1> QED  BY <1>1, <1>2 DEF Each

\* Every stage starts with a sequence of steps.
LEMMA EditsType == \A stage : Edits(stage) \in Seq(Step)
<1>1. /\ WriteGrants \in Seq(Step) /\ SessionGrants \in Seq(Step)
      /\ PackageRoots \in Seq(Step) /\ PackageReads \in Seq(Step)
      /\ NullSpaces \in Seq(Step)
  BY EachType, AclAssumption
     DEF WriteGrants, SessionGrants, PackageRoots, PackageReads, NullSpaces, Call, Sid
<1>2. /\ DestDenies("world", "deny") \in Seq(Step)
      /\ DestDenies("package", "packageDeny") \in Seq(Step)
      /\ SecretDenies("restricted", "secrets") \in Seq(Step)
      /\ SecretDenies("package", "packageSecrets") \in Seq(Step)
      /\ SecretDenies("package", "secret") \in Seq(Step)
  BY EachType, AclAssumption DEF DestDenies, SecretDenies, Call, Sid
<1>3. <<Helper>> \in Seq(Object) /\ <<Program>> \in Seq(Object) /\ <<Device>> \in Seq(Object)
  BY AclAssumption
<1>4. HelperGrant \in Seq(Step) /\ ProgramGrant \in Seq(Step) /\ PipeGrant \in Seq(Step)
  BY <1>3, EachType DEF HelperGrant, ProgramGrant, PipeGrant, Call, Sid
<1>5. FirstPlan \in Seq(Step)
  BY <1>1, <1>2 DEF FirstPlan
<1>6. \A md : SecondPlan(md) \in Seq(Step)
  BY <1>1, <1>2, <1>4 DEF SecondPlan
<1>7. MsysPlan \in Seq(Step)
  BY <1>1, <1>4 DEF MsysPlan
<1> QED  BY <1>5, <1>6, <1>7 DEF Edits

\* No stage that follows another is one of those a run ends with.
LEMMA AfterType == \A stage : After(stage) \notin Ends
<1>1. \A stage : ConfineOrder(stage) \in {"assign", "lock", "dac", "resume", "wait"}
  BY DEF ConfineOrder
<1> QED  BY <1>1 DEF After, Ends

-----------------------------------------------------------------------------
(* The stack of guards. *)

\* An edit of an object that is linked keeps it linked (set_named_ace).
LEMMA PushLinked ==
  ASSUME NEW gs \in Seq(Guard), NEW lists \in [Object -> SUBSET Ace],
         NEW g \in Guard, NEW list \in SUBSET Ace,
         g.saved = lists[g.obj], Linked(gs, lists)
  PROVE  Linked(Append(gs, g), [lists EXCEPT ![g.obj] = list])
<1> DEFINE more == Append(gs, g)
<1>1. /\ Len(more) = Len(gs) + 1 /\ more[Len(gs) + 1] = g
      /\ \A i \in 1..Len(gs) : more[i] = gs[i]
      /\ Len(gs) \in Nat
  OBVIOUS
<1>2. g.obj \in Object
  BY DEF Guard
<1>3. ASSUME NEW o \in Object PROVE FirstSaved(o, more)
  <2>1. SUFFICES ASSUME NEW i \in 1..(Len(gs) + 1), more[i].obj = o,
                        \A j \in 1..(i - 1) : more[j].obj # o
                 PROVE  more[i].saved = Original[o]
    BY <1>1 DEF FirstSaved
  <2>2. CASE i \in 1..Len(gs)
    <3>1. \A j \in 1..(i - 1) : gs[j].obj # o
      BY <1>1, <2>1, <2>2
    <3> QED  BY <1>1, <2>1, <2>2, <3>1 DEF Linked, FirstSaved
  <2>3. CASE i = Len(gs) + 1
    <3>1. \A j \in 1..Len(gs) : gs[j].obj # o
      BY <1>1, <2>1, <2>3
    <3>2. lists[o] = Original[o]
      BY <3>1 DEF Linked, Untouched
    <3> QED  BY <1>1, <2>1, <2>3, <3>2
  <2> QED  BY <2>2, <2>3, <1>1
<1>4. ASSUME NEW o \in Object
      PROVE  Untouched(o, more, [lists EXCEPT ![g.obj] = list])
  <2>1. SUFFICES ASSUME \A i \in 1..Len(more) : more[i].obj # o
                 PROVE  [lists EXCEPT ![g.obj] = list][o] = Original[o]
    BY DEF Untouched
  <2>2. g.obj # o /\ \A i \in 1..Len(gs) : gs[i].obj # o
    BY <1>1, <2>1
  <2> QED  BY <1>2, <2>2 DEF Linked, Untouched
<1> QED  BY <1>3, <1>4 DEF Linked

\* Restoring the last guard keeps it linked (restore_guards, from the end).
LEMMA PopLinked ==
  ASSUME NEW gs \in Seq(Guard), NEW lists \in [Object -> SUBSET Ace],
         gs # <<>>, Linked(gs, lists)
  PROVE  Linked(WithoutLast(gs), Restored(lists, gs[Len(gs)]))
<1> DEFINE n == Len(gs)
           g == gs[n]
           less == WithoutLast(gs)
           back == Restored(lists, g)
<1>1. n \in Nat /\ n >= 1 /\ g \in Guard
  OBVIOUS
<1>2. Len(less) = n - 1 /\ \A i \in 1..(n - 1) : less[i] = gs[i]
  BY <1>1 DEF WithoutLast
<1>3. g.obj \in Object /\ back = [lists EXCEPT ![g.obj] = g.saved]
  BY <1>1 DEF Guard, Restored
<1>4. ASSUME NEW o \in Object PROVE FirstSaved(o, less)
  BY <1>1, <1>2 DEF Linked, FirstSaved
<1>5. ASSUME NEW o \in Object PROVE Untouched(o, less, back)
  <2>1. SUFFICES ASSUME \A i \in 1..(n - 1) : gs[i].obj # o
                 PROVE  back[o] = Original[o]
    BY <1>2 DEF Untouched
  <2>2. CASE g.obj = o
    <3>1. g.saved = Original[o]
      BY <1>1, <2>1, <2>2 DEF Linked, FirstSaved
    <3> QED  BY <1>3, <2>2, <3>1
  <2>3. CASE g.obj # o
    <3>1. \A i \in 1..n : gs[i].obj # o
      BY <1>1, <2>1, <2>3
    <3> QED  BY <1>3, <2>3, <3>1 DEF Linked, Untouched
  <2> QED  BY <2>2, <2>3
<1> QED  BY <1>4, <1>5 DEF Linked

\* With no guard left, every list is the one from before the run.
LEMMA EmptyIsOriginal ==
  ASSUME NEW lists \in [Object -> SUBSET Ace], Linked(<<>>, lists)
  PROVE  lists = Original
<1>1. ASSUME NEW i \in 1..Len(<<>>) PROVE FALSE
  BY SMT
<1>2. ASSUME NEW o \in Object PROVE lists[o] = Original[o]
  <2>1. Untouched(o, <<>>, lists)
    BY DEF Linked
  <2>2. \A i \in 1..Len(<<>>) : <<>>[i].obj # o
    BY <1>1
  <2> QED  BY <2>1, <2>2 DEF Untouched
<1> QED  BY <1>2, WinAssumption

-----------------------------------------------------------------------------
(* The steps. *)

LEMMA InitInv == ASSUME Init PROVE Inv
<1>1. ListsOK
  BY EditsType, WinAssumption DEF Init, ListsOK
<1>2. Linked(guards, dacl)
  BY DEF Init, Linked, FirstSaved, Untouched
<1>3. Answers
  BY DEF Init, Answers, Ends, Fine
<1> QED  BY <1>1, <1>2, <1>3 DEF Inv

\* A step that goes on to another stage without touching the lists.
LEMMA AdvanceInv ==
  ASSUME Inv, pc \notin Ends, pc' \notin Ends, UNCHANGED <<dacl, guards, answer>>,
         todo' \in Seq(Step)
  PROVE  Inv'
BY DEF Inv, ListsOK, Answers, Ends, Fine, Linked, FirstSaved, Untouched

\* A step of somebody else, or one that keeps the stage.
LEMMA SameInv ==
  ASSUME Inv, UNCHANGED <<dacl, guards, todo, answer, pc>>
  PROVE  Inv'
BY DEF Inv, ListsOK, Answers, Ends, Fine, Linked, FirstSaved, Untouched

LEMMA EditInv == ASSUME Inv, Edit PROVE Inv'
<1> DEFINE step == Head(todo)
           g == GuardOf(step, dacl)
           list == Edited(dacl[step.obj], step.ace)
<1>1. /\ pc \in {"first", "second", "msys"} /\ pc' = pc /\ answer' = answer /\ todo # <<>>
      /\ dacl' = [dacl EXCEPT ![step.obj] = list]
      /\ guards' = Append(guards, g) /\ todo' = Tail(todo)
  BY DEF Edit
<1>2. ListsOK /\ Linked(guards, dacl) /\ answer = "none"
  BY <1>1 DEF Inv, Answers, Ends
<1>3. step \in Step /\ todo' \in Seq(Step)
  BY <1>1, <1>2 DEF ListsOK
<1>4. step.obj \in Object /\ step.ace \in Ace /\ step.call \in Call
  BY <1>3 DEF Step
<1>5. dacl[step.obj] \in SUBSET Ace
  BY <1>2, <1>4 DEF ListsOK
<1>6. g \in Guard /\ g.obj = step.obj /\ g.saved = dacl[g.obj]
  BY <1>4, <1>5 DEF GuardOf, Guard
<1>7. list \in SUBSET Ace
  BY <1>4, <1>5 DEF Edited
<1>8. dacl' \in [Object -> SUBSET Ace] /\ guards' \in Seq(Guard)
  BY <1>1, <1>2, <1>4, <1>6, <1>7 DEF ListsOK
<1>9. Linked(guards', dacl')
  BY <1>1, <1>2, <1>6, <1>7, PushLinked DEF ListsOK
<1> QED  BY <1>1, <1>2, <1>3, <1>8, <1>9 DEF Inv, ListsOK, Answers, Ends, Fine

LEMMA PopType ==
  ASSUME NEW gs \in Seq(Guard), NEW lists \in [Object -> SUBSET Ace], gs # <<>>
  PROVE  /\ WithoutLast(gs) \in Seq(Guard)
         /\ Restored(lists, gs[Len(gs)]) \in [Object -> SUBSET Ace]
<1>1. gs[Len(gs)] \in Guard /\ Len(gs) \in Nat /\ Len(gs) >= 1
  OBVIOUS
<1>2. WithoutLast(gs) \in Seq(Guard)
  BY <1>1 DEF WithoutLast
<1> QED  BY <1>1, <1>2 DEF Restored, Guard

LEMMA UndoInv == ASSUME Inv, Undo PROVE Inv'
<1>1. pc = "undo" /\ ListsOK /\ Linked(guards, dacl) /\ answer = "Apply"
  BY DEF Undo, Inv, Answers, Ends
<1>2. answer' = answer /\ todo' = todo
  BY DEF Undo
<1>3. CASE /\ LastIs(failed) /\ pc' = pc
           /\ dacl' = Restored(dacl, guards[Len(guards)])
           /\ guards' = WithoutLast(guards)
  <2>1. guards # <<>>
    BY <1>3 DEF LastIs
  <2>2. Linked(guards', dacl')
    BY <1>1, <1>3, <2>1, PopLinked DEF ListsOK
  <2>3. ListsOK'
    BY <1>1, <1>2, <1>3, <2>1, PopType DEF ListsOK
  <2> QED  BY <1>1, <1>2, <1>3, <2>2, <2>3 DEF Inv, Answers, Ends, Fine
<1>4. CASE pc' = "drop" /\ UNCHANGED <<dacl, guards>>
  BY <1>1, <1>2, <1>4 DEF Inv, ListsOK, Answers, Ends, Fine
<1> QED  BY <1>3, <1>4 DEF Undo

LEMMA RestoreLastInv == ASSUME Inv, RestoreLast PROVE Inv'
<1>1. /\ pc = "restore" /\ pc' = pc /\ answer' = answer /\ todo' = todo /\ guards # <<>>
      /\ dacl' = Restored(dacl, guards[Len(guards)]) /\ guards' = WithoutLast(guards)
  BY DEF RestoreLast
<1>2. ListsOK /\ Linked(guards, dacl) /\ answer = "none"
  BY <1>1 DEF Inv, Answers, Ends
<1>3. Linked(guards', dacl')
  BY <1>1, <1>2, PopLinked DEF ListsOK
<1>4. ListsOK'
  BY <1>1, <1>2, PopType DEF ListsOK
<1> QED  BY <1>1, <1>2, <1>3, <1>4 DEF Inv, Answers, Ends, Fine

LEMMA RestoreDoneInv == ASSUME Inv, RestoreDone PROVE Inv'
<1>1. /\ pc = "restore" /\ pc' = "release" /\ UNCHANGED <<dacl, guards, todo>>
      /\ \/ guards = <<>>
         \/ answer' = AnswerOf(TRUE)
  BY DEF RestoreDone
<1>2. ListsOK /\ Linked(guards, dacl)
  BY <1>1 DEF Inv
<1>3. AnswerOf(TRUE) \notin Fine
  BY DEF AnswerOf, Fine
<1>4. guards = <<>> => dacl = Original
  BY <1>2, EmptyIsOriginal DEF ListsOK
<1>5. answer' \in Fine => dacl' = Original /\ guards' = <<>>
  BY <1>1, <1>3, <1>4
<1> QED  BY <1>1, <1>2, <1>5 DEF Inv, ListsOK, Answers, Ends

\* Guards are dropped only where the answer is not one of success, for there
\* are none left where it is.
LEMMA DropInv == ASSUME Inv, Drop PROVE Inv'
<1>k. PICK k \in DropFirst(guards, failed) :
        /\ guards' = WithoutAt(guards, k)
        /\ dacl' = dacl \/ dacl' = Restored(dacl, guards[k])
  BY DEF Drop
<1>1. /\ pc \in {"drop", "release"} /\ pc' = pc /\ answer' = answer /\ todo' = todo
      /\ guards # <<>>
  BY DEF Drop
<1>2. ListsOK /\ Answers
  BY DEF Inv
<1>3. k \in 1..Len(guards)
  BY DEF DropFirst
<1>4. guards[k] \in Guard /\ Len(guards) \in Nat
  BY <1>2, <1>3 DEF ListsOK
<1>5. guards' \in Seq(Guard)
  BY <1>k, <1>2, <1>3, <1>4 DEF ListsOK, WithoutAt
<1>6. dacl' \in [Object -> SUBSET Ace]
  BY <1>k, <1>2, <1>4 DEF ListsOK, Restored, Guard
<1>7. answer \notin Fine
  BY <1>1, <1>2 DEF Answers
<1> QED  BY <1>1, <1>2, <1>5, <1>6, <1>7 DEF Inv, ListsOK, Answers, Ends, Fine

-----------------------------------------------------------------------------
\* The steps of the host that go on to the next stage.
LEMMA NextStageInv ==
  ASSUME Inv, pc \notin Ends, Advance, UNCHANGED <<dacl, guards, answer>>
  PROVE  Inv'
<1>1. pc' \notin Ends /\ todo' \in Seq(Step)
  BY AfterType, EditsType DEF Advance
<1> QED  BY <1>1, AdvanceInv

\* A preparation that fails (prefix_apply, the ? of the prepare functions).
LEMMA FailInv ==
  ASSUME Inv, pc \notin Ends, pc' \in {"undo", "drop"}, answer' = "Apply",
         UNCHANGED <<dacl, guards, todo>>
  PROVE  Inv'
BY DEF Inv, ListsOK, Answers, Ends, Fine, Linked, FirstSaved, Untouched

LEMMA ReleaseInv == ASSUME Inv, Release PROVE Inv'
<1>1. /\ pc \in {"drop", "release"} /\ pc' = "over" /\ guards = <<>>
      /\ UNCHANGED <<dacl, guards, todo, answer>>
  BY DEF Release, acls
<1> QED  BY <1>1 DEF Inv, ListsOK, Answers, Ends, Fine

\* Every step of the host keeps the invariant.
LEMMA HostInv == ASSUME Inv, HostStep PROVE Inv'
<1>1. CASE Edit  BY <1>1, EditInv
<1>2. CASE SkipEdit
  <2>1. pc \notin Ends /\ pc' = pc /\ todo' \in Seq(Step) /\ UNCHANGED <<dacl, guards, answer>>
    BY <1>2 DEF SkipEdit, Ends, Inv, ListsOK
  <2> QED  BY <2>1, AdvanceInv
<1>3. CASE FailEdit
  BY <1>3, FailInv DEF FailEdit, Ends
<1>4. CASE Undo  BY <1>4, UndoInv
<1>5. CASE Drop  BY <1>5, DropInv
<1>6. CASE Release  BY <1>6, ReleaseInv
<1>7. CASE SetupFails
  BY <1>7, FailInv DEF SetupFails, Ends, acls
<1>8. CASE ComposeLine
  BY <1>8, NextStageInv DEF ComposeLine, Ends
<1>9. CASE OpenStdio
  BY <1>9, NextStageInv DEF OpenStdio, Ends
<1>10. CASE Install
  BY <1>10, NextStageInv DEF Install, Ends
<1>11. CASE BlockedProfile
  BY <1>11, NextStageInv DEF BlockedProfile, Ends
<1>12. CASE ReexecProfile
  BY <1>12, NextStageInv DEF ReexecProfile, Ends
<1>13. CASE EditsDone
  BY <1>13, NextStageInv DEF EditsDone, Ends
<1>14. CASE MakeToken
  BY <1>14, NextStageInv DEF MakeToken, Ends
<1>15. CASE MakeJob
  BY <1>15, NextStageInv DEF MakeJob, Ends
<1>16. CASE WrapToken
  BY <1>16, NextStageInv DEF WrapToken, Ends
<1>17. CASE Create
  BY <1>17, NextStageInv DEF Create, Ends
<1>18. CASE AssignJob
  BY <1>18, NextStageInv DEF AssignJob, Confined, Ends
<1>19. CASE LockToken
  BY <1>19, NextStageInv DEF LockToken, Confined, Ends
<1>20. CASE DenyWriteDac
  BY <1>20, NextStageInv DEF DenyWriteDac, Confined, Ends
<1>21. CASE Resume
  BY <1>21, NextStageInv DEF Resume, Confined, Ends
<1>22. CASE SpawnFails
  <2>1. pc \notin Ends /\ pc' \notin Ends /\ UNCHANGED <<dacl, guards, todo, answer>>
    BY <1>22 DEF SpawnFails, Ends, acls
  <2> QED  BY <2>1, AdvanceInv DEF Inv, ListsOK
<1>23. CASE ConfineFails
  <2>1. pc \notin Ends /\ pc' \notin Ends /\ UNCHANGED <<dacl, guards, todo, answer>>
    BY <1>23 DEF ConfineFails, Confine, Ends, acls
  <2> QED  BY <2>1, AdvanceInv DEF Inv, ListsOK
<1>24. CASE ChildEnded
  <2>1. pc \notin Ends /\ pc' \notin Ends /\ UNCHANGED <<dacl, guards, todo, answer>>
    BY <1>24 DEF ChildEnded, Ends, acls
  <2> QED  BY <2>1, AdvanceInv DEF Inv, ListsOK
<1>25. CASE DeadlinePasses
  <2>1. pc \notin Ends /\ pc' \notin Ends /\ UNCHANGED <<dacl, guards, todo, answer>>
    BY <1>25 DEF DeadlinePasses, Ends, acls
  <2> QED  BY <2>1, AdvanceInv DEF Inv, ListsOK
<1>26. CASE WaitFails
  <2>1. pc \notin Ends /\ pc' \notin Ends /\ UNCHANGED <<dacl, guards, todo, answer>>
    BY <1>26 DEF WaitFails, Ends, acls
  <2> QED  BY <2>1, AdvanceInv DEF Inv, ListsOK
<1>27. CASE Reaped
  <2>1. pc \notin Ends /\ pc' \notin Ends /\ UNCHANGED <<dacl, guards, todo, answer>>
    BY <1>27 DEF Reaped, Ends, acls
  <2> QED  BY <2>1, AdvanceInv DEF Inv, ListsOK
<1>28. CASE NotReaped
  <2>1. pc \notin Ends /\ pc' \notin Ends /\ UNCHANGED <<dacl, guards, todo, answer>>
    BY <1>28 DEF NotReaped, Ends, acls
  <2> QED  BY <2>1, AdvanceInv DEF Inv, ListsOK
<1>29. CASE ExitCode
  <2>1. pc \notin Ends /\ pc' \notin Ends /\ UNCHANGED <<dacl, guards, todo, answer>>
    BY <1>29 DEF ExitCode, Ends, acls
  <2> QED  BY <2>1, AdvanceInv DEF Inv, ListsOK
<1>30. CASE AwaitCopies
  <2>1. pc \notin Ends /\ pc' \notin Ends /\ UNCHANGED <<dacl, guards, todo, answer>>
    BY <1>30 DEF AwaitCopies, Ends, acls
  <2> QED  BY <2>1, AdvanceInv DEF Inv, ListsOK
<1>31. CASE Cancel
  <2>1. pc \notin Ends /\ pc' \notin Ends /\ UNCHANGED <<dacl, guards, todo, answer>>
    BY <1>31 DEF Cancel, Ends, acls
  <2> QED  BY <2>1, AdvanceInv DEF Inv, ListsOK
<1>32. CASE Join
  <2>1. pc \notin Ends /\ pc' \notin Ends /\ UNCHANGED <<dacl, guards, todo, answer>>
    BY <1>32 DEF Join, Ends, acls
  <2> QED  BY <2>1, AdvanceInv DEF Inv, ListsOK
<1>33. CASE RestoreLast  BY <1>33, RestoreLastInv
<1>34. CASE RestoreDone  BY <1>34, RestoreDoneInv
<1> QED
  BY <1>1, <1>2, <1>3, <1>4, <1>5, <1>6, <1>7, <1>8, <1>9, <1>10, <1>11, <1>12, <1>13, <1>14, <1>15, <1>16, <1>17, <1>18, <1>19, <1>20, <1>21, <1>22, <1>23, <1>24, <1>25, <1>26, <1>27, <1>28, <1>29, <1>30, <1>31, <1>32, <1>33, <1>34 DEF HostStep

\* Every step keeps the invariant.
LEMMA NextInv == ASSUME Inv, [Next]_vars PROVE Inv'
<1>1. CASE HostStep  BY <1>1, HostInv
<1>2. CASE World
  <2>1. UNCHANGED <<dacl, guards, todo, answer, pc>>
    <3>1. ASSUME NEW s \in Stream, Register(s) \/ CopyStep(s) \/ Bytes(s)
          PROVE  UNCHANGED <<dacl, guards, todo, answer, pc>>
      BY <3>1 DEF Register, CopyStep, Bytes, acls
    <3>2. ASSUME Fork \/ Exits \/ JobKills \/ Tick
          PROVE  UNCHANGED <<dacl, guards, todo, answer, pc>>
      BY <3>2 DEF Fork, Exits, JobKills, Tick, acls
    <3>3. ASSUME Rest PROVE UNCHANGED <<dacl, guards, todo, answer, pc>>
      BY <3>3 DEF Rest, vars, acls
    <3> QED  BY <1>2, <3>1, <3>2, <3>3 DEF World
  <2> QED  BY <2>1, SameInv
<1>3. CASE UNCHANGED vars
  BY <1>3, SameInv DEF vars, acls
<1> QED  BY <1>1, <1>2, <1>3 DEF Next

\* A run that answers with success has put every access list back, whatever
\* the paths of the policy and however often one object is edited
\* (restore_guards, spawn_prepared).
THEOREM RestoredWhenOk == Spec => []OkMeansRestored
<1>1. Init => Inv
  BY InitInv
<1>2. Inv /\ [Next]_vars => Inv'
  BY NextInv
<1>3. Inv => OkMeansRestored
  BY DEF Inv, Answers, OkMeansRestored, Fine
<1> QED  BY <1>1, <1>2, <1>3, PTL DEF Spec
-----------------------------------------------------------------------------
(* Types. *)

LEMMA AfterInStage == \A stage : After(stage) \in Stage
<1>1. \A stage : ConfineOrder(stage) \in {"assign", "lock", "dac", "resume", "wait"}
  BY DEF ConfineOrder
<1> QED  BY <1>1 DEF After, Stage

\* TypeOK in parts: the sequences, what is of finite kinds, the flags, the
\* sets, and the threads.
ListsType == ListsOK /\ failed \in Call \cup {"none"} /\ fails \in Nat

ControlType ==
  /\ mode \in Mode /\ capture \in {"Inherit", "Collect", "Forward"}
  /\ slot \in {"none", "filtered", "bare"}
  /\ token \in {"none", "restricted", "container"}
  /\ job \in {"none", "open", "closed"}
  /\ child \in {"none", "suspended", "running", "wedged", "ended"}
  /\ kin \in {"none", "running", "ended"}
  /\ pc \in Stage
  /\ result \in {"none", "ok", "late", "timeout", "error"}
  /\ answer \in {"none", "Applied", "WfpSkipped", "Late", "Timeout", "Apply", "Restore"}

FlagsType ==
  /\ limit \in BOOLEAN /\ msys \in BOOLEAN /\ helper \in BOOLEAN
  /\ stop \in BOOLEAN /\ due \in BOOLEAN

SetsType == confined \subseteq Confine /\ known \subseteq Stream

CopyAt == {"none", "start", "check", "enter", "read", "again", "leave", "write", "done"}

LEMMA TypeParts ==
  TypeOK <=> /\ ListsType /\ ControlType /\ FlagsType /\ SetsType
             /\ copy \in [Stream -> CopyAt]
BY DEF TypeOK, ListsType, ListsOK, ControlType, FlagsType, SetsType, CopyAt

LEMMA InitType == ASSUME Init PROVE TypeOK
<1>1. ListsType
  BY EditsType, WinAssumption DEF Init, ListsType, ListsOK
<1>2. ControlType /\ FlagsType /\ SetsType
  BY DEF Init, ControlType, FlagsType, SetsType, Stage
<1>3. copy \in [Stream -> CopyAt]
  BY DEF Init, CopyAt
<1> QED  BY <1>1, <1>2, <1>3, TypeParts

\* The lists keep their types: the invariant above, and two counters beside.
LEMMA ListsTypeStep == ASSUME ListsType, ListsOK', [Next]_vars PROVE ListsType'
<1>0. failed \in Call \cup {"none"} /\ fails \in Nat /\ ListsOK
  BY DEF ListsType
<1>1. CASE FailEdit
  <2>1. Head(todo) \in Step
    BY <1>0, <1>1 DEF FailEdit, ListsOK
  <2>2. Head(todo).call \in Call
    BY <2>1 DEF Step
  <2> QED  BY <1>0, <1>1, <2>2 DEF FailEdit, ListsType
<1>2. CASE Undo \/ Drop \/ RestoreDone
  <2>1. failed' = failed /\ (fails' = fails \/ fails' = fails + 1)
    BY <1>2 DEF Undo, Drop, RestoreDone
  <2> QED  BY <1>0, <2>1 DEF ListsType
<1>3. CASE UNCHANGED <<failed, fails>>
  BY <1>0, <1>3 DEF ListsType
<1>4. CASE HostStep
  <2>1. FailEdit \/ Undo \/ Drop \/ RestoreDone \/ UNCHANGED <<failed, fails>>
    BY <1>4
    DEF HostStep, acls, Edit, SkipEdit, Release, SetupFails, Install, BlockedProfile,
        ReexecProfile, EditsDone, MakeToken, MakeJob, WrapToken, SpawnFails, ComposeLine,
        OpenStdio, Create, AssignJob, LockToken, DenyWriteDac, Resume, Confined,
        ConfineFails, ChildEnded, DeadlinePasses, WaitFails, Reaped, NotReaped, ExitCode,
        AwaitCopies, Cancel, Join, RestoreLast
  <2> QED  BY <1>1, <1>2, <1>3, <2>1
<1>5. CASE World
  <2>1. UNCHANGED <<failed, fails>>
    BY <1>5
    DEF World, acls, Register, CopyStep, Bytes, Fork, Exits, JobKills, Tick, Rest, vars
  <2> QED  BY <1>3, <2>1
<1>6. CASE UNCHANGED vars
  BY <1>3, <1>6 DEF vars, acls
<1> QED  BY <1>4, <1>5, <1>6 DEF Next

LEMMA CopyTypeStep ==
  ASSUME copy \in [Stream -> CopyAt], [Next]_vars
  PROVE  copy' \in [Stream -> CopyAt]
<1>1. CASE Create
  BY <1>1 DEF Create, FirstOfCopy, CopyAt
<1>2. CASE Cancel
  BY <1>2 DEF Cancel, CopyAt
<1>3. CASE HostStep
  <2>1. Create \/ Cancel \/ UNCHANGED copy
    BY <1>3
    DEF HostStep, copies, Edit, SkipEdit, FailEdit, Undo, Drop, Release, SetupFails,
        Install, BlockedProfile, ReexecProfile, EditsDone, MakeToken, MakeJob, WrapToken,
        SpawnFails, ComposeLine, OpenStdio, AssignJob, LockToken, DenyWriteDac, Resume,
        Confined, ConfineFails, ChildEnded, DeadlinePasses, WaitFails, Reaped, NotReaped,
        ExitCode, AwaitCopies, Join, RestoreLast, RestoreDone
  <2> QED  BY <1>1, <1>2, <2>1
<1>4. ASSUME NEW s \in Stream, Register(s) \/ CopyStep(s) \/ Bytes(s)
      PROVE  copy' \in [Stream -> CopyAt]
  <2>1. \E at \in CopyAt : copy' = [copy EXCEPT ![s] = at]
    BY <1>4 DEF Register, CopyStep, Bytes, CopyAt
  <2> QED  BY <2>1
<1>5. CASE World
  <2>1. (\E s \in Stream : Register(s) \/ CopyStep(s) \/ Bytes(s)) \/ UNCHANGED copy
    BY <1>5 DEF World, copies, Fork, Exits, JobKills, Tick, Rest, vars
  <2> QED  BY <1>4, <2>1
<1>6. CASE UNCHANGED vars
  BY <1>6 DEF vars, copies
<1> QED  BY <1>3, <1>5, <1>6 DEF Next

LEMMA ControlTypeStep == ASSUME ControlType, [Next]_vars PROVE ControlType'
<1> USE DEF ControlType, asked, kit, procs, copies
<1>0. \A stage : After(stage) \in Stage
  BY AfterInStage
<1>1. CASE Edit  BY <1>0, <1>1 DEF Edit, Stage
<1>2. CASE SkipEdit  BY <1>0, <1>2 DEF SkipEdit, Stage
<1>3. CASE FailEdit  BY <1>0, <1>3 DEF FailEdit, Stage
<1>4. CASE Undo  BY <1>0, <1>4 DEF Undo, Stage
<1>5. CASE Drop  BY <1>0, <1>5 DEF Drop, Stage
<1>6. CASE Release  BY <1>0, <1>6 DEF Release, Stage
<1>7. CASE SetupFails  BY <1>0, <1>7 DEF SetupFails, Stage
<1>8. CASE Install  BY <1>0, <1>8 DEF Install, Advance
<1>9. CASE BlockedProfile  BY <1>0, <1>9 DEF BlockedProfile, Advance, WfpOutcome
<1>10. CASE ReexecProfile  BY <1>0, <1>10 DEF ReexecProfile, Advance
<1>11. CASE EditsDone  BY <1>0, <1>11 DEF EditsDone, Advance
<1>12. CASE MakeToken  BY <1>0, <1>12 DEF MakeToken, Advance
<1>13. CASE MakeJob  BY <1>0, <1>13 DEF MakeJob, Advance
<1>14. CASE WrapToken  BY <1>0, <1>14 DEF WrapToken, Advance
<1>15. CASE SpawnFails  BY <1>0, <1>15 DEF SpawnFails, Stage
<1>16. CASE ComposeLine  BY <1>0, <1>16 DEF ComposeLine, Advance
<1>17. CASE OpenStdio  BY <1>0, <1>17 DEF OpenStdio, Advance
<1>18. CASE Create  BY <1>0, <1>18 DEF Create, Advance
<1>19. CASE AssignJob  BY <1>0, <1>19 DEF AssignJob, Confined, Advance
<1>20. CASE LockToken  BY <1>0, <1>20 DEF LockToken, Confined, Advance
<1>21. CASE DenyWriteDac  BY <1>0, <1>21 DEF DenyWriteDac, Confined, Advance
<1>22. CASE Resume  BY <1>0, <1>22 DEF Resume, Confined, Advance
<1>23. CASE ConfineFails  BY <1>0, <1>23 DEF ConfineFails, Stage
<1>24. CASE ChildEnded  BY <1>0, <1>24 DEF ChildEnded, Stage
<1>25. CASE DeadlinePasses  BY <1>0, <1>25 DEF DeadlinePasses, Stage
<1>26. CASE WaitFails  BY <1>0, <1>26 DEF WaitFails, Stage
<1>27. CASE Reaped  BY <1>0, <1>27 DEF Reaped, Stage
<1>28. CASE NotReaped  BY <1>0, <1>28 DEF NotReaped, Stage
<1>29. CASE ExitCode  BY <1>0, <1>29 DEF ExitCode, Stage
<1>30. CASE AwaitCopies  BY <1>0, <1>30 DEF AwaitCopies, Stage
<1>31. CASE Cancel  BY <1>0, <1>31 DEF Cancel, Stage
<1>32. CASE Join  BY <1>0, <1>32 DEF Join, Stage
<1>33. CASE RestoreLast  BY <1>0, <1>33 DEF RestoreLast, Stage
<1>34. CASE RestoreDone  BY <1>0, <1>34 DEF RestoreDone, Stage, AnswerOf
<1>35. ASSUME NEW s \in Stream, Register(s) \/ CopyStep(s) \/ Bytes(s)
      PROVE  ControlType'
  BY <1>35 DEF Register, CopyStep, Bytes
<1>36. CASE Fork \/ Exits \/ JobKills \/ Tick
  BY <1>36 DEF Fork, Exits, JobKills, Tick
<1>37. CASE UNCHANGED vars
  BY <1>37 DEF vars
<1> QED
  BY <1>1, <1>2, <1>3, <1>4, <1>5, <1>6, <1>7, <1>8, <1>9, <1>10, <1>11, <1>12, <1>13, <1>14, <1>15, <1>16, <1>17, <1>18, <1>19, <1>20, <1>21, <1>22, <1>23, <1>24, <1>25, <1>26, <1>27, <1>28, <1>29, <1>30, <1>31, <1>32, <1>33, <1>34, <1>35, <1>36, <1>37
     DEF Next, HostStep, World, Rest

\* The flags that no step of the host but three changes.
LEMMA FlagsTypeStep == ASSUME FlagsType, [Next]_vars PROVE FlagsType'
<1> USE DEF FlagsType, asked, kit
<1>1. CASE Install  BY <1>1 DEF Install
<1>2. CASE Release  BY <1>2 DEF Release
<1>3. CASE AwaitCopies  BY <1>3 DEF AwaitCopies
<1>4. CASE HostStep /\ ~Install /\ ~Release /\ ~AwaitCopies
  <2>1. UNCHANGED <<limit, msys, helper, stop, due>>
    BY <1>4
    DEF HostStep, Edit, SkipEdit, FailEdit, Undo, Drop, SetupFails, BlockedProfile,
        ReexecProfile, EditsDone, MakeToken, MakeJob, WrapToken, SpawnFails, ComposeLine,
        OpenStdio, Create, AssignJob, LockToken, DenyWriteDac, Resume, ConfineFails,
        ChildEnded, DeadlinePasses, WaitFails, Reaped, NotReaped, ExitCode, Cancel, Join,
        RestoreLast, RestoreDone, Confined
  <2> QED  BY <2>1
<1>5. ASSUME NEW s \in Stream, Register(s) \/ CopyStep(s) \/ Bytes(s)
      PROVE  FlagsType'
  BY <1>5 DEF Register, CopyStep, Bytes
<1>6. CASE Fork \/ Exits \/ JobKills \/ Tick
  BY <1>6 DEF Fork, Exits, JobKills, Tick
<1>7. CASE UNCHANGED vars
  BY <1>7 DEF vars
<1> QED  BY <1>1, <1>2, <1>3, <1>4, <1>5, <1>6, <1>7 DEF Next, World, Rest

LEMMA SetsTypeStep == ASSUME SetsType, [Next]_vars PROVE SetsType'
<1> USE DEF SetsType, copies
<1>1. CASE AssignJob \/ LockToken \/ DenyWriteDac \/ Resume
  BY <1>1 DEF AssignJob, LockToken, DenyWriteDac, Resume, Confined, Confine
<1>2. CASE HostStep /\ ~AssignJob /\ ~LockToken /\ ~DenyWriteDac /\ ~Resume
  <2>1. UNCHANGED <<confined, known>>
    BY <1>2
    DEF HostStep, Edit, SkipEdit, FailEdit, Undo, Drop, Release, SetupFails, Install,
        BlockedProfile, ReexecProfile, EditsDone, MakeToken, MakeJob, WrapToken, SpawnFails,
        ComposeLine, OpenStdio, Create, ConfineFails, ChildEnded, DeadlinePasses, WaitFails,
        Reaped, NotReaped, ExitCode, AwaitCopies, Cancel, Join, RestoreLast, RestoreDone
  <2> QED  BY <2>1
<1>3. ASSUME NEW s \in Stream, Register(s) \/ CopyStep(s) \/ Bytes(s)
      PROVE  SetsType'
  BY <1>3 DEF Register, CopyStep, Bytes
<1>4. CASE Fork \/ Exits \/ JobKills \/ Tick
  BY <1>4 DEF Fork, Exits, JobKills, Tick
<1>5. CASE UNCHANGED vars
  BY <1>5 DEF vars
<1> QED  BY <1>1, <1>2, <1>3, <1>4, <1>5 DEF Next, World, Rest

\* Every variable of WinJail stays in its range.
THEOREM TypeCorrect == Spec => []TypeOK
<1>1. Init => TypeOK /\ Inv
  BY InitType, InitInv
<1>2. TypeOK /\ Inv /\ [Next]_vars => TypeOK' /\ Inv'
  <2> SUFFICES ASSUME TypeOK, Inv, [Next]_vars PROVE TypeOK' /\ Inv'
    OBVIOUS
  <2>1. Inv' /\ ListsOK'
    BY NextInv DEF Inv
  <2>2. /\ ListsType' /\ ControlType' /\ FlagsType' /\ SetsType'
        /\ (copy \in [Stream -> CopyAt])'
    BY <2>1, TypeParts, ListsTypeStep, ControlTypeStep, FlagsTypeStep, SetsTypeStep, CopyTypeStep
  <2>3. TypeOK'
    BY <2>2 DEF TypeOK, ListsType, ListsOK, ControlType, FlagsType, SetsType, CopyAt
  <2> QED  BY <2>1, <2>3
<1> QED  BY <1>1, <1>2, PTL DEF Spec
-----------------------------------------------------------------------------
\* Where the command is, and what was done to it, at each stage of the host
\* (spawn_prepared_child): it exists suspended only while it is confined, and
\* the host goes on from the wait only when it ended or the host says so.
Making == {"install", "profile", "first", "token", "job", "second", "wrap",
           "line", "msys", "stdio", "create", "undo", "drop"}

\* What was done before a step of the confinement.
DoneBefore(stage) ==
  {step \in Confine : \/ step = "assign" /\ stage # "assign"
                      \/ step = "lock" /\ stage \in {"dac", "resume"}
                      \/ step = "dac" /\ stage = "resume"}

Life ==
  /\ pc \in Making => child = "none" /\ confined = {} /\ result = "none"
  /\ pc \in Confine => /\ child = "suspended" /\ result = "none"
                       /\ confined = DoneBefore(pc)
  /\ pc \in {"wait", "reap"} => /\ child \in {"running", "wedged", "ended"}
                                /\ confined = Confine
  /\ pc \in {"code", "drain", "finish", "join"} => child = "ended"
  /\ pc \in {"restore", "release", "over"} =>
       /\ child # "suspended"
       /\ child = "running" => confined = Confine /\ result \in {"error", "timeout"}
       /\ result \in {"ok", "late"} => child = "ended"

Told ==
  /\ pc \notin Ends => answer = "none"
  /\ pc \in {"undo", "drop"} => answer = "Apply"
  /\ (answer # "none" /\ result \in {"late", "timeout"}) => answer \in {"Late", "Timeout"}
  /\ answer \in {"Applied", "WfpSkipped", "Late", "Restore"} => child = "ended"

TokenOf(md) == IF md = "workspace" THEN "restricted" ELSE "container"

\* The token each stage has.
Tokens ==
  /\ pc = "install" => mode = "blocked"
  /\ pc \in {"profile", "second", "wrap"} => mode # "workspace"
  /\ pc = "job" => token = "restricted"
  /\ pc \in {"line", "msys", "stdio", "create"} \/ child # "none" => token = TokenOf(mode)

\* The objects a deny is put on, and the edits that take no such deny away.
Denied == {DestDenied[i] : i \in 1..Len(DestDenied)} \cup {Secrets[i] : i \in 1..Len(Secrets)}
Sparing == {step \in Step : step.ace = Everybody => step.obj \notin Denied}

\* A deny that no failure lets the run do without.
Lasting == {step \in Step : step.ace.mode = "deny" => step.obj \in Denied /\ ~Skips(step)}

\* A deny of a plan is in force, or its edit is still to be made.
InForce(step) == step.ace \in dacl[step.obj]
AllInForce(plan) ==
  \A i \in 1..Len(plan) : plan[i].ace.mode = "deny" => InForce(plan[i])
DueOrInForce(plan) ==
  \A i \in 1..Len(plan) :
    plan[i].ace.mode = "deny" =>
      InForce(plan[i]) \/ \E j \in 1..Len(todo) : todo[j] = plan[i]

Launch == {"wrap", "line", "msys", "stdio", "create", "assign", "lock", "dac",
           "resume", "wait", "reap"}

\* No edit that is left takes a list away from a denied path, and the denies
\* of the edits that are made are in force until the command has ended.
Forced ==
  /\ todo \in Seq(Sparing)
  /\ pc = "first" => DueOrInForce(FirstPlan)
  /\ pc \in Launch \cup {"token", "job", "second"} \/ (pc = "profile" /\ mode = "reexec")
       => AllInForce(FirstPlan)
  /\ pc = "second" => DueOrInForce(SecondPlan(mode))
  /\ pc \in Launch /\ mode # "workspace" => AllInForce(SecondPlan(mode))

\* The stages, one by one.
LEMMA AfterIs ==
  /\ After("install") = "profile"
  /\ After("profile") = IF mode = "blocked" THEN "first" ELSE "second"
  /\ After("first") = "token" /\ After("token") = "job"
  /\ mode = "workspace" => After("job") = "line"
  /\ mode = "blocked" => After("job") = "second"
  /\ mode \notin {"workspace", "blocked"} => After("job") = "profile"
  /\ After("second") = "wrap" /\ After("wrap") = "line"
  /\ After("line") \in {"msys", "stdio"}
  /\ After("msys") = "stdio" /\ After("stdio") = "create"
  /\ After("create") = "assign" /\ After("assign") = "lock" /\ After("lock") = "dac"
  /\ After("dac") = "resume" /\ After("resume") = "wait"
BY DEF After, ConfineOrder

\* A control step of the host, and what the command can do beside it.
Control == Life /\ Told /\ Tokens

LEMMA InitControl == ASSUME Init PROVE Control
BY DEF Init, Control, Life, Told, Tokens, Making, Confine, Ends

LEMMA HostControl == ASSUME ControlType, Control, HostStep PROVE Control'
<1> USE DEF Control, Life, Told, Tokens, Making, Confine, Ends, asked, kit, procs
<1>0. pc \in Stage /\ result \in {"none", "ok", "late", "timeout", "error"}
  BY DEF ControlType
<1>1. CASE Edit
  BY <1>0, <1>1 DEF Edit
<1>2. CASE SkipEdit
  BY <1>0, <1>2 DEF SkipEdit
<1>3. CASE FailEdit
  BY <1>0, <1>3 DEF FailEdit
<1>4. CASE Undo
  BY <1>0, <1>4 DEF Undo
<1>5. CASE Drop
  BY <1>0, <1>5 DEF Drop
<1>6. CASE Release
  BY <1>0, <1>6 DEF Release
<1>7. CASE SetupFails
  BY <1>0, <1>7 DEF SetupFails
<1>8. CASE Install
  BY <1>0, <1>8, AfterIs DEF Install, Advance
<1>9. CASE BlockedProfile
  BY <1>0, <1>9, AfterIs DEF BlockedProfile, Advance
<1>10. CASE ReexecProfile
  BY <1>0, <1>10, AfterIs DEF ReexecProfile, Advance
<1>11. CASE EditsDone
  BY <1>0, <1>11, AfterIs DEF EditsDone, Advance
<1>12. CASE MakeToken
  BY <1>0, <1>12, AfterIs DEF MakeToken, Advance, TokenOf
<1>13. CASE MakeJob
  BY <1>0, <1>13, AfterIs DEF MakeJob, Advance, TokenOf
<1>14. CASE WrapToken
  BY <1>0, <1>14, AfterIs DEF WrapToken, Advance, TokenOf
<1>15. CASE SpawnFails
  BY <1>0, <1>15 DEF SpawnFails
<1>16. CASE ComposeLine
  BY <1>0, <1>16, AfterIs DEF ComposeLine, Advance
<1>17. CASE OpenStdio
  BY <1>0, <1>17, AfterIs DEF OpenStdio, Advance
<1>18. CASE Create
  BY <1>0, <1>18, AfterIs DEF Create, Advance, DoneBefore
<1>19. CASE AssignJob
  BY <1>0, <1>19, AfterIs DEF AssignJob, Confined, DoneBefore, Advance
<1>20. CASE LockToken
  BY <1>0, <1>20, AfterIs DEF LockToken, Confined, DoneBefore, Advance
<1>21. CASE DenyWriteDac
  BY <1>0, <1>21, AfterIs DEF DenyWriteDac, Confined, DoneBefore, Advance
<1>22. CASE Resume
  BY <1>0, <1>22, AfterIs DEF Resume, Confined, DoneBefore, Advance
<1>23. CASE ConfineFails
  BY <1>0, <1>23 DEF ConfineFails
<1>24. CASE ChildEnded
  BY <1>0, <1>24 DEF ChildEnded
<1>25. CASE DeadlinePasses
  BY <1>0, <1>25 DEF DeadlinePasses
<1>26. CASE WaitFails
  BY <1>0, <1>26 DEF WaitFails
<1>27. CASE Reaped
  BY <1>0, <1>27 DEF Reaped
<1>28. CASE NotReaped
  BY <1>0, <1>28 DEF NotReaped
<1>29. CASE ExitCode
  BY <1>0, <1>29 DEF ExitCode
<1>30. CASE AwaitCopies
  BY <1>0, <1>30 DEF AwaitCopies
<1>31. CASE Cancel
  BY <1>0, <1>31 DEF Cancel
<1>32. CASE Join
  BY <1>0, <1>32 DEF Join
<1>33. CASE RestoreLast
  BY <1>0, <1>33 DEF RestoreLast
<1>34. CASE RestoreDone
  BY <1>0, <1>34 DEF RestoreDone, AnswerOf
<1> QED
  BY <1>1, <1>2, <1>3, <1>4, <1>5, <1>6, <1>7, <1>8, <1>9, <1>10, <1>11, <1>12, <1>13, <1>14, <1>15, <1>16, <1>17, <1>18, <1>19, <1>20, <1>21, <1>22, <1>23, <1>24, <1>25, <1>26, <1>27, <1>28, <1>29, <1>30, <1>31, <1>32, <1>33, <1>34
     DEF HostStep

\* The command and its descendant only ever end, or wedge.
LEMMA WorldControl == ASSUME Control, World \/ UNCHANGED vars PROVE Control'
<1>1. /\ UNCHANGED <<pc, result, answer, mode, token, confined>>
      /\ \/ child' = child
         \/ child \in {"running", "wedged"} /\ child' \in {"wedged", "ended"}
  <2>1. ASSUME NEW s \in Stream, Register(s) \/ CopyStep(s) \/ Bytes(s)
        PROVE  UNCHANGED <<pc, result, answer, mode, token, confined, child>>
    BY <2>1 DEF Register, CopyStep, Bytes, asked, kit, procs
  <2>2. CASE Fork \/ Exits \/ JobKills \/ Tick
    BY <2>2 DEF Fork, Exits, JobKills, Tick, asked, kit, procs
  <2>3. CASE UNCHANGED vars
    BY <2>3 DEF vars, asked, kit, procs
  <2> QED  BY <2>1, <2>2, <2>3 DEF World, Rest
<1> QED
  BY <1>1 DEF Control, Life, Told, Tokens, Making, Confine, Ends

-----------------------------------------------------------------------------
(* The denies. *)

LEMMA EachIn ==
  ASSUME NEW objs \in Seq(Object), NEW sid, NEW md, NEW call, NEW S,
         \A i \in 1..Len(objs) :
           [obj |-> objs[i], ace |-> [sid |-> sid, mode |-> md], call |-> call] \in S
  PROVE  Each(objs, sid, md, call) \in Seq(S)
<1>1. Len(objs) \in Nat
  OBVIOUS
<1> QED  BY <1>1 DEF Each

\* Grants and null lists are no denies; only a null list takes an entry away.
LEMMA GrantsLast ==
  ASSUME NEW objs \in Seq(Object), NEW sid \in Sid, NEW call \in Call
  PROVE  Each(objs, sid, "grant", call) \in Seq(Lasting \cap Sparing)
<1>1. ASSUME NEW i \in 1..Len(objs)
      PROVE  [obj |-> objs[i], ace |-> [sid |-> sid, mode |-> "grant"], call |-> call]
                \in Lasting \cap Sparing
  <2>1. objs[i] \in Object
    OBVIOUS
  <2> QED  BY <2>1 DEF Lasting, Sparing, Step, Ace, Everybody
<1> QED  BY <1>1, EachIn

LEMMA DeniesLast ==
  ASSUME NEW objs \in Seq(Object), NEW sid \in Sid,
         NEW call \in {"deny", "secrets", "packageDeny", "packageSecrets", "secret"},
         \A i \in 1..Len(objs) : objs[i] \in Denied
  PROVE  Each(objs, sid, "deny", call) \in Seq(Lasting \cap Sparing)
<1>1. ASSUME NEW i \in 1..Len(objs)
      PROVE  [obj |-> objs[i], ace |-> [sid |-> sid, mode |-> "deny"], call |-> call]
                \in Lasting \cap Sparing
  <2>1. objs[i] \in Object /\ objs[i] \in Denied
    OBVIOUS
  <2> QED  BY <2>1 DEF Lasting, Sparing, Step, Ace, Everybody, Skips, Call
<1> QED  BY <1>1, EachIn

\* Every deny of the two plans is one the preparation cannot do without, and
\* no edit of theirs empties a list (set_named_ace, prefix_apply).
LEMMA PlansLast ==
  /\ FirstPlan \in Seq(Lasting \cap Sparing)
  /\ \A md : SecondPlan(md) \in Seq(Lasting \cap Sparing)
<1>1. /\ WriteGrants \in Seq(Lasting \cap Sparing)
      /\ SessionGrants \in Seq(Lasting \cap Sparing)
      /\ PackageRoots \in Seq(Lasting \cap Sparing)
      /\ PackageReads \in Seq(Lasting \cap Sparing)
  BY GrantsLast, AclAssumption
     DEF WriteGrants, SessionGrants, PackageRoots, PackageReads, Call, Sid
<1>2. <<Helper>> \in Seq(Object) /\ <<Program>> \in Seq(Object)
  BY AclAssumption
<1>3. HelperGrant \in Seq(Lasting \cap Sparing) /\ ProgramGrant \in Seq(Lasting \cap Sparing)
  BY <1>2, GrantsLast DEF HelperGrant, ProgramGrant, Call, Sid
<1>4. /\ DestDenies("world", "deny") \in Seq(Lasting \cap Sparing)
      /\ DestDenies("package", "packageDeny") \in Seq(Lasting \cap Sparing)
      /\ SecretDenies("restricted", "secrets") \in Seq(Lasting \cap Sparing)
      /\ SecretDenies("package", "packageSecrets") \in Seq(Lasting \cap Sparing)
      /\ SecretDenies("package", "secret") \in Seq(Lasting \cap Sparing)
  <2>1. /\ \A i \in 1..Len(DestDenied) : DestDenied[i] \in Denied
        /\ \A i \in 1..Len(Secrets) : Secrets[i] \in Denied
    BY DEF Denied
  <2> QED  BY <2>1, DeniesLast, AclAssumption DEF DestDenies, SecretDenies, Sid
<1>5. FirstPlan \in Seq(Lasting \cap Sparing)
  BY <1>1, <1>4 DEF FirstPlan
<1>6. \A md : SecondPlan(md) \in Seq(Lasting \cap Sparing)
  BY <1>1, <1>3, <1>4 DEF SecondPlan
<1> QED  BY <1>5, <1>6

\* Only the Restricted directories of the object namespace get a null list.
LEMMA EditsSparing == \A stage : Edits(stage) \in Seq(Sparing)
<1>1. FirstPlan \in Seq(Sparing) /\ \A md : SecondPlan(md) \in Seq(Sparing)
  BY PlansLast
<1>2. NullSpaces \in Seq(Sparing)
  <2>1. ASSUME NEW i \in 1..Len(Spaces)
        PROVE  [obj |-> Spaces[i], ace |-> [sid |-> "any", mode |-> "null"],
                call |-> "space"] \in Sparing
    <3>1. Spaces[i] \in Object /\ Spaces[i] \notin Denied
      BY AclAssumption, SpacesApart DEF Denied
    <3> QED  BY <3>1 DEF Sparing, Step, Ace, Call
  <2> QED  BY <2>1, EachIn, AclAssumption DEF NullSpaces
<1>3. PipeGrant \in Seq(Sparing)
  <2>1. <<Device>> \in Seq(Object)
    BY AclAssumption
  <2>2. PipeGrant \in Seq(Lasting \cap Sparing)
    BY <2>1, GrantsLast DEF PipeGrant, Call, Sid
  <2> QED  BY <2>2
<1>4. MsysPlan \in Seq(Sparing)
  BY <1>2, <1>3 DEF MsysPlan
<1> QED  BY <1>1, <1>4 DEF Edits

\* An edit of the sparing kind takes no deny away.
LEMMA EditKeeps ==
  ASSUME ListsOK, Forced, Edit, NEW step \in Lasting, step.ace.mode = "deny", InForce(step)
  PROVE  InForce(step)'
<1> DEFINE head == Head(todo)
<1>1. /\ todo # <<>>
      /\ dacl' = [dacl EXCEPT ![head.obj] = Edited(dacl[head.obj], head.ace)]
  BY DEF Edit
<1>2. head \in Sparing
  BY <1>1 DEF Forced
<1>3. head.obj \in Object /\ (head.ace = Everybody => head.obj \notin Denied)
  BY <1>2 DEF Sparing, Step
<1>4. step.obj \in Object /\ step.obj \in Denied
  BY DEF Lasting, Step
<1>5. CASE step.obj # head.obj
  BY <1>1, <1>3, <1>4, <1>5 DEF InForce, ListsOK
<1>6. CASE step.obj = head.obj
  <2>1. dacl'[step.obj] = dacl[step.obj] \cup {head.ace}
    BY <1>1, <1>3, <1>4, <1>6 DEF Edited, ListsOK
  <2> QED  BY <2>1 DEF InForce
<1> QED  BY <1>5, <1>6

\* The edit of a deny puts it in force.
LEMMA EditForces ==
  ASSUME ListsOK, Edit, NEW step, step = Head(todo), step.ace.mode = "deny"
  PROVE  InForce(step)'
<1>1. /\ todo # <<>>
      /\ dacl' = [dacl EXCEPT ![step.obj] = Edited(dacl[step.obj], step.ace)]
  BY DEF Edit
<1>2. step \in Step
  BY <1>1 DEF ListsOK
<1>3. step.obj \in Object /\ step.ace # Everybody
  BY <1>2 DEF Step, Everybody
<1>4. dacl'[step.obj] = dacl[step.obj] \cup {step.ace}
  BY <1>1, <1>3 DEF Edited, ListsOK
<1> QED  BY <1>4 DEF InForce

\* A step that is left is the first of them or left after it.
LEMMA HeadOrTail ==
  ASSUME NEW j \in 1..Len(todo), todo \in Seq(Step), todo # <<>>, todo' = Tail(todo)
  PROVE  todo[j] = Head(todo) \/ \E k \in 1..Len(todo') : todo'[k] = todo[j]
<1>1. Len(todo) \in Nat /\ Len(todo') = Len(todo) - 1
  OBVIOUS
<1>2. CASE j = 1
  BY <1>2
<1>3. CASE j # 1
  <2>1. j - 1 \in 1..Len(todo') /\ todo'[j - 1] = todo[j]
    BY <1>1, <1>3
  <2> QED  BY <2>1
<1> QED  BY <1>2, <1>3

LEMMA EditPlan ==
  ASSUME ListsOK, Forced, Edit, NEW plan \in Seq(Lasting)
  PROVE  /\ AllInForce(plan) => AllInForce(plan)'
         /\ DueOrInForce(plan) => DueOrInForce(plan)'
<1>0. \A i \in 1..Len(plan) : plan[i] \in Lasting
  OBVIOUS
<1>1. AllInForce(plan) => AllInForce(plan)'
  BY <1>0, EditKeeps DEF AllInForce
<1>2. ASSUME DueOrInForce(plan), NEW i \in 1..Len(plan), plan[i].ace.mode = "deny"
      PROVE  InForce(plan[i])' \/ \E k \in 1..Len(todo') : todo'[k] = plan[i]
  <2>1. CASE InForce(plan[i])
    BY <1>0, <1>2, <2>1, EditKeeps
  <2>2. ASSUME NEW j \in 1..Len(todo), todo[j] = plan[i]
        PROVE  InForce(plan[i])' \/ \E k \in 1..Len(todo') : todo'[k] = plan[i]
    <3>1. todo \in Seq(Step) /\ todo # <<>> /\ todo' = Tail(todo)
      BY DEF ListsOK, Edit
    <3>2. todo[j] = Head(todo) \/ \E k \in 1..Len(todo') : todo'[k] = todo[j]
      BY <3>1, HeadOrTail
    <3>3. CASE todo[j] = Head(todo)
      BY <1>2, <2>2, <3>3, EditForces
    <3> QED  BY <2>2, <3>2, <3>3
  <2> QED  BY <1>2, <2>1, <2>2 DEF DueOrInForce
<1> QED  BY <1>1, <1>2 DEF DueOrInForce

LEMMA EditForced == ASSUME ListsOK, Forced, Edit PROVE Forced'
<1>1. UNCHANGED <<pc, mode>> /\ todo # <<>> /\ todo' = Tail(todo)
  BY DEF Edit, asked
<1>2. todo' \in Seq(Sparing)
  BY <1>1 DEF Forced
<1>3. FirstPlan \in Seq(Lasting) /\ SecondPlan(mode) \in Seq(Lasting)
  BY PlansLast
<1>4. /\ AllInForce(FirstPlan) => AllInForce(FirstPlan)'
      /\ DueOrInForce(FirstPlan) => DueOrInForce(FirstPlan)'
  BY <1>3, EditPlan
<1>5. /\ AllInForce(SecondPlan(mode)) => AllInForce(SecondPlan(mode))'
      /\ DueOrInForce(SecondPlan(mode)) => DueOrInForce(SecondPlan(mode))'
  <2> DEFINE plan == SecondPlan(mode)
  <2>1. plan' = plan
    BY <1>1 DEF SecondPlan
  <2> HIDE DEF plan
  <2>2. ASSUME NEW seq \in Seq(Lasting), seq = plan
        PROVE  /\ AllInForce(seq) => AllInForce(seq)'
               /\ DueOrInForce(seq) => DueOrInForce(seq)'
    BY <2>2, EditPlan
  <2> QED  BY <1>3, <2>1, <2>2 DEF plan, AllInForce, DueOrInForce, InForce
<1> QED  BY <1>1, <1>2, <1>4, <1>5 DEF Forced

LEMMA SkipForced == ASSUME ListsOK, Forced, SkipEdit PROVE Forced'
<1>1. UNCHANGED <<pc, mode, dacl>> /\ todo # <<>> /\ todo' = Tail(todo) /\ Skips(Head(todo))
  BY DEF SkipEdit, asked
<1>2. todo' \in Seq(Sparing)
  BY <1>1 DEF Forced
<1>3. ASSUME NEW plan \in Seq(Lasting)
      PROVE  DueOrInForce(plan) => DueOrInForce(plan)'
  <2>1. ASSUME NEW i \in 1..Len(plan), plan[i].ace.mode = "deny",
               NEW j \in 1..Len(todo), todo[j] = plan[i]
        PROVE  \E k \in 1..Len(todo') : todo'[k] = plan[i]
    <3>1. plan[i] # Head(todo)
      BY <1>1, <2>1 DEF Lasting
    <3> QED  BY <1>1, <2>1, <3>1, HeadOrTail DEF ListsOK
  <2> QED  BY <1>1, <2>1 DEF DueOrInForce, InForce
<1>4. FirstPlan \in Seq(Lasting) /\ SecondPlan(mode) \in Seq(Lasting)
  BY PlansLast
<1>5. /\ DueOrInForce(FirstPlan) => DueOrInForce(FirstPlan)'
      /\ AllInForce(FirstPlan) => AllInForce(FirstPlan)'
  BY <1>1, <1>3, <1>4 DEF AllInForce, InForce
<1>6. /\ DueOrInForce(SecondPlan(mode)) => DueOrInForce(SecondPlan(mode))'
      /\ AllInForce(SecondPlan(mode)) => AllInForce(SecondPlan(mode))'
  <2> DEFINE plan == SecondPlan(mode)
  <2>1. plan' = plan
    BY <1>1 DEF SecondPlan
  <2> HIDE DEF plan
  <2>2. ASSUME NEW seq \in Seq(Lasting), seq = plan
        PROVE  DueOrInForce(seq) => DueOrInForce(seq)'
    BY <1>3
  <2> QED  BY <1>1, <1>4, <2>1, <2>2 DEF plan, AllInForce, DueOrInForce, InForce
<1> QED  BY <1>1, <1>2, <1>5, <1>6 DEF Forced

\* A stage of edits that is over leaves every deny of its plan in force, and
\* the next stage of edits starts with all of its own.
LEMMA NextStageForced ==
  ASSUME Forced, Tokens, Advance, mode \in Mode, UNCHANGED <<dacl, mode>>,
         pc \in {"first", "second", "msys"} => todo = <<>>,
         pc \in Making \cup Confine, pc \notin {"undo", "drop"}
  PROVE  Forced'
<1>1. pc' = After(pc) /\ todo' = Edits(pc')
  BY DEF Advance
<1>2. todo' \in Seq(Sparing)
  BY <1>1, EditsSparing
<1>3. ASSUME NEW plan, todo = <<>>, DueOrInForce(plan) PROVE AllInForce(plan)
  <2>1. ~ \E j \in 1..Len(todo) : TRUE
    BY <1>3
  <2> QED  BY <1>3, <2>1 DEF DueOrInForce, AllInForce
<1>4. /\ AllInForce(FirstPlan) => AllInForce(FirstPlan)'
      /\ AllInForce(SecondPlan(mode)) => AllInForce(SecondPlan(mode))'
  BY DEF AllInForce, InForce, SecondPlan
<1>5. pc' = "first" => DueOrInForce(FirstPlan)'
  BY <1>1 DEF Edits, DueOrInForce
<1>6. pc' = "second" => DueOrInForce(SecondPlan(mode))'
  BY <1>1 DEF Edits, DueOrInForce
<1>7. pc' \in Launch \cup {"token", "job", "second"} \/ (pc' = "profile" /\ mode' = "reexec")
        => AllInForce(FirstPlan)'
  BY <1>1, <1>3, <1>4, AfterIs DEF Forced, Tokens, Launch, Making, Confine, Mode
<1>8. pc' \in Launch /\ mode' # "workspace" => AllInForce(SecondPlan(mode))'
  BY <1>1, <1>3, <1>4, AfterIs DEF Forced, Tokens, Launch, Making, Confine
<1> QED  BY <1>2, <1>5, <1>6, <1>7, <1>8 DEF Forced

\* A step that changes neither a list nor a mode, and stays where it is, goes
\* from the wait to the reap, or leaves the command to its end.
LEMMA SameForced ==
  ASSUME Forced, UNCHANGED <<mode, todo>>,
         \/ UNCHANGED <<dacl, pc>>
         \/ UNCHANGED dacl /\ pc = "wait" /\ pc' = "reap"
         \/ pc' \in Ends \cup {"code", "drain", "finish", "join", "restore"}
  PROVE  Forced'
BY DEF Forced, AllInForce, DueOrInForce, InForce, SecondPlan, Launch, Ends

LEMMA HostForced ==
  ASSUME ListsOK, mode \in Mode, Tokens, Forced, HostStep
  PROVE  Forced'
<1>1. CASE Edit  BY <1>1, EditForced
<1>2. CASE SkipEdit  BY <1>2, SkipForced
<1>3. CASE \/ Install \/ BlockedProfile \/ ReexecProfile \/ EditsDone \/ MakeToken \/ MakeJob
           \/ WrapToken \/ ComposeLine \/ OpenStdio \/ Create
           \/ AssignJob \/ LockToken \/ DenyWriteDac \/ Resume
  <2>1. /\ Advance /\ UNCHANGED <<dacl, mode>>
        /\ pc \in {"first", "second", "msys"} => todo = <<>>
        /\ pc \in Making \cup Confine /\ pc \notin {"undo", "drop"}
    BY <1>3
    DEF Install, BlockedProfile, ReexecProfile, EditsDone, MakeToken, MakeJob, WrapToken,
        ComposeLine, OpenStdio, Create, AssignJob, LockToken, DenyWriteDac, Resume, Confined,
        asked, Making, Confine
  <2> QED  BY <2>1, NextStageForced
<1>4. CASE \/ FailEdit \/ Release \/ SetupFails \/ SpawnFails \/ ConfineFails \/ ChildEnded
           \/ DeadlinePasses \/ WaitFails \/ Reaped \/ NotReaped \/ ExitCode \/ AwaitCopies
           \/ Cancel \/ Join \/ RestoreDone \/ Undo \/ Drop \/ RestoreLast
  <2>1. /\ UNCHANGED <<mode, todo>>
        /\ \/ UNCHANGED <<dacl, pc>>
           \/ UNCHANGED dacl /\ pc = "wait" /\ pc' = "reap"
           \/ pc' \in Ends \cup {"code", "drain", "finish", "join", "restore"}
    BY <1>4
    DEF FailEdit, Release, SetupFails, SpawnFails, ConfineFails, ChildEnded, DeadlinePasses,
        WaitFails, Reaped, NotReaped, ExitCode, AwaitCopies, Cancel, Join, RestoreDone, Undo,
        Drop, RestoreLast, asked, acls, Ends
  <2> QED  BY <2>1, SameForced
<1> QED  BY <1>1, <1>2, <1>3, <1>4 DEF HostStep

LEMMA WorldForced == ASSUME Forced, World \/ UNCHANGED vars PROVE Forced'
<1>1. UNCHANGED <<mode, todo, dacl, pc>>
  <2>1. ASSUME NEW s \in Stream, Register(s) \/ CopyStep(s) \/ Bytes(s)
        PROVE  UNCHANGED <<mode, todo, dacl, pc>>
    BY <2>1 DEF Register, CopyStep, Bytes, asked, acls
  <2>2. CASE Fork \/ Exits \/ JobKills \/ Tick
    BY <2>2 DEF Fork, Exits, JobKills, Tick, asked, acls
  <2>3. CASE UNCHANGED vars
    BY <2>3 DEF vars, asked, acls
  <2> QED  BY <2>1, <2>2, <2>3 DEF World, Rest
<1> QED  BY <1>1, SameForced

-----------------------------------------------------------------------------
(* What a run promises. *)

RunInv == TypeOK /\ Control /\ Forced

\* Where the command is, what it has and which denies are in force, at every
\* stage of the host (apply_jail, spawn_prepared_child).
THEOREM RunInvCorrect == Spec => []RunInv
<1>1. Init => RunInv
  <2>1. Init => Forced
    BY EditsSparing
    DEF Init, Forced, Edits, DueOrInForce, AllInForce, Launch
  <2> QED  BY <2>1, InitType, InitControl DEF RunInv
<1>2. TypeOK /\ TypeOK' /\ RunInv /\ [Next]_vars => RunInv'
  <2> SUFFICES ASSUME TypeOK, TypeOK', RunInv, [Next]_vars PROVE RunInv'
    OBVIOUS
  <2>1. ControlType /\ ListsOK /\ mode \in Mode /\ Control /\ Tokens /\ Forced
    BY TypeParts DEF RunInv, ListsType, Control, ControlType
  <2>2. CASE HostStep
    BY <2>1, <2>2, HostControl, HostForced DEF RunInv
  <2>3. CASE World \/ UNCHANGED vars
    BY <2>1, <2>3, WorldControl, WorldForced DEF RunInv
  <2> QED  BY <2>2, <2>3 DEF Next
<1> QED  BY <1>1, <1>2, TypeCorrect, PTL DEF Spec

\* A deadline that closed the job is told, a run that says it finished leaves
\* no command behind, and none stays suspended, for every policy
\* (spawn_prepared, combine_spawn_restore).
THEOREM DeadlineCorrect == Spec => []DeadlineIsTold
<1>1. RunInv => DeadlineIsTold
  BY DEF RunInv, Control, Life, Told, DeadlineIsTold
<1> QED  BY <1>1, RunInvCorrect, PTL

\* Every deny of a run is one of the two plans.
LEMMA DeniesArePlanned ==
  ASSUME AllInForce(FirstPlan), mode # "workspace" => AllInForce(SecondPlan(mode))
  PROVE  \A step \in Denies : step.ace \in dacl[step.obj]
<1>1. CASE mode = "workspace"
  BY <1>1, PlansLast DEF Denies, AllInForce, InForce
<1>2. CASE mode # "workspace"
  <2> DEFINE second == SecondPlan(mode)
             plan == FirstPlan \o second
  <2>1. FirstPlan \in Seq(Step) /\ second \in Seq(Step)
    BY PlansLast DEF Lasting
  <2>2. AllInForce(second)
    BY <1>2
  <2>3. Denies = {plan[i] : i \in {j \in DOMAIN plan : plan[j].ace.mode = "deny"}}
    BY <1>2 DEF Denies
  <2> HIDE DEF second
  <2>4. ASSUME NEW i \in DOMAIN plan
        PROVE  \/ \E j \in 1..Len(FirstPlan) : plan[i] = FirstPlan[j]
               \/ \E j \in 1..Len(second) : plan[i] = second[j]
    <3>1. Len(FirstPlan) \in Nat /\ Len(second) \in Nat
      BY <2>1
    <3>2. i \in 1..(Len(FirstPlan) + Len(second))
      BY <2>1
    <3>3. CASE i <= Len(FirstPlan)
      <4>1. i \in 1..Len(FirstPlan) /\ plan[i] = FirstPlan[i]
        BY <2>1, <3>1, <3>2, <3>3
      <4> QED  BY <4>1
    <3>4. CASE i > Len(FirstPlan)
      <4>1. /\ i - Len(FirstPlan) \in 1..Len(second)
            /\ plan[i] = second[i - Len(FirstPlan)]
        BY <2>1, <3>1, <3>2, <3>4
      <4> QED  BY <4>1
    <3> QED  BY <3>1, <3>2, <3>3, <3>4
  <2>5. ASSUME NEW i \in DOMAIN plan, plan[i].ace.mode = "deny"
        PROVE  plan[i].ace \in dacl[plan[i].obj]
    BY <2>2, <2>4, <2>5 DEF AllInForce, InForce
  <2> QED  BY <2>3, <2>5
<1> QED  BY <1>1, <1>2

\* A command that runs does so in the job, under the token of its mode, with
\* its token and its own access locked, and every deny of its policy in force,
\* whichever edits failed on the way (spawn_prepared_child, apply_jail).
THEOREM ConfinedCorrect == Spec => []RunsConfined
<1>1. RunInv => RunsConfined
  <2> SUFFICES ASSUME RunInv, child = "running" PROVE RunsConfined
    BY DEF RunsConfined
  <2>1. Life /\ Tokens /\ Forced /\ pc \in Stage
    BY TypeParts DEF RunInv, Control, ControlType
  <2>2. \/ pc \in {"wait", "reap"} /\ confined = Confine
        \/ /\ pc \in {"restore", "release", "over"} /\ confined = Confine
           /\ result \in {"error", "timeout"}
    BY <2>1 DEF Life, Making, Confine, Stage
  <2>3. token = TokenOf(mode)
    BY <2>1 DEF Tokens
  <2>4. pc \in {"wait", "reap"} => \A step \in Denies : step.ace \in dacl[step.obj]
    BY <2>1, DeniesArePlanned DEF Forced, Launch
  <2> QED  BY <2>2, <2>3, <2>4 DEF RunsConfined, TokenOf
<1> QED  BY <1>1, RunInvCorrect, PTL
=============================================================================
