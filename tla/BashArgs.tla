----------------------------- MODULE BashArgs -----------------------------
(***************************************************************************)
(* mod.rs, with_bash_noprofile: a command line is rewritten before it      *)
(* starts.  Assignments of denied names are dropped from the first env,    *)
(* and bash is told to read no start-up files.                             *)
(*                                                                         *)
(* Simplifications: the words in the operand of env -S stand unquoted, and *)
(* any other quoted line of words has no = in it.                          *)
(***************************************************************************)
EXTENDS CommandText, ChildEnv

NoProfile == Bare("--", "noprofile")
NoRc      == Bare("--", "norc")

IsBash(w) == Named(w, {"bash"})

IsEnvFlag(w) == w = Dash \/ (w.t = "opt" /\ w.dash # "/")

Upto(s, k) == SubSeq(s, 1, IF k < Len(s) THEN k ELSE Len(s))

-----------------------------------------------------------------------------
(* Dropping assignments. *)

RECURSIVE DropSplit(_), DropArgs(_, _), BashOperand(_, _), WrapperSkip(_, _, _, _)

\* drop_denied_from_split_string
DropSplit(ws) ==
  IF ws = <<>> \/ Head(ws) \in {Dash, DashDash} THEN ws
  ELSE LET w == Head(ws) IN
    CASE IsEnvFlag(w) -> Upto(ws, EnvStep(w)) \o DropSplit(After(ws, EnvStep(w)))
      [] w.t = "assign" -> (IF w.n \in DeniedNames THEN <<>> ELSE <<w>>) \o DropSplit(Tail(ws))
      [] OTHER -> ws

SplitDropped(t) == Line(DropSplit(Pieces(t)))

\* Mutant: an operand with no words left is removed.
RemoveEmpty(args) ==
  LET w == Head(args)
      new == SplitDropped(args[2])
  IN IF w.t = "opt" /\ w.n \in EnvSplit /\ w.glue = "none" /\ Len(args) > 1
     THEN <<w>> \o (IF new = Line(<<>>) THEN <<>> ELSE <<new>>) \o After(args, 2) ELSE args

\* rewrite_denied_in_env_s
RewriteS(args) ==
  LET w == Head(args)
  IN CASE ~(w.t = "opt" /\ w.n \in EnvSplit) -> args
       [] w.t = "opt" /\ w.n \in EnvSplit /\ w.glue # "none" -> [args EXCEPT ![1].v = SplitDropped(@)]
       [] OTHER -> IF Len(args) > 1 THEN [args EXCEPT ![2] = SplitDropped(@)] ELSE args

\* drop_denied_env_assignments
DropArgs(args, done) ==
  IF args = <<>> THEN args
  ELSE LET w == Head(args) IN
    CASE ~done /\ w = DashDash -> <<w>> \o DropArgs(Tail(args), TRUE)
      [] ~done /\ IsEnvFlag(w) ->
           LET new == RewriteS(args)
           IN Upto(new, EnvStep(w)) \o DropArgs(After(new, EnvStep(w)), FALSE)
      [] w.t = "assign" ->
           (IF w.n \in DeniedNames THEN <<>> ELSE <<w>>) \o DropArgs(Tail(args), done)
      [] w.t = "opt" /\ w.glue = "=" /\ done -> <<w>> \o DropArgs(Tail(args), done)
      [] OTHER -> args

-----------------------------------------------------------------------------
(* Finding bash.  An index is the place of bash in args, if it is found. *)

\* first_env_bash_operand, from i on
BashOperand(args, i) ==
  IF i > Len(args) THEN {}
  ELSE LET w == args[i] IN
    CASE w = DashDash -> {j \in {i + 1} \intersect (1..Len(args)) : IsBash(args[j])}
      [] IsEnvFlag(w) -> BashOperand(args, i + EnvStep(w))
      [] w.t = "assign" -> BashOperand(args, i + 1)
      [] OTHER -> IF IsBash(w) THEN {i} ELSE {}

Wrappers == {"timeout", "nohup", "nice"}

WrapperValued(kind) ==
  CASE kind = "timeout" -> {"s", "k", "signal", "kill-after"}
    [] kind = "nice" -> {"n", "adjustment"}
    [] OTHER -> {}

WrapperStep(kind, w) ==
  IF w.t = "opt" /\ w.n \in WrapperValued(kind) /\ w.glue = "none" THEN 2 ELSE 1

\* skip_wrapper_prefix: the index of the command operand.
WrapperSkip(kind, args, i, st) ==
  CASE i > Len(args) -> i
    [] i <= Len(args) /\ ~st.done /\ args[i] = DashDash ->
         WrapperSkip(kind, args, i + 1, [st EXCEPT !.done = TRUE])
    [] i <= Len(args) /\ ~st.done /\ args[i] # DashDash /\ IsEnvFlag(args[i]) ->
         WrapperSkip(kind, args, i + WrapperStep(kind, args[i]), st)
    [] OTHER -> IF st.duration THEN WrapperSkip(kind, args, i + 1, [st EXCEPT !.duration = FALSE]) ELSE i

\* first_wrapper_bash_operand
WrapperBash(kind, args) ==
  LET i == WrapperSkip(kind, args, 1, [done |-> FALSE, duration |-> kind = "timeout"])
  IN CASE i > Len(args) -> {}
       [] i <= Len(args) /\ IsBash(args[i]) -> {i}
       [] i <= Len(args) /\ IsEnv(args[i]) -> BashOperand(args, i + 1)
       [] OTHER -> {}

\* insert_bash_noprofile, after the first k of args
Insert(args, k) ==
  LET behind(s, w) == w \in ToSet(After(s, k))
      one == IF behind(args, NoProfile) THEN args ELSE Upto(args, k) \o <<NoProfile>> \o After(args, k)
      at == CHOOSE i \in (k + 1)..Len(one) : one[i] = NoProfile /\ \A j \in (k + 1)..(i - 1) : one[j] # NoProfile
  IN IF behind(args, NoRc) THEN one ELSE Upto(one, at) \o <<NoRc>> \o After(one, at)

\* The first env among args, if there is one.
FirstEnv(args) == {i \in 1..Len(args) : IsEnv(args[i]) /\ \A j \in 1..(i - 1) : ~IsEnv(args[j])}

Dropped(program, args) ==
  LET env == IF IsEnv(program) THEN {0} ELSE FirstEnv(args)
      i == CHOOSE k \in env : TRUE
  IN IF env = {} THEN args ELSE Upto(args, i) \o DropArgs(After(args, i), FALSE)

\* Mutant: only bash itself is looked for.
OwnBash(program, args) == IF IsBash(program) THEN {0} ELSE {}

\* The options of bash start after this index of args.
BashAt(program, args) ==
  LET env == IF IsEnv(program) THEN BashOperand(args, 1) ELSE {}
      wrapper == IF Named(program, Wrappers) THEN WrapperBash(program.n, args) ELSE {}
  IN CASE IsBash(program) -> {0}
       [] ~IsBash(program) /\ env \union wrapper # {} -> env \union wrapper
       [] OTHER -> UNION {BashOperand(args, i + 1) : i \in FirstEnv(args)}

\* with_bash_noprofile
Rewritten(cmd) ==
  LET args == Dropped(Head(cmd), Tail(cmd))
      at == BashAt(Head(cmd), args)
  IN <<Head(cmd)>> \o IF at = {} THEN args ELSE Insert(args, CHOOSE k \in at : TRUE)
=============================================================================
