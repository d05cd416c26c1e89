----------------------------- MODULE RunCommand -----------------------------
(***************************************************************************)
(* A call of RunCall with the scan and the rewriting of the code, and what *)
(* env, wrappers and bash would make of its command line.  The values of   *)
(* the parameters are ArgvRefused <- Refused and WithBashNoprofile <-      *)
(* Rewritten.                                                              *)
(***************************************************************************)
EXTENDS RunCall, CommandScan, BashArgs

-----------------------------------------------------------------------------
(* What env and the other programs would make of a command line. *)

RECURSIVE EnvRuns(_, _), WrapperRuns(_, _)

\* The names that env sets, and the command it runs.
EnvRuns(args, options) ==
  IF args = <<>> THEN [set |-> {}, cmd |-> <<>>]
  ELSE LET w == Head(args)
           rest == After(args, EnvStep(w))
           flag == w.t = "opt" /\ w.dash # "/"
       IN CASE options /\ w \in {Dash, DashDash} -> EnvRuns(Tail(args), FALSE)
            [] options /\ flag /\ w.n \in EnvSplit ->
                 EnvRuns(FlattenSeq([k \in 1..Cardinality(EnvOperand(w, Next1(args, 1))) |->
                           Pieces(CHOOSE v \in EnvOperand(w, Next1(args, 1)) : TRUE)]) \o rest, TRUE)
            [] options /\ flag /\ w.n \notin EnvSplit -> EnvRuns(rest, TRUE)
            [] w.t = "assign" ->
                 LET more == EnvRuns(Tail(args), FALSE) IN [more EXCEPT !.set = @ \union {w.n}]
            [] OTHER -> [set |-> {}, cmd |-> args]

\* What a wrapper runs: the words after its options, and after the duration of timeout.
WrapperRuns(kind, args) ==
  LET operands(s) == IF kind # "timeout" THEN s
                     ELSE IF s # <<>> /\ Head(s).t = "name" THEN Tail(s) ELSE <<>>
  IN CASE args = <<>> -> args
       [] args # <<>> /\ Head(args) = DashDash -> operands(Tail(args))
       [] args # <<>> /\ Head(args).t = "opt" /\ Head(args).dash # "/" -> WrapperRuns(kind, After(args, WrapperStep(kind, Head(args))))
       [] OTHER -> operands(args)

\* The program that a command line comes down to: through one wrapper, then one env.
Runs(cmd) ==
  CASE cmd = <<>> -> cmd
    [] cmd # <<>> /\ Named(Head(cmd), Wrappers) -> LET inner == WrapperRuns(Head(cmd).n, Tail(cmd)) IN
         IF inner # <<>> /\ IsEnv(Head(inner)) THEN EnvRuns(Tail(inner), TRUE).cmd ELSE inner
    [] cmd # <<>> /\ IsEnv(Head(cmd)) -> EnvRuns(Tail(cmd), TRUE).cmd
    [] OTHER -> cmd

-----------------------------------------------------------------------------
(* Properties. *)

\* A call whose arguments were taken.
Taken == stage = "roots" /\ Cmd # <<>>

\* The command line is checked before it is rewritten and again before the child
\* starts: what the first check and a report let pass, the second lets pass.
ChecksAgree ==
  Taken /\ ~Refused(Cmd) => ~Refused(Rewritten(Cmd))

\* with_bash_noprofile: when a command line comes down to bash, without a -S,
\* without assignments behind a -- and without an env that is a wrapper's value,
\* and has neither flag of its own, it still comes down to bash, which is given
\* both before anything else.
BashReadsNoFiles ==
  /\ Taken /\ IsBash(Head(Append(Runs(Cmd), Dash)))
  /\ \A i \in 1..Len(Cmd) :
       /\ Cmd[i] \notin {NoProfile, NoRc} /\ ~(Cmd[i].t = "opt" /\ Cmd[i].n \in EnvSplit)
       /\ Cmd[i] = DashDash => i = Len(Cmd) \/ Cmd[i + 1].t # "assign"
       /\ WrapperStep(Head(Cmd).n, Cmd[i]) = 2 => i = Len(Cmd) \/ ~IsEnv(Cmd[i + 1])
  => LET runs == Runs(Rewritten(Cmd)) IN runs # <<>> /\ IsPrefix(<<NoProfile, NoRc>>, Tail(runs))

=============================================================================
