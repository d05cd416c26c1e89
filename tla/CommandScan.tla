---------------------------- MODULE CommandScan ----------------------------
(***************************************************************************)
(* deny.rs, check_command_argv: which command lines are refused because a  *)
(* word, or a command line inside a word, names a denied file.             *)
(*                                                                         *)
(* Simplifications:                                                        *)
(* - a denied file has one exact name, so a longer text around the name is *)
(*   not itself denied;                                                    *)
(* - a body glued to an option is the whole value: a cluster ending in c   *)
(*   is not looked for in the letters of other options;                    *)
(* - of several reasons to refuse, all are given where the code stops at   *)
(*   the first.                                                            *)
(***************************************************************************)
EXTENDS CommandText

CONSTANTS
  Denied,  \* names of denied files
  Dotted   \* names that start with a dot, a slash or a tilde

-----------------------------------------------------------------------------
(* What one word says. *)

Dest(w) == IF Named(w, Denied) THEN {"denied"} ELSE {}

AttachedDest(w) ==
  IF w.t = "opt" /\ w.dash # "/" /\
     (\/ w.glue = "="
      \/ w.glue = "tight" /\ w.dash = "-" /\ Named(w.v, Dotted))
  THEN {w.v} ELSE {}

AssignedDest(w) == IF w.t = "assign" THEN {w.v} ELSE {}

Clusters == {"c", "lc", "ec"}

ShellBody(w, next) ==
  IF w.t = "opt" /\ w.dash = "-" /\ w.n \in Clusters
  THEN CASE w.glue = "none" -> next
         [] w.glue = "tight" -> {w.v}
         [] OTHER -> {}
  ELSE {}

IsCmd(w) == Named(w, {"cmd"})
IsPowershell(w) == Named(w, {"pwsh"})

\* /c and /k
CmdBody(w, next) ==
  IF w.t = "opt" /\ w.dash = "/" /\ w.n \in {"c", "k"}
  THEN IF w.glue = "none" THEN next ELSE {w.v}
  ELSE {}

CommandNames   == {"c", "Command", "cwa"}
EncodedNames   == {"e", "ec", "EncodedCommand"}
EncodedArgName == {"ea", "EncodedArguments"}
FileNames      == {"f", "File"}

\* The value of a PowerShell switch that is one of names.
Switch(w, names, next) ==
  IF w.t = "opt" /\ w.n \in names
  THEN CASE w.glue = "none" -> next
         [] w.glue = ":" -> {w.v}
         [] OTHER -> {}
  ELSE {}

-----------------------------------------------------------------------------
(* Splitting a command text. *)

RECURSIVE Words(_)

\* command_path_tokens: the words, and what is in quotes, at any depth.
Words(t) ==
  CASE t.t = "line" -> {t} \union UNION {Words(w) : w \in ToSet(t.ws)}
    [] t.t \in {"call", "colon"} -> {t, t.v}
    [] Valued(t) /\ t.v.t = "line" ->
         {t, [t EXCEPT !.v = Head(t.v.ws)]} \union UNION {Words(w) : w \in ToSet(Tail(t.v.ws))}
    [] OTHER -> {t}

\* command_string_tokens of each of peel_shell_parts.
Parts(t) ==
  LET ws == Pieces(t)
      cut == {i \in 1..Len(ws) : ws[i].t \in {"sep", "call"}} \union {0, Len(ws) + 1}
  IN {SubSeq(ws, i + 1, j - 1) : <<i, j>> \in
        {ij \in cut \X cut : ij[1] < ij[2] /\ \A k \in cut : k <= ij[1] \/ k >= ij[2]}}

-----------------------------------------------------------------------------
(* The scans.  Each is the set of its reasons to refuse. *)

Peeled(w) ==
  IF w.t = "opt" THEN UNION {Dest(v) : v \in AttachedDest(w)}
  ELSE Dest(w) \union UNION {Dest(v) : v \in AssignedDest(w)}

StdinDash(t) == IF t = Dash THEN {"stdin"} ELSE {}

RECURSIVE CommandDests(_), StringEnv(_), EnvFlags(_, _), Remaining(_, _)

\* Mutant: what env is given in a string are words only.
WordsOnly(t) == CommandDests(t)

SplitString(t) ==
  CommandDests(t) \union EnvFlags(Blanks(t), TRUE)

Encoded(p) == IF p.t = "payload" THEN CommandDests(p.v) ELSE {"payload"}

\* continue_env_after_operand: on with the next env, if there is one.
NextEnv(args) ==
  LET at == {i \in 1..Len(args) : IsEnv(args[i])}
  IN IF at = {} THEN {} ELSE EnvFlags(After(args, CHOOSE i \in at : \A j \in at : i <= j), FALSE)

EnvFlags(args, assigned) ==
  IF args = <<>> THEN {}
  ELSE LET w == Head(args) IN
    CASE w \in {Dash, DashDash} -> NextEnv(Tail(args))
      [] w.t = "assign" ->
           (IF assigned THEN Dest(w.v) ELSE {}) \union EnvFlags(Tail(args), assigned)
      [] w.t = "opt" /\ w.dash # "/" ->
           UNION {IF w.n \in EnvSplit THEN SplitString(v)
                  ELSE IF w.n \in EnvFile THEN Dest(v) ELSE {} :
                    v \in IF EnvValued(w) THEN EnvOperand(w, Next1(args, 1)) ELSE {}}
           \union EnvFlags(After(args, EnvStep(w)), assigned)
      [] OTHER -> NextEnv(args)

\* The first switch that carries a script wins.
Remaining(program, rest) ==
  LET at == {i \in 1..Len(rest) :
               IF IsCmd(program) THEN CmdBody(rest[i], Next1(rest, i)) # {}
               ELSE Switch(rest[i], CommandNames \union EncodedNames \union EncodedArgName
                                    \union FileNames, Next1(rest, i)) # {}}
      i == CHOOSE k \in at : \A j \in at : k <= j
      val(names) == Switch(rest[i], names, Next1(rest, i))
  IN CASE at = {} -> IF IsPowershell(program) /\ Dash \in ToSet(rest) THEN {"stdin"} ELSE {}
       [] at # {} /\ IsCmd(program) -> UNION {CommandDests(b) : b \in CmdBody(rest[i], Next1(rest, i))}
       [] OTHER -> UNION {Encoded(p) : p \in val(EncodedNames \union EncodedArgName)}
                   \union UNION {StdinDash(f) \union Dest(f) : f \in val(FileNames)}
                   \union UNION {StdinDash(b) \union CommandDests(b) : b \in val(CommandNames)}

StringEnv(t) ==
  UNION {UNION {LET w == part[i] IN
                (IF IsEnv(w) THEN EnvFlags(After(part, i), FALSE) ELSE {})
                \union UNION {StringEnv(b) : b \in ShellBody(w, Next1(part, i))}
                \union (IF IsCmd(w) \/ IsPowershell(w) THEN Remaining(w, After(part, i)) ELSE {}) :
                  i \in 1..Len(part)} : part \in Parts(t)}

CommandDests(t) == UNION {Peeled(w) : w \in Words(t)} \union StringEnv(t)

\* check_command_argv
Argv(cmd) ==
  UNION {LET w == cmd[i] IN
         Peeled(w)
         \union UNION {CommandDests(b) : b \in ShellBody(w, Next1(cmd, i))}
         \union (IF IsCmd(w) \/ IsPowershell(w) THEN Remaining(w, After(cmd, i)) ELSE {})
         \union (IF IsEnv(w) THEN EnvFlags(After(cmd, i), FALSE) ELSE {}) :
           i \in 1..Len(cmd)}

Refused(cmd) == Argv(cmd) # {}
=============================================================================
