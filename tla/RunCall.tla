------------------------------ MODULE RunCall ------------------------------
(***************************************************************************)
(* main.rs, workpen run and workpen policy: from the arguments of one call *)
(* to its exit status, with the child's environment.  What the scan of a   *)
(* command line refuses and how one is rewritten are parameters here, and  *)
(* CommandScan and BashArgs in RunCommand.                                 *)
(*                                                                         *)
(* Simplifications:                                                        *)
(* - a directory argument stands for what resolving it answers;            *)
(* - a flag without its value, or with one that does not parse, is usage   *)
(*   like any unknown flag;                                                *)
(* - the jail's own work between start and result is RunChild,             *)
(*   OutputForward and DestHide.                                           *)
(***************************************************************************)
EXTENDS CommandText, ChildEnv

CONSTANTS
  ArgvRefused(_),        \* check_command_argv refuses a command line
  WithBashNoprofile(_),  \* the command line with_bash_noprofile makes of one
  Vocabulary,  \* texts that are given as words
  Callers,     \* subcommand, system and environment of the parent
  ChildCodes,  \* exit statuses of a child
  MaxWords     \* bound on the words after no, one, two.. options

ASSUME CallAssumption ==
  /\ \A c \in Callers : c.parent \subseteq EnvNames
  /\ ChildCodes \subseteq Int

VARIABLES
  sub,    \* run or policy, the system and the parent's environment
  given,  \* flags, --env names and directories of this call
  words,  \* the arguments after them
  stage,  \* what is done next
  child,  \* command line, environment and result of the child
  told,   \* what a report says of the command
  exit    \* exit status, NoExit before

vars == <<sub, given, words, stage, child, told, exit>>

NoExit == -1
NoChild == [argv |-> <<>>, env |-> {}, result |-> "none", code |-> NoExit]

Flags == {"timeout", "tty", "env-clear", "policy", "net", "json"}
RunOnly == {"timeout", "tty", "env-clear", "policy"}
DirKinds == <<"root", "extra", "write", "read">>

Help == Bare("--", "help")
Version == Bare("--", "version")

\* The command, which may follow --.
Cmd == IF words # <<>> /\ Head(words) = DashDash THEN Tail(words) ELSE words

Report == sub.name = "policy" \/ "policy" \in given.flags

Leave(code) == /\ stage' = "out" /\ exit' = code
               /\ UNCHANGED <<sub, given, words, child>>
Goto(s) == stage' = s /\ UNCHANGED <<sub, given, words, child, exit>>

-----------------------------------------------------------------------------
(* One call. *)

Init ==
  /\ sub \in Callers
  /\ given = [flags |-> {}, asked |-> {}, dirs |-> {}]
  /\ words = <<>> /\ stage = "args" /\ child = NoChild
  /\ told = "nothing" /\ exit = NoExit

Options(g) == Cardinality(g.flags) + Cardinality(g.asked) + Cardinality(g.dirs)
Bounded(g, w) == Options(g) < Len(MaxWords) /\ Len(w) <= MaxWords[Options(g) + 1]

Give(g, w) ==
  /\ stage = "args" /\ Bounded(g, w)
  /\ given' = g /\ words' = w
  /\ UNCHANGED <<sub, stage, child, told, exit>>

\* Flags count before the command only.
Flag(f) == words = <<>> /\ Give([given EXCEPT !.flags = @ \union {f}], words)

\* --env NAME or --env NAME=value
Ask(n, value) == words = <<>> /\ Give([given EXCEPT !.asked = @ \union {[n |-> n, value |-> value]}], words)

Dir(kind, answer) ==
  words = <<>> /\ Give([given EXCEPT !.dirs = @ \union {[kind |-> kind, answer |-> answer]}], words)

Say(w) == Give(given, Append(words, w))

-----------------------------------------------------------------------------
(* cmd_run, up to the child. *)

HelpAsked ==
  \E i \in 1..Len(words) : words[i] = Help /\ \A j \in 1..i : words[j] # DashDash

UsageFlag == words # <<>> /\ Head(words).t = "opt" /\ Head(words).dash # "/"

NotTaken == sub.name = "policy" /\ (given.flags \intersect RunOnly # {} \/ given.asked # {})

\* parse_roots, wants_help, peel_run_flags
Parse ==
  /\ stage = "args"
  /\ IF HelpAsked THEN Leave(0)
     ELSE IF NotTaken \/ \E a \in given.asked : ~a.value /\ a.n \notin sub.parent THEN Leave(2)
     ELSE IF UsageFlag THEN Leave(IF Head(words) = Version THEN 0 ELSE 2)
     ELSE Goto("roots")
  /\ UNCHANGED told

\* The status for a directory that is not taken.
DirCode(d) ==
  CASE d.answer = "home" -> 3
    [] d.answer = "fsroot" /\ d.kind # "root" -> 3
    [] d.answer = "inside" -> 3
    [] OTHER -> 2

\* Roots, extra roots, --write and --read in this order; then a --read that is
\* inside a writable directory.
FirstBad ==
  LET bad == {d \in given.dirs : d.answer # "ok"}
      place(d) == IF d.answer = "inside" THEN 5 ELSE CHOOSE i \in 1..4 : DirKinds[i] = d.kind
  IN {d \in bad : \A e \in bad : place(d) <= place(e)}

Roots ==
  /\ stage = "roots"
  /\ IF FirstBad # {} THEN \E d \in FirstBad : Leave(DirCode(d))
     ELSE IF Cmd = <<>> /\ ~Report THEN Leave(2)
     ELSE Goto("policy")
  /\ UNCHANGED told

\* The deny policy, the guard and the jail. A reason of policy is 3.
Policy ==
  /\ stage = "policy"
  /\ Leave(2) \/ Leave(3) \/ Goto("argv")
  /\ UNCHANGED told

CheckArgv ==
  /\ stage = "argv"
  /\ told' = IF Report /\ Cmd # <<>> /\ ArgvRefused(Cmd) THEN "would-deny" ELSE told
  /\ IF Report THEN Leave(0)
     ELSE IF ArgvRefused(Cmd) THEN Leave(3)
     ELSE Goto("launch")

\* resolve_child_program; the child is checked again, with its arguments
\* rewritten, before the jail starts it.
Launch ==
  /\ stage = "launch"
  /\ UNCHANGED told
  /\ LET argv == WithBashNoprofile(Cmd)
         changes == Applied(sub.os, "env-clear" \in given.flags, {a.n : a \in given.asked}, sub.parent)
     IN \/ Leave(127)
        \/ IF ArgvRefused(argv) THEN Leave(3)
           ELSE \/ Leave(2)
                \/ /\ child' = [NoChild EXCEPT !.argv = argv, !.env = Started(sub.os, changes, sub.parent)]
                   /\ stage' = "child"
                   /\ UNCHANGED <<sub, given, words, exit>>

-----------------------------------------------------------------------------
(* The result. *)

Results ==
  {"exited", "descendants"}
  \union (IF "timeout" \in given.flags THEN {"timeout"} ELSE {})
  \union (IF sub.os = "windows" THEN {"restore"} ELSE {"signal"})

Over(result, code) ==
  /\ stage = "child" /\ result \in Results
  /\ result = "signal" => code > 0
  /\ child' = [child EXCEPT !.result = result, !.code = code]
  /\ stage' = "result"
  /\ UNCHANGED <<sub, given, words, told, exit>>

\* child_process_exit_code
ExitOfChild == IF child.result = "signal" THEN 128 + child.code ELSE child.code

\* Mutant: what the jail could not do is not told.
ChildOnly == IF child.result = "timeout" THEN 124 ELSE ExitOfChild

ExitCode ==
  CASE child.result = "timeout" -> 124
    [] child.result = "restore" -> 2
    [] child.result = "descendants" -> 4
    [] OTHER -> ExitOfChild

Finish == stage = "result" /\ Leave(ExitCode) /\ UNCHANGED told

Next ==
  \/ \E f \in Flags : Flag(f)
  \/ \E n \in EnvNames, value \in BOOLEAN : Ask(n, value)
  \/ \E i \in 1..4 : \E a \in {"ok", "home", "fsroot", "missing"} \union (IF i = 4 THEN {"inside"} ELSE {}) :
       Dir(DirKinds[i], a)
  \/ \E w \in Vocabulary : Say(w)
  \/ Parse \/ Roots \/ Policy \/ CheckArgv \/ Launch
  \/ \E r \in {"exited", "signal", "descendants", "timeout", "restore"}, c \in ChildCodes : Over(r, c)
  \/ Finish

Spec == Init /\ [][Next]_vars

-----------------------------------------------------------------------------
(* Properties. *)

\* cmd_run: a call succeeds when it only tells, or when its child ended with 0 and
\* everything after it went well; a child that did not start has no status of its
\* own, and one that ended in time keeps its own.
StatusIsTrue ==
  stage = "out" =>
    CASE child.result = "none" ->
           exit \in {0, 2, 3, 127} /\ (exit = 0 => HelpAsked \/ Version \in ToSet(words) \/ Report)
      [] child.result = "exited" -> exit = child.code
      [] OTHER -> exit # 0

\* apply_child_env with scrub_child_command, and with child_env_pairs on Windows:
\* the child sees what was asked for and what it may inherit, and no loader.
EnvIsAsAsked ==
  child.argv # <<>> =>
    \A n \in EnvNames :
      n \in child.env <=>
        /\ n \notin Loaders
        /\ \/ \E a \in given.asked : a.n = n
           \/ /\ n \in sub.parent \ DeniedNames
              /\ "env-clear" \in given.flags => n = "PATH" \/ (sub.os = "windows" /\ n = "SystemRoot")

=============================================================================
