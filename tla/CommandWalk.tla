---------------------------- MODULE CommandWalk ----------------------------
(***************************************************************************)
(* Command lines and payloads for the scans of CommandScan: any words, and *)
(* any command line wrapped in another, with what its programs would do.   *)
(***************************************************************************)
EXTENDS CommandScan, EncodedScript

CONSTANTS
  Vocabulary,\* texts that are given as words
  MaxWords,  \* bound on the words of a command line
  MaxNest    \* bound on the wrappings of one command line

VARIABLES
  argv,  \* the command line
  nest   \* wrappings so far

vars == <<argv, nest, letters>>

-----------------------------------------------------------------------------
(* Command lines: any words, and any command line wrapped in another. *)

Init == argv = <<>> /\ nest = 0 /\ CodeInit

Say(w) ==
  /\ letters = <<>> /\ Len(argv) < MaxWords
  /\ argv' = Append(argv, w)
  /\ UNCHANGED <<nest, letters>>

\* A program before it; the command line as one word of a shell, env, cmd or PowerShell.
Wrappings(cmd) ==
  {<<Name("tool")>> \o cmd,
   <<Name("env"), Assign("A", Name("ok"))>> \o cmd,
   <<Name("sh"), Bare("-", "lc"), Line(cmd)>>,
   <<Name("sh"), Opt("-", "c", "tight", Line(<<Name("cd"), Sep>> \o cmd))>>,
   <<Name("env"), Bare("-", "iS"), Line(cmd)>>,
   <<Name("env"), Opt("--", "split-string", "=", Line(cmd)), Name("ok")>>,
   <<Name("cmd"), Bare("/", "s"), Bare("/", "c"), Line(cmd)>>,
   <<Name("pwsh"), Bare("-", "NoProfile"), Bare("-", "Command"), Line(cmd)>>,
   <<Name("pwsh"), Bare("-", "ec"), Payload(Line(cmd))>>}

\* No ; would come to stand within quotes.
Quotable(cmd) == \A w \in ToSet(cmd) : Valued(w) => Sep \notin ToSet(Pieces(w.v))

Wrap ==
  /\ argv # <<>> /\ nest < MaxNest /\ Quotable(argv)
  /\ argv' \in Wrappings(argv)
  /\ nest' = nest + 1
  /\ UNCHANGED letters

Encode == argv = <<>> /\ CodeNext /\ UNCHANGED <<argv, nest>>

Next == (\E w \in Vocabulary : Say(w)) \/ Wrap \/ Encode

Spec == Init /\ [][Next]_vars

-----------------------------------------------------------------------------
(* What the programs on a command line would do with it. *)

RECURSIVE Touches(_), EnvTouches(_)

\* Files that a word names by itself.
Says(w) ==
  CASE w.t = "name" -> {w.n}
    [] w.t = "assign" /\ w.v.t = "name" -> {w.v.n}
    [] w.t = "opt" /\ AttachedDest(w) # {} /\ w.v.t = "name" -> {w.v.n}
    [] OTHER -> {}

\* A shell runs each command of a text.
TextTouches(t) == UNION {UNION {Says(w) : w \in Words(t)}, UNION {Touches(c) : c \in Parts(t)}}

\* The first word after options, from i on, if there is one.
FirstOf(s, P(_)) == {i \in 1..Len(s) : P(s[i]) /\ \A j \in 1..(i - 1) : ~P(s[j])}

\* env puts the words of -S in its place; after its options and assignments it
\* runs what is left.
EnvTouches(args) ==
  IF args = <<>> THEN {}
  ELSE LET w == Head(args)
           val == EnvOperand(w, Next1(args, 1))
           rest == After(args, EnvStep(w))
           option == w.t = "opt" /\ w.dash # "/"
       IN Says(w) \union
          CASE option /\ w.n \in EnvSplit -> UNION {EnvTouches(Pieces(v) \o rest) : v \in val}
            [] option /\ w.n \notin EnvSplit ->
                 (IF w.n \in EnvFile THEN UNION {Says(v) : v \in val} ELSE {}) \union EnvTouches(rest)
            [] w.t \in {"assign", "dash", "dashdash"} ->
                 Touches(SelectSeq(Tail(args), LAMBDA x : x.t # "assign"))
            [] OTHER -> Touches(args)

\* A program that is none of these may run the words after it.
Touches(cmd) ==
  IF cmd = <<>> THEN {}
  ELSE LET rest == Tail(cmd)
           body(i) == ShellBody(rest[i], Next1(rest, i))
           script(i) == CmdBody(rest[i], Next1(rest, i))
           switch(i, names) == Switch(rest[i], names, Next1(rest, i))
           first(P(_)) == FirstOf([i \in 1..Len(rest) |-> i], P)
       IN UNION {Says(w) : w \in ToSet(cmd)} \union
          CASE Named(cmd[1], {"sh"}) ->
                 UNION {UNION {TextTouches(b) : b \in body(i)} : i \in first(LAMBDA k : body(k) # {})}
            [] IsCmd(cmd[1]) ->
                 UNION {UNION {TextTouches(b) : b \in script(i)} : i \in first(LAMBDA k : script(k) # {})}
            [] IsPowershell(cmd[1]) ->
                 UNION {UNION {TextTouches(b) : b \in switch(i, CommandNames)} \union
                        UNION {TextTouches(p.v) : p \in {q \in switch(i, EncodedNames) : q.t = "payload"}} :
                          i \in first(LAMBDA k : switch(k, CommandNames \union EncodedNames \union FileNames) # {})}
            [] IsEnv(cmd[1]) -> EnvTouches(rest)
            [] OTHER -> Touches(rest)

-----------------------------------------------------------------------------
(* Properties. *)

\* check_command_argv: a command line whose programs would touch a denied file
\* is refused, however the name is wrapped.
NothingHides == Touches(argv) \intersect Denied # {} => Refused(argv)
=============================================================================
