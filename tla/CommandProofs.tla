---------------------------- MODULE CommandProofs ----------------------------
(***************************************************************************)
(* Theorems about one call, for every set of names, whatever a command     *)
(* line is refused for and however it is rewritten: the child sees what    *)
(* was asked for and what it may inherit, the two systems agree on that,   *)
(* and the exit status tells what happened. And about the payload of an    *)
(* -EncodedCommand, of any length: its script is its bits.                 *)
(***************************************************************************)
EXTENDS RunCall, EncodedScript, SequenceTheorems, WellFoundedInduction, TLAPS

-----------------------------------------------------------------------------
(* The child's environment. *)

\* What std::process::Command can hold.
Sound(c) == c \in EnvChanges /\ c.set \intersect c.removed = {} /\ (c.clear => c.removed = {})

\* scrub_child_command and child_env_pairs: the block that Windows builds holds the
\* names that the scrubbed command would pass on.
THEOREM PairsAgree ==
  ASSUME NEW c, NEW parent \in SUBSET EnvNames, Sound(c)
  PROVE  Pairs(c, parent) = Seen(Scrubbed(c, parent), parent)
<1> DEFINE gone == ((parent \intersect DeniedNames) \ Kept(c)) \union (c.set \intersect Loaders)
           scrubbed == EnvRemove(c, gone)
<1>1. c \in EnvChanges /\ c.set \intersect c.removed = {} /\ (c.clear => c.removed = {})
  BY DEF Sound
<1>2. Loaders \subseteq DeniedNames
  BY EnvAssumption DEF EnvAssumption
<1>3. /\ scrubbed.clear = c.clear
      /\ scrubbed.set = c.set \ gone
      /\ scrubbed.removed = IF c.clear THEN c.removed ELSE c.removed \union gone
  BY <1>1 DEF EnvRemove, EnvChanges
<1>4. Scrubbed(c, parent) = scrubbed
  BY DEF Scrubbed
<1>5. ASSUME NEW n PROVE n \in Pairs(c, parent) <=> n \in Seen(scrubbed, parent)
  <2>1. CASE c.clear
    BY <1>1, <1>2, <1>3, <2>1 DEF Pairs, Seen, Kept
  <2>2. CASE ~c.clear
    BY <1>1, <1>2, <1>3, <2>2 DEF Pairs, Seen, Kept
  <2> QED BY <2>1, <2>2, <1>1 DEF EnvChanges
<1> QED BY <1>4, <1>5

\* The inherited names that apply_child_env keeps.
StaysOf(os, clear, parent) ==
  IF ~clear THEN {} ELSE parent \intersect (IF os = "windows" THEN {"PATH", "SystemRoot"} ELSE {"PATH"})

Recorded(c, os, clear, asked, parent) ==
  /\ c.clear = IF clear /\ os # "windows" THEN TRUE ELSE FALSE
  /\ c.set = StaysOf(os, clear, parent) \union asked
  /\ c.removed = IF clear /\ os = "windows" THEN parent \ c.set ELSE {}
  /\ c \in EnvChanges

\* apply_child_env: the changes it records, on both systems.
LEMMA AppliedFields ==
  ASSUME NEW os, NEW clear \in BOOLEAN, NEW asked \in SUBSET EnvNames, NEW parent \in SUBSET EnvNames,
         NEW c, c = Applied(os, clear, asked, parent)
  PROVE  Recorded(c, os, clear, asked, parent)
<1>1. CASE ~clear
  <2>1. c = EnvSet(NoChange, asked)
    BY <1>1 DEF Applied
  <2>2. /\ c.clear = FALSE /\ c.set = asked /\ c.removed = {}
        /\ c = [clear |-> c.clear, set |-> c.set, removed |-> c.removed]
    BY <2>1 DEF EnvSet, NoChange
  <2> QED BY <2>2, <1>1 DEF EnvChanges, StaysOf, Recorded
<1>2. CASE clear /\ os = "windows"
  <2>1. c = EnvSet(EnvSet(EnvRemove(NoChange, parent), {"PATH", "SystemRoot"} \intersect parent), asked)
    BY <1>2 DEF Applied, ClearedWindows
  <2>2. /\ c.clear = FALSE
        /\ c.set = ({"PATH", "SystemRoot"} \intersect parent) \union asked
        /\ c.removed = parent \ (({"PATH", "SystemRoot"} \intersect parent) \union asked)
        /\ c = [clear |-> c.clear, set |-> c.set, removed |-> c.removed]
    BY <2>1 DEF EnvSet, EnvRemove, NoChange
  <2> QED BY <2>2, <1>2 DEF EnvChanges, StaysOf, Recorded
<1>3. CASE clear /\ os # "windows"
  <2>1. c = EnvSet(EnvSet(EnvClear(NoChange), {"PATH"} \intersect parent), asked)
    BY <1>3 DEF Applied, ClearedUnix
  <2>2. /\ c.clear = TRUE
        /\ c.set = ({"PATH"} \intersect parent) \union asked
        /\ c.removed = {}
        /\ c = [clear |-> c.clear, set |-> c.set, removed |-> c.removed]
    BY <2>1 DEF EnvSet, EnvClear
  <2> QED BY <2>2, <1>3 DEF EnvChanges, StaysOf, Recorded
<1> QED BY <1>1, <1>2, <1>3

\* apply_child_env, then scrub_child_command: a child sees the names that were asked
\* for, loaders excepted, and of its parent those that are not denied, or only PATH
\* and on Windows SystemRoot when it is to start clean.
THEOREM SeesWhatWasAsked ==
  ASSUME NEW os, NEW clear \in BOOLEAN, NEW asked \in SUBSET EnvNames, NEW parent \in SUBSET EnvNames
  PROVE  Started(os, Applied(os, clear, asked, parent), parent) =
           {n \in EnvNames : n \notin Loaders /\
              \/ n \in asked
              \/ /\ n \in parent \ DeniedNames
                 /\ clear => n = "PATH" \/ (os = "windows" /\ n = "SystemRoot")}
<1>0. PICK c : c = Applied(os, clear, asked, parent)
  OBVIOUS
<1>1. Loaders \subseteq DeniedNames /\ {"PATH", "SystemRoot"} \subseteq EnvNames \ DeniedNames
  BY EnvAssumption DEF EnvAssumption
<1>2. Recorded(c, os, clear, asked, parent)
  BY <1>0, AppliedFields
<1>3. Sound(c)
  BY <1>2 DEF Sound, Recorded
<1>4. Started(os, c, parent) = Pairs(c, parent)
  BY <1>3, PairsAgree DEF Started
<1>5. CASE ~clear
  BY <1>0, <1>1, <1>2, <1>4, <1>5 DEF Pairs, Kept, StaysOf, Recorded
<1>6. CASE clear /\ os = "windows"
  BY <1>0, <1>1, <1>2, <1>4, <1>6 DEF Pairs, Kept, StaysOf, Recorded
<1>7. CASE clear /\ os # "windows"
  BY <1>0, <1>1, <1>2, <1>4, <1>7 DEF Pairs, Kept, StaysOf, Recorded
<1> QED BY <1>0, <1>5, <1>6, <1>7

-----------------------------------------------------------------------------
(* A call. *)

\* The stages before the child, and those a child can be in.
Early == {"args", "roots", "policy", "argv", "launch"}
Late == {"child", "result", "out"}

\* What is known of a child: nothing before it starts; then its environment,
\* and its result when it is over.
ChildOK ==
  /\ child = [argv |-> child.argv, env |-> child.env, result |-> child.result, code |-> child.code]
  /\ stage \in Early => child = NoChild
  /\ stage = "child" => child.result = "none"
  /\ stage = "result" => child.result # "none"
  /\ child.result \in {"none", "exited", "signal", "descendants", "timeout", "restore"}
  /\ child.result # "none" => child.code \in Int
  /\ child.result = "signal" => child.code > 0
  /\ child.argv # <<>> =>
       child.env = Started(sub.os, Applied(sub.os, "env-clear" \in given.flags,
                                           {a.n : a \in given.asked}, sub.parent), sub.parent)

GivenOK ==
  /\ sub \in Callers
  /\ given = [flags |-> given.flags, asked |-> given.asked, dirs |-> given.dirs]
  /\ given.asked \subseteq [n : EnvNames, value : BOOLEAN]

CallInv == stage \in Early \cup Late /\ GivenOK /\ ChildOK /\ StatusIsTrue

\* The arguments are given before anything else happens.
LEMMA GiveInv ==
  ASSUME CallInv, NEW g, NEW w, Give(g, w),
         g = [flags |-> g.flags, asked |-> g.asked, dirs |-> g.dirs],
         g.asked \subseteq [n : EnvNames, value : BOOLEAN]
  PROVE  CallInv'
<1>1. /\ stage = "args" /\ given' = g /\ UNCHANGED <<sub, stage, child, exit>>
  BY DEF Give
<1>2. child = NoChild /\ child' = NoChild
  BY <1>1 DEF CallInv, ChildOK, Early
<1>3. GivenOK'
  BY <1>1 DEF CallInv, GivenOK
<1>4. ChildOK'
  BY <1>1, <1>2 DEF CallInv, ChildOK, NoChild, Early
<1>5. StatusIsTrue'
  BY <1>1 DEF StatusIsTrue
<1> QED  BY <1>1, <1>3, <1>4, <1>5 DEF CallInv, Early, Late

\* A call that leaves before its child started says 0 only for a text or a
\* report, and otherwise an error of its own.
LEMMA LeaveInv ==
  ASSUME CallInv, stage \in Early, NEW code \in {0, 2, 3, 127}, Leave(code),
         code = 0 => HelpAsked \/ Version \in ToSet(words) \/ Report
  PROVE  CallInv'
<1>1. stage' = "out" /\ exit' = code /\ UNCHANGED <<sub, given, words, child>>
  BY DEF Leave
<1>2. child = NoChild
  BY DEF CallInv, ChildOK
<1>3. ChildOK'
  BY <1>1, <1>2 DEF CallInv, ChildOK, NoChild, Early
<1>4. /\ HelpAsked' <=> HelpAsked
      /\ (Version \in ToSet(words))' <=> Version \in ToSet(words)
      /\ Report' <=> Report
  BY <1>1 DEF HelpAsked, Report
<1>5. StatusIsTrue'
  <2>1. child'.result = "none"
    BY <1>1, <1>2 DEF NoChild
  <2>2. exit' \in {0, 2, 3, 127} /\ (exit' = 0 => HelpAsked' \/ (Version \in ToSet(words))' \/ Report')
    BY <1>1, <1>4
  <2> QED  BY <2>1, <2>2 DEF StatusIsTrue
<1> QED  BY <1>1, <1>3, <1>5 DEF CallInv, GivenOK, Late

LEMMA GotoInv ==
  ASSUME CallInv, stage \in Early, NEW s \in Early, Goto(s)
  PROVE  CallInv'
<1>1. stage' = s /\ UNCHANGED <<sub, given, words, child, exit>>
  BY DEF Goto
<1>2. child = NoChild
  BY DEF CallInv, ChildOK
<1>3. ChildOK'
  BY <1>1, <1>2 DEF CallInv, ChildOK, NoChild, Early
<1>4. StatusIsTrue'
  BY <1>1 DEF StatusIsTrue, Early
<1> QED  BY <1>1, <1>3, <1>4 DEF CallInv, GivenOK

LEMMA ParseInv == ASSUME CallInv, Parse PROVE CallInv'
<1>0. stage \in Early
  BY DEF Parse, Early
<1>1. CASE HelpAsked /\ Leave(0)
  BY <1>0, <1>1, LeaveInv
<1>2. CASE Leave(2)
  BY <1>0, <1>2, LeaveInv
<1>3. CASE words # <<>> /\ Head(words) = Version /\ Leave(0)
  <2>1. Head(words) \in ToSet(words)
    BY <1>3 DEF ToSet
  <2> QED  BY <1>0, <1>3, <2>1, LeaveInv
<1>4. CASE Goto("roots")
  BY <1>0, <1>4, GotoInv DEF Early
<1> QED  BY <1>1, <1>2, <1>3, <1>4 DEF Parse, UsageFlag

LEMMA RootsInv == ASSUME CallInv, Roots PROVE CallInv'
<1>0. stage \in Early
  BY DEF Roots, Early
<1>1. ASSUME NEW d, Leave(DirCode(d)) PROVE CallInv'
  <2>1. DirCode(d) \in {2, 3}
    BY DEF DirCode
  <2> QED  BY <1>0, <1>1, <2>1, LeaveInv
<1>2. CASE Leave(2)
  BY <1>0, <1>2, LeaveInv
<1>3. CASE Goto("policy")
  BY <1>0, <1>3, GotoInv DEF Early
<1> QED  BY <1>1, <1>2, <1>3 DEF Roots

LEMMA PolicyInv == ASSUME CallInv, Policy PROVE CallInv'
<1>0. stage \in Early /\ "argv" \in Early
  BY DEF Policy, Early
<1> QED  BY <1>0, LeaveInv, GotoInv DEF Policy

LEMMA CheckArgvInv == ASSUME CallInv, CheckArgv PROVE CallInv'
<1>0. stage \in Early /\ "launch" \in Early
  BY DEF CheckArgv, Early
<1>1. CASE Report /\ Leave(0)
  BY <1>0, <1>1, LeaveInv
<1>2. CASE Leave(3)
  BY <1>0, <1>2, LeaveInv
<1>3. CASE Goto("launch")
  BY <1>0, <1>3, GotoInv
<1> QED  BY <1>1, <1>2, <1>3 DEF CheckArgv

\* The child starts with the environment that was recorded for it.
LEMMA LaunchInv == ASSUME CallInv, Launch PROVE CallInv'
<1> DEFINE argv == WithBashNoprofile(Cmd)
           env == Started(sub.os, Applied(sub.os, "env-clear" \in given.flags,
                                          {a.n : a \in given.asked}, sub.parent), sub.parent)
<1>0. stage \in Early
  BY DEF Launch, Early
<1>1. CASE Leave(127) \/ Leave(3) \/ Leave(2)
  BY <1>0, <1>1, LeaveInv
<1>2. CASE /\ child' = [NoChild EXCEPT !.argv = argv, !.env = env]
           /\ stage' = "child" /\ UNCHANGED <<sub, given, words, exit>>
  <2>0. env' = env /\ stage' = "child"
    BY <1>2
  <2>1. child' = [argv |-> argv, env |-> env, result |-> "none", code |-> NoExit]
    BY <1>2 DEF NoChild
  <2> HIDE DEF argv, env
  <2>2. ChildOK'
    <3>1. /\ child'.argv = argv /\ child'.env = env
          /\ child'.result = "none" /\ child'.code = NoExit
      BY <2>1
    <3>2. child'.argv # <<>> => child'.env = env'
      BY <2>0, <3>1
    <3> QED  BY <2>0, <2>1, <3>1, <3>2 DEF ChildOK, Early, env
  <2>3. StatusIsTrue'
    BY <1>2 DEF StatusIsTrue
  <2> QED  BY <1>2, <2>2, <2>3 DEF CallInv, GivenOK, Late
<1> QED  BY <1>1, <1>2 DEF Launch

LEMMA OverInv ==
  ASSUME CallInv, NEW result \in {"exited", "signal", "descendants", "timeout", "restore"},
         NEW code \in ChildCodes, Over(result, code)
  PROVE  CallInv'
<1>1. /\ stage = "child" /\ stage' = "result" /\ UNCHANGED <<sub, given, words, exit>>
      /\ child' = [child EXCEPT !.result = result, !.code = code]
      /\ result = "signal" => code > 0
  BY DEF Over
<1>2. child' = [argv |-> child.argv, env |-> child.env, result |-> result, code |-> code]
  BY <1>1 DEF CallInv, ChildOK
<1>3. code \in Int
  BY CallAssumption
<1>4. child'.argv = child.argv /\ child'.env = child.env /\ child'.result = result
      /\ child'.code = code
  BY <1>2
<1>5. ChildOK'
  BY <1>1, <1>2, <1>3, <1>4 DEF CallInv, ChildOK, Early
<1>6. StatusIsTrue'
  BY <1>1 DEF StatusIsTrue
<1> QED  BY <1>1, <1>5, <1>6 DEF CallInv, GivenOK, Late

\* The status of a call that had a child.
LEMMA FinishInv == ASSUME CallInv, Finish PROVE CallInv'
<1>1. /\ stage = "result" /\ stage' = "out" /\ exit' = ExitCode
      /\ UNCHANGED <<sub, given, words, child>>
  BY DEF Finish, Leave
<1>2. /\ child.result \in {"exited", "signal", "descendants", "timeout", "restore"}
      /\ child.code \in Int /\ (child.result = "signal" => child.code > 0)
  BY <1>1 DEF CallInv, ChildOK
<1>3. /\ child.result = "exited" => ExitCode = child.code
      /\ child.result # "exited" => ExitCode # 0
  BY <1>2 DEF ExitCode, ExitOfChild
<1>4. StatusIsTrue'
  BY <1>1, <1>2, <1>3 DEF StatusIsTrue
<1>5. ChildOK'
  BY <1>1 DEF CallInv, ChildOK, Early
<1> QED  BY <1>1, <1>4, <1>5 DEF CallInv, GivenOK, Late

LEMMA NextCallInv == ASSUME CallInv, [Next]_vars PROVE CallInv'
<1>0. /\ given = [flags |-> given.flags, asked |-> given.asked, dirs |-> given.dirs]
      /\ given.asked \subseteq [n : EnvNames, value : BOOLEAN]
  BY DEF CallInv, GivenOK
<1>1. ASSUME NEW f \in Flags, Flag(f) PROVE CallInv'
  BY <1>0, <1>1, GiveInv DEF Flag
<1>2. ASSUME NEW n \in EnvNames, NEW value \in BOOLEAN, Ask(n, value) PROVE CallInv'
  BY <1>0, <1>2, GiveInv DEF Ask
<1>3. ASSUME NEW kind, NEW a, Dir(kind, a) PROVE CallInv'
  BY <1>0, <1>3, GiveInv DEF Dir
<1>4. ASSUME NEW w \in Vocabulary, Say(w) PROVE CallInv'
  BY <1>0, <1>4, GiveInv DEF Say
<1>5. ASSUME NEW r \in {"exited", "signal", "descendants", "timeout", "restore"},
             NEW c \in ChildCodes, Over(r, c)
      PROVE  CallInv'
  BY <1>5, OverInv
<1>6. CASE UNCHANGED vars
  BY <1>6 DEF vars, CallInv, GivenOK, ChildOK, StatusIsTrue, HelpAsked, Report
<1> QED
  BY <1>1, <1>2, <1>3, <1>4, <1>5, <1>6, ParseInv, RootsInv, PolicyInv, CheckArgvInv,
     LaunchInv, FinishInv
     DEF Next

LEMMA CallInvCorrect == Spec => []CallInv
<1>1. Init => CallInv
  BY DEF Init, CallInv, GivenOK, ChildOK, StatusIsTrue, NoChild, Early, Late
<1> QED  BY <1>1, NextCallInv, PTL DEF Spec

\* A call succeeds only for a text or a report, or when its child ended with 0
\* and everything after it went well, and a child that ended in time keeps its
\* status, for every command line, scan and rewriting (cmd_run).
THEOREM StatusCorrect == Spec => []StatusIsTrue
<1>1. CallInv => StatusIsTrue
  BY DEF CallInv
<1> QED  BY <1>1, CallInvCorrect, PTL

\* Every child sees the names asked for, loaders excepted, and of its parent
\* those it may inherit, for every set of names and on both systems
\* (apply_child_env, scrub_child_command, child_env_pairs).
THEOREM EnvCorrect == Spec => []EnvIsAsAsked
<1>1. CallInv => EnvIsAsAsked
  <2> SUFFICES ASSUME CallInv, child.argv # <<>> PROVE EnvIsAsAsked
    BY DEF EnvIsAsAsked
  <2> DEFINE asked == {a.n : a \in given.asked}
             clear == "env-clear" \in given.flags
  <2>1. child.env = Started(sub.os, Applied(sub.os, clear, asked, sub.parent), sub.parent)
    BY DEF CallInv, ChildOK
  <2>2. sub.parent \in SUBSET EnvNames /\ asked \in SUBSET EnvNames /\ clear \in BOOLEAN
    BY CallAssumption DEF CallInv, GivenOK
  <2> HIDE DEF asked, clear
  <2>3. child.env = {n \in EnvNames : n \notin Loaders /\
              \/ n \in asked
              \/ /\ n \in sub.parent \ DeniedNames
                 /\ clear => n = "PATH" \/ (sub.os = "windows" /\ n = "SystemRoot")}
    BY <2>1, <2>2, SeesWhatWasAsked
  <2>4. ASSUME NEW n PROVE n \in asked <=> \E a \in given.asked : a.n = n
    BY DEF asked
  <2> QED  BY <2>3, <2>4 DEF EnvIsAsAsked, clear
<1> QED  BY <1>1, CallInvCorrect, PTL

-----------------------------------------------------------------------------
(* Induction. *)

\* Induction over Nat, for a set instead of a predicate.
LEMMA NatSet ==
  ASSUME NEW S, 0 \in S, \A n \in Nat : n \in S => n + 1 \in S
  PROVE  \A n \in Nat : n \in S
<1> DEFINE T == Nat \ S
<1> SUFFICES ASSUME T # {} PROVE FALSE
  OBVIOUS
<1>1. PICK n \in T : \A m \in T : <<m, n>> \notin OpToRel(<, Nat)
  BY WFMin, NatLessThanWellFounded
<1>2. n \in Nat /\ n \notin S /\ n # 0
  OBVIOUS
<1>3. n - 1 \in Nat /\ n - 1 < n /\ (n - 1) + 1 = n
  BY <1>2
<1>4. n - 1 \in S
  BY <1>1, <1>3 DEF OpToRel
<1> QED
  BY <1>2, <1>3, <1>4

-----------------------------------------------------------------------------
(* Bits. *)

\* Bit, place by place.
Values(n) ==
  /\ Bit(n, 0) = n % 2          /\ Bit(n, 1) = (n \div 2) % 2
  /\ Bit(n, 2) = (n \div 4) % 2  /\ Bit(n, 3) = (n \div 8) % 2
  /\ Bit(n, 4) = (n \div 16) % 2 /\ Bit(n, 5) = (n \div 32) % 2
  /\ Bit(n, 6) = (n \div 64) % 2 /\ Bit(n, 7) = (n \div 128) % 2

LEMMA BitValues ==
  ASSUME NEW n \in Nat
  PROVE  Values(n)
<1>1. /\ Power[0 + 1] = 1 /\ Power[1 + 1] = 2 /\ Power[2 + 1] = 4 /\ Power[3 + 1] = 8
      /\ Power[4 + 1] = 16 /\ Power[5 + 1] = 32 /\ Power[6 + 1] = 64 /\ Power[7 + 1] = 128
  BY DEF Power
<1>2. n \div 1 = n
  OBVIOUS
<1> QED
  BY <1>1, <1>2 DEF Bit, Values

LEMMA NoBits ==
  ASSUME NEW j \in 0 .. 7
  PROVE  Bit(0, j) = 0
<1>1. j \in {0, 1, 2, 3, 4, 5, 6, 7}
  OBVIOUS
<1>2. Values(0)
  BY BitValues
<1> QED
  BY <1>1, <1>2 DEF Values

\* A byte is the bits left over, acc, and the first ones of a digit, d.
LEMMA ByteOfTwo ==
  ASSUME NEW acc \in 0 .. 3, NEW d \in 0 .. 63, NEW b, b = acc * 64 + d, NEW j \in 0 .. 7
  PROVE  Bit(b, j) = IF j < 6 THEN Bit(d, j) ELSE Bit(acc, j - 6)
<1>1. j \in {0, 1, 2, 3, 4, 5, 6, 7}
  OBVIOUS
<1>2. /\ b % 2 = d % 2 /\ (b \div 2) % 2 = (d \div 2) % 2
      /\ (b \div 4) % 2 = (d \div 4) % 2 /\ (b \div 8) % 2 = (d \div 8) % 2
  OBVIOUS
<1>3. /\ (b \div 16) % 2 = (d \div 16) % 2 /\ (b \div 32) % 2 = (d \div 32) % 2
      /\ (b \div 64) % 2 = acc % 2 /\ (b \div 128) % 2 = (acc \div 2) % 2
  OBVIOUS
<1>4. Values(b) /\ Values(acc) /\ Values(d)
  BY BitValues
<1>5. /\ Bit(b, 0) = Bit(d, 0) /\ Bit(b, 1) = Bit(d, 1) /\ Bit(b, 2) = Bit(d, 2) /\ Bit(b, 3) = Bit(d, 3)
      /\ Bit(b, 4) = Bit(d, 4) /\ Bit(b, 5) = Bit(d, 5) /\ Bit(b, 6) = Bit(acc, 0) /\ Bit(b, 7) = Bit(acc, 1)
  BY <1>2, <1>3, <1>4 DEF Values
<1> QED
  BY <1>1, <1>5

LEMMA ByteOfFour ==
  ASSUME NEW acc \in 0 .. 15, NEW d \in 0 .. 63, NEW b, b = (acc * 64 + d) \div 4, NEW j \in 0 .. 7
  PROVE  Bit(b, j) = IF j < 4 THEN Bit(d, j + 2) ELSE Bit(acc, j - 4)
<1> DEFINE e == d \div 4
<1>1. j \in {0, 1, 2, 3, 4, 5, 6, 7}
  OBVIOUS
<1>2. b = acc * 16 + e /\ e \in 0 .. 15
  OBVIOUS
<1>3. /\ e % 2 = (d \div 4) % 2 /\ (e \div 2) % 2 = (d \div 8) % 2
      /\ (e \div 4) % 2 = (d \div 16) % 2 /\ (e \div 8) % 2 = (d \div 32) % 2
  OBVIOUS
<1> HIDE DEF e
<1>4. /\ b % 2 = e % 2 /\ (b \div 2) % 2 = (e \div 2) % 2
      /\ (b \div 4) % 2 = (e \div 4) % 2 /\ (b \div 8) % 2 = (e \div 8) % 2
  BY <1>2
<1>5. /\ (b \div 16) % 2 = acc % 2 /\ (b \div 32) % 2 = (acc \div 2) % 2
      /\ (b \div 64) % 2 = (acc \div 4) % 2 /\ (b \div 128) % 2 = (acc \div 8) % 2
  BY <1>2
<1>6. Values(b) /\ Values(acc) /\ Values(d)
  BY <1>2, BitValues
<1>7. /\ Bit(b, 0) = Bit(d, 2) /\ Bit(b, 1) = Bit(d, 3) /\ Bit(b, 2) = Bit(d, 4) /\ Bit(b, 3) = Bit(d, 5)
      /\ Bit(b, 4) = Bit(acc, 0) /\ Bit(b, 5) = Bit(acc, 1) /\ Bit(b, 6) = Bit(acc, 2) /\ Bit(b, 7) = Bit(acc, 3)
  BY <1>3, <1>4, <1>5, <1>6 DEF Values
<1> QED
  BY <1>1, <1>7

LEMMA ByteOfSix ==
  ASSUME NEW acc \in 0 .. 63, NEW d \in 0 .. 63, NEW b, b = (acc * 64 + d) \div 16, NEW j \in 0 .. 7
  PROVE  Bit(b, j) = IF j < 2 THEN Bit(d, j + 4) ELSE Bit(acc, j - 2)
<1> DEFINE e == d \div 16
<1>1. j \in {0, 1, 2, 3, 4, 5, 6, 7}
  OBVIOUS
<1>2. b = acc * 4 + e /\ e \in 0 .. 3
  OBVIOUS
<1>3. e % 2 = (d \div 16) % 2 /\ (e \div 2) % 2 = (d \div 32) % 2
  OBVIOUS
<1> HIDE DEF e
<1>4. b % 2 = e % 2 /\ (b \div 2) % 2 = (e \div 2) % 2
  BY <1>2
<1>5. /\ b \div 4 = acc /\ b \div 8 = acc \div 2 /\ b \div 16 = acc \div 4
      /\ b \div 32 = acc \div 8 /\ b \div 64 = acc \div 16 /\ b \div 128 = acc \div 32
  <2>1. b \div 4 = acc /\ b \div 8 = acc \div 2 /\ b \div 16 = acc \div 4
    BY <1>2
  <2>2. b \div 32 = acc \div 8 /\ b \div 64 = acc \div 16 /\ b \div 128 = acc \div 32
    BY <1>2
  <2> QED
    BY <2>1, <2>2
<1>6. Values(b) /\ Values(acc) /\ Values(d)
  BY <1>2, BitValues
<1>7. /\ Bit(b, 0) = Bit(d, 4) /\ Bit(b, 1) = Bit(d, 5) /\ Bit(b, 2) = Bit(acc, 0) /\ Bit(b, 3) = Bit(acc, 1)
      /\ Bit(b, 4) = Bit(acc, 2) /\ Bit(b, 5) = Bit(acc, 3) /\ Bit(b, 6) = Bit(acc, 4) /\ Bit(b, 7) = Bit(acc, 5)
  BY <1>3, <1>4, <1>5, <1>6 DEF Values
<1> QED
  BY <1>1, <1>7

\* The last bits of a digit are what is left of it.
LEMMA RestOfFour ==
  ASSUME NEW d \in 0 .. 63, NEW r, r = d % 4, NEW j \in 0 .. 1
  PROVE  Bit(r, j) = Bit(d, j)
<1>1. j \in {0, 1}
  OBVIOUS
<1>2. r % 2 = d % 2 /\ (r \div 2) % 2 = (d \div 2) % 2
  OBVIOUS
<1>3. Values(r) /\ Values(d)
  BY BitValues
<1> QED
  BY <1>1, <1>2, <1>3 DEF Values

LEMMA RestOfSix ==
  ASSUME NEW d \in 0 .. 63, NEW r, r = d % 16, NEW j \in 0 .. 3
  PROVE  Bit(r, j) = Bit(d, j)
<1>1. j \in {0, 1, 2, 3}
  OBVIOUS
<1>2. /\ r % 2 = d % 2 /\ (r \div 2) % 2 = (d \div 2) % 2
      /\ (r \div 4) % 2 = (d \div 4) % 2 /\ (r \div 8) % 2 = (d \div 8) % 2
  OBVIOUS
<1>3. Values(r) /\ Values(d)
  BY BitValues
<1> QED
  BY <1>1, <1>2, <1>3 DEF Values

-----------------------------------------------------------------------------
(* The decoder. *)

Sextets == 0 .. 63

\* The states of the decoder after 0 to n digits.
UptoDef(digits, n, F) ==
  F = [i \in 0 .. n |-> IF i = 0 THEN NoBytes ELSE Shift(F[i - 1], digits[i])]

\* The recursion over the digits is well-founded.
LEMMA UptoExists ==
  ASSUME NEW digits
  PROVE  \A n \in Nat : \E F : UptoDef(digits, n, F)
<1> DEFINE N == {n \in Nat : \E F : UptoDef(digits, n, F)}
<1>1. 0 \in N
  <2>1. UptoDef(digits, 0, [i \in 0 .. 0 |-> NoBytes])
    BY DEF UptoDef
  <2> QED
    BY <2>1
<1>2. ASSUME NEW n \in Nat, n \in N PROVE n + 1 \in N
  <2>1. PICK F : UptoDef(digits, n, F)
    BY <1>2
  <2> DEFINE next(G, i) == IF i = 0 THEN NoBytes ELSE Shift(G[i - 1], digits[i])
             G == [i \in 0 .. n + 1 |-> IF i \in 0 .. n THEN F[i] ELSE next(F, i)]
  <2>2. \A i \in 0 .. n : F[i] = next(F, i)
    BY <2>1 DEF UptoDef
  <2>3. \A i \in 0 .. n : G[i] = F[i]
    OBVIOUS
  <2>4. G[n + 1] = next(F, n + 1)
    OBVIOUS
  <2>5. ASSUME NEW i \in 0 .. n + 1 PROVE G[i] = next(G, i)
    <3>1. i # 0 => i - 1 \in 0 .. n /\ G[i - 1] = F[i - 1]
      BY <2>3
    <3>2. next(G, i) = next(F, i)
      <4> HIDE DEF G
      <4> QED
        BY <3>1
    <3>3. i \in 0 .. n \/ i = n + 1
      OBVIOUS
    <3> HIDE DEF G, next
    <3> QED
      BY <2>2, <2>3, <2>4, <3>2, <3>3
  <2>6. G = [i \in 0 .. n + 1 |-> G[i]]
    OBVIOUS
  <2>7. UptoDef(digits, n + 1, G)
    <3> HIDE DEF G
    <3> QED
      BY <2>5, <2>6 DEF UptoDef
  <2> HIDE DEF G
  <2> QED
    BY <2>7
<1> QED
  <2> HIDE DEF N
  <2>1. \A n \in Nat : n \in N
    BY <1>1, <1>2, NatSet
  <2> QED
    BY <2>1 DEF N

\* What it does with each digit.
LEMMA DecodedSteps ==
  ASSUME NEW digits \in Seq(Sextets)
  PROVE  \E F : /\ Decoded(digits) = F[Len(digits)] /\ F[0] = NoBytes
                /\ \A i \in 1 .. Len(digits) : F[i] = Shift(F[i - 1], digits[i])
<1> DEFINE n == Len(digits)
           Def(F) == UptoDef(digits, n, F)
           F == CHOOSE G : Def(G)
<1>1. n \in Nat
  OBVIOUS
<1>2. Decoded(digits) = F[n]
  BY DEF Decoded, UptoDef
<1>3. Def(F)
  <2>1. \E G : Def(G)
    BY <1>1, UptoExists
  <2> HIDE DEF Def
  <2> QED
    BY <2>1
<1> HIDE DEF F
<1>4. F[0] = NoBytes /\ \A i \in 1 .. n : F[i] = Shift(F[i - 1], digits[i])
  <2>1. \A i \in 0 .. n : F[i] = IF i = 0 THEN NoBytes ELSE Shift(F[i - 1], digits[i])
    BY <1>3 DEF UptoDef
  <2>2. 0 \in 0 .. n /\ \A i \in 1 .. n : i \in 0 .. n /\ i # 0
    BY <1>1
  <2> QED
    BY <2>1, <2>2
<1> QED
  BY <1>2, <1>4

\* Bits are left over in pairs.
Partly(st) ==
  /\ st = [out |-> st.out, acc |-> st.acc, bits |-> st.bits]
  /\ st.out \in Seq(0 .. 255)
  /\ \/ st.bits = 0 /\ st.acc = 0
     \/ st.bits = 2 /\ st.acc \in 0 .. 3
     \/ st.bits = 4 /\ st.acc \in 0 .. 15
     \/ st.bits = 6 /\ st.acc \in 0 .. 63

\* After i digits their bits are those of the bytes and then those left over.
Holds(digits, i, st) ==
  /\ Partly(st)
  /\ 6 * i = 8 * Len(st.out) + st.bits
  /\ \A k \in 0 .. (6 * i - 1) :
       Bit(digits[k \div 6 + 1], 5 - (k % 6)) =
         IF k \div 8 < Len(st.out) THEN Bit(st.out[k \div 8 + 1], 7 - (k % 8)) ELSE Bit(st.acc, 6 * i - 1 - k)

\* Shift, field by field.
LEMMA ShiftFields ==
  ASSUME NEW st, Partly(st), NEW d \in Sextets, NEW sum, sum = st.acc * 64 + d
  PROVE  /\ st.bits = 0 => Shift(st, d) = [out |-> st.out, acc |-> sum, bits |-> 6]
         /\ st.bits = 2 => Shift(st, d) = [out |-> Append(st.out, sum \div 1), acc |-> sum % 1, bits |-> 0]
         /\ st.bits = 4 => Shift(st, d) = [out |-> Append(st.out, sum \div 4), acc |-> sum % 4, bits |-> 2]
         /\ st.bits = 6 => Shift(st, d) = [out |-> Append(st.out, sum \div 16), acc |-> sum % 16, bits |-> 4]
<1> DEFINE all == st.bits + 6
           low == Power[all - 7]
           full == [out |-> Append(st.out, sum \div low), acc |-> sum % low, bits |-> all - 8]
           short == [out |-> st.out, acc |-> sum, bits |-> all]
<1>1. Shift(st, d) = IF all >= 8 THEN full ELSE short
  BY Zenon DEF Shift
<1>2. st.bits = 0 => all = 6 /\ ~ (all >= 8)
  OBVIOUS
<1>3. /\ st.bits = 2 => all >= 8 /\ all - 8 = 0 /\ low = 1
      /\ st.bits = 4 => all >= 8 /\ all - 8 = 2 /\ low = 4
      /\ st.bits = 6 => all >= 8 /\ all - 8 = 4 /\ low = 16
  <2>1. Power[1] = 1 /\ Power[3] = 4 /\ Power[5] = 16
    BY DEF Power
  <2> QED
    BY <2>1
<1> HIDE DEF all, low
<1>4. st.bits = 0 => Shift(st, d) = [out |-> st.out, acc |-> sum, bits |-> 6]
  BY <1>1, <1>2, Zenon
<1>5. st.bits = 2 => Shift(st, d) = [out |-> Append(st.out, sum \div 1), acc |-> sum % 1, bits |-> 0]
  BY <1>1, <1>3, Zenon
<1>6. st.bits = 4 => Shift(st, d) = [out |-> Append(st.out, sum \div 4), acc |-> sum % 4, bits |-> 2]
  BY <1>1, <1>3, Zenon
<1>7. st.bits = 6 => Shift(st, d) = [out |-> Append(st.out, sum \div 16), acc |-> sum % 16, bits |-> 4]
  BY <1>1, <1>3, Zenon
<1> QED
  BY <1>4, <1>5, <1>6, <1>7

\* A byte more, and the bits of it.
Grown(st, d, new, b) ==
  /\ new.out = Append(st.out, b) /\ new.bits = st.bits - 2
  /\ \A j \in 0 .. 7 : Bit(b, j) = IF j < 8 - st.bits THEN Bit(d, j + (st.bits - 2)) ELSE Bit(st.acc, j - (8 - st.bits))
  /\ \A j \in 0 .. (new.bits - 1) : Bit(new.acc, j) = Bit(d, j)

\* What one digit more does: it waits, or a byte is full.
LEMMA ShiftWaits ==
  ASSUME NEW st, Partly(st), st.bits = 0, NEW d \in Sextets, NEW new, new = Shift(st, d)
  PROVE  Partly(new) /\ new.out = st.out /\ new.bits = 6 /\ new.acc = d
<1> DEFINE sum == st.acc * 64 + d
<1>1. sum = d
  <2>1. st.acc = 0
    BY DEF Partly
  <2> QED
    BY <2>1 DEF Sextets
<1> HIDE DEF sum
<1>2. new = [out |-> st.out, acc |-> sum, bits |-> 6]
  BY ShiftFields DEF sum
<1>3. new = [out |-> st.out, acc |-> d, bits |-> 6] /\ st.out \in Seq(0 .. 255) /\ d \in 0 .. 63
  BY <1>1, <1>2 DEF Partly, Sextets
<1>4. new.out = st.out /\ new.acc = d /\ new.bits = 6 /\ new = [out |-> new.out, acc |-> new.acc, bits |-> new.bits]
  BY <1>3
<1> QED
  BY <1>3, <1>4 DEF Partly

LEMMA ShiftByte ==
  ASSUME NEW st, Partly(st), st.bits # 0, NEW d \in Sextets, NEW new, new = Shift(st, d)
  PROVE  Partly(new) /\ \E b \in 0 .. 255 : Grown(st, d, new, b)
<1> DEFINE a == st.acc
           o == st.out
           sum == a * 64 + d
<1>1. a \in Nat /\ o \in Seq(0 .. 255) /\ d \in 0 .. 63
  <2>1. o \in Seq(0 .. 255) /\ (a = 0 \/ a \in 0 .. 3 \/ a \in 0 .. 15 \/ a \in 0 .. 63)
    BY Zenon DEF Partly
  <2>2. ASSUME NEW v, v = 0 \/ v \in 0 .. 3 \/ v \in 0 .. 15 \/ v \in 0 .. 63 PROVE v \in Nat
    BY <2>2
  <2> HIDE DEF a, o
  <2> QED
    BY <2>1, <2>2 DEF Sextets
<1>2. ASSUME NEW b \in 0 .. 255 PROVE Append(o, b) \in Seq(0 .. 255)
  BY <1>1
<1> HIDE DEF a, o
<1>3. CASE st.bits = 2
  <2>1. a \in 0 .. 3
    BY <1>3 DEF Partly, a
  <2>2. sum \in 0 .. 255 /\ sum \div 1 = sum /\ sum % 1 = 0
    BY <1>1, <2>1
  <2> HIDE DEF sum
  <2>3. new = [out |-> Append(o, sum), acc |-> 0, bits |-> 0]
    BY <1>3, <2>2, ShiftFields DEF sum, a, o
  <2>4. \A j \in 0 .. 7 : Bit(sum, j) = IF j < 6 THEN Bit(d, j) ELSE Bit(a, j - 6)
    BY <1>1, <2>1, ByteOfTwo DEF sum
  <2>5. Grown(st, d, new, sum)
    BY <1>3, <2>3, <2>4 DEF Grown, a, o
  <2>6. /\ new.out \in Seq(0 .. 255) /\ new.acc = 0 /\ new.bits = 0
        /\ new = [out |-> new.out, acc |-> new.acc, bits |-> new.bits]
    BY <1>2, <2>2, <2>3
  <2>7. Partly(new)
    BY <2>2, <2>6 DEF Partly
  <2> QED
    BY <2>2, <2>5, <2>7
<1>4. CASE st.bits = 4
  <2> DEFINE b == sum \div 4
             r == d % 4
  <2>1. a \in 0 .. 15
    BY <1>4 DEF Partly, a
  <2>2. b \in 0 .. 255 /\ sum % 4 = r /\ r \in 0 .. 3
    BY <1>1, <2>1
  <2>3. new = [out |-> Append(o, b), acc |-> r, bits |-> 2]
    BY <1>4, <2>2, ShiftFields DEF a, o
  <2>4. \A j \in 0 .. 7 : Bit(b, j) = IF j < 4 THEN Bit(d, j + 2) ELSE Bit(a, j - 4)
    <3>1. b = (a * 64 + d) \div 4 /\ d \in 0 .. 63
      BY <1>1
    <3> HIDE DEF b
    <3> QED
      BY <2>1, <3>1, ByteOfFour, Zenon
  <2>5. \A j \in 0 .. 1 : Bit(r, j) = Bit(d, j)
    BY <1>1, RestOfFour
  <2> HIDE DEF b, r, sum
  <2>6. Grown(st, d, new, b)
    BY <1>4, <2>3, <2>4, <2>5 DEF Grown, a, o
  <2>7. /\ new.out \in Seq(0 .. 255) /\ new.acc = r /\ new.bits = 2
        /\ new = [out |-> new.out, acc |-> new.acc, bits |-> new.bits]
    <3> DEFINE c == Append(o, b)
    <3>1. c \in Seq(0 .. 255)
      BY <1>2, <2>2
    <3> HIDE DEF c
    <3>2. new = [out |-> c, acc |-> r, bits |-> 2]
      BY <2>3 DEF c
    <3> QED
      BY <3>1, <3>2
  <2>8. Partly(new)
    BY <2>2, <2>7 DEF Partly
  <2> QED
    BY <2>2, <2>6, <2>8
<1>5. CASE st.bits = 6
  <2> DEFINE b == sum \div 16
             r == d % 16
  <2>1. a \in 0 .. 63
    BY <1>5 DEF Partly, a
  <2>2. b \in 0 .. 255 /\ sum % 16 = r /\ r \in 0 .. 15
    BY <1>1, <2>1
  <2>3. new = [out |-> Append(o, b), acc |-> r, bits |-> 4]
    BY <1>5, <2>2, ShiftFields DEF a, o
  <2>4. \A j \in 0 .. 7 : Bit(b, j) = IF j < 2 THEN Bit(d, j + 4) ELSE Bit(a, j - 2)
    <3>1. b = (a * 64 + d) \div 16 /\ d \in 0 .. 63
      BY <1>1
    <3> HIDE DEF b
    <3> QED
      <4>1. ASSUME NEW j \in 0 .. 7 PROVE Bit(b, j) = IF j < 2 THEN Bit(d, j + 4) ELSE Bit(a, j - 2)
        BY <2>1, <3>1, ByteOfSix, Zenon
      <4> QED
        BY <4>1
  <2>5. \A j \in 0 .. 3 : Bit(r, j) = Bit(d, j)
    BY <1>1, RestOfSix
  <2> HIDE DEF b, r, sum
  <2>6. Grown(st, d, new, b)
    BY <1>5, <2>3, <2>4, <2>5 DEF Grown, a, o
  <2>7. /\ new.out \in Seq(0 .. 255) /\ new.acc = r /\ new.bits = 4
        /\ new = [out |-> new.out, acc |-> new.acc, bits |-> new.bits]
    <3> DEFINE c == Append(o, b)
    <3>1. c \in Seq(0 .. 255)
      BY <1>2, <2>2
    <3> HIDE DEF c
    <3>2. new = [out |-> c, acc |-> r, bits |-> 4]
      BY <2>3 DEF c
    <3> QED
      BY <3>1, <3>2
  <2>8. Partly(new)
    BY <2>2, <2>7 DEF Partly
  <2> QED
    BY <2>2, <2>6, <2>8
<1> QED
  BY <1>3, <1>4, <1>5 DEF Partly

\* The bits of the bytes and of what is left over are those of the digits.
LEMMA DigitKeeps ==
  ASSUME NEW digits \in Seq(Sextets), NEW i \in Nat, i < Len(digits),
         NEW st, Holds(digits, i, st), NEW new, new = Shift(st, digits[i + 1])
  PROVE  Holds(digits, i + 1, new)
<1> DEFINE d == digits[i + 1]
           out == st.out
           n == Len(out)
           bit(k) == Bit(digits[k \div 6 + 1], 5 - (k % 6))
           has(s, m, k) == IF k \div 8 < Len(s.out) THEN Bit(s.out[k \div 8 + 1], 7 - (k % 8)) ELSE Bit(s.acc, 6 * m - 1 - k)
<1>1. d \in Sextets
  OBVIOUS
<1>2. Partly(st) /\ 6 * i = 8 * n + st.bits /\ \A k \in 0 .. (6 * i - 1) : bit(k) = has(st, i, k)
  BY DEF Holds
<1>3. out \in Seq(0 .. 255) /\ n \in Nat /\ st.bits \in {0, 2, 4, 6}
  <2>1. out \in Seq(0 .. 255) /\ st.bits \in {0, 2, 4, 6}
    BY <1>2, Zenon DEF Partly
  <2> HIDE DEF out
  <2> QED
    BY <2>1
<1> SUFFICES Partly(new) /\ 6 * (i + 1) = 8 * Len(new.out) + new.bits
             /\ \A k \in 0 .. (6 * (i + 1) - 1) : bit(k) = has(new, i + 1, k)
  BY DEF Holds
<1>4. ASSUME NEW k \in 0 .. (6 * (i + 1) - 1), ~ (k < 6 * i)
      PROVE  bit(k) = Bit(d, 6 * (i + 1) - 1 - k) /\ 6 * (i + 1) - 1 - k \in 0 .. 5
  <2>1. k \div 6 = i /\ 5 - (k % 6) = 6 * (i + 1) - 1 - k
    BY <1>4
  <2> QED
    BY <2>1, <1>4
<1>5. CASE st.bits = 0
  <2>1. Partly(new) /\ new.out = out /\ new.bits = 6 /\ new.acc = d
    BY <1>1, <1>2, <1>5, ShiftWaits
  <2>2. 6 * (i + 1) = 8 * Len(new.out) + new.bits
    <3>1. Len(new.out) = n
      BY <2>1
    <3> HIDE DEF n
    <3> QED
      BY <1>2, <1>3, <1>5, <2>1, <3>1
  <2>3. ASSUME NEW k \in 0 .. (6 * (i + 1) - 1) PROVE bit(k) = has(new, i + 1, k)
    <3>1. CASE k < 6 * i
      <4>1. k \div 8 < n /\ k \in 0 .. (6 * i - 1)
        BY <1>2, <1>3, <1>5, <3>1
      <4>2. has(st, i, k) = has(new, i + 1, k)
        BY <2>1, <4>1
      <4> HIDE DEF bit, has
      <4> QED
        BY <1>2, <4>1, <4>2
    <3>2. CASE ~ (k < 6 * i)
      <4>1. ~ (k \div 8 < n)
        BY <1>2, <1>3, <1>5, <3>2
      <4>2. has(new, i + 1, k) = Bit(d, 6 * (i + 1) - 1 - k)
        BY <2>1, <4>1
      <4> HIDE DEF bit, has
      <4> QED
        BY <1>4, <3>2, <4>2
    <3> QED
      BY <3>1, <3>2
  <2> QED
    BY <2>1, <2>2, <2>3
<1>6. CASE st.bits # 0
  <2> DEFINE x == st.bits
  <2>1. PICK b \in 0 .. 255 : Partly(new) /\ Grown(st, d, new, b)
    BY <1>1, <1>2, <1>6, ShiftByte
  <2>2. /\ new.out = Append(out, b) /\ new.bits = x - 2
        /\ \A j \in 0 .. 7 : Bit(b, j) = IF j < 8 - x THEN Bit(d, j + (x - 2)) ELSE Bit(st.acc, j - (8 - x))
        /\ \A j \in 0 .. (new.bits - 1) : Bit(new.acc, j) = Bit(d, j)
    BY <2>1 DEF Grown
  <2> HIDE DEF x, d
  <2>3. x \in {2, 4, 6} /\ 6 * i = 8 * n + x
    BY <1>2, <1>3, <1>6 DEF x
  <2>4. Len(new.out) = n + 1 /\ new.out[n + 1] = b /\ \A j \in 1 .. n : new.out[j] = out[j]
    BY <1>3, <2>2
  <2> HIDE DEF n, out
  <2>5. 6 * (i + 1) = 8 * Len(new.out) + new.bits
    BY <1>3, <2>2, <2>3, <2>4
  <2>6. \A j \in 0 .. (x - 3) : Bit(new.acc, j) = Bit(d, j)
    <3>1. new.bits - 1 = x - 3
      BY <2>2, <2>3
    <3> QED
      BY <2>2, <3>1
  <2>7. ASSUME NEW k \in 0 .. (6 * (i + 1) - 1) PROVE bit(k) = has(new, i + 1, k)
    <3>1. CASE k < 8 * n
      <4>1. k \div 8 < n /\ k \in 0 .. (6 * i - 1) /\ k \div 8 + 1 \in 1 .. n /\ k \div 8 < n + 1
        BY <1>3, <2>3, <3>1
      <4>2. has(st, i, k) = has(new, i + 1, k)
        BY <2>4, <4>1 DEF n, out
      <4> HIDE DEF bit, has
      <4> QED
        BY <1>2, <4>1, <4>2
    <3>2. CASE 8 * n <= k /\ k < 6 * i
      <4> DEFINE j == 7 - (k - 8 * n)
      <4>1. k \div 8 = n /\ k % 8 = k - 8 * n /\ j \in 0 .. 7 /\ ~ (j < 8 - x) /\ k \in 0 .. (6 * i - 1)
            /\ j - (8 - x) = 6 * i - 1 - k
        BY <1>3, <2>3, <3>2
      <4>2. has(st, i, k) = Bit(st.acc, 6 * i - 1 - k)
        BY <1>3, <4>1 DEF n, out
      <4>3. has(new, i + 1, k) = Bit(b, j)
        BY <1>3, <2>4, <4>1
      <4> HIDE DEF bit, has, j
      <4>4. Bit(b, j) = Bit(st.acc, 6 * i - 1 - k)
        BY <2>2, <4>1
      <4> QED
        BY <1>2, <4>1, <4>2, <4>3, <4>4
    <3>3. CASE 6 * i <= k /\ k < 8 * n + 8
      <4> DEFINE j == 7 - (k - 8 * n)
      <4>1. k \div 8 = n /\ k % 8 = k - 8 * n /\ j \in 0 .. 7 /\ j < 8 - x
            /\ j + (x - 2) = 6 * (i + 1) - 1 - k
        BY <1>3, <2>3, <3>3
      <4>3. has(new, i + 1, k) = Bit(b, j)
        BY <1>3, <2>4, <4>1
      <4> HIDE DEF bit, has, j
      <4>4. Bit(b, j) = Bit(d, 6 * (i + 1) - 1 - k)
        BY <2>2, <4>1
      <4> QED
        BY <1>4, <3>3, <4>3, <4>4
    <3>4. CASE 8 * n + 8 <= k
      <4> DEFINE j == 6 * (i + 1) - 1 - k
      <4>1. ~ (k \div 8 < n + 1) /\ j \in 0 .. (x - 3) /\ ~ (k < 6 * i)
        BY <1>3, <2>3, <3>4
      <4>2. has(new, i + 1, k) = Bit(new.acc, j)
        BY <2>4, <4>1
      <4> HIDE DEF has
      <4>3. Bit(new.acc, j) = Bit(d, j)
        <5>1. j \in 0 .. (x - 3)
          BY <4>1
        <5> HIDE DEF j
        <5> QED
          BY <2>6, <5>1
      <4> HIDE DEF bit
      <4> QED
        BY <1>4, <4>1, <4>2, <4>3
    <3> QED
      BY <1>3, <2>3, <3>1, <3>2, <3>3, <3>4
  <2> QED
    BY <2>1, <2>5, <2>7
<1> QED
  BY <1>5, <1>6

\* The decoder has read all digits.
LEMMA DecodedHolds ==
  ASSUME NEW digits \in Seq(Sextets)
  PROVE  Holds(digits, Len(digits), Decoded(digits))
<1> DEFINE n == Len(digits)
<1>1. PICK F : /\ Decoded(digits) = F[n] /\ F[0] = NoBytes
               /\ \A i \in 1 .. n : F[i] = Shift(F[i - 1], digits[i])
  BY DecodedSteps
<1> DEFINE I == {i \in Nat : i <= n => Holds(digits, i, F[i])}
<1>2. n \in Nat
  OBVIOUS
<1>3. Holds(digits, 0, NoBytes)
  <2>1. /\ NoBytes = [out |-> NoBytes.out, acc |-> NoBytes.acc, bits |-> NoBytes.bits]
        /\ NoBytes.out = <<>> /\ NoBytes.acc = 0 /\ NoBytes.bits = 0
    BY DEF NoBytes
  <2>2. <<>> \in Seq(0 .. 255) /\ Len(<<>>) = 0
    OBVIOUS
  <2>3. Partly(NoBytes)
    BY <2>1, <2>2 DEF Partly
  <2>4. 0 .. (6 * 0 - 1) = {} /\ 6 * 0 = 8 * Len(NoBytes.out) + NoBytes.bits
    BY <2>1, <2>2
  <2> QED
    BY <2>3, <2>4 DEF Holds
<1>4. 0 \in I
  BY <1>1, <1>3
<1>5. ASSUME NEW i \in Nat, i \in I PROVE i + 1 \in I
  <2> SUFFICES ASSUME i + 1 <= n PROVE Holds(digits, i + 1, F[i + 1])
    OBVIOUS
  <2>1. i < n /\ i + 1 \in 1 .. n /\ (i + 1) - 1 = i
    BY <1>2
  <2>2. Holds(digits, i, F[i])
    BY <1>5, <2>1, <1>2
  <2>3. F[i + 1] = Shift(F[i], digits[i + 1])
    BY <1>1, <2>1
  <2> QED
    BY <2>1, <2>2, <2>3, DigitKeeps
<1>6. \A i \in Nat : i \in I
  <2> HIDE DEF I
  <2> QED
    BY <1>4, <1>5, NatSet
<1> QED
  BY <1>1, <1>2, <1>6

Letters == 0 .. NoDigit
Payloads == Seq(Letters)

\* There are letters before the = at the end, or none.
LEMMA DigitsAreLetters ==
  ASSUME NEW s \in Payloads
  PROVE  Digits(s) \in Payloads
<1> DEFINE n == Len(s)
           Ends(m) == m = 0 \/ s[m] # Pad
           Cut(m) == Ends(m) /\ \A i \in (m + 1) .. n : s[i] = Pad
           J == {j \in Nat : j <= n => (\E m \in 0 .. n : Cut(m)) \/ \A i \in (n - j + 1) .. n : s[i] = Pad}
<1>1. n \in Nat
  BY DEF Payloads
<1>2. 0 \in J
  BY <1>1
<1>3. ASSUME NEW j \in Nat, j \in J PROVE j + 1 \in J
  <2> SUFFICES ASSUME j + 1 <= n, ~ \E m \in 0 .. n : Cut(m)
               PROVE  \A i \in (n - (j + 1) + 1) .. n : s[i] = Pad
    OBVIOUS
  <2> HIDE DEF n
  <2>1. j <= n
    BY <1>1
  <2>2. \A i \in (n - j + 1) .. n : s[i] = Pad
    BY <1>3, <2>1
  <2>3. n - j \in 0 .. n /\ ~ Cut(n - j)
    BY <1>1, <2>1
  <2>4. s[n - j] = Pad
    BY <2>2, <2>3
  <2>5. n - (j + 1) + 1 = n - j /\ \A i \in (n - j) .. n : i = n - j \/ i \in (n - j + 1) .. n
    BY <1>1, <2>1
  <2> QED
    BY <2>2, <2>4, <2>5
<1>4. \E m \in 0 .. n : Cut(m)
  <2>1. \A j \in Nat : j \in J
    <3> HIDE DEF J
    <3> QED
      BY <1>2, <1>3, NatSet
  <2> HIDE DEF n
  <2>2. n \in J /\ n <= n
    <3> HIDE DEF J
    <3> QED
      BY <1>1, <2>1
  <2>3. (\E m \in 0 .. n : Cut(m)) \/ \A i \in (n - n + 1) .. n : s[i] = Pad
    BY <2>2
  <2>4. n - n + 1 = 0 + 1 /\ 0 \in 0 .. n
    BY <1>1
  <2> QED
    BY <2>3, <2>4
<1>5. PICK m \in 0 .. n : Digits(s) = SubSeq(s, 1, m)
  <2>1. (CHOOSE m \in 0 .. n : Cut(m)) \in 0 .. n
    BY <1>4
  <2> QED
    BY <2>1 DEF Digits
<1>6. SubSeq(s, 1, m) \in Payloads
  BY <1>1, <1>5, SubSeqProperties DEF Payloads
<1> QED
  BY <1>5, <1>6

\* What DecodedUnits gives has the bits of the payload.
LEMMA UnitsHaveTheBits ==
  ASSUME NEW s \in Payloads, NEW us \in DecodedUnits(s)
  PROVE  HasTheBits(s, us) /\ Digits(s) \in Seq(Sextets) /\ Len(us) \in Nat
<1> DEFINE digits == Digits(s)
           n == Len(digits)
           end == Decoded(digits)
           bs == end.out
           byte(b) == (us[b \div 2 + 1] \div (IF b % 2 = 0 THEN 1 ELSE 256)) % 256
<1>1. /\ bs \in DecodedBytes(s) /\ Len(bs) % 2 = 0 /\ AllDigits(digits) /\ n % 4 # 1 /\ end.acc = 0
      /\ us = [i \in 1 .. (Len(bs) \div 2) |-> bs[2 * i - 1] + 256 * bs[2 * i]]
  <2>1. PICK b \in DecodedBytes(s) : /\ Len(b) % 2 = 0
                                     /\ us = [i \in 1 .. (Len(b) \div 2) |-> b[2 * i - 1] + 256 * b[2 * i]]
    BY Zenon DEF DecodedUnits
  <2>2. b = bs /\ AllDigits(digits) /\ n % 4 # 1 /\ end.acc = 0
    BY <2>1, Zenon DEF DecodedBytes
  <2> HIDE DEF bs, n, end, digits
  <2> QED
    BY <2>1, <2>2
<1>2. digits \in Seq(Sextets)
  <2>1. digits \in Seq(Letters)
    BY DigitsAreLetters DEF Payloads
  <2>2. \A i \in 1 .. n : digits[i] < 64
    BY <1>1 DEF AllDigits, Pad
  <2> HIDE DEF digits
  <2>3. n \in Nat /\ \A i \in 1 .. n : digits[i] \in Letters
    BY <2>1
  <2>4. \A v \in Letters : v < 64 => v \in Sextets
    BY DEF Sextets, Letters, NoDigit
  <2>5. \A i \in 1 .. n : digits[i] \in Sextets
    BY <2>2, <2>3, <2>4
  <2> QED
    BY <2>1, <2>5
<1>3. Holds(digits, n, end)
  BY <1>2, DecodedHolds
<1> HIDE DEF digits, end
<1>4. /\ bs \in Seq(0 .. 255) /\ end.bits \in {0, 2, 4, 6} /\ 6 * n = 8 * Len(bs) + end.bits
      /\ \A k \in 0 .. (6 * n - 1) :
           Bit(digits[k \div 6 + 1], 5 - (k % 6)) =
             IF k \div 8 < Len(bs) THEN Bit(bs[k \div 8 + 1], 7 - (k % 8)) ELSE Bit(0, 6 * n - 1 - k)
  <2>1. Partly(end)
    BY <1>3, Zenon DEF Holds
  <2>2. bs \in Seq(0 .. 255) /\ end.bits \in {0, 2, 4, 6}
    BY <2>1, Zenon DEF Partly
  <2>3. 6 * n = 8 * Len(bs) + end.bits
    BY <1>3, Zenon DEF Holds
  <2>4. \A k \in 0 .. (6 * n - 1) :
           Bit(digits[k \div 6 + 1], 5 - (k % 6)) =
             IF k \div 8 < Len(bs) THEN Bit(bs[k \div 8 + 1], 7 - (k % 8)) ELSE Bit(0, 6 * n - 1 - k)
    BY <1>1, <1>3, Zenon DEF Holds
  <2> QED
    BY <2>2, <2>3, <2>4
<1> DEFINE m == Len(bs)
           x == end.bits
           L == Len(us)
<1>5. n \in Nat /\ m \in Nat
  BY <1>2, <1>4
<1> HIDE DEF bs
<1>6. L = m \div 2 /\ m = 2 * L /\ L \in Nat
      /\ \A i \in 1 .. L : us[i] = bs[2 * i - 1] + 256 * bs[2 * i]
  <2> HIDE DEF m
  <2>1. us = [i \in 1 .. (m \div 2) |-> bs[2 * i - 1] + 256 * bs[2 * i]] /\ m % 2 = 0
    BY <1>1 DEF m
  <2>2. m \div 2 \in Nat /\ m = 2 * (m \div 2)
    BY <1>5, <2>1
  <2>3. L = m \div 2
    BY <2>1, <2>2
  <2> HIDE DEF L
  <2> QED
    BY <2>1, <2>2, <2>3
<1>7. 6 * n - 16 * L \in 0 .. 5
  <2>1. x # 6
    <3> HIDE DEF m, n, x
    <3>1. 6 * n = 8 * m + x /\ n % 4 # 1
      BY <1>1, <1>4 DEF m, n, x
    <3> QED
      BY <1>5, <3>1
  <2> HIDE DEF m, n, x, L
  <2> QED
    BY <1>4, <1>5, <1>6, <2>1 DEF m, n, x
<1>8. ASSUME NEW b \in 0 .. (m - 1) PROVE byte(b) = bs[b + 1]
  <2> DEFINE h == b \div 2
             lo == bs[2 * h + 1]
             hi == bs[2 * h + 2]
  <2> HIDE DEF L, m
  <2>1. h \in 0 .. (L - 1) /\ h + 1 \in 1 .. L /\ 2 * h + 1 \in 1 .. m /\ 2 * h + 2 \in 1 .. m
        /\ 2 * (h + 1) - 1 = 2 * h + 1 /\ 2 * (h + 1) = 2 * h + 2
    BY <1>5, <1>6
  <2>2. lo \in 0 .. 255 /\ hi \in 0 .. 255
    <3> HIDE DEF h
    <3>1. \A j \in 1 .. m : bs[j] \in 0 .. 255
      BY <1>4, ElementOfSeq DEF m
    <3> QED
      BY <2>1, <3>1
  <2>3. us[h + 1] = lo + 256 * hi
    <3> HIDE DEF h
    <3> QED
      BY <1>6, <2>1
  <2>4. (us[h + 1] \div 1) % 256 = lo /\ (us[h + 1] \div 256) % 256 = hi
    <3> DEFINE u == us[h + 1]
    <3> HIDE DEF h, lo, hi, u
    <3>1. u = lo + 256 * hi
      BY <2>3 DEF u
    <3>2. (u \div 1) % 256 = lo /\ (u \div 256) % 256 = hi
      BY <2>2, <3>1
    <3> QED
      BY <3>2 DEF u
  <2>5. CASE b % 2 = 0
    <3>1. b + 1 = 2 * h + 1
      BY <1>5, <2>5
    <3>2. byte(b) = lo
      BY <2>4, <2>5, Zenon
    <3> HIDE DEF h, byte
    <3> QED
      BY <3>1, <3>2
  <2>6. CASE b % 2 # 0
    <3>1. b + 1 = 2 * h + 2
      BY <1>5, <2>6
    <3>2. byte(b) = hi
      BY <2>4, <2>6, Zenon
    <3> HIDE DEF h, byte
    <3> QED
      BY <3>1, <3>2
  <2> QED
    BY <2>5, <2>6
<1>9. ASSUME NEW k \in 0 .. (6 * n - 1)
      PROVE  Bit(digits[k \div 6 + 1], 5 - (k % 6)) =
               IF k \div 8 < 2 * L THEN Bit(byte(k \div 8), 7 - (k % 8)) ELSE 0
  <2> HIDE DEF L, m, n, byte
  <2>1. k \in Nat /\ k \div 8 \in Nat
    BY <1>5
  <2>2. CASE k \div 8 < m
    <3>1. k \div 8 \in 0 .. (m - 1) /\ k \div 8 < 2 * L
      BY <1>5, <1>6, <2>1, <2>2
    <3> DEFINE q == k \div 8
    <3>2. byte(q) = bs[q + 1]
      BY <1>8, <3>1
    <3> QED
      BY <1>4, <2>2, <3>1, <3>2 DEF m, n
  <2>3. CASE ~ (k \div 8 < m)
    <3>1. 6 * n - 1 - k \in 0 .. 7 /\ ~ (k \div 8 < 2 * L)
      <4>1. 6 * n = 8 * m + x /\ x \in {0, 2, 4, 6} /\ m = 2 * L
        BY <1>4, <1>6 DEF m, n, x
      <4> HIDE DEF x
      <4> QED
        BY <1>5, <2>1, <2>3, <4>1
    <3>2. Bit(0, 6 * n - 1 - k) = 0
      BY <3>1, NoBits
    <3> QED
      BY <1>4, <2>3, <3>1, <3>2 DEF m, n
  <2> QED
    BY <2>2, <2>3
<1> QED
  BY <1>2, <1>6, <1>7, <1>9 DEF HasTheBits, digits

\* deny.rs, decode_powershell_encoded_command: in every payload that is accepted, of
\* any length, the units of the script are the bits of the digits.
THEOREM BitsCorrect == CodeSpec => []DecodesTheBits
<1> DEFINE Inv == letters \in Payloads
<1>1. CodeInit => Inv
  BY DEF CodeInit, Payloads
<1>2. Inv /\ [CodeNext]_letters => Inv'
  <2> SUFFICES ASSUME letters \in Payloads, NEW d \in Sextet, letters' = Append(letters, d)
               PROVE  letters' \in Payloads
    BY DEF CodeNext, Letter
  <2>1. d \in Letters
    BY SextetAssumption DEF SextetAssumption, Letters
  <2> QED
    BY <2>1 DEF Payloads
<1>3. Inv => DecodesTheBits
  BY UnitsHaveTheBits DEF DecodesTheBits
<1> QED
  BY <1>1, <1>2, <1>3, PTL DEF CodeSpec

\* A digit is its bits.
LEMMA DigitIsItsBits ==
  ASSUME NEW d \in Sextets, NEW e \in Sextets, \A j \in 0 .. 5 : Bit(d, j) = Bit(e, j)
  PROVE  d = e
<1>1. d \in 0 .. 63 /\ e \in 0 .. 63
  BY DEF Sextets
<1>2. Values(d) /\ Values(e)
  BY <1>1, BitValues
<1>3. /\ Bit(d, 0) = Bit(e, 0) /\ Bit(d, 1) = Bit(e, 1) /\ Bit(d, 2) = Bit(e, 2)
      /\ Bit(d, 3) = Bit(e, 3) /\ Bit(d, 4) = Bit(e, 4) /\ Bit(d, 5) = Bit(e, 5)
  OBVIOUS
<1>4. /\ d % 2 = e % 2 /\ (d \div 2) % 2 = (e \div 2) % 2 /\ (d \div 4) % 2 = (e \div 4) % 2
      /\ (d \div 8) % 2 = (e \div 8) % 2 /\ (d \div 16) % 2 = (e \div 16) % 2 /\ (d \div 32) % 2 = (e \div 32) % 2
  BY <1>2, <1>3 DEF Values
<1> QED
  BY <1>1, <1>4

\* deny.rs, decode_rfc4648_base64: two payloads that are accepted for one script
\* differ in nothing but the = behind them, so no letter of one is without effect.
THEOREM OneCode ==
  ASSUME NEW s \in Payloads, NEW t \in Payloads,
         NEW us \in DecodedUnits(s), us \in DecodedUnits(t)
  PROVE  Digits(s) = Digits(t)
<1> DEFINE ds == Digits(s)
           es == Digits(t)
           n == Len(ds)
           byte(b) == (us[b \div 2 + 1] \div (IF b % 2 = 0 THEN 1 ELSE 256)) % 256
           bit(k) == IF k \div 8 < 2 * Len(us) THEN Bit(byte(k \div 8), 7 - (k % 8)) ELSE 0
           has(digits) == \A k \in 0 .. (6 * Len(digits) - 1) : Bit(digits[k \div 6 + 1], 5 - (k % 6)) = bit(k)
<1>1. /\ 6 * Len(ds) - 16 * Len(us) \in 0 .. 5 /\ has(ds) /\ ds \in Seq(Sextets)
      /\ 6 * Len(es) - 16 * Len(us) \in 0 .. 5 /\ has(es) /\ es \in Seq(Sextets)
      /\ Len(us) \in Nat
  BY UnitsHaveTheBits, Zenon DEF HasTheBits
<1> HIDE DEF ds, es, bit
<1>2. n \in Nat /\ Len(es) = n
  BY <1>1
<1>3. ASSUME NEW i \in 1 .. n PROVE ds[i] = es[i]
  <2>1. ds[i] \in Sextets /\ es[i] \in Sextets
    BY <1>1, <1>2, <1>3
  <2>2. ASSUME NEW j \in 0 .. 5 PROVE Bit(ds[i], j) = Bit(es[i], j)
    <3> DEFINE k == 6 * (i - 1) + 5 - j
    <3> HIDE DEF n
    <3>1. k \in 0 .. (6 * n - 1) /\ k \div 6 + 1 = i /\ 5 - (k % 6) = j
      BY <1>2, <1>3
    <3> HIDE DEF k
    <3>2. Bit(ds[k \div 6 + 1], 5 - (k % 6)) = bit(k) /\ Bit(es[k \div 6 + 1], 5 - (k % 6)) = bit(k)
      BY <1>1, <1>2, <3>1 DEF n
    <3> QED
      BY <3>1, <3>2
  <2> QED
    BY <2>1, <2>2, DigitIsItsBits
<1> QED
  BY <1>1, <1>2, <1>3, SeqEqual DEF ds, es
=============================================================================
