----------------------------- MODULE ChildEnv -----------------------------
(***************************************************************************)
(* The environment of the child: mod.rs scrub_child_command and            *)
(* child_env_pairs, and main.rs apply_child_env on both systems.           *)
(*                                                                         *)
(* Simplifications: an environment is its set of names, which carry no     *)
(* case, and a value given with --env stands for itself.                   *)
(***************************************************************************)
CONSTANTS
  EnvNames,    \* names of variables, with PATH and SystemRoot
  DeniedNames, \* names a child does not inherit
  Loaders      \* names that --env cannot put back

ASSUME EnvAssumption ==
  /\ Loaders \subseteq DeniedNames
  /\ DeniedNames \subseteq EnvNames
  /\ {"PATH", "SystemRoot"} \subseteq EnvNames \ DeniedNames

-----------------------------------------------------------------------------
(* std::process::Command: what it will change of the parent's environment. *)

EnvChanges == [clear : BOOLEAN, set : SUBSET EnvNames, removed : SUBSET EnvNames]

NoChange == [clear |-> FALSE, set |-> {}, removed |-> {}]

EnvClear(c) == [clear |-> TRUE, set |-> {}, removed |-> {}]

EnvSet(c, names) ==
  [clear |-> c.clear, set |-> c.set \union names, removed |-> c.removed \ names]

\* After env_clear a removal is not recorded.
EnvRemove(c, names) ==
  [clear |-> c.clear, set |-> c.set \ names,
   removed |-> IF c.clear THEN c.removed ELSE c.removed \union names]

\* What a child started with these changes sees.
Seen(c, parent) == (IF c.clear THEN {} ELSE parent \ c.removed) \union c.set

-----------------------------------------------------------------------------
(* apply_child_env *)

ClearedUnix(parent) == EnvSet(EnvClear(NoChange), {"PATH"} \intersect parent)

\* Every inherited name on its own.
ClearedWindows(parent) == EnvSet(EnvRemove(NoChange, parent), {"PATH", "SystemRoot"} \intersect parent)

Applied(os, clear, asked, parent) ==
  EnvSet(IF ~clear THEN NoChange
         ELSE IF os = "windows" THEN ClearedWindows(parent) ELSE ClearedUnix(parent),
         asked)

-----------------------------------------------------------------------------
(* scrub_child_command, and the pairs of the Windows environment block. *)

Kept(c) == c.set \ Loaders

\* Mutant: a name that was set explicitly is kept, loader or not.
ScrubbedOnce(c, parent) == EnvRemove(c, (parent \intersect DeniedNames) \ c.set)

Scrubbed(c, parent) ==
  EnvRemove(c, ((parent \intersect DeniedNames) \ Kept(c)) \union (c.set \intersect Loaders))

Pairs(c, parent) ==
  {n \in ((IF c.clear THEN {} ELSE parent) \ (c.set \union c.removed)) \union Kept(c) :
     n \in DeniedNames => n \in Kept(c)}

\* What the child sees: Windows builds its block, elsewhere the command is scrubbed.
Started(os, c, parent) ==
  IF os = "windows" THEN Pairs(c, parent) ELSE Seen(Scrubbed(c, parent), parent)
=============================================================================
