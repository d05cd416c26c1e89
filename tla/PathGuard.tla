----------------------------- MODULE PathGuard -----------------------------
(***************************************************************************)
(* guard.rs: choosing the workspace and one extra root, building the guard *)
(* and checking one path with it, on any of a set of file trees.           *)
(*                                                                         *)
(* A path is the sequence of its components from /, and "/" is << >>.      *)
(* Simplifications:                                                        *)
(* - a file tree does not change between the calls;                        *)
(* - no drive prefixes, no /private spelling of /tmp, /var and /etc, no    *)
(*   names that are not UTF-8;                                             *)
(* - every directory may be searched, so canonicalize fails only on a      *)
(*   missing file, a file used as a directory, or too many links.          *)
(***************************************************************************)
EXTENDS Integers, SequencesExt, FiniteSets

CONSTANTS
  Tree,      \* file trees: functions from paths to nodes, without "/"
  Cwd,
  Home,      \* canonical
  Temp,      \* /tmp and its like
  RootAsked, \* texts given as --root
  ExtraAsked,\* texts given as an extra root
  PathAsked, \* texts given to check_path and check_path_entry
  MaxLinks,  \* bound: links followed before ELOOP
  MaxExtras  \* bound: extra roots that are asked for

\* A text: absolute or relative, with its components; ".." is one.
Text(abs, parts) == [abs |-> abs, parts |-> parts]

\* A node has the kind "none", "dir", "file" or "link"; a link holds its text.
Nothing == [kind |-> "none"]
ADir    == [kind |-> "dir"]

Paths == Seq(STRING)
Texts == [abs : BOOLEAN, parts : Paths]

ASSUME GuardAssumption ==
  /\ \A t \in Tree : \A p \in DOMAIN t :
       \/ t[p] \in {Nothing, ADir, [kind |-> "file"]}
       \/ t[p].kind = "link" /\ t[p].abs \in BOOLEAN /\ t[p].parts \in Paths
  /\ Cwd \in Paths /\ Temp \in Paths
  /\ RootAsked \subseteq Texts /\ ExtraAsked \subseteq Texts /\ PathAsked \subseteq Texts
  /\ MaxLinks \in Nat /\ MaxExtras \in Nat

VARIABLES
  fs,      \* the file tree
  phase,   \* root, extra, check, done or failed
  asked,   \* history: texts that were given, by what they were given as
  roots,   \* the guard's roots, primary first
  policy,  \* reject, contained or additional
  answer   \* of the check

vars == <<fs, phase, asked, roots, policy, answer>>

-----------------------------------------------------------------------------
(* The file system. *)

Node(t, p) == IF p = <<>> THEN ADir ELSE IF p \in DOMAIN t THEN t[p] ELSE Nothing

Parent(p) == IF p = <<>> THEN p ELSE Front(p)

\* A walk of the kernel: where it is, the components before it, the links it
\* may still follow, and whether the last component may be missing.
Walks == [at : Paths, rest : Paths, links : 0 .. MaxLinks, new : BOOLEAN]

Ahead(t, w) == Node(t, Append(w.at, Head(w.rest)))

GoesOn(t, w) ==
  /\ w.rest # <<>> /\ Node(t, w.at).kind = "dir"
  /\ \/ Head(w.rest) = ".."
     \/ Ahead(t, w).kind \in {"dir", "file"}
     \/ Ahead(t, w).kind = "link" /\ w.links > 0

Onward(t, w) ==
  LET name == Head(w.rest)
      link == Ahead(t, w)
  IN IF name = ".." THEN [w EXCEPT !.at = Parent(@), !.rest = Tail(@)]
     ELSE IF link.kind # "link" THEN [w EXCEPT !.at = Append(@, name), !.rest = Tail(@)]
     ELSE [w EXCEPT !.at = IF link.abs THEN <<>> ELSE @, !.rest = link.parts \o Tail(@), !.links = @ - 1]

\* Where a walk ends that goes on no more: one path or none.
Arrival(t, w) ==
  IF w.rest = <<>> THEN {w.at}
  ELSE {p \in {Append(w.at, Head(w.rest))} :
          /\ w.new /\ Len(w.rest) = 1 /\ Head(w.rest) # ".."
          /\ Node(t, w.at).kind = "dir" /\ Ahead(t, w).kind = "none"}

Reach(t) ==
  LET reach[w \in Walks] == IF GoesOn(t, w) THEN reach[Onward(t, w)] ELSE Arrival(t, w)
  IN reach

FromTop(p, new) == [at |-> <<>>, rest |-> p, links |-> MaxLinks, new |-> new]

\* canonicalize: the file itself, if there is one.
Canon(p) == Reach(fs)[FromTop(p, FALSE)]

\* The file that creating p would make.
Landing(p) == Reach(fs)[FromTop(p, TRUE)]

\* symlink_metadata: the last component is not followed.
Metadata(p) ==
  IF p = <<>> THEN {ADir}
  ELSE {n \in {Node(fs, Append(d, Last(p))) : d \in {e \in Canon(Front(p)) : Node(fs, e).kind = "dir"}} :
          n # Nothing}

-----------------------------------------------------------------------------
(* Choosing the roots: resolve_workspace_root and resolve_extra_root_pair. *)

Joined(dir, t) == IF t.abs THEN t.parts ELSE dir \o t.parts

TempNames == {Temp} \union Canon(Temp)

ExplicitRoot(t) == t = Text(TRUE, <<>>)
ExplicitTemp(t) == t.abs /\ t.parts \in TempNames

\* Mutant: a root that a link leads to is as good as one that was named.
AnyRoot(t) == {q \in Canon(Joined(Cwd, t)) : Node(fs, q).kind = "dir" /\ q # Home}

\* The directory a text names, unless it is too wide to be meant.
Resolved(t) ==
  {q \in Canon(Joined(Cwd, t)) :
     /\ Node(fs, q).kind = "dir"
     /\ q = <<>> => ExplicitRoot(t)
     /\ q \in TempNames => ExplicitTemp(t)
     /\ q # Home}

GuardTypeOK ==
  /\ fs \in Tree
  /\ phase \in {"root", "extra", "check", "done", "failed"}
  /\ asked \in [roots : SUBSET Texts, path : Texts, follow : {"none", "final", "parent"}]
  /\ roots \in Seq(Paths)
  /\ phase = "root" => roots = <<>>
  /\ phase \in {"extra", "check", "done"} => roots # <<>>
  /\ policy \in {"reject", "contained", "additional"}
  /\ answer \in [kind : {"none", "ok", "escape", "vault", "absolute"}, path : Paths]

Init ==
  /\ fs \in Tree
  /\ phase = "root"
  /\ asked = [roots |-> {}, path |-> Text(TRUE, <<>>), follow |-> "none"]
  /\ roots = <<>>
  /\ policy \in {"reject", "contained", "additional"}
  /\ answer = [kind |-> "none", path |-> <<>>]

ResolveRoot(t) ==
  /\ phase = "root"
  /\ asked' = [asked EXCEPT !.roots = {t}]
  /\ \/ Resolved(t) = {} /\ phase' = "failed" /\ UNCHANGED roots
     \/ /\ \E q \in Resolved(t) : roots' = <<q>>
        /\ phase' = IF policy = "additional" THEN "extra" ELSE "check"
  /\ UNCHANGED <<fs, policy, answer>>

\* PathGuard::new adds each extra root that is not among the roots yet.
ResolveExtra(t) ==
  /\ phase = "extra" /\ Cardinality(asked.roots) <= MaxExtras
  /\ asked' = [asked EXCEPT !.roots = @ \union {t}]
  /\ \/ Resolved(t) = {} /\ phase' = "failed" /\ UNCHANGED roots
     \/ /\ \E q \in Resolved(t) : roots' = IF q \in ToSet(roots) THEN roots ELSE Append(roots, q)
        /\ UNCHANGED phase
  /\ UNCHANGED <<fs, policy, answer>>

-----------------------------------------------------------------------------
(* walk_guarded. *)

Ok(p)   == [kind |-> "ok", path |-> p]
Deny(k) == [kind |-> k, path |-> <<>>]

Inside(p, R) == \E r \in R : IsPrefix(r, p)

\* normalize_lexical: ".." drops a component, and "/.." is "/".
Lexical(parts) ==
  LET upto[i \in 0 .. Len(parts)] ==
        IF i = 0 THEN <<>>
        ELSE IF parts[i] = ".." THEN Parent(upto[i - 1]) ELSE Append(upto[i - 1], parts[i])
  IN upto[Len(parts)]

\* relative_escapes_primary: at some point more ".." than names.
ClimbsOut(parts) ==
  \E i \in DOMAIN parts : 2 * Cardinality({j \in 1 .. i : parts[j] = ".."}) > i

\* longest_existing_prefix.
Prefix(p) ==
  SubSeq(p, 1, CHOOSE k \in 0 .. Len(p) :
    /\ \A j \in 1 .. k : Metadata(SubSeq(p, 1, j)) # {}
    /\ k = Len(p) \/ Metadata(SubSeq(p, 1, k + 1)) = {})

Rest(p) == SubSeq(p, Len(Prefix(p)) + 1, Len(p))

HasLink(p) == \E j \in 1 .. Len(p) : \E n \in Metadata(SubSeq(p, 1, j)) : n.kind = "link"

\* lexical_symlink_target: the text of the link at the end of the prefix, and
\* the remaining components, are followed as text.
Target(p) ==
  LET link == CHOOSE n \in Metadata(Prefix(p)) : TRUE
  IN Lexical((IF link.abs THEN link.parts ELSE Front(Prefix(p)) \o link.parts) \o Rest(p))

\* The file is there.
Existing(p, R) ==
  LET q == CHOOSE q \in Canon(p) : TRUE
  IN IF Inside(q, R) THEN Ok(q) ELSE Deny(IF Inside(p, R) THEN "vault" ELSE "escape")

\* The prefix ends in a link that leads nowhere.
Dangling(p, R) ==
  IF Inside(Target(p), R) THEN Ok(Target(p)) ELSE Deny("vault")

\* Mutant: a missing file is judged by its text.
MissingByText(p, R) == IF Inside(p, R) THEN Ok(p) ELSE Deny("escape")

\* The directory of the first missing component is there.
Missing(p, R) ==
  LET q == (CHOOSE q \in Canon(Prefix(p)) : TRUE) \o Rest(p)
  IN IF Inside(q, R) THEN Ok(q)
     ELSE Deny(IF HasLink(Prefix(p)) /\ Inside(Prefix(p), R) THEN "vault" ELSE "escape")

Walk(start, R) ==
  LET p == Lexical(start)
  IN IF Canon(p) # {} THEN Existing(p, R)
     ELSE IF Canon(Prefix(p)) = {} THEN Dangling(p, R)
     ELSE Missing(p, R)

-----------------------------------------------------------------------------
(* check_inner. *)

\* Mutant: the last component is followed.
EntryFollowed(start, R) == Walk(start, R)

\* resolve with Follow::Parent: the last component is kept as it is, and a
\* path that ends in ".." has none.
Entry(start, R) ==
  LET dir == Walk(Front(start), R)
  IN IF dir.kind # "ok" \/ Last(start) = ".." THEN dir ELSE Ok(Append(dir.path, Last(start)))

Resolve(start, R, follow) ==
  IF follow = "final" THEN Walk(start, R)
  ELSE IF start = <<>> THEN Deny("escape")
  ELSE Entry(start, R)

\* A relative path is for the primary root alone.
Verdict(t, follow) ==
  IF t.abs THEN
    IF policy = "reject" THEN Deny("absolute")
    ELSE Resolve(t.parts, IF policy = "contained" THEN {roots[1]} ELSE ToSet(roots), follow)
  ELSE IF ClimbsOut(t.parts) THEN Deny("escape")
  ELSE Resolve(roots[1] \o t.parts, {roots[1]}, follow)

Check(t, follow) ==
  /\ phase \in {"extra", "check"} /\ phase' = "done"
  /\ asked' = [asked EXCEPT !.path = t, !.follow = follow]
  /\ answer' = Verdict(t, follow)
  /\ UNCHANGED <<fs, roots, policy>>

Next ==
  \/ \E t \in RootAsked : ResolveRoot(t)
  \/ \E t \in ExtraAsked : ResolveExtra(t)
  \/ \E t \in PathAsked, follow \in {"final", "parent"} : Check(t, follow)

Spec == Init /\ [][Next]_vars

-----------------------------------------------------------------------------
(* Correctness. *)

Done == phase = "done"
Accepted == answer.kind = "ok"
Followed == asked.follow = "final"
PathText == asked.path
Start == Joined(roots[1], PathText)
OpenRoots == IF PathText.abs /\ policy = "additional" THEN ToSet(roots) ELSE {roots[1]}
NoWhere == Canon(Prefix(Lexical(Start))) = {}

\* One of the texts leads to the root, and names it if it is / or a temp directory.
Meant(root, texts) ==
  /\ Canon(root) = {root} /\ Node(fs, root).kind = "dir"
  /\ root # Home
  /\ \E t \in texts :
       /\ Canon(Joined(Cwd, t)) = {root}
       /\ root = <<>> => t = Text(TRUE, <<>>)
       /\ root \in TempNames => t.abs /\ t.parts \in TempNames

\* No root is the home directory; / and the temp directory are roots only when
\* they were named as such, and every root is a directory spelled the way the
\* kernel resolves it, whatever links the given texts went through.
\* (resolve_workspace_root, resolve_extra_root)
RootsAreMeant == \A i \in DOMAIN roots : Meant(roots[i], asked.roots)

\* The file that is read, written or created under an accepted path lies in a
\* root that was open to the text, unless the text ends in a link to nowhere.
\* (walk_guarded)
AcceptedStaysInside ==
  Done /\ Accepted /\ Followed /\ ~ NoWhere =>
    \A q \in Landing(answer.path) : Inside(q, OpenRoots)

\* The accepted path of an entry names an entry of a directory in the roots.
\* (check_path_entry)
EntryStaysInside ==
  Done /\ Accepted /\ ~ Followed /\ Len(Start) > 0 /\ Last(Start) # ".." =>
    /\ Last(answer.path) = Last(Start)
    /\ Canon(Prefix(Lexical(Front(Start)))) # {} =>
         \A q \in Landing(Front(answer.path)) : Inside(q, OpenRoots)

\* Neither a path nor an entry that is accepted lies outside the roots.
\* (check_path, check_path_entry)
StaysInside == AcceptedStaysInside /\ EntryStaysInside
=============================================================================
