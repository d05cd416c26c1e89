------------------------------ MODULE MCFiles ------------------------------
(***************************************************************************)
(* The two questions a host asks before it touches a file: PathGuard on    *)
(* trees with /w (the workspace, also /l), /o, /h (home) and /t (temp,     *)
(* also /tmp), where /w/a, /w/b, /w/b/c and /o/a vary; VerifiedRead with   *)
(* five paths in three directories, two beside the asked one (one of them  *)
(* denied), one in a directory of PATH, and a denied one in a directory    *)
(* nobody looks at.  A behaviour asks one of the two.                      *)
(***************************************************************************)
EXTENDS VerifiedRead, PathGuard

MCPath == {"notes", "copy", "env", "bin", "far"}
MCDirOf == [p \in MCPath |-> CASE p \in {"notes", "copy", "env"} -> "work"
                               [] p = "bin" -> "bin" [] OTHER -> "far"]

-----------------------------------------------------------------------------
(* The guard. *)

MCLink(abs, parts)  == [kind |-> "link", abs |-> abs, parts |-> parts]
MCNode(kind)        == [kind |-> kind]

MCDirs == {<<"w">>, <<"o">>, <<"h">>, <<"t">>}
MCPlain == {MCNode("none"), MCNode("dir"), MCNode("file")}

MCA == MCPlain \union {MCLink(TRUE, <<"w", "b">>), MCLink(TRUE, <<"w", "b", "c">>),
                       MCLink(TRUE, <<"o", "a">>), MCLink(FALSE, <<"..", "o">>), MCLink(TRUE, <<"t">>), MCLink(TRUE, <<>>)}
MCB == MCPlain \union {MCLink(TRUE, <<"o">>), MCLink(FALSE, <<"a">>)}
MCC == MCPlain \union {MCLink(FALSE, <<"..", "a">>), MCLink(TRUE, <<"o", "a">>)}
MCO == MCPlain \union {MCLink(TRUE, <<"w", "a">>), MCLink(TRUE, <<"w", "b">>)}

MCTreeOf(a, b, c, o) ==
  (<<"w", "a">> :> a) @@ (<<"w", "b">> :> b) @@ (<<"w", "b", "c">> :> c) @@ (<<"o", "a">> :> o)
  @@ (<<"l">> :> MCLink(FALSE, <<"w">>)) @@ (<<"tmp">> :> MCLink(FALSE, <<"t">>)) @@ [d \in MCDirs |-> MCNode("dir")]

MCTree == {MCTreeOf(a, b, c, o) : a \in MCA, b \in MCB \ {MCNode("dir")}, c \in {MCNode("none")}, o \in MCO}
          \union {MCTreeOf(a, MCNode("dir"), c, o) : a \in MCA, c \in MCC, o \in MCO}

MCCwd  == <<"w">>
MCHome == <<"h">>
MCTemp == <<"tmp">>

MCRootAsked == {Text(TRUE, <<"l">>), Text(TRUE, <<>>), Text(FALSE, <<"..">>), Text(FALSE, <<"a">>)}
MCExtraAsked == {Text(TRUE, <<"o", "a">>), Text(TRUE, <<"tmp">>), Text(FALSE, <<"a">>), Text(TRUE, <<"h">>)}

MCPathAsked ==
  {Text(FALSE, p) : p \in {<<"a">>, <<"b">>, <<"a", "c">>, <<"b", "c">>, <<"b", "c", "a">>, <<"..", "o">>,
                           <<"a", "..">>, <<"a", "..", "b">>, <<"a", "..", "..", "o">>, <<"b", "a">>, <<"b", "..", "a">>, <<>>}}
  \union {Text(TRUE, p) : p \in {<<"w", "a">>, <<"w", "b", "c">>, <<"o", "a">>, <<"l", "a">>, <<"t", "a">>,
                                 <<"..">>, <<"w", "a", "..", "b">>}}

-----------------------------------------------------------------------------
(* One of the two. *)

NoFiles == [p \in Path |-> NoInode]
OneTree == MCTreeOf(MCNode("none"), MCNode("none"), MCNode("none"), MCNode("none"))

AsksGuard == at = NoFiles
AsksRead  == fs = OneTree /\ phase = "root" /\ policy = "reject"

FilesInit == ReadInit /\ Init /\ (AsksGuard \/ AsksRead)

FilesNext ==
  \/ AsksGuard /\ changes = 0 /\ pc = "stat" /\ Next /\ UNCHANGED readVars
  \/ AsksRead /\ ReadNext /\ UNCHANGED vars

FilesSpec == FilesInit /\ [][FilesNext]_<<readVars, vars>>
=============================================================================
