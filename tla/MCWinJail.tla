----------------------------- MODULE MCWinJail -----------------------------
(* A small Windows jail: one root with one denied file, one read grant, one *)
(* secret directory of the profile, and the objects a run shares.          *)
EXTENDS WinJail

Objects == {"root", "ro", "denied", "secret", "bno", "restricted dir", "helper",
            "program", "pipe device"}
Roots == <<"root">>
Reads == <<"ro">>
DestDeny == <<"denied">>
SecretDirs == <<"secret">>
NameDirs == <<"bno">>
SpaceDirs == <<"restricted dir">>
System == {"ro"}
Before == [o \in Objects |-> {[sid |-> "world", mode |-> "grant"]}]
=============================================================================
