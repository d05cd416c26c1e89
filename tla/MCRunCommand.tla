---------------------------- MODULE MCRunCommand ----------------------------
(* Words around env, wrappers and bash; five names of variables. *)
EXTENDS RunCommand

McDenied == {".env"}
McDotted == {".env"}
McEnvNames == {"PATH", "SystemRoot", "LD", "TOKEN", "HOME"}
McDeniedNames == {"LD", "TOKEN"}
McLoaders == {"LD"}
Caller(name, os, parent) == [name |-> name, os |-> os, parent |-> parent]
McCallers == {Caller("run", "unix", McEnvNames),
              Caller("run", "windows", {"PATH", "SystemRoot", "LD", "TOKEN"}),
              Caller("policy", "unix", {"HOME", "TOKEN"})}
McMaxWords == <<4, 2, 1>>
McChildCodes == {0, 3}
McWords ==
  {Name(n) : n \in {"env", "timeout", "nice", "bash", "5"}} \union
  {Assign("TOKEN", Name("ok")), Assign("A", Name(".env")), Assign("A", Name("ok")),
   Dash, DashDash, Bare("-", "n"), Bare("-", "u"), Bare("-", "iS"),
   Opt("--", "split-string", "=", Line(<<Assign("TOKEN", Name("ok")), Name("bash")>>)),
   Line(<<Bare("-", "i"), Assign("LD", Name("ok")), Assign("A", Name("ok")), Name("bash")>>),
   Line(<<Name("5"), Name(".env")>>), Bare("--", "norc"), Bare("--", "noprofile"), Help, Version}
=============================================================================
