--------------------------- MODULE MCCommandWalk ---------------------------
(* Seventeen words: programs, options, and names of two denied files. *)
EXTENDS CommandWalk

McDenied == {".env", "id"}
McDotted == {".env"}
McWords ==
  {Name(n) : n \in {"env", "sh", "cmd", "pwsh", ".env"}} \union
  {Assign("A", Name("id")), Dash, Call(Name(".env")), Colon(Name("id")),
   Bare("-", "c"), Bare("/", "c"), Bare("-", "S"),
   Opt("-", "f", "tight", Name("id")), Opt("-", "D", "tight", Name(".env")),
   Opt("--", "file", "=", Name("id")), Opt("-", "File", ":", Name("id")),
   Bare("-", "ec")}
McSextets == {0, 13, 32, 55, Pad, NoDigit}
=============================================================================
