---------------------------- MODULE CommandText ----------------------------
(***************************************************************************)
(* deny.rs: what the scans and the rewriting of a command line see of it.  *)
(*                                                                         *)
(* A text is a tree: a file or program name, NAME=value, an option with    *)
(* its value, or a line of words in which a word may be quoted.            *)
(* Simplifications:                                                        *)
(* - names stand for their spellings with .exe, in capitals or with a      *)
(*   directory before them;                                                *)
(* - a quote opens only where a word starts, and ; or | stand between      *)
(*   words and outside of quotes.                                          *)
(***************************************************************************)
EXTENDS Integers, SequencesExt, FiniteSets

Name(n)   == [t |-> "name", n |-> n]
Assign(n, v) == [t |-> "assign", n |-> n, v |-> v]
\* dash is one of - -- /, glue says how the value follows: none, tight, = or :
Opt(dash, n, glue, v) == [t |-> "opt", dash |-> dash, n |-> n, glue |-> glue, v |-> v]
Bare(dash, n) == Opt(dash, n, "none", [t |-> "nothing"])
Dash      == [t |-> "dash"]
DashDash  == [t |-> "dashdash"]
Call(v)   == [t |-> "call", v |-> v]
Colon(v)  == [t |-> "colon", v |-> v]
Sep       == [t |-> "sep"]
Line(ws)  == CASE ws = <<>> -> Name("") [] Len(ws) = 1 -> ws[1] [] OTHER -> [t |-> "line", ws |-> ws]
Payload(line) == [t |-> "payload", v |-> line]

Named(w, names) == w.t = "name" /\ w.n \in names

\* The words of a text, without looking into quotes.
Pieces(t) == IF t.t = "line" THEN t.ws ELSE <<t>>

Valued(w) == w.t = "opt" /\ w.glue # "none"

\* The element after i, if there is one.
Next1(s, i) == IF i < Len(s) THEN {s[i + 1]} ELSE {}

After(s, i) == SubSeq(s, i + 1, Len(s))

IsEnv(w) == Named(w, {"env"})

\* The options of env: what the value is, and how many words they take.
EnvSplit == {"S", "iS", "split-string"}
EnvFile  == {"f", "file"}
EnvSkip  == {"u", "unset", "C", "chdir"}
EnvValued(w) == w.n \in EnvSplit \union EnvFile \union EnvSkip
EnvStep(w) == IF w.t = "opt" /\ w.glue = "none" /\ EnvValued(w) THEN 2 ELSE 1
EnvOperand(w, next) == IF w.glue = "none" THEN next ELSE {w.v}

\* A word with a quote at its start, or at its end.
Opened(w) == IF w.t = "assign" THEN w ELSE Name("quoted")
Closed(w) == IF w.t = "assign" \/ Valued(w) THEN [w EXCEPT !.v = Name("quoted")] ELSE Name("quoted")

\* split_whitespace, which knows no quotes.
Blanks(t) ==
  LET words(w) ==
        CASE w.t = "line" -> <<Opened(Head(w.ws))>> \o SubSeq(w.ws, 2, Len(w.ws) - 1) \o <<Closed(Last(w.ws))>>
          [] Valued(w) /\ w.v.t = "line" ->
               <<Name("quoted")>> \o SubSeq(w.v.ws, 2, Len(w.v.ws) - 1) \o <<Closed(Last(w.v.ws))>>
          [] OTHER -> <<w>>
  IN FlattenSeq([i \in 1..Len(Pieces(t)) |-> words(Pieces(t)[i])])
=============================================================================
