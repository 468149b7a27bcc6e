------------------------------- MODULE MCCommand -------------------------------
(***************************************************************************)
(* Sources for every way the other parts can deal with one, and command    *)
(* lines with each of them, in two invocations.                            *)
(***************************************************************************)
EXTENDS Command, TLC

CONSTANTS p, q

Symmetry == Permutations(Procs)

Path(x) == <<x, ".", "arb">>
Twice == <<".", "/", "a", ".", "arb">>

Good == [parse |-> "ok", place |-> TRUE, generate |-> "ok", size |-> 3, main |-> TRUE,
         calls |-> FALSE, ends |-> "number", value |-> 0]

MCSource ==
    Path("a") :> [Good EXCEPT !.calls = TRUE] @@
    Twice :> [Good EXCEPT !.calls = TRUE, !.value = 1] @@
    Path("b") :> [Good EXCEPT !.size = 5, !.value = 256] @@
    Path("errors") :> [Good EXCEPT !.parse = "errors"] @@
    Path("eof") :> [Good EXCEPT !.parse = "eof"] @@
    Path("missing") :> [Good EXCEPT !.parse = "missing"] @@
    Path("twice") :> [Good EXCEPT !.generate = "exits"] @@
    Path("refused") :> [Good EXCEPT !.generate = "crashes"] @@
    Path("nested") :> [Good EXCEPT !.place = FALSE, !.size = 1, !.ends = "other"] @@
    Path("nomain") :> [Good EXCEPT !.size = 2, !.main = FALSE] @@
    Path("fails") :> [Good EXCEPT !.ends = "error"]

MCSources == DOMAIN MCSource
MCPaths == Seq(STRING)

File(x) == [kind |-> "file", name |-> x]
Opt(x) == [kind |-> "short", name |-> x]
Long(x) == [kind |-> "long", name |-> x]
Dash == [kind |-> "dash", name |-> ""]

Line(cmd, args) == [cmd |-> cmd, args |-> args]

MCLines ==
    {Line("none", <<>>), Line("test", <<>>), Line("unknown", <<>>), Line("run", <<>>),
     Line("run", <<File(Path("a")), File(Path("b"))>>),
     Line("run", <<Opt("v"), File(Path("a"))>>),
     Line("run", <<File(Path("errors")), Long("syntax")>>),
     Line("build", <<Dash, File(Path("a")), File(Path("b"))>>),
     Line("build", <<Opt("o"), File(<<"out">>), File(Path("a")), File(Path("b"))>>),
     Line("build", <<Opt("o"), File(<<"out">>), File(Path("nomain"))>>),
     Line("build", <<File(Path("b")), Opt("o")>>),
     Line("build", <<Long("syntax"), File(Path("a")), File(Path("errors"))>>),
     Line("build", <<File(Path("a")), Opt("v"), File(Path("b"))>>),
     Line("build", <<File(Path("a")), File(Path("errors")), File(Path("b"))>>),
     Line("build", <<File(Path("a")), File(Path("eof"))>>),
     Line("build", <<File(Path("nested"))>>)} \cup
    {Line("run", <<File(s)>>) : s \in MCSources}
=============================================================================
