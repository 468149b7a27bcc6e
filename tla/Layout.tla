-------------------------------- MODULE Layout --------------------------------
(***************************************************************************)
(* The scanner (src/scanner.c) as far as lines and their indentation are   *)
(* concerned, and the table of line starts it fills (src/source.c).        *)
(*                                                                         *)
(* A file is [lines, ended]: each line is [ind, toks], the width of the    *)
(* white space at its start and its tokens [t, v], of which a comment can  *)
(* only be the last; `ended` says whether the last line has a newline.     *)
(* Which characters make up a token is left out, except for what becomes   *)
(* of the last one of a file: `next` leaves s->ch as it is where the file  *)
(* ends, so that the last character is read twice: 7 becomes 77.           *)
(***************************************************************************)
EXTENDS Integers, Sequences, FiniteSets

CONSTANTS
    Files,        \* the files to scan
    Words,        \* the tokens a repeated last character merely continues
    TableSize,    \* 1024: lineps_size
    PtrSize       \* sizeof(char *)

\* The kinds of tokens that a line consists of, as far as the parser is modelled,
\* and those that come from the layout of lines.
LineKinds ==
    {"COMMENT", "IDENT", "ATOM", "INT", "STRING", "CHAR", "UNDER", "AT", "PERIOD", "ELLIPSIS",
     "SLASH", "BSLASH", "EQ", "DEFINE", "PLUS", "MINUS", "LT", "GT", "LARROW", "LDARROW",
     "RARROW", "RDARROW", "REQARROW", "LPAREN", "RPAREN", "LBRACK", "RBRACK", "LBRACE", "RBRACE",
     "QUESTION", "PIPE", "AND", "COMMA", "COLON", "SEMICOLON"}

\* Tokens of one character, two of which are not another token.
SingleKinds ==
    {"UNDER", "AT", "SLASH", "BSLASH", "LPAREN", "RPAREN", "LBRACK", "RBRACK", "LBRACE", "RBRACE",
     "QUESTION", "PIPE", "AND", "COMMA", "COLON", "SEMICOLON", "PLUS", "LT", "EQ"}

LayoutKinds == {"INDENT", "DEDENT", "LF", "EOF"}

Tokens == [t : LineKinds, v : Nat]

\* No file is empty, and what a repeated last character makes of the last token
\* is modelled: a longer word, a second token, or an endless comment.
ASSUME FilesAssumption ==
    \A f \in Files :
      /\ f.ended \in BOOLEAN
      /\ f.lines \in Seq([ind : Nat, toks : Seq(Tokens)])
      /\ Len(f.lines) > 0
      /\ LET ts == f.lines[Len(f.lines)].toks
         IN ts = <<>> \/ f.ended \/ ts[Len(ts)].t \in Words \cup SingleKinds \cup {"COMMENT"}

ASSUME TableAssumption == TableSize \in Nat \ {0} /\ PtrSize \in Nat \ {0}

VARIABLES
    file,         \* the source
    line,         \* s->line + 1
    col,          \* tokens of this line that have been returned
    lvls,         \* s->lvls: the levels of indentation, innermost last
    dedent,       \* s->dedent: T_DEDENTs that are still to be returned
    lf,           \* s->lf: the last token was a T_LF
    lineps,       \* source->lineps: the line each entry is the start of
    bytes,        \* what is allocated for it
    out           \* the tokens scan has returned

vars == <<file, line, col, lvls, dedent, lf, lineps, bytes, out>>

-----------------------------------------------------------------------------
LastLine == Len(file.lines)

\* A file that ends in a newline has this newline read twice, and behind it the
\* empty line on which the end is seen.
HasLF(l) == l < LastLine \/ (file.ended /\ l <= LastLine + 1)

AtLast(l) == l = LastLine /\ ~file.ended

Token(t) == [t |-> t, v |-> 0]

\* A last token, of a single digit if a word, with what the character that is
\* read twice makes of it.
Twice(t) == IF t.t \in Words THEN <<[t EXCEPT !.v = 10 * t.v + t.v]>> ELSE <<t, t>>

\* The tokens of a line.
Toks(l) ==
    IF l > LastLine THEN <<>>
    ELSE LET ts == file.lines[l].toks
         IN IF AtLast(l) /\ ts # <<>>
              THEN SubSeq(ts, 1, Len(ts) - 1) \o Twice(ts[Len(ts)])
            ELSE ts

\* scan_indent's `indent`, and its test for an empty line.
Indent(l) ==
    IF l > LastLine THEN 0
    ELSE IF AtLast(l) /\ Toks(l) = <<>> THEN file.lines[l].ind + 1
    ELSE file.lines[l].ind

Blank(l) == Toks(l) = <<>> /\ HasLF(l)

\* scan_comment only stops at a newline.
Endless(l) == AtLast(l) /\ \E i \in 1..Len(file.lines[l].toks) : file.lines[l].toks[i].t = "COMMENT"

-----------------------------------------------------------------------------
\* scanner(): a level 0, and the first line, which scan_indent does not look at.
Init ==
    /\ file \in Files
    /\ line = 1
    /\ col = 0
    /\ lvls = <<0>>
    /\ dedent = 0
    /\ lf = FALSE
    /\ lineps = <<1>>
    /\ bytes = IF TableSize = 1 THEN 2 ELSE TableSize * PtrSize
    /\ out = <<>>

\* Mutated form: the table is reallocated one line too early.
AddLineEarly(l) ==
    /\ lineps' = Append(lineps, l)
    /\ bytes' = IF Len(lineps) + 2 >= TableSize THEN TableSize * 2 ELSE bytes

\* source_addline.  The table is reallocated in bytes, and lineps_size stays.
AddLine(l) ==
    /\ lineps' = Append(lineps, l)
    /\ bytes' = IF Len(lineps) + 1 >= TableSize THEN TableSize * 2 ELSE bytes

\* The line that scan is on, and its tokens so far: after a T_LF it is the next.
Here == IF lf THEN line + 1 ELSE line
Read == IF lf THEN 0 ELSE col

\* newline(s), if the last token was a T_LF.
NewLine ==
    /\ line' = Here
    /\ IF lf THEN AddLine(Here) ELSE UNCHANGED <<lineps, bytes>>

\* Mutated form: a line of the same indentation opens a block, too.
DeeperOrEqual == lf /\ Indent(Here) >= lvls[Len(lvls)] /\ ~Blank(Here)

\* scan_indent's test for a T_INDENT.
Deeper == lf /\ Indent(Here) > lvls[Len(lvls)] /\ ~Blank(Here)

\* Mutated form: the line is compared with the innermost level itself.
KeepsOuter(n) ==
    IF lf /\ ~Deeper
      THEN /\ \A i \in n + 1..Len(lvls) : Indent(Here) <= lvls[i]
           /\ n > 1 => lvls[n] < Indent(Here)
    ELSE n = Len(lvls)

\* scan_indent's loop leaves n levels: it goes on as long as the line is not
\* further in than the level around the innermost.
Keeps(n) ==
    IF lf /\ ~Deeper
      THEN /\ \A i \in n + 1..Len(lvls) : Indent(Here) <= lvls[i - 1]
           /\ n > 1 => lvls[n - 1] < Indent(Here)
    ELSE n = Len(lvls)

AtEOF == out # <<>> /\ out[Len(out)].t = "EOF"

\* Return a token.
Return(t) == out' = Append(out, t)

\* scan returns a T_INDENT.
ScanIndent ==
    /\ Deeper
    /\ NewLine
    /\ lf' = FALSE
    /\ col' = 0
    /\ lvls' = Append(lvls, Indent(Here))
    /\ Return(Token("INDENT"))
    /\ UNCHANGED <<file, dedent>>

\* Mutated form: one T_DEDENT, however many levels were left.
ScanDedentOnce(n) ==
    /\ ~Deeper /\ Keeps(n)
    /\ dedent + Len(lvls) - n > 0
    /\ NewLine
    /\ lf' = FALSE
    /\ col' = Read
    /\ lvls' = SubSeq(lvls, 1, n)
    /\ dedent' = 0
    /\ Return(Token("DEDENT"))
    /\ UNCHANGED file

\* scan, with n levels left after scan_indent, returns a T_DEDENT ...
ScanDedent(n) ==
    /\ ~Deeper /\ Keeps(n)
    /\ dedent + Len(lvls) - n > 0
    /\ NewLine
    /\ lf' = FALSE
    /\ col' = Read
    /\ lvls' = SubSeq(lvls, 1, n)
    /\ dedent' = dedent + Len(lvls) - n - 1
    /\ Return(Token("DEDENT"))
    /\ UNCHANGED file

\* ... or else the next token of the line ...
ScanText(n) ==
    /\ ~Deeper /\ Keeps(n)
    /\ dedent + Len(lvls) - n = 0
    /\ Read < Len(Toks(Here))
    /\ ~(Toks(Here)[Read + 1].t = "COMMENT" /\ Endless(Here))
    /\ NewLine
    /\ lf' = FALSE
    /\ col' = Read + 1
    /\ Return(Toks(Here)[Read + 1])
    /\ UNCHANGED <<file, lvls, dedent>>

\* Mutated form: no end is seen without a newline before it.
ScanEndAfterLF(n) ==
    /\ ~Deeper /\ Keeps(n)
    /\ dedent + Len(lvls) - n = 0
    /\ Read = Len(Toks(Here))
    /\ ~AtEOF
    /\ HasLF(Here) \/ lf
    /\ NewLine
    /\ lf' = HasLF(Here)
    /\ col' = Read
    /\ Return(Token(IF HasLF(Here) THEN "LF" ELSE "EOF"))
    /\ UNCHANGED <<file, lvls, dedent>>

\* ... or, at its end, a T_LF or T_EOF.
ScanEnd(n) ==
    /\ ~Deeper /\ Keeps(n)
    /\ dedent + Len(lvls) - n = 0
    /\ Read = Len(Toks(Here))
    /\ ~AtEOF
    /\ NewLine
    /\ lf' = HasLF(Here)
    /\ col' = Read
    /\ Return(Token(IF HasLF(Here) THEN "LF" ELSE "EOF"))
    /\ UNCHANGED <<file, lvls, dedent>>

\* A call of scan.  The parser calls it until it has seen T_EOF; in a comment
\* that nothing ends scan does not return.
Next ==
    \/ ScanIndent
    \/ \E n \in 1..Len(lvls) : ScanDedent(n) \/ ScanText(n) \/ ScanEnd(n)

Spec == Init /\ [][Next]_vars /\ WF_vars(Next)

-----------------------------------------------------------------------------
\* The levels are those of s->lvls: 0, and each further in than the one before.
TypeOK ==
    /\ line \in Nat \ {0} /\ col \in Nat
    /\ lvls \in Seq(Nat) /\ Len(lvls) > 0 /\ lvls[1] = 0
    /\ \A i \in 2..Len(lvls) : lvls[i - 1] < lvls[i]
    /\ dedent \in Nat
    /\ lf \in BOOLEAN
    /\ lineps \in Seq(Nat) /\ Len(lineps) = line
    /\ bytes \in Nat

\* How many of the first n tokens are t.
Count(t, n) == Cardinality({i \in 1..n : out[i].t = t})
Depth(n) == Count("INDENT", n) - Count("DEDENT", n)

\* The blocks that the tokens have opened and not closed are the levels on the
\* stack and those whose T_DEDENT is pending; there is never one too few.
Nests == Depth(Len(out)) = Len(lvls) - 1 + dedent

\* A file that ends in a newline has all its blocks closed where it ends.
ClosesAll == (AtEOF /\ file.ended) => Depth(Len(out)) = 0

\* Where the tokens of line l start in the output.
Starts(l) ==
    {n \in 1..Len(out) :
       /\ out[n].t \notin {"INDENT", "DEDENT", "LF"}
       /\ n = 1 \/ out[n - 1].t \in {"INDENT", "DEDENT", "LF"}
       /\ Count("LF", n) = l - 1}

\* Two lines with the same indentation are in the same block if all lines
\* between are at least as far in and none is empty, whatever was opened and
\* closed there, and also if the lines hang out of their block.
Siblings ==
    AtEOF =>
      \A k \in 2..LastLine : \A l \in k + 1..LastLine :
        (/\ Indent(l) = Indent(k)
         /\ \A i \in k..l : Indent(i) >= Indent(k) /\ ~Blank(i)) =>
          \A m \in Starts(k), n \in Starts(l) :
            /\ Depth(m) = Depth(n)
            /\ \A i \in m..n : Depth(i) >= Depth(m)

\* The table has room for the lines of any file that has, with the two lines
\* that scan sees at its end, fewer than TableSize lines.
TableFits == LastLine + 2 < TableSize => Len(lineps) * PtrSize <= bytes

\* What TypeOK, Nests, ClosesAll and TableFits rest on: where a T_LF was read the
\* file has another line, the last of which is empty and leaves no levels, and
\* bytes is known from the number of lines.
IInv ==
    /\ TypeOK
    /\ file \in Files
    /\ out \in Seq([t : LineKinds \cup LayoutKinds, v : Nat])
    /\ lf => HasLF(line)
    /\ line <= LastLine + 2
    /\ line = LastLine + 2 => file.ended /\ Len(lvls) = 1
    /\ bytes = IF line >= TableSize THEN TableSize * 2 ELSE TableSize * PtrSize
    /\ (AtEOF /\ file.ended) => line = LastLine + 2 /\ dedent = 0
    /\ Nests

\* scanner.c:20: the loop that calls scan until T_EOF ends, for every file but
\* one that ends in a comment without a newline (or whose last string is not
\* terminated: scan_string has no end either, and Files has no such file).
ReachesEnd == ~Endless(LastLine) => <>AtEOF
=============================================================================
