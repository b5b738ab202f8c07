----------------------------- MODULE ShellText -----------------------------
(***************************************************************************)
(* host_ssh._scan: the simple commands of a command line.  A text is a     *)
(* sequence of lexemes: each character the shell gives a meaning to, one   *)
(* by one, and names.  Where a nested text left its own commands, the word *)
(* keeps a marker: "$()", "<()", "$(())", and "<<", "<<<" for a heredoc    *)
(* and a here-string.                                                      *)
(***************************************************************************)
EXTENDS Integers, SequencesExt, FiniteSetsExt

MaxNest == 20   \* _MAX_NEST

At(s, i) == IF i \in DOMAIN s THEN s[i] ELSE ""

\* Where x comes first from i on, or after the end.
Find(s, i, x) ==
    LET at == {k \in i..Len(s) : s[k] = x} IN IF at = {} THEN Len(s) + 1 ELSE Min(at)

-----------------------------------------------------------------------------
\* Words, after their quotes are gone.
Shells == {<<"sh">>, <<"bash">>}

\* w.rsplit("/", 1)[-1]
Base(w) ==
    LET cut == {k \in DOMAIN w : w[k] = "/bin/"} IN IF cut = {} THEN w ELSE SubSeq(w, Max(cut) + 1, Len(w))

\* Options: a cluster's letters, and the one option a long word may stand for.
Letters == ("-c" :> <<"c">>) @@ ("-lc" :> <<"l", "c">>) @@ ("-s" :> <<"s">>) @@ ("-u" :> <<"u">>)
    @@ ("-n" :> <<"n">>) @@ ("-nu" :> <<"n", "u">>) @@ ("-i" :> <<"i">>) @@ ("-h" :> <<"h">>)
    @@ ("-v" :> <<"v">>) @@ ("-d" :> <<"d">>) @@ ("-di" :> <<"d", "i">>) @@ ("-m" :> <<"m">>)
    @@ ("-e" :> <<"e">>) @@ ("-E" :> <<"E">>) @@ ("-rf" :> <<"r", "f">>) @@ ("-5" :> <<"5">>)
Longs == ("--user" :> "user") @@ ("--user=t" :> "user") @@ ("--odd" :> "") @@ ("--decode" :> "")
IsOption(w) == At(w, 1) \in {"-", "--"} \cup DOMAIN Letters \cup DOMAIN Longs

\* A file descriptor may come before < > and &.
Redirection(w) == IF At(w, 1) = "2" THEN Tail(w) ELSE w
IsRedirection(w) == At(Redirection(w), 1) \in {"<", ">", "&", "<<", "<<<"}
\* An operator alone: its target is the next word.
AwaitsTarget(w) ==
    Redirection(w) \in {<<"<<<">>, <<"&", ">">>, <<"&", ">", ">">>, <<">", ">">>, <<"<", ">">>,
                        <<"<">>, <<">">>, <<"<", "&">>, <<">", "&">>}

DropRedirections(words) ==
    LET from[k \in Nat] ==
            IF k > Len(words) THEN <<>>
            ELSE IF ~IsRedirection(words[k]) THEN <<words[k]>> \o from[k + 1]
            ELSE from[k + (IF AwaitsTarget(words[k]) THEN 2 ELSE 1)]
    IN from[1]

GivesProgram == [shell |-> {"-c", "-lc"}, interp |-> {"-c", "-lc", "-m", "-e", "-E", "-rf"}]

\* A shell or an interpreter with these arguments reads its program from stdin.
ProgramFromStdin(kind, args) ==
    \A w \in ToSet(DropRedirections(args)) :
        IsOption(w) /\ w \notin {<<o>> : o \in GivesProgram[kind]}

-----------------------------------------------------------------------------
(***************************************************************************)
(* The scanner.  mode is "plain", "dquote" (inside double quotes) or       *)
(* "expand" (only the substitutions of the text count); close is the ")"   *)
(* of a substitution or ""; out collects the simple commands.              *)
(***************************************************************************)
Scanner ==
    [text : Seq(STRING), i : Nat, close : STRING, mode : STRING, lenient : BOOLEAN, depth : Nat,
     words : Seq(Seq(STRING)), word : Seq(STRING), has : BOOLEAN, piped : BOOLEAN,
     docs : Seq([delim : Seq(STRING), quoted : BOOLEAN, cmd : Seq(Seq(STRING))]),
     out : Seq([piped : BOOLEAN, words : Seq(Seq(STRING)), lenient : BOOLEAN]),
     stuck : BOOLEAN, over : BOOLEAN]

New(text, i, close, mode, lenient, depth, out) ==
    [text |-> text, i |-> i, close |-> close, mode |-> mode, lenient |-> lenient, depth |-> depth,
     words |-> <<>>, word |-> <<>>, has |-> FALSE, piped |-> FALSE, docs |-> <<>>, out |-> out,
     stuck |-> depth > MaxNest, over |-> FALSE]

\* _Uninspectable, unless the text may be data.
Unclosed(c) == [c EXCEPT !.stuck = @ \/ ~c.lenient]

Put(c, pieces, i) == [c EXCEPT !.word = @ \o pieces, !.has = TRUE, !.i = i]

EndWord(c) ==
    [c EXCEPT !.words = IF c.has THEN Append(@, c.word) ELSE @, !.word = <<>>, !.has = FALSE]

\* A heredoc of the command keeps all of the command's words.
EndWords(c, piped) ==
    IF c.words = <<>> THEN [c EXCEPT !.piped = @ \/ piped]
    ELSE [c EXCEPT !.out = Append(@, [piped |-> c.piped, words |-> c.words, lenient |-> c.lenient]),
                   !.docs = [k \in DOMAIN @ |-> IF @[k].cmd = <<>> THEN [@[k] EXCEPT !.cmd = c.words] ELSE @[k]],
                   !.words = <<>>, !.piped = piped]
EndCommand(c, piped) == EndWords(EndWord(c), piped)

AtEnd(c) ==
    LET e == [EndCommand(c, FALSE) EXCEPT !.over = TRUE]
    IN IF c.close # "" \/ e.docs # <<>> THEN Unclosed(e) ELSE e

-----------------------------------------------------------------------------
\* What a nested text has left: its commands, and a marker for it in the word.
Nested(c, r, marker, i) == [Put(c, marker, i) EXCEPT !.out = r.out, !.stuck = @ \/ r.stuck]

Through(c, r, marker) == Nested(c, r, marker, r.i)

Subst(scan, c, j, marker) ==
    Through(c, scan[New(c.text, j, ")", "plain", c.lenient, c.depth + 1, c.out)], <<marker>>)

\* Up to the closing backtick; a backslash is dropped before ` \ and $ only.
Ticked(s, j) ==
    LET from[k \in Nat] ==
            CASE k > Len(s) \/ At(s, k) = "tick" -> [text |-> <<>>, end |-> k]
              [] At(s, k) = "\\" /\ At(s, k + 1) \in {"tick", "\\", "$"} ->
                    [from[k + 2] EXCEPT !.text = <<s[k + 1]>> \o @]
              [] OTHER -> [from[k + 1] EXCEPT !.text = <<s[k]>> \o @]
    IN from[j]

Backtick(scan, c, t) ==
    Nested(IF t.end > Len(c.text) THEN Unclosed(c) ELSE c,
           scan[New(t.text, 1, "", "plain", c.lenient, c.depth + 1, c.out)], <<"$()">>, t.end + 1)

\* The first of the two brackets that close $((; 0 when only one does.
ArithEnd(s, i) ==
    LET Net(k) == Cardinality({m \in (i + 3)..k : s[m] = ")"}) - Cardinality({m \in (i + 3)..k : s[m] = "("})
        ends == {k \in (i + 3)..Len(s) : Net(k) = 1}
    IN IF ends = {} THEN Len(s) + 1 ELSE IF At(s, Min(ends) + 1) = ")" THEN Min(ends) ELSE 0

Arith(scan, c, end) ==
    IF end > Len(c.text) THEN Put(Unclosed(c), <<"$(())">>, end)
    ELSE Nested(c, scan[New(SubSeq(c.text, c.i + 3, end - 1), 1, "", "expand", c.lenient, c.depth + 1, c.out)],
                <<"$(())">>, end + 2)

\* $(( is $( ( where its brackets do not close together.
Dollar(scan, c, end) == IF end = 0 THEN Subst(scan, c, c.i + 2, "$()") ELSE Arith(scan, c, end)

\* Inside double quotes, and an expanded body.
InDquote(scan, c) ==
    LET s == c.text  x == At(s, c.i)  y == At(s, c.i + 1)
    IN CASE x = "" -> IF c.mode = "expand" THEN [c EXCEPT !.over = TRUE]
                      ELSE [Unclosed(c) EXCEPT !.mode = "plain"]
         [] x = "\"" /\ c.mode = "dquote" -> [c EXCEPT !.mode = "plain", !.i = @ + 1]
         [] x = "\\" /\ y \in {"\"", "\\", "$", "tick", "nl"} -> Put(c, <<y>>, c.i + 2)
         [] x = "$" /\ y = "(" ->
                Dollar(scan, c, IF At(s, c.i + 2) = "(" THEN ArithEnd(s, c.i) ELSE 0)
         [] x = "tick" -> Backtick(scan, c, Ticked(s, c.i + 1))
         [] OTHER -> Put(c, <<x>>, c.i + 1)

\* $'...': the escapes bash knows.
AnsiChar == [x72 |-> "r", n |-> "nl"]
Ansi(s, j) ==
    LET from[k \in Nat] ==
            CASE k > Len(s) \/ At(s, k) = "'" -> [text |-> <<>>, end |-> k, known |-> TRUE]
              [] At(s, k) = "\\" ->
                    LET x == At(s, k + 1)
                    IN [from[k + 2] EXCEPT
                            !.known = @ /\ x \in DOMAIN AnsiChar \cup {"'", "\\"},
                            !.text = <<IF x \in DOMAIN AnsiChar THEN AnsiChar[x] ELSE x>> \o @]
              [] OTHER -> [from[k + 1] EXCEPT !.text = <<s[k]>> \o @]
    IN from[j]

AnsiC(c, a) ==
    IF a.end > Len(c.text) THEN Put(Unclosed(c), SubSeq(c.text, c.i + 2, Len(c.text)), a.end)
    ELSE [Put(c, a.text, a.end + 1) EXCEPT !.stuck = @ \/ ~a.known]

\* As if a quote were dropped and the text behind it read on.
QuoteDropped(c, end) == [c EXCEPT !.i = @ + 1]

SingleQuoted(c, end) ==
    Put(IF end > Len(c.text) THEN Unclosed(c) ELSE c, SubSeq(c.text, c.i + 1, end - 1), end + 1)

-----------------------------------------------------------------------------
\* A heredoc's delimiter from j on, and whether any of it is quoted.
Delimiter(s, j) ==
    LET from[k \in Nat] ==
            CASE At(s, k) \in {"", " ", "nl", ";", "&", "|", "(", ")", "<", ">"} ->
                    [delim |-> <<>>, quoted |-> FALSE, end |-> k]
              [] At(s, k) \in {"'", "\""} ->
                    LET close == Find(s, k + 1, s[k])
                    IN [from[close + 1] EXCEPT !.delim = SubSeq(s, k + 1, close - 1) \o @, !.quoted = TRUE]
              [] At(s, k) = "\\" -> [from[k + 2] EXCEPT !.delim = SubSeq(s, k + 1, k + 1) \o @, !.quoted = TRUE]
              [] OTHER -> [from[k + 1] EXCEPT !.delim = <<s[k]>> \o @]
        skip == IF At(s, j) = "-" THEN j + 1 ELSE j
    IN from[IF At(s, skip) = " " THEN skip + 1 ELSE skip]

Heredoc(c, d) ==
    IF d.delim = <<>> THEN Put(Unclosed(c), <<"<<">>, d.end)
    ELSE [Put(c, <<"<<">>, d.end) EXCEPT
            !.docs = Append(@, [delim |-> d.delim, quoted |-> d.quoted, cmd |-> <<>>])]

\* The line from p on is the delimiter.
ClosesAt(s, p, delim) ==
    /\ \A k \in DOMAIN delim : At(s, p + k - 1) = delim[k]
    /\ At(s, p + Len(delim)) \in {"", "nl"}

\* The first shell among the words reads its program from the body.
ReadByShell(words) ==
    LET at == {k \in DOMAIN words : Base(words[k]) \in Shells}
    IN at # {} /\ ProgramFromStdin("shell", SubSeq(words, Min(at) + 1, Len(words)))

\* A body no shell reads may be data; where its delimiter is not quoted, bash
\* runs its substitutions all the same.
Body(scan, c, d, ends) ==
    LET s == c.text
        end == IF ends = {} THEN Len(s) + 2 ELSE Min(ends)
        text == SubSeq(s, c.i, end - 2)
        run == scan[New(text, 1, "", "plain", c.lenient \/ ~ReadByShell(d.cmd), c.depth + 1, c.out)]
        all == IF d.quoted THEN run
               ELSE scan[New(text, 1, "", "expand", c.lenient, c.depth + 1, run.out)]
    IN [c EXCEPT !.out = all.out,
                 !.i = IF ends = {} THEN Len(s) + 1 ELSE end + Len(d.delim) + 1,
                 !.stuck = @ \/ run.stuck \/ all.stuck \/ (ends = {} /\ ~c.lenient)]

Bodies(scan, c) ==
    FoldLeft(LAMBDA e, d : Body(scan, e, d, {p \in e.i..Len(e.text) :
                                                (p = e.i \/ e.text[p - 1] = "nl") /\ ClosesAt(e.text, p, d.delim)}),
             [c EXCEPT !.docs = <<>>], c.docs)

-----------------------------------------------------------------------------
\* `&>f`, `2>&1`: not the end of a command.
Joins(c) == At(c.text, c.i + 1) = ">" \/ (c.word # <<>> /\ Last(c.word) \in {"<", ">", "<<", "<<<"})

Separate(scan, c, x, y) ==
    LET two == x \in {"&", "|"} /\ y \in {x, "&"}
        e == EndCommand([c EXCEPT !.i = @ + (IF two THEN 2 ELSE 1)], x = "|" /\ y # "|")
    IN IF x = "nl" /\ e.docs # <<>> THEN Bodies(scan, e) ELSE e

InPlain(scan, c) ==
    LET s == c.text  i == c.i  x == s[i]  y == At(s, i + 1)  z == At(s, i + 2)
    IN CASE x = c.close -> [EndCommand(c, FALSE) EXCEPT !.i = i + 1, !.over = TRUE]
         [] x = "\\" -> IF y = "nl" THEN [c EXCEPT !.i = i + 2] ELSE Put(c, SubSeq(s, i + 1, i + 1), i + 2)
         [] x = "'" -> SingleQuoted(c, Find(s, i + 1, "'"))
         [] x = "\"" -> [c EXCEPT !.mode = "dquote", !.has = TRUE, !.i = i + 1]
         [] x = "$" /\ y = "'" -> AnsiC(c, Ansi(s, i + 2))
         [] x = "$" /\ y = "\"" -> [c EXCEPT !.i = i + 1]
         [] x = "$" /\ y = "(" -> Dollar(scan, c, IF z = "(" THEN ArithEnd(s, i) ELSE 0)
         [] x = "<" /\ y = "<" -> IF z = "<" THEN Put(c, <<"<<<">>, i + 3) ELSE Heredoc(c, Delimiter(s, i + 2))
         [] x \in {"<", ">"} /\ y = "(" -> Subst(scan, c, i + 2, "<()")
         [] x = "tick" -> Backtick(scan, c, Ticked(s, i + 1))
         [] x = "#" /\ ~c.has -> [c EXCEPT !.i = Find(s, i, "nl")]
         [] x = "&" /\ Joins(c) -> Put(c, <<x>>, i + 1)
         [] x = " " -> [EndWord(c) EXCEPT !.i = i + 1]
         [] x \in {";", "|", "nl", "(", ")"} \/ (x = "&" /\ ~Joins(c)) ->
                IF x = c.close THEN c ELSE Separate(scan, c, x, y)
         [] OTHER -> Put(c, <<x>>, i + 1)

\* _scan, from where c stands to its end.
Scan[c \in Scanner] ==
    CASE c.stuck \/ c.over -> c
      [] ~c.stuck /\ ~c.over /\ c.mode # "plain" -> Scan[InDquote(Scan, c)]
      [] ~c.stuck /\ ~c.over /\ c.mode = "plain" ->
            IF c.i > Len(c.text) THEN AtEnd(c) ELSE Scan[InPlain(Scan, c)]
=============================================================================
