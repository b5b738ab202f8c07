----------------------------- MODULE HostShell -----------------------------
(***************************************************************************)
(* What the host makes of a command: bash expands its globs, and the       *)
(* program reads its words with getopt.  None of this is code under src/;  *)
(* it is the reading read_allow.py's comments say the allow-list is made   *)
(* for: the options named there as left out write, or repeat for ever.     *)
(***************************************************************************)
EXTENDS ReadSpec, SequencesExt, FiniteSetsExt

Plus(t) == t.form \in {"plusNumber", "plusOther"}
Begins(t) == IF t.kind # "operand" THEN "-" ELSE IF Plus(t) THEN "+" ELSE "other"

\* What a glob keeps of a word: its first character and the text before the glob.
Stem(w) == IF w.shape = "globFirst" THEN [first |-> "any", name |-> ""]
           ELSE [first |-> Begins(w.text), name |-> w.text.name]

\* A listing of the shell's directory: for a stem, the names of the files that fit.
IsListing(dir) ==
    \A s \in DOMAIN dir :
        /\ dir[s] \in Seq(Range(dir[s])) \ {<<>>}
        /\ \A t \in Range(dir[s]) : IsText(t) /\ (s.first # "any" => Begins(t) = s.first)

\* The texts bash makes of a typed word.
Expansion(w, dir) ==
    IF w.shape \in {"glob", "globFirst"} /\ Stem(w) \in DOMAIN dir THEN dir[Stem(w)] ELSE <<w.text>>

BashWords(words, dir) == FlattenSeq([k \in DOMAIN words |-> Expansion(words[k], dir)])

-----------------------------------------------------------------------------
(***************************************************************************)
(* The programs' own option tables: flags, options with a value (attached  *)
(* or the next word), options with an optional value.  A long name may be  *)
(* a prefix getopt completes.                                              *)
(***************************************************************************)
Table(flags, vals, optional) == [flags |-> flags, vals |-> vals, optional |-> optional]

Manual(prog) ==
    CASE prog = "tail" -> Table({"q", "v", "quiet", "f", "follow"}, {"n", "lines"}, {})
      [] prog = "date" -> Table({"u", "utc"}, {"d", "f", "date", "s", "set"}, {"I"})
      [] prog = "hostname" -> Table({"f", "s", "fqdn"}, {"F", "file"}, {})
      [] prog = "lsof" -> Table({"n", "P"}, {"p"}, {"i"})
      [] prog = "journalctl" ->
            Table({"r", "x", "f", "reverse", "verify", "rotate", "rot"}, {"u", "p", "since"}, {"n"})
      [] prog = "smartctl" -> Table({"a", "x"}, {"l", "log", "d", "s", "t", "test"}, {"json"})
      [] prog = "zpool" -> Table({"x", "v", "i", "l"}, {"T", "c"}, {})
      [] prog = "systemctl" -> Table({"l", "a", "failed"}, {"p", "t", "n", "property"}, {})
      [] prog = "pct" -> Table({"current", "verbose"}, {"snapshot"}, {})
      [] OTHER -> Table({"s", "j"}, {"f"}, {})

Verbs == {"zpool", "systemctl", "pct", "ip"}

\* Options that write, set or never end, and verbs that change something.
Writers == {<<"tail", "f">>, <<"tail", "follow">>, <<"date", "s">>, <<"date", "set">>,
            <<"hostname", "F">>, <<"hostname", "file">>,
            <<"journalctl", "f">>, <<"journalctl", "rotate">>, <<"journalctl", "rot">>,
            <<"smartctl", "s">>, <<"smartctl", "t">>, <<"smartctl", "test">>, <<"zpool", "c">>}
Setters == {<<"smartctl", "l", "scterc">>, <<"smartctl", "log", "scterc">>}
ChangingVerbs == {"stop", "destroy", "set"}

\* getopt: which options are given, with which value, and what is an operand.
OptionalValue(prog, opt, args, k) ==
    HasNext(prog, opt) /\ k < Len(args) /\ NextTakes(prog, opt, args[k + 1])

OptionsOf(t) == IF t.kind = "long" THEN <<t.name>> ELSE t.letters

\* The value behind the p-th of t's options, in the same word.
Attached(t, p) ==
    IF t.kind = "long" THEN t.val ELSE IF p < Len(t.letters) THEN t.letters[p + 1] ELSE ""

ReadOption(prog, args, k) ==
    LET t == Manual(prog)
        ls == OptionsOf(args[k])
        stops == {p \in DOMAIN ls : ls[p] \notin t.flags}
        p == Min(stops)
        given(q) == {<<ls[i], "">> : i \in 1..q}
    IN IF stops = {} THEN [takes |-> 1, used |-> given(Len(ls))]
       ELSE IF /\ Attached(args[k], p) = ""
               /\ \/ ls[p] \in t.vals /\ k < Len(args)
                  \/ ls[p] \in t.optional /\ OptionalValue(prog, ls[p], args, k)
       THEN [takes |-> 2, used |-> given(p - 1) \cup {<<ls[p], args[k + 1].name>>}]
       ELSE [takes |-> 1, used |-> given(p - 1) \cup {<<ls[p], Attached(args[k], p)>>}]

\* zpool and pct take their first word as the verb, whatever it is; ip reads no
\* option behind its object; the others, like getopt, permute their words.
VerbFirst == {"zpool", "pct"}

ReadsVerb(prog, k) == prog \in VerbFirst /\ k = 1
ReadsOption(prog, args, k) == IsOption(args[k]) /\ ~ReadsVerb(prog, k)

\* Behind this word nothing is an option.
ReadsLast(prog, args, k) ==
    /\ ~IsOption(args[k]) /\ ~ReadsVerb(prog, k)
    /\ args[k].kind = "ddash" \/ prog = "ip"

ReadsNext(prog, args) ==
    [k \in DOMAIN args |->
        IF ReadsOption(prog, args, k) THEN k + ReadOption(prog, args, k).takes
        ELSE IF ReadsLast(prog, args, k) THEN Len(args) + 1 ELSE k + 1]

Reading(prog, args) ==
    LET read == Visited(ReadsNext(prog, args), 1)
        options == {k \in read : ReadsOption(prog, args, k)}
        last == {k \in read : ReadsLast(prog, args, k)}
        free == {k \in read \ options : args[k].kind # "ddash" \/ ReadsVerb(prog, k)}
    IN [used |-> UNION {ReadOption(prog, args, k).used : k \in options},
        operands |-> free \cup UNION {(k + 1)..Len(args) : k \in last}]

-----------------------------------------------------------------------------
Numeric(t) == t.form \in {"number", "fraction"}

\* A trailing INTERVAL without COUNT repeats.  ops are the operands' positions.
Repeats(args, ops) ==
    LET before == ops \ {Max(ops)}
    IN /\ ops # {} /\ Numeric(args[Max(ops)])
       /\ before = {} \/ ~Numeric(args[Max(before)]) \/ args[Max(ops)].form = "fraction"

OperandsHarm(prog, args, ops) ==
    CASE prog = "date" -> \E k \in ops : ~Plus(args[k])
      [] prog = "hostname" -> ops # {}
      [] prog = "lsof" -> \E k \in ops : args[k].form = "plusOther"
      [] prog = "tail" -> \E k \in ops : args[k].form = "plusOther"
      [] prog = "zpool" -> /\ ops # {} /\ Says(args[Min(ops)], {"status"})
                           /\ Repeats(args, ops \ {Min(ops)})
      [] OTHER -> FALSE

VerbHarms(prog, args, ops) ==
    LET rest == ops \ {Min(ops)}
    IN \/ prog \in Verbs /\ ops # {} /\ Says(args[Min(ops)], ChangingVerbs)
       \/ prog = "ip" /\ rest # {} /\ Says(args[Min(rest)], ChangingVerbs)

\* Does running argv change something or never end on its own.
Harms(argv) ==
    LET prog == argv[1].name
        args == Tail(argv)
        r == Reading(prog, args)
    IN \/ \E u \in r.used : <<prog, u[1]>> \in Writers \/ <<prog, u[1], u[2]>> \in Setters
       \/ OperandsHarm(prog, args, r.operands)
       \/ VerbHarms(prog, args, r.operands)

\* The program, its verb and its options with their values: all but the operands.
Meaning(argv) ==
    LET prog == argv[1].name
        args == Tail(argv)
        r == Reading(prog, args)
    IN [prog |-> prog, used |-> r.used,
        verb |-> IF prog \in Verbs /\ r.operands # {} THEN args[Min(r.operands)].name ELSE ""]

\* `timeout -k 5 T cmd`: cmd; and of `pct exec N -- cmd`: cmd, or none.
UnderLimit(argv) == argv # <<>> /\ argv[1].name = "timeout"
Bare(argv) == IF UnderLimit(argv) THEN SubSeq(argv, 5, Len(argv)) ELSE argv
Inner(argv) ==
    LET d == {k \in 3..Len(argv) : argv[k].kind = "ddash"}
        v == IF argv[2].kind = "ddash" THEN 3 ELSE 2
    IN IF argv[1].name = "pct" /\ Len(argv) > v /\ Says(argv[v], {"exec"}) /\ d # {}
       THEN SubSeq(argv, Min(d) + 1, Len(argv)) ELSE <<>>
OuterOf(argv) == IF Inner(argv) = <<>> THEN argv
                 ELSE SubSeq(argv, 1, Len(argv) - Len(Inner(argv)))

\* All the commands a line runs: the host's, and the one inside the CT.
Ran(argv) ==
    LET host == Bare(argv)
    IN {OuterOf(host)} \cup (IF Inner(host) = <<>> THEN {} ELSE {Bare(Inner(host))})
=============================================================================
