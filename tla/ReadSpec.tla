------------------------------ MODULE ReadSpec ------------------------------
(***************************************************************************)
(* The words of a command and the data of the read-only allow-list         *)
(* (proxmox_mcp/read_allow.py): the programs it names, their subcommands   *)
(* and their options.  One program is kept for each rule the validator     *)
(* has, and of its options one or two of each kind.                        *)
(***************************************************************************)
EXTENDS Naturals, Sequences, FiniteSets

(***************************************************************************)
(* What a word says once bash has removed its quotes.                      *)
(*   kind    "operand", "dash" (-), "ddash" (--), "short" (-x), "long"     *)
(*   name    an operand's text, a long option's name                       *)
(*   letters a short option's letters; an attached value is the last one   *)
(*   val     a long option's =VALUE, or "" (none)                          *)
(*   form    how an operand or value starts, see Forms                     *)
(*   dir     the directory of a program's name: "", "bin" or "other"       *)
(*   star    does the text hold a glob character                           *)
(***************************************************************************)
Kinds == {"operand", "dash", "ddash", "short", "long"}
Forms == {"name", "number", "fraction", "plusNumber", "plusOther", "odd"}

Text(k, n, ls, v, f) == [kind |-> k, name |-> n, letters |-> ls, val |-> v,
                         form |-> f, dir |-> "", star |-> FALSE]
Operand(n, f) == Text("operand", n, <<>>, "", f)
Name(n) == Operand(n, "name")
Short(ls) == Text("short", "", ls, "", "odd")
Long(n, v) == Text("long", n, <<>>, v, "odd")
Dash == Text("dash", "-", <<>>, "", "odd")
DDash == Text("ddash", "--", <<>>, "", "odd")

(***************************************************************************)
(* A word as it is typed: its text and what bash would make of its         *)
(* unquoted part: "plain" (nothing), "glob" (a glob after its first        *)
(* character), "globFirst" (a glob before any other character), "tilde",   *)
(* "comment" or "meta" (an operator, a $, a backtick, a backslash).        *)
(***************************************************************************)
Shapes == {"plain", "glob", "globFirst", "tilde", "comment", "meta"}
Typed(t, s) == [text |-> t, shape |-> s]
Plain(t) == Typed(t, "plain")
\* s* : an operand that begins with s; quoted, the same text is plain.
Starred(t) == [t EXCEPT !.star = TRUE]

(***************************************************************************)
(* The records that stand for a word.  An option starts with a -, so that  *)
(* it is no number but as -5, which stands for every -NUM; a glob          *)
(* character is none of a number's.                                        *)
(***************************************************************************)
IsText(t) ==
    /\ t \in [kind : Kinds, name : STRING, letters : Seq(STRING), val : STRING,
              form : Forms, dir : {"", "bin", "other"}, star : BOOLEAN]
    /\ \/ t.kind = "operand" \/ t.form = "odd"
       \/ t.kind = "short" /\ t.letters = <<"5">> /\ t.form = "number"
    /\ (t.kind = "short") = (t.letters # <<>>)
    /\ \A k \in DOMAIN t.letters : t.letters[k] # ""
    /\ t.kind \in {"dash", "ddash"} => ~t.star
    /\ t.star => t.form \in {"name", "plusOther", "odd"}

IsWord(w) ==
    /\ w \in [text : {w.text}, shape : Shapes]
    /\ IsText(w.text)
    /\ w.shape \in {"glob", "globFirst"} => w.text.star

\* Is the word one of these names: an operand, for the code compares whole words.
Says(t, names) == t.kind = "operand" /\ t.name \in names
IsOption(t) == t.kind \in {"short", "long"}

\* The positions a walk from the position start on visits, that goes from k to next[k].
Visited(next, start) ==
    LET end == Len(next) + 1
        from[k \in 1..end] == IF k = end THEN {} ELSE {k} \cup from[next[k]]
    IN IF start > end THEN {} ELSE from[start]

-----------------------------------------------------------------------------
\* The option string of a SPEC entry, parsed (_parse_spec).
NoOptions == [flags |-> {}, vals |-> {}, attach |-> {}, opt |-> {},
              lflags |-> {}, lvals |-> {}, lopt |-> {}, num |-> FALSE]

Both(a, b) == [flags |-> a.flags \cup b.flags, vals |-> a.vals \cup b.vals,
               attach |-> a.attach \cup b.attach, opt |-> a.opt \cup b.opt,
               lflags |-> a.lflags \cup b.lflags, lvals |-> a.lvals \cup b.lvals,
               lopt |-> a.lopt \cup b.lopt, num |-> a.num \/ b.num]

TailOpts == [NoOptions EXCEPT !.flags = {"q", "v"}, !.vals = {"n"}, !.attach = {"n"},
                          !.lvals = {"lines"}, !.lflags = {"quiet"}, !.num = TRUE]

DateOpts == [NoOptions EXCEPT !.flags = {"u"}, !.vals = {"d", "f"}, !.attach = {"d"},
                          !.opt = {"I"}, !.lvals = {"date"}, !.lflags = {"utc"}]

HostnameOpts == [NoOptions EXCEPT !.flags = {"f", "s"}, !.lflags = {"fqdn"}]

LsofOpts == [NoOptions EXCEPT !.flags = {"n", "P"}, !.opt = {"i"}, !.vals = {"p"}]

JournalctlOpts == [NoOptions EXCEPT !.flags = {"r", "x"}, !.opt = {"n"}, !.vals = {"u", "p"},
                                !.lflags = {"reverse", "verify"}, !.lvals = {"since"}]

SmartctlOpts == [NoOptions EXCEPT !.flags = {"a", "x"}, !.vals = {"l", "d"}, !.attach = {"l"},
                              !.lvals = {"log"}, !.lopt = {"json"}]

ZpoolSubs == [pre |-> NoOptions,
          status |-> [NoOptions EXCEPT !.flags = {"x", "v"}, !.vals = {"T"}],
          history |-> [NoOptions EXCEPT !.flags = {"i", "l"}]]

SystemctlSubs == [pre |-> [NoOptions EXCEPT !.flags = {"l", "a"}, !.vals = {"p", "t", "n"},
                                        !.lflags = {"failed"}, !.lvals = {"property"}],
              status |-> NoOptions, show |-> NoOptions, list_units |-> NoOptions]

PctSubs == [pre |-> NoOptions, status |-> [NoOptions EXCEPT !.lflags = {"verbose"}],
        config |-> [NoOptions EXCEPT !.lflags = {"current"}, !.lvals = {"snapshot"}],
        exec |-> NoOptions]

\* A flat program, and one that is restricted by its subcommand.
SPEC == [tail |-> TailOpts, date |-> DateOpts, hostname |-> HostnameOpts, lsof |-> LsofOpts,
         journalctl |-> JournalctlOpts, smartctl |-> SmartctlOpts]
SUBS == [zpool |-> ZpoolSubs, systemctl |-> SystemctlSubs, pct |-> PctSubs]

\* Operand rules by program or <<program, subcommand>>, values, and optional values.
OPERANDS(prog, sub) ==
    CASE prog = "date" -> "+"
      [] prog = "tail" -> "+N"
      [] prog = "lsof" -> "no+"
      [] prog = "hostname" -> "none"
      [] <<prog, sub>> = <<"zpool", "status">> -> "count"
      [] OTHER -> "any"

ValueOK(prog, opt, v) == prog = "smartctl" /\ opt \in {"l", "log"} => Says(v, {"error", "selftest"})

HasNext(prog, opt) == <<prog, opt>> \in {<<"journalctl", "n">>, <<"lsof", "i">>}
NextTakes(prog, opt, t) ==
    IF prog = "journalctl" THEN t.form \in {"number", "plusNumber"} /\ ~t.star
                           ELSE t.kind = "operand" /\ t.form \notin {"plusNumber", "plusOther"}

\* `ip`: flags, options with a value, objects and actions that read.
IP_FLAGS == {"s", "j"}
IP_VALUE_OPTS == {"f"}
IP_OBJECTS == {"link", "route"}
IP_READ == {"show", "list"}
IP_GET == {"route"}
=============================================================================
