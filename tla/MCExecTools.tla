----------------------------- MODULE MCExecTools -----------------------------
(* Words and directories of ExecTools for TLC. *)
EXTENDS ExecTools

Bash == INSTANCE ShellForms

Digits(n) == [Short(<<n>>) EXCEPT !.form = "number"]
Glob(t) == Typed(Starred(t), "glob")
Number(n) == Operand(n, "number")
In(d, n) == [Name(n) EXCEPT !.dir = d]

\* The shell may list any of these; a file may be called like an option, a verb
\* or a number.
Files(w, names) == Stem(w) :> names
Dirs_ == { <<>>,
           Files(Glob(Name("s")), <<Name("sa"), Name("stop")>>),
           Files(Glob(Operand("5", "odd")), <<Number("50")>>),
           Files(Typed(Starred(Short(<<"*">>)), "glob"), <<Short(<<"f">>), Long("rotate", "")>>)
             @@ Files(Glob(Name("s")), <<Name("scterc")>>),
           Files(Glob(Operand("+1", "plusOther")),
                 <<Operand("+1", "plusNumber"), Operand("+1f", "plusOther")>>) }

\* Operands any program may be given.
Common == { Plain(Name("t")), Glob(Name("s")), Plain(Starred(Name("s"))),
            Plain(Number("1")), Glob(Operand("5", "odd")), Plain(DDash) }
Shelled == { Typed(Name("t"), "meta"), Typed(Name("t"), "tilde"), Typed(Name("t"), "comment"),
             Typed(Starred(Operand("", "odd")), "globFirst") }

Own(prog) ==
    CASE prog = "tail" -> { Plain(Short(<<"n">>)), Plain(Short(<<"n", "50">>)), Plain(Digits("5")),
                            Plain(Short(<<"f">>)), Plain(Long("lines", "5")), Plain(Long("follow", "")),
                            Plain(Operand("+1", "plusNumber")), Plain(Operand("+1f", "plusOther")),
                            Typed(Starred(Operand("+1", "plusOther")), "glob") }
      [] prog = "date" -> { Plain(Short(<<"u">>)), Plain(Short(<<"d">>)), Plain(Short(<<"I">>)),
                            Plain(Short(<<"s">>)), Plain(Long("set", "t")), Plain(Long("date", "t")),
                            Plain(Operand("+1", "plusOther")) }
      [] prog = "hostname" -> { Plain(Short(<<"f", "s">>)), Plain(Short(<<"F">>)), Plain(Dash) }
      [] prog = "lsof" -> { Plain(Short(<<"n", "i">>)), Plain(Short(<<"i", ":22">>)), Plain(Short(<<"p">>)),
                            Plain(Operand("+r", "plusOther")) }
      [] prog = "journalctl" -> { Plain(Short(<<"n">>)), Plain(Short(<<"u">>)), Plain(Short(<<"x", "n">>)),
                            Plain(Long("since", "")), Plain(Long("rotate", "")), Plain(Long("rot", "")),
                            Plain(Short(<<"f">>)), Plain(Digits("5")),
                            Typed(Starred(Short(<<"*">>)), "glob") }
      [] prog = "smartctl" -> { Plain(Short(<<"l">>)), Plain(Short(<<"l", "error">>)), Plain(Name("error")),
                            Plain(Short(<<"l", "scterc">>)), Plain(Long("log", "scterc")), Plain(Name("scterc")),
                            Plain(Long("json", "")), Plain(Short(<<"t">>)), Plain(Short(<<"d", "t">>)),
                            Plain(Short(<<"d">>)), Plain(Long("error", "")) }
      [] prog = "zpool" -> { Plain(Name("status")), Plain(Long("status", "")), Plain(Name("destroy")), Plain(Short(<<"T">>)),
                            Plain(Short(<<"x", "v">>)), Plain(Short(<<"c">>)), Plain(Operand("0.5", "fraction")),
                            Plain(Operand("+1", "plusNumber")) }
      [] prog = "systemctl" -> { Plain(Name("status")), Plain(Name("stop")), Plain(Short(<<"p">>)),
                            Plain(Short(<<"l", "t">>)), Plain(Long("property", "")), Plain(Long("failed", "")) }
      [] prog = "ip" -> { Plain(Short(<<"s">>)), Plain(Short(<<"f">>)), Plain(Name("link")), Plain(Name("route")),
                            Plain(Name("show")), Plain(Name("get")), Plain(Name("set")) }
      [] OTHER -> {}

Programs == {"tail", "date", "hostname", "lsof", "journalctl", "smartctl", "zpool", "systemctl", "ip"}
ASSUME VocabularyAssumption ==
    \A w \in Common \cup Shelled \cup UNION {Own(prog) : prog \in Programs} : IsWord(w)

Pct == {Plain(Name("pct"))}

\* The words after `pct`, and a shorter vocabulary for the command inside a CT.
InCT == {"tail", "systemctl", "journalctl"}
InnerWords == { Plain(Name("status")), Plain(Name("stop")), Plain(Short(<<"p">>)), Plain(Short(<<"n">>)),
                Plain(Number("1")), Glob(Name("s")), Plain(Name("t")), Typed(Name("t"), "meta") }
PctWords(n) ==
    CASE n = 1 -> {Plain(Name("exec")), Plain(Name("config")), Plain(Name("destroy")), Glob(Name("s")), Plain(DDash)}
      [] n = 2 -> {Plain(Number("1")), Glob(Operand("5", "odd")), Plain(Name("exec")), Plain(Long("current", ""))}
      [] n = 3 -> {Plain(DDash), Plain(Number("1")), Plain(Name("t"))}
      [] n \in {4, 5} ->
            IF n = 4 THEN {Plain(Name(p)) : p \in InCT \cup {"pct"}} \cup {Plain(DDash)}
                                     ELSE InnerWords
      [] n = 6 -> {Plain(Name("status")), Plain(Name("stop")), Glob(Name("s"))}
      [] n = 7 -> {Plain(Name("status"))}
      [] OTHER -> {}

\* Does the command run another one inside a CT (pct exec, or pct -- exec).
Enters(t) == (IF t[2] = Plain(DDash) THEN t[3] ELSE t[2]) = Plain(Name("exec"))

CONSTANT MaxWords   \* bound: words of a command; one more where a verb follows options,
                    \* and as many as PctWords has for pct exec
Longer == {"systemctl", "zpool", "pct"}
Bound(prog) == IF prog \in Longer THEN MaxWords + 1 ELSE MaxWords

MCNextWords(t) ==
    CASE t = <<>> -> {Plain(Name(p)) : p \in Programs} \cup Pct
                     \cup {Plain(In("bin", "tail")), Plain(In("other", "tail")), Plain(Name("rm"))}
      [] t[1] \in Pct ->
            IF Len(t) < Bound("pct") \/ Enters(t) THEN PctWords(Len(t)) ELSE {}
      [] Len(t) >= Bound(t[1].text.name) -> {}
      [] OTHER -> Own(t[1].text.name) \cup Common \cup (IF Len(t) = 1 THEN Shelled ELSE {})

CONSTANT MaxWraps   \* bound: what is put around a command for host_exec

\* lxc_exec uses host_exec's gate: the commands alone.  vm_exec has its own
\* patterns, and they are read the same way: one thing around them.
Wraps(t) == CASE t = "host_exec" -> MaxWraps [] t = "vm_exec" -> 1 [] OTHER -> 0

MCNextLines(t, l) ==
    IF l = NoLine THEN Bash!Commands(t \in GuestTools)
    ELSE IF l.wraps < Wraps(t)
         THEN {[m EXCEPT !.wraps = l.wraps + 1] : m \in Bash!Around(l)} ELSE {}
=============================================================================
