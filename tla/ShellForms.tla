----------------------------- MODULE ShellForms -----------------------------
(***************************************************************************)
(* Command lines, built the way bash's grammar builds them: a command is   *)
(* put after another one, into a group, a substitution, a script for       *)
(* another shell, behind a wrapper, or only quoted and shown.  What a line *)
(* does follows from how it was built; this is bash, no code under src/.   *)
(***************************************************************************)
EXTENDS Naturals, SequencesExt

\* does: "harm" when it runs the command, "show" when that is only data,
\* "maybe" in a heredoc that no shell reads, "none" when there is no harm.
\* kind: a "builtin", a "program" (behind sudo too), a "list" of commands, or
\* "lines", which end with a newline.
MakeLine(text, kind, does, plain) ==
    [text |-> text, kind |-> kind, does |-> does, plain |-> plain, wraps |-> 0]

\* The commands lines are built around; plain: its words show it whatever is
\* around.  What destroys a host and what destroys a guest is not the same.
Only(here, text) == MakeLine(text, "program", IF here THEN "harm" ELSE "none", here)

Commands(guest) ==
    { Only(~guest, <<"zpool", " ", "destroy">>),
      Only(guest, <<"docker", " ", "system", " ", "prune">>),
      Only(guest, <<"x", " ", "B64prune">>),
      MakeLine(<<"eval", " ", "x">>, "builtin", "harm", FALSE),
      MakeLine(<<"r", "'", "'", "m", " ", "-rf">>, "program", "harm", FALSE),
      MakeLine(<<"base64", " ", "-di">>, "program", "harm", FALSE),
      MakeLine(<<"x", " ", "|", " ", "/bin/", "sh", " ", "-s">>, "list", "harm", FALSE),
      MakeLine(<<"x", "|", "sudo", " ", "python3", " ", "-">>, "list", "harm", FALSE),
      MakeLine(<<"sh", " ", "<", "(", "x", ")">>, "program", "harm", FALSE),
      MakeLine(<<"bash", " ", "-lc", " ", "\"", "$", "V", "\"">>, "program", "harm", FALSE),
      MakeLine(<<"x", " ", "B64twice">>, "program", "harm", TRUE),
      MakeLine(<<"python3", " ", "-c", " ", "b64decode">>, "program", "harm", FALSE),
      MakeLine(<<"{a,b}">>, "program", "harm", FALSE),
      MakeLine(<<"x", "|", "python3", " ", "-m", " ", "x">>, "list", "none", FALSE),
      MakeLine(<<"x", " ", "eval", " ", "x">>, "program", "none", FALSE) }

Escaped(t, chars, how) == FlattenSeq([k \in DOMAIN t |-> IF t[k] \in chars THEN how \o <<t[k]>> ELSE <<t[k]>>])
Single(t) == <<"'">> \o Escaped(t, {"'"}, <<"'", "\\", "'">>) \o <<"'">>
Double(t) == <<"\"">> \o Escaped(t, {"\"", "\\", "$", "tick"}, <<"\\">>) \o <<"\"">>
Ansi(t) == <<"$", "'">> \o Escaped(t, {"'", "\\"}, <<"\\">>) \o <<"'">>
Ticks(t) == <<"tick">> \o Escaped(t, {"tick", "\\"}, <<"\\">>) \o <<"tick">>
Dollar(t) == <<"$", "(", " ">> \o t \o <<" ", ")">>

Simple(l) == l.kind \in {"builtin", "program"}
OneLine(l) == "nl" \notin Range(l.text)
NoHeredoc(l) == "EOF" \notin Range(l.text)

With(l, before, after, kind) == [l EXCEPT !.text = before \o @ \o after, !.kind = kind]
Show(l, does) == IF l.does = "harm" THEN [l EXCEPT !.does = does] ELSE l

-----------------------------------------------------------------------------
\* After another command, and before one.
Sequences(l) ==
    {With(l, <<"x", " ">> \o op \o <<" ">>, <<>>, IF l.kind = "lines" THEN "lines" ELSE "list") :
        op \in {<<";">>, <<"&", "&">>, <<"&">>, <<"nl">>}
               \cup IF NoHeredoc(l) THEN {<<"|">>, <<"|", "|">>, <<"|", "&">>, <<"|", "nl">>} ELSE {}}
    \cup IF l.kind = "lines" THEN {}
         ELSE {With(l, <<>>, after \o <<" ", "x">>, "list") :
                after \in {<<" ", ";">>, <<"|">>, <<" ", "2", ">", "&", "1", "|">>, <<" ", "&", ">", "t", ";">>}}

Groups(l) ==
    LET end == IF l.kind = "lines" THEN <<>> ELSE <<";">>
    IN { With(l, <<"(">>, <<")">>, "list"),
         With(l, <<"{", " ">>, end \o <<" ", "}">>, "list"),
         With(l, <<"x", ";", "!", " ">>, <<>>, IF l.kind = "lines" THEN "lines" ELSE "list"),
         With(l, <<"if", " ", "x", ";", "then", " ">>, end \o <<" ", "fi">>, "list"),
         With(l, <<"while", " ">>, end \o <<" ", "do", " ", "x", ";", "done">>, "list") }

\* In the words of another command, and in an arithmetic one.
Substitutions(l) ==
    { With(l, <<"x", " ", "$", "(">>, <<" ", ")">>, "program"),
      With(l, <<"x", " ", "\"", "$", "(">>, <<" ", ")", "\"">>, "program"),
      With(l, <<"V=", "$", "(", " ">>, <<")">>, "builtin"),
      With(l, <<"x", " ", "<", "(">>, <<")">>, "program"),
      With(l, <<"x", " ", "$", "(", "(", "1", " ", "<", "<", " ", "$", "(">>, <<" ", ")", ")", ")">>, "program"),
      [l EXCEPT !.text = <<"x", " ">> \o Ticks(@), !.kind = "program"],
      [l EXCEPT !.text = <<"x", " ", "\"">> \o Ticks(@) \o <<"\"">>, !.kind = "program"] }

\* Scripts for another shell.  (A quoted word that begins like a redirection
\* is taken for one by _drop_redirections: ssh is not given such a script.)
Scripts(l) ==
    { [l EXCEPT !.text = <<"sh", " ", "-c", " ">> \o Single(@), !.kind = "program"],
      [l EXCEPT !.text = <<"/bin/", "bash", " ", "-lc", " ">> \o Double(@), !.kind = "program"],
      [l EXCEPT !.text = <<"sh", " ", "-c", " ">> \o Ansi(@), !.kind = "program"],
      [l EXCEPT !.text = <<"su", " ", "-c", " ">> \o Single(@) \o <<" ", "t">>, !.kind = "program"],
      [l EXCEPT !.text = <<"pct", " ", "exec", " ", "1", " ", "--", " ", "sh", " ", "-c", " ">> \o Double(@),
                !.kind = "program"] }
    \cup (IF l.text[1] \in {">", "2"} THEN {}
          ELSE {[l EXCEPT !.text = <<"ssh", " ", "-i", " ", "t", " ", "t", " ">> \o Single(@), !.kind = "program"]})
    \cup IF l.kind = "program" THEN {With(l, <<"runuser", " ", "-u", " ", "t", " ", "--", " ">>, <<>>, "program")} ELSE {}

Heredocs(l) ==
    IF ~NoHeredoc(l) THEN {}
    ELSE { With(l, <<"bash", " ", "<", "<", "'", "EOF", "'", " ", "-s", "nl">>, <<"nl", "EOF", "nl">>, "lines"),
           With(l, <<"x", " ", "<", "<", "-", "EOF", "nl", "$", "(", " ">>, <<")", "nl", "EOF", "nl">>, "lines"),
           Show(With(l, <<"x", " ", "<", "<", "\\", "EOF", "nl">>, <<"nl", "EOF", "nl">>, "lines"), "maybe") }

\* Behind assignments, wrappers and redirections.
Prefixed(l) ==
    IF ~Simple(l) THEN {}
    ELSE {With(l, before, <<>>, l.kind) :
            before \in {<<"V=", "t", " ">>, <<">", "t", " ">>, <<"2", ">", " ", "t", " ">>, <<"command", " ">>}}
         \cup {With(l, <<>>, <<" ", "2", ">", "&", "1">>, l.kind)}
         \cup IF l.kind = "builtin" THEN {}
              ELSE {With(l, before, <<>>, "program") :
                     before \in { <<"sudo", " ", "-nu", " ", "t", " ">>, <<"sudo", " ", "--user", " ", "t", " ", "--", " ">>,
                                  <<"timeout", " ", "-s", " ", "t", " ", "1", " ">>, <<"env", " ", "-", " ", "V=", "t", " ">>,
                                  <<"nice", " ", "-5", " ">>, <<"x", "|", "xargs", " ", "-n", " ", "1", " ">>}}

\* Quoted, behind a #, looked up: nothing of it runs.
Shown(l) ==
    {Show([l EXCEPT !.text = <<"echo", " ">> \o Single(@), !.kind = "program"], "show"),
     Show([l EXCEPT !.text = <<"echo", " ", "a">> \o Double(@), !.kind = "program"], "show")}
    \cup (IF OneLine(l) THEN {Show(With(l, <<"x", " ", "#", " ">>, <<"nl">>, "lines"), "show")} ELSE {})
    \cup (IF l.wraps = 0 /\ l.kind = "builtin" THEN {Show(With(l, <<"command", " ", "-v", " ">>, <<>>, "program"), "show")} ELSE {})

Around(l) ==
    UNION {Sequences(l), Groups(l), Substitutions(l), Scripts(l), Heredocs(l), Prefixed(l), Shown(l)}
=============================================================================
