----------------------------- MODULE ShellGate -----------------------------
(***************************************************************************)
(* host_ssh.is_destructive: which command lines need i_understand_data_loss *)
(* before host_exec and lxc_exec run them, and over a list of patterns of  *)
(* its own (vm_ssh.is_destructive) before vm_exec does.  The simple        *)
(* commands a line holds (ShellText) are followed into the scripts other   *)
(* shells read, and judged by their head; the patterns look at the raw     *)
(* text too.                                                               *)
(***************************************************************************)
EXTENDS ShellText

Keywords == {<<k>> : k \in {"if", "then", "do", "else", "elif", "while", "until", "!", "{", "}"}}
IsAssignment(w) == At(w, 1) = "V="

\* The option tables of the wrappers: letters with a value, letters without,
\* long options with a value, without, and operands before the command.
Options(vals, flags, longVals, longFlags, operands) ==
    [vals |-> vals, flags |-> flags, longVals |-> longVals, longFlags |-> longFlags, operands |-> operands]

Wrappers ==
    [sudo    |-> Options({"u", "g"}, {"n", "i", "k"}, {"user", "host"}, {"login"}, 0),
     env     |-> Options({"u", "S"}, {"i", "v"}, {"unset", "split-string"}, {"debug"}, 0),
     xargs   |-> Options({"n", "d", "s"}, {"i"}, {}, {}, 0),
     nice    |-> Options({"n"}, {}, {}, {}, 0),
     timeout |-> Options({"k", "s"}, {"v"}, {}, {}, 1),
     command |-> Options({}, {"v"}, {}, {}, 0),
     nohup   |-> Options({}, {}, {}, {}, 0)]
WrapperWords == {<<name>> : name \in DOMAIN Wrappers}

Attached == {"--user=t"}    \* with its value

\* Where a wrapper's own words end: the index of the command, 0 for a lookup
\* (`command -v eval`), -1 for an option its table does not list.
Lookup == 0
Unlisted == -1

ShortOption(name, opt, t, k) ==
    LET ls == Letters[opt]
        read == {p \in DOMAIN ls : \A q \in 1..(p - 1) : ls[q] \notin t.vals}
    IN IF \E p \in read : ls[p] \notin t.vals \cup t.flags \/ (name = "env" /\ ls[p] = "S") THEN Unlisted
       ELSE IF name = "command" /\ "v" \in Range(ls) THEN Lookup
       ELSE IF Last(ls) \in t.vals /\ Len(ls) \in read THEN k + 2 ELSE k + 1

LongOption(opt, t, k) ==
    CASE Longs[opt] \notin t.longVals \cup t.longFlags \/ Longs[opt] = "split-string" -> Unlisted
      [] Longs[opt] \in t.longVals /\ opt \notin Attached -> k + 2
      [] OTHER -> k + 1

SkipOptions(name, words, first) ==
    LET t == Wrappers[name]
        from[k \in Nat] ==
            LET opt == At(words[k], 1)
                next == CASE opt = "-" -> IF name = "env" THEN k + 1 ELSE Unlisted
                          [] opt = "-5" /\ name = "nice" -> k + 1
                          [] opt = "-h" /\ name = "sudo" /\ \A q \in (k + 1)..Len(words) : At(words[q], 1) = "<()"
                                -> Lookup
                          [] opt \in DOMAIN Longs -> LongOption(opt, t, k)
                          [] OTHER -> ShortOption(name, opt, t, k)
            IN CASE k > Len(words) -> k + t.operands
                 [] k <= Len(words) /\ ~IsOption(words[k]) -> k + t.operands
                 [] k <= Len(words) /\ words[k] = <<"--">> -> k + 1 + t.operands
                 [] OTHER -> IF next \in {Lookup, Unlisted} THEN next ELSE from[next]
    IN from[first]

\* _head: the command after redirections, keywords, assignments and wrappers.
Headed(name, args) == [name |-> name, args |-> args, stuck |-> FALSE]
NoHead == Headed(<<>>, <<>>)
Braces == {"{a,b}"}

HeadFrom(words) ==
    LET from[k \in Nat] ==
            LET after == SkipOptions(Base(words[k])[1], words, k + 1)
            IN CASE k > Len(words) -> NoHead
                 [] k <= Len(words) /\ (words[k] \in Keywords \/ IsAssignment(words[k])) -> from[k + 1]
                 [] k <= Len(words) /\ Base(words[k]) \in WrapperWords ->
                        IF after = Unlisted THEN [NoHead EXCEPT !.stuck = TRUE]
                        ELSE IF after = Lookup THEN NoHead ELSE from[after]
                 [] OTHER -> [Headed(Base(words[k]), SubSeq(words, k + 1, Len(words)))
                                EXCEPT !.stuck = Range(words[k]) \cap Braces # {}]
    IN from[1]

\* A line of a lenient text that cannot be modelled has no head.
HeadOf(words, lenient) ==
    LET h == HeadFrom(DropRedirections(words)) IN IF h.stuck /\ lenient THEN NoHead ELSE h

-----------------------------------------------------------------------------
\* _scripts: the texts of a simple command that another shell will parse.
ScriptRunners == Shells \cup {<<"su">>, <<"runuser">>}
DashC == {<<"-c">>, <<"-lc">>}

AfterDashC(words) ==
    LET at == {k \in DOMAIN words : Base(words[k]) \in ScriptRunners}
        dash == {k \in DOMAIN words : at # {} /\ k > Min(at) /\ k < Len(words) /\ words[k] \in DashC \cup {<<"--">>}}
    IN IF dash # {} /\ words[Min(dash)] \in DashC THEN <<words[Min(dash) + 1]>> ELSE <<>>

Joined(words) == FlattenSeq([k \in DOMAIN words |-> IF k = 1 THEN words[k] ELSE <<" ">> \o words[k]])

\* ssh joins what follows its host for the remote shell.
SshLine(args) ==
    LET from[k \in Nat] == IF k > Len(args) \/ ~IsOption(args[k]) THEN k
                           ELSE IF args[k] \in {<<"-c">>, <<"-e">>, <<"-E">>, <<"-i">>, <<"-m">>} THEN from[k + 2] ELSE from[k + 1]
    IN IF from[1] < Len(args) THEN <<Joined(SubSeq(args, from[1] + 1, Len(args)))>> ELSE <<>>

\* shlex.quote
Special == {" ", "nl", ";", "&", "|", "(", ")", "'", "\"", "tick", "\\", "$", "<", ">", "#", "!", "{", "}", "*"}
Quote(w) ==
    IF w # <<>> /\ Range(w) \cap Special = {} THEN w
    ELSE <<"'">> \o FlattenSeq([k \in DOMAIN w |->
                        IF w[k] = "'" THEN <<"'", "\"", "'", "\"", "'">> ELSE <<w[k]>>]) \o <<"'">>

\* The words after `pct exec N --`.
ArgvLine(args) ==
    LET at == {k \in DOMAIN args : args[k] = <<"--">>}
        argv == SubSeq(args, Min(at) + 1, Len(args))
    IN IF at = {} THEN <<>> ELSE <<Joined([k \in DOMAIN argv |-> Quote(argv[k])])>>

Scripts(words, head) ==
    AfterDashC(words)
    \o (IF head.name = <<"ssh">> THEN SshLine(head.args) ELSE <<>>)
    \o (IF head.name \in {<<"pct">>, <<"qm">>, <<"lxc-attach">>, <<"runuser">>} THEN ArgvLine(head.args) ELSE <<>>)

\* _commands: the simple commands of a line, scripts included.
Start(text, lenient, out) == Scan[New(text, 1, "", "plain", lenient, 0, out)]

Reading(c, script, lenient) ==
    LET r == Start(script, lenient, c.out) IN [c EXCEPT !.out = r.out, !.stuck = @ \/ r.stuck]

Follow(c, words, lenient, head) ==
    FoldLeft(LAMBDA d, script : IF d.stuck THEN d ELSE Reading(d, script, lenient),
             [c EXCEPT !.stuck = head.stuck], Scripts(words, head))

FollowAll[c \in Scanner, j \in Nat] ==
    IF c.stuck \/ j > Len(c.out) THEN c
    ELSE FollowAll[Follow(c, c.out[j].words, c.out[j].lenient, HeadOf(c.out[j].words, c.out[j].lenient)), j + 1]

Commands(text, lenient) == FollowAll[Start(text, lenient, <<>>), 1]

-----------------------------------------------------------------------------
\* _opaque: heads whose program cannot be seen.
Interpreters == {<<"python3">>}
Decoders == {<<"eval">>, <<"b64decode">>}
DecodeFlags == {<<"-d">>, <<"-di">>, <<"--decode">>}

OpaqueHead(piped, name, args) ==
    \/ name \in Decoders
    \/ name = <<"base64">> /\ Range(args) \cap DecodeFlags # {}
    \/ name \in Shells \cup {<<".">>} /\ \E w \in Range(args) : At(w, 1) = "<()"
    \/ name \in Shells /\ \E j \in 1..(Len(args) - 1) : args[j] \in DashC /\ At(args[j + 1], 1) \in {"$", "$()", "$(())"}
    \/ piped /\ name \in Shells /\ ProgramFromStdin("shell", args)
    \/ piped /\ name \in Interpreters /\ ProgramFromStdin("interp", args)

\* A decode call anywhere in the line, where some command is an interpreter.
Opaque(text, heads) ==
    \/ \E h \in heads : OpaqueHead(h.piped, h.name, h.args)
    \/ "b64decode" \in Range(text) /\ \E h \in heads : h.name \in Interpreters

HeadIn(cmd, h) == [piped |-> cmd.piped, name |-> h.name, args |-> h.args]
Heads(cmds) == {HeadIn(cmd, HeadOf(cmd.words, cmd.lenient)) : cmd \in Range(cmds)}

\* eval right after a quote, with an argument the shell would expand.
QuoteEval(text) ==
    \E k \in DOMAIN text :
        /\ text[k] = "eval" /\ At(text, k + 1) = " " /\ At(text, k + 2) \in {"'", "\"", "$", "tick"}
        /\ \/ At(text, k - 1) \in {"'", "\""}
           \/ At(text, k - 1) = " " /\ At(text, k - 2) \in {"'", "\""}

\* The list of the host's tools, and a guest's: no pool is destroyed in a guest.
HostPatterns == {<<"r", "m", " ", "-rf">>, <<"mkfs">>, <<"halt">>, <<"zpool", " ", "destroy">>}
GuestPatterns == {<<"r", "m", " ", "-rf">>, <<"mkfs">>, <<"halt">>, <<"docker", " ", "system", " ", "prune">>}

Matches(pats, text) ==
    \E p \in pats, k \in DOMAIN text : \A q \in DOMAIN p : At(text, k + q - 1) = p[q]

\* The texts base64 literals of the line decode to.
Payloads == [B64rm |-> <<"r", "m", " ", "-rf">>, B64eval |-> <<"eval", " ", "x">>,
             B64twice |-> <<"x", " ", "B64rm">>,
             B64prune |-> <<"docker", " ", "system", " ", "prune">>, B64data |-> <<"x", " ", "'">>]

Seen(cmds) == FlattenSeq([k \in DOMAIN cmds |-> Joined(cmds[k].words) \o <<"nl">>])

Judged(pats, text, cmds) == Matches(pats, Seen(cmds)) \/ Opaque(text, Heads(cmds))

\* What cannot be modelled needs the flag, but not in a decoded payload.
Inspected(pats, text, c, depth) == IF c.stuck THEN depth = 0 ELSE Judged(pats, text, c.out)

\* is_destructive over a machine's patterns, in a line or in a payload decoded out
\* of it.
Flagged[depth \in 0..3] ==
    [pats \in {HostPatterns, GuestPatterns} |-> [text \in Seq(STRING) |->
        \/ Matches(pats, text) \/ QuoteEval(text)
        \/ depth < 3 /\ \E p \in Range(text) \cap DOMAIN Payloads :
                            Flagged[depth + 1][pats][Payloads[p]]
        \/ Inspected(pats, text, Commands(text, depth > 0), depth)]]

IsDestructive(pats, text) == Flagged[0][pats][text]
=============================================================================
