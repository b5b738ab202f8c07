----------------------------- MODULE ReadAllow -----------------------------
(***************************************************************************)
(* proxmox_mcp/read_allow.py: the validator of the one command             *)
(* proxmox_host_read_exec may run.  Check takes the typed words, refuses   *)
(* everything the allow-list does not name, and gives back the words       *)
(* rebuilt under `timeout`.                                                *)
(***************************************************************************)
EXTENDS ReadSpec, SequencesExt, FiniteSetsExt

Texts(words) == [k \in DOMAIN words |-> words[k].text]

\* _tokenize: no word holds anything unquoted that bash would act on, except
\* a glob behind the word's first character.
Tokenizes(words) == \A k \in DOMAIN words : words[k].shape \in {"plain", "glob"}

-----------------------------------------------------------------------------
Refused == 0

\* As if a glob behind such an option were any other word.
OptionalNextOrGlob(prog, opt, args, k) ==
    IF HasNext(prog, opt) /\ k < Len(args) /\ NextTakes(prog, opt, args[k + 1]) THEN 2 ELSE 1

\* An option whose value is optional takes the next word only when that word
\* has the value's form, and none may be a glob that could expand into one.
OptionalNext(prog, opt, args, k) ==
    IF ~HasNext(prog, opt) \/ k = Len(args) THEN 1
    ELSE IF NextTakes(prog, opt, args[k + 1]) THEN 2
    ELSE IF args[k + 1].star THEN Refused ELSE 1

\* A value that is the next word, which is not inspected but by VALUES.
NextValue(prog, opt, args, k) ==
    IF k < Len(args) /\ ValueOK(prog, opt, args[k + 1]) THEN 2 ELSE Refused

TakesLong(prog, spec, args, k) ==
    LET a == args[k] IN
    CASE a.name \in spec.lflags /\ a.val = "" -> 1
      [] a.name \in spec.lopt -> IF a.val # "" THEN 1 ELSE OptionalNext(prog, a.name, args, k)
      [] a.name \in spec.lvals /\ a.val = "" -> NextValue(prog, a.name, args, k)
      [] a.name \in spec.lvals /\ a.val # "" /\ ValueOK(prog, a.name, Name(a.val)) -> 1
      [] OTHER -> Refused

TakesShort(prog, spec, args, k) ==
    LET ls == args[k].letters
        stops == {p \in DOMAIN ls : ls[p] \notin spec.flags}
        p == Min(stops)
    IN IF stops = {} \/ (spec.num /\ args[k].form = "number") THEN 1
       ELSE CASE ls[p] \in spec.vals ->
                    IF p = Len(ls) THEN NextValue(prog, ls[p], args, k)
                    ELSE IF ls[p] \in spec.attach /\ ValueOK(prog, ls[p], Name(ls[p + 1])) THEN 1
                    ELSE Refused
              [] ls[p] \in spec.opt -> IF p = Len(ls) THEN OptionalNext(prog, ls[p], args, k) ELSE 1
              [] OTHER -> Refused

\* How many words the option at k takes, or Refused.
Takes(prog, spec, args, k) ==
    IF args[k].kind = "long" THEN TakesLong(prog, spec, args, k)
                             ELSE TakesShort(prog, spec, args, k)

\* Where the walk of _options goes from each word.
OptionsNext(prog, spec, args, stopAtOperand) ==
    LET end == Len(args) + 1
        takes(k) == Takes(prog, spec, args, k)
    IN [k \in DOMAIN args |->
            IF IsOption(args[k]) THEN IF takes(k) = Refused THEN end ELSE k + takes(k)
            ELSE IF stopAtOperand \/ args[k].kind = "ddash" THEN end ELSE k + 1]

\* _options: walk args from start on; the operands it leaves, and where a walk
\* stops that is to stop at an operand or behind a --.
Options(prog, spec, args, start, stopAtOperand) ==
    LET read == Visited(OptionsNext(prog, spec, args, stopAtOperand), start)
        free == {k \in read : args[k].kind \in {"operand", "dash"}}
        behind == {k + 1 : k \in {j \in read : args[j].kind = "ddash"}}
    IN [ok |-> \A k \in read : IsOption(args[k]) => Takes(prog, spec, args, k) # Refused,
        operands |-> free \cup UNION {k..Len(args) : k \in behind},
        at |-> Min({Len(args) + 1} \cup free \cup behind)]

-----------------------------------------------------------------------------
IsPlus(t) == t.kind = "operand" /\ t.form \in {"plusNumber", "plusOther"}

\* The numbers of a "count" program are INTERVAL COUNT, last, COUNT whole and > 0.
CountRule(argv, operands) ==
    LET nums == {k \in operands : argv[k].form \in {"number", "fraction"}}
    IN /\ \A k \in operands : ~argv[k].star /\ argv[k].form \in {"name", "number", "fraction"}
       /\ \/ nums = {}
          \/ \E i, j \in nums :
                /\ i < j /\ nums = {i, j}
                /\ \A k \in operands \ nums : k < i
                /\ argv[j].form = "number"

\* operands are the positions in argv of what is left to the rule.
OperandRule(rule, argv, operands) ==
    CASE rule = "none" -> operands = {}
      [] rule = "+" -> \A k \in operands : IsPlus(argv[k])
      [] rule = "+N" -> \A k \in operands : IsPlus(argv[k]) => argv[k].form = "plusNumber"
      [] rule = "no+" -> \A k \in operands : ~IsPlus(argv[k])
      [] rule = "count" -> CountRule(argv, operands)
      [] OTHER -> TRUE

\* `ip [OPTIONS] OBJECT [ACTION ...]`: exact words only.  A last -f takes a word
\* that is not there.
IpTakes(t) ==
    CASE t.letters \in {<<f>> : f \in IP_VALUE_OPTS} -> 2
      [] t.letters \in {<<f>> : f \in IP_FLAGS} -> 1
      [] OTHER -> Refused

IpNext(args) ==
    [k \in DOMAIN args |->
        IF /\ IsOption(args[k]) /\ IpTakes(args[k]) # Refused
           /\ k + IpTakes(args[k]) <= Len(args)
        THEN k + IpTakes(args[k]) ELSE Len(args) + 1]

Ip(args) ==
    LET read == Visited(IpNext(args), 1)
    IN /\ \A k \in read : IsOption(args[k]) => IpTakes(args[k]) # Refused
       /\ \E k \in read :
            /\ Says(args[k], IP_OBJECTS)
            /\ \/ k = Len(args)
               \/ Says(args[k + 1], IP_READ)
               \/ Says(args[k + 1], {"get"}) /\ Says(args[k], IP_GET)

\* _validate's verdict: the positions of the free operands in argv, and what a
\* `pct exec` has behind pct, which _pct_exec has still to accept.
No == [ok |-> FALSE, operands |-> {}, exec |-> <<>>]
Yes(ops) == [ok |-> TRUE, operands |-> ops, exec |-> <<>>]
Exec(args) == [ok |-> FALSE, operands |-> {}, exec |-> args]

\* The operand rule, with ops the operands' positions behind the program's name.
Ruled(argv, ops, rule) ==
    LET mine == {k + 1 : k \in ops}
    IN IF OperandRule(rule, argv, mine) THEN Yes(mine) ELSE No

ByProgram(prog, argv) ==
    LET walk == Options(prog, SPEC[prog], Tail(argv), 1, FALSE)
    IN IF walk.ok THEN Ruled(argv, walk.operands, OPERANDS(prog, "")) ELSE No

BySubcommand(prog, argv) ==
    LET args == Tail(argv)
        first == Options(prog, SUBS[prog].pre, args, 1, TRUE)
        bare == first.at > Len(args)
        subs == DOMAIN SUBS[prog] \ {"pre"}
        sub == IF bare THEN "list_units" ELSE args[first.at].name
        walk == Options(prog, Both(SUBS[prog].pre, SUBS[prog][sub]), args, first.at + 1, FALSE)
    IN IF \/ ~first.ok
          \/ bare /\ prog # "systemctl"
          \/ ~bare /\ ~Says(args[first.at], subs) THEN No
       ELSE IF prog = "pct" /\ sub = "exec" THEN Exec(SubSeq(args, first.at, Len(args)))
       ELSE IF walk.ok THEN Ruled(argv, walk.operands, OPERANDS(prog, sub))
       ELSE No

Validate(argv) ==
    LET prog == argv[1].name
    IN IF argv[1].kind # "operand" \/ argv[1].dir = "other" THEN No
       ELSE CASE prog = "ip" -> IF Ip(Tail(argv)) THEN Yes({}) ELSE No
              [] prog \in DOMAIN SPEC -> ByProgram(prog, argv)
              [] prog \in DOMAIN SUBS -> BySubcommand(prog, argv)
              [] OTHER -> No

\* `pct exec <vmid> -- <command>`, exactly, one level deep (_pct_exec).
PctForm(args) == /\ Len(args) >= 4
                 /\ args[2].form = "number" /\ args[2].kind = "operand"
                 /\ args[3].kind = "ddash"
InsideCT(argv) == Validate(argv).ok
PctExec(verdict) ==
    IF verdict.exec = <<>> THEN verdict
    ELSE IF PctForm(verdict.exec) /\ InsideCT(SubSeq(verdict.exec, 4, Len(verdict.exec)))
    THEN Yes({}) ELSE No
OnHost(argv) == PctExec(Validate(argv))

-----------------------------------------------------------------------------
\* The words `check` puts before a command: timeout -k KILL_AFTER <timeout>.
Limit == <<Plain(Name("timeout")), Plain(Short(<<"k">>)),
           Plain(Operand("5", "number")), Plain(Operand("30", "number"))>>

\* True of any literals, but nothing the proof system knows.
ASSUME LiteralsAssumption == {"", "timeout", "k", "5", "30"} \subseteq STRING

\* Where the command inside the CT begins, or 0.
InnerAt(words) ==
    LET argv == Texts(words)
        sub == IF argv[2].kind = "ddash" THEN 3 ELSE 2
    IN IF argv[1].name = "pct" /\ Says(argv[sub], {"exec"}) THEN sub + 3 ELSE 0

\* As if killing pct on the host reached the CT.
WrappedOutside(words) == Limit \o words

Wrapped(words) ==
    LET at == InnerAt(words)
    IN Limit \o (IF at = 0 THEN words
                 ELSE SubSeq(words, 1, at - 1) \o Limit \o SubSeq(words, at, Len(words)))

\* As if a glob could only expand into one word, and a program's name were safe.
GlobsBehindProgram(words, verdict) == words[1].shape # "glob"

\* A glob is left unquoted in a free operand of the host command only.
GlobsAllowed(words, verdict) ==
    \A k \in DOMAIN words : words[k].shape = "glob" => k \in verdict.operands

Accepted(words, verdict) == verdict.ok /\ GlobsAllowed(words, verdict)
Allowed(words) ==
    /\ words # <<>>
    /\ Tokenizes(words)
    /\ Accepted(words, OnHost(Texts(words)))
=============================================================================
