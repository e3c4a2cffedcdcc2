----------------------------- MODULE MCAnswers -----------------------------
(***************************************************************************)
(* The questions put to the functions that read search results and files   *)
(* and answer queries: every initial state is one question, and the only   *)
(* step asks it.                                                           *)
(***************************************************************************)
EXTENDS Audit

Ldif == INSTANCE XmlLdif
Tree == INSTANCE PropTree
Rules == INSTANCE Templates
Attributes == INSTANCE BridgeAttributes

VARIABLES question, asked
vars == <<question, asked>>

UpTo(S, n) == UNION {[1..k -> S] : k \in 0..n}

-----------------------------------------------------------------------------
\* LDIF: one or two objects with attributes of one or two names, laid out in
\* every way.
Attribute == [name : {<<8>>, <<9, 8>>}, b64 : BOOLEAN,
              value : {<<9>>, <<8, 9, 8>>, <<9, 9, 8, 8, 9>>}]
Style == {[version |-> v, width |-> w, comment |-> c, gap |-> g, result |-> r] :
            v, c, r \in BOOLEAN, w \in {1, 2, 9}, g \in {<<1>>, <<1, 2, 1>>}}
Info(a, e, b) == [attribute |-> a, element |-> e, base64 |-> b]
Infos == {<<>>, <<Info(<<8>>, <<7>>, TRUE)>>,
          <<Info(<<9, 8>>, <<7>>, FALSE), Info(<<8>>, <<6>>, FALSE)>>}
Objects == {<<<<a>>>> : a \in Attribute}
           \cup {<<<<a, b>>, <<a>>>> : a, b \in {x \in Attribute : Len(x.value) # 1}}
LdifQuestions ==
  [kind : {"ldif"}, objects : Objects, style : Style, infos : Infos, tagged : BOOLEAN]

-----------------------------------------------------------------------------
\* Conditions: numbers at the ends of eight bits and with signs, words and words with digits.
N(s) == [i \in DOMAIN s |-> Zero + s[i]]
Numerals == {N(<<9>>), N(<<0, 9>>), N(<<1, 0>>), N(<<1, 2, 7>>), N(<<1, 2, 8>>),
             <<Minus>> \o N(<<1, 2, 8>>), <<Minus>> \o N(<<1>>), <<Plus>> \o N(<<9>>)}
Words == {<<>>, <<65, 98>>, <<97, 66>>, N(<<9>>) \o <<97>>, <<97, Newline>>}
Patterns == {<<Percent>>, <<97, Underscore>>, <<Percent, 98>>}
Phrases == [operator : Operators \cup {""}, columns : {{"x"}, {"y"}},
            value : Numerals \cup Words \cup Patterns]
OneItem(v) == [x |-> <<v>>, y |-> <<N(<<9>>)>>]
WhereQuestions ==
  [kind : {"where"}, item : {OneItem(v) : v \in Numerals \cup Words},
   clause : [connector : {"", "or"}, phrases : {<<p>> : p \in Phrases}]]
  \cup
  [kind : {"where"}, item : {OneItem(v) : v \in Numerals \cup Words},
   clause : [connector : {"and", "or"},
             phrases : [1..2 -> [operator : {"ge", "ne"}, columns : {{"x"}, {"y"}},
                                 value : {N(<<1, 0>>), N(<<9>>), <<97, 98>>}]]]]

-----------------------------------------------------------------------------
\* Audits: two machines and their directories.
A == <<97>>
B == <<98>>
E(key, version) == [key |-> key, version |-> version]
None == [c \in {} |-> <<>>]
Bad(name) == [name |-> name, found |-> FALSE, head |-> None, entries |-> <<>>]
Good(name, entries) ==
  [name |-> name, found |-> TRUE, head |-> [hostname |-> A], entries |-> entries]
Files(name) ==
  {Bad(name), Good(name, <<E(A, B), E(B, A)>>), Good(name, <<E(A, A), E(A, B), E(B, B)>>)}
Early == N(<<1, 1>>)
Late == N(<<1, 2>>)
DirSets == {{}} \cup {{d} : d \in Files(Early) \cup Files(Late)}
           \cup {{d, e} : d \in Files(Early), e \in Files(Late)}
Machine(mac, dirs) == [mac |-> mac, dirs |-> dirs]

Phrase(column, value) == [operator |-> "", columns |-> {column}, value |-> value]
Where(phrases) == <<[connector |-> "", phrases |-> phrases]>>
Wheres == {<<>>, Where(<<Phrase("key", A)>>), Where(<<Phrase("macaddress", A)>>)}
Count(as, unique, where) == [as |-> as, unique |-> unique, where |-> where]
TheCounts ==
  <<Count("all", <<>>, <<>>), Count("keys", <<"key">>, <<>>),
    Count("pairs", <<"version", "macaddress", "key">>, Where(<<Phrase("version", B)>>))>>
Window == {<<N(<<1>>), N(<<1>>)>>, <<Early, Early>>}
AuditQuestions ==
  {[kind |-> "audit", machines |-> <<Machine(A, d), Machine(B, e)>>, max |-> max,
    q |-> [tstart |-> w[1], tend |-> w[2], includeothers |-> FALSE, select |-> s,
           where |-> c, counts |-> TheCounts]] :
      d \in DirSets, e \in {s \in DirSets : Cardinality(s) < 2}, w \in Window, max \in {1, 4},
      s \in {<<>>, <<"key">>, <<"macaddress", "version">>}, c \in Wheres}

\* Machines with up to three audits; the names tell the versions.
U(s) == <<s[1], Underscore, s[2]>>
Stamps == {N(<<1, 1>>), N(<<1, 2>>), N(<<2, 1>>)}
Dated(names) == {Good(s, <<[version |-> s]>>) : s \in names}
TimeQuestions ==
  {[kind |-> "time", machines |-> <<Machine(A, Dated(names))>>,
    q |-> [tstart |-> from, tend |-> to]] :
      names \in SUBSET Stamps \cup SUBSET {U(s) : s \in Stamps},
      from, to \in Stamps \cup {N(<<1>>), N(<<2>>), U(N(<<1, 2>>))}}

-----------------------------------------------------------------------------
\* Columns of which one may be the beginning of another.
Columns == {<<1>>, <<1, 2>>, <<1, 2, 1>>, <<1, 1>>, <<2>>}
TreeQuestions ==
  [kind : {"tree"}, props : UpTo(Columns, 3), tag : Columns \cup {<<2, 1>>}, empty : BOOLEAN]

-----------------------------------------------------------------------------
\* Rules of up to three parts, with the expression as written and as it is meant,
\* and a second and a third template's.
Expr(source, re) == [source |-> source, re |-> re]
Exprs ==
  {Expr(<<"a">>, <<"a">>),
   Expr(<<"^", "$">>, <<"^", "$">>),
   Expr(<<"a", " ", " ", "b", "$">>, <<"a", "\\", "s", "+", "b", "$">>),
   Expr(<<"\\", "/">>, <<"\\", "/">>),
   Expr(<<"b", "\\", " ">>, <<"b", "\\", "s", "+">>)}
Part(name, positive, expr) ==
  [attr |-> <<name>>, positive |-> positive, source |-> expr.source, re |-> expr.re]
Parts == {Part(n, p, e) : n \in {"a", "b"}, p \in BOOLEAN, e \in Exprs}
Few == {p \in Parts : \/ p.source = <<"a">>
                      \/ p.attr = <<"a">> /\ p.source[1] = "b"}
One == CHOOSE p \in Few : ~p.positive
RuleSets ==
  {<<r>> : r \in {<<p>> : p \in Parts} \cup {<<p, r>> : p, r \in Parts}}
  \cup {<<<<p, r, t>>, <<One>>, <<u>>>> : p, r, t, u \in Few}
Values(attribute) ==
  IF attribute = <<"a">> THEN {<<<<"a">>>>, <<<<"b", " ">>, <<"a", " ", "b">>>>}
  ELSE {<<<<"S", "a">>>>, <<<<"/">>>>}
OneValue == {[x \in {<<"a">>} |-> v] : v \in Values(<<"a">>)}
TwoValues == {[x \in {<<"a">>, <<"b">>} |-> IF x = <<"a">> THEN <<<<"/">>>> ELSE v] :
                v \in Values(<<"b">>)}
TemplateQuestions ==
  {q \in [kind : {"template"}, system : OneValue \cup TwoValues, wide : BOOLEAN,
           rules : RuleSets] : q.wide => Len(q.rules) = 1}

-----------------------------------------------------------------------------
\* Machines whose attributes are chosen by substrings: candidates of which one may
\* be part of another, or differ in capitals only.
Letters(s) == [i \in DOMAIN s |-> IF s[i] < 10 THEN s[i] ELSE s[i] + 90]
Candidates == {<<1>>, <<1, 2>>, <<2, 1>>, Letters(<<11, 2>>), <<1, 2, 1>>}
Hosts == [classes : {<<<<2>>>>}, release : {<<0>>, <<1>>}, mirrors : {<<>>}]
AttributeQuestions ==
  [kind : {"attributes"}, command : {".release"}, host : Hosts, subs : [{1} -> {<<1>>, <<12>>}],
   names : {s \in UpTo(Candidates, 3) : IsInjective(s)}]
  \cup
  [kind : {"attributes"}, command : {".classes", ".deb"}, host : Hosts,
   subs : {<<<<1>>>>, <<<<1, 2>>, <<1>>>>, <<<<2, 1>>, <<3>>>>}, names : UpTo(Candidates, 3)]

-----------------------------------------------------------------------------
Init ==
  /\ asked = FALSE
  /\ \/ question \in LdifQuestions
     \/ question \in WhereQuestions
     \/ question \in AuditQuestions
     \/ question \in TimeQuestions
     \/ question \in TreeQuestions
     \/ question \in TemplateQuestions
     \/ question \in AttributeQuestions

Ask == ~asked /\ asked' = TRUE /\ UNCHANGED question

Next == Ask
Spec == Init /\ [][Next]_vars

Is(kind) == asked /\ question.kind = kind

\* Ldif!ReadsLdif of every layout.
ReadsLdif == Is("ldif") => Ldif!ReadsLdif(question)

\* Complementary of every condition and item.
ConditionsSplitItems ==
  Is("where") => Complementary(question.clause, question.item)

\* EveryMachineOnce and AggregatesAddUp of every archive, query and limit, with
\* Tree!FindsColumns of every list of columns.
AuditsAddUp ==
  /\ Is("audit") =>
       /\ EveryMachineOnce(question.machines, question.q)
       /\ AggregatesAddUp(question.machines, question.q, question.max)
  /\ Is("tree") => Tree!FindsColumns(question.props, question.tag, question.empty)

\* AnswersLatest of every archive and time window.
LatestAuditAnswers == Is("time") => AnswersLatest(question.machines, question.q)

\* Rules!TemplatesFit of every list of rules and system.
RulesFit ==
  Is("template") => Rules!TemplatesFit(question.system, question.rules, question.wide)

\* Attributes!SubstringsSelect of every command, list of candidates and machine.
SubstringsSelect == Is("attributes") => Attributes!SubstringsSelect(question)
=============================================================================
