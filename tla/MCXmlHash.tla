----------------------------- MODULE MCXmlHash -----------------------------
(***************************************************************************)
(* Trees of XML (XmlHash), what is read from and answered with them        *)
(* (MCAnswers) and the commands of sibridge (MCConsole): a behaviour is    *)
(* one of operations on trees, of one question, or of one console.         *)
(***************************************************************************)
EXTENDS XmlHash

MCTexts == {<<"t">>}
MCFilters == {[by |-> "name", value |-> 1], [by |-> "text", value |-> <<"t">>],
              [by |-> "all"]}

El(name, attrs, kids) == [name |-> name, attrs |-> attrs, kids |-> kids]
T == [text |-> <<"t">>]
Leaf(name) == El(name, <<>>, <<>>)

MCDocuments ==
  {El(1, <<>>, <<Leaf(2), T, Leaf(1), [text |-> <<"u", "v">>]>>),
   El(1, <<<<2, <<"t">>>>>>, <<El(2, <<>>, <<T, Leaf(1), T>>)>>),
   El(2, <<>>, <<Leaf(1), El(1, <<>>, <<T>>), Leaf(1)>>)}

-----------------------------------------------------------------------------
CONSTANTS Width, StampLength
VARIABLES question, asked
Answers == INSTANCE MCAnswers

VARIABLES joblist, rights, line, sent, selection, before, entered,
          wire, readbuf, buf, repeat, repeat_command, bytesRemaining,
          messageBytesRemaining, open, input, obeyed
Console == INSTANCE MCConsole
console == <<joblist, rights, line, sent, selection, before, entered, wire, readbuf,
             buf, repeat, repeat_command, bytesRemaining, messageBytesRemaining, open,
             input, obeyed>>

Nothing == [kind |-> "none"]
Commands == [kind |-> "console"]
DataInit ==
  \/ Init /\ question = Nothing /\ asked = FALSE /\ Console!Idle
  \/ Init /\ Answers!Init /\ Console!Idle
  \/ Init /\ question = Commands /\ asked = FALSE /\ Console!Init
DataNext ==
  \/ question = Nothing /\ Next /\ UNCHANGED <<question, asked, console>>
  \/ /\ question \notin {Nothing, Commands} /\ Answers!Next
     /\ UNCHANGED <<vars, console>>
  \/ question = Commands /\ Console!Next /\ UNCHANGED <<vars, question, asked>>
DataSpec == DataInit /\ [][DataNext]_<<vars, question, asked, console>>

\* Answers!ReadsLdif of every layout of every object.
ReadsLdif == Answers!ReadsLdif

\* Answers!ConditionsSplitItems of every condition and item.
ConditionsSplitItems == Answers!ConditionsSplitItems

\* Answers!AuditsAddUp of every archive, query, limit and list of columns.
AuditsAddUp == Answers!AuditsAddUp

\* Answers!LatestAuditAnswers of every archive and time window.
LatestAuditAnswers == Answers!LatestAuditAnswers

\* Answers!RulesFit of every list of rules and system.
RulesFit == Answers!RulesFit

\* Answers!SubstringsSelect of every command, list of candidates and machine.
SubstringsSelect == Answers!SubstringsSelect

\* Console!CommandsMeanWhatHelpSays of every pair of lines.
CommandsMeanWhatHelpSays == Console!CommandsMeanWhatHelpSays

\* Console!DeletesOnlyMatching of every pair of lines.
DeletesOnlyMatching == Console!DeletesOnlyMatching

\* Console!LinesAreObeyed of everything typed.
LinesAreObeyed == Console!LinesAreObeyed
=============================================================================
