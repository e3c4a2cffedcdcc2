----------------------------- MODULE BridgeLoop -----------------------------
(***************************************************************************)
(* sibridge: handle_request() of one connection, which cuts what is read   *)
(* into lines and repeats the last command while nothing is typed, and     *)
(* ReaderWriterConnection, whose goroutine reads ahead.  A network         *)
(* connection behaves like it.                                             *)
(***************************************************************************)
EXTENDS Integers, SequencesExt

CONSTANTS Typed,        \* what users type: sequences of characters
          MaxPiece,     \* bound: the bytes that arrive at once
          MaxRepeats,   \* bound on repetitions
          MessageBytes, TotalBytes

VARIABLES wire,     \* what is still to come
          readbuf,  \* the pieces read ahead, "EOF" or "error" at the end
          buf, repeat, repeat_command, bytesRemaining, messageBytesRemaining,
          open,
          input,    \* history: what the loop has read
          obeyed    \* history: the commands handed to processMessage

loop == <<wire, readbuf, buf, repeat, repeat_command, bytesRemaining,
          messageBytesRemaining, open, input, obeyed>>

NL == "\n"
Blank == " "
Repeated == <<"q">>   \* the command that asks to be repeated
ReplyBytes == 1

LoopInit ==
  /\ wire \in Typed
  /\ readbuf = <<>> /\ buf = <<>> /\ repeat = FALSE /\ repeat_command = <<>>
  /\ bytesRemaining = TotalBytes /\ messageBytesRemaining = MessageBytes
  /\ open = TRUE /\ input = <<>> /\ obeyed = <<>>

-----------------------------------------------------------------------------
(* ReaderWriterConnection.                                                 *)

IsError(piece) == piece \in {<<"EOF">>, <<"error">>}

\* bufferFiller() pushes what arrives, and at last the error.
bufferFiller ==
  /\ open
  /\ \/ \E n \in 1..MaxPiece :
          /\ n <= Len(wire)
          /\ wire' = SubSeq(wire, n + 1, Len(wire))
          /\ readbuf' = Append(readbuf, SubSeq(wire, 1, n))
     \/ /\ wire = <<>> /\ ~\E k \in DOMAIN readbuf : IsError(readbuf[k])
        /\ UNCHANGED wire
        /\ \E e \in {"EOF", "error"} : readbuf' = Append(readbuf, <<e>>)
  /\ UNCHANGED <<buf, repeat, repeat_command, bytesRemaining, messageBytesRemaining, open,
                 input, obeyed>>

\* Read(b): the first piece, or as much of it as b holds.
ReadOf(pieces, length) ==
  LET piece == Head(pieces)
      n == IF length < Len(piece) THEN length ELSE Len(piece)
  IN  IF IsError(piece) \/ n = Len(piece) THEN [read |-> piece, rest |-> Tail(pieces)]
      ELSE [read |-> SubSeq(piece, 1, n),
            rest |-> <<SubSeq(piece, n + 1, Len(piece))>> \o Tail(pieces)]

-----------------------------------------------------------------------------
(* handle_request().                                                       *)

TrimSpace(s) ==
  LET kept == {i \in DOMAIN s : s[i] # Blank} IN
  IF kept = {} THEN <<>> ELSE SubSeq(s, Min(kept), Max(kept))

\* Seeded bug: the repetition is not cancelled by more data.
ObeyAnyway(state, message, rest) ==
  [state EXCEPT !.obeyed = Append(@, message), !.repeat_command = message \o <<NL>>,
                !.bytesRemaining = @ - ReplyBytes, !.repeat = message = Repeated]

\* A line that is not empty is processed: "if we already have more data, cancel
\* repeat immediately".
Obey(state, message, rest) ==
  [state EXCEPT !.obeyed = Append(@, message), !.repeat_command = message \o <<NL>>,
                !.bytesRemaining = @ - ReplyBytes,
                !.repeat = message = Repeated /\ rest = <<>>]

\* "Find complete lines terminated by '\n' and process them."
RECURSIVE ProcessLines(_)
ProcessLines(state) ==
  LET ends == {k \in DOMAIN state.buf : state.buf[k] = NL} IN
  IF ends = {} THEN state
  ELSE
    LET eol == Min(ends)
        message == TrimSpace(SubSeq(state.buf, 1, eol - 1))
        rest == SubSeq(state.buf, eol + 1, Len(state.buf))
        next == [state EXCEPT !.buf = rest,
                   !.messageBytesRemaining = MessageBytes - (Len(rest) + 1)]
    IN  ProcessLines(IF message = <<>> THEN next ELSE Obey(next, message, rest))

\* Replace ";" with "\n" to support multiple commands on one line.
Split(s) == [k \in DOMAIN s |-> IF s[k] = ";" THEN NL ELSE s[k]]

\* The loop after n bytes have come, with a newline at the end of the input.
Handle(bytes, newline) ==
  LET done == ProcessLines(
        [buf |-> Split(buf \o bytes) \o newline, repeat |-> FALSE,
         repeat_command |-> repeat_command,
         bytesRemaining |-> bytesRemaining - Len(bytes),
         messageBytesRemaining |-> messageBytesRemaining - Len(bytes), obeyed |-> <<>>])
  IN  /\ buf' = done.buf /\ repeat' = done.repeat /\ repeat_command' = done.repeat_command
      /\ bytesRemaining' = done.bytesRemaining
      /\ messageBytesRemaining' = done.messageBytesRemaining
      /\ obeyed' = obeyed \o done.obeyed

Exceeded == bytesRemaining <= 0 \/ messageBytesRemaining <= 0

Read ==
  /\ open /\ ~Exceeded /\ readbuf # <<>>
  /\ LET maxread == Min({bytesRemaining, messageBytesRemaining})
         r == ReadOf(readbuf, maxread)
     IN  /\ readbuf' = r.rest
         /\ CASE r.read = <<"EOF">> -> Handle(<<>>, <<NL>>) /\ open' = FALSE
                                       /\ input' = Append(input, NL)
              [] r.read = <<"error">> -> Handle(<<>>, <<>>) /\ open' = FALSE
                                         /\ UNCHANGED input
              [] OTHER -> Handle(r.read, <<>>) /\ open' = TRUE
                          /\ input' = input \o Split(r.read)
  /\ UNCHANGED wire

\* Nothing was typed for as long as the command asked for: it is put into the buffer.
Timeout ==
  /\ open /\ ~Exceeded /\ readbuf = <<>> /\ repeat
  /\ Len(obeyed) < MaxRepeats
  /\ Handle(repeat_command, <<>>)
  /\ UNCHANGED <<wire, readbuf, open, input>>

\* The connection has used up its bytes or its time.
Disconnect ==
  /\ open /\ open' = FALSE
  /\ UNCHANGED <<wire, readbuf, buf, repeat, repeat_command, bytesRemaining,
                 messageBytesRemaining, input, obeyed>>

LoopNext == bufferFiller \/ Read \/ Timeout \/ Disconnect

LoopSpec == LoopInit /\ [][LoopNext]_loop

-----------------------------------------------------------------------------
RECURSIVE LinesOf(_)
LinesOf(s) ==
  LET ends == {k \in DOMAIN s : s[k] = NL} IN
  IF ends = {} THEN <<>>
  ELSE LET line == TrimSpace(SubSeq(s, 1, Min(ends) - 1)) IN
       (IF line = <<>> THEN <<>> ELSE <<line>>)
       \o LinesOf(SubSeq(s, Min(ends) + 1, Len(s)))

\* However the input is cut into pieces and whenever the time of a repetition
\* comes, the commands obeyed are the lines of the input in order, with the command
\* to be repeated any number of times where it stands; what is typed meanwhile is
\* never mixed with it, and what is kept of an unfinished line and read at all stays
\* within the limits of the certificate.
LinesAreObeyed ==
  LET Again(s, i) == i > 1 /\ s[i] = Repeated /\ s[i - 1] = Repeated
      Once(s) == SelectSeq([i \in DOMAIN s |-> IF Again(s, i) THEN <<>> ELSE s[i]],
                           LAMBDA m : m # <<>>)
  IN  /\ Once(obeyed) = Once(LinesOf(input))
      /\ Len(buf) <= MessageBytes
      /\ Len(input) <= TotalBytes + 1
=============================================================================
