------------------------------ MODULE Requests ------------------------------
(***************************************************************************)
(* handle_request of main/go-susi.go as the reader of one connection:      *)
(* STARTTLS, the limits of bytes, and the splitting of what arrives, in    *)
(* pieces of any size, into messages.                                      *)
(*                                                                         *)
(* stream is what the client has still to send: letters and newlines.      *)
(* STARTTLS is shortened to two letters of its own and the newline.  A     *)
(* limit of 0 is none.                                                     *)
(***************************************************************************)
EXTENDS Integers, Sequences, SequencesExt, FiniteSetsExt

CONSTANTS Streams,        \* what a client may send
          ReadSize,       \* len(readbuf)
          TotalBytes, MessageBytes, \* sets of limits
          ReplyLengths    \* lengths of replies

NL == "newline"
starttls == <<"S", "T", NL>>
NoLimit == 1000           \* bound: more than any stream has
LineEnd == 2              \* bytes of the "\r\n" that is written after a reply

VARIABLES
  sent,      \* the whole stream, a history
  stream,    \* what is left of it
  limits,    \* the limits of the certificate and whether TLS is required
  pc,        \* "starttls", "context", "read", "split", "ended", "eof"
  tls,       \* STARTTLS has been seen
  buf,       \* the message so far
  chunk,     \* what was read and is not split yet
  room,      \* len(readbuf): it only shrinks
  bytesRemaining, messageBytesRemaining,
  messages,  \* what ProcessEncryptedMessage was called with
  replied,   \* bytes written, a history
  replies    \* how many replies were written, a history
reader == <<sent, stream, limits, pc, tls, buf, chunk, room, bytesRemaining,
            messageBytesRemaining, messages, replied, replies>>

Or(limit) == IF limit > 0 THEN limit ELSE NoLimit
Least(n, m) == IF n < m THEN n ELSE m

ReaderInit ==
  /\ sent \in Streams /\ stream = sent
  /\ limits \in [total : TotalBytes, message : MessageBytes, TLSRequired : BOOLEAN]
  /\ pc = "starttls" /\ tls = FALSE /\ buf = <<>> /\ chunk = <<>> /\ room = ReadSize
  /\ bytesRemaining = NoLimit /\ messageBytesRemaining = NoLimit
  /\ messages = <<>> /\ replied = 0 /\ replies = 0

\* The letters of STARTTLS are read one by one.  What turns out to be something
\* else is the beginning of a message, even if it is a newline.
ReadStartTLS ==
  /\ pc = "starttls" /\ stream # <<>>
  /\ LET letter == Head(stream)
         match == letter = starttls[Len(buf) + 1]
         whole == match /\ letter = NL
     IN  /\ stream' = Tail(stream) /\ tls' = whole
         /\ buf' = IF whole THEN <<>> ELSE Append(buf, letter)
         /\ pc' = IF ~match THEN IF limits.TLSRequired THEN "ended" ELSE "context"
                  ELSE IF whole THEN "context" ELSE "starttls"
  /\ UNCHANGED <<sent, limits, chunk, room, bytesRemaining, messageBytesRemaining,
                 messages, replied, replies>>

\* Nothing comes, or not in time.
NoStartTLS ==
  /\ pc = "starttls" /\ stream = <<>> /\ pc' = "ended"
  /\ UNCHANGED <<sent, stream, limits, tls, buf, chunk, room, bytesRemaining,
                 messageBytesRemaining, messages, replied, replies>>

SetLimits ==
  /\ pc = "context" /\ pc' = "read"
  /\ bytesRemaining' = Or(limits.total) /\ messageBytesRemaining' = Or(limits.message)
  /\ UNCHANGED <<sent, stream, limits, tls, buf, chunk, room, messages, replied, replies>>

\* The buffer shrinks to what may still come, and never grows again.
Shrunk == Least(room, Least(bytesRemaining, messageBytesRemaining))

\* Any number of bytes may have arrived.
ReadSome ==
  /\ pc = "read" /\ stream # <<>> /\ Shrunk > 0
  /\ \E n \in 1..Least(Shrunk, Len(stream)) :
       /\ chunk' = SubSeq(stream, 1, n)
       /\ stream' = SubSeq(stream, n + 1, Len(stream))
       /\ bytesRemaining' = bytesRemaining - n
  /\ room' = Shrunk /\ pc' = "split"
  /\ UNCHANGED <<sent, limits, tls, buf, messageBytesRemaining, messages, replied, replies>>

\* A read of no bytes is the end: of the stream, by an error, or because there is
\* no room left.
ReadNothing ==
  /\ pc = "read" /\ (stream = <<>> \/ Shrunk = 0)
  /\ pc' = IF Shrunk > 0 THEN "eof" ELSE "ended"
  /\ UNCHANGED <<sent, stream, limits, tls, buf, chunk, room, bytesRemaining,
                 messageBytesRemaining, messages, replied, replies>>

NextLine == SelectInSeq(chunk, LAMBDA letter : letter = NL)

\* The rest of the chunk is the beginning of a message.
Keep ==
  /\ pc = "split" /\ NextLine = 0 /\ pc' = "read"
  /\ buf' = buf \o chunk /\ chunk' = <<>>
  /\ messageBytesRemaining' = messageBytesRemaining - Len(chunk)
  /\ UNCHANGED <<sent, stream, limits, tls, room, bytesRemaining, messages, replied, replies>>

\* Newlines stand for all white space here.
Trimmed(s) ==
  LET black == {i \in DOMAIN s : s[i] # NL}
  IN  IF black = {} THEN <<>> ELSE SubSeq(s, Min(black), Max(black))

\* Seeded bug: what earlier reads left in buf is forgotten.
LineOfChunk(eol) == SubSeq(chunk, 1, eol - 1)

\* The rest of a line completes what is in buf.
Line(eol) == buf \o SubSeq(chunk, 1, eol - 1)

\* A whole message: empty ones are ignored.  The connection ends after a message
\* that asks for it, in a shutdown, and instead of a reply that is too long.  The
\* line end that follows a reply is not counted.
Process ==
  /\ pc = "split" /\ NextLine > 0
  /\ LET message == Trimmed(Line(NextLine)) IN
     /\ chunk' = SubSeq(chunk, NextLine + 1, Len(chunk)) /\ buf' = <<>>
     /\ messageBytesRemaining' = Or(limits.message)
     /\ IF message = <<>>
        THEN UNCHANGED <<pc, bytesRemaining, messages, replied, replies>>
        ELSE \E reply \in ReplyLengths, disconnect \in BOOLEAN :
               LET fits == bytesRemaining - reply >= 0
                   answered == fits /\ reply > 0
               IN
               /\ messages' = Append(messages, message)
               /\ bytesRemaining' = bytesRemaining - reply
               /\ replied' = IF answered THEN replied + reply + LineEnd ELSE replied
               /\ replies' = IF answered THEN replies + 1 ELSE replies
               /\ pc' = IF fits /\ ~disconnect THEN "split" ELSE "ended"
  /\ UNCHANGED <<sent, stream, limits, tls, room>>

ReaderNext ==
  \/ ReadStartTLS \/ NoStartTLS \/ SetLimits \/ ReadSome \/ ReadNothing \/ Keep \/ Process

ReaderSpec == ReaderInit /\ [][ReaderNext]_reader

-----------------------------------------------------------------------------
\* The lines of a stream that are not empty: those whose newline follows a letter.
Ends(s) == {e \in 2..Len(s) : s[e] = NL /\ s[e - 1] # NL}
Ended(s, p) == Cardinality({e \in Ends(s) : e <= p})
Begin(s, e) == Max({0} \cup {b \in 1..(e - 1) : s[b] = NL}) + 1
LineTo(s, e) == SubSeq(s, Begin(s, e), e - 1)
Lines(s) ==
  [n \in 1..Ended(s, Len(s)) |->
     LineTo(s, CHOOSE e \in Ends(s) : Ended(s, e) = n)]

Plain == IF tls THEN SubSeq(sent, 4, Len(sent)) ELSE sent
Consumed == Len(Plain) - Len(stream)

\* A first line that is only the beginning of STARTTLS loses its newline.
Torn == \E n \in 1..(Len(starttls) - 2) :
          IsPrefix(Append(SubSeq(starttls, 1, n), NL), sent)

\* Bytes that are read before the limits are known: a beginning of STARTTLS.
Early == IF tls THEN 0 ELSE Len(starttls)

\* However the bytes arrive, the messages processed are the lines sent, whole and
\* in order, and all of them if the client ended the connection.  And however the
\* reads, the replies and the resets of one limit and not of the other follow each
\* other, no message is longer than the certificate allows, its newline included,
\* and what was read and written exceeds its total by no more than the line ends
\* of the replies, which the code does not count.
MessagesAreLines ==
  /\ ~Torn /\ pc # "starttls" =>
       /\ IsPrefix(messages, Lines(Plain))
       /\ pc = "eof" => messages = Lines(Plain)
  /\ pc \notin {"starttls", "context"} =>
       /\ limits.message > 0 =>
            \A i \in DOMAIN messages : Len(messages[i]) < limits.message + Early
       /\ limits.total > 0 =>
            Consumed + replied <= limits.total + Early + LineEnd * replies
=============================================================================
