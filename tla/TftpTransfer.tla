---------------------------- MODULE TftpTransfer ----------------------------
(***************************************************************************)
(* The transfer of a file with TFTP: the server's handleConnection and     *)
(* sendAndWaitForAck at one end, at the other go-susi's own Get or a boot  *)
(* loader, over a network that loses, duplicates and reorders packets.     *)
(*                                                                         *)
(* A file is a sequence of numbers, each a piece of it as long as a        *)
(* packet's header.  A packet has the server's port, of which every        *)
(* request gets a new one; ids of blocks are numbers modulo IdSpace (in    *)
(* the code 2^16).  What the file holds comes from the cache (TftpCache).  *)
(***************************************************************************)
EXTENDS Integers, Sequences

CONSTANTS FileLengths, \* of the files
          BlockSize,   \* 512 bytes
          Requested,   \* the block sizes a boot loader asks for
          IdSpace,
          Header,      \* length of a packet's header, 1
          Ports,       \* bound: 1..n, the connections that requests open
          Capacity,    \* bound: packets under way in a direction
          MaxFaults    \* bound: losses, duplicates and overtakings

VARIABLES file,     \* the data
          server,   \* port -> the state of handleConnection
          client,   \* the state of Get, or of the loader
          toClient, toServer, \* packets under way
          faults

transfer == <<file, server, client, toClient, toServer, faults>>

Lesser(a, b) == IF a < b THEN a ELSE b
Put(queue, packet) ==
  IF Len(queue) < Capacity THEN Append(queue, packet) ELSE queue

\* A packet is overtaken by the one after it at most once.
May(queue, n) == n \in DOMAIN queue /\ n <= 2 /\ (n = 2 => ~queue[1].late /\ faults < MaxFaults)
Without(queue, n) ==
  IF n = 1 THEN Tail(queue)
  ELSE <<[queue[1] EXCEPT !.late = TRUE]>> \o SubSeq(queue, 3, Len(queue))

-----------------------------------------------------------------------------
\* The server: what is sent, again after a timeout, until its ACK comes.
Size(s) == Lesser(Len(file) - s.start, s.blocksize)
Sending(port, s) ==
  IF s.state = "oack"
  THEN [port |-> port, op |-> "OACK", id |-> 0, data |-> <<>>, late |-> FALSE]
  ELSE [port |-> port, op |-> "DATA", id |-> s.blockid % IdSpace,
        data |-> SubSeq(file, s.start + 1, s.start + Size(s)), late |-> FALSE]
Active(s) == s.state \in {"oack", "data"}

\* The connection goes on with state s; what it has to send now is sent.
GoesOn(port, s) ==
  /\ server' = [server EXCEPT ![port] = s]
  /\ toClient' = IF Active(s) THEN Put(toClient, Sending(port, s)) ELSE toClient

\* A request opens a connection: OACK if the block size is asked for, or the
\* first block.
Request(packet, port) ==
  /\ packet.op = "RRQ" /\ server[port].state = "none"
  /\ \A p \in Ports : p < port => server[p].state # "none"
  /\ GoesOn(port, [state |-> IF packet.id = 0 THEN "data" ELSE "oack", start |-> 0,
                 blocksize |-> IF packet.id = 0 THEN BlockSize ELSE packet.id,
                 blockid |-> 1])

\* As Expected below, for an ACK of this block or one before it.
ExpectedAny(packet, s) == s.state = "oack" \/ packet.id <= s.blockid % IdSpace

\* An ACK: of an OACK any, of a block its own; others are counted as duplicates.
Expected(packet, s) == s.state = "oack" \/ packet.id = s.blockid % IdSpace
Acknowledged(s) ==
  IF s.state = "oack" THEN [s EXCEPT !.state = "data"]
  ELSE [s EXCEPT !.start = @ + Size(s), !.blockid = @ + 1,
                 !.state = IF Size(s) < s.blocksize THEN "sent" ELSE "data"]

Ack(packet, port) ==
  LET s == server[port]
  IN /\ packet.op = "ACK" /\ packet.port = port
     /\ IF Active(s) /\ Expected(packet, s) THEN GoesOn(port, Acknowledged(s))
        ELSE UNCHANGED <<server, toClient>>

ServerReads(n) ==
  /\ May(toServer, n)
  /\ \E port \in Ports : Request(toServer[n], port) \/ Ack(toServer[n], port)
  /\ toServer' = Without(toServer, n) /\ faults' = faults + n - 1
  /\ UNCHANGED <<file, client>>

SendAgain(port) ==
  /\ Active(server[port]) /\ GoesOn(port, server[port])
  /\ UNCHANGED <<file, client, toServer, faults>>

\* The time for this packet is over.
GiveUp(port) ==
  /\ Active(server[port])
  /\ server' = [server EXCEPT ![port].state = "failed"]
  /\ UNCHANGED <<file, client, toClient, toServer, faults>>

-----------------------------------------------------------------------------
\* The client.  Before the first answer it repeats the request, to the server's
\* own port 0; the id of a request is the block size asked for, or 0.
RRQ(blksize) == [port |-> 0, op |-> "RRQ", id |-> blksize, late |-> FALSE]
ACK(port, id) == [port |-> port, op |-> "ACK", id |-> id % IdSpace, late |-> FALSE]
Write(c) ==
  toServer' = Put(toServer, IF c.state = "request" THEN RRQ(c.blksize) ELSE ACK(c.port, c.ack))

\* Get's buffer for a packet has room for BlockSize with the header.
Got(c, packet) ==
  IF c.blksize = 0 THEN SubSeq(packet.data, 1, Lesser(Len(packet.data), BlockSize - Header))
  ELSE packet.data
IsLast(c, packet) ==
  IF c.blksize = 0 THEN Len(packet.data) + Header < BlockSize
  ELSE Len(packet.data) < c.blksize

\* What the client becomes with a packet from its port, which it then
\* acknowledges; Get fails if the block is neither the next nor the last one.
Read(c, packet) ==
  IF packet.op = "DATA" /\ packet.id = c.blockid % IdSpace
  THEN [c EXCEPT !.got = @ \o Got(c, packet), !.ack = c.blockid, !.blockid = @ + 1,
                 !.state = IF IsLast(c, packet) THEN "done" ELSE "reading"]
  ELSE IF \/ c.blksize # 0
          \/ packet.op = "DATA" /\ packet.id = (c.blockid - 1) % IdSpace
       THEN [c EXCEPT !.state = "reading"]
       ELSE [c EXCEPT !.state = "error"]

\* Only the first packet tells the port; one from another makes Get send its ACK
\* again.
ClientReads(n) ==
  LET packet == toClient[n]
      c == IF client.state = "request" THEN [client EXCEPT !.port = packet.port] ELSE client
      next == IF packet.port = c.port THEN Read(c, packet) ELSE c
  IN /\ client.state \in {"request", "reading"}
     /\ May(toClient, n)
     /\ client' = next
     /\ IF next.state = "error" THEN UNCHANGED toServer ELSE Write(next)
     /\ toClient' = Without(toClient, n) /\ faults' = faults + n - 1
     /\ UNCHANGED <<file, server>>

WriteAgain ==
  /\ client.state \in {"request", "reading"} /\ Write(client)
  /\ UNCHANGED <<file, server, client, toClient, faults>>

Timeout ==
  /\ client.state \in {"request", "reading"}
  /\ client' = [client EXCEPT !.state = "error"]
  /\ UNCHANGED <<file, server, toClient, toServer, faults>>

-----------------------------------------------------------------------------
Lose ==
  /\ faults < MaxFaults /\ faults' = faults + 1
  /\ \/ toClient # <<>> /\ toClient' = Tail(toClient) /\ UNCHANGED toServer
     \/ toServer # <<>> /\ toServer' = Tail(toServer) /\ UNCHANGED toClient
  /\ UNCHANGED <<file, server, client>>

Duplicate ==
  /\ faults < MaxFaults /\ faults' = faults + 1
  /\ \/ toClient # <<>> /\ toClient' = Put(toClient, Head(toClient)) /\ UNCHANGED toServer
     \/ toServer # <<>> /\ toServer' = Put(toServer, Head(toServer)) /\ UNCHANGED toClient
  /\ UNCHANGED <<file, server, client>>

TransferInit ==
  /\ file \in {[n \in 1..len |-> n] : len \in FileLengths}
  /\ server = [p \in Ports |-> [state |-> "none", start |-> 0, blocksize |-> 0, blockid |-> 0]]
  /\ \E blksize \in Requested \cup {0} :
       /\ client = [state |-> "request", blksize |-> blksize, port |-> 0, blockid |-> 1,
                    ack |-> 0, got |-> <<>>]
       /\ toServer = <<RRQ(blksize)>>
  /\ toClient = <<>> /\ faults = 0

TransferNext ==
  \/ \E n \in 1..2 : ServerReads(n) \/ ClientReads(n)
  \/ \E port \in Ports : SendAgain(port) \/ GiveUp(port)
  \/ WriteAgain \/ Timeout \/ Lose \/ Duplicate

TransferSpec == TransferInit /\ [][TransferNext]_transfer

-----------------------------------------------------------------------------
\* What a client has of the first k blocks of a file f: a loader all, and Get of
\* each block as much as its buffer has room for.
Kept(f, k, keep) ==
  IF k * BlockSize <= Len(f) THEN k * keep
  ELSE (k - 1) * keep + Lesser(keep, Len(f) - (k - 1) * BlockSize)
Pieces(f, k, keep) ==
  [i \in 1..Kept(f, k, keep) |-> f[((i - 1) \div keep) * BlockSize + ((i - 1) % keep) + 1]]
Received(f, blksize, k) ==
  IF blksize = 0 THEN Pieces(f, k, BlockSize - Header)
  ELSE SubSeq(f, 1, Lesser(Len(f), k * blksize))

\* No packet lost, repeated, late or of another connection changes what is
\* received: it is always the blocks in order, each once; a loader that is done
\* has the file; and a connection that the server logs as successful had all its
\* blocks received by a client of that port.
FileArrives ==
  /\ client.got = Received(file, client.blksize, client.ack)
  /\ client.state = "done" /\ client.blksize # 0 => client.got = file
  /\ \A port \in Ports : server[port].state = "sent" =>
       client.port = port /\ client.got = Received(file, client.blksize, server[port].blockid - 1)

\* "All the read data is written into w" (tftp/get.go:84): a Get that returns no
\* error has written the file.
GetWritesAll == client.state = "done" => client.got = file
=============================================================================
