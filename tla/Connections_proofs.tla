------------------------- MODULE Connections_proofs -------------------------
(***************************************************************************)
(* The limits on connections.  Those that are served are counted, for the  *)
(* server and for each address (AcceptLoop); and an address that connects  *)
(* again and again (ConnectionRate) never gets three times its limit in an *)
(* hour.  What is read from a connection (Requests) is split into the      *)
(* lines sent, and stays within its limits: the letters that have been     *)
(* read are those of the messages so far, of the message that is not yet   *)
(* whole and of the chunk, in this order.  And of the connection to a peer *)
(* without TLS (PeerConnection): it is not given up too early, it is never *)
(* forgotten while it does not work, and what was lost is synchronised.    *)
(***************************************************************************)
EXTENDS Connections, Requests, PeerConnection, FiniteSetTheorems, SequenceTheorems,
WellFoundedInduction, TLAPS

\* What the theorem asks of the constants: there are finitely many clients, of
\* any number, and limits are numbers.
ConstantsOK ==
  /\ IsFiniteSet(Conn)
  /\ \A c \in Conn : Certificate[c] \in [ConnParallel : Nat, ConnPerHour : Nat]
  /\ MaxConnections \in Nat /\ HalfHour \in Nat

Stage == {"none", "backlog"} \cup Registered

Limits == [known : BOOLEAN, first : {0}, last : {0}, attempts : Nat, active : Int,
           maxactive : Nat, maxPerHour : Nat]

TypeOK ==
  /\ conn \in [Conn -> Stage] /\ limiters \in [Addresses -> Limits]
  /\ ActiveConnections \in Int /\ tcp_connections \in Seq(Conn)
  /\ accepting \in {"wait", "accept", "send", "stopped"}

\* The channel holds every connection that is on its way to the main loop once.
Channel ==
  /\ \A n \in 1..Len(tcp_connections) : conn[tcp_connections[n]] = "channel"
  /\ \A m, n \in 1..Len(tcp_connections) :
       tcp_connections[m] = tcp_connections[n] => m = n

Of(ip) == {c \in In(Registered) : Address[c] = ip}
AddressesCounted == \A ip \in Addresses : limiters[ip].active = Cardinality(Of(ip))
SlotsTaken ==
  /\ Cardinality(In(Counted)) + Waiting <= ActiveConnections
  /\ ActiveConnections <= MaxConnections

IInv == ConstantsOK /\ TypeOK /\ Channel /\ AddressesCounted /\ SlotsTaken

-----------------------------------------------------------------------------
\* Register counts a connection it permits, and no other.  Deregister counts one
\* less, and Update none.
LEMMA RegisterCounts ==
  ASSUME HalfHour \in Nat, NEW old \in Limits
  PROVE  /\ Register(old, Now).limits \in Limits
         /\ Register(old, Now).ok \in BOOLEAN
         /\ Register(old, Now).limits.active =
              IF Register(old, Now).ok THEN old.active + 1 ELSE old.active
<1> DEFINE tried == Attempted(old, Now)
<1>1. Now - 0 = 0 /\ Hour \in Nat /\ ~(0 > Hour)
  BY DEF Now, Hour
<1>2. /\ Rested(old, Now) \in Limits /\ Rested(old, Now).active = old.active
  <2>1. CASE ~old.known
    BY <1>1, <2>1 DEF Rested, Limits, Now
  <2>2. CASE old.known
    <3>1. ~(Now - old.last > Hour)
      BY <1>1 DEF Limits, Now
    <3>2. Rested(old, Now) = old
      BY <2>2, <3>1 DEF Rested
    <3> QED BY <3>2
  <2> QED BY <2>1, <2>2
<1>3. Averaged(Rested(old, Now), Now) = Rested(old, Now)
  BY <1>1, <1>2 DEF Averaged, Limits, Now
<1>4. tried \in Limits /\ tried.active = old.active
  <2>1. PICK rested \in Limits :
          rested = Rested(old, Now) /\ rested.active = old.active
    BY <1>2
  <2>2. tried = [rested EXCEPT !.last = 0, !.attempts = @ + 1]
    BY <1>3, <2>1 DEF Attempted, Now
  <2>3. rested.attempts + 1 \in Nat
    BY DEF Limits
  <2>4. tried \in Limits
    BY <2>2, <2>3 DEF Limits
  <2>5. tried.active = rested.active
    BY <2>2 DEF Limits
  <2> QED BY <2>1, <2>4, <2>5
<1> HIDE DEF tried
<1>5. CASE Permits(tried)
  <2>1. Register(old, Now) = [ok |-> TRUE, limits |-> [tried EXCEPT !.active = @ + 1]]
    BY <1>5 DEF Register, tried
  <2> QED BY <1>4, <2>1 DEF Limits
<1>6. CASE ~Permits(tried)
  <2>1. Register(old, Now) = [ok |-> FALSE, limits |-> tried]
    BY <1>6 DEF Register, tried
  <2> QED BY <1>4, <2>1
<1> QED BY <1>5, <1>6

\* What one element that comes or goes changes in a count.
Change(before, after) ==
  IF after /\ ~before THEN 1 ELSE IF before /\ ~after THEN -1 ELSE 0

LEMMA CountChange ==
  ASSUME NEW S, IsFiniteSet(S), NEW T, NEW x, T \ {x} = S \ {x}
  PROVE  /\ Cardinality(S) \in Nat
         /\ Cardinality(T) = Cardinality(S) + Change(x \in S, x \in T)
<1>1. Cardinality(S) \in Nat
  BY FS_CardinalityType
<1>2. CASE x \in T
  <2>1. T = S \cup {x}
    BY <1>2
  <2>2. Cardinality(T) = IF x \in S THEN Cardinality(S) ELSE Cardinality(S) + 1
    BY <2>1, FS_AddElement
  <2> QED BY <1>1, <1>2, <2>2 DEF Change
<1>3. CASE x \notin T
  <2>1. T = S \ {x}
    BY <1>3
  <2>2. Cardinality(T) = IF x \in S THEN Cardinality(S) - 1 ELSE Cardinality(S)
    BY <2>1, FS_RemoveElement
  <2> QED BY <1>1, <1>3, <2>2 DEF Change
<1> QED BY <1>2, <1>3

\* One connection changes its stage: what that does to the slots, and to the
\* connections of an address.
LEMMA StageChanges ==
  ASSUME ConstantsOK, TypeOK, NEW c \in Conn, NEW stage \in Stage, Goto(c, stage)
  PROVE  /\ conn' \in [Conn -> Stage] /\ conn'[c] = stage
         /\ \A d \in Conn \ {c} : conn'[d] = conn[d]
         /\ Cardinality(In(Counted)) \in Nat
         /\ Cardinality(In(Counted)') =
              Cardinality(In(Counted)) + Change(conn[c] \in Counted, stage \in Counted)
         /\ \A ip \in Addresses :
              /\ Cardinality(Of(ip)) \in Nat
              /\ ip # Address[c] => Cardinality(Of(ip)') = Cardinality(Of(ip))
              /\ ip = Address[c] => Cardinality(Of(ip)') = Cardinality(Of(ip))
                   + Change(conn[c] \in Registered, stage \in Registered)
<1>1. /\ conn' \in [Conn -> Stage] /\ conn'[c] = stage
      /\ \A d \in Conn \ {c} : conn'[d] = conn[d]
  BY DEF Goto, TypeOK
<1>2. /\ IsFiniteSet(In(Counted)) /\ In(Counted)' \ {c} = In(Counted) \ {c}
      /\ c \in In(Counted) <=> conn[c] \in Counted
      /\ c \in In(Counted)' <=> stage \in Counted
  BY <1>1, FS_Subset DEF ConstantsOK, In
<1>3. /\ Cardinality(In(Counted)) \in Nat
      /\ Cardinality(In(Counted)') =
           Cardinality(In(Counted)) + Change(conn[c] \in Counted, stage \in Counted)
  BY <1>2, CountChange DEF Change
<1>4. ASSUME NEW ip \in Addresses
      PROVE  /\ Cardinality(Of(ip)) \in Nat
             /\ ip # Address[c] => Cardinality(Of(ip)') = Cardinality(Of(ip))
             /\ ip = Address[c] => Cardinality(Of(ip)') = Cardinality(Of(ip))
                  + Change(conn[c] \in Registered, stage \in Registered)
  <2>1. IsFiniteSet(Of(ip)) /\ Of(ip)' \ {c} = Of(ip) \ {c}
    BY <1>1, FS_Subset DEF ConstantsOK, In, Of
  <2>2. CASE ip # Address[c]
    <3>1. Of(ip)' = Of(ip)
      BY <1>1, <2>2 DEF In, Of
    <3> QED BY <2>1, <2>2, <3>1, FS_CardinalityType
  <2>3. CASE ip = Address[c]
    <3>1. /\ c \in Of(ip) <=> conn[c] \in Registered
          /\ c \in Of(ip)' <=> stage \in Registered
      BY <1>1, <2>3 DEF In, Of
    <3> QED BY <2>1, <2>3, <3>1, CountChange DEF Change
  <2> QED BY <2>2, <2>3
<1> QED BY <1>1, <1>3, <1>4

\* A step that leaves the channel alone and moves no connection that is in it.
LEMMA ChannelKept ==
  ASSUME IInv, NEW c \in Conn, NEW stage \in Stage, Goto(c, stage),
         conn[c] # "channel", tcp_connections' = tcp_connections
  PROVE  Channel'
BY DEF IInv, TypeOK, Channel, Goto

-----------------------------------------------------------------------------
LEMMA InitHolds == ASSUME ConstantsOK, LoopInit PROVE IInv
<1>1. TypeOK
  <2>1. Unknown \in Limits
    BY DEF Unknown, Limits
  <2> QED BY <2>1 DEF LoopInit, TypeOK, Stage
<1>2. In(Registered) = {} /\ In(Counted) = {}
  BY DEF LoopInit, In, Registered, Counted
<1>3. Channel
  BY DEF LoopInit, Channel
<1>4. AddressesCounted
  <2>1. ASSUME NEW ip \in Addresses PROVE limiters[ip].active = 0 /\ Of(ip) = {}
    BY <1>2 DEF LoopInit, Unknown, Of
  <2> QED BY <2>1, FS_EmptySet DEF AddressesCounted
<1>5. SlotsTaken
  BY <1>2, FS_EmptySet DEF LoopInit, SlotsTaken, Waiting, ConstantsOK
<1> QED BY <1>1, <1>3, <1>4, <1>5 DEF IInv

\* A step that moves one connection and leaves the limiters alone keeps the
\* counts of addresses, if the connection stays registered or stays none.
LEMMA AddressesKept ==
  ASSUME IInv, NEW c \in Conn, NEW stage \in Stage, Goto(c, stage),
         conn[c] \in Registered <=> stage \in Registered,
         \A ip \in Addresses : limiters'[ip].active = limiters[ip].active
  PROVE  AddressesCounted'
BY StageChanges DEF IInv, TypeOK, AddressesCounted, Change

\* A step that changes no stage.
LEMMA StagesKept ==
  ASSUME IInv, conn' = conn, limiters' = limiters
  PROVE  /\ AddressesCounted' /\ In(Counted)' = In(Counted)
         /\ Cardinality(In(Counted)) \in Nat
<1>1. In(Counted)' = In(Counted) /\ \A ip \in Addresses : Of(ip)' = Of(ip)
  BY DEF In, Of
<1>2. Cardinality(In(Counted)) \in Nat
  BY FS_Subset, FS_CardinalityType DEF IInv, ConstantsOK, In
<1> QED BY <1>1, <1>2 DEF IInv, AddressesCounted

-----------------------------------------------------------------------------
\* acceptConnections.
LEMMA AcceptSteps ==
  ASSUME IInv, TakeSlot \/ AcceptError PROVE IInv'
<1>1. TypeOK'
  BY DEF IInv, TypeOK, TakeSlot, AcceptError
<1>2. Channel'
  BY DEF IInv, Channel, TakeSlot, AcceptError
<1>3. AddressesCounted' /\ In(Counted)' = In(Counted) /\ Cardinality(In(Counted)) \in Nat
  BY StagesKept DEF TakeSlot, AcceptError
<1>4. SlotsTaken'
  <2>1. Cardinality(In(Counted)') = Cardinality(In(Counted))
    BY <1>3
  <2> QED BY <1>3, <2>1
         DEF IInv, TypeOK, ConstantsOK, SlotsTaken, Waiting, TakeSlot, AcceptError
<1> QED BY <1>1, <1>2, <1>3, <1>4 DEF IInv, ConstantsOK

LEMMA AcceptStep == ASSUME IInv, NEW c \in Conn, Accept(c) PROVE IInv'
<1> DEFINE ip == Address[c]
           result == Register(limiters[ip], Now)
           stage == IF result.ok THEN "accepted" ELSE "none"
<1>1. /\ result.limits \in Limits /\ result.ok \in BOOLEAN
      /\ result.limits.active =
           IF result.ok THEN limiters[ip].active + 1 ELSE limiters[ip].active
      /\ ip \in Addresses
  BY RegisterCounts DEF IInv, ConstantsOK, TypeOK, Addresses
<1>2. /\ limiters' = [limiters EXCEPT ![ip] = result.limits]
      /\ Goto(c, stage) /\ conn[c] = "backlog" /\ accepting = "accept"
      /\ accepting' = IF result.ok THEN "send" ELSE "wait"
      /\ UNCHANGED <<ActiveConnections, tcp_connections>>
  BY DEF Accept, Limit
<1> HIDE DEF result
<1>3. stage \in Stage /\ (stage \in Registered <=> result.ok)
      /\ (stage \in Counted <=> result.ok) /\ "backlog" \notin Registered
  BY <1>1 DEF Stage, Registered, Counted
<1> HIDE DEF stage
<1>4. /\ conn' \in [Conn -> Stage] /\ Cardinality(In(Counted)) \in Nat
      /\ Cardinality(In(Counted)') =
           Cardinality(In(Counted)) + (IF result.ok THEN 1 ELSE 0)
      /\ \A a \in Addresses :
           /\ Cardinality(Of(a)) \in Nat
           /\ a # ip => Cardinality(Of(a)') = Cardinality(Of(a))
           /\ a = ip => Cardinality(Of(a)') =
                          Cardinality(Of(a)) + (IF result.ok THEN 1 ELSE 0)
  BY <1>1, <1>2, <1>3, StageChanges DEF IInv, Change, Counted
<1>5. TypeOK'
  BY <1>1, <1>2, <1>4 DEF IInv, TypeOK
<1>6. Channel'
  BY <1>2, <1>3, ChannelKept
<1>7. AddressesCounted'
  BY <1>1, <1>2, <1>4 DEF IInv, TypeOK, AddressesCounted
<1>8. SlotsTaken'
  BY <1>1, <1>2, <1>4 DEF IInv, TypeOK, ConstantsOK, SlotsTaken, Waiting
<1> QED BY <1>5, <1>6, <1>7, <1>8 DEF IInv, ConstantsOK

\* Into the channel and out of it.
LEMMA SendStep == ASSUME IInv, NEW c \in Conn, Send(c) PROVE IInv'
<1> DEFINE q == tcp_connections
<1>1. /\ Goto(c, "channel") /\ conn[c] = "accepted" /\ accepting' = "wait"
      /\ q' = Append(q, c) /\ UNCHANGED <<ActiveConnections, limiters>>
      /\ q \in Seq(Conn)
  BY DEF Send, IInv, TypeOK
<1>2. /\ "channel" \in Stage /\ {"channel", "accepted"} \subseteq Registered
      /\ {"channel", "accepted"} \subseteq Counted
  BY DEF Stage, Registered, Counted
<1>3. /\ conn' \in [Conn -> Stage] /\ conn'[c] = "channel"
      /\ \A d \in Conn \ {c} : conn'[d] = conn[d]
      /\ Cardinality(In(Counted)') = Cardinality(In(Counted))
      /\ Cardinality(In(Counted)) \in Nat
  BY <1>1, <1>2, StageChanges DEF IInv, Change
<1>4. /\ q' \in Seq(Conn) /\ Len(q') = Len(q) + 1 /\ Len(q) \in Nat
      /\ \A n \in 1..Len(q) : q'[n] = q[n] /\ q[n] \in Conn
      /\ q'[Len(q) + 1] = c
  BY <1>1, AppendProperties, LenProperties
<1>5. TypeOK'
  BY <1>1, <1>3, <1>4 DEF IInv, TypeOK
<1>6. \A n \in 1..Len(q) : q[n] # c /\ conn'[q[n]] = "channel"
  BY <1>1, <1>3, <1>4 DEF IInv, Channel
<1>7. Channel'
  <2>1. \A n \in 1..Len(q') : n \in 1..Len(q) \/ n = Len(q) + 1
    BY <1>4
  <2>2. \A n \in 1..Len(q') : conn'[q'[n]] = "channel"
    BY <1>3, <1>4, <1>6, <2>1
  <2>3. \A m, n \in 1..Len(q') : q'[m] = q'[n] => m = n
    BY <1>4, <1>6, <2>1 DEF IInv, Channel
  <2> QED BY <2>2, <2>3 DEF Channel
<1>8. AddressesCounted'
  BY <1>1, <1>2, AddressesKept
<1>9. SlotsTaken'
  BY <1>1, <1>3 DEF IInv, TypeOK, ConstantsOK, SlotsTaken, Waiting
<1> QED BY <1>5, <1>7, <1>8, <1>9 DEF IInv, ConstantsOK

LEMMA DispatchStep == ASSUME IInv, Dispatch PROVE IInv'
<1> DEFINE q == tcp_connections
<1>1. PICK c : c = Head(q)
  OBVIOUS
<1>2. /\ Goto(c, "starttls") /\ q' = Tail(q) /\ q # <<>> /\ q \in Seq(Conn)
      /\ UNCHANGED <<ActiveConnections, accepting, limiters>>
  BY <1>1 DEF Dispatch, IInv, TypeOK
<1>3. /\ Len(q) \in Nat /\ Len(q) > 0 /\ c = q[1] /\ c \in Conn
      /\ q' \in Seq(Conn) /\ Len(q') = Len(q) - 1
      /\ \A n \in 1..Len(q') : q'[n] = q[n + 1]
  BY <1>1, <1>2, HeadTailProperties, LenProperties, EmptySeq
<1>4. conn[c] = "channel"
  BY <1>3 DEF IInv, Channel
<1>5. /\ "starttls" \in Stage /\ {"channel", "starttls"} \subseteq Registered
      /\ {"channel", "starttls"} \subseteq Counted
  BY DEF Stage, Registered, Counted
<1>6. /\ conn' \in [Conn -> Stage]
      /\ \A d \in Conn \ {c} : conn'[d] = conn[d]
      /\ Cardinality(In(Counted)') = Cardinality(In(Counted))
      /\ Cardinality(In(Counted)) \in Nat
  BY <1>2, <1>3, <1>4, <1>5, StageChanges DEF IInv, Change
<1>7. TypeOK'
  BY <1>2, <1>3, <1>6 DEF IInv, TypeOK
<1>8. Channel'
  <2>1. \A n \in 1..Len(q') : n + 1 \in 1..Len(q) /\ n + 1 # 1 /\ q[n + 1] \in Conn
    BY <1>2, <1>3
  <2>2. \A n \in 1..Len(q') : conn'[q'[n]] = "channel"
    BY <1>3, <1>6, <2>1 DEF IInv, Channel
  <2>3. ASSUME NEW m \in 1..Len(q'), NEW n \in 1..Len(q'), q'[m] = q'[n]
        PROVE  m = n
    <3>1. \A i, j \in 1..Len(q) : q[i] = q[j] => i = j
      BY DEF IInv, Channel
    <3>2. m + 1 \in 1..Len(q) /\ n + 1 \in 1..Len(q) /\ q[m + 1] = q[n + 1]
      BY ONLY <1>3, <2>1, <2>3
    <3>3. m + 1 = n + 1
      BY ONLY <3>1, <3>2
    <3> QED BY <3>3, <1>3
  <2> QED BY <2>2, <2>3 DEF Channel
<1>9. AddressesCounted'
  BY <1>2, <1>3, <1>4, <1>5, AddressesKept
<1>10. SlotsTaken'
  BY <1>2, <1>6 DEF IInv, TypeOK, ConstantsOK, SlotsTaken, Waiting
<1> QED BY <1>7, <1>8, <1>9, <1>10 DEF IInv, ConstantsOK

-----------------------------------------------------------------------------
\* The goroutine that handles a connection.
LEMMA HandshakeStep == ASSUME IInv, NEW c \in Conn, Handshake(c) PROVE IInv'
<1>1. PICK stage \in {"serving", "ending"} : Goto(c, stage)
  BY DEF Handshake
<1>2. /\ conn[c] = "starttls"
      /\ UNCHANGED <<ActiveConnections, accepting, tcp_connections>>
  BY DEF Handshake
<1>3. /\ stage \in Stage /\ {"starttls", stage} \subseteq Registered
      /\ {"starttls", stage} \subseteq Counted
  BY DEF Stage, Registered, Counted
<1>4. /\ conn' \in [Conn -> Stage]
      /\ Cardinality(In(Counted)') = Cardinality(In(Counted))
      /\ Cardinality(In(Counted)) \in Nat
  BY <1>1, <1>2, <1>3, StageChanges DEF IInv, Change
<1>5. /\ limiters' \in [Addresses -> Limits]
      /\ \A ip \in Addresses : limiters'[ip].active = limiters[ip].active
  <2>1. CASE limiters' = limiters
    BY <2>1 DEF IInv, TypeOK
  <2>2. CASE Limit(c, Update(limiters[Address[c]], Certificate[c]))
    <3>1. PICK old \in Limits, new \in Limits :
            /\ old = limiters[Address[c]] /\ new = Update(old, Certificate[c])
            /\ new.active = old.active
      <4>1. PICK old \in Limits : old = limiters[Address[c]]
        BY DEF IInv, TypeOK, Addresses
      <4>2. PICK context \in [ConnParallel : Nat, ConnPerHour : Nat] :
              context = Certificate[c]
        BY DEF IInv, ConstantsOK
      <4>3. Update(old, context) \in Limits /\ Update(old, context).active = old.active
        BY DEF Limits, Update
      <4> QED BY <4>1, <4>2, <4>3
    <3>2. limiters' = [limiters EXCEPT ![Address[c]] = new]
      BY <2>2, <3>1 DEF Limit
    <3> QED BY <3>1, <3>2 DEF IInv, TypeOK
  <2> QED BY <2>1, <2>2 DEF Handshake
<1>6. TypeOK'
  BY <1>2, <1>4, <1>5 DEF IInv, TypeOK
<1>7. Channel'
  BY <1>1, <1>2, <1>3, ChannelKept
<1>8. AddressesCounted'
  BY <1>1, <1>2, <1>3, <1>5, AddressesKept
<1>9. SlotsTaken'
  BY <1>2, <1>4 DEF IInv, TypeOK, ConstantsOK, SlotsTaken, Waiting
<1> QED BY <1>6, <1>7, <1>8, <1>9 DEF IInv, ConstantsOK

\* A client connects, a connection ends, its slot is given back, it is closed: the
\* address is not told before the connection leaves.
LEMMA QuietSteps ==
  ASSUME IInv, NEW c \in Conn, Connect(c) \/ Finish(c) \/ Uncount(c) \/ CloseConn(c)
  PROVE  IInv'
<1>1. PICK stage \in Stage : Goto(c, stage) /\ stage = conn'[c]
  <2>1. {"backlog", "ending", "uncounted", "closed"} \subseteq Stage
    BY DEF Stage, Registered
  <2> QED BY <2>1 DEF Connect, Finish, Uncount, CloseConn, Goto, IInv, TypeOK
<1>2. /\ conn[c] \in Registered <=> stage \in Registered
      /\ conn[c] # "channel" /\ UNCHANGED <<accepting, tcp_connections, limiters>>
      /\ Uncount(c) => conn[c] \in Counted /\ stage \notin Counted
      /\ ~Uncount(c) => (conn[c] \in Counted <=> stage \in Counted)
      /\ ActiveConnections' = ActiveConnections - (IF Uncount(c) THEN 1 ELSE 0)
  BY <1>1 DEF Connect, Finish, Uncount, CloseConn, Goto, IInv, TypeOK, Registered, Counted
<1>3. /\ conn' \in [Conn -> Stage] /\ Cardinality(In(Counted)) \in Nat
      /\ Cardinality(In(Counted)') =
           Cardinality(In(Counted)) - (IF Uncount(c) THEN 1 ELSE 0)
  BY <1>1, <1>2, StageChanges DEF IInv, Change
<1>4. TypeOK'
  BY <1>2, <1>3 DEF IInv, TypeOK
<1>5. Channel'
  BY <1>1, <1>2, ChannelKept
<1>6. AddressesCounted'
  BY <1>1, <1>2, AddressesKept
<1>7. SlotsTaken'
  BY <1>2, <1>3 DEF IInv, TypeOK, ConstantsOK, SlotsTaken, Waiting
<1> QED BY <1>4, <1>5, <1>6, <1>7 DEF IInv, ConstantsOK

LEMMA LeaveStep == ASSUME IInv, NEW c \in Conn, Leave(c) PROVE IInv'
<1> DEFINE ip == Address[c]
<1>1. /\ Goto(c, "none") /\ conn[c] = "closed"
      /\ limiters' = [limiters EXCEPT ![ip] = Deregister(limiters[ip])]
      /\ UNCHANGED <<ActiveConnections, accepting, tcp_connections>>
  BY DEF Leave, Limit
<1>2. /\ "none" \in Stage \ Registered /\ "closed" \in Registered
      /\ {"none", "closed"} \cap Counted = {} /\ ip \in Addresses
  BY DEF Stage, Registered, Counted, Addresses
<1>3. /\ conn' \in [Conn -> Stage] /\ Cardinality(In(Counted)) \in Nat
      /\ Cardinality(In(Counted)') = Cardinality(In(Counted))
      /\ \A a \in Addresses :
           /\ Cardinality(Of(a)) \in Nat
           /\ a # ip => Cardinality(Of(a)') = Cardinality(Of(a))
           /\ a = ip => Cardinality(Of(a)') = Cardinality(Of(a)) - 1
  BY <1>1, <1>2, StageChanges DEF IInv, Change
<1>4. PICK old \in Limits, new \in Limits :
        /\ old = limiters[ip] /\ new = Deregister(old) /\ new.active = old.active - 1
  <2>1. PICK old \in Limits : old = limiters[ip]
    BY <1>2 DEF IInv, TypeOK
  <2>2. Deregister(old) \in Limits /\ Deregister(old).active = old.active - 1
    BY DEF Limits, Deregister
  <2> QED BY <2>1, <2>2
<1>5. limiters' = [limiters EXCEPT ![ip] = new]
  BY <1>1, <1>4
<1>6. TypeOK'
  BY <1>1, <1>3, <1>5 DEF IInv, TypeOK
<1>7. Channel'
  BY <1>1, <1>2, ChannelKept
<1>8. AddressesCounted'
  BY <1>2, <1>3, <1>4, <1>5 DEF IInv, TypeOK, AddressesCounted, Limits
<1>9. SlotsTaken'
  BY <1>1, <1>3 DEF IInv, TypeOK, ConstantsOK, SlotsTaken, Waiting
<1> QED BY <1>6, <1>7, <1>8, <1>9 DEF IInv, ConstantsOK

\* Steps that change none of the counts.
LEMMA OtherSteps ==
  ASSUME IInv,
         UNCHANGED <<conn, ActiveConnections, accepting, tcp_connections, limiters>>
  PROVE  IInv'
BY DEF IInv, ConstantsOK, TypeOK, Channel, AddressesCounted, SlotsTaken, Waiting, In, Of

\* The server never serves more connections than it may, and none that it does
\* not count: for every number of clients and addresses, every limit, and every
\* order of accepts, handlers, errors and a shutdown.
THEOREM Accounted == ConstantsOK => (LoopSpec => []ConnectionsAccounted)
<1>1. ConstantsOK /\ LoopInit => IInv
  BY InitHolds
<1>2. IInv /\ [LoopNext]_loop => IInv'
  <2>1. ASSUME IInv, LoopNext PROVE IInv'
    BY <2>1, AcceptSteps, AcceptStep, SendStep, DispatchStep, HandshakeStep,
       QuietSteps, LeaveStep, OtherSteps DEF LoopNext, Signal, Exit
  <2>2. ASSUME IInv, UNCHANGED loop PROVE IInv'
    BY <2>2, OtherSteps DEF loop
  <2> QED BY <2>1, <2>2
<1>3. IInv => ConnectionsAccounted
  BY DEF IInv, AddressesCounted, SlotsTaken, Of, ConnectionsAccounted
<1> QED BY <1>1, <1>2, <1>3, PTL DEF LoopSpec

-----------------------------------------------------------------------------
\* ConnectionRate: there is a limit.
RateConstantsOK == PerHour \in Nat \ {0} /\ HalfHour \in Nat

AnyLimits == [known : BOOLEAN, first : Int, last : Int, attempts : Nat, active : Int,
              maxactive : Nat, maxPerHour : Nat]

\* A limiter that permits n per hour, after k attempts since f, the last one at t.
Limiter(l, n, f, t, k) ==
  /\ l \in AnyLimits /\ l.known = TRUE /\ l.active = 0 /\ l.maxactive = 0
  /\ l.maxPerHour = n /\ l.first = f /\ l.last = t /\ l.attempts = k

RateTypeOK ==
  /\ Limiter(lim, PerHour, lim.first, lim.last, lim.attempts)
  /\ lim.attempts # 0 /\ lim.last \in Nat /\ now \in Nat /\ recent \in Seq(Nat)

\* What is recent came within the last hour, and before the last attempt.
RecentAt(times, last, t) ==
  /\ last <= t
  /\ \A i \in 1..Len(times) : times[i] <= last /\ t - times[i] <= Rate!Hour

Recent == RecentAt(recent, lim.last, now)

\* The averages divide time, and two are more than half an hour apart: an hour
\* reaches into three of the parts.  The current part began at b, the one before
\* it at a, and the first n recent connections came before that, the next m in
\* between.  A part has no more connections than the limit allows, and that many
\* only if the first of them, which came with the average, is still recent.
Parts(times, first, attempts, n, m, a, b) ==
  LET rest == Len(times) - n - m IN
  /\ n < PerHour /\ m <= PerHour /\ 0 <= rest
  /\ \A i \in 1..n : times[i] <= a
  /\ \A i \in 1..(n + m) : times[i] <= b
  /\ m = PerHour => times[n + 1] <= a
  /\ rest <= attempts /\ rest <= PerHour
  /\ (rest = attempts \/ rest = PerHour) => times[n + m + 1] <= b
  /\ \/ n + m = 0 /\ b = first
     \/ b = first + HalfHour /\ a + HalfHour < b

Divided(times, first, attempts) ==
  \E n, m \in Nat, a, b \in Int : Parts(times, first, attempts, n, m, a, b)

LEMMA DividedBy ==
  ASSUME NEW times, NEW first, NEW attempts, NEW n \in Nat, NEW m \in Nat,
         NEW a \in Int, NEW b \in Int, Parts(times, first, attempts, n, m, a, b)
  PROVE  Divided(times, first, attempts)
BY DEF Divided

RateInv ==
  /\ RateConstantsOK /\ RateTypeOK /\ Recent
  /\ Divided(recent, lim.first, lim.attempts)

LEMMA RateInitHolds == ASSUME RateConstantsOK, Rate!Init PROVE RateInv
<1>1. Limiter(lim, PerHour, 0, 0, 1)
  <2>1. PICK yes \in BOOLEAN : yes = TRUE
    OBVIOUS
  <2>2. PICK u : u = Rate!Unknown
    OBVIOUS
  <2>3. /\ u \in AnyLimits /\ u.known = FALSE /\ u.first = 0 /\ u.last = 0
        /\ u.attempts = 0 /\ u.active = 0 /\ u.maxactive = 0 /\ u.maxPerHour = 0
    BY <2>2 DEF Rate!Unknown, AnyLimits
  <2>4. PICK r : r = [u EXCEPT !.known = yes, !.first = 0, !.last = 0]
    OBVIOUS
  <2>5. Limiter(r, 0, 0, 0, 0)
    BY <2>1, <2>3, <2>4 DEF AnyLimits, Limiter
  <2>6. Rate!Rested(u, 0) = r
    BY <2>1, <2>3, <2>4 DEF Rate!Rested
  <2>7. Rate!Averaged(r, 0) = r
    <3>1. ~(0 - 0 > Rate!Hour)
      BY DEF RateConstantsOK, Rate!Hour
    <3> QED BY <2>5, <3>1 DEF Rate!Averaged, Limiter
  <2>8. PICK a : a = [r EXCEPT !.last = 0, !.attempts = 1]
    OBVIOUS
  <2>9. Limiter(a, 0, 0, 0, 1)
    BY <2>5, <2>8 DEF AnyLimits, Limiter
  <2>10. Rate!Attempted(u, 0) = a
    <3>1. r.attempts + 1 = 1
      BY <2>5 DEF Limiter
    <3>2. Rate!Averaged(Rate!Rested(u, 0), 0) = r
      BY <2>6, <2>7
    <3> QED BY <2>8, <3>1, <3>2 DEF Rate!Attempted
  <2>11. PICK b : b = [a EXCEPT !.active = 1]
    OBVIOUS
  <2>12. Rate!Register(u, 0).limits = b
    BY <2>9, <2>10, <2>11 DEF Rate!Register, Rate!Permits, Limiter
  <2>13. /\ b \in AnyLimits /\ b.known = TRUE /\ b.first = 0 /\ b.last = 0
         /\ b.attempts = 1 /\ b.active = 1 /\ b.maxactive = 0
    BY <2>9, <2>11 DEF AnyLimits, Limiter
  <2>14. PICK c : c = [b EXCEPT !.maxactive = 0, !.maxPerHour = PerHour]
    OBVIOUS
  <2>15. /\ c \in AnyLimits /\ c.known = TRUE /\ c.first = 0 /\ c.last = 0
         /\ c.attempts = 1 /\ c.active = 1 /\ c.maxactive = 0 /\ c.maxPerHour = PerHour
    BY <2>13, <2>14 DEF AnyLimits, RateConstantsOK
  <2>16. lim = [c EXCEPT !.active = 0]
    <3>1. c.active - 1 = 0
      BY <2>15
    <3>2. Rate!Update(b, Rate!Context) = c
      BY <2>14 DEF Rate!Update, Rate!Context
    <3> QED BY <2>2, <2>12, <3>1, <3>2 DEF Rate!Init, Rate!Deregister
  <2> QED BY <2>15, <2>16 DEF AnyLimits, Limiter
<1>2. now = 0 /\ recent = <<0>> /\ Len(recent) = 1 /\ recent[1] = 0
  BY DEF Rate!Init
<1>3. RateTypeOK
  BY <1>1, <1>2 DEF RateTypeOK, Limiter
<1>4. Recent
  BY <1>1, <1>2 DEF RateConstantsOK, Recent, RecentAt, Rate!Hour, Limiter
<1>5. Divided(recent, lim.first, lim.attempts)
  <2>1. Parts(<<0>>, 0, 1, 0, 0, 0, 0)
    BY DEF RateConstantsOK, Parts
  <2>2. Divided(<<0>>, 0, 1)
    BY <2>1, DividedBy
  <2> QED BY <1>1, <1>2, <2>2 DEF Limiter
<1> QED BY <1>3, <1>4, <1>5 DEF RateInv, RateConstantsOK

\* What an attempt does to a limiter: after an hour without one counting starts
\* anew, an hour after the beginning of the count there is an average, and
\* otherwise it is counted.
LEMMA AttemptCounts ==
  ASSUME RateConstantsOK, NEW t \in Nat, NEW old \in AnyLimits,
         Limiter(old, PerHour, old.first, old.last, old.attempts)
  PROVE  \E f \in Int, k \in Nat \ {0} :
           /\ Limiter(Rate!Attempted(old, t), PerHour, f, t, k)
           /\ \/ t - old.last > Rate!Hour /\ f = t /\ k = 1
              \/ t - old.first > Rate!Hour /\ f = t - HalfHour
              \/ f = old.first /\ k = old.attempts + 1
<1>1. HalfHour \in Nat /\ Rate!Hour \in Nat
  BY DEF RateConstantsOK, Rate!Hour
<1>2. /\ old.known /\ old.first \in Int /\ old.last \in Int /\ old.attempts \in Nat
  BY DEF AnyLimits, Limiter
<1>3. ASSUME NEW r, NEW f \in Int, NEW last \in Int, NEW n \in Nat,
             Limiter(r, PerHour, f, last, n),
             Rate!Averaged(Rate!Rested(old, t), t) = r
      PROVE  /\ Limiter(Rate!Attempted(old, t), PerHour, f, t, n + 1)
             /\ n + 1 \in Nat \ {0}
  <2>1. PICK k \in Nat \ {0} : k = n + 1
    OBVIOUS
  <2>2. PICK a : a = [r EXCEPT !.last = t, !.attempts = k]
    OBVIOUS
  <2>3. Limiter(a, PerHour, f, t, k)
    <3>1. r \in AnyLimits /\ t \in Int /\ k \in Nat
      BY <1>3 DEF Limiter
    <3>2. a \in AnyLimits /\ a.last = t /\ a.attempts = k
      BY <2>2, <3>1 DEF AnyLimits
    <3>3. /\ a.known = r.known /\ a.active = r.active /\ a.maxactive = r.maxactive
          /\ a.maxPerHour = r.maxPerHour /\ a.first = r.first
      BY <2>2, <3>1 DEF AnyLimits
    <3> QED BY <1>3, <3>2, <3>3 DEF Limiter
  <2>4. Rate!Attempted(old, t) = a
    BY <1>3, <2>1, <2>2 DEF Rate!Attempted, Limiter
  <2> QED BY <2>1, <2>3, <2>4
<1>4. CASE t - old.last > Rate!Hour
  <2>1. PICK r : r = [old EXCEPT !.first = t, !.last = t, !.attempts = 0]
    OBVIOUS
  <2>2. Limiter(r, PerHour, t, t, 0)
    <3>1. t \in Int /\ 0 \in Nat
      OBVIOUS
    <3>2. r \in AnyLimits /\ r.first = t /\ r.last = t /\ r.attempts = 0
      BY <2>1, <3>1 DEF AnyLimits
    <3>3. /\ r.known = old.known /\ r.active = old.active /\ r.maxactive = old.maxactive
          /\ r.maxPerHour = old.maxPerHour
      BY <2>1 DEF AnyLimits
    <3> QED BY <3>2, <3>3 DEF Limiter
  <2>3. Rate!Rested(old, t) = r
    BY <1>2, <1>4, <2>1 DEF Rate!Rested
  <2>4. ~(t - t > Rate!Hour)
    BY <1>1
  <2>5. Rate!Averaged(r, t) = r
    BY <2>2, <2>4 DEF Rate!Averaged, Limiter
  <2>6. Limiter(Rate!Attempted(old, t), PerHour, t, t, 0 + 1)
    BY <1>3, <2>2, <2>3, <2>5
  <2> QED BY <1>4, <2>6
<1>5. CASE ~(t - old.last > Rate!Hour)
  <2>1. Rate!Rested(old, t) = old
    BY <1>2, <1>5 DEF Rate!Rested
  <2>2. CASE t - old.first > Rate!Hour
    <3>1. PICK k : k = (HalfHour * old.attempts) \div (t - old.first)
      OBVIOUS
    <3>2. k \in Nat
      <4>1. PICK x \in Nat, y \in Nat \ {0} :
              x = HalfHour * old.attempts /\ y = t - old.first
        BY <1>1, <1>2, <2>2
      <4>2. x \div y \in Nat
        OBVIOUS
      <4> QED BY <3>1, <4>1, <4>2
    <3>3. PICK f \in Int : f = t - HalfHour
      BY <1>1
    <3>4. PICK r : r = [old EXCEPT !.attempts = k, !.first = f]
      OBVIOUS
    <3>5. Limiter(r, PerHour, f, old.last, k)
      BY <3>2, <3>4 DEF AnyLimits, Limiter
    <3>6. Rate!Averaged(old, t) = r
      BY <2>2, <3>1, <3>3, <3>4 DEF Rate!Averaged
    <3>7. Limiter(Rate!Attempted(old, t), PerHour, f, t, k + 1) /\ k + 1 \in Nat \ {0}
      BY <1>2, <1>3, <2>1, <3>2, <3>5, <3>6
    <3> QED BY <2>2, <3>3, <3>7
  <2>3. CASE ~(t - old.first > Rate!Hour)
    <3>1. Rate!Averaged(old, t) = old
      BY <2>3 DEF Rate!Averaged
    <3>2. /\ Limiter(Rate!Attempted(old, t), PerHour, old.first, t, old.attempts + 1)
          /\ old.attempts + 1 \in Nat \ {0}
      BY <1>2, <1>3, <2>1, <3>1
    <3> QED BY <1>2, <3>2
  <2> QED BY <2>2, <2>3
<1> QED BY <1>4, <1>5

\* A connection is permitted if the attempts do not exceed the limit.
LEMMA ConnectEffect ==
  ASSUME RateInv, Rate!Connect
  PROVE  \E f \in Int, k \in Nat \ {0} :
           /\ Limiter(lim', PerHour, f, now, k) /\ now' = now
           /\ k <= PerHour => recent' = Append(recent, now)
           /\ k > PerHour => recent' = recent
           /\ \/ now - lim.last > Rate!Hour /\ f = now /\ k = 1
              \/ now - lim.first > Rate!Hour /\ f = now - HalfHour
              \/ f = lim.first /\ k = lim.attempts + 1
<1>1. PICK old \in AnyLimits, t \in Nat : old = lim /\ t = now
  BY DEF RateInv, RateTypeOK, Limiter
<1>2. Limiter(old, PerHour, old.first, old.last, old.attempts)
  BY <1>1 DEF RateInv, RateTypeOK
<1>3. PICK f \in Int, k \in Nat \ {0} :
        /\ Limiter(Rate!Attempted(old, t), PerHour, f, t, k)
        /\ \/ t - old.last > Rate!Hour /\ f = t /\ k = 1
           \/ t - old.first > Rate!Hour /\ f = t - HalfHour
           \/ f = old.first /\ k = old.attempts + 1
  BY <1>2, AttemptCounts DEF RateInv
<1>4. PICK a : a = Rate!Attempted(old, t) /\ Limiter(a, PerHour, f, t, k)
  BY <1>3
<1>5. PerHour \in Nat \ {0}
  BY DEF RateInv, RateConstantsOK
<1>6. Rate!Permits(a) <=> k <= PerHour
  BY <1>4, <1>5 DEF Rate!Permits, Limiter
<1>7. CASE k <= PerHour
  <2>1. PICK l : l = [a EXCEPT !.active = 1]
    OBVIOUS
  <2>2. Rate!Register(old, t) = [ok |-> TRUE, limits |-> l]
    BY <1>4, <1>6, <1>7, <2>1 DEF Rate!Register, Limiter
  <2>3. /\ l \in AnyLimits /\ l.active = 1 /\ l.known = TRUE /\ l.maxactive = 0
        /\ l.maxPerHour = PerHour /\ l.first = f /\ l.last = t /\ l.attempts = k
    BY <1>4, <2>1 DEF AnyLimits, Limiter
  <2>4. PICK d : d = [l EXCEPT !.active = 0]
    OBVIOUS
  <2>5. Limiter(d, PerHour, f, t, k)
    BY <2>3, <2>4 DEF AnyLimits, Limiter
  <2>6. lim' = d /\ recent' = Append(recent, now) /\ now' = now
    BY <1>1, <2>2, <2>3, <2>4 DEF Rate!Connect, Rate!Deregister
  <2>7. Limiter(lim', PerHour, f, now, k)
    BY <1>1, <2>5, <2>6
  <2>8. ~(k > PerHour)
    BY <1>5, <1>7
  <2> QED BY <1>1, <1>3, <1>7, <2>6, <2>7, <2>8
<1>8. CASE ~(k <= PerHour)
  <2>1. Rate!Register(old, t) = [ok |-> FALSE, limits |-> a]
    BY <1>4, <1>6, <1>8 DEF Rate!Register
  <2>2. lim' = a /\ recent' = recent /\ now' = now
    BY <1>1, <2>1 DEF Rate!Connect
  <2>3. Limiter(lim', PerHour, f, now, k)
    BY <1>1, <1>4, <2>2
  <2> QED BY <1>1, <1>3, <1>8, <2>2, <2>3
<1> QED BY <1>7, <1>8

\* One more connection in the current part, or an attempt that is turned away.
LEMMA PartGoesOn ==
  ASSUME RateConstantsOK, NEW times \in Seq(Nat), NEW first \in Int,
         NEW attempts \in Nat \ {0}, NEW t \in Nat,
         Divided(times, first, attempts)
  PROVE  /\ Divided(times, first, attempts + 1)
         /\ attempts + 1 <= PerHour => Divided(Append(times, t), first, attempts + 1)
<1>1. PICK n \in Nat, m \in Nat, a \in Int, b \in Int :
        Parts(times, first, attempts, n, m, a, b)
  BY DEF Divided
<1>2. Len(times) \in Nat /\ PerHour \in Nat \ {0}
  BY LenProperties DEF RateConstantsOK
<1>3. Parts(times, first, attempts + 1, n, m, a, b)
  BY <1>1, <1>2 DEF Parts
<1>4. ASSUME attempts + 1 <= PerHour PROVE Divided(Append(times, t), first, attempts + 1)
  <2>1. PICK new : new = Append(times, t)
    OBVIOUS
  <2>2. /\ Len(new) = Len(times) + 1
        /\ \A i \in 1..Len(times) : new[i] = times[i]
    BY <2>1, AppendProperties
  <2>3. Parts(new, first, attempts + 1, n, m, a, b)
    <3>0. Len(times) - n - m \in Nat
      BY <1>1, <1>2 DEF Parts
    <3>1. PICK rest \in Nat : rest = Len(times) - n - m
      BY <3>0
    <3>2. /\ n < PerHour /\ m <= PerHour /\ rest + 1 <= PerHour /\ rest <= attempts
          /\ Len(new) - n - m = rest + 1
      BY <1>1, <1>2, <1>4, <2>2, <3>1 DEF Parts
    <3>3. /\ \A i \in 1..n : new[i] <= a
          /\ \A i \in 1..(n + m) : new[i] <= b
          /\ m = PerHour => new[n + 1] <= a
      <4>1. /\ 1..n \subseteq 1..Len(times) /\ 1..(n + m) \subseteq 1..Len(times)
            /\ m = PerHour => n + 1 \in 1..Len(times)
        BY <1>2, <3>1
      <4> QED BY <1>1, <2>2, <4>1 DEF Parts
    <3>4. ASSUME rest + 1 = attempts + 1 \/ rest + 1 = PerHour PROVE new[n + m + 1] <= b
      <4>1. rest = attempts /\ rest > 0
        BY <1>2, <1>4, <3>2, <3>4
      <4>2. n + m + 1 \in 1..Len(times)
        BY <1>2, <3>1, <4>1
      <4> QED BY <1>1, <2>2, <3>1, <4>1, <4>2 DEF Parts
    <3> QED BY <1>1, <3>2, <3>3, <3>4 DEF Parts
  <2> QED BY <2>1, <2>3, DividedBy
<1>5. Divided(times, first, attempts + 1)
  BY <1>3, DividedBy
<1> QED BY <1>4, <1>5

\* The first attempt after an average.  The last part but one is over an hour ago.
LEMMA PartBegins ==
  ASSUME RateConstantsOK, NEW times \in Seq(Nat), NEW first \in Int,
         NEW attempts \in Nat \ {0}, NEW t \in Nat, NEW k \in Nat \ {0},
         Divided(times, first, attempts),
         \A i \in 1..Len(times) : times[i] <= t /\ t - times[i] <= 2 * HalfHour,
         t - first > 2 * HalfHour
  PROVE  /\ Divided(times, t - HalfHour, k)
         /\ k <= PerHour => Divided(Append(times, t), t - HalfHour, k)
<1>1. PICK n \in Nat, m \in Nat, a \in Int, b \in Int :
        Parts(times, first, attempts, n, m, a, b)
  BY DEF Divided
<1>2. /\ Len(times) \in Nat /\ PerHour \in Nat \ {0} /\ HalfHour \in Nat
      /\ \A i \in 1..Len(times) : times[i] \in Nat
  BY LenProperties DEF RateConstantsOK
<1>3. b + HalfHour < t /\ (n + m # 0 => a + 2 * HalfHour < t)
  BY <1>1, <1>2 DEF Parts
<1>4. n = 0
  <2>1. CASE n # 0
    <3>1. 1 \in 1..n /\ 1 \in 1..Len(times)
      BY <1>1, <1>2, <2>1 DEF Parts
    <3>2. times[1] <= a
      BY <1>1, <3>1 DEF Parts
    <3> QED BY <1>2, <1>3, <2>1, <3>1, <3>2
  <2> QED BY <2>1
<1>5. m < PerHour
  <2>1. CASE m = PerHour
    <3>1. 1 \in 1..Len(times) /\ times[1] <= a
      BY <1>1, <1>2, <1>4, <2>1 DEF Parts
    <3> QED BY <1>2, <1>3, <2>1, <3>1
  <2> QED BY <1>1, <1>2, <2>1 DEF Parts
<1>6. PICK rest \in Nat : rest = Len(times) - m
  <2>1. Len(times) - m \in Nat
    BY <1>1, <1>2, <1>4 DEF Parts
  <2> QED BY <2>1
<1>7. /\ rest <= PerHour /\ \A i \in 1..m : times[i] <= b
      /\ rest = PerHour => times[m + 1] <= b
  BY <1>1, <1>2, <1>4, <1>6 DEF Parts
<1>8. /\ \A i \in 1..(m + rest) : times[i] <= t
      /\ t = (t - HalfHour) + HalfHour /\ Len(times) - m - rest = 0
  BY <1>2, <1>6
<1>9. Parts(times, t - HalfHour, k, m, rest, b, t)
  BY <1>2, <1>3, <1>5, <1>7, <1>8 DEF Parts
<1>10. ASSUME k <= PerHour PROVE Divided(Append(times, t), t - HalfHour, k)
  <2>1. PICK new : new = Append(times, t)
    OBVIOUS
  <2>2. /\ Len(new) = Len(times) + 1 /\ new[Len(times) + 1] = t
        /\ \A i \in 1..Len(times) : new[i] = times[i]
    BY <2>1, AppendProperties
  <2>3. /\ Len(new) - m - rest = 1 /\ new[m + rest + 1] = t
        /\ \A i \in 1..m : new[i] <= b
        /\ \A i \in 1..(m + rest) : new[i] <= t
        /\ rest = PerHour => new[m + 1] <= b
    <3>1. /\ 1..m \subseteq 1..Len(times) /\ m + rest = Len(times)
          /\ rest = PerHour => m + 1 \in 1..Len(times)
      BY <1>2, <1>6
    <3>2. Len(new) - m - rest = 1
      BY <1>2, <1>6, <2>2
    <3> QED BY <1>7, <1>8, <2>2, <3>1, <3>2
  <2>4. Parts(new, t - HalfHour, k, m, rest, b, t)
    BY <1>2, <1>3, <1>5, <1>7, <1>8, <2>3 DEF Parts
  <2>5. t - HalfHour \in Int
    BY <1>2
  <2> QED BY <2>1, <2>4, <2>5, DividedBy
<1>11. Divided(times, t - HalfHour, k)
  BY <1>9, DividedBy
<1> QED BY <1>10, <1>11

\* An attempt keeps the invariant: it belongs to the current part, or begins one
\* after an average or after an hour of rest.
LEMMA ConnectStep == ASSUME RateInv, Rate!Connect PROVE RateInv'
<1>1. PICK f \in Int, k \in Nat \ {0} :
        /\ Limiter(lim', PerHour, f, now, k) /\ now' = now
        /\ k <= PerHour => recent' = Append(recent, now)
        /\ k > PerHour => recent' = recent
        /\ \/ now - lim.last > Rate!Hour /\ f = now /\ k = 1
           \/ now - lim.first > Rate!Hour /\ f = now - HalfHour
           \/ f = lim.first /\ k = lim.attempts + 1
  BY ConnectEffect
<1>2. PICK t \in Nat, times \in Seq(Nat), first \in Int, last \in Nat,
           attempts \in Nat \ {0} :
        /\ t = now /\ times = recent /\ first = lim.first /\ last = lim.last
        /\ attempts = lim.attempts
  BY DEF RateInv, RateTypeOK, Limiter, AnyLimits
<1>3. /\ RateConstantsOK /\ PerHour \in Nat \ {0} /\ HalfHour \in Nat
      /\ Rate!Hour \in Nat /\ Rate!Hour = 2 * HalfHour
  BY DEF RateInv, RateConstantsOK, Rate!Hour
<1>4. /\ Len(times) \in Nat /\ last <= t
      /\ \A i \in 1..Len(times) :
           times[i] \in Nat /\ times[i] <= last /\ t - times[i] <= 2 * HalfHour
  BY <1>2, <1>3, LenProperties DEF RateInv, Recent, RecentAt
<1>5. PICK new \in Seq(Nat) :
        /\ new = recent' /\ new \in {times, Append(times, t)}
        /\ k > PerHour => new = times
        /\ k <= PerHour => new = Append(times, t)
  <2>1. CASE k > PerHour
    BY <1>1, <1>2, <1>3, <2>1
  <2>2. CASE k <= PerHour
    <3>1. Append(times, t) \in Seq(Nat)
      BY AppendProperties
    <3>2. recent' = Append(times, t) /\ ~(k > PerHour)
      BY <1>1, <1>2, <1>3, <2>2
    <3> QED BY <3>1, <3>2
  <2> QED BY <1>3, <2>1, <2>2
<1>6. /\ Len(new) \in Nat
      /\ \A i \in 1..Len(new) : new[i] <= t /\ t - new[i] <= 2 * HalfHour
  <2>1. CASE new = times
    BY <1>4, <2>1
  <2>2. CASE new = Append(times, t)
    <3>1. /\ Len(new) = Len(times) + 1 /\ new[Len(times) + 1] = t
          /\ \A i \in 1..Len(times) : new[i] = times[i]
      BY <2>2, AppendProperties
    <3>2. \A i \in 1..Len(new) : i \in 1..Len(times) \/ new[i] = t
      BY <1>4, <3>1
    <3>3. \A i \in 1..Len(times) : times[i] <= t
      BY <1>4
    <3>4. t <= t /\ t - t <= 2 * HalfHour /\ Len(new) \in Nat
      BY <1>3, <1>4, <3>1
    <3> QED BY <1>4, <3>1, <3>2, <3>3, <3>4
  <2> QED BY <1>5, <2>1, <2>2
<1>7. /\ lim'.first = f /\ lim'.last = t /\ lim'.attempts = k /\ now' = t
      /\ RateTypeOK' /\ Recent'
  <2>1. lim'.first = f /\ lim'.last = t /\ lim'.attempts = k /\ now' = t
    BY <1>1, <1>2 DEF Limiter
  <2>2. RateTypeOK'
    BY <1>1, <1>2, <1>5, <2>1 DEF RateTypeOK
  <2>3. Recent'
    BY <1>3, <1>5, <1>6, <2>1 DEF Recent, RecentAt, Rate!Hour
  <2> QED BY <2>1, <2>2, <2>3
<1>8. Divided(times, first, attempts)
  BY <1>2 DEF RateInv
<1>9. Divided(new, f, k)
  <2>1. CASE t - last > 2 * HalfHour /\ f = t /\ k = 1
    <3>1. Len(times) = 0
      <4>1. CASE Len(times) # 0
        <5>1. 1 \in 1..Len(times)
          BY <1>4, <4>1
        <5> QED BY <1>3, <1>4, <2>1, <5>1
      <4> QED BY <4>1
    <3>2. /\ Len(new) = 1 /\ new[1] = t
      BY <1>3, <1>5, <2>1, <3>1, AppendProperties
    <3>3. Parts(new, t, 1, 0, 0, 0, t)
      BY <1>3, <3>2 DEF Parts
    <3> QED BY <2>1, <3>3, DividedBy
  <2>2. CASE t - first > 2 * HalfHour /\ f = t - HalfHour
    <3>1. \A i \in 1..Len(times) : times[i] <= t /\ t - times[i] <= 2 * HalfHour
      BY <1>4
    <3>2. /\ Divided(times, t - HalfHour, k)
          /\ k <= PerHour => Divided(Append(times, t), t - HalfHour, k)
      BY <1>3, <1>8, <2>2, <3>1, PartBegins
    <3>3. CASE k > PerHour
      BY <1>5, <2>2, <3>2, <3>3
    <3>4. CASE k <= PerHour
      BY <1>5, <2>2, <3>2, <3>4
    <3> QED BY <1>3, <3>3, <3>4
  <2>3. CASE f = first /\ k = attempts + 1
    <3>1. /\ Divided(times, first, attempts + 1)
          /\ attempts + 1 <= PerHour => Divided(Append(times, t), first, attempts + 1)
      BY <1>3, <1>8, PartGoesOn
    <3>2. CASE k > PerHour
      BY <1>5, <2>3, <3>1, <3>2
    <3>3. CASE k <= PerHour
      BY <1>5, <2>3, <3>1, <3>3
    <3> QED BY <1>3, <3>2, <3>3
  <2> QED BY <1>1, <1>2, <1>3, <2>1, <2>2, <2>3
<1> QED BY <1>3, <1>5, <1>7, <1>9 DEF RateInv, RateConstantsOK

LEMMA Dropped ==
  ASSUME NEW times \in Seq(Nat), NEW d \in 0..Len(times)
  PROVE  LET new == SubSeq(times, d + 1, Len(times)) IN
           /\ new \in Seq(Nat) /\ Len(new) = Len(times) - d
           /\ \A i \in 1..Len(new) : new[i] = times[d + i]
<1>1. /\ d \in Nat /\ d + 1 \in Int /\ Len(times) \in Int /\ d <= Len(times)
      /\ \A i \in (d + 1)..Len(times) : times[i] \in Nat
  BY LenProperties
<1>2. PICK new : new = SubSeq(times, d + 1, Len(times))
  OBVIOUS
<1>3. /\ new \in Seq(Nat)
      /\ Len(new) = IF d + 1 <= Len(times) THEN Len(times) - (d + 1) + 1 ELSE 0
      /\ \A i \in 1..(Len(times) - (d + 1) + 1) : new[i] = times[(d + 1) + i - 1]
  BY <1>1, <1>2, SubSeqProperties
<1>4. Len(new) = Len(times) - d /\ Len(times) - (d + 1) + 1 = Len(times) - d
  BY <1>1, <1>3
<1>5. ASSUME NEW i \in 1..Len(new) PROVE new[i] = times[d + i]
  <2>1. (d + 1) + i - 1 = d + i /\ i \in 1..(Len(times) - (d + 1) + 1)
    BY <1>1, <1>4
  <2> QED BY <1>3, <2>1
<1> QED BY <1>2, <1>3, <1>4, <1>5

LEMMA PartsMade ==
  ASSUME NEW times, NEW first, NEW attempts, NEW n \in Nat, NEW m \in Nat,
         NEW a \in Int, NEW b \in Int, NEW rest \in Nat,
         Len(times) - n - m = rest, n < PerHour, m <= PerHour,
         \A i \in 1..n : times[i] <= a,
         \A i \in 1..(n + m) : times[i] <= b,
         m = PerHour => times[n + 1] <= a,
         rest <= attempts, rest <= PerHour,
         (rest = attempts \/ rest = PerHour) => times[n + m + 1] <= b,
         (n + m = 0 /\ b = first) \/ (b = first + HalfHour /\ a + HalfHour < b)
  PROVE  Divided(times, first, attempts)
<1>1. Parts(times, first, attempts, n, m, a, b)
  BY DEF Parts
<1> QED BY <1>1, DividedBy

\* What is no longer recent leaves the parts one after the other.
LEMMA PartsShrink ==
  ASSUME RateConstantsOK, NEW times \in Seq(Nat), NEW first \in Int,
         NEW attempts \in Nat \ {0}, Divided(times, first, attempts),
         NEW d \in 0..Len(times)
  PROVE  Divided(SubSeq(times, d + 1, Len(times)), first, attempts)
<1>1. PICK n \in Nat, m \in Nat, a \in Int, b \in Int :
        Parts(times, first, attempts, n, m, a, b)
  BY DEF Divided
<1>2. /\ Len(times) \in Nat /\ PerHour \in Nat \ {0} /\ d \in Nat /\ d <= Len(times)
      /\ Len(times) - n - m \in Nat
  BY <1>1, LenProperties DEF RateConstantsOK, Parts
<1>3. PICK rest \in Nat : rest = Len(times) - n - m
  BY <1>2
<1>4. /\ n < PerHour /\ m <= PerHour /\ rest <= attempts /\ rest <= PerHour
      /\ (n + m = 0 /\ b = first) \/ (b = first + HalfHour /\ a + HalfHour < b)
  BY <1>1, <1>3 DEF Parts
<1>5. /\ \A i \in 1..n : times[i] <= a
      /\ \A i \in 1..(n + m) : times[i] <= b
      /\ m = PerHour => times[n + 1] <= a
      /\ (rest = attempts \/ rest = PerHour) => times[n + m + 1] <= b
  BY <1>1, <1>3 DEF Parts
<1>6. PICK new : new = SubSeq(times, d + 1, Len(times))
  OBVIOUS
<1>7. /\ Len(new) = Len(times) - d
      /\ \A i \in 1..Len(new) : new[i] = times[d + i]
  BY <1>6, Dropped
<1>8. PICK l \in Nat : l = Len(new) /\ l = n + m + rest - d
  <2>1. PICK l : l = Len(times) - d
    OBVIOUS
  <2>2. l \in Nat /\ l = n + m + rest - d
    BY <1>2, <1>3, <2>1
  <2> QED BY <1>7, <2>1, <2>2
<1>9. \A i \in 1..l : new[i] = times[d + i]
  BY <1>7, <1>8
<1>10. CASE d <= n
  <2>1. PICK n1 \in Nat : n1 = n - d
    BY <1>2, <1>10
  <2>2. n1 < PerHour /\ l - n1 - m = rest
    BY <1>2, <1>4, <1>8, <2>1
  <2>3. ASSUME NEW i \in 1..n1 PROVE new[i] <= a
    <3>1. i \in 1..l /\ d + i \in 1..n
      BY <1>2, <1>8, <2>1
    <3> QED BY <1>5, <1>9, <3>1
  <2>4. ASSUME NEW i \in 1..(n1 + m) PROVE new[i] <= b
    <3>1. i \in 1..l /\ d + i \in 1..(n + m)
      BY <1>2, <1>8, <2>1
    <3> QED BY <1>5, <1>9, <3>1
  <2>5. ASSUME m = PerHour PROVE new[n1 + 1] <= a
    <3>1. n1 + 1 \in 1..l /\ d + (n1 + 1) = n + 1
      BY <1>2, <1>8, <2>1, <2>5
    <3> QED BY <1>5, <1>9, <2>5, <3>1
  <2>6. ASSUME rest = attempts \/ rest = PerHour PROVE new[n1 + m + 1] <= b
    <3>1. rest > 0
      BY <1>2, <2>6
    <3>2. n1 + m + 1 \in 1..l /\ d + (n1 + m + 1) = n + m + 1
      BY <1>2, <1>8, <2>1, <3>1
    <3> QED BY <1>5, <1>9, <2>6, <3>2
  <2>7. (n1 + m = 0 /\ b = first) \/ (b = first + HalfHour /\ a + HalfHour < b)
    BY <1>2, <1>4, <1>10, <2>1
  <2> QED BY <1>4, <1>6, <1>8, <2>2, <2>3, <2>4, <2>5, <2>6, <2>7, PartsMade
<1>11. CASE n < d /\ d <= n + m
  <2>1. PICK m1 \in Nat : m1 = n + m - d
    BY <1>2, <1>11
  <2>2. 0 < PerHour /\ m1 < PerHour /\ l - 0 - m1 = rest
    BY <1>2, <1>4, <1>8, <1>11, <2>1
  <2>3. ASSUME NEW i \in 1..(0 + m1) PROVE new[i] <= b
    <3>1. i \in 1..l /\ d + i \in 1..(n + m)
      BY <1>2, <1>8, <2>1
    <3> QED BY <1>5, <1>9, <3>1
  <2>4. ASSUME rest = attempts \/ rest = PerHour PROVE new[0 + m1 + 1] <= b
    <3>1. rest > 0
      BY <1>2, <2>4
    <3>2. 0 + m1 + 1 \in 1..l /\ d + (0 + m1 + 1) = n + m + 1
      BY <1>2, <1>8, <2>1, <3>1
    <3> QED BY <1>5, <1>9, <2>4, <3>2
  <2>5. (0 + m1 = 0 /\ b = first) \/ (b = first + HalfHour /\ a + HalfHour < b)
    BY <1>2, <1>4, <1>11, <2>1
  <2>6. /\ \A i \in 1..0 : new[i] <= a
        /\ m1 = PerHour => new[0 + 1] <= a
        /\ m1 <= PerHour /\ 0 \in Nat
    BY <1>2, <2>2
  <2>7. Len(new) - 0 - m1 = rest
    BY <1>8, <2>2
  <2>8. Divided(new, first, attempts)
    BY <1>4, <2>2, <2>3, <2>4, <2>5, <2>6, <2>7, PartsMade
  <2> QED BY <1>6, <2>8
<1>12. CASE n + m < d
  <2>1. l < rest
    BY <1>2, <1>8, <1>12
  <2>2. PICK b1 \in Int, a1 \in Int :
          (0 + 0 = 0 /\ b1 = first) \/ (b1 = first + HalfHour /\ a1 + HalfHour < b1)
    OBVIOUS
  <2>3. /\ l - 0 - 0 = l /\ 0 < PerHour /\ 0 <= PerHour /\ ~(0 = PerHour)
        /\ l <= attempts /\ l <= PerHour /\ l # attempts /\ l # PerHour
        /\ \A i \in 1..0 : new[i] <= a1 /\ new[i] <= b1
        /\ \A i \in 1..(0 + 0) : new[i] <= b1
    BY <1>2, <1>4, <2>1
  <2> QED BY <1>6, <1>8, <2>2, <2>3, PartsMade
<1> QED BY <1>2, <1>10, <1>11, <1>12

LEMMA TickStep == ASSUME RateInv, Rate!Tick PROVE RateInv'
<1>1. PICK times \in Seq(Nat), t \in Nat, last \in Nat :
        /\ times = recent /\ t = now /\ last = lim.last
  BY DEF RateInv, RateTypeOK
<1>2. /\ Len(times) \in Nat /\ last <= t /\ DOMAIN times = 1..Len(times)
      /\ \A i \in 1..Len(times) : times[i] \in Nat /\ times[i] <= last
  BY <1>1, LenProperties DEF RateInv, Recent, RecentAt
<1>3. PICK d \in 0..Len(times) :
        /\ \A i \in DOMAIN times : i > d <=> t + 1 - times[i] <= Rate!Hour
        /\ recent' = SubSeq(times, d + 1, Len(times))
  BY <1>1 DEF Rate!Tick
<1>4. lim' = lim /\ now' = t + 1
  BY <1>1 DEF Rate!Tick
<1>5. PICK new \in Seq(Nat) :
        /\ new = recent' /\ Len(new) = Len(times) - d
        /\ \A i \in 1..Len(new) : new[i] = times[d + i]
  BY <1>3, Dropped
<1>6. RateTypeOK'
  BY <1>1, <1>4, <1>5 DEF RateInv, RateTypeOK
<1>7. Recent'
  <2>1. ASSUME NEW i \in 1..Len(new)
        PROVE  new[i] <= last /\ t + 1 - new[i] <= Rate!Hour
    <3>1. d + i \in 1..Len(times) /\ d + i > d
      BY <1>2, <1>5
    <3> QED BY <1>2, <1>3, <1>5, <3>1
  <2>2. last <= t + 1
    BY <1>2
  <2>3. RecentAt(new, last, t + 1)
    BY <2>1, <2>2 DEF RecentAt
  <2>4. lim'.last = last /\ now' = t + 1 /\ recent' = new
    BY <1>1, <1>4, <1>5
  <2> QED BY <2>3, <2>4 DEF Recent
<1>8. Divided(recent, lim.first, lim.attempts)'
  <2>1. PICK first \in Int, attempts \in Nat \ {0} :
          first = lim.first /\ attempts = lim.attempts
    BY DEF RateInv, RateTypeOK, Limiter, AnyLimits
  <2>2. Divided(SubSeq(times, d + 1, Len(times)), first, attempts)
    BY <1>1, <2>1, PartsShrink DEF RateInv
  <2> QED BY <1>3, <1>4, <2>1, <2>2
<1> QED BY <1>6, <1>7, <1>8 DEF RateInv, RateConstantsOK

\* An address never gets three times its limit in any hour, for every limit and
\* every rhythm of its connections.
THEOREM HourlyLimit == RateConstantsOK => (Rate!Spec => []Rate!HourlyBounded)
<1>1. RateConstantsOK /\ Rate!Init => RateInv
  BY RateInitHolds
<1>2. RateInv /\ [Rate!Next]_Rate!vars => RateInv'
  <2>1. ASSUME RateInv, UNCHANGED Rate!vars PROVE RateInv'
    BY <2>1 DEF RateInv, RateConstantsOK, RateTypeOK, Recent, Rate!vars, Rate!Hour
  <2> QED BY <2>1, ConnectStep, TickStep DEF Rate!Next
<1>3. RateInv => Rate!HourlyBounded
  <2>1. ASSUME RateInv PROVE Rate!HourlyBounded
    <3>1. PICK n \in Nat, m \in Nat, a \in Int, b \in Int :
            Parts(recent, lim.first, lim.attempts, n, m, a, b)
      BY <2>1 DEF RateInv, Divided
    <3>2. Len(recent) \in Nat /\ PerHour \in Nat \ {0}
      BY <2>1, LenProperties DEF RateInv, RateTypeOK, RateConstantsOK
    <3> QED BY <3>1, <3>2 DEF Parts, Rate!HourlyBounded
  <2> QED BY <2>1
<1> QED BY <1>1, <1>2, <1>3, PTL DEF Rate!Spec

\* ConnectionsLimited: the loop that accepts connections and the limit of an
\* address hold their promises beside each other, for all values of the constants.
THEOREM Limited ==
  ConstantsOK /\ RateConstantsOK => (LoopSpec /\ Rate!Spec => []ConnectionsLimited)
BY Accounted, HourlyLimit, PTL DEF ConnectionsLimited

-----------------------------------------------------------------------------
(* Requests: what the theorem asks of the constants, and the invariant.    *)

\* The letters of the streams, which are sequences, and the limits, which are numbers.
Letter == UNION {{s[i] : i \in DOMAIN s} : s \in Streams}
ReaderOK ==
  /\ Streams \subseteq Seq(Letter) /\ ReadSize \in Nat
  /\ TotalBytes \subseteq Int /\ MessageBytes \subseteq Int /\ ReplyLengths \subseteq Nat

\* The types of the variables.
ReaderTypes ==
  /\ sent \in Seq(Letter) /\ stream \in Seq(Letter) /\ buf \in Seq(Letter)
  /\ chunk \in Seq(Letter) /\ messages \in Seq(Seq(Letter))
  /\ limits \in [total : Int, message : Int, TLSRequired : BOOLEAN] /\ tls \in BOOLEAN
  /\ pc \in {"starttls", "context", "read", "split", "ended", "eof"}
  /\ room \in Nat /\ bytesRemaining \in Int /\ messageBytesRemaining \in Int
     /\ replied \in Nat /\ replies \in Nat

\* The stream P ends with part, piece and rest, which begin after its first b letters.
Laid(P, b, part, piece, rest) ==
  /\ Len(P) = b + Len(part) + Len(piece) + Len(rest)
  /\ \A i \in 1..Len(part) : part[i] = P[b + i]
  /\ \A i \in 1..Len(piece) : piece[i] = P[b + Len(part) + i]
  /\ \A i \in 1..Len(rest) : rest[i] = P[b + Len(part) + Len(piece) + i]

\* The lines that end in the first b letters are the messages.  After them no line
\* ends in part; only the first letter of a stream can be a newline there.
Lined(P, b, part, msgs) ==
  /\ b = 0 \/ P[b] = NL
  /\ \A i \in 1..Len(part) : part[i] = NL => b = 0 /\ i = 1
  /\ Len(msgs) = Ended(P, b)
  /\ \A m \in 1..Len(msgs) : \E e \in Ends(P) : Ended(P, e) = m /\ msgs[m] = LineTo(P, e)

\* While STARTTLS is expected, its beginning is all that has come.
Expecting ==
  pc = "starttls" =>
    /\ ~tls /\ Len(buf) <= 2 /\ buf = SubSeq(starttls, 1, Len(buf))
    /\ Laid(sent, 0, buf, chunk, stream)
\* Nothing has been processed before the limits are set.
Unanswered == pc \in {"starttls", "context"} => messages = <<>> /\ replied = 0 /\ replies = 0
\* The stream, in its parts, with the messages processed.
Whole ==
  pc # "starttls" =>
    \E b \in Nat : /\ Laid(Plain, b, buf, chunk, stream)
                   /\ ~Torn => Lined(Plain, b, buf, messages)
\* A chunk is split before the next is read.
Chunks ==
  /\ pc \notin {"split", "ended"} => chunk = <<>>
  /\ pc = "eof" => stream = <<>>

\* The bytes of the replies, without the line ends, which are not counted.
Charged == replied - LineEnd * replies

\* What is left of the limits covers what is still to come.
Spent ==
  /\ pc # "starttls" => Consumed + Charged <= Or(limits.total) + Early
  /\ pc = "context" => Consumed = Len(buf) /\ Len(buf) <= Early
  /\ pc \in {"read", "split", "eof"} =>
       /\ 0 <= bytesRemaining
       /\ Consumed + Charged + bytesRemaining <= Or(limits.total) + Early
       /\ Len(buf) + messageBytesRemaining <= Or(limits.message) + Early
       /\ Len(chunk) <= messageBytesRemaining
          /\ messageBytesRemaining <= Or(limits.message)
  /\ \A i \in DOMAIN messages : Len(messages[i]) < Or(limits.message) + Early

\* The invariant.
ReaderInv == ReaderTypes /\ Expecting /\ Unanswered /\ Whole /\ Chunks /\ Spent

-----------------------------------------------------------------------------
\* A set of numbers has a least one, and a bounded one a greatest.
LEMMA MinIs ==
  ASSUME NEW S \in SUBSET Nat, S # {}
  PROVE  Min(S) \in S /\ \A y \in S : Min(S) <= y
<1>1. \E x \in S : \A y \in S : ~ (<<y, x>> \in OpToRel(<, Nat))
  <2> DEFINE R == OpToRel(<, Nat)
  <2>1. IsWellFoundedOn(R, Nat) BY NatLessThanWellFounded
  <2> HIDE DEF R
  <2>2. \E x \in S : \A y \in S : ~ (<<y, x>> \in R) BY <2>1, WFMin
  <2> QED BY <2>2 DEF R
<1>2. PICK x \in S : \A y \in S : ~ (<<y, x>> \in OpToRel(<, Nat)) BY <1>1
<1>3. \A y \in S : x <= y
  <2> TAKE y \in S
  <2>1. ~ (y < x) BY <1>2 DEF OpToRel
  <2> QED BY <2>1
<1> QED BY <1>3, Zenon DEF Min

\* A set of numbers that has a bound has a greatest one.
LEMMA MaxIs ==
  ASSUME NEW n \in Nat, NEW S \in SUBSET (0..n), S # {}
  PROVE  Max(S) \in S /\ \A y \in S : Max(S) >= y
<1> DEFINE T == {n - x : x \in S}
<1>1. T \in SUBSET Nat /\ T # {}
  <2>1. \A x \in S : n - x \in Nat OBVIOUS
  <2>2. PICK x \in S : TRUE OBVIOUS
  <2>3. n - x \in T OBVIOUS
  <2> QED BY <2>1, <2>3
<1> HIDE DEF T
<1>2. Min(T) \in T /\ \A y \in T : Min(T) <= y BY <1>1, MinIs
<1>3. PICK x \in S : Min(T) = n - x BY <1>2 DEF T
<1>4. \A y \in S : x >= y
  <2> TAKE y \in S
  <2>1. n - y \in T BY DEF T
  <2>2. n - x <= n - y BY <1>2, <1>3, <2>1
  <2> QED BY <2>2
<1> QED BY <1>4, Zenon DEF Max

\* The first newline of a chunk.
LEMMA NextLineIs ==
  ASSUME chunk \in Seq(Letter)
  PROVE  /\ NextLine \in 0..Len(chunk)
         /\ NextLine = 0 => \A i \in 1..Len(chunk) : chunk[i] # NL
         /\ NextLine > 0 => chunk[NextLine] = NL
            /\ \A i \in 1..(NextLine - 1) : chunk[i] # NL
<1> DEFINE I == {i \in 1..Len(chunk) : chunk[i] = NL}
<1>1. NextLine = IF I # {} THEN Min(I) ELSE 0 BY DEF NextLine, SelectInSeq
<1>2. I \in SUBSET Nat OBVIOUS
<1>3. I # {} => Min(I) \in I /\ \A y \in I : Min(I) <= y BY <1>2, MinIs
<1>4. CASE I = {} BY <1>1, <1>4
<1>5. CASE I # {}
  <2> DEFINE m == Min(I)
  <2>1. NextLine = m /\ m \in 1..Len(chunk) /\ chunk[m] = NL BY <1>1, <1>3, <1>5
  <2>2. ASSUME NEW i \in 1..(m - 1) PROVE chunk[i] # NL
    <3>1. i \in 1..Len(chunk) /\ ~(m <= i) BY <2>1
    <3>2. i \notin I BY <1>3, <1>5, <3>1
    <3> QED BY <3>1, <3>2
  <2> HIDE DEF m
  <2> QED BY <2>1, <2>2
<1> QED BY <1>4, <1>5

\* What is trimmed off is never more than the line.  Of one that has no newlines, but
\* for its first letter, it is that letter.
LEMMA TrimmedIs ==
  ASSUME NEW l \in Seq(Letter)
  PROVE  /\ Trimmed(l) \in Seq(Letter) /\ Len(Trimmed(l)) <= Len(l)
         /\ (\A i \in 2..Len(l) : l[i] # NL) =>
              /\ Trimmed(l) = <<>> <=> Len(l) = 0 \/ (Len(l) = 1 /\ l[1] = NL)
              /\ Trimmed(l) # <<>> =>
                   Trimmed(l) = SubSeq(l, IF l[1] = NL THEN 2 ELSE 1, Len(l))
<1> DEFINE black == {i \in DOMAIN l : l[i] # NL}
<1>1. Trimmed(l) = IF black = {} THEN <<>> ELSE SubSeq(l, Min(black), Max(black))
  BY DEF Trimmed
<1>2. Len(l) \in Nat /\ DOMAIN l = 1..Len(l) OBVIOUS
<1>3. black \in SUBSET Nat /\ black \in SUBSET (0..Len(l)) BY <1>2
<1>4. ASSUME black # {}
      PROVE  /\ Min(black) \in 1..Len(l) /\ Max(black) \in 1..Len(l)
             /\ l[Min(black)] # NL /\ l[Max(black)] # NL /\ Min(black) <= Max(black)
             /\ \A y \in black : Min(black) <= y /\ Max(black) >= y
  <2>1. Min(black) \in black /\ \A y \in black : Min(black) <= y BY <1>3, <1>4, MinIs
  <2>2. Max(black) \in black /\ \A y \in black : Max(black) >= y
    BY <1>2, <1>3, <1>4, MaxIs
  <2> QED BY <2>1, <2>2, <1>2
<1> DEFINE low == Min(black)
           high == Max(black)
<1>5. ASSUME black # {}
      PROVE  /\ SubSeq(l, low, high) \in Seq(Letter)
             /\ Len(SubSeq(l, low, high)) = high - low + 1
  <2>1. low \in 1..(Len(l) + 1) /\ high \in 0..Len(l) BY <1>4, <1>5
  <2> HIDE DEF low, high, black
  <2>2. SubSeq(l, low, high) \in Seq(Letter) BY <2>1, SubSeqProperties
  <2>3. Len(SubSeq(l, low, high)) = IF low <= high THEN high - low + 1 ELSE 0
    BY <2>1, SubSeqProperties
  <2>4. low <= high BY <1>4, <1>5 DEF low, high
  <2> QED BY <2>2, <2>3, <2>4
<1>6. Trimmed(l) \in Seq(Letter) /\ Len(Trimmed(l)) <= Len(l)
  <2>1. CASE black = {} BY <1>1, <1>2, <2>1
  <2>2. CASE black # {}
    <3>1. high - low + 1 <= Len(l) BY <1>2, <1>4, <2>2
    <3> QED BY <1>1, <1>5, <2>2, <3>1
  <2> QED BY <2>1, <2>2
<1>7. ASSUME \A i \in 2..Len(l) : l[i] # NL
      PROVE  /\ Trimmed(l) = <<>> <=> Len(l) = 0 \/ (Len(l) = 1 /\ l[1] = NL)
             /\ Trimmed(l) # <<>> =>
                  Trimmed(l) = SubSeq(l, IF l[1] = NL THEN 2 ELSE 1, Len(l))
  <2>1. CASE black = {}
    <3>1. Trimmed(l) = <<>> BY <1>1, <2>1
    <3>2. \A i \in 1..Len(l) : l[i] = NL BY <1>2, <2>1
    <3>3. Len(l) = 0 \/ (Len(l) = 1 /\ l[1] = NL)
      <4>1. ~(Len(l) >= 2) BY <1>2, <1>7, <3>2
      <4> QED BY <1>2, <3>2, <4>1
    <3> QED BY <3>1, <3>3
  <2>2. CASE black # {}
    <3>1. high = Len(l) /\ Len(l) > 0
      <4>1. CASE high = 1 
        <5>1. ~(Len(l) >= 2)
          <6>1. SUFFICES ASSUME Len(l) >= 2 PROVE FALSE OBVIOUS
          <6>2. Len(l) \in black BY <1>2, <1>7, <6>1
          <6> QED BY <1>4, <2>2, <4>1, <6>1, <6>2
        <5> QED BY <1>4, <1>2, <2>2, <4>1, <5>1
      <4>2. CASE high # 1
        <5>1. Len(l) >= 2 BY <1>2, <1>4, <2>2, <4>2
        <5>2. Len(l) \in black BY <1>2, <1>7, <5>1
        <5> QED BY <1>4, <1>2, <2>2, <5>1, <5>2
      <4> QED BY <4>1, <4>2
    <3>2. low = IF l[1] = NL THEN 2 ELSE 1
      <4>1. CASE l[1] # NL
        <5>1. 1 \in black BY <1>2, <3>1, <4>1
        <5> QED BY <1>4, <2>2, <4>1, <5>1
      <4>2. CASE l[1] = NL
        <5>1. low # 1 /\ low >= 2 /\ Len(l) >= 2 BY <1>4, <1>2, <2>2, <4>2
        <5>2. 2 \in black BY <1>2, <1>7, <5>1
        <5>3. low <= 2 BY <1>4, <2>2, <5>2
        <5>4. low \in Nat BY <1>4, <2>2
        <5> HIDE DEF low
        <5> QED BY <4>2, <5>1, <5>3, <5>4
      <4> QED BY <4>1, <4>2
    <3>3. Trimmed(l) = SubSeq(l, IF l[1] = NL THEN 2 ELSE 1, Len(l))
      BY <1>1, <2>2, <3>1, <3>2
    <3>4. Trimmed(l) # <<>>
      <4>1. Len(Trimmed(l)) = high - low + 1 BY <1>1, <1>5, <2>2
      <4>2. high - low + 1 > 0 BY <1>4, <1>2, <2>2
      <4> QED BY <4>1, <4>2
    <3>5. ~(Len(l) = 0 \/ (Len(l) = 1 /\ l[1] = NL)) BY <1>4, <1>2, <2>2, <3>1, <3>2
    <3> QED BY <3>3, <3>4, <3>5
  <2> QED BY <2>1, <2>2
<1> QED BY <1>6, <1>7


-----------------------------------------------------------------------------
(* The lines of a stream. *)

\* Lines can be counted.
LEMMA EndedIs ==
  ASSUME NEW P \in Seq(Letter), NEW p \in Nat
  PROVE  IsFiniteSet({e \in Ends(P) : e <= p}) /\ Ended(P, p) \in Nat
<1> DEFINE S == {e \in Ends(P) : e <= p}
<1>1. S \in SUBSET Nat /\ \A e \in S : e <= p BY DEF Ends
<1> HIDE DEF S
<1>2. IsFiniteSet(S) BY <1>1, FS_BoundedSetOfNaturals
<1>3. Cardinality(S) \in Nat BY <1>2, FS_CardinalityType
<1> QED BY <1>2, <1>3 DEF Ended, S

\* One line more ends at e, if any line ends there.
LEMMA EndedNext ==
  ASSUME NEW P \in Seq(Letter), NEW b \in Nat, NEW e \in Nat, b < e,
         \A d \in Ends(P) : d <= e => d <= b \/ d = e
  PROVE  Ended(P, e) = IF e \in Ends(P) THEN Ended(P, b) + 1 ELSE Ended(P, b)
<1> DEFINE S(p) == {d \in Ends(P) : d <= p}
<1>1. Ended(P, e) = Cardinality(S(e)) /\ Ended(P, b) = Cardinality(S(b)) BY DEF Ended
<1>2. IsFiniteSet(S(b)) BY EndedIs
<1>3. \A d \in Ends(P) : d \in Nat BY DEF Ends
<1>4. CASE e \in Ends(P)
  <2>1. e \notin S(b) /\ e \in S(e) BY <1>3, <1>4
  <2>2. ASSUME NEW d \in Ends(P) PROVE d \in S(e) <=> d \in S(b) \/ d = e
    <3>1. d \in Nat BY <1>3
    <3>2. d <= b => d <= e BY <3>1
    <3>3. d <= e => d <= b \/ d = e OBVIOUS
    <3>4. d = e => d <= e BY <3>1
    <3> QED BY <3>2, <3>3, <3>4
  <2>3. S(e) \subseteq Ends(P) /\ S(b) \subseteq Ends(P) OBVIOUS
  <2> HIDE DEF S
  <2>4. S(e) = S(b) \cup {e} BY <1>4, <2>1, <2>2, <2>3
  <2>5. IsFiniteSet(S(b)) /\ IsFiniteSet(S(b) \cup {e})
        /\ Cardinality(S(b) \cup {e}) = Cardinality(S(b)) + 1
    BY ONLY <1>2, <2>1, FS_AddElement
  <2> QED BY <1>1, <1>2, <1>4, <2>1, <2>4, <2>5
<1>5. CASE e \notin Ends(P)
  <2>1. S(e) = S(b) BY <1>3, <1>5
  <2> QED BY <1>1, <1>5, <2>1
<1> QED BY <1>4, <1>5

\* No line ends after b.
LEMMA EndedLast ==
  ASSUME NEW P \in Seq(Letter), NEW b \in Nat, \A d \in Ends(P) : d <= b
  PROVE  Ended(P, Len(P)) = Ended(P, b)
<1>1. \A d \in Ends(P) : d <= Len(P) BY DEF Ends
<1>2. {d \in Ends(P) : d <= Len(P)} = {d \in Ends(P) : d <= b} BY <1>1
<1> QED BY <1>2 DEF Ended

\* No fewer lines end in more letters.
LEMMA EndedLess ==
  ASSUME NEW P \in Seq(Letter), NEW b \in Nat, NEW p \in Nat, b <= p
  PROVE  Ended(P, b) <= Ended(P, p)
<1> DEFINE S(q) == {d \in Ends(P) : d <= q}
<1>1. IsFiniteSet(S(p)) BY EndedIs
<1>2. \A d \in Ends(P) : d \in Nat BY DEF Ends
<1>3. S(b) \in SUBSET S(p) BY <1>2
<1>4. Ended(P, p) = Cardinality(S(p)) /\ Ended(P, b) = Cardinality(S(b)) BY DEF Ended
<1> HIDE DEF S
<1> QED BY <1>1, <1>3, <1>4, FS_Subset

\* Lines are counted one by one.
LEMMA EndedOnce ==
  ASSUME NEW P \in Seq(Letter), NEW d \in Ends(P), NEW e \in Ends(P),
         Ended(P, d) = Ended(P, e)
  PROVE  d = e
<1>1. d \in Nat /\ e \in Nat BY DEF Ends
<1>2. ASSUME NEW x \in Ends(P), NEW y \in Ends(P), x \in Nat, y \in Nat, x < y
      PROVE Ended(P, x) # Ended(P, y)
  <2> DEFINE S(q) == {z \in Ends(P) : z <= q}
  <2>1. IsFiniteSet(S(y)) BY <1>2, EndedIs
  <2>2. \A z \in Ends(P) : z \in Nat BY DEF Ends
  <2>3. S(x) \in SUBSET S(y)
    <3>1. \A z \in Ends(P) : z <= x => z <= y BY <1>2, <2>2
    <3> QED BY <3>1
  <2>4. y \in S(y) /\ y \notin S(x) BY <1>2
  <2>5. Ended(P, y) = Cardinality(S(y)) /\ Ended(P, x) = Cardinality(S(x)) BY DEF Ended
  <2> HIDE DEF S
  <2> QED BY <2>1, <2>3, <2>4, <2>5, FS_Subset
<1>3. ~(d < e) /\ ~(e < d) BY <1>1, <1>2
<1> QED BY <1>1, <1>3

\* Messages that are the lines up to some letter begin the lines of the stream.
LEMMA LinesBegin ==
  ASSUME NEW P \in Seq(Letter), NEW b \in 0..Len(P), NEW part,
         NEW msgs \in Seq(Seq(Letter)), Lined(P, b, part, msgs)
  PROVE  /\ IsPrefix(msgs, Lines(P))
         /\ Ended(P, Len(P)) = Ended(P, b) => msgs = Lines(P)
<1> DEFINE n == Ended(P, Len(P))
           L == Lines(P)
           R == {L[i] : i \in 1..n}
           k == Len(msgs)
<1>0. b \in Nat /\ Len(P) \in Nat /\ b <= Len(P) OBVIOUS
<1>1. n \in Nat BY <1>0, EndedIs
<1>2. L = [i \in 1..n |-> LineTo(P, CHOOSE e \in Ends(P) : Ended(P, e) = i)] BY DEF Lines
<1>3. k \in Nat /\ k <= n /\ (Ended(P, Len(P)) = Ended(P, b) => k = n)
  BY <1>0, EndedLess DEF Lined
<1>4. ASSUME NEW i \in 1..k PROVE msgs[i] = L[i]
  <2>1. PICK e \in Ends(P) : Ended(P, e) = i /\ msgs[i] = LineTo(P, e) BY DEF Lined
  <2> DEFINE d == CHOOSE x \in Ends(P) : Ended(P, x) = i
  <2>2. d \in Ends(P) /\ Ended(P, d) = i BY <2>1
  <2> HIDE DEF d
  <2>3. d = e BY <2>1, <2>2, EndedOnce
  <2>4. i \in 1..n BY <1>1, <1>3
  <2>5. L[i] = LineTo(P, d) BY <1>2, <2>4 DEF d
  <2> QED BY <2>1, <2>3, <2>5
<1>5. L \in [1..n -> R] BY <1>2
<1> HIDE DEF n, L, R
<1>6. L \in Seq(R) /\ Len(L) = n BY <1>1, <1>5
<1>7. SubSeq(msgs, 1, k) = SubSeq(L, 1, k)
  <2>1. SubSeq(msgs, 1, k) = [i \in 1..k |-> msgs[i]] BY <1>3
  <2>2. SubSeq(L, 1, k) = [i \in 1..k |-> L[i]] BY <1>1, <1>3, <1>6
  <2> QED BY <1>4, <2>1, <2>2
<1>8. IsPrefix(msgs, L) BY <1>3, <1>6, <1>7 DEF IsPrefix
<1>9. ASSUME k = n PROVE msgs = L
  <2>1. msgs = [i \in 1..k |-> msgs[i]] BY <1>3
  <2>2. L = [i \in 1..k |-> L[i]] BY <1>1, <1>5, <1>9
  <2> QED BY <1>4, <2>1, <2>2
<1> QED BY <1>3, <1>8, <1>9 DEF L, n

\* The line that ends with the next newline.
LEMMA LineIs ==
  ASSUME NEW P \in Seq(Letter), NEW b \in Nat, NEW part \in Seq(Letter),
         NEW piece \in Seq(Letter), NEW rest \in Seq(Letter), NEW msgs,
         Laid(P, b, part, piece, rest), Lined(P, b, part, msgs),
         NEW m \in 1..Len(piece), piece[m] = NL, \A i \in 1..(m - 1) : piece[i] # NL
  PROVE  LET line == part \o SubSeq(piece, 1, m - 1)
             e == b + Len(part) + m
         IN /\ e \in 1..Len(P) /\ P[e] = NL
            /\ e \in Ends(P) <=> Trimmed(line) # <<>>
            /\ e \in Ends(P) => Trimmed(line) = LineTo(P, e)
            /\ \A d \in Ends(P) : d <= e => d <= b \/ d = e
<1> DEFINE line == part \o SubSeq(piece, 1, m - 1)
           e == b + Len(part) + m
           n == Len(part) + m - 1
<1>1. /\ Len(P) \in Nat /\ Len(part) \in Nat /\ Len(piece) \in Nat /\ Len(rest) \in Nat
      /\ Len(P) = b + Len(part) + Len(piece) + Len(rest) /\ m \in Nat /\ m <= Len(piece)
         /\ m > 0
  BY DEF Laid
<1>2. e \in 1..Len(P) /\ e \in Nat /\ n \in Nat /\ e = b + n + 1 BY <1>1
<1>3. P[e] = NL BY <1>1 DEF Laid
<1>4. line \in Seq(Letter) /\ Len(line) = n
  <2>1. SubSeq(piece, 1, m - 1) \in Seq(Letter) /\ Len(SubSeq(piece, 1, m - 1)) = m - 1
    BY <1>1, SubSeqProperties
  <2> QED BY <1>1, <2>1
<1>5. ASSUME NEW i \in 1..n PROVE line[i] = P[b + i] /\ (i >= 2 => line[i] # NL)
                                  /\ (line[i] = NL => b = 0)
  <2>1. CASE i <= Len(part)
    <3>1. i \in 1..Len(part) BY <1>1, <2>1
    <3>2. line[i] = part[i] BY <1>1, <3>1
    <3> QED BY <3>1, <3>2 DEF Laid, Lined
  <2>2. CASE i > Len(part)
    <3> DEFINE j == i - Len(part)
    <3>1. j \in 1..(m - 1) /\ j \in 1..Len(piece) /\ i = Len(part) + j BY <1>1, <2>2
    <3>2. SubSeq(piece, 1, m - 1)[j] = piece[j] /\ Len(SubSeq(piece, 1, m - 1)) = m - 1
      BY <1>1, <3>1
    <3>3. line[i] = piece[j]
      <4>1. SubSeq(piece, 1, m - 1) \in Seq(Letter) BY <1>1, SubSeqProperties
      <4> DEFINE s == SubSeq(piece, 1, m - 1)
      <4>2. i \in 1..(Len(part) + Len(s)) /\ i > Len(part) BY <1>1, <2>2, <3>2
      <4> HIDE DEF s, j
      <4>3. (part \o s)[i] = s[i - Len(part)] BY <1>1, <4>1, <4>2 DEF s
      <4> QED BY <3>2, <4>3 DEF s, j
    <3>4. P[b + i] = piece[j]
      <4>1. piece[j] = P[b + Len(part) + j] BY <3>1 DEF Laid
      <4>2. b + Len(part) + j = b + i BY <1>1, <3>1
      <4> QED BY <4>1, <4>2
    <3>5. piece[j] # NL BY <3>1
    <3> QED BY <3>3, <3>4, <3>5
  <2> QED BY <2>1, <2>2, <1>1
<1>6. \A i \in 2..Len(line) : line[i] # NL BY <1>2, <1>4, <1>5
<1>7. /\ Trimmed(line) = <<>> <=> Len(line) = 0 \/ (Len(line) = 1 /\ line[1] = NL)
      /\ Trimmed(line) # <<>> =>
           Trimmed(line) = SubSeq(line, IF line[1] = NL THEN 2 ELSE 1, Len(line))
  <2> HIDE DEF line
  <2> QED BY <1>4, <1>6, TrimmedIs
<1> HIDE DEF line, n, e
<1>8. e \in Ends(P) <=> ~(n = 0 \/ (n = 1 /\ line[1] = NL))
  <2>1. e \in Ends(P) <=> e >= 2 /\ P[e - 1] # NL BY <1>1, <1>2, <1>3 DEF Ends
  <2>2. CASE n = 0
    <3>1. e = b + 1 /\ e - 1 = b BY <1>2, <2>2
    <3>2. b = 0 \/ P[b] = NL BY DEF Lined
    <3> QED BY <2>1, <2>2, <3>1, <3>2
  <2>3. CASE n = 1
    <3>1. e >= 2 /\ e - 1 = b + 1 /\ line[1] = P[b + 1] BY <1>2, <1>5, <2>3
    <3> QED BY <2>1, <2>3, <3>1
  <2>4. CASE n > 1
    <3>1. n \in 1..n /\ n >= 2 BY <1>2, <2>4
    <3>2. line[n] = P[b + n] /\ line[n] # NL BY <1>5, <3>1
    <3>3. e >= 2 /\ e - 1 = b + n BY <1>2, <2>4
    <3> QED BY <2>1, <2>4, <3>2, <3>3
  <2> QED BY <1>2, <2>2, <2>3, <2>4
<1>9. ASSUME NEW d \in Ends(P), d <= e PROVE d <= b \/ d = e
  <2>1. d \in Nat /\ d >= 2 /\ P[d] = NL BY DEF Ends
  <2> SUFFICES ASSUME d > b, d # e PROVE FALSE BY <1>2, <2>1
  <2> DEFINE i == d - b
  <2>2. i \in 1..n /\ d = b + i BY <1>2, <1>9, <2>1
  <2>3. line[i] = NL BY <1>5, <2>1, <2>2
  <2>4. b = 0 /\ ~(i >= 2) BY <1>5, <2>2, <2>3
  <2> QED BY <2>1, <2>2, <2>4
<1>10. ASSUME ~(n = 0 \/ (n = 1 /\ line[1] = NL)) PROVE Trimmed(line) = LineTo(P, e)
  <2> DEFINE x == IF line[1] = NL THEN 2 ELSE 1
             B == {0} \cup {i \in 1..(e - 1) : P[i] = NL}
  <2>1. n >= 1 /\ line[1] = P[b + 1] BY <1>2, <1>5, <1>10
  <2>2. Trimmed(line) = SubSeq(line, x, n) BY <1>4, <1>7, <1>10
  <2>3. Max(B) = b + x - 1
    <3>1. B \in SUBSET (0..Len(P)) /\ B # {} BY <1>2
    <3>2. Max(B) \in B /\ \A y \in B : Max(B) >= y BY <1>1, <3>1, MaxIs
    <3>3. b + x - 1 \in B
      <4>1. CASE line[1] = NL
        <5>1. b = 0 /\ P[1] = NL /\ 1 \in 1..(e - 1) BY <1>2, <1>5, <2>1, <4>1
        <5>2. b + x - 1 = 1 BY <4>1, <5>1
        <5> QED BY <5>1, <5>2
      <4>2. CASE line[1] # NL
        <5>1. b + x - 1 = b /\ (b = 0 \/ P[b] = NL) BY <4>2 DEF Lined
        <5>2. b = 0 \/ b \in 1..(e - 1) BY <1>2, <2>1
        <5> QED BY <5>1, <5>2
      <4> QED BY <4>1, <4>2
    <3>4. ASSUME NEW y \in B PROVE y <= b + x - 1
      <4>1. CASE y <= b BY <4>1, <3>1
      <4>2. CASE y > b
        <5> DEFINE i == y - b
        <5>1. y \in 1..(e - 1) /\ P[y] = NL BY <4>2
        <5>2. i \in 1..n /\ y = b + i BY <1>2, <4>2, <5>1
        <5>3. line[i] = NL BY <1>5, <5>1, <5>2
        <5>4. i = 1 BY <1>5, <5>2, <5>3
        <5> QED BY <5>2, <5>3, <5>4
      <4> QED BY <3>1, <4>1, <4>2
    <3> DEFINE M == Max(B)
    <3>5. M \in B /\ M >= b + x - 1 /\ M <= b + x - 1 BY <3>2, <3>3, <3>4
    <3>6. M \in Nat /\ b + x - 1 \in Nat BY <3>1, <3>3, <3>5
    <3> HIDE DEF M, x
    <3> QED BY <3>5, <3>6 DEF M
  <2>4. Begin(P, e) = b + x BY <2>3 DEF Begin
  <2>5. LineTo(P, e) = SubSeq(P, b + x, b + n)
    <3>1. e - 1 = b + n BY <1>2
    <3> QED BY <2>4, <3>1 DEF LineTo
  <2>6. x \in 1..2 /\ x <= n BY <1>2, <1>10, <2>1
  <2>7. SubSeq(line, x, n) = SubSeq(P, b + x, b + n)
    <3> HIDE DEF x
    <3>1. SubSeq(line, x, n) = [i \in 1..(n - x + 1) |-> line[x + i - 1]]
      BY <1>2, <1>4, <2>6
    <3>2. SubSeq(P, b + x, b + n) = [i \in 1..((b + n) - (b + x) + 1) |-> P[(b + x) + i - 1]]
      BY <1>1, <1>2, <2>6
    <3>3. (b + n) - (b + x) + 1 = n - x + 1 BY <1>2, <2>6
    <3>4. ASSUME NEW i \in 1..(n - x + 1) PROVE line[x + i - 1] = P[(b + x) + i - 1]
      <4>1. x + i - 1 \in 1..n /\ (b + x) + i - 1 = b + (x + i - 1) BY <1>2, <2>6
      <4> QED BY <1>5, <4>1
    <3> QED BY <3>1, <3>2, <3>3, <3>4
  <2> QED BY <2>2, <2>5, <2>7
<1> QED BY <1>2, <1>3, <1>4, <1>7, <1>8, <1>9, <1>10 DEF line, e

\* No line ends before the first letter.
LEMMA EndedNone ==
  ASSUME NEW P \in Seq(Letter)
  PROVE  Ended(P, 0) = 0
<1>1. {e \in Ends(P) : e <= 0} = {} BY DEF Ends
<1> QED BY <1>1, FS_EmptySet DEF Ended

\* A line has been processed: it has become a message unless it was empty.
LEMMA LineProcessed ==
  ASSUME NEW P \in Seq(Letter), NEW b \in Nat, NEW part \in Seq(Letter),
         NEW piece \in Seq(Letter), NEW rest \in Seq(Letter),
         NEW msgs \in Seq(Seq(Letter)),
         Laid(P, b, part, piece, rest), Lined(P, b, part, msgs),
         NEW m \in 1..Len(piece), piece[m] = NL, \A i \in 1..(m - 1) : piece[i] # NL,
         NEW whole \in Seq(Letter), whole = Trimmed(part \o SubSeq(piece, 1, m - 1)),
         NEW processed,
         processed = IF whole = <<>> THEN msgs ELSE Append(msgs, whole)
  PROVE  Lined(P, b + Len(part) + m, <<>>, processed)
<1> DEFINE e == b + Len(part) + m
<1>1. /\ e \in 1..Len(P) /\ P[e] = NL
      /\ e \in Ends(P) <=> whole # <<>>
      /\ e \in Ends(P) => whole = LineTo(P, e)
      /\ \A d \in Ends(P) : d <= e => d <= b \/ d = e
  BY LineIs
<1>2. Len(part) \in Nat /\ m \in Nat /\ m > 0 OBVIOUS
<1>3. e \in Nat /\ b < e BY <1>2
<1> HIDE DEF e
<1>4. Ended(P, e) = IF e \in Ends(P) THEN Ended(P, b) + 1 ELSE Ended(P, b)
  BY <1>1, <1>3, EndedNext
<1>5. Len(msgs) = Ended(P, b)
      /\ \A k \in 1..Len(msgs) : \E d \in Ends(P) : Ended(P, d) = k
         /\ msgs[k] = LineTo(P, d)
  BY ONLY Lined(P, b, part, msgs) DEF Lined
<1>6. Len(processed) = Ended(P, e) BY <1>1, <1>4, <1>5
<1>7. ASSUME NEW k \in 1..Len(processed)
      PROVE  \E d \in Ends(P) : Ended(P, d) = k /\ processed[k] = LineTo(P, d)
  <2>1. CASE whole = <<>> BY <1>5, <2>1
  <2>2. CASE whole # <<>>
    <3>1. processed = Append(msgs, whole) BY <2>2
    <3>2. CASE k \in 1..Len(msgs)
      <4>1. processed[k] = msgs[k] BY <3>1, <3>2
      <4> QED BY <1>5, <3>2, <4>1
    <3>3. CASE k = Len(msgs) + 1
      <4>1. processed[k] = whole BY <3>1, <3>3
      <4> QED BY <1>1, <1>4, <1>5, <2>2, <3>3, <4>1
    <3> QED BY <3>1, <3>2, <3>3
  <2> QED BY <2>1, <2>2
<1>8. \A i \in 1..Len(<<>>) : <<>>[i] = NL => e = 0 /\ i = 1 OBVIOUS
<1>9. Lined(P, e, <<>>, processed) BY <1>1, <1>6, <1>7, <1>8 DEF Lined
<1> QED BY <1>9 DEF e

\* However the pieces are moved, they make up the same stream.
LEMMA LaidOn ==
  ASSUME NEW P \in Seq(Letter), NEW b \in Nat, NEW part \in Seq(Letter),
         NEW piece \in Seq(Letter),
         NEW rest \in Seq(Letter), Laid(P, b, part, piece, rest)
  PROVE  /\ \A m \in 1..Len(piece) :
              Laid(P, b + Len(part) + m, <<>>, SubSeq(piece, m + 1, Len(piece)), rest)
         /\ Laid(P, b, part \o piece, <<>>, rest)
         /\ piece = <<>> => \A n \in 1..Len(rest) :
              Laid(P, b, part, SubSeq(rest, 1, n), SubSeq(rest, n + 1, Len(rest)))
<1>1. /\ Len(P) \in Nat /\ Len(part) \in Nat /\ Len(piece) \in Nat /\ Len(rest) \in Nat
      /\ Len(P) = b + Len(part) + Len(piece) + Len(rest)
      /\ \A i \in 1..Len(part) : part[i] = P[b + i]
      /\ \A i \in 1..Len(piece) : piece[i] = P[b + Len(part) + i]
      /\ \A i \in 1..Len(rest) : rest[i] = P[b + Len(part) + Len(piece) + i]
  BY DEF Laid
<1>2. ASSUME NEW m \in 1..Len(piece)
      PROVE  Laid(P, b + Len(part) + m, <<>>, SubSeq(piece, m + 1, Len(piece)), rest)
  <2> DEFINE s == SubSeq(piece, m + 1, Len(piece))
             c == b + Len(part) + m
  <2>1. Len(s) = Len(piece) - m /\ \A i \in 1..Len(s) : s[i] = piece[m + i]
    <3>1. m + 1 \in 1..(Len(piece) + 1) /\ Len(piece) \in 0..Len(piece) BY <1>1
    <3>2. s = [i \in 1..(Len(piece) - (m + 1) + 1) |-> piece[(m + 1) + i - 1]]
      BY <1>1, <3>1
    <3>3. Len(piece) - (m + 1) + 1 = Len(piece) - m /\ Len(piece) - m \in Nat BY <1>1
    <3> HIDE DEF s
    <3>4. Len(s) = Len(piece) - m BY <3>2, <3>3
    <3>5. ASSUME NEW i \in 1..Len(s) PROVE s[i] = piece[m + i]
      <4>1. (m + 1) + i - 1 = m + i BY <3>3, <3>4
      <4> QED BY <3>2, <3>3, <3>4, <4>1
    <3> QED BY <3>4, <3>5
  <2> HIDE DEF s
  <2>2. Len(P) = c + Len(<<>>) + Len(s) + Len(rest) BY <1>1, <2>1
  <2>3. ASSUME NEW i \in 1..Len(s) PROVE s[i] = P[c + Len(<<>>) + i]
    <3>1. m + i \in 1..Len(piece) /\ c + Len(<<>>) + i = b + Len(part) + (m + i)
      BY <1>1, <2>1
    <3> QED BY <1>1, <2>1, <3>1
  <2>4. ASSUME NEW i \in 1..Len(rest) PROVE rest[i] = P[c + Len(<<>>) + Len(s) + i]
    <3>1. c + Len(<<>>) + Len(s) + i = b + Len(part) + Len(piece) + i BY <1>1, <2>1
    <3> QED BY <1>1, <3>1
  <2>5. \A i \in 1..Len(<<>>) : <<>>[i] = P[c + i] OBVIOUS
  <2> HIDE DEF c
  <2>6. Laid(P, c, <<>>, s, rest) BY <2>2, <2>3, <2>4, <2>5 DEF Laid
  <2> QED BY <2>6 DEF s, c
<1>3. Laid(P, b, part \o piece, <<>>, rest)
  <2> DEFINE s == part \o piece
  <2>1. Len(s) = Len(part) + Len(piece)
        /\ \A i \in 1..Len(s) : s[i] = IF i <= Len(part) THEN part[i] ELSE piece[i - Len(part)]
    BY <1>1
  <2> HIDE DEF s
  <2>2. ASSUME NEW i \in 1..Len(s) PROVE s[i] = P[b + i]
    <3>1. CASE i <= Len(part)
      <4>1. i \in 1..Len(part) BY <3>1
      <4> QED BY <1>1, <2>1, <3>1, <4>1
    <3>2. CASE ~(i <= Len(part))
      <4>1. i - Len(part) \in 1..Len(piece) /\ b + Len(part) + (i - Len(part)) = b + i
        BY <1>1, <2>1, <3>2
      <4> QED BY <1>1, <2>1, <3>2, <4>1
    <3> QED BY <3>1, <3>2
  <2>3. Len(P) = b + Len(s) + Len(<<>>) + Len(rest) BY <1>1, <2>1
  <2>4. ASSUME NEW i \in 1..Len(rest) PROVE rest[i] = P[b + Len(s) + Len(<<>>) + i]
    <3>1. b + Len(s) + Len(<<>>) + i = b + Len(part) + Len(piece) + i BY <1>1, <2>1
    <3> QED BY <1>1, <3>1
  <2>5. \A i \in 1..Len(<<>>) : <<>>[i] = P[b + Len(s) + i] OBVIOUS
  <2> QED BY <2>2, <2>3, <2>4, <2>5 DEF Laid, s
<1>4. ASSUME piece = <<>>, NEW n \in 1..Len(rest)
      PROVE  Laid(P, b, part, SubSeq(rest, 1, n), SubSeq(rest, n + 1, Len(rest)))
  <2> DEFINE s == SubSeq(rest, 1, n)
             t == SubSeq(rest, n + 1, Len(rest))
  <2>1. Len(s) = n /\ \A i \in 1..n : s[i] = rest[i] BY <1>1
  <2>2. Len(t) = Len(rest) - n /\ \A i \in 1..Len(t) : t[i] = rest[n + i]
    <3>1. n + 1 \in 1..(Len(rest) + 1) BY <1>1
    <3>2. t = [i \in 1..(Len(rest) - (n + 1) + 1) |-> rest[(n + 1) + i - 1]]
      BY <1>1, <3>1
    <3>3. Len(rest) - (n + 1) + 1 = Len(rest) - n /\ Len(rest) - n \in Nat BY <1>1
    <3> HIDE DEF t, s
    <3>4. Len(t) = Len(rest) - n BY <3>2, <3>3
    <3>5. ASSUME NEW i \in 1..Len(t) PROVE t[i] = rest[n + i]
      <4>1. (n + 1) + i - 1 = n + i BY <3>3, <3>4
      <4> QED BY <3>2, <3>3, <3>4, <4>1
    <3> QED BY <3>4, <3>5
  <2> HIDE DEF s, t
  <2>3. Len(piece) = 0 /\ Len(P) = b + Len(part) + Len(s) + Len(t)
    BY <1>1, <1>4, <2>1, <2>2
  <2>4. ASSUME NEW i \in 1..Len(s) PROVE s[i] = P[b + Len(part) + i]
    <3>1. i \in 1..n /\ i \in 1..Len(rest) BY <1>1, <2>1
    <3>2. b + Len(part) + Len(piece) + i = b + Len(part) + i BY <1>1, <2>3, <3>1
    <3>3. s[i] = rest[i] /\ rest[i] = P[b + Len(part) + Len(piece) + i]
      BY <1>1, <2>1, <3>1
    <3> QED BY <3>2, <3>3
  <2>5. ASSUME NEW i \in 1..Len(t) PROVE t[i] = P[b + Len(part) + Len(s) + i]
    <3>1. n + i \in 1..Len(rest) BY <1>1, <2>2
    <3>2. b + Len(part) + Len(piece) + (n + i) = b + Len(part) + Len(s) + i
      BY <1>1, <2>1, <2>3
    <3> QED BY <1>1, <2>2, <3>1, <3>2
  <2> QED BY <1>1, <2>3, <2>4, <2>5 DEF Laid, s, t
<1> QED BY <1>2, <1>3, <1>4

-----------------------------------------------------------------------------
(* Every step keeps the invariant. *)

\* What follows STARTTLS is a sequence.
LEMMA PlainIs ==
  ASSUME ReaderTypes
  PROVE  Plain \in Seq(Letter)
<1> SUFFICES SubSeq(sent, 4, Len(sent)) \in Seq(Letter) BY DEF ReaderTypes, Plain
<1>1. sent \in Seq(Letter) /\ Len(sent) \in Nat BY DEF ReaderTypes
<1>2. CASE Len(sent) >= 3 BY <1>1, <1>2, SubSeqProperties
<1>3. CASE Len(sent) < 3 BY <1>1, <1>3
<1> QED BY <1>1, <1>2, <1>3

\* The letters of STARTTLS.
LEMMA StartTLSIs ==
  /\ starttls \in Seq({"S", "T", NL}) /\ Len(starttls) = 3
  /\ starttls[1] = "S" /\ starttls[2] = "T" /\ starttls[3] = NL
  /\ NL # "S" /\ NL # "T"
<1>1. NL # "S" /\ NL # "T" BY DEF NL
<1>2. Len(starttls) = 3 /\ starttls[1] = "S" /\ starttls[2] = "T" /\ starttls[3] = NL
  BY DEF starttls
<1>3. starttls \in Seq({"S", "T", NL}) BY DEF starttls
<1> QED BY <1>1, <1>2, <1>3

\* The streams that lose a newline.
LEMMA TornIs ==
  ASSUME sent \in Seq(Letter), Len(sent) >= 2, sent[1] = "S", sent[2] = NL
  PROVE  Torn
<1> DEFINE s == Append(SubSeq(starttls, 1, 1), NL)
<1>1. Len(s) = 2 /\ s[1] = "S" /\ s[2] = NL /\ s \in Seq({"S", "T", NL})
      /\ Len(starttls) = 3
  <2>1. starttls \in Seq({"S", "T", NL}) /\ Len(starttls) = 3 /\ starttls[1] = "S"
    BY StartTLSIs
  <2>2. SubSeq(starttls, 1, 1) \in Seq({"S", "T", NL}) /\ Len(SubSeq(starttls, 1, 1)) = 1
        /\ SubSeq(starttls, 1, 1)[1] = "S"
    <3> HIDE DEF starttls
    <3> QED BY <2>1
  <2> QED BY <2>1, <2>2
<1> HIDE DEF s
<1>2. SubSeq(s, 1, Len(s)) = SubSeq(sent, 1, Len(s))
  <2>1. SubSeq(s, 1, 2) = [i \in 1..2 |-> s[i]] BY <1>1
  <2>2. SubSeq(sent, 1, 2) = [i \in 1..2 |-> sent[i]] OBVIOUS
  <2>3. \A i \in 1..2 : i = 1 \/ i = 2 OBVIOUS
  <2>4. \A i \in 1..2 : s[i] = sent[i] BY <1>1, <2>3
  <2> QED BY <1>1, <2>1, <2>2, <2>4
<1>3. IsPrefix(s, sent) BY <1>1, <1>2 DEF IsPrefix
<1>4. 1 \in 1..(Len(starttls) - 2) BY <1>1
<1> QED BY <1>3, <1>4 DEF Torn, s

\* Bytes read come out of what remains, and so do the bytes of a reply that fits.
LEMMA BytesRead ==
  ASSUME NEW c \in Int, NEW r \in Int, NEW b \in Int, NEW n \in Int, NEW limit \in Int,
         c + r + b <= limit, n <= b
  PROVE  0 <= b - n /\ (c + n) + r + (b - n) <= limit /\ (c + n) + r <= limit
OBVIOUS

LEMMA BytesReplied ==
  ASSUME NEW c \in Int, NEW r \in Int, NEW b \in Int, NEW r2 \in Int, NEW b2 \in Int,
         NEW limit \in Int, c + r + b <= limit, c + r <= limit, b2 <= b,
         r2 = r \/ (r2 + b2 = r + b /\ b2 >= 0)
  PROVE  c + r2 <= limit /\ c + r2 + b2 <= limit
OBVIOUS

\* What is counted of the replies.
LEMMA ChargedIs ==
  ASSUME ReaderTypes
  PROVE  /\ Charged \in Int /\ (replied = 0 /\ replies = 0 => Charged = 0)
         /\ LineEnd * replies \in Int /\ replied = Charged + LineEnd * replies
BY DEF ReaderTypes, Charged, LineEnd

LEMMA ChargedStarts == replied' = 0 /\ replies' = 0 => Charged' = 0
BY DEF Charged, LineEnd

LEMMA ChargedKept ==
  replied' = replied /\ replies' = replies => Charged' = Charged
BY DEF Charged

\* What was counted and the line ends are what was written.
LEMMA BytesWritten ==
  ASSUME NEW c \in Int, NEW n \in Int, NEW r \in Int, NEW e \in Int, NEW limit \in Int,
         c + n <= limit, r = n + e
  PROVE  c + r <= limit + e
OBVIOUS

\* A limit is positive, given or not.
LEMMA OrIs ==
  \A limit \in Int :
    Or(limit) \in Int /\ Or(limit) > 0 /\ (limit > 0 => Or(limit) = limit)
BY DEF Or, NoLimit

\* The letters read before the limits are known.
LEMMA EarlyIs == Early = IF tls THEN 0 ELSE 3
BY DEF Early, starttls

\* A letter is read where STARTTLS is expected.
LEMMA ReadStartTLSKeeps ==
  ASSUME ReaderInv, ReadStartTLS
  PROVE  ReaderInv'
<1> DEFINE letter == Head(stream)
           n == Len(buf)
<1>1. /\ sent \in Seq(Letter) /\ stream \in Seq(Letter) /\ buf \in Seq(Letter)
         /\ n \in 0..2
      /\ ~tls /\ chunk = <<>> /\ messages = <<>> /\ pc = "starttls"
         /\ replied = 0 /\ replies = 0
      /\ Len(sent) = n + Len(stream) /\ Len(stream) \in Nat /\ Len(stream) > 0
      /\ \A i \in 1..n : buf[i] = sent[i]
      /\ \A i \in 1..Len(stream) : stream[i] = sent[n + i]
  <2>1. /\ sent \in Seq(Letter) /\ stream \in Seq(Letter) /\ buf \in Seq(Letter)
        /\ pc = "starttls" /\ stream # <<>> /\ chunk = <<>> /\ messages = <<>>
           /\ replied = 0 /\ replies = 0
        /\ ~tls /\ n <= 2 /\ Laid(sent, 0, buf, <<>>, stream)
    BY DEF ReaderInv, ReaderTypes, ReadStartTLS, Expecting, Unanswered, Chunks
  <2>2. Len(sent) = 0 + n + 0 + Len(stream)
        /\ (\A i \in 1..n : buf[i] = sent[0 + i])
        /\ \A i \in 1..Len(stream) : stream[i] = sent[0 + n + 0 + i]
    BY <2>1 DEF Laid
  <2>3. n \in Nat /\ n \in 0..2 /\ Len(stream) \in Nat /\ Len(stream) > 0
    <3>1. n \in Nat /\ Len(stream) \in Nat /\ Len(stream) # 0 BY <2>1
    <3>2. n <= 2 BY <2>1
    <3> HIDE DEF n
    <3> QED BY <3>1, <3>2
  <2>4. /\ Len(sent) = n + Len(stream)
        /\ \A i \in 1..n : 0 + i = i
        /\ \A i \in 1..Len(stream) : 0 + n + 0 + i = n + i
    BY <2>2, <2>3
  <2> HIDE DEF n
  <2> QED BY <2>1, <2>2, <2>3, <2>4
<1>2. starttls \in Seq({"S", "T", NL}) /\ Len(starttls) = 3 /\ starttls[1] = "S"
      /\ starttls[2] = "T"
      /\ starttls[3] = NL /\ NL # "S" /\ NL # "T"
  BY StartTLSIs
<1>3. \A i \in 1..n : buf[i] = starttls[i] /\ buf[i] # NL
  <2>1. buf = SubSeq(starttls, 1, n) BY <1>1 DEF ReaderInv, Expecting
  <2>2. \A i \in 1..n : SubSeq(starttls, 1, n)[i] = starttls[i] BY <1>1, <1>2
  <2>3. \A i \in 1..n : i = 1 \/ i = 2 BY <1>1
  <2> QED BY <1>2, <2>1, <2>2, <2>3
<1>4. letter = sent[n + 1] /\ letter \in Letter BY <1>1
<1>5. /\ stream' = Tail(stream) /\ stream' \in Seq(Letter)
         /\ Len(stream') = Len(stream) - 1
      /\ \A i \in 1..Len(stream') : stream'[i] = sent[n + 1 + i]
  <2>1. stream' = Tail(stream) BY DEF ReadStartTLS
  <2>2. stream' \in Seq(Letter) /\ Len(stream') = Len(stream) - 1
        /\ \A i \in 1..Len(stream') : stream'[i] = stream[i + 1]
    BY <1>1, <2>1
  <2>3. \A i \in 1..Len(stream') : stream'[i] = sent[n + 1 + i]
    <3> TAKE i \in 1..Len(stream')
    <3>1. i + 1 \in 1..Len(stream) /\ n + (i + 1) = n + 1 + i BY <1>1, <2>2
    <3> QED BY <1>1, <2>2, <3>1
  <2> QED BY <2>1, <2>2, <2>3
<1>6. UNCHANGED <<sent, limits, chunk, room, bytesRemaining, messageBytesRemaining,
      messages, replied, replies>>
  BY DEF ReadStartTLS
<1>7. Or(limits.total) \in Int /\ Or(limits.total) > 0 BY OrIs DEF ReaderInv, ReaderTypes
<1> DEFINE match == letter = starttls[n + 1]
           whole == match /\ letter = NL
<1>8. CASE whole
  <2>1. tls' = TRUE /\ buf' = <<>> /\ pc' = "context" BY <1>8 DEF ReadStartTLS
  <2>2. n = 2
    <3>1. n = 0 \/ n = 1 \/ n = 2 BY <1>1
    <3>2. starttls[n + 1] = NL BY <1>8
    <3> HIDE DEF n
    <3>3. n = 0 => starttls[n + 1] = starttls[1] OBVIOUS
    <3>4. n = 1 => starttls[n + 1] = starttls[2] OBVIOUS
    <3> QED BY <1>2, <3>1, <3>2, <3>3, <3>4
  <2>3. Plain' = SubSeq(sent, 4, Len(sent)) BY <1>6, <2>1 DEF Plain
  <2> DEFINE P == SubSeq(sent, 4, Len(sent))
  <2>4. P \in Seq(Letter) /\ Len(P) = Len(stream')
        /\ \A i \in 1..Len(P) : P[i] = sent[3 + i]
    <3>1. 4 \in 1..(Len(sent) + 1) /\ Len(sent) >= 3 BY <1>1, <2>2
    <3>2. P \in Seq(Letter) /\ P = [i \in 1..(Len(sent) - 4 + 1) |-> sent[4 + i - 1]]
      BY <1>1, <3>1, SubSeqProperties
    <3>3. Len(sent) - 4 + 1 = Len(stream') /\ Len(stream') \in Nat BY <1>1, <1>5, <2>2
    <3> HIDE DEF P
    <3>4. Len(P) = Len(stream') BY <3>2, <3>3
    <3>5. ASSUME NEW i \in 1..Len(P) PROVE P[i] = sent[3 + i]
      <4>1. 4 + i - 1 = 3 + i BY <3>4, <3>3
      <4> QED BY <3>2, <3>3, <3>4, <4>1
    <3> QED BY <3>2, <3>4, <3>5
  <2> HIDE DEF P
  <2>5. Laid(P, 0, <<>>, <<>>, stream')
    <3>1. \A i \in 1..Len(stream') : stream'[i] = P[0 + Len(<<>>) + Len(<<>>) + i]
      <4> TAKE i \in 1..Len(stream')
      <4>1. stream'[i] = sent[n + 1 + i] /\ n + 1 + i = 3 + i
        <5>1. stream'[i] = sent[n + 1 + i] BY <1>5
        <5>2. n + 1 = 3 BY <2>2
        <5> QED BY <5>1, <5>2
      <4>2. 0 + Len(<<>>) + Len(<<>>) + i = i BY <1>5
      <4> QED BY <2>4, <4>1, <4>2
    <3>2. Len(P) = 0 + Len(<<>>) + Len(<<>>) + Len(stream') BY <2>4, <1>5
    <3> QED BY <3>1, <3>2 DEF Laid
  <2>6. Lined(P, 0, <<>>, <<>>) BY <2>4, EndedNone DEF Lined
  <2>7. ReaderTypes' BY <1>1, <1>5, <1>6, <2>1 DEF ReaderInv, ReaderTypes
  <2>8. (Expecting /\ Unanswered /\ Chunks)'
    BY <1>1, <1>6, <2>1 DEF Expecting, Unanswered, Chunks
  <2>9. Whole'
    <3>1. Plain' = P /\ buf' = <<>> /\ chunk' = <<>> /\ messages' = <<>>
      BY <1>1, <1>6, <2>1, <2>3 DEF P
    <3> QED BY <2>5, <2>6, <3>1 DEF Whole
  <2>10. Spent'
    <3>1. Consumed' = 0 /\ Early' = 0
      <4>1. Consumed' = Len(P) - Len(stream') BY <2>3 DEF Consumed, P
      <4>2. Early' = 0 BY <2>1 DEF Early
      <4> QED BY <1>1, <1>5, <2>4, <4>1, <4>2
    <3>2. limits' = limits /\ Charged' = 0 /\ messages' = <<>> /\ Len(buf') = 0
          /\ pc' = "context"
      BY <1>1, <1>6, <2>1, ChargedStarts
    <3> QED BY <1>7, <3>1, <3>2 DEF Spent
  <2> QED BY <2>7, <2>8, <2>9, <2>10 DEF ReaderInv
<1>9. CASE ~whole
  <2>1. /\ tls' = FALSE /\ buf' = Append(buf, letter)
        /\ pc' = IF ~match THEN IF limits.TLSRequired THEN "ended" ELSE "context" ELSE "starttls"
    BY <1>9 DEF ReadStartTLS
  <2>2. Plain' = sent /\ sent' = sent /\ chunk' = <<>> /\ messages' = <<>>
        /\ replied' = 0 /\ replies' = 0 /\ Charged' = 0 /\ Early' = 3 /\ limits' = limits /\ (Torn' <=> Torn)
    BY <1>1, <1>6, <2>1, <1>2, ChargedStarts DEF Plain, Early, Torn
  <2>3. buf' \in Seq(Letter) /\ Len(buf') = n + 1
        /\ \A i \in 1..(n + 1) : buf'[i] = sent[i]
    <3>1. buf' \in Seq(Letter) /\ Len(buf') = n + 1 /\ buf'[n + 1] = letter
          /\ \A i \in 1..n : buf'[i] = buf[i]
      BY <1>1, <1>4, <2>1
    <3>2. \A i \in 1..(n + 1) : i \in 1..n \/ i = n + 1 BY <1>1
    <3> QED BY <1>1, <1>4, <3>1, <3>2
  <2>4. Laid(sent, 0, buf', <<>>, stream')
    <3>1. Len(sent) = 0 + Len(buf') + Len(<<>>) + Len(stream') BY <1>1, <1>5, <2>3
    <3>2. \A i \in 1..Len(buf') : buf'[i] = sent[0 + i] BY <1>1, <2>3
    <3>3. \A i \in 1..Len(stream') : stream'[i] = sent[0 + Len(buf') + Len(<<>>) + i]
      <4> TAKE i \in 1..Len(stream')
      <4>1. 0 + Len(buf') + Len(<<>>) + i = n + 1 + i BY <1>1, <1>5, <2>3
      <4>2. stream'[i] = sent[n + 1 + i] BY <1>5
      <4> QED BY <4>1, <4>2
    <3> QED BY <3>1, <3>2, <3>3 DEF Laid
  <2>5. ASSUME match PROVE Len(buf') <= 2 /\ buf' = SubSeq(starttls, 1, Len(buf'))
    <3>1. n + 1 <= 2
      <4>1. ASSUME n = 2 PROVE FALSE
        <5>1. n + 1 = 3 BY <4>1
        <5>2. starttls[n + 1] = NL BY <1>2, <5>1
        <5> QED BY <1>9, <2>5, <5>2
      <4>2. n = 0 \/ n = 1 \/ n = 2 BY <1>1
      <4> HIDE DEF n
      <4> QED BY <4>1, <4>2
    <3>2. \A i \in 1..(n + 1) : buf'[i] = starttls[i]
      <4> TAKE i \in 1..(n + 1)
      <4>1. i \in 1..n \/ i = n + 1 BY <1>1
      <4> QED BY <1>1, <1>3, <1>4, <2>3, <2>5, <4>1
    <3>3. SubSeq(starttls, 1, n + 1) = [i \in 1..(n + 1) |-> starttls[i]]
      BY <1>1, <1>2, <3>1
    <3>4. buf' = [i \in 1..(n + 1) |-> buf'[i]] BY <1>1, <2>3
    <3> QED BY <2>3, <3>1, <3>2, <3>3, <3>4
  <2>6. ASSUME ~match, ~Torn PROVE Lined(sent, 0, buf', <<>>)
    <3>1. ASSUME NEW i \in 1..Len(buf'), buf'[i] = NL PROVE i = 1
      <4>1. i = n + 1 /\ letter = NL /\ n # 2
        <5>1. i \in 1..n \/ i = n + 1 BY <1>1, <2>3
        <5>2. i \notin 1..n BY <1>1, <1>3, <2>3, <3>1
        <5>3. buf'[n + 1] = letter
          <6>1. n \in Nat BY <1>1
          <6> HIDE DEF n, letter
          <6>2. n + 1 \in 1..(n + 1) BY <6>1
          <6> QED BY <1>4, <2>3, <6>2
        <5>4. i = n + 1 /\ letter = NL BY <3>1, <5>1, <5>2, <5>3
        <5>5. ASSUME n = 2 PROVE FALSE
          <6>1. starttls[n + 1] = NL BY <1>2, <5>5
          <6> QED BY <2>6, <5>4, <6>1
        <5> QED BY <5>4, <5>5
      <4>2. n # 1
        <5> SUFFICES ASSUME n = 1 PROVE FALSE OBVIOUS
        <5>1. buf[1] = "S" /\ sent[1] = buf[1] /\ sent[2] = NL /\ Len(sent) >= 2
          BY <1>1, <1>2, <1>3, <1>4, <4>1
        <5> QED BY <1>1, <2>6, <5>1, TornIs
      <4> QED BY <1>1, <4>1, <4>2
    <3>2. Ended(sent, 0) = 0 BY <1>1, EndedNone
    <3> QED BY <3>1, <3>2 DEF Lined
  <2>7. ReaderTypes' BY <1>1, <1>5, <1>6, <2>1, <2>3 DEF ReaderInv, ReaderTypes
  <2>8. pc' = "starttls" <=> match BY <2>1
  <2>9. Expecting' BY <2>1, <2>2, <2>4, <2>5, <2>8 DEF Expecting
  <2>10. (Unanswered /\ Chunks)' BY <2>1, <2>2 DEF Unanswered, Chunks
  <2>11. Whole' BY <2>2, <2>4, <2>6, <2>8 DEF Whole
  <2>12. Spent'
    <3>1. Consumed' = Len(buf') /\ Len(buf') <= 3 /\ Len(buf') \in Nat
      <4>1. Consumed' = Len(sent) - Len(stream') BY <2>2 DEF Consumed
      <4>2. n \in Nat /\ n <= 2 /\ Len(sent) = n + Len(stream) /\ Len(stream) \in Nat
            /\ Len(stream') = Len(stream) - 1 /\ Len(buf') = n + 1
        <5> HIDE DEF n, letter
        <5>1. n \in Nat /\ n <= 2 BY <1>1
        <5> QED BY <1>1, <1>5, <2>3, <5>1
      <4> HIDE DEF n
      <4> QED BY <4>1, <4>2
    <3>2. pc' \notin {"read", "split", "eof"} BY <2>1
    <3> QED BY <1>7, <2>2, <3>1, <3>2 DEF Spent
  <2> QED BY <2>7, <2>9, <2>10, <2>11, <2>12 DEF ReaderInv
<1> QED BY <1>8, <1>9

\* What a step leaves alone.
LEMMA PlainKept ==
  ASSUME UNCHANGED <<sent, tls>>
  PROVE  Plain' = Plain /\ (Torn' <=> Torn) /\ Early' = Early
BY DEF Plain, Torn, Early

\* Nothing more comes where STARTTLS is expected.
LEMMA NoStartTLSKeeps ==
  ASSUME ReaderInv, NoStartTLS
  PROVE  ReaderInv'
<1>1. pc = "starttls" /\ stream = <<>> /\ pc' = "ended" /\ chunk = <<>> /\ messages = <<>>
      /\ replied = 0 /\ replies = 0 /\ ~tls /\ Len(buf) <= 2 /\ buf = SubSeq(starttls, 1, Len(buf))
      /\ Laid(sent, 0, buf, chunk, stream)
  BY DEF ReaderInv, Expecting, Unanswered, Chunks, NoStartTLS
<1>2. UNCHANGED <<sent, stream, limits, tls, buf, chunk, room, bytesRemaining,
                  messageBytesRemaining, messages, replied, replies>>
  BY DEF NoStartTLS
<1>3. Plain' = sent /\ Early' = 3 /\ Early = 3 /\ Plain = sent
  BY <1>1, <1>2, StartTLSIs DEF Plain, Early
<1>4. sent \in Seq(Letter) /\ buf \in Seq(Letter) /\ stream \in Seq(Letter)
  BY DEF ReaderInv, ReaderTypes
<1>5. \A i \in 1..Len(buf) : buf[i] # NL
  <2> DEFINE n == Len(buf)
  <2>1. n \in Nat /\ n <= 2 BY <1>1, <1>4
  <2>2. buf = SubSeq(starttls, 1, n) BY <1>1
  <2> HIDE DEF n
  <2>3. \A i \in 1..n : SubSeq(starttls, 1, n)[i] = starttls[i] BY <2>1, StartTLSIs
  <2>4. \A i \in 1..n : i = 1 \/ i = 2 BY <2>1
  <2>5. \A i \in 1..n : buf[i] # NL BY <2>2, <2>3, <2>4, StartTLSIs
  <2> QED BY <2>5 DEF n
<1>6. Lined(sent, 0, buf, <<>>) BY <1>4, <1>5, EndedNone DEF Lined
<1>7. ReaderTypes' BY <1>1, <1>2 DEF ReaderInv, ReaderTypes
<1>8. (Expecting /\ Unanswered /\ Chunks)' BY <1>1 DEF Expecting, Unanswered, Chunks
<1>9. Whole' BY <1>1, <1>2, <1>3, <1>6 DEF Whole
<1>10. Spent'
  <2>1. Len(sent) = 0 + Len(buf) + 0 + 0 BY <1>1 DEF Laid
  <2>2. Consumed' = Len(buf)
    <3>1. Consumed' = Len(sent) - 0 BY <1>1, <1>2, <1>3 DEF Consumed
    <3> QED BY <1>4, <2>1, <3>1
  <2>3. Or(limits.total) \in Int /\ Or(limits.total) > 0
    BY OrIs DEF ReaderInv, ReaderTypes
  <2>4. Len(buf) \in Nat BY <1>4
  <2>5. Charged' = 0 BY <1>1, <1>2, ChargedStarts
  <2> QED BY <1>1, <1>2, <1>3, <2>2, <2>3, <2>4, <2>5 DEF Spent
<1> QED BY <1>7, <1>8, <1>9, <1>10 DEF ReaderInv

\* The limits are set.
LEMMA SetLimitsKeeps ==
  ASSUME ReaderInv, SetLimits
  PROVE  ReaderInv'
<1>1. /\ pc = "context" /\ pc' = "read"
      /\ bytesRemaining' = Or(limits.total) /\ messageBytesRemaining' = Or(limits.message)
      /\ UNCHANGED <<sent, stream, limits, tls, buf, chunk, room, messages, replied, replies>>
  BY DEF SetLimits
<1>2. /\ Or(limits.total) \in Int /\ Or(limits.total) > 0
      /\ Or(limits.message) \in Int /\ Or(limits.message) > 0
  BY OrIs DEF ReaderInv, ReaderTypes
<1>3. Plain' = Plain /\ (Torn' <=> Torn) /\ Early' = Early BY <1>1, PlainKept
<1>4. ReaderTypes' BY <1>1, <1>2 DEF ReaderInv, ReaderTypes
<1>5. (Expecting /\ Unanswered)' BY <1>1 DEF Expecting, Unanswered
<1>6. chunk = <<>> BY <1>1 DEF ReaderInv, Chunks
<1>7. Chunks' BY <1>1, <1>6 DEF Chunks
<1>8. Whole' BY <1>1, <1>3 DEF ReaderInv, Whole
<1>9. Spent'
  <2>1. /\ Consumed = Len(buf) /\ Len(buf) <= Early /\ Charged = 0
        /\ Consumed + Charged <= Or(limits.total) + Early
        /\ \A i \in DOMAIN messages : Len(messages[i]) < Or(limits.message) + Early
    BY <1>1, ChargedIs DEF ReaderInv, Spent, Unanswered
  <2>2. Len(buf) \in Nat /\ Early \in Nat BY EarlyIs DEF ReaderInv, ReaderTypes
  <2>3. Consumed' = Consumed /\ Charged' = Charged
    BY <1>1, <1>3, ChargedKept DEF Consumed
  <2>4. Len(chunk) = 0 BY <1>6
  <2> HIDE DEF Consumed
  <2> QED BY <1>1, <1>2, <1>3, <2>1, <2>2, <2>3, <2>4 DEF Spent
<1> QED BY <1>4, <1>5, <1>7, <1>8, <1>9 DEF ReaderInv

\* Some bytes are read.
LEMMA ReadSomeKeeps ==
  ASSUME ReaderInv, ReadSome
  PROVE  ReaderInv'
<1>1. PICK n \in 1..Least(Shrunk, Len(stream)) :
        /\ chunk' = SubSeq(stream, 1, n)
        /\ stream' = SubSeq(stream, n + 1, Len(stream))
        /\ bytesRemaining' = bytesRemaining - n
  BY DEF ReadSome
<1>2. /\ pc = "read" /\ pc' = "split" /\ Shrunk > 0 /\ room' = Shrunk
      /\ UNCHANGED <<sent, limits, tls, buf, messageBytesRemaining, messages, replied, replies>>
  BY DEF ReadSome
<1>3. /\ stream \in Seq(Letter) /\ buf \in Seq(Letter) /\ Plain \in Seq(Letter)
         /\ room \in Nat
      /\ bytesRemaining \in Int /\ messageBytesRemaining \in Int /\ Charged \in Int
  BY PlainIs, ChargedIs DEF ReaderInv, ReaderTypes
<1>4. /\ n \in Nat /\ n > 0 /\ n <= Len(stream) /\ Shrunk \in Int /\ Shrunk > 0
      /\ n <= bytesRemaining /\ n <= messageBytesRemaining
  BY <1>2, <1>3 DEF Least, Shrunk
<1>5. n \in 1..Len(stream) /\ Len(stream) \in Nat BY <1>3, <1>4
<1>6. /\ chunk' \in Seq(Letter) /\ stream' \in Seq(Letter) /\ Len(chunk') = n
      /\ Len(stream') = Len(stream) - n
  <2>1. n + 1 \in 1..(Len(stream) + 1) /\ Len(stream) \in 0..Len(stream)
        /\ 1 \in 1..(Len(stream) + 1)
        /\ n \in 0..Len(stream)
    BY <1>5
  <2>2. chunk' \in Seq(Letter) /\ Len(chunk') = IF 1 <= n THEN n - 1 + 1 ELSE 0
    BY <1>1, <1>3, <2>1, SubSeqProperties
  <2>3. stream' \in Seq(Letter)
        /\ Len(stream') = IF n + 1 <= Len(stream) THEN Len(stream) - (n + 1) + 1 ELSE 0
    BY <1>1, <1>3, <2>1, SubSeqProperties
  <2> QED BY <1>5, <2>2, <2>3
<1>7. Plain' = Plain /\ (Torn' <=> Torn) /\ Early' = Early BY <1>2, PlainKept
<1>8. chunk = <<>> BY <1>2 DEF ReaderInv, Chunks
<1>9. ReaderTypes' BY <1>1, <1>2, <1>3, <1>4, <1>6 DEF ReaderInv, ReaderTypes
<1>10. (Expecting /\ Unanswered /\ Chunks)' BY <1>2 DEF Expecting, Unanswered, Chunks
<1>11. Whole'
  <2>1. PICK b \in Nat : /\ Laid(Plain, b, buf, chunk, stream)
                         /\ ~Torn => Lined(Plain, b, buf, messages)
    BY <1>2 DEF ReaderInv, Whole
  <2>2. Laid(Plain, b, buf, chunk', stream')
    <3>1. Laid(Plain, b, buf, <<>>, stream) /\ <<>> \in Seq(Letter) BY <1>8, <2>1
    <3>2. \A m \in 1..Len(stream) :
            Laid(Plain, b, buf, SubSeq(stream, 1, m), SubSeq(stream, m + 1, Len(stream)))
      BY <1>3, <3>1, LaidOn
    <3> QED BY <1>1, <1>5, <3>2
  <2> QED BY <1>2, <1>7, <2>1, <2>2 DEF Whole
<1>12. Spent'
  <2>1. /\ 0 <= bytesRemaining
        /\ Consumed + Charged + bytesRemaining <= Or(limits.total) + Early
        /\ Len(buf) + messageBytesRemaining <= Or(limits.message) + Early
        /\ messageBytesRemaining <= Or(limits.message)
        /\ \A i \in DOMAIN messages : Len(messages[i]) < Or(limits.message) + Early
    BY <1>2 DEF ReaderInv, Spent
  <2>2. Consumed' = Consumed + n /\ Consumed \in Int /\ Charged' = Charged
    <3>1. Charged' = Charged BY <1>2, ChargedKept
    <3>2. Consumed' = Len(Plain) - Len(stream') /\ Consumed = Len(Plain) - Len(stream)
      BY <1>7 DEF Consumed
    <3> QED BY <1>3, <1>4, <1>6, <3>1, <3>2
  <2>3. Early \in Nat /\ Or(limits.total) \in Int
    BY EarlyIs, OrIs DEF ReaderInv, ReaderTypes
  <2>4. bytesRemaining' >= 0
        /\ Consumed' + Charged' + bytesRemaining' <= Or(limits.total) + Early
        /\ Consumed' + Charged' <= Or(limits.total) + Early
    <3> DEFINE c == Consumed
               limit == Or(limits.total) + Early
    <3>1. /\ c \in Int /\ limit \in Int /\ n \in Int /\ Charged \in Int /\ bytesRemaining \in Int
          /\ c + Charged + bytesRemaining <= limit /\ n <= bytesRemaining
      BY <1>3, <1>4, <2>1, <2>2, <2>3
    <3>2. Consumed' = c + n /\ bytesRemaining' = bytesRemaining - n /\ Charged' = Charged
      BY <1>1, <2>2
    <3> HIDE DEF c, limit
    <3>3. /\ 0 <= bytesRemaining - n /\ (c + n) + Charged + (bytesRemaining - n) <= limit
          /\ (c + n) + Charged <= limit
      BY <3>1, BytesRead
    <3> QED BY <3>2, <3>3 DEF limit
  <2> QED BY <1>2, <1>4, <1>6, <1>7, <2>1, <2>4 DEF Spent
<1> QED BY <1>9, <1>10, <1>11, <1>12 DEF ReaderInv

\* Nothing is read.
LEMMA ReadNothingKeeps ==
  ASSUME ReaderInv, ReadNothing
  PROVE  ReaderInv'
<1>1. /\ pc = "read" /\ pc' \in {"eof", "ended"} /\ (pc' = "eof" => stream = <<>>)
      /\ UNCHANGED <<sent, stream, limits, tls, buf, chunk, room, bytesRemaining,
                     messageBytesRemaining, messages, replied, replies>>
  <2>1. pc' = "eof" => Shrunk > 0 BY DEF ReadNothing
  <2>2. Shrunk > 0 => Shrunk # 0 OBVIOUS
  <2> QED BY <2>1, <2>2 DEF ReadNothing
<1>2. Plain' = Plain /\ (Torn' <=> Torn) /\ Early' = Early /\ Consumed' = Consumed
  BY <1>1, PlainKept DEF Consumed
<1>3. ReaderTypes' BY <1>1 DEF ReaderInv, ReaderTypes
<1>4. (Expecting /\ Unanswered /\ Chunks)'
  BY <1>1 DEF ReaderInv, Expecting, Unanswered, Chunks
<1>5. Whole' BY <1>1, <1>2 DEF ReaderInv, Whole
<1>6. Spent' BY <1>1, <1>2, ChargedKept DEF ReaderInv, Spent
<1> QED BY <1>3, <1>4, <1>5, <1>6 DEF ReaderInv

\* The rest of a chunk is kept.
LEMMA KeepKeeps ==
  ASSUME ReaderInv, Keep
  PROVE  ReaderInv'
<1>1. /\ pc = "split" /\ NextLine = 0 /\ pc' = "read" /\ buf' = buf \o chunk
         /\ chunk' = <<>>
      /\ messageBytesRemaining' = messageBytesRemaining - Len(chunk)
      /\ UNCHANGED <<sent, stream, limits, tls, room, bytesRemaining, messages, replied, replies>>
  BY DEF Keep
<1>2. /\ stream \in Seq(Letter) /\ buf \in Seq(Letter) /\ Plain \in Seq(Letter)
      /\ chunk \in Seq(Letter) /\ messageBytesRemaining \in Int
  BY PlainIs DEF ReaderInv, ReaderTypes
<1>3. buf' \in Seq(Letter) /\ Len(buf') = Len(buf) + Len(chunk) /\ Len(buf) \in Nat
      /\ Len(chunk) \in Nat
      /\ \A i \in 1..Len(buf') : buf'[i] = IF i <= Len(buf) THEN buf[i] ELSE chunk[i - Len(buf)]
  BY <1>1, <1>2
<1>4. Plain' = Plain /\ (Torn' <=> Torn) /\ Early' = Early /\ Consumed' = Consumed
  BY <1>1, PlainKept DEF Consumed
<1>5. ReaderTypes' BY <1>1, <1>2, <1>3 DEF ReaderInv, ReaderTypes
<1>6. (Expecting /\ Unanswered /\ Chunks)' BY <1>1 DEF Expecting, Unanswered, Chunks
<1>7. Whole'
  <2>1. PICK b \in Nat : /\ Laid(Plain, b, buf, chunk, stream)
                         /\ ~Torn => Lined(Plain, b, buf, messages)
    BY <1>1 DEF ReaderInv, Whole
  <2>2. Laid(Plain, b, buf', chunk', stream') BY <1>1, <1>2, <2>1, LaidOn
  <2>3. \A i \in 1..Len(chunk) : chunk[i] # NL BY <1>1, <1>2, NextLineIs
  <2>4. ASSUME ~Torn PROVE Lined(Plain, b, buf', messages)
    <3>1. Lined(Plain, b, buf, messages) BY <2>1, <2>4
    <3>2. ASSUME NEW i \in 1..Len(buf'), buf'[i] = NL PROVE b = 0 /\ i = 1
      <4>1. CASE i <= Len(buf)
        <5>1. i \in 1..Len(buf) /\ buf[i] = NL BY <1>3, <3>2, <4>1
        <5> QED BY <3>1, <5>1 DEF Lined
      <4>2. CASE ~(i <= Len(buf))
        <5>1. i - Len(buf) \in 1..Len(chunk) /\ chunk[i - Len(buf)] = NL
          BY <1>3, <3>2, <4>2
        <5> QED BY <2>3, <5>1
      <4> QED BY <4>1, <4>2
    <3> QED BY <3>1, <3>2 DEF Lined
  <2> QED BY <1>1, <1>4, <2>2, <2>4 DEF Whole
<1>8. Spent'
  <2>1. /\ Len(buf) + messageBytesRemaining <= Or(limits.message) + Early
        /\ messageBytesRemaining <= Or(limits.message)
           /\ Len(chunk) <= messageBytesRemaining
    BY <1>1 DEF ReaderInv, Spent
  <2>2. Early \in Nat /\ Or(limits.message) \in Int
    BY EarlyIs, OrIs DEF ReaderInv, ReaderTypes
  <2>3. /\ Len(buf') + messageBytesRemaining' <= Or(limits.message) + Early
        /\ messageBytesRemaining' <= Or(limits.message) /\ 0 <= messageBytesRemaining'
    BY <1>1, <1>2, <1>3, <2>1, <2>2
  <2>4. Len(chunk') = 0 BY <1>1
  <2>5. /\ 0 <= bytesRemaining /\ Consumed + Charged <= Or(limits.total) + Early
        /\ Consumed + Charged + bytesRemaining <= Or(limits.total) + Early
        /\ \A i \in DOMAIN messages : Len(messages[i]) < Or(limits.message) + Early
    BY <1>1 DEF ReaderInv, Spent
  <2>6. Charged' = Charged BY <1>1, ChargedKept
  <2> QED BY <1>1, <1>4, <2>3, <2>4, <2>5, <2>6 DEF Spent
<1> QED BY <1>5, <1>6, <1>7, <1>8 DEF ReaderInv

\* A line is processed.
LEMMA ProcessKeeps ==
  ASSUME ReaderOK, ReaderInv, Process
  PROVE  ReaderInv'
<1> DEFINE m == NextLine
           whole == Trimmed(Line(NextLine))
<1>1. /\ pc = "split" /\ m > 0 /\ chunk' = SubSeq(chunk, m + 1, Len(chunk)) /\ buf' = <<>>
      /\ messageBytesRemaining' = Or(limits.message)
      /\ UNCHANGED <<sent, stream, limits, tls, room>>
  BY DEF Process
<1>2. \/ whole = <<>> /\ UNCHANGED <<pc, bytesRemaining, messages, replied, replies>>
      \/ whole # <<>> /\ \E reply \in ReplyLengths :
           /\ messages' = Append(messages, whole)
              /\ bytesRemaining' = bytesRemaining - reply
           /\ \/ replied' = replied /\ replies' = replies
              \/ /\ replied' = replied + reply + LineEnd /\ replies' = replies + 1
                 /\ bytesRemaining - reply >= 0
           /\ pc' \in {"split", "ended"} /\ (pc' = "split" => bytesRemaining - reply >= 0)
  BY DEF Process
<1>3. /\ stream \in Seq(Letter) /\ buf \in Seq(Letter) /\ Plain \in Seq(Letter)
         /\ chunk \in Seq(Letter)
      /\ messages \in Seq(Seq(Letter)) /\ bytesRemaining \in Int
      /\ replied \in Nat /\ replies \in Nat /\ Charged \in Int
      /\ limits.message \in Int /\ limits.total \in Int
  BY PlainIs, ChargedIs DEF ReaderInv, ReaderTypes
<1>4. m \in 1..Len(chunk) /\ chunk[m] = NL /\ \A i \in 1..(m - 1) : chunk[i] # NL
  <2>1. m \in 0..Len(chunk) /\ chunk[m] = NL /\ \A i \in 1..(m - 1) : chunk[i] # NL
    BY <1>1, <1>3, NextLineIs
  <2>2. Len(chunk) \in Nat BY <1>3
  <2> HIDE DEF m
  <2> QED BY <1>1, <2>1, <2>2
<1>5. whole = Trimmed(buf \o SubSeq(chunk, 1, m - 1)) BY DEF Line
<1> HIDE DEF m, whole
<1>6. m \in Nat /\ m > 0 /\ m <= Len(chunk) /\ Len(chunk) \in Nat /\ Len(buf) \in Nat
  BY <1>3, <1>4
<1>7. whole \in Seq(Letter) /\ Len(whole) <= Len(buf) + m - 1 /\ Len(whole) \in Nat
  <2> DEFINE start == SubSeq(chunk, 1, m - 1)
             line == buf \o start
  <2>1. start \in Seq(Letter) /\ Len(start) = m - 1
    <3>1. 1 \in 1..(Len(chunk) + 1) /\ m - 1 \in 0..Len(chunk) BY <1>6
    <3>2. start \in Seq(Letter) /\ Len(start) = IF 1 <= m - 1 THEN (m - 1) - 1 + 1 ELSE 0
      BY <1>3, <3>1, SubSeqProperties
    <3> QED BY <1>6, <3>2
  <2> HIDE DEF start
  <2>2. line \in Seq(Letter) /\ Len(line) = Len(buf) + m - 1
    <3>1. line \in Seq(Letter) /\ Len(line) = Len(buf) + Len(start)
      <4>1. buf \in Seq(Letter) BY <1>3
      <4> QED BY <2>1, <4>1, ConcatProperties
    <3> HIDE DEF line
    <3> QED BY <1>6, <2>1, <3>1
  <2> HIDE DEF line
  <2>3. Trimmed(line) \in Seq(Letter) /\ Len(Trimmed(line)) <= Len(line)
    BY <2>2, TrimmedIs
  <2>4. whole = Trimmed(line) BY <1>5 DEF line, start
  <2> QED BY <2>2, <2>3, <2>4
<1>8. chunk' \in Seq(Letter) /\ Len(chunk') = Len(chunk) - m
  <2>1. m + 1 \in 1..(Len(chunk) + 1) /\ Len(chunk) \in 0..Len(chunk) BY <1>6
  <2>2. chunk' \in Seq(Letter)
        /\ Len(chunk') = IF m + 1 <= Len(chunk) THEN Len(chunk) - (m + 1) + 1 ELSE 0
    BY <1>1, <1>3, <2>1, SubSeqProperties
  <2> QED BY <1>6, <2>2
<1>9. Plain' = Plain /\ (Torn' <=> Torn) /\ Early' = Early /\ Consumed' = Consumed
  BY <1>1, PlainKept DEF Consumed
<1>10. /\ messages' \in Seq(Seq(Letter))
       /\ messages' = IF whole = <<>> THEN messages ELSE Append(messages, whole)
  <2>1. CASE whole = <<>> BY <1>2, <1>3, <2>1
  <2>2. CASE whole # <<>>
    <3>1. messages' = Append(messages, whole) BY <1>2, <2>2
    <3>2. Append(messages, whole) \in Seq(Seq(Letter)) BY <1>3, <1>7
    <3> QED BY <2>2, <3>1, <3>2
  <2> QED BY <2>1, <2>2
<1>11. /\ pc' \in {"split", "ended"} /\ bytesRemaining' \in Int /\ replied' \in Nat
       /\ replies' \in Nat /\ Charged' \in Int
       /\ pc' = "split" => bytesRemaining' >= 0
       /\ \/ Charged' = Charged
          \/ Charged' + bytesRemaining' = Charged + bytesRemaining /\ bytesRemaining' >= 0
       /\ bytesRemaining' <= bytesRemaining
  <2>1. 0 <= bytesRemaining BY <1>1 DEF ReaderInv, Spent
  <2>2. CASE whole = <<>> BY <1>1, <1>2, <1>3, <2>1, <2>2, ChargedKept
  <2>3. CASE whole # <<>>
    <3>1. PICK reply \in ReplyLengths :
           /\ bytesRemaining' = bytesRemaining - reply
           /\ \/ replied' = replied /\ replies' = replies
              \/ /\ replied' = replied + reply + LineEnd /\ replies' = replies + 1
                 /\ bytesRemaining - reply >= 0
           /\ pc' \in {"split", "ended"} /\ (pc' = "split" => bytesRemaining - reply >= 0)
      BY <1>2, <2>3
    <3>2. reply \in Nat BY DEF ReaderOK
    <3>3. \/ Charged' = Charged
          \/ Charged' = Charged + reply /\ bytesRemaining - reply >= 0
      BY <1>3, <3>1, <3>2 DEF Charged, LineEnd
    <3>4. replied' \in Nat /\ replies' \in Nat BY <1>3, <3>1, <3>2 DEF LineEnd
    <3> QED BY <1>3, <3>1, <3>2, <3>3, <3>4
  <2> QED BY <2>2, <2>3
<1>12. Or(limits.message) \in Int /\ Or(limits.message) > 0 /\ Or(limits.total) \in Int
  BY <1>3, OrIs
<1>13. ReaderTypes'
  <2>1. UNCHANGED <<sent, stream, limits, tls, room>> /\ buf' = <<>>
        /\ messageBytesRemaining' = Or(limits.message)
    BY <1>1
  <2> QED BY <1>8, <1>10, <1>11, <1>12, <2>1 DEF ReaderInv, ReaderTypes
<1>14. (Expecting /\ Unanswered /\ Chunks)' BY <1>11 DEF Expecting, Unanswered, Chunks
<1>15. Whole'
  <2>1. PICK b \in Nat : /\ Laid(Plain, b, buf, chunk, stream)
                         /\ ~Torn => Lined(Plain, b, buf, messages)
    BY <1>1 DEF ReaderInv, Whole
  <2> DEFINE e == b + Len(buf) + m
  <2>2. e \in Nat BY <1>6
  <2>3. Laid(Plain, e, <<>>, chunk', stream')
    <3>1. \A k \in 1..Len(chunk) :
            Laid(Plain, b + Len(buf) + k, <<>>, SubSeq(chunk, k + 1, Len(chunk)), stream)
      BY <1>3, <2>1, LaidOn
    <3> QED BY <1>1, <1>4, <3>1
  <2>4. ASSUME ~Torn PROVE Lined(Plain, e, <<>>, messages')
    <3>1. Lined(Plain, b, buf, messages) BY <2>1, <2>4
    <3> QED BY <1>3, <1>4, <1>5, <1>7, <1>10, <2>1, <3>1, LineProcessed
  <2> HIDE DEF e
  <2> QED BY <1>1, <1>9, <2>2, <2>3, <2>4 DEF Whole
<1>16. Spent'
  <2>1. /\ Len(buf) + messageBytesRemaining <= Or(limits.message) + Early
        /\ messageBytesRemaining <= Or(limits.message)
           /\ Len(chunk) <= messageBytesRemaining
        /\ Consumed + Charged <= Or(limits.total) + Early
        /\ Consumed + Charged + bytesRemaining <= Or(limits.total) + Early
        /\ \A i \in DOMAIN messages : Len(messages[i]) < Or(limits.message) + Early
        /\ 0 <= bytesRemaining
    BY <1>1 DEF ReaderInv, Spent
  <2>2. Early \in Nat /\ messageBytesRemaining \in Int
    BY EarlyIs DEF ReaderInv, ReaderTypes
  <2>3. Consumed \in Int BY <1>3 DEF Consumed
  <2>4. Len(whole) < Or(limits.message) + Early BY <1>6, <1>7, <1>12, <2>1, <2>2
  <2>5. \A i \in DOMAIN messages' : Len(messages'[i]) < Or(limits.message) + Early
    <3>1. CASE whole = <<>> BY <1>10, <2>1, <3>1
    <3>2. CASE whole # <<>>
      <4>1. messages' = Append(messages, whole) BY <1>10, <3>2
      <4>2. \A i \in DOMAIN messages' :
              \/ i \in DOMAIN messages /\ messages'[i] = messages[i]
              \/ messages'[i] = whole
        <5>1. messages \in Seq(Seq(Letter)) /\ whole \in Seq(Letter) BY <1>3, <1>7
        <5> QED BY ONLY <4>1, <5>1
      <4> QED BY <2>1, <2>4, <4>2
    <3> QED BY <3>1, <3>2
  <2>6. /\ Consumed + Charged' <= Or(limits.total) + Early
        /\ Consumed + Charged' + bytesRemaining' <= Or(limits.total) + Early
    <3>1. bytesRemaining \in Int /\ Charged \in Int /\ bytesRemaining' \in Int
          /\ Charged' \in Int
      BY <1>3, <1>11
    <3> DEFINE c == Consumed
               limit == Or(limits.total) + Early
               r2 == Charged'
               b2 == bytesRemaining'
    <3>2. c \in Int /\ limit \in Int BY <1>12, <2>2, <2>3
    <3>3. c + Charged + bytesRemaining <= limit /\ c + Charged <= limit BY <2>1
    <3>4. b2 <= bytesRemaining BY <1>11
    <3>5. r2 = Charged \/ (r2 + b2 = Charged + bytesRemaining /\ b2 >= 0) BY <1>11
    <3>6. Charged \in Int /\ bytesRemaining \in Int /\ r2 \in Int /\ b2 \in Int BY <3>1
    <3> HIDE DEF c, limit, r2, b2
    <3>7. c + r2 <= limit /\ c + r2 + b2 <= limit
      BY ONLY <3>2, <3>3, <3>4, <3>5, <3>6, BytesReplied
    <3> QED BY <3>7 DEF c, limit, r2, b2
  <2>7. Len(<<>>) + Or(limits.message) <= Or(limits.message) + Early BY <1>12, <2>2
  <2>8. Len(chunk') <= Or(limits.message) BY <1>6, <1>8, <1>12, <2>1, <2>2
  <2>9. /\ pc' \in {"split", "ended"} /\ buf' = <<>> /\ limits' = limits
        /\ messageBytesRemaining' = Or(limits.message) /\ Consumed' = Consumed
           /\ Early' = Early
        /\ pc' = "split" => 0 <= bytesRemaining'
    BY <1>1, <1>9, <1>11
  <2>10. Or(limits.message) <= Or(limits.message) BY <1>12
  <2> HIDE DEF Consumed
  <2> QED BY <2>5, <2>6, <2>7, <2>8, <2>9, <2>10 DEF Spent
<1> QED BY <1>13, <1>14, <1>15, <1>16 DEF ReaderInv

\* A connection begins in the invariant.
LEMMA ReaderInitKept ==
  ASSUME ReaderOK, ReaderInit
  PROVE  ReaderInv
<1>1. /\ sent \in Seq(Letter) /\ stream = sent /\ pc = "starttls" /\ tls = FALSE
         /\ buf = <<>>
      /\ chunk = <<>> /\ messages = <<>> /\ replied = 0 /\ replies = 0 /\ room \in Nat
      /\ limits \in [total : Int, message : Int, TLSRequired : BOOLEAN]
      /\ bytesRemaining = 1000 /\ messageBytesRemaining = 1000
  BY DEF ReaderOK, ReaderInit, NoLimit
<1>2. ReaderTypes
  <2>1. 1000 \in Int OBVIOUS
  <2>2. <<>> \in Seq(Letter) /\ <<>> \in Seq(Seq(Letter)) OBVIOUS
  <2>3. bytesRemaining \in Int /\ messageBytesRemaining \in Int
        /\ replied \in Nat /\ replies \in Nat
    BY <1>1, <2>1
  <2>4. buf \in Seq(Letter) /\ chunk \in Seq(Letter) /\ messages \in Seq(Seq(Letter))
    BY <1>1, <2>2
  <2>5. pc \in {"starttls", "context", "read", "split", "ended", "eof"} /\ tls \in BOOLEAN
    BY <1>1
  <2> QED BY <1>1, <2>3, <2>4, <2>5 DEF ReaderTypes
<1>3. Len(sent) \in Nat /\ Len(<<>>) = 0 BY <1>1
<1>4. Laid(sent, 0, <<>>, <<>>, sent)
  <2>1. \A i \in 1..Len(sent) : 0 + Len(<<>>) + Len(<<>>) + i = i BY <1>3
  <2>2. Len(sent) = 0 + Len(<<>>) + Len(<<>>) + Len(sent) BY <1>3
  <2> QED BY <2>1, <2>2 DEF Laid
<1>5. SubSeq(starttls, 1, 0) = <<>> BY StartTLSIs
<1>6. Expecting BY <1>1, <1>3, <1>4, <1>5 DEF Expecting
<1>7. Unanswered /\ Whole /\ Chunks /\ Spent BY <1>1 DEF Unanswered, Whole, Chunks, Spent
<1> QED BY <1>2, <1>6, <1>7 DEF ReaderInv

\* Every step keeps the invariant.
LEMMA ReaderNextKeeps ==
  ASSUME ReaderOK, ReaderInv, [ReaderNext]_reader
  PROVE  ReaderInv'
<1>1. CASE UNCHANGED reader
  <2>1. UNCHANGED <<sent, stream, limits, pc, tls, buf, chunk, room, bytesRemaining,
                    messageBytesRemaining, messages, replied, replies>>
    BY <1>1 DEF reader
  <2>2. Plain' = Plain /\ (Torn' <=> Torn) /\ Early' = Early /\ Consumed' = Consumed
    BY <2>1, PlainKept DEF Consumed
  <2>3. ReaderTypes' BY <2>1 DEF ReaderInv, ReaderTypes
  <2>4. (Expecting /\ Unanswered /\ Chunks)'
    BY <2>1 DEF ReaderInv, Expecting, Unanswered, Chunks
  <2>5. Whole' BY <2>1, <2>2 DEF ReaderInv, Whole
  <2>6. Spent' BY <2>1, <2>2, ChargedKept DEF ReaderInv, Spent
  <2> QED BY <2>3, <2>4, <2>5, <2>6 DEF ReaderInv
<1>2. CASE ReadStartTLS BY <1>2, ReadStartTLSKeeps
<1>3. CASE NoStartTLS BY <1>3, NoStartTLSKeeps
<1>4. CASE SetLimits BY <1>4, SetLimitsKeeps
<1>5. CASE ReadSome BY <1>5, ReadSomeKeeps
<1>6. CASE ReadNothing BY <1>6, ReadNothingKeeps
<1>7. CASE Keep BY <1>7, KeepKeeps
<1>8. CASE Process BY <1>8, ProcessKeeps
<1> QED BY <1>1, <1>2, <1>3, <1>4, <1>5, <1>6, <1>7, <1>8 DEF ReaderNext

\* The invariant implies MessagesAreLines.
LEMMA MessagesWhole ==
  ASSUME ReaderInv
  PROVE  MessagesAreLines
<1>1. /\ sent \in Seq(Letter) /\ stream \in Seq(Letter) /\ buf \in Seq(Letter)
         /\ Plain \in Seq(Letter)
      /\ messages \in Seq(Seq(Letter)) /\ limits.total \in Int /\ limits.message \in Int
      /\ chunk \in Seq(Letter)
  BY PlainIs DEF ReaderInv, ReaderTypes
<1>2. ASSUME ~Torn, pc # "starttls"
      PROVE  IsPrefix(messages, Lines(Plain)) /\ (pc = "eof" => messages = Lines(Plain))
  <2>1. PICK b \in Nat : Laid(Plain, b, buf, chunk, stream)
        /\ Lined(Plain, b, buf, messages)
    BY <1>2 DEF ReaderInv, Whole
  <2>2. /\ Len(Plain) = b + Len(buf) + Len(chunk) + Len(stream) /\ Len(Plain) \in Nat
        /\ Len(buf) \in Nat /\ Len(chunk) \in Nat /\ Len(stream) \in Nat
    BY <1>1, <2>1 DEF Laid
  <2>3. b \in 0..Len(Plain) BY <2>2
  <2>4. IsPrefix(messages, Lines(Plain))
        /\ (Ended(Plain, Len(Plain)) = Ended(Plain, b) => messages = Lines(Plain))
    BY <1>1, <2>1, <2>3, LinesBegin
  <2>5. ASSUME pc = "eof" PROVE Ended(Plain, Len(Plain)) = Ended(Plain, b)
    <3>1. Len(chunk) = 0 /\ Len(stream) = 0 BY <2>5 DEF ReaderInv, Chunks
    <3>2. Len(Plain) = b + Len(buf) BY <2>2, <3>1
    <3>3. ASSUME NEW d \in Ends(Plain) PROVE d <= b
      <4>1. d \in Nat /\ d >= 2 /\ d <= Len(Plain) /\ Plain[d] = NL BY <2>2 DEF Ends
      <4> SUFFICES ASSUME d > b PROVE FALSE BY <4>1
      <4> DEFINE i == d - b
      <4>2. i \in 1..Len(buf) /\ d = b + i BY <2>2, <3>2, <4>1
      <4>3. buf[i] = NL BY <2>1, <4>1, <4>2 DEF Laid
      <4>4. b = 0 /\ i = 1 BY <2>1, <4>2, <4>3 DEF Lined
      <4> QED BY <4>1, <4>2, <4>4
    <3> QED BY <1>1, <3>3, EndedLast
  <2> QED BY <2>4, <2>5
<1>3. ASSUME pc \notin {"starttls", "context"}
      PROVE  /\ limits.message > 0 =>
                  \A i \in DOMAIN messages : Len(messages[i]) < limits.message + Early
             /\ limits.total > 0 =>
                  Consumed + replied <= limits.total + Early + LineEnd * replies
  <2>1. /\ \A i \in DOMAIN messages : Len(messages[i]) < Or(limits.message) + Early
        /\ Consumed + Charged <= Or(limits.total) + Early
    BY <1>3 DEF ReaderInv, Spent
  <2>2. /\ limits.message > 0 => Or(limits.message) = limits.message
        /\ limits.total > 0 => Or(limits.total) = limits.total
    BY <1>1, OrIs
  <2>3. ASSUME limits.total > 0
        PROVE  Consumed + replied <= limits.total + Early + LineEnd * replies
    <3> DEFINE c == Consumed
               limit == limits.total + Early
               e == LineEnd * replies
    <3>1. c \in Int /\ limit \in Int BY <1>1, EarlyIs DEF Consumed
    <3>2. Charged \in Int /\ e \in Int /\ replied = Charged + e /\ replied \in Int
      BY ChargedIs DEF ReaderInv, ReaderTypes
    <3>3. c + Charged <= limit BY <2>1, <2>2, <2>3
    <3> HIDE DEF c, limit, e
    <3>4. c + replied <= limit + e BY ONLY <3>1, <3>2, <3>3, BytesWritten
    <3> QED BY <3>4 DEF c, limit, e
  <2> QED BY <2>1, <2>2, <2>3
<1> QED BY <1>2, <1>3 DEF MessagesAreLines

\* MessagesAreLines, of handle_request (main/go-susi.go): for every stream, limits and
\* sizes of reads, the messages processed are the lines sent, in order, no message
\* exceeds its limit, and what was read and written exceeds the total by no more than
\* the line ends of the replies.
THEOREM LinesProcessed == ReaderOK => (ReaderSpec => []MessagesAreLines)
<1> DEFINE Invariant == ReaderOK /\ ReaderInv
<1>1. ReaderOK /\ ReaderInit => Invariant BY ReaderInitKept
<1>2. Invariant /\ [ReaderNext]_reader => Invariant'
  <2> SUFFICES ASSUME Invariant, [ReaderNext]_reader PROVE Invariant' OBVIOUS
  <2>1. ReaderInv' BY ReaderNextKeeps
  <2>2. ReaderOK' BY DEF ReaderOK, Letter
  <2> QED BY <2>1, <2>2
<1>3. Invariant => MessagesAreLines BY MessagesWhole
<1> HIDE DEF Invariant
<1> QED BY <1>1, <1>2, <1>3, PTL DEF ReaderSpec

-----------------------------------------------------------------------------
(* The connection to a peer.                                               *)

Messages == {Ping, Job, New}
Down == {"nil", "closed"}

Flags ==
  /\ useTLS \in BOOLEAN /\ reachable \in BOOLEAN /\ known \in BOOLEAN
  /\ monitored \in BOOLEAN /\ lost \in BOOLEAN

Ranges ==
  /\ handler \in {None, "waiting", "send", "dial", "resend", "failed",
                  "JobsRemoveForeign", "ServerRemove", "delete"}
  /\ queue \in Seq(Messages) /\ message \in Messages \cup {None}
  /\ tcpConn \in {"nil", "open", "broken", "closed"}
  /\ pings \in Nat /\ silent \in 0..MaxPeerDowntime
  /\ whendown \in 0..Never /\ pinger \in 0..Never

PeerTypes == Flags /\ Ranges

\* A connection has a monitor as long as it is not closed.
Monitors == monitored <=> tcpConn \notin Down

\* The downtime only runs while there is no connection.
DownIsSilent == whendown # Never => silent >= whendown /\ tcpConn \in Down

\* Where the handler is, and what it knows there.
Stages ==
  /\ handler \in {"failed", "dial"} => tcpConn \in Down
  /\ handler = "JobsRemoveForeign" => whendown = MaxPeerDowntime
  /\ handler = None => tcpConn = "nil" /\ whendown = Never

\* Who will wake the handler.
Woken ==
  handler = "waiting" /\ tcpConn \in Down =>
    queue # <<>> \/ pinger # Never \/ pings > 0 \/ (tcpConn = "nil" /\ whendown = Never)

\* A new_server that makes up for the loss is queued or in hand.
Synced ==
  lost /\ known /\ tcpConn = "open" /\ handler \in {"waiting", "send"} =>
    (\E n \in DOMAIN queue : queue[n] = New) \/ (handler = "send" /\ message = New)

Inv == ~useTLS => Monitors /\ DownIsSilent /\ Stages /\ Woken /\ Synced

PeerInv == PeerTypes /\ Inv

LEMMA InitType == Init => PeerTypes
<1> SUFFICES ASSUME Init PROVE PeerTypes
  OBVIOUS
<1>1. Flags
  BY PeerAssumption, Zenon DEF Init, Flags
<1>2. Ranges
  BY PeerAssumption DEF Init, Ranges, Never, Messages, None
<1> QED BY <1>1, <1>2 DEF PeerTypes

\* Flags remain flags.
LEMMA NextFlags == Flags /\ [Next]_vars => Flags'
<1> SUFFICES ASSUME Flags, [Next]_vars PROVE Flags'
  OBVIOUS
<1> USE DEF Flags, link, Arrived, Lost, Close
<1>1. CASE Tell(Job)
  BY <1>1, Zenon DEF Tell
<1>2. CASE new_server
  BY <1>2, Zenon DEF new_server
<1>3. CASE Next_message
  BY <1>3, Zenon DEF Next_message
<1>4. CASE SendLn
  BY <1>4, Zenon DEF SendLn
<1>5. CASE SendLnFails
  BY <1>5, Zenon DEF SendLnFails
<1>6. CASE DialFails
  BY <1>6, Zenon DEF DialFails
<1>7. CASE DialTLS
  BY <1>7, Zenon DEF DialTLS
<1>8. CASE Dial
  BY <1>8, Zenon DEF Dial
<1>9. CASE Resend
  BY <1>9, Zenon DEF Resend
<1>10. CASE ResendFails
  BY <1>10, Zenon DEF ResendFails
<1>11. CASE Failed
  BY <1>11, Zenon DEF Failed
<1>12. CASE JobsRemoveForeign
  BY <1>12, Zenon DEF JobsRemoveForeign
<1>13. CASE ServerRemove
  BY <1>13, Zenon DEF ServerRemove
<1>14. CASE DeleteConnection
  BY <1>14, Zenon DEF DeleteConnection
<1>15. CASE Pinger
  BY <1>15, Zenon DEF Pinger
<1>16. CASE PushPing
  BY <1>16, Zenon DEF PushPing
<1>17. CASE monitorConnection
  BY <1>17, Zenon DEF monitorConnection
<1>18. CASE AskFails
  BY <1>18, Zenon DEF AskFails
<1>19. CASE PeerStops
  BY <1>19, Zenon DEF PeerStops
<1>20. CASE PeerStarts
  BY <1>20, Zenon DEF PeerStarts
<1>21. CASE Tick
  BY <1>21, Zenon DEF Tick
<1>22. CASE UNCHANGED vars
  BY <1>22, Zenon DEF vars
<1> QED
  BY <1>1, <1>2, <1>3, <1>4, <1>5, <1>6, <1>7, <1>8, <1>9, <1>10, <1>11,
     <1>12, <1>13, <1>14, <1>15, <1>16, <1>17, <1>18, <1>19, <1>20, <1>21, <1>22 DEF Next

\* The other variables stay in their ranges.
LEMMA NextRanges == Ranges /\ [Next]_vars => Ranges'
<1> SUFFICES ASSUME Ranges, [Next]_vars PROVE Ranges'
  OBVIOUS
<1> USE PeerAssumption DEF Ranges, Messages, Never, link
<1>1. CASE Tell(Job)
  BY <1>1 DEF Tell, Push, Started
<1>2. CASE new_server
  BY <1>2 DEF new_server, Started
<1>3. CASE Next_message
  BY <1>3 DEF Next_message
<1>4. CASE SendLn
  BY <1>4 DEF SendLn
<1>5. CASE SendLnFails
  BY <1>5 DEF SendLnFails, Close, Closed, Notified
<1>6. CASE DialFails
  BY <1>6 DEF DialFails
<1>7. CASE DialTLS
  BY <1>7 DEF DialTLS
<1>8. CASE Dial
  BY <1>8 DEF Dial
<1>9. CASE Resend
  BY <1>9 DEF Resend, FullSync, Push
<1>10. CASE ResendFails
  BY <1>10 DEF ResendFails, Close, Closed, Notified
<1>11. CASE Failed
  BY <1>11 DEF Failed, Downtime, Delay, maxdelay, Smaller
<1>12. CASE JobsRemoveForeign
  BY <1>12 DEF JobsRemoveForeign
<1>13. CASE ServerRemove
  BY <1>13 DEF ServerRemove
<1>14. CASE DeleteConnection
  BY <1>14 DEF DeleteConnection
<1>15. CASE Pinger
  BY <1>15 DEF Pinger
<1>16. CASE PushPing
  BY <1>16 DEF PushPing
<1>17. CASE monitorConnection
  BY <1>17 DEF monitorConnection, Close, Closed, Notified
<1>18. CASE AskFails
  BY <1>18 DEF AskFails, Close, Closed, Notified
<1>19. CASE PeerStops
  BY <1>19 DEF PeerStops
<1>20. CASE PeerStarts
  BY <1>20 DEF PeerStarts
<1>21. CASE Tick
  BY <1>21 DEF Tick, Older
<1>22. CASE UNCHANGED vars
  BY <1>22 DEF vars
<1> QED
  BY <1>1, <1>2, <1>3, <1>4, <1>5, <1>6, <1>7, <1>8, <1>9, <1>10, <1>11,
     <1>12, <1>13, <1>14, <1>15, <1>16, <1>17, <1>18, <1>19, <1>20, <1>21, <1>22 DEF Next

LEMMA NextType == PeerTypes /\ [Next]_vars => PeerTypes'
BY NextFlags, NextRanges DEF PeerTypes

LEMMA InitInv == Init => Inv
BY DEF Init, Inv, Monitors, DownIsSilent, Stages, Woken, Synced, Down, None

\* Every step keeps what is known of a connection without TLS.
LEMMA NextInv == PeerInv /\ [Next]_vars => Inv'
<1> SUFFICES ASSUME PeerTypes, Inv, [Next]_vars, PeerTypes', ~useTLS'
             PROVE  (Monitors /\ DownIsSilent /\ Stages /\ Woken /\ Synced)'
  BY NextType DEF PeerInv, Inv
<1>0. ~useTLS
  BY DEF Next, vars, Tell, new_server, Next_message, SendLn, SendLnFails, DialFails,
         DialTLS, Dial, Resend, ResendFails, Failed, JobsRemoveForeign, ServerRemove,
         DeleteConnection, Pinger, PushPing, monitorConnection, AskFails, PeerStops,
         PeerStarts, Tick
<1>a. Monitors /\ DownIsSilent /\ Stages /\ Woken /\ Synced
  BY <1>0 DEF Inv
<1>b. queue \in Seq(Messages) /\ pings \in Nat /\ pinger \in 0..Never
      /\ whendown \in 0..Never /\ silent \in 0..MaxPeerDowntime
      /\ MaxPeerDowntime \in Nat \ {0}
  BY PeerAssumption DEF PeerTypes, Ranges
<1>1. CASE Tell(Job)
  <2>1. (Monitors /\ DownIsSilent /\ Stages)'
    BY <1>a, <1>1 DEF Monitors, DownIsSilent, Stages, Tell, Started, link, None
  <2>0. queue' = queue \/ queue' # <<>>
    BY <1>b, <1>1 DEF Tell, Push
  <2>2. Woken'
    <3>1. UNCHANGED <<tcpConn, whendown, pinger, pings>> /\ handler' = Started
      BY <1>1 DEF Tell, link
    <3>2. CASE handler = None
      BY <1>a, <3>1, <3>2 DEF Woken, Stages
    <3>3. CASE handler # None
      BY <1>a, <3>1, <3>3, <2>0 DEF Woken, Started
    <3> QED BY <3>2, <3>3
  <2>3. \A n \in DOMAIN queue : n \in DOMAIN queue' /\ queue'[n] = queue[n]
    BY <1>b, <1>1 DEF Tell, Push
  <2>4. Synced'
    <3>1. /\ UNCHANGED <<tcpConn, known, message>> /\ handler' = Started
          /\ known /\ lost' => lost
      BY <1>1 DEF Tell, link
    <3>2. CASE handler = None
      BY <1>a, <3>1, <3>2 DEF Synced, Stages
    <3>3. CASE handler # None
      BY <1>a, <3>1, <3>3, <2>3 DEF Synced, Started
    <3> QED BY <3>2, <3>3
  <2> QED BY <2>1, <2>2, <2>4
<1>2. CASE new_server
  <2>1. (Monitors /\ DownIsSilent /\ Stages)'
    BY <1>a, <1>2 DEF Monitors, DownIsSilent, Stages, new_server, Started, link, None
  <2>2. queue' # <<>> /\ Len(queue) + 1 \in DOMAIN queue' /\ queue'[Len(queue) + 1] = New
    BY <1>b, <1>2 DEF new_server
  <2>3. (Woken /\ Synced)'
    BY <2>2 DEF Woken, Synced
  <2> QED BY <2>1, <2>3
<1>3. CASE Next_message
  <2>1. (Monitors /\ DownIsSilent /\ Stages /\ Woken)'
    BY <1>a, <1>3 DEF Monitors, DownIsSilent, Stages, Woken, Next_message, link, None
  <2>2. ASSUME NEW n \in DOMAIN queue, queue[n] = New, n # 1
        PROVE  \E m \in DOMAIN queue' : queue'[m] = New
    <3>1. n - 1 \in DOMAIN Tail(queue) /\ Tail(queue)[n - 1] = queue[n]
      BY <1>b, <2>2
    <3> QED BY <3>1, <2>2, <1>3 DEF Next_message
  <2>3. Synced'
    BY <1>a, <1>b, <1>3, <2>2 DEF Synced, Next_message, link
  <2> QED BY <2>1, <2>3
<1>4. CASE SendLn
  BY <1>a, <1>4 DEF Monitors, DownIsSilent, Stages, Woken, Synced, SendLn, Arrived, Lost,
     link, Down, None
<1>5. CASE SendLnFails
  BY <1>a, <1>5 DEF Monitors, DownIsSilent, Stages, Woken, Synced, SendLnFails, Close,
     Closed, Down, None, PeerTypes, Ranges
<1>6. CASE DialFails
  BY <1>a, <1>6 DEF Monitors, DownIsSilent, Stages, Woken, Synced, DialFails, Down, None
<1>7. CASE DialTLS
  BY <1>0, <1>7 DEF DialTLS
<1>8. CASE Dial
  BY <1>a, <1>8 DEF Monitors, DownIsSilent, Stages, Woken, Synced, Dial, Down, None
<1>9. CASE Resend
  <2>1. (Monitors /\ DownIsSilent /\ Stages /\ Woken)'
    BY <1>a, <1>9 DEF Monitors, DownIsSilent, Stages, Woken, Resend, link, Down, None
  <2>2. known => Len(queue) + 1 \in DOMAIN queue' /\ queue'[Len(queue) + 1] = New
    BY <1>b, <1>9 DEF Resend, FullSync, Push
  <2>3. Synced'
    BY <2>2, <1>9 DEF Synced, Resend
  <2> QED BY <2>1, <2>3
<1>10. CASE ResendFails
  BY <1>a, <1>10 DEF Monitors, DownIsSilent, Stages, Woken, Synced, ResendFails, Close,
     Closed, Down, None, PeerTypes, Ranges
<1>11. CASE Failed
  <2>1. handler' = "waiting" => pinger' # Never
    BY <1>b, <1>11 DEF Failed, Downtime, Delay, maxdelay, Smaller, Never
  <2>2. (Monitors /\ DownIsSilent /\ Stages)'
    BY <1>a, <1>b, <1>11 DEF Monitors, DownIsSilent, Stages, Failed, Downtime, link, Never,
       None
  <2>3. (Woken /\ Synced)'
    BY <1>a, <1>11, <2>1 DEF Woken, Synced, Stages, Failed, link, Down
  <2> QED BY <2>2, <2>3
<1>12. CASE JobsRemoveForeign \/ ServerRemove \/ DeleteConnection
  BY <1>a, <1>12 DEF Monitors, DownIsSilent, Stages, Woken, Synced, JobsRemoveForeign,
     ServerRemove, DeleteConnection, link, Down, None
<1>13. CASE Pinger
  BY <1>a, <1>b, <1>13 DEF Monitors, DownIsSilent, Stages, Woken, Synced, Pinger, link
<1>14. CASE PushPing
  <2>1. (Monitors /\ DownIsSilent /\ Stages)'
    BY <1>a, <1>14 DEF Monitors, DownIsSilent, Stages, PushPing, link
  <2>2. queue' # <<>> /\ \A n \in DOMAIN queue : n \in DOMAIN queue' /\ queue'[n] = queue[n]
    BY <1>b, <1>14 DEF PushPing
  <2>3. (Woken /\ Synced)'
    BY <1>a, <1>14, <2>2 DEF Woken, Synced, PushPing, link
  <2> QED BY <2>1, <2>3
<1>15. CASE monitorConnection \/ AskFails
  BY <1>a, <1>b, <1>15 DEF Monitors, DownIsSilent, Stages, Woken, Synced, monitorConnection,
     AskFails, Close, Closed, Notified, Down, None, PeerTypes, Ranges
<1>16. CASE PeerStops \/ PeerStarts
  BY <1>a, <1>16 DEF Monitors, DownIsSilent, Stages, Woken, Synced, PeerStops, PeerStarts,
     link, Down
<1>17. CASE Tick
  <2>1. (Monitors /\ Woken /\ Synced)'
    BY <1>a, <1>b, <1>17 DEF Monitors, Woken, Synced, Tick, link, Never, Older
  <2>2. (DownIsSilent /\ Stages)'
    BY <1>a, <1>b, <1>17 DEF DownIsSilent, Stages, Tick, link, Never, Older, Down
  <2> QED BY <2>1, <2>2
<1>18. CASE UNCHANGED vars
  BY <1>a, <1>18 DEF Monitors, DownIsSilent, Stages, Woken, Synced, vars
<1> QED
  BY <1>1, <1>2, <1>3, <1>4, <1>5, <1>6, <1>7, <1>8, <1>9, <1>10, <1>11, <1>12, <1>13,
     <1>14, <1>15, <1>16, <1>17, <1>18 DEF Next

\* The variables have their types and a connection without TLS is as described.
THEOREM Invariance == Spec => []PeerInv
<1>1. Init => PeerInv
  BY InitType, InitInv DEF PeerInv
<1>2. PeerInv /\ [Next]_vars => PeerInv'
  BY NextType, NextInv DEF PeerInv
<1> QED
  BY <1>1, <1>2, PTL DEF Spec

\* Jobs of a peer are only removed after MaxPeerDowntime without a connection.
THEOREM PatientTheorem == Spec => []NeverGivenUpEarly
<1>1. PeerInv => NeverGivenUpEarly
  BY PeerAssumption DEF PeerInv, PeerTypes, Ranges, Inv, Stages, DownIsSilent,
      NeverGivenUpEarly, Never
<1> QED
  BY <1>1, Invariance, PTL

\* A connection that does not work is tried again.
THEOREM KeepsTryingTheorem == Spec => []KeepsTrying
<1>1. PeerInv => KeepsTrying
  BY DEF PeerInv, PeerTypes, Ranges, Inv, Monitors, Woken, Down, KeepsTrying
<1> QED
  BY <1>1, Invariance, PTL

\* What was lost is made up for.
THEOREM LossesAreSyncedTheorem == Spec => []LossesAreSynced
<1>1. PeerInv => LossesAreSynced
  BY DEF PeerInv, Inv, Synced, LossesAreSynced
<1> QED
  BY <1>1, Invariance, PTL
=============================================================================
