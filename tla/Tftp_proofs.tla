---------------------------- MODULE Tftp_proofs ----------------------------
(***************************************************************************)
(* The TFTP server, for every number of requests, files, hooks, versions,  *)
(* ports, ids and block sizes: what the cache holds (TftpCache), and that  *)
(* a file arrives (FileArrives of TftpTransfer).                           *)
(*                                                                         *)
(* The ends of a transfer know a block only by its number modulo IdSpace.  *)
(* The proof gives every packet under way the numbers it can have, and     *)
(* shows that they lie in a window: a packet for the client that waits for *)
(* block c is never older than c - 1 by more than the faults so far, and   *)
(* never newer than the last one sent; an ACK for the server likewise.     *)
(* Each step by which a packet grows older costs a fault, so the window    *)
(* stays smaller than IdSpace, and in it the id of a packet determines its *)
(* number.                                                                 *)
(***************************************************************************)
EXTENDS TftpCache, TftpTransfer, FiniteSetTheorems, SequenceTheorems, TLAPS

\* An entry without users and sleepers is as good as new, and one in use that
\* was loaded without error holds one version.
EntryInv ==
  \A k \in Key :
    /\ cache[k].LoadCount = 0 => cache[k] = Unused
    /\ cache[k].LoadCount # 0 /\ ~cache[k].Err => Len(cache[k].Data) = 1

\* A request that has got data uses an entry that was loaded without error.
ConnInv ==
  \A c \in Conn :
    /\ conn[c].pc \in {"opened", "sending"} => ~cache[conn[c].key].Err
    /\ conn[c].pc = "sending" => cache[conn[c].key].Data = conn[c].data

IInv == TypeOK /\ CountsUsers /\ EntryInv /\ ConnInv

-----------------------------------------------------------------------------
(* Users and counts.                                                       *)

LEMMA UsersFinite ==
  ASSUME NEW k
  PROVE  IsFiniteSet(Users(k)) /\ Cardinality(Users(k)) \in Nat
<1>1. Users(k) \in SUBSET Conn
  BY DEF Users
<1>2. IsFiniteSet(Users(k))
  BY <1>1, FS_Subset, TftpConstants
<1> QED BY <1>2, FS_CardinalityType

\* A user is counted, and so is a sleeping goroutine.
LEMMA Counted ==
  ASSUME IInv, NEW k \in Key
  PROVE  /\ cache[k].LoadCount \in Nat /\ delayed[k] \in {0, 1}
         /\ cache[k].LoadCount = 0 <=> Users(k) = {} /\ delayed[k] = 0
         /\ \A c \in Users(k) :
              /\ cache[k].LoadCount # 0
              /\ cache[k].LoadCount = 1 => Users(k) = {c} /\ delayed[k] = 0
<1>1. /\ cache[k].LoadCount = Cardinality(Users(k)) + delayed[k]
      /\ delayed[k] \in {0, 1}
  BY DEF IInv, CountsUsers
<1>2. Cardinality(Users(k)) \in Nat /\ (Cardinality(Users(k)) = 0 <=> Users(k) = {})
  BY UsersFinite, FS_EmptySet
<1>3. ASSUME NEW c \in Users(k)
      PROVE  /\ cache[k].LoadCount # 0
             /\ cache[k].LoadCount = 1 => Users(k) = {c} /\ delayed[k] = 0
  <2>1. Cardinality(Users(k) \ {c}) = Cardinality(Users(k)) - 1
    BY <1>3, UsersFinite, FS_RemoveElement
  <2>2. IsFiniteSet(Users(k) \ {c})
    BY UsersFinite, FS_RemoveElement
  <2>3. Cardinality(Users(k)) = 1 => Users(k) \ {c} = {}
    BY <2>1, <2>2, FS_EmptySet
  <2> QED BY <1>1, <1>2, <1>3, <2>3
<1> QED BY <1>1, <1>2, <1>3

\* What the steps do to the users of an entry.
LEMMA UsersAdd ==
  ASSUME TypeOK, NEW c \in Conn, NEW k \in Key, GetFile(c, k)
  PROVE  /\ c \notin Users(k) /\ Users(k)' = Users(k) \cup {c}
         /\ \A j \in Key : j # k => Users(j)' = Users(j)
<1>1. PICK r : r.pc \in {"failed", "opened"} /\ r.key = k
               /\ r = [pc |-> r.pc, key |-> k]
               /\ conn' = [conn EXCEPT ![c] = r]
  BY DEF GetFile
<1>2. r # Gone
  BY <1>1 DEF Gone
<1>3. conn[c] = Gone
  BY DEF GetFile
<1> HIDE DEF GetFile
<1> QED BY <1>1, <1>2, <1>3 DEF Users, TypeOK

LEMMA UsersRemove ==
  ASSUME TypeOK, NEW c \in Conn, conn[c] # Gone, NEW k \in Key,
         conn[c].key = k, conn' = [conn EXCEPT ![c] = Gone]
  PROVE  /\ c \in Users(k) /\ Users(k)' = Users(k) \ {c}
         /\ \A j \in Key : j # k => Users(j)' = Users(j)
BY DEF Users, TypeOK

LEMMA UsersKeep ==
  ASSUME TypeOK, NEW c \in Conn, Bytes(c)
  PROVE  \A j \in Key : Users(j)' = Users(j)
BY DEF TypeOK, Bytes, Users, Gone

-----------------------------------------------------------------------------
(* The invariant holds at the start and every step keeps it.               *)

LEMMA InitInv == Init => IInv
<1> SUFFICES ASSUME Init PROVE IInv
  OBVIOUS
<1>1. TypeOK
  BY DEF Init, TypeOK, Unused, Entry, Connection
<1>2. CountsUsers
  <2>1. \A k \in Key : Users(k) = {}
    BY DEF Init, Users
  <2>2. \A k \in Key : Cardinality(Users(k)) = 0
    BY <2>1, FS_EmptySet
  <2>3. \A k \in Key : cache[k].LoadCount = 0 /\ delayed[k] = 0
    BY DEF Init, Unused
  <2> QED BY <2>2, <2>3 DEF CountsUsers
<1>3. EntryInv /\ ConnInv
  BY DEF Init, EntryInv, ConnInv, Unused, Gone
<1> QED BY <1>1, <1>2, <1>3 DEF IInv

\* A load starts from an unused entry, so it leaves one version or an error.
LEMMA LoadedType ==
  ASSUME TypeOK, NEW k \in Key, NEW e \in Loaded(k, Unused)
  PROVE  /\ e \in [LoadCount : {0}, Data : Seq(Version), Err : BOOLEAN]
         /\ ~e.Err => Len(e.Data) = 1
<1>1. \A v \in Version : Append(<<>>, v) = <<v>> /\ <<v>> \in Seq(Version)
                         /\ Len(<<v>>) = 1
  OBVIOUS
<1>2. disk[k] \in Version
  BY DEF TypeOK
<1>3. PICK v \in Version :
        \/ e = [LoadCount |-> 0, Data |-> <<v>>, Err |-> TRUE]
        \/ e = [LoadCount |-> 0, Data |-> <<v>>, Err |-> FALSE]
        \/ e = [LoadCount |-> 0, Data |-> <<>>, Err |-> TRUE]
  BY <1>1, <1>2 DEF Loaded, Unused
<1>4. <<>> \in Seq(Version)
  OBVIOUS
<1>5. \A d \in Seq(Version), b \in BOOLEAN :
        [LoadCount |-> 0, Data |-> d, Err |-> b]
          \in [LoadCount : {0}, Data : Seq(Version), Err : BOOLEAN]
  OBVIOUS
<1>6. <<v>> \in Seq(Version) /\ Len(<<v>>) = 1
  BY <1>1
<1>7. e \in [LoadCount : {0}, Data : Seq(Version), Err : BOOLEAN]
  BY <1>3, <1>4, <1>5, <1>6
<1>8. e.Err \/ e.Data = <<v>>
  BY <1>3
<1> QED BY <1>6, <1>7, <1>8

LEMMA GetFileInv ==
  ASSUME IInv, NEW c \in Conn, NEW k \in Key, GetFile(c, k)
  PROVE  IInv'
<1>1. PICK e : /\ IF cache[k].LoadCount = 0 THEN e \in Loaded(k, cache[k])
                                             ELSE e = cache[k]
               /\ cache' = [cache EXCEPT ![k] =
                               [e EXCEPT !.LoadCount = cache[k].LoadCount + 1]]
               /\ conn' = [conn EXCEPT ![c] =
                     [pc |-> IF e.Err THEN "failed" ELSE "opened", key |-> k]]
  BY DEF GetFile
<1>2. /\ e \in [LoadCount : Int, Data : Seq(Version), Err : BOOLEAN]
      /\ ~e.Err => Len(e.Data) = 1
  <2>1. CASE cache[k].LoadCount = 0
    BY <1>1, <2>1, LoadedType DEF IInv, EntryInv
  <2>2. CASE cache[k].LoadCount # 0
    BY <1>1, <2>2 DEF IInv, TypeOK, EntryInv, Entry
  <2> QED BY <2>1, <2>2
<1>3. cache[k].LoadCount \in Nat
  BY Counted
<1>4. /\ cache'[k] = [LoadCount |-> cache[k].LoadCount + 1,
                      Data |-> e.Data, Err |-> e.Err]
      /\ \A j \in Key : j # k => cache'[j] = cache[j]
  BY <1>1, <1>2 DEF IInv, TypeOK
<1>5. TypeOK'
  <2>1. cache' \in [Key -> Entry] /\ \A j \in Key : cache'[j].LoadCount >= 0
    BY <1>1, <1>2, <1>3, <1>4 DEF IInv, TypeOK, Entry
  <2>2. conn' \in [Conn -> Connection]
    BY <1>1 DEF IInv, TypeOK, Connection
  <2> QED BY <2>1, <2>2 DEF IInv, TypeOK, GetFile
<1>6. CountsUsers'
  <2> SUFFICES ASSUME NEW j \in Key
               PROVE  /\ cache'[j].LoadCount = Cardinality(Users(j)') + delayed'[j]
                      /\ delayed'[j] \in {0, 1}
    BY DEF CountsUsers
  <2>1. delayed' = delayed
    BY DEF GetFile
  <2>2. CASE j = k
    <3>1. Cardinality(Users(k)') = Cardinality(Users(k)) + 1
      BY UsersAdd, UsersFinite, FS_AddElement DEF IInv
    <3> QED BY <1>4, <2>1, <2>2, <3>1, UsersFinite DEF IInv, CountsUsers
  <2>3. CASE j # k
    <3>1. Users(j)' = Users(j)
      BY <2>3, UsersAdd DEF IInv
    <3> QED BY <1>4, <2>1, <2>3, <3>1 DEF IInv, CountsUsers
  <2> QED BY <2>2, <2>3
<1>7. EntryInv'
  BY <1>2, <1>3, <1>4 DEF IInv, EntryInv
<1>8. ConnInv'
  <2> SUFFICES ASSUME NEW d \in Conn
               PROVE /\ conn'[d].pc \in {"opened", "sending"} =>
                           ~cache'[conn'[d].key].Err
                     /\ conn'[d].pc = "sending" =>
                           cache'[conn'[d].key].Data = conn'[d].data
    BY DEF ConnInv
  <2>1. CASE d = c
    BY <1>1, <1>4, <2>1 DEF IInv, TypeOK
  <2>2. CASE d # c /\ conn[d].pc \in {"opened", "sending"}
    <3>1. conn'[d] = conn[d] /\ conn[d].key \in Key /\ d \in Users(conn[d].key)
      BY <1>1, <2>2 DEF IInv, TypeOK, Connection, Users, Gone
    <3>2. conn[d].key = k => e = cache[k]
      BY <1>1, <3>1, Counted
    <3>3. /\ cache'[conn[d].key].Data = cache[conn[d].key].Data
          /\ cache'[conn[d].key].Err = cache[conn[d].key].Err
      BY <1>4, <3>1, <3>2
    <3> QED BY <3>1, <3>3 DEF IInv, ConnInv
  <2>3. CASE d # c /\ conn[d].pc \notin {"opened", "sending"}
    BY <1>1, <2>3 DEF IInv, TypeOK
  <2> QED BY <2>1, <2>2, <2>3
<1> QED BY <1>5, <1>6, <1>7, <1>8 DEF IInv

LEMMA BytesInv ==
  ASSUME IInv, NEW c \in Conn, Bytes(c)
  PROVE  IInv'
<1>1. /\ conn[c].pc = "opened" /\ conn[c].key \in Key
      /\ conn' = [conn EXCEPT ![c] = [pc |-> "sending", key |-> conn[c].key,
                                      data |-> cache[conn[c].key].Data]]
      /\ UNCHANGED <<disk, cache, delayed>>
  BY DEF IInv, TypeOK, Connection, Bytes, Gone
<1>2. TypeOK'
  BY <1>1 DEF IInv, TypeOK, Connection, Entry
<1>3. CountsUsers'
  BY <1>1, UsersKeep DEF IInv, CountsUsers
<1>4. EntryInv'
  BY <1>1 DEF IInv, EntryInv
<1>5. ConnInv'
  BY <1>1 DEF IInv, TypeOK, ConnInv
<1> QED BY <1>2, <1>3, <1>4, <1>5 DEF IInv

\* The last user leaves a goroutine behind, every other one only the count.
LEMMA EndInv ==
  ASSUME IInv, NEW c \in Conn, End(c)
  PROVE  IInv'
<1>1. PICK k \in Key : conn[c].key = k /\ Release(k)
  BY DEF IInv, TypeOK, Connection, End, Gone
<1>2. conn[c] # Gone /\ conn' = [conn EXCEPT ![c] = Gone] /\ disk' = disk
  BY DEF End, Gone
<1>3. /\ c \in Users(k) /\ Users(k)' = Users(k) \ {c}
      /\ \A j \in Key : j # k => Users(j)' = Users(j)
  BY <1>1, <1>2, UsersRemove DEF IInv
<1>4. Cardinality(Users(k)') = Cardinality(Users(k)) - 1
  BY <1>3, UsersFinite, FS_RemoveElement
<1>5. /\ cache[k].LoadCount \in Nat \ {0}
      /\ cache[k].LoadCount = Cardinality(Users(k)) + delayed[k]
      /\ cache[k].LoadCount = 1 => delayed[k] = 0
      /\ delayed[k] \in {0, 1}
  BY <1>3, Counted DEF IInv, CountsUsers
<1>6. /\ cache'[k].Data = cache[k].Data /\ cache'[k].Err = cache[k].Err
      /\ cache'[k].LoadCount \in Nat \ {0}
      /\ cache'[k].LoadCount = Cardinality(Users(k)') + delayed'[k]
      /\ delayed'[k] \in {0, 1}
      /\ \A j \in Key : j # k => cache'[j] = cache[j] /\ delayed'[j] = delayed[j]
      /\ cache' \in [Key -> Entry] /\ delayed' \in [Key -> Nat]
  <2>1. CASE cache[k].LoadCount > 1
    <3>1. /\ cache' = [cache EXCEPT ![k].LoadCount = @ - 1]
          /\ delayed' = delayed
      BY <1>1, <2>1 DEF Release
    <3>2. /\ cache'[k] = [cache[k] EXCEPT !.LoadCount = @ - 1]
          /\ \A j \in Key : j # k => cache'[j] = cache[j]
          /\ cache[k] \in Entry
      BY <3>1 DEF IInv, TypeOK
    <3>3. /\ cache'[k].LoadCount = cache[k].LoadCount - 1
          /\ cache'[k].Data = cache[k].Data /\ cache'[k].Err = cache[k].Err
          /\ cache'[k] \in Entry
      BY <3>2 DEF Entry
    <3>4. cache' \in [Key -> Entry]
      BY <3>1, <3>3 DEF IInv, TypeOK
    <3> QED BY <1>4, <1>5, <2>1, <3>1, <3>2, <3>3, <3>4, UsersFinite
            DEF IInv, TypeOK
  <2>2. CASE ~(cache[k].LoadCount > 1)
    BY <1>1, <1>4, <1>5, <2>2, UsersFinite DEF IInv, TypeOK, Entry, Release
  <2> QED BY <2>1, <2>2
<1>7. TypeOK'
  <2>1. \A j \in Key : cache'[j].LoadCount >= 0
    BY <1>6 DEF IInv, TypeOK
  <2>2. conn' \in [Conn -> Connection]
    BY <1>2 DEF IInv, TypeOK, Connection
  <2> QED BY <1>2, <1>6, <2>1, <2>2 DEF IInv, TypeOK
<1>8. CountsUsers'
  BY <1>3, <1>6 DEF IInv, CountsUsers
<1>9. EntryInv'
  BY <1>5, <1>6 DEF IInv, EntryInv
<1>10. ConnInv'
  <2>1. \A j \in Key : cache'[j].Data = cache[j].Data /\ cache'[j].Err = cache[j].Err
    BY <1>6
  <2>2. \A d \in Conn : conn[d].pc \in {"opened", "sending"} => conn[d].key \in Key
    BY DEF IInv, TypeOK, Connection, Gone
  <2> QED BY <1>2, <2>1, <2>2 DEF IInv, TypeOK, ConnInv, Gone
<1> QED BY <1>7, <1>8, <1>9, <1>10 DEF IInv

\* When the count reaches zero nobody uses the entry.
LEMMA ExpireInv ==
  ASSUME IInv, NEW k \in Key, Expire(k)
  PROVE  IInv'
<1>1. /\ delayed[k] = 1 /\ delayed' = [delayed EXCEPT ![k] = 0]
      /\ UNCHANGED <<disk, conn>>
  <2>1. delayed[k] \in {0, 1} /\ delayed[k] > 0
    BY DEF IInv, CountsUsers, Expire
  <2>2. delayed[k] = 1 /\ delayed[k] - 1 = 0
    BY <2>1
  <2> QED BY <2>2 DEF Expire
<1>2. /\ Cardinality(Users(k)) \in Nat
      /\ cache[k].LoadCount - 1 = Cardinality(Users(k))
      /\ cache[k].LoadCount - 1 = 0 <=> Users(k) = {}
  BY <1>1, Counted, UsersFinite, FS_EmptySet DEF IInv, CountsUsers
<1>3. /\ cache' \in [Key -> Entry]
      /\ cache'[k].LoadCount = Cardinality(Users(k))
      /\ IF Users(k) = {} THEN cache'[k] = Unused
         ELSE cache'[k].Data = cache[k].Data /\ cache'[k].Err = cache[k].Err
      /\ \A j \in Key : j # k => cache'[j] = cache[j]
  <2>1. CASE Users(k) = {}
    BY <1>2, <2>1 DEF IInv, TypeOK, Expire, Entry, Unused
  <2>2. CASE Users(k) # {}
    <3>1. cache' = [cache EXCEPT ![k] =
                      [cache[k] EXCEPT !.LoadCount = cache[k].LoadCount - 1]]
      BY <1>2, <2>2 DEF Expire
    <3>2. cache[k] \in Entry /\ cache[k].LoadCount - 1 \in Int
      BY DEF IInv, TypeOK, Entry
    <3>3. [cache[k] EXCEPT !.LoadCount = cache[k].LoadCount - 1] \in Entry
      BY <3>2 DEF Entry
    <3>4. cache' \in [Key -> Entry]
      BY <3>1, <3>3 DEF IInv, TypeOK
    <3>5. cache'[k] = [cache[k] EXCEPT !.LoadCount = cache[k].LoadCount - 1]
      BY <3>1 DEF IInv, TypeOK
    <3> QED BY <1>2, <2>2, <3>1, <3>2, <3>4, <3>5 DEF IInv, TypeOK, Entry
  <2> QED BY <2>1, <2>2
<1>4. \A j \in Key : Users(j)' = Users(j)
  BY <1>1 DEF Users
<1>5. TypeOK'
  <2>1. \A j \in Key : cache'[j].LoadCount >= 0
    BY <1>2, <1>3 DEF IInv, TypeOK
  <2>2. delayed' \in [Key -> Nat]
    BY <1>1 DEF IInv, TypeOK
  <2> QED BY <1>1, <1>3, <2>1, <2>2 DEF IInv, TypeOK
<1>6. CountsUsers'
  BY <1>1, <1>2, <1>3, <1>4 DEF IInv, TypeOK, CountsUsers
<1>7. EntryInv'
  <2> SUFFICES ASSUME NEW j \in Key
               PROVE  /\ cache'[j].LoadCount = 0 => cache'[j] = Unused
                      /\ cache'[j].LoadCount # 0 /\ ~cache'[j].Err =>
                           Len(cache'[j].Data) = 1
    BY DEF EntryInv
  <2>1. CASE j # k
    BY <1>3, <2>1 DEF IInv, EntryInv
  <2>2. CASE j = k /\ Users(k) = {}
    BY <1>3, <2>2 DEF Unused
  <2>3. CASE j = k /\ Users(k) # {}
    <3>1. cache[k].LoadCount # 0
      BY <2>3, Counted
    <3>2. Cardinality(Users(k)) # 0
      BY <1>2, <2>3
    <3> QED BY <1>3, <2>3, <3>1, <3>2 DEF IInv, EntryInv
  <2> QED BY <2>1, <2>2, <2>3
<1>8. ConnInv'
  <2> SUFFICES ASSUME NEW d \in Conn, conn[d].pc \in {"opened", "sending"}
               PROVE  /\ ~cache'[conn[d].key].Err
                      /\ conn[d].pc = "sending" =>
                            cache'[conn[d].key].Data = conn[d].data
    BY <1>1 DEF ConnInv
  <2>1. conn[d].key \in Key /\ d \in Users(conn[d].key)
    BY DEF IInv, TypeOK, Connection, Users, Gone
  <2>2. /\ cache'[conn[d].key].Data = cache[conn[d].key].Data
        /\ cache'[conn[d].key].Err = cache[conn[d].key].Err
    BY <1>3, <2>1
  <2> QED BY <2>2 DEF IInv, ConnInv
<1> QED BY <1>5, <1>6, <1>7, <1>8 DEF IInv

LEMMA Invariance == Spec => []IInv
<1>1. Init => IInv
  BY InitInv
<1>2. IInv /\ [Next]_vars => IInv'
  <2> SUFFICES ASSUME IInv, [Next]_vars PROVE IInv'
    OBVIOUS
  <2>1. ASSUME NEW c \in Conn, NEW k \in Key, GetFile(c, k) PROVE IInv'
    BY <2>1, GetFileInv
  <2>2. ASSUME NEW c \in Conn, Bytes(c) PROVE IInv'
    BY <2>2, BytesInv
  <2>3. ASSUME NEW c \in Conn, End(c) PROVE IInv'
    BY <2>3, EndInv
  <2>4. ASSUME NEW k \in Key, Expire(k) PROVE IInv'
    BY <2>4, ExpireInv
  <2>5. ASSUME NEW k \in Key, EditFile(k) PROVE IInv'
    BY <2>5 DEF IInv, TypeOK, CountsUsers, EntryInv, ConnInv, Users, EditFile
  <2>6. CASE UNCHANGED vars
    BY <2>6 DEF IInv, TypeOK, CountsUsers, EntryInv, ConnInv, Users, vars
  <2> QED BY <2>1, <2>2, <2>3, <2>4, <2>5, <2>6 DEF Next
<1> QED BY <1>1, <1>2, PTL DEF Spec

-----------------------------------------------------------------------------
(* The theorems.                                                           *)

\* The cache and the goroutines keep their types.
THEOREM TypeCorrect == Spec => []TypeOK
<1>1. IInv => TypeOK
  BY DEF IInv
<1> QED BY <1>1, Invariance, PTL

\* LoadCount counts users and sleepers, and there is one sleeper at most.
THEOREM CountCorrect == Spec => []CountsUsers
<1>1. IInv => CountsUsers
  BY DEF IInv
<1> QED BY <1>1, Invariance, PTL

\* What a transfer sends stays one version of the file.
THEOREM ServedCorrect == Spec => []ServedWhole
<1>1. IInv => ServedWhole
  <2> SUFFICES ASSUME IInv, NEW c \in Conn, conn[c].pc = "sending"
               PROVE  /\ cache[conn[c].key].Data = conn[c].data
                      /\ Len(conn[c].data) = 1
    BY DEF ServedWhole
  <2>1. conn[c].key \in Key /\ c \in Users(conn[c].key)
    BY DEF IInv, TypeOK, Connection, Users, Gone
  <2> QED BY <2>1, Counted DEF IInv, EntryInv, ConnInv
<1> QED BY <1>1, Invariance, PTL

-----------------------------------------------------------------------------
(* The transfer of a file.  Numbers modulo d first.                        *)

\* The only multiple of d less than d away from 0 is 0.
LEMMA SmallMultiple ==
  ASSUME NEW d \in Nat \ {0}, NEW a \in Int, d * a < d, -d < d * a PROVE a = 0
<1>1. CASE a >= 1
  <2>1. d * a >= d * 1 BY <1>1, SMT
  <2> QED BY <2>1, SMT
<1>2. CASE a <= -1
  <2>1. d * a <= d * (-1) BY <1>2, SMT
  <2> QED BY <2>1, SMT
<1> QED BY <1>1, <1>2, SMT

\* Numbers less than d apart that have one id modulo d are the same.
LEMMA ModNear ==
  ASSUME NEW d \in Nat \ {0}, NEW k \in Nat, NEW m \in Nat, k % d = m % d,
         k - m < d, m - k < d
  PROVE  k = m
<1>1. k = d * (k \div d) + (k % d) BY SMT
<1>2. m = d * (m \div d) + (m % d) BY SMT
<1>3. k \div d \in Int /\ m \div d \in Int BY SMT
<1>4. k - m = d * ((k \div d) - (m \div d)) BY <1>1, <1>2, <1>3, SMT
<1>5. (k \div d) - (m \div d) = 0 BY <1>3, <1>4, SmallMultiple, SMT
<1> QED BY <1>4, <1>5, SMT

\* Quotient and remainder of a number given by them.
LEMMA DivMod ==
  ASSUME NEW d \in Nat \ {0}, NEW q \in Nat, NEW r \in Nat, r < d
  PROVE  (q * d + r) \div d = q /\ (q * d + r) % d = r
<1> DEFINE n == q * d + r
<1>0. n \in Nat BY SMT
<1> HIDE DEF n
<1>1. n = d * (n \div d) + (n % d) /\ n % d \in 0..(d - 1) /\ n \div d \in Int BY <1>0, SMT
<1>2. n = d * q + r BY DEF n
<1>3. d * ((n \div d) - q) = r - (n % d) BY <1>1, <1>2, SMT
<1>4. (n \div d) - q = 0
  <2> DEFINE a == (n \div d) - q
  <2>1. a \in Int /\ d * a = r - (n % d) BY <1>1, <1>3
  <2>2. d * a < d /\ -d < d * a BY <1>1, <2>1, SMT
  <2> HIDE DEF a
  <2>3. a = 0 BY <2>1, <2>2, SmallMultiple
  <2> QED BY <2>3 DEF a
<1>5. n \div d = q BY <1>1, <1>4, SMT
<1>6. n % d = r BY <1>1, <1>2, <1>5, SMT
<1> QED BY <1>5, <1>6 DEF n

-----------------------------------------------------------------------------
(* Queues of numbered packets. *)

\* The packets of a queue, each by the numbers it may have, lie in a window from low to
\* high: one may be below it by one, unless one numbered c is before it.
Numbered(N, low, high, c) ==
  \A i \in DOMAIN N : N[i] # {} =>
    /\ \E k \in N[i] : low - 1 <= k /\ k <= high
    /\ (\E j \in DOMAIN N : j < i /\ c \in N[j]) => \E k \in N[i] : low <= k /\ k <= high

\* The numbers of one packet are at least IdSpace apart.
Apart(N) ==
  \A i \in DOMAIN N : \A k, m \in N[i] : k - m < IdSpace /\ m - k < IdSpace => k = m

\* The queue without its m-th packet.
Shorter(N, m) == [i \in 1..(Len(N) - 1) |-> N[IF i < m THEN i ELSE i + 1]]

\* A wider window holds for the same queue.
LEMMA NumberedWider ==
  ASSUME NEW N \in Seq(SUBSET Nat), NEW low \in Int, NEW high \in Int, NEW c \in Int,
         NEW lower \in Int, NEW higher \in Int, lower <= low, high <= higher,
         Numbered(N, low, high, c)
  PROVE  Numbered(N, lower, higher, c)
<1> SUFFICES ASSUME NEW i \in DOMAIN N, N[i] # {}
             PROVE  /\ \E k \in N[i] : lower - 1 <= k /\ k <= higher
                    /\ (\E j \in DOMAIN N : j < i /\ c \in N[j]) =>
                         \E k \in N[i] : lower <= k /\ k <= higher
  BY DEF Numbered
<1>0. N[i] \subseteq Nat OBVIOUS
<1>1. \E k \in N[i] : lower - 1 <= k /\ k <= higher
  <2>1. PICK k \in N[i] : low - 1 <= k /\ k <= high BY DEF Numbered
  <2>2. k \in Nat BY <1>0
  <2>3. lower - 1 <= k /\ k <= higher BY <2>1, <2>2
  <2> QED BY <2>3
<1>2. ASSUME \E j \in DOMAIN N : j < i /\ c \in N[j]
      PROVE  \E k \in N[i] : lower <= k /\ k <= higher
  <2>1. PICK k \in N[i] : low <= k /\ k <= high BY <1>2 DEF Numbered
  <2>2. k \in Nat BY <1>0
  <2>3. lower <= k /\ k <= higher BY <2>1, <2>2
  <2> QED BY <2>3
<1> QED BY <1>1, <1>2

\* A packet taken out leaves the others in the window.
LEMMA NumberedShorter ==
  ASSUME NEW N \in Seq(SUBSET Nat), NEW low \in Int, NEW high \in Int, NEW c \in Int,
         NEW m \in 1..2, m <= Len(N), Numbered(N, low, high, c)
  PROVE  Numbered(Shorter(N, m), low, high, c)
<1> DEFINE Old(i) == IF i < m THEN i ELSE i + 1
           S == Shorter(N, m)
<1>0. /\ DOMAIN S = 1..(Len(N) - 1) /\ DOMAIN N = 1..Len(N) /\ Len(N) \in Nat
      /\ \A i \in 1..(Len(N) - 1) : S[i] = N[Old(i)] /\ Old(i) \in 1..Len(N)
  BY DEF Shorter
<1>1. \A i, j \in 1..(Len(N) - 1) : j < i => Old(j) < Old(i) BY <1>0
<1> HIDE DEF Old, S
<1>2. SUFFICES ASSUME NEW i \in 1..(Len(N) - 1), S[i] # {}
               PROVE  /\ \E k \in S[i] : low - 1 <= k /\ k <= high
                      /\ (\E j \in 1..(Len(N) - 1) : j < i /\ c \in S[j]) =>
                           \E k \in S[i] : low <= k /\ k <= high
  BY <1>0 DEF Numbered, S
<1>3. S[i] = N[Old(i)] /\ Old(i) \in DOMAIN N BY <1>0
<1>4. \E k \in S[i] : low - 1 <= k /\ k <= high BY <1>2, <1>3 DEF Numbered
<1>5. ASSUME NEW j \in 1..(Len(N) - 1), j < i, c \in S[j]
      PROVE  \E k \in S[i] : low <= k /\ k <= high
  <2>1. Old(j) \in DOMAIN N /\ Old(j) < Old(i) /\ c \in N[Old(j)] BY <1>0, <1>1, <1>5
  <2> QED BY <1>2, <1>3, <2>1 DEF Numbered
<1> QED BY <1>4, <1>5

\* What is appended lies in the window, by at most one below it, and not below it
\* behind a packet numbered c.
LEMMA NumberedLonger ==
  ASSUME NEW N \in Seq(SUBSET Nat), NEW low \in Int, NEW high \in Int, NEW c \in Int,
         NEW X \in SUBSET Nat, Numbered(N, low, high, c),
         X # {} => /\ \E k \in X : low - 1 <= k /\ k <= high
                   /\ (\E j \in DOMAIN N : c \in N[j]) => \E k \in X : low <= k /\ k <= high
  PROVE  Numbered(Append(N, X), low, high, c)
<1> DEFINE A == Append(N, X)
<1>0. /\ DOMAIN A = 1..(Len(N) + 1) /\ DOMAIN N = 1..Len(N) /\ Len(N) \in Nat
      /\ \A i \in 1..Len(N) : A[i] = N[i]
      /\ A[Len(N) + 1] = X
  OBVIOUS
<1> HIDE DEF A
<1>2. SUFFICES ASSUME NEW i \in 1..(Len(N) + 1), A[i] # {}
               PROVE  /\ \E k \in A[i] : low - 1 <= k /\ k <= high
                      /\ (\E j \in 1..(Len(N) + 1) : j < i /\ c \in A[j]) =>
                           \E k \in A[i] : low <= k /\ k <= high
  BY <1>0 DEF Numbered, A
<1>3. CASE i = Len(N) + 1
  <2>1. \A j \in 1..(Len(N) + 1) : j < i => j \in DOMAIN N /\ A[j] = N[j] BY <1>0, <1>3
  <2> QED BY <1>0, <1>2, <1>3, <2>1
<1>4. CASE i # Len(N) + 1
  <2>1. i \in DOMAIN N /\ A[i] = N[i] BY <1>0, <1>4
  <2>2. \A j \in 1..(Len(N) + 1) : j < i => j \in DOMAIN N /\ A[j] = N[j] BY <1>0, <1>4
  <2> QED BY <1>2, <2>1, <2>2 DEF Numbered
<1> QED BY <1>3, <1>4

\* When c, the first or second of the queue, has been read and the one waited for is
\* c + 1, the window begins one later, unless c has overtaken a packet.
LEMMA NumberedLater ==
  ASSUME NEW N \in Seq(SUBSET Nat), NEW low \in Int, NEW high \in Int, NEW c \in Nat,
         NEW m \in 1..2, m <= Len(N), Numbered(N, low, high, c), Apart(N),
         c \in N[m], high <= c, c - low + m < IdSpace, IdSpace \in Nat
  PROVE  Numbered(Shorter(N, m), low + 2 - m, high, c + 1)
<1> DEFINE Old(i) == IF i < m THEN i ELSE i + 1
           S == Shorter(N, m)
<1>0. /\ DOMAIN S = 1..(Len(N) - 1) /\ DOMAIN N = 1..Len(N) /\ Len(N) \in Nat
      /\ \A i \in 1..(Len(N) - 1) : S[i] = N[Old(i)] /\ Old(i) \in 1..Len(N)
      /\ \A i \in 1..(Len(N) - 1) : Old(i) < m => m = 2
      /\ \A i \in 1..(Len(N) - 1) : Old(i) < m \/ m < Old(i)
      /\ \A i \in 1..Len(N) : N[i] \subseteq Nat
  BY DEF Shorter
<1> HIDE DEF Old, S
<1>1. \A i \in 1..(Len(N) - 1) : S[i] # {} => \E k \in S[i] : low + 1 - m <= k /\ k <= high
  <2> SUFFICES ASSUME NEW i \in 1..(Len(N) - 1), S[i] # {}
               PROVE  \E k \in S[i] : low + 1 - m <= k /\ k <= high
    OBVIOUS
  <2>1. S[i] = N[Old(i)] /\ Old(i) \in DOMAIN N /\ N[Old(i)] # {} /\ N[Old(i)] \subseteq Nat
    BY <1>0
  <2>2. CASE m < Old(i)
    <3>1. m \in DOMAIN N BY <1>0
    <3>2. PICK k \in N[Old(i)] : low <= k /\ k <= high BY <2>1, <2>2, <3>1 DEF Numbered
    <3>3. k \in Nat /\ low + 1 - m <= k BY <2>1, <3>2
    <3> QED BY <2>1, <3>2, <3>3
  <2>3. CASE Old(i) < m
    <3>2. PICK k \in N[Old(i)] : low - 1 <= k /\ k <= high BY <2>1 DEF Numbered
    <3>3. k \in Nat /\ low + 1 - m <= k BY <1>0, <2>1, <2>3, <3>2
    <3> QED BY <2>1, <3>2, <3>3
  <2> QED BY <1>0, <2>2, <2>3
<1>2. \A j \in 1..(Len(N) - 1) : c + 1 \notin S[j]
  <2> SUFFICES ASSUME NEW j \in 1..(Len(N) - 1), c + 1 \in S[j] PROVE FALSE OBVIOUS
  <2>1. PICK k \in S[j] : low + 1 - m <= k /\ k <= high BY <1>1
  <2>2. S[j] = N[Old(j)] /\ Old(j) \in DOMAIN N /\ k \in Nat BY <1>0
  <2>3. (c + 1) - k < IdSpace /\ k - (c + 1) < IdSpace /\ k # c + 1 BY <2>1, <2>2
  <2> QED BY <2>2, <2>3 DEF Apart
<1>3. \A i \in 1..(Len(N) - 1) : S[i] # {} => \E k \in S[i] : (low + 2 - m) - 1 <= k /\ k <= high
  <2> SUFFICES ASSUME NEW i \in 1..(Len(N) - 1), S[i] # {}
               PROVE  \E k \in S[i] : (low + 2 - m) - 1 <= k /\ k <= high
    OBVIOUS
  <2>1. PICK k \in S[i] : low + 1 - m <= k /\ k <= high BY <1>1
  <2>2. (low + 2 - m) - 1 = low + 1 - m OBVIOUS
  <2> QED BY <2>1, <2>2
<1> QED BY <1>0, <1>2, <1>3 DEF Numbered, S

\* The packet that may be next is the one with number c, or none that was sent.
LEMMA NumberedExact ==
  ASSUME NEW N \in Seq(SUBSET Nat), NEW low \in Int, NEW high \in Int, NEW c \in Nat,
         Numbered(N, low, high, c), Apart(N), NEW i \in DOMAIN N, c \in N[i],
         high <= c, c - low + 1 < IdSpace, IdSpace \in Nat
  PROVE  c <= high
<1>1. N[i] \subseteq Nat /\ N[i] # {} OBVIOUS
<1>2. PICK k \in N[i] : low - 1 <= k /\ k <= high BY <1>1 DEF Numbered
<1>3. c - k < IdSpace /\ k - c < IdSpace /\ k \in Nat BY <1>1, <1>2
<1>4. k = c BY <1>3 DEF Apart
<1> QED BY <1>2, <1>4

-----------------------------------------------------------------------------
(* The packets under way and their numbers. *)

Answer ==
  [port : Ports, op : {"OACK", "DATA"}, id : Nat, data : Seq(Nat), late : BOOLEAN]
Question == [port : Ports \cup {0}, op : {"RRQ", "ACK"}, id : Nat, late : BOOLEAN]

\* Block k of a file f in blocks of z; what packet k carries, OACK being number 0.
Part(f, z, k) == SubSeq(f, (k - 1) * z + 1, (k - 1) * z + Lesser(Len(f) - (k - 1) * z, z))
IsBlock(f, z, packet, k) ==
  IF k = 0 THEN packet.op = "OACK"
  ELSE /\ packet.op = "DATA" /\ packet.id = k % IdSpace
       /\ (k - 1) * z <= Len(f) /\ packet.data = Part(f, z, k)

\* The numbers that a packet may have, the code knowing only their ids.
BlockNumbers(f, z, port, packet) ==
  IF packet.port = port THEN {k \in Nat : IsBlock(f, z, packet, k)} ELSE {}
AckNumbers(packet) ==
  IF packet.op = "ACK" THEN {k \in Nat : packet.id = k % IdSpace} ELSE {}

FromServer(f, z, port, q) == [i \in 1..Len(q) |-> BlockNumbers(f, z, port, q[i])]
FromClient(q) == [i \in 1..Len(q) |-> AckNumbers(q[i])]

Overtaken(packet) == [packet EXCEPT !.late = TRUE]
\* W is q without its n-th packet, one that is overtaken being marked.
Removed(R, q, n, W) ==
  /\ n \in 1..2 /\ n <= Len(q) /\ W \in Seq(R) /\ Len(W) = Len(q) - 1
  /\ \A i \in 1..(Len(q) - 1) :
       W[i] = IF n = 2 /\ i = 1 THEN Overtaken(q[1]) ELSE q[IF i < n THEN i ELSE i + 1]

\* What Without leaves of any queue.
LEMMA WithoutElements ==
  ASSUME NEW R, NEW q \in Seq(R), NEW n, May(q, n), \A x \in R : Overtaken(x) \in R
  PROVE  Removed(R, q, n, Without(q, n))
<1>0. n \in 1..2 /\ n <= Len(q) /\ Len(q) \in Nat BY DEF May
<1>1. CASE n = 1
  <2>1. q # <<>> BY <1>0
  <2>2. /\ Tail(q) \in Seq(R) /\ Len(Tail(q)) = Len(q) - 1
        /\ \A i \in 1..(Len(q) - 1) : Tail(q)[i] = q[i + 1]
    BY <2>1, HeadTailProperties
  <2>3. Without(q, n) = Tail(q) BY <1>1 DEF Without
  <2>4. \A i \in 1..(Len(q) - 1) :
          /\ (IF n = 2 /\ i = 1 THEN Overtaken(q[1])
              ELSE q[IF i < n THEN i ELSE i + 1]) = q[i + 1]
    <3> TAKE i \in 1..(Len(q) - 1)
    <3>1. (IF i < n THEN i ELSE i + 1) = i + 1 BY <1>0, <1>1
    <3>2. ~(n = 2 /\ i = 1) BY <1>1
    <3> QED BY <3>1, <3>2, Zenon
  <2> QED BY <1>0, <2>2, <2>3, <2>4, Zenon DEF Removed
<1>2. CASE n = 2
  <2> DEFINE late == Overtaken(q[1])
             X == <<late>>
             Y == SubSeq(q, 3, Len(q))
  <2>1. q[1] \in R /\ \A i \in 3..Len(q) : q[i] \in R BY <1>0, <1>2, ElementOfSeq
  <2>2. late \in R BY <2>1
  <2> HIDE DEF late
  <2>3. X \in Seq(R) /\ Len(X) = 1 /\ X[1] = late BY <2>2
  <2>4. /\ Y \in Seq(R) /\ Len(Y) = IF 3 <= Len(q) THEN Len(q) - 3 + 1 ELSE 0
        /\ \A i \in 1..(Len(q) - 3 + 1) : Y[i] = q[3 + i - 1]
    <3>1. Len(q) \in Int /\ 3 \in Int BY <1>0
    <3> QED BY <2>1, <3>1, SubSeqProperties
  <2> HIDE DEF X, Y
  <2>5. Len(Y) = Len(q) - 2 /\ \A i \in 1..(Len(q) - 2) : Y[i] = q[i + 2]
    <3>0. Len(q) \in Nat /\ 2 <= Len(q) BY <1>0, <1>2
    <3>1. Len(Y) = Len(q) - 2
      <4>1. \A m \in Nat : 2 <= m => (IF 3 <= m THEN m - 3 + 1 ELSE 0) = m - 2 OBVIOUS
      <4>2. (IF 3 <= Len(q) THEN Len(q) - 3 + 1 ELSE 0) = Len(q) - 2 BY <3>0, <4>1
      <4> QED BY <2>4, <4>2
    <3>2. ASSUME NEW i \in 1..(Len(q) - 2) PROVE Y[i] = q[i + 2]
      <4>1. i \in 1..(Len(q) - 3 + 1) /\ 3 + i - 1 = i + 2 BY <1>0
      <4> QED BY <2>4, <4>1
    <3> QED BY <3>1, <3>2
  <2>6. /\ X \o Y \in Seq(R) /\ Len(X \o Y) = Len(q) - 1
        /\ \A i \in 1..(Len(q) - 1) : (X \o Y)[i] = IF i <= 1 THEN late ELSE Y[i - 1]
    <3>1. /\ X \o Y \in Seq(R) /\ Len(X \o Y) = Len(X) + Len(Y)
          /\ \A i \in 1..(Len(X) + Len(Y)) :
               (X \o Y)[i] = IF i <= Len(X) THEN X[i] ELSE Y[i - Len(X)]
      BY <2>3, <2>4, ConcatProperties
    <3> QED BY <1>0, <2>3, <2>5, <3>1
  <2>7. Without(q, n) = X \o Y BY <1>2 DEF Without, X, Y, late, Overtaken
  <2>8. \A i \in 1..(Len(q) - 1) : i # 1 => Y[i - 1] = q[i + 1] BY <1>0, <2>5
  <2>9. \A i \in 1..(Len(q) - 1) :
          (X \o Y)[i] = IF n = 2 /\ i = 1 THEN late ELSE q[IF i < n THEN i ELSE i + 1]
    <3> TAKE i \in 1..(Len(q) - 1)
    <3>1. CASE i = 1 BY <1>2, <2>6, <3>1
    <3>2. CASE i # 1
      <4>1. ~(i <= 1) /\ (IF i < n THEN i ELSE i + 1) = i + 1 BY <1>0, <1>2, <3>2
      <4> QED BY <2>6, <2>8, <3>2, <4>1
    <3> QED BY <3>1, <3>2
  <2> QED BY <1>0, <2>6, <2>7, <2>9, Zenon DEF late, Removed
<1>3. n = 1 \/ n = 2 BY <1>0
<1> QED BY <1>1, <1>2, <1>3, Zenon

\* What Without leaves of the packets for the client, and of their numbers.
LEMMA WithoutAnswers ==
  ASSUME NEW q \in Seq(Answer), NEW n, May(q, n), NEW f, NEW z, NEW port
  PROVE  /\ Without(q, n) \in Seq(Answer)
         /\ FromServer(f, z, port, Without(q, n)) = Shorter(FromServer(f, z, port, q), n)
         /\ \A i \in DOMAIN Without(q, n) : \E j \in DOMAIN q :
              /\ Without(q, n)[i].port = q[j].port /\ Without(q, n)[i].op = q[j].op
              /\ Without(q, n)[i].id = q[j].id /\ Without(q, n)[i].data = q[j].data
<1> DEFINE W == Without(q, n)
           Old(i) == IF i < n THEN i ELSE i + 1
           Same(x, y) == /\ x \in Answer /\ x.port = y.port /\ x.op = y.op
                         /\ x.id = y.id /\ x.data = y.data
<1>0. \A x \in Answer : Overtaken(x) \in Answer BY DEF Answer, Overtaken
<1>1. /\ Len(q) \in Nat /\ DOMAIN q = 1..Len(q) /\ n \in 1..2 /\ n <= Len(q)
      /\ W \in Seq(Answer) /\ DOMAIN W = 1..(Len(q) - 1) /\ Len(W) = Len(q) - 1
      /\ \A i \in 1..(Len(q) - 1) : Old(i) \in 1..Len(q)
      /\ \A i \in 1..Len(q) : q[i] \in Answer
      /\ \A i \in 1..(Len(q) - 1) :
           W[i] = IF n = 2 /\ i = 1 THEN Overtaken(q[1]) ELSE q[Old(i)]
  <2>1. Removed(Answer, q, n, W) BY <1>0, WithoutElements
  <2>2. /\ Len(q) \in Nat /\ DOMAIN q = 1..Len(q)
        /\ \A i \in 1..Len(q) : q[i] \in Answer
    OBVIOUS
  <2>3. \A i \in 1..(Len(q) - 1) : Old(i) \in 1..Len(q) BY <2>2
  <2> HIDE DEF W, Old
  <2>4. DOMAIN W = 1..(Len(q) - 1) BY <2>1, <2>2 DEF Removed
  <2> QED BY <2>1, <2>2, <2>3, <2>4 DEF Removed, Old
<1>2. \A x \in Answer : Same(Overtaken(x), x) /\ Same(x, x) BY DEF Overtaken, Answer
<1>3. n = 2 => Old(1) = 1 OBVIOUS
<1> HIDE DEF W, Old, Same
<1>4. \A i \in 1..(Len(q) - 1) : Same(W[i], q[Old(i)]) BY <1>1, <1>2, <1>3
<1>6. \A i \in 1..(Len(q) - 1) :
        BlockNumbers(f, z, port, W[i]) = BlockNumbers(f, z, port, q[Old(i)])
  BY <1>4 DEF Same, BlockNumbers, IsBlock
<1>7. FromServer(f, z, port, W) = Shorter(FromServer(f, z, port, q), n)
  <2> DEFINE F == FromServer(f, z, port, q)
  <2>1. Len(F) = Len(q) /\ \A i \in 1..Len(q) : F[i] = BlockNumbers(f, z, port, q[i])
    BY <1>1 DEF FromServer
  <2>2. Shorter(F, n) = [i \in 1..(Len(q) - 1) |-> F[Old(i)]] BY <2>1 DEF Shorter, Old
  <2>3. FromServer(f, z, port, W) = [i \in 1..(Len(q) - 1) |-> BlockNumbers(f, z, port, W[i])]
    BY <1>1 DEF FromServer
  <2> HIDE DEF F
  <2>4. \A i \in 1..(Len(q) - 1) : F[Old(i)] = BlockNumbers(f, z, port, W[i])
    BY <1>1, <1>6, <2>1
  <2> QED BY <2>2, <2>3, <2>4 DEF F
<1>8. \A i \in DOMAIN W : \E j \in DOMAIN q :
        W[i].port = q[j].port /\ W[i].op = q[j].op /\ W[i].id = q[j].id /\ W[i].data = q[j].data
  BY <1>1, <1>4 DEF Same
<1> QED BY <1>1, <1>7, <1>8 DEF W

\* What Without leaves of the packets for the server, and of their numbers.
LEMMA WithoutQuestions ==
  ASSUME NEW q \in Seq(Question), NEW n, May(q, n)
  PROVE  /\ Without(q, n) \in Seq(Question)
         /\ FromClient(Without(q, n)) = Shorter(FromClient(q), n)
         /\ \A i \in DOMAIN Without(q, n) : \E j \in DOMAIN q :
              /\ Without(q, n)[i].port = q[j].port /\ Without(q, n)[i].op = q[j].op
              /\ Without(q, n)[i].id = q[j].id
<1> DEFINE W == Without(q, n)
           Old(i) == IF i < n THEN i ELSE i + 1
           Same(x, y) == /\ x \in Question /\ x.port = y.port /\ x.op = y.op /\ x.id = y.id
<1>0. \A x \in Question : Overtaken(x) \in Question BY DEF Question, Overtaken
<1>1. /\ Len(q) \in Nat /\ DOMAIN q = 1..Len(q) /\ n \in 1..2 /\ n <= Len(q)
      /\ W \in Seq(Question) /\ DOMAIN W = 1..(Len(q) - 1) /\ Len(W) = Len(q) - 1
      /\ \A i \in 1..(Len(q) - 1) : Old(i) \in 1..Len(q)
      /\ \A i \in 1..Len(q) : q[i] \in Question
      /\ \A i \in 1..(Len(q) - 1) :
           W[i] = IF n = 2 /\ i = 1 THEN Overtaken(q[1]) ELSE q[Old(i)]
  <2>1. Removed(Question, q, n, W) BY <1>0, WithoutElements
  <2>2. /\ Len(q) \in Nat /\ DOMAIN q = 1..Len(q)
        /\ \A i \in 1..Len(q) : q[i] \in Question
    OBVIOUS
  <2>3. \A i \in 1..(Len(q) - 1) : Old(i) \in 1..Len(q) BY <2>2
  <2> HIDE DEF W, Old
  <2>4. DOMAIN W = 1..(Len(q) - 1) BY <2>1, <2>2 DEF Removed
  <2> QED BY <2>1, <2>2, <2>3, <2>4 DEF Removed, Old
<1>2. \A x \in Question : Same(Overtaken(x), x) /\ Same(x, x) BY DEF Overtaken, Question
<1>3. n = 2 => Old(1) = 1 OBVIOUS
<1> HIDE DEF W, Old, Same
<1>4. \A i \in 1..(Len(q) - 1) : Same(W[i], q[Old(i)]) BY <1>1, <1>2, <1>3
<1>6. \A i \in 1..(Len(q) - 1) :
        AckNumbers(W[i]) = AckNumbers(q[Old(i)])
  BY <1>4 DEF Same, AckNumbers
<1>7. FromClient(W) = Shorter(FromClient(q), n)
  <2> DEFINE F == FromClient(q)
  <2>1. Len(F) = Len(q) /\ \A i \in 1..Len(q) : F[i] = AckNumbers(q[i])
    BY <1>1 DEF FromClient
  <2>2. Shorter(F, n) = [i \in 1..(Len(q) - 1) |-> F[Old(i)]] BY <2>1 DEF Shorter, Old
  <2>3. FromClient(W) = [i \in 1..(Len(q) - 1) |-> AckNumbers(W[i])]
    BY <1>1 DEF FromClient
  <2> HIDE DEF F
  <2>4. \A i \in 1..(Len(q) - 1) : F[Old(i)] = AckNumbers(W[i])
    BY <1>1, <1>6, <2>1
  <2> QED BY <2>2, <2>3, <2>4 DEF F
<1>8. \A i \in DOMAIN W : \E j \in DOMAIN q :
        W[i].port = q[j].port /\ W[i].op = q[j].op /\ W[i].id = q[j].id
  BY <1>1, <1>4 DEF Same
<1> QED BY <1>1, <1>7, <1>8 DEF W

\* A packet for the client appended is its numbers appended.
LEMMA AppendAnswers ==
  ASSUME NEW q \in Seq(Answer), NEW packet \in Answer, NEW f, NEW z, NEW port
  PROVE  /\ Append(q, packet) \in Seq(Answer)
         /\ FromServer(f, z, port, Append(q, packet)) =
              Append(FromServer(f, z, port, q), BlockNumbers(f, z, port, packet))
<1> DEFINE F == FromServer(f, z, port, q)
           X == BlockNumbers(f, z, port, packet)
           A == Append(q, packet)
<1>1. /\ Len(q) \in Nat /\ Len(A) = Len(q) + 1 /\ A[Len(q) + 1] = packet
      /\ \A i \in 1..Len(q) : A[i] = q[i]
  OBVIOUS
<1>2. Len(F) = Len(q) /\ F = [i \in 1..Len(q) |-> BlockNumbers(f, z, port, q[i])]
  BY <1>1 DEF FromServer
<1>3. FromServer(f, z, port, A) = [i \in 1..(Len(q) + 1) |-> BlockNumbers(f, z, port, A[i])]
  BY <1>1 DEF FromServer
<1> HIDE DEF F, X, A
<1>4. Append(F, X) = [i \in 1..(Len(q) + 1) |-> IF i = Len(q) + 1 THEN X ELSE F[i]]
  BY <1>2
<1>5. \A i \in 1..(Len(q) + 1) :
        BlockNumbers(f, z, port, A[i]) = IF i = Len(q) + 1 THEN X ELSE F[i]
  BY <1>1, <1>2 DEF X
<1>6. FromServer(f, z, port, A) = Append(F, X) BY <1>3, <1>4, <1>5
<1> QED BY <1>6 DEF A, F, X

\* A packet for the server appended is its number appended.
LEMMA AppendQuestions ==
  ASSUME NEW q \in Seq(Question), NEW packet \in Question
  PROVE  /\ Append(q, packet) \in Seq(Question)
         /\ FromClient(Append(q, packet)) = Append(FromClient(q), AckNumbers(packet))
<1> DEFINE F == FromClient(q)
           X == AckNumbers(packet)
           A == Append(q, packet)
<1>1. /\ Len(q) \in Nat /\ Len(A) = Len(q) + 1 /\ A[Len(q) + 1] = packet
      /\ \A i \in 1..Len(q) : A[i] = q[i]
  OBVIOUS
<1>2. Len(F) = Len(q) /\ F = [i \in 1..Len(q) |-> AckNumbers(q[i])] BY <1>1 DEF FromClient
<1>3. FromClient(A) = [i \in 1..(Len(q) + 1) |-> AckNumbers(A[i])]
  BY <1>1 DEF FromClient
<1> HIDE DEF F, X, A
<1>4. Append(F, X) = [i \in 1..(Len(q) + 1) |-> IF i = Len(q) + 1 THEN X ELSE F[i]]
  BY <1>2
<1>5. \A i \in 1..(Len(q) + 1) :
        AckNumbers(A[i]) = IF i = Len(q) + 1 THEN X ELSE F[i]
  BY <1>1, <1>2 DEF X
<1>6. FromClient(A) = Append(F, X) BY <1>3, <1>4, <1>5
<1> QED BY <1>6 DEF A, F, X

-----------------------------------------------------------------------------
(* What the blocks of a file make together. *)

\* Block c of a file that is long enough to have one.
LEMMA PartIs ==
  ASSUME NEW f \in Seq(Nat), NEW z \in Nat \ {0}, NEW c \in Nat \ {0}, (c - 1) * z <= Len(f)
  PROVE  /\ Part(f, z, c) \in Seq(Nat)
         /\ (c - 1) * z \in Nat
         /\ Lesser(Len(f) - (c - 1) * z, z) \in Nat
         /\ (c - 1) * z + Lesser(Len(f) - (c - 1) * z, z) \in 0..Len(f)
         /\ Len(Part(f, z, c)) = Lesser(Len(f) - (c - 1) * z, z)
         /\ \A i \in 1..Len(Part(f, z, c)) : Part(f, z, c)[i] = f[(c - 1) * z + i]
<1> DEFINE a == (c - 1) * z
           m == Lesser(Len(f) - a, z)
<1>1. a \in Nat /\ Len(f) \in Nat BY SMT
<1> HIDE DEF a
<1>2. a <= Len(f) BY DEF a
<1>3. m \in Nat /\ a + m \in 0..Len(f) BY <1>1, <1>2 DEF Lesser
<1> HIDE DEF m
<1>4. \A i \in (a + 1)..(a + m) : f[i] \in Nat BY <1>1, <1>3, ElementOfSeq
<1>5. a + 1 \in Int /\ a + m \in Int BY <1>1, <1>3
<1>6. /\ SubSeq(f, a + 1, a + m) \in Seq(Nat)
      /\ Len(SubSeq(f, a + 1, a + m)) =
           IF a + 1 <= a + m THEN (a + m) - (a + 1) + 1 ELSE 0
      /\ \A i \in 1..((a + m) - (a + 1) + 1) : SubSeq(f, a + 1, a + m)[i] = f[(a + 1) + i - 1]
  BY <1>4, <1>5, SubSeqProperties
<1>7. (IF a + 1 <= a + m THEN (a + m) - (a + 1) + 1 ELSE 0) = m
      /\ (a + m) - (a + 1) + 1 = m
      /\ \A i \in 1..m : (a + 1) + i - 1 = a + i
  BY <1>1, <1>3
<1>8. Part(f, z, c) = SubSeq(f, a + 1, a + m) BY DEF Part, a, m
<1>9. /\ Len(SubSeq(f, a + 1, a + m)) = m
      /\ \A i \in 1..m : SubSeq(f, a + 1, a + m)[i] = f[a + i]
  BY <1>6, <1>7
<1> QED BY <1>1, <1>3, <1>6, <1>8, <1>9 DEF a, m

\* A loader with the blocks before c, and block c, has those up to c, and the file if
\* that was the last.
LEMMA LoaderReceives ==
  ASSUME NEW f \in Seq(Nat), NEW z \in Nat \ {0}, NEW c \in Nat \ {0}, (c - 1) * z <= Len(f)
  PROVE  /\ Received(f, z, c - 1) \o Part(f, z, c) = Received(f, z, c)
         /\ Len(Part(f, z, c)) < z => Received(f, z, c) = f
<1> DEFINE a == (c - 1) * z
           m == Lesser(Len(f) - a, z)
<1>1. a \in Nat /\ m \in Nat /\ a <= Len(f) /\ a + m \in 0..Len(f) /\ Len(f) \in Nat
      /\ Len(Part(f, z, c)) = m
  BY PartIs
<1>2. c * z = a + z BY SMT
<1> HIDE DEF a
<1>3. Lesser(Len(f), a) = a /\ Lesser(Len(f), a + z) = a + m BY <1>1 DEF Lesser
<1>4. m < z => a + m = Len(f) BY <1>1 DEF Lesser
<1>5. Received(f, z, c - 1) = SubSeq(f, 1, Lesser(Len(f), a))
      /\ Received(f, z, c) = SubSeq(f, 1, Lesser(Len(f), c * z))
  BY DEF Received, a
<1>6. Part(f, z, c) = SubSeq(f, a + 1, a + m) BY DEF Part, a
<1> HIDE DEF m
<1>7. SubSeq(f, 1, a) \o SubSeq(f, a + 1, a + m) = SubSeq(f, 1, a + m)
  <2>1. 1 \in 1..(Len(f) + 1) /\ a \in (1 - 1)..Len(f) /\ a + m \in a..Len(f) BY <1>1
  <2> QED BY <2>1, ConcatAdjacentSubSeq
<1>8. Received(f, z, c - 1) \o Part(f, z, c) = Received(f, z, c)
  BY <1>2, <1>3, <1>5, <1>6, <1>7
<1>9. Len(Part(f, z, c)) < z => Received(f, z, c) = f
  <2>1. SubSeq(f, 1, Len(f)) = f BY SubSeqFull
  <2> QED BY <1>1, <1>2, <1>3, <1>4, <1>5, <2>1
<1> QED BY <1>8, <1>9

\* Get with the pieces before block c, and that of block c, has those up to c.
LEMMA GetReceives ==
  ASSUME NEW f \in Seq(Nat), NEW c \in Nat \ {0}, BlockSize \in Nat, Header \in Nat,
         Header < BlockSize, (c - 1) * BlockSize <= Len(f),
         Received(f, 0, c - 1) \in Seq(Nat)
  PROVE  LET data == Part(f, BlockSize, c)
             piece == SubSeq(data, 1, Lesser(Len(data), BlockSize - Header))
         IN piece \in Seq(Nat) /\ Received(f, 0, c - 1) \o piece = Received(f, 0, c)
<1> DEFINE keep == BlockSize - Header
           b == (c - 1) * BlockSize
           a == (c - 1) * keep
           data == Part(f, BlockSize, c)
           m == Lesser(Len(data), keep)
           piece == SubSeq(data, 1, m)
           At(i) == f[((i - 1) \div keep) * BlockSize + ((i - 1) % keep) + 1]
           old == Received(f, 0, c - 1)
           new == old \o piece
<1>1. keep \in Nat \ {0} /\ BlockSize \in Nat \ {0} /\ keep <= BlockSize /\ Len(f) \in Nat
  OBVIOUS
<1>2. /\ data \in Seq(Nat) /\ b \in Nat /\ Len(data) = Lesser(Len(f) - b, BlockSize)
      /\ Len(data) \in Nat /\ \A i \in 1..Len(data) : data[i] = f[b + i]
  <2>1. f \in Seq(Nat) /\ c \in Nat \ {0} /\ BlockSize \in Nat \ {0} /\ (c - 1) * BlockSize <= Len(f)
    BY <1>1
  <2> QED BY ONLY <2>1, PartIs
<1>3. a \in Nat BY <1>1, SMT
<1>4. b <= Len(f) OBVIOUS
<1>5. c * BlockSize = b + BlockSize /\ c * keep = a + keep BY <1>1, SMT
<1>6. Kept(f, c - 1, keep) = a BY <1>4 DEF Kept
<1>7. Kept(f, c, keep) = IF b + BlockSize <= Len(f) THEN a + keep
                         ELSE a + Lesser(keep, Len(f) - b)
  BY <1>5 DEF Kept
<1> HIDE DEF a, b, data, new, piece, old, At, keep
<1>8. m \in 0..Len(data) /\ Kept(f, c, keep) = a + m /\ m <= keep
  <2>1. m = Lesser(Lesser(Len(f) - b, BlockSize), keep) BY <1>2
  <2>2. Kept(f, c, keep) = a + m
    <3>1. CASE b + BlockSize <= Len(f)
      <4>1. m = keep BY <1>1, <1>2, <2>1, <3>1 DEF Lesser
      <4> QED BY <1>7, <3>1, <4>1
    <3>2. CASE ~(b + BlockSize <= Len(f))
      <4>1. m = Lesser(keep, Len(f) - b) BY <1>1, <1>2, <2>1, <3>2 DEF Lesser
      <4> QED BY <1>7, <3>2, <4>1
    <3> QED BY <3>1, <3>2
  <2>3. m \in 0..Len(data) /\ m <= keep BY <1>1, <1>2, SMTT(30) DEF Lesser
  <2> QED BY <2>2, <2>3
<1>9. old = [i \in 1..a |-> At(i)] BY <1>6 DEF Received, Pieces, old, At, keep
<1>10. Received(f, 0, c) = [i \in 1..(a + m) |-> At(i)] BY <1>8 DEF Received, Pieces, At, keep
<1>11. \A j \in 1..m : At(a + j) = f[b + j]
  <2> TAKE j \in 1..m
  <2>1. c - 1 \in Nat /\ j - 1 \in Nat /\ j - 1 < keep BY <1>1, <1>8
  <2>2. ((c - 1) * keep + (j - 1)) \div keep = c - 1 /\ ((c - 1) * keep + (j - 1)) % keep = j - 1
    BY <1>1, <2>1, DivMod
  <2>3. (a + j) - 1 = (c - 1) * keep + (j - 1) BY <1>1, <1>3, SMT DEF a
  <2>4. ((a + j) - 1) \div keep = c - 1 /\ ((a + j) - 1) % keep = j - 1 BY <2>2, <2>3
  <2>5. (c - 1) * BlockSize + (j - 1) + 1 = b + j BY <1>1, <1>2, SMT DEF b
  <2> QED BY <2>4, <2>5 DEF At
<1> HIDE DEF m
<1>12. /\ piece \in Seq(Nat) /\ Len(piece) = m /\ \A j \in 1..m : piece[j] = f[b + j]
  <2>1. \A i \in 1..m : data[i] \in Nat BY <1>2, <1>8, ElementOfSeq
  <2>2. 1 \in Int /\ m \in Int BY <1>2, <1>8
  <2>3. /\ piece \in Seq(Nat) /\ Len(piece) = IF 1 <= m THEN m - 1 + 1 ELSE 0
        /\ \A i \in 1..(m - 1 + 1) : piece[i] = data[1 + i - 1]
    <3>1. /\ SubSeq(data, 1, m) \in Seq(Nat)
          /\ Len(SubSeq(data, 1, m)) = IF 1 <= m THEN m - 1 + 1 ELSE 0
          /\ \A i \in 1..(m - 1 + 1) : SubSeq(data, 1, m)[i] = data[1 + i - 1]
      BY ONLY <2>1, <2>2, SubSeqProperties
    <3> QED BY <3>1 DEF piece
  <2>4. m \in Nat /\ m - 1 + 1 = m /\ (IF 1 <= m THEN m - 1 + 1 ELSE 0) = m
        /\ \A i \in 1..m : 1 + i - 1 = i /\ i \in 1..Len(data)
    BY <1>2, <1>8
  <2> QED BY <1>2, <2>3, <2>4
<1>13. old \in Seq(Nat) /\ Len(old) = a BY <1>3, <1>9 DEF old
<1>14. /\ new \in Seq(Nat) /\ Len(new) = a + m
       /\ \A i \in 1..(a + m) : new[i] = IF i <= a THEN old[i] ELSE piece[i - a]
  <2>1. old \in Seq(Nat) /\ piece \in Seq(Nat) /\ Len(old) = a /\ Len(piece) = m
    BY <1>12, <1>13
  <2>2. /\ old \o piece \in Seq(Nat)
        /\ Len(old \o piece) = Len(old) + Len(piece)
        /\ \A i \in 1..(Len(old) + Len(piece)) :
             (old \o piece)[i] = IF i <= Len(old) THEN old[i] ELSE piece[i - Len(old)]
    BY ONLY <2>1, ConcatProperties
  <2> QED BY <2>1, <2>2 DEF new
<1>15. \A i \in 1..(a + m) : new[i] = At(i)
  <2> TAKE i \in 1..(a + m)
  <2>1. CASE i <= a
    <3>1. i \in 1..a BY <1>2, <1>3, <1>8, <2>1
    <3> QED BY <1>9, <1>14, <2>1, <3>1
  <2>2. CASE ~(i <= a)
    <3>1. i - a \in 1..m /\ a + (i - a) = i BY <1>2, <1>3, <1>8, <2>2
    <3>2. new[i] = piece[i - a] BY <1>14, <2>2
    <3>3. piece[i - a] = f[b + (i - a)] BY <1>12, <3>1
    <3>4. At(a + (i - a)) = f[b + (i - a)] BY <1>11, <3>1
    <3> QED BY <3>1, <3>2, <3>3, <3>4
  <2> QED BY <2>1, <2>2
<1>16. new = [i \in 1..(a + m) |-> new[i]] BY <1>14
<1>17. new = [i \in 1..(a + m) |-> At(i)] BY <1>15, <1>16
<1>18. new = Received(f, 0, c) BY <1>10, <1>17
<1> QED BY <1>12, <1>18 DEF new, old, piece, data, m, keep

-----------------------------------------------------------------------------
(* The inductive invariant, of a file f, servers S, client c, queues down and up *)
(* and n faults.                                                                 *)

Serving ==
  [state : {"none", "oack", "data", "sent", "failed"}, start : Nat, blocksize : Nat,
   blockid : Nat]
Reader ==
  [state : {"request", "reading", "done", "error"}, blksize : Requested \cup {0},
   port : Ports \cup {0}, blockid : Nat, ack : Nat, got : Seq(Nat)]

BlockLength(c) == IF c.blksize = 0 THEN BlockSize ELSE c.blksize
First(c) == IF c.blksize = 0 THEN 1 ELSE 0
Bound(c) == c.port \in Ports

\* The number of the last packet the server has sent.
Highest(s) ==
  IF s.state = "oack" THEN 0 ELSE IF s.state = "sent" THEN s.blockid - 1 ELSE s.blockid

Types(f, S, c, down, up, n) ==
  /\ f \in Seq(Nat) /\ S \in [Ports -> Serving] /\ c \in Reader
  /\ down \in Seq(Answer) /\ up \in Seq(Question) /\ n \in 0..MaxFaults

\* How far a connection s is that serves the client c: where its block begins.
Served(f, s, c) ==
  /\ s.state # "none" => s.blocksize = BlockLength(c) /\ s.blockid # 0
  /\ Active(s) => s.start = (s.blockid - 1) * BlockLength(c) /\ s.start <= Len(f)
  /\ s.state = "oack" => s.blockid = 1

\* A connection that the client does not read from is as the request opened it.
Fresh(s, c) ==
  s.state # "none" =>
    s.blockid = 1 /\ s.state \in {"failed", IF c.blksize = 0 THEN "data" ELSE "oack"}

\* The servers of all ports.
Servers(f, S, c) ==
  \A p \in Ports : Served(f, S[p], c) /\ (p # c.port => Fresh(S[p], c))

\* What the client has.
Progress(f, c) ==
  /\ c.blockid = c.ack + 1 /\ c.got = Received(f, c.blksize, c.ack)
  /\ c.state = "done" /\ c.blksize # 0 => c.got = f
  /\ ~Bound(c) => c.ack = 0

\* The packets for the client are blocks, and one that is not bound yet will get the
\* first packet of a server.
Down(f, S, c, down) ==
  \A i \in DOMAIN down :
    /\ S[down[i].port].state # "none"
    /\ \E k \in Nat : IsBlock(f, BlockLength(c), down[i], k)
    /\ ~Bound(c) => IsBlock(f, BlockLength(c), down[i], First(c))

\* The packets for the server are the client's requests, or its ACKs.
Up(c, up) ==
  \A i \in DOMAIN up :
    \/ up[i].op = "RRQ" /\ up[i].id = c.blksize
    \/ /\ up[i].op = "ACK" /\ up[i].port = c.port /\ Bound(c)
       /\ \E k \in Nat : up[i].id = k % IdSpace

\* The client and the server s it reads from.
Paired(f, s, c, down, up, n) ==
  /\ s.state # "none" /\ s.blockid <= c.blockid /\ c.ack <= Highest(s)
  /\ Numbered(FromServer(f, BlockLength(c), c.port, down), c.blockid - n, Highest(s), c.blockid)
  /\ Numbered(FromClient(up), s.blockid - n, c.ack, s.blockid)

\* The invariant of a transfer, at any of its states.
Transfer(f, S, c, down, up, n) ==
  /\ Types(f, S, c, down, up, n)
  /\ Servers(f, S, c)
  /\ Progress(f, c)
  /\ Down(f, S, c, down)
  /\ Up(c, up)
  /\ Bound(c) => Paired(f, S[c.port], c, down, up, n)

\* A client that has been answered reads.
Stage(c) == IF Bound(c) THEN c.state # "request" ELSE c.state \in {"request", "error"}

\* What the constants must satisfy.  With MaxFaults + 1 = IdSpace, a block can come so
\* late that its id is the one of the block waited for, and FileArrives is false.
TransferOK ==
  /\ IdSpace \in Nat /\ MaxFaults \in Nat /\ MaxFaults + 1 < IdSpace
  /\ BlockSize \in Nat /\ Header \in Nat /\ Header < BlockSize
  /\ Requested \subseteq Nat \ {0} /\ FileLengths \subseteq Nat /\ 0 \notin Ports

-----------------------------------------------------------------------------
\* The numbers of packets for the client, which are IdSpace apart in each packet.
LEMMA FromServerType ==
  ASSUME TransferOK, NEW q \in Seq(Answer), NEW f, NEW z, NEW port
  PROVE  /\ FromServer(f, z, port, q) \in Seq(SUBSET Nat)
         /\ Len(FromServer(f, z, port, q)) = Len(q)
         /\ \A i \in DOMAIN q : FromServer(f, z, port, q)[i] = BlockNumbers(f, z, port, q[i])
         /\ Apart(FromServer(f, z, port, q))
<1> DEFINE F == FromServer(f, z, port, q)
<1>1. F \in [1..Len(q) -> SUBSET Nat] BY DEF FromServer, BlockNumbers
<1>2. Len(q) \in Nat /\ DOMAIN q = 1..Len(q) OBVIOUS
<1>3. \A i \in DOMAIN q : F[i] = BlockNumbers(f, z, port, q[i]) BY <1>2 DEF FromServer
<1> HIDE DEF F
<1>4. F \in Seq(SUBSET Nat) /\ Len(F) = Len(q) BY <1>1, <1>2
<1>5. Apart(F)
  <2> SUFFICES ASSUME NEW i \in 1..Len(q), NEW k \in F[i], NEW m \in F[i],
                      k - m < IdSpace, m - k < IdSpace
               PROVE  k = m
    BY <1>1 DEF Apart
  <2>1. k \in Nat /\ m \in Nat /\ IsBlock(f, z, q[i], k) /\ IsBlock(f, z, q[i], m)
    BY <1>2, <1>3 DEF BlockNumbers
  <2>2. CASE k = 0 \/ m = 0 BY <2>1, <2>2 DEF IsBlock
  <2>3. CASE k # 0 /\ m # 0
    <3>1. k % IdSpace = m % IdSpace BY <2>1, <2>3 DEF IsBlock
    <3>2. IdSpace \in Nat \ {0} BY DEF TransferOK
    <3> QED BY <2>1, <3>1, <3>2, ModNear
  <2> QED BY <2>2, <2>3
<1> QED BY <1>3, <1>4, <1>5 DEF F

\* The numbers of packets for the server, which are IdSpace apart in each packet.
LEMMA FromClientType ==
  ASSUME TransferOK, NEW q \in Seq(Question)
  PROVE  /\ FromClient(q) \in Seq(SUBSET Nat) /\ Len(FromClient(q)) = Len(q)
         /\ \A i \in DOMAIN q : FromClient(q)[i] = AckNumbers(q[i])
         /\ Apart(FromClient(q))
<1> DEFINE F == FromClient(q)
<1>1. F \in [1..Len(q) -> SUBSET Nat] BY DEF FromClient, AckNumbers
<1>2. Len(q) \in Nat /\ DOMAIN q = 1..Len(q) OBVIOUS
<1>3. \A i \in DOMAIN q : F[i] = AckNumbers(q[i]) BY <1>2 DEF FromClient
<1> HIDE DEF F
<1>4. F \in Seq(SUBSET Nat) /\ Len(F) = Len(q) BY <1>1, <1>2
<1>5. Apart(F)
  <2> SUFFICES ASSUME NEW i \in 1..Len(q), NEW k \in F[i], NEW m \in F[i],
                      k - m < IdSpace, m - k < IdSpace
               PROVE  k = m
    BY <1>1 DEF Apart
  <2>0. i \in DOMAIN q BY <1>2
  <2>1. k \in Nat /\ m \in Nat /\ k % IdSpace = m % IdSpace
    <3>1. k \in AckNumbers(q[i]) /\ m \in AckNumbers(q[i]) BY <1>3, <2>0, Zenon
    <3> QED BY <3>1, Zenon DEF AckNumbers
  <2>2. IdSpace \in Nat \ {0} BY DEF TransferOK
  <2> QED BY <2>1, <2>2, ModNear
<1> QED BY <1>3, <1>4, <1>5 DEF F

\* The last packet sent is the block or the one before it.
LEMMA HighestIs ==
  ASSUME NEW f, NEW c, NEW s \in Serving, s.state # "none", Served(f, s, c)
  PROVE  Highest(s) \in Nat /\ Highest(s) <= s.blockid
<1> QED BY DEF Highest, Served, Serving

\* Blocks are not empty.
LEMMA BlockLengthIs ==
  ASSUME TransferOK, NEW c \in Reader
  PROVE  BlockLength(c) \in Nat \ {0}
<1>1. c.blksize \in Requested \cup {0} BY DEF Reader
<1>2. Requested \subseteq Nat \ {0} /\ BlockSize \in Nat \ {0} BY DEF TransferOK
<1> QED BY <1>1, <1>2 DEF BlockLength

\* The size a client asks for, and the one it gets if it asks for none.
LEMMA BlksizeIs ==
  ASSUME TransferOK, NEW c \in Reader
  PROVE  c.blksize \in Nat /\ BlockSize \in Nat \ {0}
<1>1. c.blksize \in Requested \cup {0} BY DEF Reader
<1>2. \A x \in Requested : x \in Nat BY DEF TransferOK
<1>3. BlockSize \in Nat \ {0} BY DEF TransferOK
<1>4. CASE c.blksize = 0 BY <1>3, <1>4
<1>5. CASE c.blksize # 0
  <2>1. c.blksize \in Requested BY <1>1, <1>5
  <2> QED BY <1>2, <1>3, <2>1
<1> QED BY <1>4, <1>5

\* What a server sends is a packet of its port with its highest number.
LEMMA SendingIsBlock ==
  ASSUME TransferOK, file \in Seq(Nat), NEW c \in Reader, NEW s \in Serving, Active(s),
         Served(file, s, c), NEW port \in Ports
  PROVE  /\ Sending(port, s) \in Answer /\ Sending(port, s).port = port
         /\ IsBlock(file, BlockLength(c), Sending(port, s), Highest(s))
<1> DEFINE z == BlockLength(c)
           p == Sending(port, s)
<1>0. z \in Nat \ {0} BY BlockLengthIs
<1>1. CASE s.state = "oack"
  <2>1. <<>> \in Seq(Nat) OBVIOUS
  <2> QED BY <1>1, <2>1 DEF Sending, Answer, IsBlock, Highest
<1>2. CASE s.state = "data"
  <2> HIDE DEF z
  <2>1. /\ s.blockid \in Nat \ {0} /\ s.blocksize = z /\ s.start = (s.blockid - 1) * z
        /\ s.start <= Len(file)
    BY <1>2 DEF Served, Active, Serving, z
  <2>2. SubSeq(file, s.start + 1, s.start + Size(s)) = Part(file, z, s.blockid)
    BY <2>1 DEF Size, Part
  <2>3. Part(file, z, s.blockid) \in Seq(Nat) BY <1>0, <2>1, PartIs
  <2>4. p = [port |-> port, op |-> "DATA", id |-> s.blockid % IdSpace,
             data |-> Part(file, z, s.blockid), late |-> FALSE]
    BY <1>2, <2>2 DEF Sending
  <2>5. s.blockid % IdSpace \in Nat BY <2>1 DEF TransferOK
  <2>6. Highest(s) = s.blockid BY <1>2 DEF Highest
  <2> HIDE DEF p
  <2>7. p \in Answer /\ p.port = port BY <2>3, <2>4, <2>5 DEF Answer
  <2>8. IsBlock(file, z, p, s.blockid) BY <2>1, <2>4 DEF IsBlock
  <2> QED BY <2>6, <2>7, <2>8 DEF p, z
<1> QED BY <1>1, <1>2 DEF Active

-----------------------------------------------------------------------------
(* What a step does to a queue. *)

\* A packet for the client is put into the window.
LEMMA PutNumbered ==
  ASSUME TransferOK, NEW f, NEW z, NEW port, NEW q \in Seq(Answer), NEW p \in Answer,
         NEW low \in Int, NEW high \in Int, NEW c \in Int,
         Numbered(FromServer(f, z, port, q), low, high, c),
         p.port = port =>
           \E k \in Nat : /\ IsBlock(f, z, p, k) /\ low - 1 <= k /\ k <= high
                          /\ (\E j \in DOMAIN q : c \in BlockNumbers(f, z, port, q[j]))
                             => low <= k
  PROVE  Put(q, p) \in Seq(Answer) /\ Numbered(FromServer(f, z, port, Put(q, p)), low, high, c)
<1> DEFINE N == FromServer(f, z, port, q)
           X == BlockNumbers(f, z, port, p)
<1>1. /\ N \in Seq(SUBSET Nat) /\ DOMAIN N = DOMAIN q
      /\ \A i \in DOMAIN q : N[i] = BlockNumbers(f, z, port, q[i])
  <2>1. N \in Seq(SUBSET Nat) /\ Len(N) = Len(q)
        /\ \A i \in DOMAIN q : N[i] = BlockNumbers(f, z, port, q[i])
    BY FromServerType
  <2> HIDE DEF N
  <2> QED BY <2>1
<1>2. X \in SUBSET Nat BY DEF BlockNumbers
<1>3. /\ Append(q, p) \in Seq(Answer)
      /\ FromServer(f, z, port, Append(q, p)) = Append(N, X)
  BY AppendAnswers
<1>4. X # {} => /\ \E k \in X : low - 1 <= k /\ k <= high
                /\ (\E j \in DOMAIN N : c \in N[j]) => \E k \in X : low <= k /\ k <= high
  <2> SUFFICES ASSUME X # {}
               PROVE  /\ \E k \in X : low - 1 <= k /\ k <= high
                      /\ (\E j \in DOMAIN N : c \in N[j]) => \E k \in X : low <= k /\ k <= high
    OBVIOUS
  <2>1. p.port = port BY DEF BlockNumbers
  <2>2. PICK k \in Nat : /\ IsBlock(f, z, p, k) /\ low - 1 <= k /\ k <= high
                         /\ (\E j \in DOMAIN q : c \in BlockNumbers(f, z, port, q[j]))
                            => low <= k
    BY <2>1
  <2>3. k \in X BY <2>1, <2>2 DEF BlockNumbers
  <2> HIDE DEF N, X
  <2>4. (\E j \in DOMAIN N : c \in N[j]) => low <= k BY <1>1, <2>2, Zenon
  <2> QED BY <2>2, <2>3, <2>4
<1> HIDE DEF N, X
<1>5. Numbered(Append(N, X), low, high, c)
  <2>1. Numbered(N, low, high, c) BY DEF N
  <2> QED BY <1>1, <1>2, <1>4, <2>1, NumberedLonger
<1> QED BY <1>3, <1>5 DEF Put, N

\* An ACK is put into the window.
LEMMA PutAsked ==
  ASSUME TransferOK, NEW q \in Seq(Question), NEW p \in Question,
         NEW low \in Int, NEW high \in Int, NEW b \in Int,
         Numbered(FromClient(q), low, high, b),
         p.op = "ACK" =>
           \E k \in Nat : /\ p.id = k % IdSpace /\ low - 1 <= k /\ k <= high
                          /\ (\E j \in DOMAIN q : b \in AckNumbers(q[j])) => low <= k
  PROVE  Numbered(FromClient(Put(q, p)), low, high, b)
<1> DEFINE N == FromClient(q)
           X == AckNumbers(p)
<1>1. /\ N \in Seq(SUBSET Nat) /\ DOMAIN N = DOMAIN q
      /\ \A i \in DOMAIN q : N[i] = AckNumbers(q[i])
  <2>1. N \in Seq(SUBSET Nat) /\ Len(N) = Len(q) /\ \A i \in DOMAIN q : N[i] = AckNumbers(q[i])
    BY FromClientType
  <2> HIDE DEF N
  <2> QED BY <2>1
<1>2. X \in SUBSET Nat BY DEF AckNumbers
<1>3. FromClient(Append(q, p)) = Append(N, X) BY AppendQuestions
<1>4. X # {} => /\ \E k \in X : low - 1 <= k /\ k <= high
                /\ (\E j \in DOMAIN N : b \in N[j]) => \E k \in X : low <= k /\ k <= high
  <2> SUFFICES ASSUME X # {}
               PROVE  /\ \E k \in X : low - 1 <= k /\ k <= high
                      /\ (\E j \in DOMAIN N : b \in N[j]) => \E k \in X : low <= k /\ k <= high
    OBVIOUS
  <2>1. p.op = "ACK" BY DEF AckNumbers
  <2>2. PICK k \in Nat : /\ p.id = k % IdSpace /\ low - 1 <= k /\ k <= high
                         /\ (\E j \in DOMAIN q : b \in AckNumbers(q[j])) => low <= k
    BY <2>1
  <2>3. k \in X BY <2>1, <2>2 DEF AckNumbers
  <2> HIDE DEF N, X
  <2>4. (\E j \in DOMAIN N : b \in N[j]) => low <= k BY <1>1, <2>2, Zenon
  <2> QED BY <2>2, <2>3, <2>4
<1> HIDE DEF N, X
<1>5. Numbered(Append(N, X), low, high, b)
  <2>1. Numbered(N, low, high, b) BY DEF N
  <2> QED BY <1>1, <1>2, <1>4, <2>1, NumberedLonger
<1> QED BY <1>3, <1>5 DEF Put, N

\* A packet is read: the others stay as they were.
LEMMA ServerTakes ==
  ASSUME TransferOK, NEW f, NEW S, NEW c, NEW down, NEW up, NEW m, May(up, m),
         Transfer(f, S, c, down, up, faults)
  PROVE  Transfer(f, S, c, down, Without(up, m), faults + m - 1)
<1> DEFINE U == Without(up, m)
           n == faults + m - 1
<1>1. Types(f, S, c, down, up, faults) BY DEF Transfer
<1>2. /\ U \in Seq(Question) /\ FromClient(U) = Shorter(FromClient(up), m)
      /\ \A i \in DOMAIN U : \E j \in DOMAIN up :
           U[i].port = up[j].port /\ U[i].op = up[j].op /\ U[i].id = up[j].id
  BY <1>1, WithoutQuestions DEF Types
<1>3. m \in 1..2 /\ m <= Len(up) /\ n \in 0..MaxFaults /\ faults <= n /\ faults \in Nat
  BY <1>1 DEF May, Types, TransferOK
<1> HIDE DEF U, n
<1>4. Up(c, U) BY <1>2 DEF Up, Transfer
<1>5. ASSUME Bound(c) PROVE Paired(f, S[c.port], c, down, U, n)
  <2> DEFINE s == S[c.port]
             N == FromClient(up)
             D == FromServer(f, BlockLength(c), c.port, down)
  <2>1. Paired(f, s, c, down, up, faults) BY <1>5 DEF Transfer
  <2>2. s.blockid \in Nat /\ c.ack \in Nat /\ c.blockid \in Nat /\ s \in Serving
        /\ s.state # "none" /\ Served(f, s, c)
    BY <1>1, <1>5, <2>1 DEF Types, Serving, Reader, Bound, Paired, Transfer, Servers
  <2>3. N \in Seq(SUBSET Nat) /\ Len(N) = Len(up) BY <1>1, FromClientType DEF Types
  <2>4. D \in Seq(SUBSET Nat) BY <1>1, FromServerType DEF Types
  <2>5. Highest(s) \in Nat BY <2>2, HighestIs
  <2>6. Numbered(N, s.blockid - faults, c.ack, s.blockid)
        /\ Numbered(D, c.blockid - faults, Highest(s), c.blockid)
    BY <2>1 DEF Paired
  <2> HIDE DEF N, D, s
  <2>7. Numbered(Shorter(N, m), s.blockid - faults, c.ack, s.blockid)
    BY <1>3, <2>2, <2>3, <2>6, NumberedShorter
  <2>8. Shorter(N, m) \in Seq(SUBSET Nat)
    BY <1>2, FromClientType DEF N
  <2>9. Numbered(Shorter(N, m), s.blockid - n, c.ack, s.blockid)
    BY <1>3, <2>2, <2>7, <2>8, NumberedWider
  <2>10. Numbered(D, c.blockid - n, Highest(s), c.blockid)
    BY <1>3, <2>2, <2>4, <2>5, <2>6, NumberedWider
  <2> QED BY <1>2, <2>1, <2>9, <2>10 DEF Paired, N, D, s
<1>6. Types(f, S, c, down, U, n) BY <1>1, <1>2, <1>3 DEF Types
<1> QED BY <1>4, <1>5, <1>6 DEF Transfer, U, n

\* A packet is read from the server's: the others stay as they were.
LEMMA ClientTakes ==
  ASSUME TransferOK, NEW f, NEW S, NEW c, NEW down, NEW up, NEW m, May(down, m),
         Transfer(f, S, c, down, up, faults)
  PROVE  Transfer(f, S, c, Without(down, m), up, faults + m - 1)
<1> DEFINE U == Without(down, m)
           n == faults + m - 1
           z == BlockLength(c)
<1>1. Types(f, S, c, down, up, faults) BY DEF Transfer
<1>2. /\ U \in Seq(Answer)
      /\ \A port : FromServer(f, z, port, U) = Shorter(FromServer(f, z, port, down), m)
      /\ \A i \in DOMAIN U : \E j \in DOMAIN down :
           /\ U[i].port = down[j].port /\ U[i].op = down[j].op
           /\ U[i].id = down[j].id /\ U[i].data = down[j].data
  <2>1. down \in Seq(Answer) BY <1>1 DEF Types
  <2> HIDE DEF z
  <2> QED BY <2>1, WithoutAnswers
<1>3. m \in 1..2 /\ m <= Len(down) /\ n \in 0..MaxFaults /\ faults <= n /\ faults \in Nat
  BY <1>1 DEF May, Types, TransferOK
<1> HIDE DEF U, n
<1>4. Down(f, S, c, U)
  <2>1. Down(f, S, c, down) BY DEF Transfer
  <2> HIDE DEF z
  <2>2. ASSUME NEW i \in DOMAIN U
        PROVE  /\ S[U[i].port].state # "none"
               /\ \E k \in Nat : IsBlock(f, z, U[i], k)
               /\ ~Bound(c) => IsBlock(f, z, U[i], First(c))
    <3>1. PICK j \in DOMAIN down :
            /\ U[i].port = down[j].port /\ U[i].op = down[j].op
            /\ U[i].id = down[j].id /\ U[i].data = down[j].data
      BY <1>2
    <3>2. /\ S[down[j].port].state # "none"
          /\ \E k \in Nat : IsBlock(f, z, down[j], k)
          /\ ~Bound(c) => IsBlock(f, z, down[j], First(c))
      BY <2>1 DEF Down, z
    <3>3. \A k : IsBlock(f, z, down[j], k) => IsBlock(f, z, U[i], k) BY <3>1 DEF IsBlock
    <3> QED BY <3>1, <3>2, <3>3
  <2> QED BY <2>2 DEF Down, z
<1>5. ASSUME Bound(c) PROVE Paired(f, S[c.port], c, U, up, n)
  <2> DEFINE s == S[c.port]
             N == FromClient(up)
             D == FromServer(f, z, c.port, down)
  <2>1. Paired(f, s, c, down, up, faults) BY <1>5 DEF Transfer
  <2>2. s.blockid \in Nat /\ c.ack \in Nat /\ c.blockid \in Nat /\ s \in Serving
        /\ s.state # "none" /\ Served(f, s, c)
    BY <1>1, <1>5, <2>1 DEF Types, Serving, Reader, Bound, Paired, Transfer, Servers
  <2>3. N \in Seq(SUBSET Nat) BY <1>1, FromClientType DEF Types
  <2>4. D \in Seq(SUBSET Nat) /\ Len(D) = Len(down) BY <1>1, FromServerType DEF Types
  <2>5. Highest(s) \in Nat BY <2>2, HighestIs
  <2>6. Numbered(N, s.blockid - faults, c.ack, s.blockid)
        /\ Numbered(D, c.blockid - faults, Highest(s), c.blockid)
    BY <2>1 DEF Paired
  <2>7. FromServer(f, z, c.port, U) = Shorter(D, m) BY <1>2
  <2>8. Shorter(D, m) \in Seq(SUBSET Nat) BY <1>2, <2>7, FromServerType DEF D
  <2> HIDE DEF N, D, s, z
  <2>9. Numbered(Shorter(D, m), c.blockid - faults, Highest(s), c.blockid)
    BY <1>3, <2>2, <2>4, <2>5, <2>6, NumberedShorter
  <2>10. Numbered(Shorter(D, m), c.blockid - n, Highest(s), c.blockid)
    BY <1>3, <2>2, <2>5, <2>8, <2>9, NumberedWider
  <2>11. Numbered(N, s.blockid - n, c.ack, s.blockid)
    BY <1>3, <2>2, <2>3, <2>6, NumberedWider
  <2> QED BY <2>1, <2>7, <2>10, <2>11 DEF Paired, N, s, z
<1>6. Types(f, S, c, U, up, n) BY <1>1, <1>2, <1>3 DEF Types
<1> QED BY <1>4, <1>5, <1>6 DEF Transfer, U, n

\* One fault more only widens the windows.
LEMMA FaultCounted ==
  ASSUME TransferOK, NEW f, NEW S, NEW c, NEW down, NEW up, NEW n, n < MaxFaults,
         Transfer(f, S, c, down, up, n)
  PROVE  Transfer(f, S, c, down, up, n + 1)
<1>1. Types(f, S, c, down, up, n) /\ n \in Nat BY DEF Transfer, Types
<1>2. n + 1 \in 0..MaxFaults BY <1>1 DEF TransferOK
<1>3. ASSUME Bound(c) PROVE Paired(f, S[c.port], c, down, up, n + 1)
  <2> DEFINE s == S[c.port]
             N == FromClient(up)
             D == FromServer(f, BlockLength(c), c.port, down)
  <2>1. Paired(f, s, c, down, up, n) BY <1>3 DEF Transfer
  <2>2. s.blockid \in Nat /\ c.ack \in Nat /\ c.blockid \in Nat /\ s \in Serving
        /\ s.state # "none" /\ Served(f, s, c)
    BY <1>1, <1>3, <2>1 DEF Types, Serving, Reader, Bound, Paired, Transfer, Servers
  <2>3. N \in Seq(SUBSET Nat) BY <1>1, FromClientType DEF Types
  <2>4. D \in Seq(SUBSET Nat) BY <1>1, FromServerType DEF Types
  <2>5. Highest(s) \in Nat BY <2>2, HighestIs
  <2>6. Numbered(N, s.blockid - n, c.ack, s.blockid)
        /\ Numbered(D, c.blockid - n, Highest(s), c.blockid)
    BY <2>1 DEF Paired
  <2> HIDE DEF N, D, s
  <2>7. Numbered(D, c.blockid - (n + 1), Highest(s), c.blockid)
    BY <1>1, <2>2, <2>4, <2>5, <2>6, NumberedWider
  <2>8. Numbered(N, s.blockid - (n + 1), c.ack, s.blockid)
    BY <1>1, <2>2, <2>3, <2>6, NumberedWider
  <2> QED BY <2>1, <2>7, <2>8 DEF Paired, N, D, s
<1> QED BY <1>1, <1>2, <1>3 DEF Transfer, Types

\* The server of a connection goes on with state s, and sends what it has to.
LEMMA GoesOnKeeps ==
  ASSUME TransferOK, NEW S, NEW c, NEW down, NEW up, NEW n,
         Transfer(file, S, c, down, up, n),
         NEW port \in Ports, NEW s \in Serving, s.state # "none", Served(file, s, c),
         port # c.port => Fresh(s, c),
         Bound(c) /\ port = c.port => Paired(file, s, c, down, up, n)
  PROVE  Transfer(file, [S EXCEPT ![port] = s], c,
                  IF Active(s) THEN Put(down, Sending(port, s)) ELSE down, up, n)
<1> DEFINE T == [S EXCEPT ![port] = s]
           z == BlockLength(c)
           p == Sending(port, s)
           new == IF Active(s) THEN Put(down, p) ELSE down
<1>1. Types(file, S, c, down, up, n) BY DEF Transfer
<1>2. T \in [Ports -> Serving] /\ T[port] = s /\ \A q \in Ports : q # port => T[q] = S[q]
  BY <1>1 DEF Types
<1>3. Active(s) => /\ p \in Answer /\ p.port = port /\ IsBlock(file, z, p, Highest(s))
  BY <1>1, SendingIsBlock DEF Types
<1>4. Highest(s) \in Nat /\ Highest(s) <= s.blockid BY HighestIs
<1> HIDE DEF T, z, p
<1>5. new \in Seq(Answer) BY <1>1, <1>3 DEF Types, Put
<1>6. Servers(file, T, c) BY <1>2 DEF Servers, Transfer
<1>7. Down(file, T, c, new)
  <2>1. \A q \in Ports : S[q].state # "none" => T[q].state # "none" BY <1>2
  <2>2. \A i \in DOMAIN down : down[i].port \in Ports
    <3>1. \A i \in DOMAIN down : down[i] \in Answer BY <1>1 DEF Types
    <3> QED BY <3>1 DEF Answer
  <2>3. Down(file, T, c, down) BY <2>1, <2>2 DEF Down, Transfer
  <2>4. ASSUME Active(s) PROVE Down(file, T, c, Append(down, p))
    <3>1. T[p.port].state # "none" BY <1>2, <1>3, <2>4
    <3>2. ASSUME ~Bound(c) PROVE IsBlock(file, z, p, First(c))
      <4>1. port # c.port BY <3>2 DEF Bound
      <4>2. Highest(s) = First(c) BY <4>1, <2>4 DEF Fresh, Highest, First, Active
      <4> QED BY <1>3, <2>4, <4>2
    <3>3. down \in Seq(Answer) BY <1>1 DEF Types
    <3>5. \E k \in Nat : IsBlock(file, z, p, k) BY <1>3, <1>4, <2>4
    <3>4. \A i \in DOMAIN Append(down, p) :
            \/ Append(down, p)[i] = p
            \/ i \in DOMAIN down /\ Append(down, p)[i] = down[i]
      <4> HIDE DEF new
      <4> QED BY <3>3
    <3> QED BY <2>3, <3>1, <3>2, <3>4, <3>5, Zenon DEF Down, z
  <2> QED BY <2>3, <2>4 DEF Put
<1>8. ASSUME Bound(c) PROVE Paired(file, T[c.port], c, new, up, n)
  <2> DEFINE t == T[c.port]
             D(q) == FromServer(file, z, c.port, q)
  <2>1. Paired(file, t, c, down, up, n)
    <3>1. CASE port = c.port BY <1>2, <1>8, <3>1
    <3>2. CASE port # c.port
      <4>1. T[c.port] = S[c.port] BY <1>2, <1>8, <3>2 DEF Bound
      <4> QED BY <1>8, <4>1 DEF Transfer
    <3> QED BY <3>1, <3>2
  <2>2. t \in Serving /\ t.state # "none" /\ Served(file, t, c) /\ c.blockid \in Nat
        /\ n \in Nat
    BY <1>1, <1>2, <1>6, <1>8, <2>1 DEF Types, Bound, Servers, Reader, Paired
  <2>3. Highest(t) \in Nat /\ Highest(t) <= t.blockid BY <2>2, HighestIs
  <2>4. Numbered(D(down), c.blockid - n, Highest(t), c.blockid) BY <2>1 DEF Paired, z
  <2>5. ASSUME Active(s) PROVE Numbered(D(Put(down, p)), c.blockid - n, Highest(t), c.blockid)
    <3>1. ASSUME p.port = c.port
          PROVE  \E k \in Nat :
                   /\ IsBlock(file, z, p, k) /\ c.blockid - n - 1 <= k /\ k <= Highest(t)
                   /\ (\E j \in DOMAIN down : c.blockid \in BlockNumbers(file, z, c.port,
                      down[j]))
                        => c.blockid - n <= k
      <4>1. t = s BY <1>2, <1>3, <2>5, <3>1
      <4>2. IsBlock(file, z, p, Highest(t)) BY <1>3, <2>5, <4>1
      <4>3. c.ack \in Nat /\ c.ack <= Highest(t) /\ c.blockid = c.ack + 1 /\ t.blockid \in Nat
            /\ t.blockid <= c.blockid
        BY <1>1, <2>1, <2>2 DEF Types, Reader, Paired, Transfer, Progress, Serving
      <4>4. c.blockid - n - 1 <= Highest(t) BY <2>2, <2>3, <4>3
      <4>5. ASSUME NEW j \in DOMAIN down,
                   c.blockid \in BlockNumbers(file, z, c.port, down[j])
            PROVE  c.blockid - n <= Highest(t)
        <5>1. D(down) \in Seq(SUBSET Nat) /\ Len(D(down)) = Len(down) /\ Apart(D(down))
              /\ D(down)[j] = BlockNumbers(file, z, c.port, down[j])
          BY <1>1, FromServerType DEF Types
        <5> DEFINE N == D(down)
        <5>2. down \in Seq(Answer) BY <1>1 DEF Types
        <5> HIDE DEF N, D
        <5>3. N \in Seq(SUBSET Nat) /\ j \in DOMAIN N /\ c.blockid \in N[j] /\ Apart(N)
          BY <4>5, <5>1, <5>2 DEF N
        <5>4. Numbered(N, c.blockid - n, Highest(t), c.blockid) BY <2>4 DEF N
        <5>5. /\ Highest(t) <= c.blockid /\ c.blockid - (c.blockid - n) + 1 < IdSpace
              /\ IdSpace \in Nat /\ c.blockid - n \in Int
          BY <1>1, <2>2, <2>3, <4>3 DEF TransferOK, Types
        <5>6. c.blockid <= Highest(t)
          BY <2>2, <2>3, <5>3, <5>4, <5>5, NumberedExact
        <5> QED BY <2>2, <2>3, <5>6
      <4> QED BY <2>3, <4>2, <4>4, <4>5
    <3>2. down \in Seq(Answer) /\ p \in Answer BY <1>1, <1>3, <2>5 DEF Types
    <3>3. c.blockid - n \in Int BY <2>2
    <3> HIDE DEF t
    <3> QED BY <2>2, <2>3, <2>4, <3>1, <3>2, <3>3, PutNumbered
  <2>6. Numbered(D(new), c.blockid - n, Highest(t), c.blockid) BY <2>4, <2>5
  <2> QED BY <2>1, <2>6 DEF Paired, z
<1>9. Types(file, T, c, new, up, n) BY <1>1, <1>2, <1>5 DEF Types
<1> QED BY <1>6, <1>7, <1>8, <1>9 DEF Transfer, T, p

-----------------------------------------------------------------------------
(* The steps of the server. *)

\* The invariant now.
AtPresent == Transfer(file, server, client, toClient, toServer, faults)

\* An ACK of what a server waits for brings it to its next block.
LEMMA AcknowledgedServed ==
  ASSUME TransferOK, file \in Seq(Nat), NEW c \in Reader, NEW s \in Serving, Active(s),
         Served(file, s, c)
  PROVE  LET t == Acknowledged(s)
         IN /\ t \in Serving /\ t.state # "none" /\ Served(file, t, c)
            /\ s.state = "oack" => t.blockid = s.blockid /\ Highest(t) = 1 /\ Highest(s) = 0
            /\ s.state = "data" => /\ t.blockid = s.blockid + 1 /\ Highest(s) = s.blockid
                                   /\ Highest(t) \in {s.blockid, s.blockid + 1}
<1> DEFINE z == BlockLength(c)
           t == Acknowledged(s)
<1>0. z \in Nat \ {0} BY BlockLengthIs
<1>1. /\ s.state \in {"oack", "data"} /\ s.start \in Nat /\ s.blockid \in Nat \ {0}
      /\ s.blocksize = z /\ s.start = (s.blockid - 1) * z /\ s.start <= Len(file)
      /\ (s.state = "oack" => s.blockid = 1)
  BY DEF Active, Serving, Served
<1>2. CASE s.state = "oack"
  <2>1. t = [s EXCEPT !.state = "data"] BY <1>2 DEF Acknowledged
  <2>2. t \in Serving BY <2>1 DEF Serving
  <2>3. /\ t.state = "data" /\ t.start = s.start /\ t.blockid = s.blockid
        /\ t.blocksize = s.blocksize
    BY <2>1 DEF Serving
  <2> HIDE DEF t, z
  <2>4. Served(file, t, c) BY <1>1, <2>3 DEF Served, z
  <2>5. Highest(t) = 1 /\ Highest(s) = 0 BY <1>1, <1>2, <2>3 DEF Highest
  <2> QED BY <1>2, <2>2, <2>3, <2>4, <2>5 DEF t
<1>3. CASE s.state = "data"
  <2> DEFINE k == Size(s)
             next == IF k < s.blocksize THEN "sent" ELSE "data"
  <2>1. t = [s EXCEPT !.start = s.start + k, !.blockid = s.blockid + 1, !.state = next]
    BY <1>3 DEF Acknowledged
  <2>2. k \in Nat /\ (~(k < z) => k = z /\ s.start + z <= Len(file))
    <3> HIDE DEF z
    <3>1. Len(file) \in Nat OBVIOUS
    <3>2. k = Lesser(Len(file) - s.start, z) BY <1>1 DEF Size
    <3> QED BY <1>0, <1>1, <3>1, <3>2 DEF Lesser
  <2> HIDE DEF k, t, z
  <2>3. next \in {"sent", "data"} /\ s.start + k \in Nat /\ s.blockid + 1 \in Nat
    BY <1>1, <2>2
  <2> HIDE DEF next
  <2>4. /\ t \in Serving /\ t.state = next /\ t.start = s.start + k
        /\ t.blockid = s.blockid + 1 /\ t.blocksize = z
    BY <1>1, <2>1, <2>3 DEF Serving
  <2>5. Served(file, t, c)
    <3>1. ASSUME Active(t) PROVE t.start = (t.blockid - 1) * z /\ t.start <= Len(file)
      <4>1. t.state = "data" BY <2>3, <2>4, <3>1 DEF Active
      <4>2. k = z /\ s.start + z <= Len(file) BY <1>1, <2>2, <2>4, <4>1 DEF next
      <4>3. (s.blockid + 1 - 1) * z = (s.blockid - 1) * z + z BY <1>0, <1>1, SMT
      <4> QED BY <1>1, <2>4, <4>2, <4>3
    <3>2. t.blockid # 0 /\ t.state # "oack" BY <1>1, <2>3, <2>4
    <3> QED BY <2>4, <3>1, <3>2 DEF Served, z
  <2>6. Highest(s) = s.blockid /\ Highest(t) \in {s.blockid, s.blockid + 1}
    BY <1>1, <1>3, <2>3, <2>4 DEF Highest
  <2> QED BY <1>3, <2>3, <2>4, <2>5, <2>6 DEF t
<1> QED BY <1>1, <1>2, <1>3

\* The ACK that a server goes on with is its client's, of its own block: no other in
\* the window has the id.
LEMMA AcknowledgedPaired ==
  ASSUME TransferOK, AtPresent, NEW m, May(toServer, m), NEW port \in Ports,
         toServer[m].op = "ACK", toServer[m].port = port, Active(server[port]),
         Expected(toServer[m], server[port])
  PROVE  /\ Bound(client) /\ port = client.port
         /\ Paired(file, Acknowledged(server[port]), client, toClient, Without(toServer, m),
                   faults + m - 1)
<1> DEFINE s == server[port]
           t == Acknowledged(s)
           c == client
           n == faults + m - 1
           U == Without(toServer, m)
           N == FromClient(toServer)
           D == FromServer(file, BlockLength(c), c.port, toClient)
<1>1. Types(file, server, c, toClient, toServer, faults) BY DEF AtPresent, Transfer
<1>2. m \in DOMAIN toServer /\ m \in 1..2 /\ m <= Len(toServer) /\ n \in 0..MaxFaults
      /\ faults \in Nat /\ n + 1 = faults + m /\ faults <= n
  BY <1>1, SMTT(30) DEF May, Types, TransferOK
<1>3. Bound(c) /\ port = c.port
  <2>1. Up(c, toServer) BY DEF AtPresent, Transfer
  <2> QED BY <1>2, <2>1 DEF Up
<1>4. /\ s \in Serving /\ Served(file, s, c) /\ s.blockid \in Nat
      /\ c \in Reader /\ c.blockid \in Nat /\ c.ack \in Nat /\ c.blockid = c.ack + 1
      /\ file \in Seq(Nat)
  BY <1>1 DEF Types, Serving, Reader, AtPresent, Transfer, Servers, Progress
<1>5. /\ s.state # "none" /\ s.blockid <= c.blockid /\ c.ack <= Highest(s)
      /\ Numbered(N, s.blockid - faults, c.ack, s.blockid)
  BY <1>3 DEF AtPresent, Transfer, Paired
<1>6. Paired(file, s, c, toClient, U, n)
  <2>1. Transfer(file, server, c, toClient, U, n) BY ServerTakes DEF AtPresent
  <2> QED BY <1>3, <2>1 DEF Transfer
<1>7. /\ t \in Serving /\ t.state # "none" /\ Served(file, t, c)
      /\ s.state = "oack" => t.blockid = s.blockid /\ Highest(t) = 1 /\ Highest(s) = 0
      /\ s.state = "data" => /\ t.blockid = s.blockid + 1 /\ Highest(s) = s.blockid
                             /\ Highest(t) \in {s.blockid, s.blockid + 1}
  BY <1>4, AcknowledgedServed
<1>8. /\ N \in Seq(SUBSET Nat) /\ Len(N) = Len(toServer) /\ Apart(N)
      /\ N[m] = AckNumbers(toServer[m])
  BY <1>1, <1>2, FromClientType DEF Types
<1>9. D \in Seq(SUBSET Nat) BY <1>1, FromServerType DEF Types
<1>10. FromClient(U) = Shorter(N, m) BY <1>1, WithoutQuestions DEF Types
<1>11. s.state \in {"oack", "data"} BY DEF Active
<1> HIDE DEF s, t, c, n, N, D, U
<1>12. CASE s.state = "oack"
  <2>1. Numbered(D, c.blockid - n, 0, c.blockid) BY <1>6, <1>7, <1>12 DEF Paired, D
  <2>2. Numbered(D, c.blockid - n, 1, c.blockid)
    BY <1>2, <1>4, <1>9, <2>1, NumberedWider
  <2>3. c.ack <= 1 BY <1>4, <1>5, <1>7, <1>12
  <2> QED BY <1>3, <1>5, <1>6, <1>7, <1>12, <2>2, <2>3 DEF Paired, D, s, t, c, n, U
<1>13. CASE s.state = "data"
  <2> DEFINE b == s.blockid
  <2>0. b \in Nat /\ m \in Nat /\ n \in Nat /\ faults \in Nat /\ n + 1 = faults + m
        /\ n <= MaxFaults /\ faults <= n
    BY <1>2, <1>4
  <2>1. c.ack <= b BY <1>5, <1>7, <1>13
  <2>2. b \in N[m] /\ m \in DOMAIN N
    <3>1. toServer[m].id = b % IdSpace BY <1>13 DEF Expected, s
    <3> QED BY <1>2, <1>4, <1>8, <3>1 DEF AckNumbers
  <2> DEFINE low == b - faults
             high == c.ack
  <2> HIDE DEF b
  <2>3. b - low + m < IdSpace /\ b - low + 1 < IdSpace /\ IdSpace \in Nat
        /\ low \in Int /\ low + 2 - m = (b + 1) - n
    <3>1. MaxFaults + 1 < IdSpace /\ IdSpace \in Nat /\ MaxFaults \in Nat BY DEF TransferOK
    <3> QED BY <2>0, <3>1
  <2>4. Numbered(N, low, high, b) /\ high \in Int /\ high <= b
    BY <1>4, <1>5, <2>1 DEF b
  <2>5. m \in 1..2 /\ m <= Len(N) BY <1>2, <1>8
  <2> HIDE DEF low, high
  <2>6. b <= high
    BY ONLY <1>8, <2>0, <2>2, <2>3, <2>4, NumberedExact
  <2>7. Numbered(Shorter(N, m), low + 2 - m, high, b + 1)
    BY ONLY <1>8, <2>0, <2>2, <2>3, <2>4, <2>5, NumberedLater
  <2>8. Numbered(FromClient(U), t.blockid - n, c.ack, t.blockid)
    BY <1>7, <1>10, <1>13, <2>3, <2>7 DEF b, high
  <2>9. Numbered(D, c.blockid - n, b, c.blockid) BY <1>6, <1>7, <1>13 DEF Paired, D, b
  <2>10. Numbered(D, c.blockid - n, Highest(t), c.blockid)
    <3>1. Highest(t) \in Int /\ b <= Highest(t) BY <1>7, <1>13, <2>0 DEF b
    <3>2. c.blockid - n \in Int BY <1>4, <2>0
    <3> QED BY <1>4, <1>9, <2>0, <2>9, <3>1, <3>2, NumberedWider
  <2>11. t.blockid <= c.blockid /\ c.ack <= Highest(t)
    BY <1>4, <1>7, <1>13, <2>0, <2>1, <2>6 DEF b, high
  <2> QED BY <1>3, <1>7, <2>8, <2>10, <2>11 DEF Paired, D, s, t, c, n, U
<1> QED BY <1>11, <1>12, <1>13

\* The server reads a request or an ACK.
LEMMA ServerReadsKeeps ==
  ASSUME TransferOK, AtPresent, NEW m \in 1..2, ServerReads(m)
  PROVE  AtPresent'
<1> DEFINE U == Without(toServer, m)
           n == faults + m - 1
           c == client
           packet == toServer[m]
           Sent(port, s) == IF Active(s) THEN Put(toClient, Sending(port, s)) ELSE toClient
<1>1. /\ May(toServer, m) /\ file' = file /\ client' = client
      /\ toServer' = U /\ faults' = n
  BY DEF ServerReads
<1>2. Types(file, server, c, toClient, toServer, faults) /\ Up(c, toServer)
  BY DEF AtPresent, Transfer
<1>3. m \in DOMAIN toServer BY <1>1 DEF May
<1>4. Transfer(file, server, c, toClient, U, n) BY <1>1, ServerTakes DEF AtPresent
<1> HIDE DEF U, n, c, packet, Sent
<1>5. ASSUME NEW port \in Ports, Request(packet, port)
      PROVE  Transfer(file, server', c, toClient', U, n)
  <2> DEFINE s == [state |-> IF packet.id = 0 THEN "data" ELSE "oack", start |-> 0,
                   blocksize |-> IF packet.id = 0 THEN BlockSize ELSE packet.id,
                   blockid |-> 1]
  <2>1. /\ packet.op = "RRQ" /\ server[port].state = "none"
        /\ server' = [server EXCEPT ![port] = s] /\ toClient' = Sent(port, s)
    BY <1>5 DEF Request, GoesOn, Sent
  <2>2. packet.id = c.blksize BY <1>2, <1>3, <2>1 DEF Up, packet
  <2>3. packet.id \in Nat /\ BlockSize \in Nat \ {0}
    <3>1. c \in Reader BY <1>2 DEF Types
    <3> QED BY <2>2, <3>1, BlksizeIs
  <2>4. /\ s \in Serving /\ s.state # "none" /\ s.start = 0 /\ s.blockid = 1
        /\ s.blocksize = BlockLength(c) /\ s.state = IF c.blksize = 0 THEN "data" ELSE "oack"
    BY <2>2, <2>3 DEF Serving, BlockLength
  <2> HIDE DEF s
  <2>5. Fresh(s, c) BY <2>4 DEF Fresh
  <2>6. Served(file, s, c)
    <3>1. c \in Reader /\ file \in Seq(Nat) BY <1>2 DEF Types
    <3>2. BlockLength(c) \in Nat BY <3>1, BlockLengthIs
    <3>3. (1 - 1) * BlockLength(c) = 0 /\ 0 <= Len(file) BY <3>1, <3>2
    <3> QED BY <2>4, <3>3 DEF Served
  <2>7. ~(Bound(c) /\ port = c.port)
    BY <2>1, <1>4 DEF Transfer, Paired
  <2>8. Transfer(file, [server EXCEPT ![port] = s], c, Sent(port, s), U, n)
    BY <1>4, <2>4, <2>5, <2>6, <2>7, GoesOnKeeps DEF Sent
  <2> QED BY <2>1, <2>8
<1>6. ASSUME NEW port \in Ports, Ack(packet, port)
      PROVE  Transfer(file, server', c, toClient', U, n)
  <2> DEFINE s == server[port]
             t == Acknowledged(s)
  <2>1. packet.op = "ACK" /\ packet.port = port BY <1>6 DEF Ack
  <2>2. CASE ~(Active(s) /\ Expected(packet, s))
    <3>1. server' = server /\ toClient' = toClient BY <1>6, <2>2 DEF Ack
    <3> QED BY <1>4, <3>1
  <2>3. CASE Active(s) /\ Expected(packet, s)
    <3>1. server' = [server EXCEPT ![port] = t] /\ toClient' = Sent(port, t)
      BY <1>6, <2>3 DEF Ack, GoesOn, Sent
    <3>2. Bound(c) /\ port = c.port /\ Paired(file, t, c, toClient, U, n)
      BY <1>1, <2>1, <2>3, AcknowledgedPaired DEF packet, c, U, n
    <3>3. s \in Serving /\ Served(file, s, c) /\ c \in Reader /\ file \in Seq(Nat)
      BY <1>2, <1>4 DEF Types, Transfer, Servers
    <3>4. t \in Serving /\ t.state # "none" /\ Served(file, t, c)
      BY <2>3, <3>3, AcknowledgedServed
    <3> HIDE DEF t
    <3>5. Transfer(file, [server EXCEPT ![port] = t], c, Sent(port, t), U, n)
      BY <1>4, <3>2, <3>4, GoesOnKeeps DEF Sent
    <3> QED BY <3>1, <3>5
  <2> QED BY <2>2, <2>3
<1>7. Transfer(file, server', c, toClient', U, n)
  <2>1. \E port \in Ports : Request(packet, port) \/ Ack(packet, port)
    BY DEF ServerReads, packet
  <2> QED BY <1>5, <1>6, <2>1
<1> QED BY <1>1, <1>7 DEF AtPresent, c

\* The server sends again after a timeout.
LEMMA SendAgainKeeps ==
  ASSUME TransferOK, AtPresent, NEW port \in Ports, SendAgain(port)
  PROVE  AtPresent'
<1> DEFINE s == server[port]
           new == IF Active(s) THEN Put(toClient, Sending(port, s)) ELSE toClient
<1>1. /\ Active(s) /\ file' = file /\ client' = client /\ toServer' = toServer
      /\ faults' = faults /\ server' = [server EXCEPT ![port] = s] /\ toClient' = new
  BY DEF SendAgain, GoesOn
<1>2. s \in Serving /\ s.state # "none" /\ Served(file, s, client)
      /\ (port # client.port => Fresh(s, client))
  BY <1>1 DEF AtPresent, Transfer, Types, Servers, Active
<1>3. Bound(client) /\ port = client.port =>
        Paired(file, s, client, toClient, toServer, faults)
  BY DEF AtPresent, Transfer
<1>4. Transfer(file, server, client, toClient, toServer, faults) BY DEF AtPresent
<1> HIDE DEF s
<1>5. Transfer(file, [server EXCEPT ![port] = s], client, new, toServer, faults)
  BY <1>2, <1>3, <1>4, GoesOnKeeps
<1> QED BY <1>1, <1>5 DEF AtPresent

\* The server's time for a packet is over.
LEMMA GiveUpKeeps ==
  ASSUME TransferOK, AtPresent, NEW port \in Ports, GiveUp(port)
  PROVE  AtPresent'
<1> DEFINE s == server[port]
           t == [s EXCEPT !.state = "failed"]
           new == IF Active(t) THEN Put(toClient, Sending(port, t)) ELSE toClient
<1>1. /\ Active(s) /\ file' = file /\ client' = client /\ toServer' = toServer
      /\ faults' = faults /\ server' = [server EXCEPT ![port] = t] /\ toClient' = toClient
  BY DEF GiveUp
<1>2. Types(file, server, client, toClient, toServer, faults) BY DEF AtPresent, Transfer
<1>3. s \in Serving /\ Served(file, s, client) /\ (port # client.port => Fresh(s, client))
      /\ s.blockid \in Nat
  BY <1>2 DEF AtPresent, Transfer, Types, Servers, Serving
<1>4. /\ t \in Serving /\ t.state = "failed" /\ t.blockid = s.blockid
      /\ t.blocksize = s.blocksize
  BY <1>3 DEF Serving
<1> HIDE DEF s, t
<1>5. new = toClient /\ Served(file, t, client) BY <1>1, <1>3, <1>4 DEF Active, Served
<1>6. port # client.port => Fresh(t, client) BY <1>1, <1>3, <1>4 DEF Fresh, Active
<1>7. ASSUME Bound(client), port = client.port
      PROVE  Paired(file, t, client, toClient, toServer, faults)
  <2> DEFINE c == client
             D == FromServer(file, BlockLength(c), c.port, toClient)
  <2>1. Paired(file, s, c, toClient, toServer, faults)
    BY <1>7 DEF AtPresent, Transfer, s
  <2>2. D \in Seq(SUBSET Nat) /\ c.blockid \in Nat /\ c.ack \in Nat /\ faults \in Nat
    BY <1>2, FromServerType DEF Types, Reader
  <2>3. /\ s.state # "none" /\ s.blockid <= c.blockid /\ c.ack <= Highest(s)
        /\ Numbered(D, c.blockid - faults, Highest(s), c.blockid)
    BY <2>1 DEF Paired
  <2> HIDE DEF c, D
  <2>4. Highest(s) \in Nat /\ Highest(s) <= s.blockid BY <1>3, <2>3, HighestIs
  <2>5. Highest(t) = s.blockid BY <1>4 DEF Highest
  <2>6. Numbered(D, c.blockid - faults, s.blockid, c.blockid)
    BY <1>3, <2>2, <2>3, <2>4, NumberedWider
  <2> QED BY <1>3, <1>4, <2>1, <2>2, <2>3, <2>4, <2>5, <2>6 DEF Paired, c, D
<1>8. Transfer(file, server, client, toClient, toServer, faults) BY DEF AtPresent
<1>9. Transfer(file, [server EXCEPT ![port] = t], client, new, toServer, faults)
  BY <1>4, <1>5, <1>6, <1>7, <1>8, GoesOnKeeps
<1> QED BY <1>1, <1>5, <1>9 DEF AtPresent

-----------------------------------------------------------------------------
(* The steps of the client. *)

\* What a client without a server writes is a request, what another writes the
\* ACK of its last block.
Asking(c) == IF c.state = "request" THEN RRQ(c.blksize) ELSE ACK(c.port, c.ack)

\* A client writes, for the first time or again.
LEMMA WriteKeeps ==
  ASSUME TransferOK, NEW f, NEW S, NEW c, NEW down, NEW up, NEW n,
         Transfer(f, S, c, down, up, n), c.state = "request" \/ Bound(c)
  PROVE  Transfer(f, S, c, down, Put(up, Asking(c)), n)
<1> DEFINE p == Asking(c)
           U == Put(up, p)
           N == FromClient(up)
<1>1. Types(f, S, c, down, up, n) /\ c.blockid = c.ack + 1 BY DEF Transfer, Progress
<1>2. c.ack \in Nat /\ c.blksize \in Nat /\ c.port \in Ports \cup {0} /\ n \in Nat
      /\ c.blockid \in Nat
  <2>1. c \in Reader /\ n \in Nat BY <1>1 DEF Types
  <2>2. c.blksize \in Nat BY <2>1, BlksizeIs
  <2> QED BY <2>1, <2>2 DEF Reader
<1>3. p \in Question /\ (\/ p.op = "RRQ" /\ p.id = c.blksize
                         \/ /\ p.op = "ACK" /\ p.port = c.port /\ Bound(c)
                            /\ p.id = c.ack % IdSpace)
  <2>1. CASE c.state = "request" BY <1>2, <2>1 DEF Asking, RRQ, Question
  <2>2. CASE c.state # "request"
    <3>1. c.ack % IdSpace \in Nat BY <1>2 DEF TransferOK
    <3> QED BY <1>2, <2>2, <3>1 DEF Asking, ACK, Question
  <2> QED BY <2>1, <2>2
<1>4. up \in Seq(Question) BY <1>1 DEF Types
<1> HIDE DEF p
<1>5. U \in Seq(Question) BY <1>3, <1>4 DEF Put
<1>6. Up(c, U)
  <2>1. Up(c, up) BY DEF Transfer
  <2>2. Up(c, Append(up, p))
    <3>1. \A i \in DOMAIN Append(up, p) :
            \/ Append(up, p)[i] = p
            \/ i \in DOMAIN up /\ Append(up, p)[i] = up[i]
      BY <1>4
    <3>2. c.ack \in Nat BY <1>2
    <3> QED BY <1>3, <2>1, <3>1, <3>2, Zenon DEF Up
  <2> QED BY <2>1, <2>2 DEF Put
<1>7. ASSUME Bound(c) PROVE Paired(f, S[c.port], c, down, U, n)
  <2> DEFINE s == S[c.port]
             b == s.blockid
  <2>1. Paired(f, s, c, down, up, n) BY <1>7 DEF Transfer
  <2>2. b \in Nat /\ b <= c.ack + 1 /\ Numbered(N, b - n, c.ack, b) /\ c.ack <= Highest(s)
        /\ s \in Serving /\ s.state # "none" /\ Served(f, s, c)
    BY <1>1, <1>7, <2>1 DEF Types, Serving, Bound, Paired, Transfer, Servers
  <2>3. c.ack <= b
    <3>1. Highest(s) \in Nat /\ Highest(s) <= b BY <2>2, HighestIs
    <3> QED BY <1>2, <2>2, <3>1
  <2> DEFINE low == b - n
  <2> HIDE DEF s, b
  <2>4. ASSUME p.op = "ACK"
        PROVE  \E k \in Nat : /\ p.id = k % IdSpace /\ low - 1 <= k /\ k <= c.ack
                              /\ (\E j \in DOMAIN up : b \in AckNumbers(up[j])) => low <= k
    <3>1. p.id = c.ack % IdSpace BY <1>3, <2>4
    <3>2. low - 1 <= c.ack BY <1>2, <2>2
    <3>3. ASSUME NEW j \in DOMAIN up, b \in AckNumbers(up[j])
          PROVE  low <= c.ack
      <4>1. N \in Seq(SUBSET Nat) /\ Len(N) = Len(up) /\ Apart(N) /\ N[j] = AckNumbers(up[j])
        BY <1>4, FromClientType
      <4>2. j \in DOMAIN N /\ b \in N[j]
        <5> HIDE DEF N
        <5> QED BY <1>4, <3>3, <4>1
      <4> HIDE DEF N
      <4>3. b - (b - n) + 1 < IdSpace /\ IdSpace \in Nat /\ b - n \in Int
        <5>1. MaxFaults + 1 < IdSpace /\ IdSpace \in Nat /\ MaxFaults \in Nat
          BY DEF TransferOK
        <5>2. n <= MaxFaults BY <1>1, <5>1 DEF Types
        <5> QED BY <1>2, <2>2, <5>1, <5>2
      <4>4. Numbered(N, b - n, c.ack, b) BY <2>2
      <4>5. b <= c.ack
        BY ONLY <1>2, <2>2, <2>3, <4>1, <4>2, <4>3, <4>4, NumberedExact
      <4> QED BY <1>2, <2>2, <4>5
    <3> QED BY <1>2, <3>1, <3>2, <3>3
  <2>5. Numbered(FromClient(U), b - n, c.ack, b)
    <3>1. low \in Int /\ c.ack \in Int /\ b \in Int /\ p \in Question BY <1>2, <1>3, <2>2
    <3>2. Numbered(FromClient(up), low, c.ack, b) BY <2>2
    <3> HIDE DEF low
    <3>3. Numbered(FromClient(Put(up, p)), low, c.ack, b)
      BY ONLY TransferOK, <1>4, <2>4, <3>1, <3>2, PutAsked
    <3> QED BY <3>3 DEF low
  <2> QED BY <2>1, <2>5 DEF Paired, s, b
<1>8. Types(f, S, c, down, U, n) BY <1>1, <1>5 DEF Types
<1> QED BY <1>6, <1>7, <1>8 DEF Transfer, p

\* The state of a client is no part of what the others know of it.
LEMMA StateKeeps ==
  ASSUME TransferOK, NEW f, NEW S, NEW c, NEW down, NEW up, NEW n,
         Transfer(f, S, c, down, up, n), NEW x \in {"reading", "error"}
  PROVE  Transfer(f, S, [c EXCEPT !.state = x], down, up, n)
<1> DEFINE d == [c EXCEPT !.state = x]
<1>1. c \in Reader /\ Types(f, S, c, down, up, n) BY DEF Transfer, Types
<1>2. /\ d \in Reader /\ d.state = x /\ d.blksize = c.blksize /\ d.port = c.port
      /\ d.blockid = c.blockid /\ d.ack = c.ack /\ d.got = c.got
  BY <1>1 DEF Reader
<1> HIDE DEF d
<1>3. /\ BlockLength(d) = BlockLength(c) /\ First(d) = First(c) /\ (Bound(d) <=> Bound(c))
      /\ \A s : (Served(f, s, d) <=> Served(f, s, c)) /\ (Fresh(s, d) <=> Fresh(s, c))
  BY <1>2 DEF BlockLength, First, Bound, Served, Fresh
<1>4. Types(f, S, d, down, up, n) BY <1>1, <1>2 DEF Types
<1>5. Servers(f, S, d) BY <1>2, <1>3 DEF Servers, Transfer
<1>6. Progress(f, d) BY <1>2, <1>3 DEF Progress, Transfer
<1>7. Down(f, S, d, down) BY <1>3 DEF Down, Transfer
<1>8. Up(d, up) BY <1>2, <1>3 DEF Up, Transfer
<1>9. Bound(d) => Paired(f, S[d.port], d, down, up, n)
  BY <1>2, <1>3 DEF Paired, Transfer
<1> QED BY <1>4, <1>5, <1>6, <1>7, <1>8, <1>9 DEF Transfer, d

\* The first answer binds the client to the port it comes from.
LEMMA BindKeeps ==
  ASSUME TransferOK, NEW f, NEW S, NEW c, NEW down, NEW up, NEW n,
         Transfer(f, S, c, down, up, n), ~Bound(c), NEW m \in DOMAIN down
  PROVE  /\ Transfer(f, S, [c EXCEPT !.port = down[m].port], down, up, n)
         /\ Bound([c EXCEPT !.port = down[m].port])
<1> DEFINE port == down[m].port
           d == [c EXCEPT !.port = port]
           s == S[port]
           z == BlockLength(c)
           D == FromServer(f, z, port, down)
           N == FromClient(up)
<1>1. Types(f, S, c, down, up, n) BY DEF Transfer
<1>2. port \in Ports
  <2>1. down[m] \in Answer BY <1>1 DEF Types
  <2> QED BY <2>1 DEF Answer
<1>3. c \in Reader /\ down \in Seq(Answer) /\ up \in Seq(Question) /\ n \in Nat
  BY <1>1 DEF Types
<1>4. /\ d \in Reader /\ d.state = c.state /\ d.blksize = c.blksize /\ d.port = port
      /\ d.blockid = c.blockid /\ d.ack = c.ack /\ d.got = c.got
  BY <1>2, <1>3 DEF Reader
<1>5. c.ack = 0 /\ c.blockid = 1
  BY <1>3 DEF Transfer, Progress, Reader
<1> HIDE DEF d
<1>6. /\ BlockLength(d) = z /\ First(d) = First(c) /\ Bound(d)
      /\ \A x : (Served(f, x, d) <=> Served(f, x, c)) /\ (Fresh(x, d) <=> Fresh(x, c))
  BY <1>2, <1>4 DEF BlockLength, First, Bound, Served, Fresh
<1>7. \A p \in Ports : Served(f, S[p], c) /\ Fresh(S[p], c)
  BY DEF Transfer, Servers, Bound
<1>8. \A i \in DOMAIN down :
        S[down[i].port].state # "none" /\ IsBlock(f, z, down[i], First(c))
                             /\ \E k \in Nat : IsBlock(f, z, down[i], k)
  BY DEF Transfer, Down
<1>9. \A i \in DOMAIN up : up[i].op = "RRQ" /\ up[i].id = c.blksize
  BY DEF Transfer, Up
<1>10. /\ s.state # "none" /\ Served(f, s, c) /\ s \in Serving /\ s.blockid = 1
       /\ s.state \in {"failed", IF c.blksize = 0 THEN "data" ELSE "oack"}
  <2>1. Fresh(s, c) /\ s.state # "none" /\ Served(f, s, c) BY <1>2, <1>7, <1>8
  <2> QED BY <1>1, <1>2, <2>1 DEF Types, Fresh
<1>11. Highest(s) \in Nat /\ First(c) \in Nat /\ First(c) <= Highest(s)
  BY <1>10 DEF Highest, First
<1> HIDE DEF s, z, port, D, N
<1>12. Numbered(D, 1 - n, Highest(s), 1)
  <2>1. /\ DOMAIN D = DOMAIN down
        /\ \A i \in DOMAIN down : D[i] = BlockNumbers(f, z, port, down[i])
    <3>1. D \in Seq(SUBSET Nat) /\ Len(D) = Len(down)
          /\ \A i \in DOMAIN down : D[i] = BlockNumbers(f, z, port, down[i])
      BY <1>3, FromServerType DEF D
    <3> QED BY <1>3, <3>1
  <2>2. SUFFICES ASSUME NEW i \in DOMAIN down, D[i] # {}
                 PROVE  /\ \E k \in D[i] : (1 - n) - 1 <= k /\ k <= Highest(s)
                        /\ (\E j \in DOMAIN down : j < i /\ 1 \in D[j]) =>
                             \E k \in D[i] : 1 - n <= k /\ k <= Highest(s)
    BY <2>1 DEF Numbered
  <2>3. First(c) \in D[i]
    <3>1. D[i] = BlockNumbers(f, z, port, down[i]) BY <2>1, <2>2
    <3>2. down[i].port = port BY <2>2, <3>1 DEF BlockNumbers
    <3> QED BY <1>8, <1>11, <2>2, <3>1, <3>2 DEF BlockNumbers
  <2>4. (1 - n) - 1 <= First(c) BY <1>3, <1>11
  <2>5. ASSUME NEW j \in DOMAIN down, 1 \in D[j] PROVE 1 - n <= First(c)
    <3>1. 1 \in BlockNumbers(f, z, port, down[j]) BY <2>1, <2>5
    <3>2. IsBlock(f, z, down[j], 1) BY <3>1 DEF BlockNumbers
    <3>3. down[j].op = "DATA" BY <3>2 DEF IsBlock
    <3>4. IsBlock(f, z, down[j], First(c)) BY <1>8
    <3>5. First(c) # 0 BY <3>3, <3>4 DEF IsBlock
    <3> QED BY <1>3, <1>11, <3>5
  <2> QED BY <1>11, <2>3, <2>4, <2>5
<1>13. Numbered(N, 1 - n, 0, 1)
  <2>1. N = [i \in 1..Len(up) |-> AckNumbers(up[i])] /\ DOMAIN up = 1..Len(up)
    BY <1>3 DEF N, FromClient
  <2>2. \A i \in 1..Len(up) : AckNumbers(up[i]) = {} BY <1>9, <2>1 DEF AckNumbers
  <2> QED BY <2>1, <2>2 DEF Numbered
<1>14. Paired(f, s, d, down, up, n)
  BY <1>4, <1>5, <1>6, <1>10, <1>11, <1>12, <1>13 DEF Paired, D, N
<1>15. Types(f, S, d, down, up, n) BY <1>1, <1>4 DEF Types
<1>16. Servers(f, S, d) BY <1>6, <1>7 DEF Servers
<1>17. Progress(f, d) BY <1>4, <1>6 DEF Progress, Transfer
<1>18. Down(f, S, d, down) BY <1>6, <1>8 DEF Down
<1>19. Up(d, up) BY <1>4, <1>9 DEF Up
<1> QED BY <1>4, <1>6, <1>14, <1>15, <1>16, <1>17, <1>18, <1>19 DEF Transfer, s, d, port

\* The block that the client waits for comes.
LEMMA BlockKeeps ==
  ASSUME TransferOK, NEW f, NEW S, NEW c, NEW down, NEW up, NEW m, May(down, m),
         Transfer(f, S, c, down, up, faults), Bound(c), down[m].port = c.port,
         down[m].op = "DATA", down[m].id = c.blockid % IdSpace
  PROVE  /\ Transfer(f, S, Read(c, down[m]), Without(down, m), up, faults + m - 1)
         /\ Read(c, down[m]).port = c.port /\ Read(c, down[m]).state \in {"reading", "done"}
<1> DEFINE packet == down[m]
           d == Read(c, packet)
           n == faults + m - 1
           U == Without(down, m)
           z == BlockLength(c)
           s == S[c.port]
           b == c.blockid
           low == b - faults
           high == Highest(s)
           D == FromServer(f, z, c.port, down)
           N == FromClient(up)
           data == Part(f, z, b)
           last == IF IsLast(c, packet) THEN "done" ELSE "reading"
           got == Got(c, packet)
<1>1. Types(f, S, c, down, up, faults) BY DEF Transfer
<1>2. /\ m \in DOMAIN down /\ m \in 1..2 /\ m <= Len(down) /\ n \in 0..MaxFaults
      /\ faults \in Nat /\ n + 1 = faults + m /\ faults <= n
  <2>1. down \in Seq(Answer) /\ faults \in 0..MaxFaults BY <1>1 DEF Types
  <2>2. m \in DOMAIN down /\ m <= 2 /\ (m = 2 => faults < MaxFaults) BY DEF May
  <2>3. MaxFaults \in Nat BY DEF TransferOK
  <2> QED BY ONLY <2>1, <2>2, <2>3 DEF n
<1>3. /\ f \in Seq(Nat) /\ c \in Reader /\ down \in Seq(Answer) /\ up \in Seq(Question)
      /\ s \in Serving /\ s.blockid \in Nat
      /\ b \in Nat /\ c.ack \in Nat /\ b = c.ack + 1 /\ c.got \in Seq(Nat)
      /\ c.got = Received(f, c.blksize, c.ack)
  BY <1>1 DEF Types, Reader, Serving, Bound, Transfer, Progress
<1>4. Transfer(f, S, c, U, up, n) BY ClientTakes
<1>5. /\ s.state # "none" /\ s.blockid <= b /\ c.ack <= high /\ Served(f, s, c)
      /\ Numbered(D, low, high, b)
  BY DEF Transfer, Paired, Servers, Bound
<1>6. Numbered(N, s.blockid - n, c.ack, s.blockid) BY <1>4 DEF Transfer, Paired
<1>7. D \in Seq(SUBSET Nat) /\ Len(D) = Len(down) /\ Apart(D)
      /\ D[m] = BlockNumbers(f, z, c.port, packet)
  BY <1>2, <1>3, FromServerType
<1>8. N \in Seq(SUBSET Nat) BY <1>3, FromClientType
<1>9. FromServer(f, z, c.port, U) = Shorter(D, m)
  <2> HIDE DEF z
  <2> QED BY <1>3, WithoutAnswers
<1>10. high \in Nat /\ high <= b
  <2>1. Highest(s) \in Nat /\ Highest(s) <= s.blockid BY <1>3, <1>5, HighestIs
  <2> QED BY <1>3, <1>5, <2>1
<1>11. z \in Nat \ {0} BY <1>3, BlockLengthIs
<1>12. d = [c EXCEPT !.got = c.got \o got, !.ack = b, !.blockid = b + 1, !.state = last]
  BY DEF Read
<1>13. MaxFaults + 1 < IdSpace /\ IdSpace \in Nat \ {0} /\ MaxFaults \in Nat
  BY DEF TransferOK
<1>14. b - low + m < IdSpace /\ b - low + 1 < IdSpace /\ low \in Int
       /\ low + 2 - m = (b + 1) - n
  <2>1. b \in Nat /\ m \in Nat /\ n \in Nat /\ faults \in Nat /\ n + 1 = faults + m
        /\ n <= MaxFaults /\ faults <= n
    BY <1>2, <1>3, SMTT(30)
  <2> HIDE DEF b, n
  <2> QED BY ONLY <1>13, <2>1 DEF low
<1>15. \E k \in Nat : IsBlock(f, z, packet, k) BY <1>2 DEF Transfer, Down
<1>16. packet.port = c.port /\ packet.op = "DATA" /\ packet.id = b % IdSpace OBVIOUS
<1> HIDE DEF packet, d, n, U, z, s, b, low, high, D, N, data, last, got
<1>17. b \in D[m] /\ m \in DOMAIN D /\ IsBlock(f, z, packet, b)
  <2>1. m \in DOMAIN D BY <1>2, <1>3, <1>7
  <2>2. D[m] = {k \in Nat : IsBlock(f, z, packet, k)} BY <1>7, <1>16 DEF BlockNumbers
  <2>3. PICK k \in D[m] : low - 1 <= k /\ k <= high
    <3>1. D[m] # {} BY <1>15, <2>2
    <3> QED BY <1>5, <2>1, <3>1 DEF Numbered
  <2>4. k \in Nat /\ IsBlock(f, z, packet, k) BY <2>2, <2>3
  <2>5. k % IdSpace = b % IdSpace BY <1>16, <2>4 DEF IsBlock
  <2>6. k - b < IdSpace /\ b - k < IdSpace
    <3>1. b \in Nat /\ high <= b /\ high \in Nat BY <1>3, <1>10
    <3> QED BY ONLY <1>13, <1>14, <2>3, <2>4, <3>1
  <2>7. k = b BY <1>3, <1>13, <2>4, <2>5, <2>6, ModNear
  <2> QED BY <2>1, <2>3, <2>4, <2>7
<1>18. b <= high
  BY ONLY <1>3, <1>5, <1>7, <1>10, <1>13, <1>14, <1>17, NumberedExact
<1>19. Numbered(FromServer(f, z, c.port, U), (b + 1) - n, high, b + 1)
  <2>1. m \in 1..2 /\ m <= Len(D) BY <1>2, <1>7
  <2>2. Numbered(Shorter(D, m), low + 2 - m, high, b + 1)
    <3>1. /\ D \in Seq(SUBSET Nat) /\ Numbered(D, low, high, b) /\ Apart(D) /\ b \in D[m]
          /\ b \in Nat /\ low \in Int /\ high \in Int /\ high <= b /\ b - low + m < IdSpace
      BY <1>3, <1>5, <1>7, <1>10, <1>14, <1>17
    <3> QED BY ONLY <1>13, <2>1, <3>1, NumberedLater
  <2> QED BY <1>9, <1>14, <2>2
<1>20. Numbered(N, s.blockid - n, b, s.blockid)
  <2>1. s.blockid - n \in Int /\ c.ack <= b /\ c.ack \in Int /\ b \in Int BY <1>2, <1>3
  <2> QED BY <1>3, <1>6, <1>8, <2>1, NumberedWider
<1>21. (b - 1) * z <= Len(f) /\ packet.data = data /\ b # 0 /\ b \in Nat \ {0} /\ c.ack = b - 1
  BY <1>3, <1>17 DEF IsBlock, data
<1>22. data \in Seq(Nat) /\ Len(data) \in Nat BY <1>3, <1>11, <1>21, PartIs DEF data
<1>23. /\ got \in Seq(Nat) /\ c.got \o got = Received(f, c.blksize, b)
       /\ last = "done" /\ c.blksize # 0 => c.got \o got = f
  <2>1. CASE c.blksize = 0
    <3>1. got = SubSeq(data, 1, Lesser(Len(data), BlockSize - Header))
      BY <1>21, <2>1 DEF Got, got
    <3>2. z = BlockSize BY <2>1 DEF z, BlockLength
    <3>3. BlockSize \in Nat /\ Header \in Nat /\ Header < BlockSize BY DEF TransferOK
    <3>4. Received(f, 0, b - 1) \in Seq(Nat) /\ c.got = Received(f, 0, b - 1)
      BY <1>3, <1>21, <2>1
    <3>5. got \in Seq(Nat) /\ Received(f, 0, b - 1) \o got = Received(f, 0, b)
      <4>1. (b - 1) * BlockSize <= Len(f) /\ b \in Nat \ {0} /\ f \in Seq(Nat)
        BY <1>3, <1>21, <3>2
      <4>2. data = Part(f, BlockSize, b) BY <3>2 DEF data
      <4> QED BY ONLY <3>1, <3>3, <3>4, <4>1, <4>2, GetReceives
    <3> QED BY <2>1, <3>4, <3>5, Zenon
  <2>2. CASE c.blksize # 0
    <3>1. got = data BY <1>21, <2>2 DEF Got, got
    <3>2. z = c.blksize BY <2>2 DEF z, BlockLength
    <3>3. last = "done" => Len(data) < z BY <1>21, <2>2, <3>2 DEF last, IsLast
    <3>4. /\ Received(f, z, b - 1) \o data = Received(f, z, b)
          /\ Len(data) < z => Received(f, z, b) = f
      BY <1>3, <1>11, <1>21, LoaderReceives DEF data
    <3> QED BY <1>3, <1>21, <1>22, <3>1, <3>2, <3>3, <3>4
  <2> QED BY <2>1, <2>2
<1>24. c.got \o got \in Seq(Nat) /\ last \in {"reading", "done"}
  <2>1. c.got \o got \in Seq(Nat) BY <1>3, <1>23, ConcatProperties
  <2> QED BY <2>1 DEF last
<1>25. /\ d \in Reader /\ d.state = last /\ d.blksize = c.blksize /\ d.port = c.port
       /\ d.blockid = b + 1 /\ d.ack = b /\ d.got = c.got \o got
  <2> DEFINE whole == c.got \o got
  <2>1. whole \in Seq(Nat) /\ b + 1 \in Nat BY <1>3, <1>24
  <2>2. d = [c EXCEPT !.got = whole, !.ack = b, !.blockid = b + 1, !.state = last] BY <1>12
  <2> HIDE DEF whole
  <2>3. /\ d \in Reader /\ d.state = last /\ d.blksize = c.blksize /\ d.port = c.port
        /\ d.blockid = b + 1 /\ d.ack = b /\ d.got = whole
    BY <1>3, <1>24, <2>1, <2>2 DEF Reader
  <2> QED BY <2>3 DEF whole
<1>26. /\ BlockLength(d) = z /\ First(d) = First(c) /\ (Bound(d) <=> Bound(c))
       /\ \A x : (Served(f, x, d) <=> Served(f, x, c)) /\ (Fresh(x, d) <=> Fresh(x, c))
  BY <1>25 DEF BlockLength, First, Bound, Served, Fresh, z
<1>27. Paired(f, s, d, U, up, n)
  BY <1>3, <1>5, <1>18, <1>19, <1>20, <1>25, <1>26 DEF Paired, high, N
<1>28. Types(f, S, d, U, up, n) BY <1>4, <1>25 DEF Types, Transfer
<1>29. Servers(f, S, d) BY <1>25, <1>26 DEF Servers, Transfer
<1>30. Progress(f, d) BY <1>23, <1>25, <1>26 DEF Progress
<1>31. Down(f, S, d, U) BY <1>4, <1>26 DEF Down, Transfer, z
<1>32. Up(d, up) BY <1>25, <1>26 DEF Up, Transfer
<1>33. Transfer(f, S, d, U, up, n)
  BY <1>25, <1>27, <1>28, <1>29, <1>30, <1>31, <1>32 DEF Transfer, s
<1> QED BY <1>24, <1>25, <1>33 DEF d, U, n, packet

\* What a client has become with a packet, with the packet it then writes.
LEMMA WrittenKeeps ==
  ASSUME TransferOK, NEW f, NEW S, NEW c, NEW down, NEW up, NEW n,
         Transfer(f, S, c, down, up, n), Bound(c), c.state # "request"
  PROVE  Transfer(f, S, c, down,
                  IF c.state = "error" THEN up ELSE Put(up, Asking(c)), n) /\ Stage(c)
<1> QED BY WriteKeeps DEF Stage

\* A client reads a packet from its port.
LEMMA ReadKeeps ==
  ASSUME TransferOK, NEW c, NEW m, May(toClient, m), Bound(c), toClient[m].port = c.port,
         Transfer(file, server, c, toClient, toServer, faults)
  PROVE  LET next == Read(c, toClient[m])
         IN /\ Transfer(file, server, next, Without(toClient, m), toServer, faults + m - 1)
            /\ Bound(next) /\ next.state # "request"
<1> DEFINE packet == toClient[m]
           next == Read(c, packet)
<1>1. c \in Reader BY DEF Transfer, Types
<1>2. CASE packet.op = "DATA" /\ packet.id = c.blockid % IdSpace
  <2>1. /\ Transfer(file, server, next, Without(toClient, m), toServer, faults + m - 1)
        /\ next.port = c.port /\ next.state \in {"reading", "done"}
    BY <1>2, BlockKeeps
  <2> HIDE DEF next
  <2>2. Bound(next) /\ next.state # "request" BY <2>1 DEF Bound
  <2> QED BY <2>1, <2>2 DEF next
<1>3. CASE ~(packet.op = "DATA" /\ packet.id = c.blockid % IdSpace)
  <2>1. PICK x \in {"reading", "error"} : next = [c EXCEPT !.state = x]
    BY <1>3, Zenon DEF Read
  <2>2. Transfer(file, server, c, Without(toClient, m), toServer, faults + m - 1)
    BY ClientTakes
  <2>3. next.port = c.port /\ next.state = x BY <1>1, <2>1 DEF Reader
  <2> HIDE DEF next
  <2>4. Transfer(file, server, next, Without(toClient, m), toServer, faults + m - 1)
    BY <2>1, <2>2, StateKeeps
  <2>5. Bound(next) /\ next.state # "request" BY <2>3 DEF Bound
  <2> QED BY <2>4, <2>5 DEF next
<1> QED BY <1>2, <1>3

\* The invariant, with the stage of the client.
Held == AtPresent /\ Stage(client)

\* The client reads a packet from any port.
LEMMA ClientReadsKeeps ==
  ASSUME TransferOK, Held, NEW m \in 1..2, ClientReads(m)
  PROVE  Held'
<1> DEFINE packet == toClient[m]
           c == IF client.state = "request" THEN [client EXCEPT !.port = packet.port] ELSE client
           next == IF packet.port = c.port THEN Read(c, packet) ELSE c
           U == Without(toClient, m)
           n == faults + m - 1
           W == IF next.state = "error" THEN toServer ELSE Put(toServer, Asking(next))
<1>1. /\ client.state \in {"request", "reading"} /\ May(toClient, m) /\ client' = next
      /\ toServer' = W /\ toClient' = U /\ faults' = n /\ file' = file /\ server' = server
  BY DEF ClientReads, Write, Asking
<1>2. /\ Transfer(file, server, client, toClient, toServer, faults)
      /\ client \in Reader /\ m \in DOMAIN toClient
  BY <1>1 DEF Held, AtPresent, Transfer, Types, May
<1>3. Transfer(file, server, next, U, toServer, n) /\ Bound(next) /\ next.state # "request"
  <2>1. CASE client.state = "request"
    <3>1. ~Bound(client) BY <2>1 DEF Held, Stage
    <3>2. c = [client EXCEPT !.port = packet.port] BY <2>1
    <3>3. Transfer(file, server, c, toClient, toServer, faults) /\ Bound(c)
      BY <1>2, <3>1, <3>2, BindKeeps
    <3>4. c.port = packet.port BY <1>2, <3>2 DEF Reader
    <3> HIDE DEF c
    <3>5. next = Read(c, packet) BY <3>4
    <3> HIDE DEF next
    <3>6. /\ Transfer(file, server, Read(c, packet), U, toServer, n)
          /\ Bound(Read(c, packet)) /\ Read(c, packet).state # "request"
      BY <1>1, <3>3, <3>4, ReadKeeps
    <3> QED BY <3>5, <3>6
  <2>2. CASE client.state = "reading"
    <3>1. Bound(client) BY <2>2 DEF Held, Stage
    <3>2. c = client BY <2>2
    <3> HIDE DEF c
    <3>3. CASE packet.port = c.port
      <4>1. next = Read(c, packet) BY <3>3
      <4> HIDE DEF next
      <4>2. /\ Transfer(file, server, Read(c, packet), U, toServer, n)
            /\ Bound(Read(c, packet)) /\ Read(c, packet).state # "request"
        BY <1>1, <1>2, <3>1, <3>2, <3>3, ReadKeeps
      <4> QED BY <4>1, <4>2
    <3>4. CASE packet.port # c.port
      <4>1. next = client BY <3>2, <3>4
      <4> HIDE DEF next
      <4>2. Transfer(file, server, client, U, toServer, n) BY <1>1, <1>2, ClientTakes
      <4> QED BY <2>2, <3>1, <4>1, <4>2
    <3> QED BY <3>3, <3>4
  <2> QED BY <1>1, <2>1, <2>2
<1> HIDE DEF next, U, n
<1>4. Transfer(file, server, next, U, W, n) /\ Stage(next) BY <1>3, WrittenKeeps
<1> QED BY <1>1, <1>4 DEF Held, AtPresent

\* The client writes again.
LEMMA WriteAgainKeeps ==
  ASSUME TransferOK, Held, WriteAgain
  PROVE  Held'
<1>1. /\ client.state \in {"request", "reading"}
      /\ toServer' = Put(toServer, Asking(client))
      /\ UNCHANGED <<file, server, client, toClient, faults>>
  BY DEF WriteAgain, Write, Asking
<1>2. client.state = "request" \/ Bound(client) BY <1>1 DEF Held, Stage
<1>3. Transfer(file, server, client, toClient, toServer, faults) /\ Stage(client)
  BY DEF Held, AtPresent
<1>4. Transfer(file, server, client, toClient, Put(toServer, Asking(client)), faults)
  BY <1>2, <1>3, WriteKeeps
<1> QED BY <1>1, <1>3, <1>4 DEF Held, AtPresent

\* The client's time is over.
LEMMA TimeoutKeeps ==
  ASSUME TransferOK, Held, Timeout
  PROVE  Held'
<1> DEFINE d == [client EXCEPT !.state = "error"]
<1>1. client' = d /\ UNCHANGED <<file, server, toClient, toServer, faults>> BY DEF Timeout
<1>2. Transfer(file, server, d, toClient, toServer, faults) BY StateKeeps DEF Held, AtPresent
<1>3. Stage(d)
  <2>1. client \in Reader BY DEF Held, AtPresent, Transfer, Types
  <2>2. d.state = "error" BY <2>1 DEF Reader
  <2> HIDE DEF d
  <2> QED BY <2>2 DEF Stage
<1> HIDE DEF d
<1> QED BY <1>1, <1>2, <1>3 DEF Held, AtPresent

-----------------------------------------------------------------------------
(* The network. *)

\* A packet is lost.
LEMMA LoseKeeps ==
  ASSUME TransferOK, Held, Lose
  PROVE  Held'
<1>1. /\ faults < MaxFaults /\ faults' = faults + 1 /\ file' = file /\ server' = server
      /\ client' = client
  BY DEF Lose
<1>2. /\ Transfer(file, server, client, toClient, toServer, faults) /\ Stage(client)
      /\ toClient \in Seq(Answer) /\ toServer \in Seq(Question) /\ faults \in Nat
  BY DEF Held, AtPresent, Transfer, Types
<1>3. CASE toClient # <<>> /\ toClient' = Tail(toClient) /\ toServer' = toServer
  <2>1. May(toClient, 1) /\ Without(toClient, 1) = Tail(toClient)
    BY <1>2, <1>3 DEF May, Without
  <2>2. faults + 1 - 1 = faults BY <1>2
  <2>3. Transfer(file, server, client, Tail(toClient), toServer, faults)
    BY <1>2, <2>1, <2>2, ClientTakes
  <2>4. Transfer(file, server, client, Tail(toClient), toServer, faults + 1)
    BY <1>1, <2>3, FaultCounted
  <2> QED BY <1>1, <1>2, <1>3, <2>4 DEF Held, AtPresent
<1>4. CASE toServer # <<>> /\ toServer' = Tail(toServer) /\ toClient' = toClient
  <2>1. May(toServer, 1) /\ Without(toServer, 1) = Tail(toServer)
    BY <1>2, <1>4 DEF May, Without
  <2>2. faults + 1 - 1 = faults BY <1>2
  <2>3. Transfer(file, server, client, toClient, Tail(toServer), faults)
    BY <1>2, <2>1, <2>2, ServerTakes
  <2>4. Transfer(file, server, client, toClient, Tail(toServer), faults + 1)
    BY <1>1, <2>3, FaultCounted
  <2> QED BY <1>1, <1>2, <1>4, <2>4 DEF Held, AtPresent
<1> QED BY <1>3, <1>4 DEF Lose

\* The copy of a packet has its number: of one that may be older by one.
LEMMA DuplicateDown ==
  ASSUME TransferOK, NEW f, NEW S, NEW c, NEW down, NEW up, NEW n, n < MaxFaults,
         Transfer(f, S, c, down, up, n), down # <<>>
  PROVE  Transfer(f, S, c, Put(down, Head(down)), up, n + 1)
<1> DEFINE p == down[1]
           z == BlockLength(c)
           U == Put(down, p)
<1>1. Transfer(f, S, c, down, up, n + 1) BY FaultCounted
<1>2. down \in Seq(Answer) /\ n \in Nat /\ c \in Reader /\ S \in [Ports -> Serving]
  BY DEF Transfer, Types
<1>3. 1 \in DOMAIN down /\ p \in Answer /\ Head(down) = p BY <1>2
<1> HIDE DEF p, z
<1>4. U \in Seq(Answer) BY <1>2, <1>3 DEF Put
<1>5. Down(f, S, c, U)
  <2>1. Down(f, S, c, down) BY DEF Transfer
  <2>2. Down(f, S, c, Append(down, p))
    <3>1. \A i \in DOMAIN Append(down, p) :
            \E j \in DOMAIN down : Append(down, p)[i] = down[j]
      BY <1>2, <1>3 DEF p
    <3> QED BY <2>1, <3>1, Zenon DEF Down
  <2> QED BY <2>1, <2>2 DEF Put
<1>6. ASSUME Bound(c) PROVE Paired(f, S[c.port], c, U, up, n + 1)
  <2> DEFINE s == S[c.port]
             b == c.blockid
             D == FromServer(f, z, c.port, down)
             low == b - (n + 1)
             high == Highest(s)
  <2>1. Paired(f, s, c, down, up, n) /\ Paired(f, s, c, down, up, n + 1)
    BY <1>1, <1>6 DEF Transfer
  <2>2. /\ s \in Serving /\ s.state # "none" /\ Served(f, s, c) /\ b \in Nat
        /\ Numbered(D, b - n, high, b) /\ Numbered(D, low, high, b)
    BY <1>2, <1>6, <2>1 DEF Bound, Paired, Transfer, Servers, Reader, z
  <2>3. high \in Nat BY <2>2, HighestIs
  <2>4. D \in Seq(SUBSET Nat) /\ Len(D) = Len(down) /\ D[1] = BlockNumbers(f, z, c.port, p)
    BY <1>2, <1>3, FromServerType DEF p
  <2>5. \E k \in Nat : IsBlock(f, z, p, k) BY <1>3 DEF Transfer, Down, z, p
  <2> HIDE DEF s, b, D, high
  <2>6. ASSUME p.port = c.port
        PROVE  \E k \in Nat :
                 /\ IsBlock(f, z, p, k) /\ low - 1 <= k /\ k <= high
                 /\ (\E j \in DOMAIN down : b \in BlockNumbers(f, z, c.port, down[j]))
                    => low <= k
    <3>1. D[1] = {k \in Nat : IsBlock(f, z, p, k)} BY <2>4, <2>6 DEF BlockNumbers
    <3>2. 1 \in DOMAIN D /\ D[1] # {} BY <1>2, <1>3, <2>4, <2>5, <3>1
    <3>3. PICK k \in D[1] : (b - n) - 1 <= k /\ k <= high BY <2>2, <3>2 DEF Numbered
    <3>4. k \in Nat /\ IsBlock(f, z, p, k) BY <3>1, <3>3
    <3>5. low <= k /\ low - 1 <= k BY <1>2, <2>2, <3>3, <3>4
    <3> QED BY <3>3, <3>4, <3>5
  <2>7. low \in Int /\ high \in Int /\ b \in Int BY <1>2, <2>2, <2>3
  <2>8. Numbered(D, low, high, b) BY <2>2
  <2> HIDE DEF low
  <2>9. Numbered(FromServer(f, z, c.port, Put(down, p)), low, high, b)
    BY ONLY TransferOK, <1>2, <1>3, <2>6, <2>7, <2>8, PutNumbered DEF D
  <2> QED BY <2>1, <2>9 DEF Paired, s, b, low, high, z
<1>7. Types(f, S, c, U, up, n + 1) BY <1>1, <1>4 DEF Transfer, Types
<1> QED BY <1>1, <1>3, <1>5, <1>6, <1>7 DEF Transfer

\* The copy of an ACK has its number, too.
LEMMA DuplicateUp ==
  ASSUME TransferOK, NEW f, NEW S, NEW c, NEW down, NEW up, NEW n, n < MaxFaults,
         Transfer(f, S, c, down, up, n), up # <<>>
  PROVE  Transfer(f, S, c, down, Put(up, Head(up)), n + 1)
<1> DEFINE p == up[1]
           U == Put(up, p)
<1>1. Transfer(f, S, c, down, up, n + 1) BY FaultCounted
<1>2. up \in Seq(Question) /\ n \in Nat /\ c \in Reader /\ S \in [Ports -> Serving]
  BY DEF Transfer, Types
<1>3. 1 \in DOMAIN up /\ p \in Question /\ Head(up) = p BY <1>2
<1> HIDE DEF p
<1>4. U \in Seq(Question) BY <1>2, <1>3 DEF Put
<1>5. Up(c, U)
  <2>1. Up(c, up) BY DEF Transfer
  <2>2. Up(c, Append(up, p))
    <3>1. \A i \in DOMAIN Append(up, p) : \E j \in DOMAIN up : Append(up, p)[i] = up[j]
      BY <1>2, <1>3 DEF p
    <3> QED BY <2>1, <3>1, ZenonT(30) DEF Up
  <2> QED BY <2>1, <2>2 DEF Put
<1>6. ASSUME Bound(c) PROVE Paired(f, S[c.port], c, down, U, n + 1)
  <2> DEFINE s == S[c.port]
             b == s.blockid
             N == FromClient(up)
             low == b - (n + 1)
             high == c.ack
  <2>1. Paired(f, s, c, down, up, n) /\ Paired(f, s, c, down, up, n + 1)
    BY <1>1, <1>6 DEF Transfer
  <2>2. /\ b \in Nat /\ high \in Nat
        /\ Numbered(N, b - n, high, b) /\ Numbered(N, low, high, b)
    BY <1>2, <1>6, <2>1 DEF Bound, Paired, Serving, Reader
  <2>3. N \in Seq(SUBSET Nat) /\ Len(N) = Len(up) /\ N[1] = AckNumbers(p)
        /\ \A i \in DOMAIN up : N[i] = AckNumbers(up[i])
    BY <1>2, <1>3, FromClientType DEF p
  <2> HIDE DEF s, b, N, high
  <2>4. ASSUME p.op = "ACK"
        PROVE  \E k \in Nat : /\ p.id = k % IdSpace /\ low - 1 <= k /\ k <= high
                              /\ (\E j \in DOMAIN up : b \in AckNumbers(up[j])) => low <= k
    <3>1. N[1] = {k \in Nat : p.id = k % IdSpace} BY <2>3, <2>4 DEF AckNumbers
    <3>2. 1 \in DOMAIN N /\ N[1] # {}
      <4>1. \E k \in Nat : p.id = k % IdSpace BY <1>3, <2>4 DEF Transfer, Up, p
      <4> QED BY <1>2, <1>3, <2>3, <3>1, <4>1
    <3>3. PICK k \in N[1] : (b - n) - 1 <= k /\ k <= high BY <2>2, <3>2 DEF Numbered
    <3>4. k \in Nat /\ p.id = k % IdSpace BY <3>1, <3>3
    <3>5. low <= k /\ low - 1 <= k BY <1>2, <2>2, <3>3, <3>4
    <3> QED BY <3>3, <3>4, <3>5
  <2>5. low \in Int /\ high \in Int /\ b \in Int BY <1>2, <2>2
  <2>6. Numbered(N, low, high, b) BY <2>2
  <2> HIDE DEF low
  <2>7. Numbered(FromClient(Put(up, p)), low, high, b)
    BY ONLY TransferOK, <1>2, <1>3, <2>4, <2>5, <2>6, PutAsked DEF N
  <2> QED BY <2>1, <2>7 DEF Paired, s, b, low, high
<1>7. Types(f, S, c, down, U, n + 1) BY <1>1, <1>4 DEF Transfer, Types
<1> QED BY <1>1, <1>3, <1>5, <1>6, <1>7 DEF Transfer

\* A packet is duplicated.
LEMMA DuplicateKeeps ==
  ASSUME TransferOK, Held, Duplicate
  PROVE  Held'
<1>1. /\ faults < MaxFaults /\ faults' = faults + 1 /\ file' = file /\ server' = server
      /\ client' = client
  BY DEF Duplicate
<1>2. Transfer(file, server, client, toClient, toServer, faults) /\ Stage(client)
  BY DEF Held, AtPresent
<1>3. CASE /\ toClient # <<>> /\ toClient' = Put(toClient, Head(toClient))
           /\ toServer' = toServer
  <2>1. Transfer(file, server, client, Put(toClient, Head(toClient)), toServer, faults + 1)
    BY <1>1, <1>2, <1>3, DuplicateDown
  <2> QED BY <1>1, <1>2, <1>3, <2>1 DEF Held, AtPresent
<1>4. CASE /\ toServer # <<>> /\ toServer' = Put(toServer, Head(toServer))
           /\ toClient' = toClient
  <2>1. Transfer(file, server, client, toClient, Put(toServer, Head(toServer)), faults + 1)
    BY <1>1, <1>2, <1>4, DuplicateUp
  <2> QED BY <1>1, <1>2, <1>4, <2>1 DEF Held, AtPresent
<1> QED BY <1>3, <1>4 DEF Duplicate

-----------------------------------------------------------------------------
\* A transfer begins in the invariant.
LEMMA TransferInitHeld ==
  ASSUME TransferOK, TransferInit
  PROVE  Held
<1>1. PICK blksize \in Requested \cup {0} :
        /\ client = [state |-> "request", blksize |-> blksize, port |-> 0, blockid |-> 1,
                     ack |-> 0, got |-> <<>>]
        /\ toServer = <<RRQ(blksize)>>
  BY DEF TransferInit
<1>2. /\ client \in Reader /\ client.state = "request" /\ client.port = 0
      /\ client.blockid = 1 /\ client.ack = 0 /\ client.got = <<>> /\ client.blksize = blksize
  <2>1. <<>> \in Seq(Nat) OBVIOUS
  <2> QED BY <1>1, <2>1 DEF Reader
<1>3. ~Bound(client) BY <1>2 DEF Bound, TransferOK
<1>4. blksize \in Nat BY <1>2, BlksizeIs
<1>5. /\ RRQ(blksize) \in Question /\ RRQ(blksize).op = "RRQ" /\ RRQ(blksize).id = blksize
  BY <1>4 DEF RRQ, Question
<1>6. /\ toServer \in Seq(Question) /\ \A i \in DOMAIN toServer : toServer[i] = RRQ(blksize)
  <2> DEFINE p == RRQ(blksize)
  <2> HIDE DEF p
  <2>1. toServer = <<p>> /\ p \in Question BY <1>1, <1>5 DEF p
  <2>2. toServer \in Seq(Question) /\ \A i \in DOMAIN toServer : toServer[i] = p BY <2>1
  <2> QED BY <2>2 DEF p
<1>7. file \in Seq(Nat)
  <2>1. PICK len \in FileLengths : file = [n \in 1..len |-> n] BY DEF TransferInit
  <2>2. len \in Nat BY DEF TransferOK
  <2> QED BY <2>1, <2>2
<1>8. /\ server \in [Ports -> Serving] /\ \A p \in Ports : server[p].state = "none"
  BY DEF TransferInit, Serving
<1>9. toClient = <<>> /\ toClient \in Seq(Answer) /\ faults = 0 BY DEF TransferInit
<1>10. Types(file, server, client, toClient, toServer, faults)
  <2>1. 0 \in 0..MaxFaults BY DEF TransferOK
  <2> QED BY <1>2, <1>6, <1>7, <1>8, <1>9, <2>1 DEF Types
<1>11. Servers(file, server, client) BY <1>8 DEF Servers, Served, Fresh, Active
<1>12. client.got = Received(file, client.blksize, client.ack)
  <2>1. CASE blksize = 0
    <3>1. Kept(file, 0, BlockSize - Header) = 0
      <4>1. BlockSize \in Nat /\ Header \in Nat /\ Len(file) \in Nat BY <1>7 DEF TransferOK
      <4> QED BY <4>1 DEF Kept
    <3>2. Received(file, 0, 0) = <<>> BY <3>1 DEF Received, Pieces
    <3> QED BY <1>2, <2>1, <3>2
  <2>2. CASE blksize # 0
    <3>1. Lesser(Len(file), 0 * blksize) = 0 BY <1>4, <1>7 DEF Lesser
    <3>2. SubSeq(file, 1, 0) = <<>> BY SubSeqEmpty
    <3>3. Received(file, blksize, 0) = <<>> BY <2>2, <3>1, <3>2 DEF Received
    <3> QED BY <1>2, <3>3
  <2> QED BY <2>1, <2>2
<1>13. Progress(file, client) BY <1>2, <1>12 DEF Progress
<1>14. Down(file, server, client, toClient) BY <1>9 DEF Down
<1>15. Up(client, toServer) BY <1>2, <1>5, <1>6 DEF Up
<1> QED BY <1>2, <1>3, <1>10, <1>11, <1>13, <1>14, <1>15 DEF Held, AtPresent, Transfer, Stage

\* Every step keeps the invariant.
LEMMA TransferNextKeeps ==
  ASSUME TransferOK, Held, [TransferNext]_transfer
  PROVE  Held'
<1>1. ASSUME NEW m \in 1..2, ServerReads(m) PROVE Held'
  <2>1. AtPresent' BY <1>1, ServerReadsKeeps DEF Held
  <2>2. client' = client BY <1>1 DEF ServerReads
  <2> QED BY <2>1, <2>2 DEF Held
<1>2. ASSUME NEW m \in 1..2, ClientReads(m) PROVE Held' BY <1>2, ClientReadsKeeps
<1>3. ASSUME NEW port \in Ports, SendAgain(port) PROVE Held'
  <2>1. AtPresent' BY <1>3, SendAgainKeeps DEF Held
  <2>2. client' = client BY <1>3 DEF SendAgain
  <2> QED BY <2>1, <2>2 DEF Held
<1>4. ASSUME NEW port \in Ports, GiveUp(port) PROVE Held'
  <2>1. AtPresent' BY <1>4, GiveUpKeeps DEF Held
  <2>2. client' = client BY <1>4 DEF GiveUp
  <2> QED BY <2>1, <2>2 DEF Held
<1>5. CASE WriteAgain BY <1>5, WriteAgainKeeps
<1>6. CASE Timeout BY <1>6, TimeoutKeeps
<1>7. CASE Lose BY <1>7, LoseKeeps
<1>8. CASE Duplicate BY <1>8, DuplicateKeeps
<1>9. CASE UNCHANGED transfer BY <1>9 DEF transfer, Held, AtPresent
<1> QED BY <1>1, <1>2, <1>3, <1>4, <1>5, <1>6, <1>7, <1>8, <1>9 DEF TransferNext

\* The invariant implies FileArrives.
LEMMA HeldArrives ==
  ASSUME TransferOK, Held
  PROVE  FileArrives
<1> DEFINE c == client
<1>1. /\ Types(file, server, c, toClient, toServer, faults) /\ Progress(file, c)
      /\ Servers(file, server, c)
      /\ Bound(c) => Paired(file, server[c.port], c, toClient, toServer, faults)
  BY DEF Held, AtPresent, Transfer
<1>2. c.got = Received(file, c.blksize, c.ack)
      /\ (c.state = "done" /\ c.blksize # 0 => c.got = file)
  BY <1>1 DEF Progress
<1>3. ASSUME NEW port \in Ports, server[port].state = "sent"
      PROVE  c.port = port /\ c.got = Received(file, c.blksize, server[port].blockid - 1)
  <2>1. c.port = port BY <1>1, <1>3 DEF Servers, Fresh
  <2> DEFINE s == server[port]
  <2>2. /\ s.blockid \in Nat /\ c.ack \in Nat /\ s.blockid <= c.ack + 1
        /\ c.ack <= s.blockid - 1
    BY <1>1, <1>3, <2>1
    DEF Bound, Paired, Highest, Types, Serving, Reader, Progress
  <2>3. c.ack = s.blockid - 1 BY <2>2
  <2> QED BY <1>2, <2>1, <2>3
<1> QED BY <1>2, <1>3 DEF FileArrives

\* FileArrives, of handleConnection and Get (tftp/server.go, tftp/get.go): whatever is
\* lost, repeated or overtaken, the client has the blocks in order, each once, as long
\* as fewer packets are late than there are ids of blocks.  The code's ids are numbers
\* modulo 2^16.
THEOREM FilesArrive == TransferOK => (TransferSpec => []FileArrives)
<1> DEFINE Invariant == TransferOK /\ Held
<1>1. TransferOK /\ TransferInit => Invariant BY TransferInitHeld
<1>2. Invariant /\ [TransferNext]_transfer => Invariant'
  <2> SUFFICES ASSUME Invariant, [TransferNext]_transfer PROVE Invariant' OBVIOUS
  <2>1. Held' BY TransferNextKeeps
  <2>2. TransferOK' BY DEF TransferOK
  <2> QED BY <2>1, <2>2
<1>3. Invariant => FileArrives BY HeldArrives
<1> HIDE DEF Invariant
<1> QED BY <1>1, <1>2, <1>3, PTL DEF TransferSpec
=============================================================================
