----------------------------- MODULE TftpCache -----------------------------
(***************************************************************************)
(* The file cache of the TFTP server (tftp/server.go).                     *)
(*                                                                         *)
(* Every request packet gets its own goroutine, handleConnection.  getFile *)
(* loads the file, or runs the hook, unless some other request has done so *)
(* recently, and the goroutine sends the data from the shared buffer.  The *)
(* counter LoadCount says how long the buffer must stay as it is: it       *)
(* counts the requests that use it, and the last of them leaves it to a    *)
(* goroutine that sleeps for Afterlifetime before it gives the entry up.   *)
(*                                                                         *)
(* The entry's mutex is held during a load and by every operation below,   *)
(* so each is one step.  How the data gets to the client is the subject of *)
(* a module of its own; here a transfer just comes to an end.  Requests    *)
(* that match no mapping get an entry of their own and are left out.       *)
(***************************************************************************)
EXTENDS Integers, Sequences, FiniteSets

CONSTANTS
  Conn,     \* goroutines that may run at once
  Key,      \* keys of the cache
  Hook,     \* those whose data a hook generates
  Version   \* contents of a file, outputs of a hook

ASSUME TftpConstants == Hook \subseteq Key /\ IsFiniteSet(Conn)

VARIABLES
  disk,     \* what each file contains at the moment
  cache,    \* the entry of each key, an unused one if there is none yet
  delayed,  \* number of goroutines that sleep in Release() for each key
  conn      \* the goroutines

vars == <<disk, cache, delayed, conn>>

\* A load appends to the buffer: it should hold one version, or none.
Entry == [LoadCount : Int, Data : Seq(Version), Err : BOOLEAN]
Unused == [LoadCount |-> 0, Data |-> <<>>, Err |-> FALSE]

\* data is what Bytes() returned: a slice of the entry's buffer, not a copy.
Gone == [pc |-> "gone"]
Connection ==
  {Gone}
    \cup [pc : {"opened", "failed"}, key : Key]
    \cup [pc : {"sending"}, key : Key, data : Seq(Version)]

-----------------------------------------------------------------------------
\* What a load may leave in the entry.  Whether a file or a hook, it may have
\* produced something before it failed.
Loaded(k, e) ==
  LET filled == {[e EXCEPT !.Data = Append(@, v)] :
                   v \in IF k \in Hook THEN Version ELSE {disk[k]}}
  IN  {[x EXCEPT !.Err = TRUE] : x \in filled \cup {e}}
        \cup IF k \in Hook THEN filled ELSE {[x EXCEPT !.Err = FALSE] : x \in filled}

\* getFile
GetFile(c, k) ==
  /\ conn[c] = Gone
  /\ \E e \in IF cache[k].LoadCount = 0 THEN Loaded(k, cache[k])
                                         ELSE {cache[k]} :
       /\ cache' = [cache EXCEPT ![k] =
                      [e EXCEPT !.LoadCount = cache[k].LoadCount + 1]]
       /\ conn' = [conn EXCEPT ![c] =
                     [pc |-> IF e.Err THEN "failed" ELSE "opened", key |-> k]]
  /\ UNCHANGED <<disk, delayed>>

Bytes(c) ==
  /\ conn[c].pc = "opened"
  /\ conn' = [conn EXCEPT ![c] = [pc |-> "sending", key |-> conn[c].key,
                                  data |-> cache[conn[c].key].Data]]
  /\ UNCHANGED <<disk, cache, delayed>>

\* Seeded bug: the last user just leaves.
ReleaseNotLast(k) ==
  /\ cache' = IF cache[k].LoadCount > 1
                THEN [cache EXCEPT ![k].LoadCount = @ - 1] ELSE cache
  /\ UNCHANGED delayed

Release(k) ==
  IF cache[k].LoadCount > 1
    THEN /\ cache' = [cache EXCEPT ![k].LoadCount = @ - 1]
         /\ UNCHANGED delayed
    ELSE /\ delayed' = [delayed EXCEPT ![k] = @ + 1]
         /\ UNCHANGED cache

\* Seeded bug: the Release() is deferred after the check of the error.
EndUnreleased(c) ==
  /\ conn[c].pc \in {"failed", "sending"}
  /\ conn' = [conn EXCEPT ![c] = Gone]
  /\ IF conn[c].pc = "failed" THEN UNCHANGED <<cache, delayed>>
                              ELSE Release(conn[c].key)
  /\ UNCHANGED disk

\* handleConnection returns: an error has been sent, the last block has been
\* acknowledged, or the client has not answered.
End(c) ==
  /\ conn[c].pc \in {"failed", "sending"}
  /\ conn' = [conn EXCEPT ![c] = Gone]
  /\ Release(conn[c].key)
  /\ UNCHANGED disk

\* Seeded bug: the data goes whoever is using it.
ExpireAlways(k) ==
  /\ delayed[k] > 0
  /\ delayed' = [delayed EXCEPT ![k] = @ - 1]
  /\ cache' = [cache EXCEPT ![k] = [Unused EXCEPT !.LoadCount =
                                      cache[k].LoadCount - 1]]
  /\ UNCHANGED <<disk, conn>>

\* Afterlifetime has passed for a goroutine started by Release().
Expire(k) ==
  LET count == cache[k].LoadCount - 1 IN
  /\ delayed[k] > 0
  /\ delayed' = [delayed EXCEPT ![k] = @ - 1]
  /\ cache' = [cache EXCEPT ![k] = IF count = 0 THEN Unused
                                   ELSE [@ EXCEPT !.LoadCount = count]]
  /\ UNCHANGED <<disk, conn>>

\* Somebody replaces a file.
EditFile(k) ==
  /\ \E v \in Version \ {disk[k]} : disk' = [disk EXCEPT ![k] = v]
  /\ UNCHANGED <<cache, delayed, conn>>

-----------------------------------------------------------------------------
Init ==
  /\ disk \in [Key -> Version]
  /\ cache = [k \in Key |-> Unused]
  /\ delayed = [k \in Key |-> 0]
  /\ conn = [c \in Conn |-> Gone]

Next ==
  \/ \E c \in Conn : (\E k \in Key : GetFile(c, k)) \/ Bytes(c) \/ End(c)
  \/ \E k \in Key : Expire(k) \/ EditFile(k)

Spec == Init /\ [][Next]_vars

\* Sleeping goroutines wake, and every transfer ends: sendAndWaitForAck gives
\* up after total_timeout.
Fairness ==
  /\ \A c \in Conn : WF_vars(Bytes(c)) /\ WF_vars(End(c))
  /\ \A k \in Key : WF_vars(Expire(k))

FairSpec == Spec /\ Fairness

-----------------------------------------------------------------------------
(* Properties.                                                             *)

TypeOK ==
  /\ disk \in [Key -> Version]
  /\ cache \in [Key -> Entry] /\ \A k \in Key : cache[k].LoadCount >= 0
  /\ delayed \in [Key -> Nat]
  /\ conn \in [Conn -> Connection]

Users(k) == {c \in Conn : conn[c] # Gone /\ conn[c].key = k}

\* LoadCount is the number of requests that use the entry, plus one while a
\* goroutine started by Release() sleeps: there is never a second one, so the
\* count goes back to zero, and not before everybody is done.
CountsUsers ==
  \A k \in Key : /\ cache[k].LoadCount = Cardinality(Users(k)) + delayed[k]
                 /\ delayed[k] \in {0, 1}

\* The slice a transfer reads from stays what it was when the transfer began,
\* one version of the file, whoever else opens or gives up the entry.
ServedWhole ==
  \A c \in Conn : conn[c].pc = "sending" =>
    /\ cache[conn[c].key].Data = conn[c].data
    /\ Len(conn[c].data) = 1

\* An entry nobody asks for any more is given up, with the error of a failed
\* load, so that the next request sees the file as it is then.
CacheDrains ==
  \A k \in Key : (Users(k) = {}) ~> (cache[k] = Unused \/ Users(k) # {})
=============================================================================
