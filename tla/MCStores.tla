----------------------------- MODULE MCStores ------------------------------
(***************************************************************************)
(* A database (XmlDB), or a client and the servers that keep it in theirs  *)
(* (ClientDB): two parts that share no state.                              *)
(***************************************************************************)
EXTENDS XmlDB, ClientDB

VARIABLES part
CONSTANTS s1, s2
ServersInOrder == <<s1, s2>>

StoresInit ==
  /\ part \in {"database", "clients"}
  /\ Init /\ (part # "database" => data = {})
  /\ InitClients /\ (part # "clients" => kinds = CHOOSE k \in FaultSets : TRUE)

Database(A) == part = "database" /\ A /\ UNCHANGED <<part, clientsVars>>
ClientsDo(A) == part = "clients" /\ A /\ UNCHANGED <<part, vars>>
all == <<part, vars, clientsVars>>
StoresSpec ==
  StoresInit /\ [][Database(Next) \/ ClientsDo(ClientsNext)]_all

\* The fairness of each part, in the behaviours that look at it.
FairStores ==
  /\ StoresSpec
  /\ \A t \in Time : WF_all(Database(RunJob(t)))
  /\ WF_all(Database(Store)) /\ WF_all(Database(Tick))
  /\ WF_all(ClientsDo(Progress))

\* Whatever was lost, slow or restarted, in the end the client is registered and all
\* servers know where: a wrong answer is corrected although the servers correct
\* each other's databases in messages that cross.  Only the loss of the correction
\* itself, a "deregistered" that was still true, leaves the client with a server
\* that has given it up.
Agreement == <>[](part = "clients" => Agreed \/ GivenUp)
=============================================================================
