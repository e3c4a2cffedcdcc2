# go-susi in TLA+

go-susi is the server behind GOsa's deployment pages: it keeps a database of
jobs ("reinstall this machine at three"), launches them when their time has
come, tells the other servers about them, and serves the machines that boot.
This directory specifies the parts of it that go beyond plain input and output.
The specifications are translated from the Go code under `src/go-susi`; the
comments, the manual and the help texts say what the code is meant to do, and
properties quote them where they can.

    tlc -workers 2 -config JobDB_series.cfg MCJobDB.tla     # a run (section 3)
    tlapm JobDB_proofs.tla                                  # the proofs (section 5)

## 1. The system

| component | state | operations | modelled in |
|---|---|---|---|
| job database, `db/jobdb.go` | the jobs, own and foreign; the channels `jobDBRequests`, `nextID`, `ForeignJobUpdates`; the queue `PendingActions`; sleeping pings | `JobAddLocal`, `JobsModifyLocal`, `JobsRemoveLocal`, `JobsQuery`, `Jobs*Foreign`, `JobsForwardModifyRequest`, `JobsSyncAll`, the handler goroutine, `groomJobDB`, `JobsInit` | `Jobs`, `JobDB`, `JobSync` |
| action loop, `action/process_act.go` | a goroutine for each launched or removed job | launch, forward, react to a removal, schedule the follow-up of a periodic job | `JobDB` |
| job messages, `message/job_trigger_action.go`, `clmsg_progress.go`, `gosa_delete_jobdb_entry.go`, `gosa_update_status_jobdb_entry.go` | none | sequences of requests to the database | `JobDB` |
| client registration at the server, `message/here_i_am.go` | client database, LDAP | jobs that should be processing, jobs whose `<tminus>` window is open; the client; the system | `JobDB`, `ClientDB`, `Systems` |
| foreign job updates, `message/foreign_job_updates.go` | none | merge another server's jobs, obey its requests, cancel own installs | `JobSync`, `JobDB` |
| peer connections, `message/peer_connection.go`, `new_server.go` | for each peer a queue, a TCP connection, a downtime, a pinger | distribute, send, reconnect, notice breaks, greet, full sync, give up | `JobSync`, `PeerConnection` |
| clients, `db/clientdb.go`, `message/client_connection.go`, `new_foreign_client.go` | who is registered where, sleeping verifications | update, verify, forward, restart | `ClientDB` |
| go-susi as a client, `message/registered.go` | state, server, list of candidates, timers | find a server, register, confirm, start over | `Registration` |
| main loop, `main/go-susi.go`, `security/connectionlimits.go` | counters of connections, one record for each address | accept, limit, read messages, shut down | `AcceptLoop`, `ConnectionLimits`, `ConnectionRate`, `Requests` |
| systems in LDAP, `db/systemdb.go`, `message/detected_hardware.go`, `job_trigger_activate_new.go` | objects, groups | read, replace, move, join groups, set states; templates | `Systems`, `Templates` |
| FAI logs, `message/clmsg_save_fai_log.go` and three queries | directories, files, links | store, list, fetch | `FaiLogs` |
| audit, `db/audit.go`, `message/gosa_query_audit*.go` | files | choose, scan, answer, aggregate | `Audit`, `PropTree`, `XmlWhere` |
| XML trees, `xml/xml_hash.go`, `xml_filter.go` | a doubly linked list for each fragment | 30 operations, reading, writing, LDIF, `<where>` | `XmlList`, `XmlText`, `XmlHash`, `XmlForest`, `XmlLdif`, `XmlWhere` |
| XML database, `xml/xml_db.go` | the data, a flag, sleeping persist jobs, a file | `AddClone`, `Remove`, `Replace`, `Persist`, `Shutdown`, `Init` | `XmlDB`, `DurableStore` |
| TFTP server, `tftp/server.go`, `get.go` | a cache of files and hook outputs; a connection for each request | load, share, release, expire; the block protocol and its client | `TftpCache`, `TftpTransfer` |
| sibridge, `main/sibridge.go` | for each connection the machines of the last command, a command to repeat | the command language, its messages to the server, its connection loop | `Bridge`, `BridgeAttributes`, `BridgeLoop` |
| message dispatch, job query, FAI and package data, configuration, TLS and legacy encryption, helper programs, golib, the GOsa web pages | caches, files | queries, parsing, I/O | not modelled, see section 8 |

How they interact. A message arrives over TCP: the main loop takes a slot, the
connection's goroutine (`handle_request`) reads the messages one after the
other, those of different connections run beside each other. Handlers never
touch the jobs: every `Jobs*` function puts a request (filter, data, a function)
into `jobDBRequests`, and one goroutine carries the requests out. That goroutine
hands launched and removed jobs to `PendingActions`, from where the action loop
starts a goroutine for each, and sends every change to `ForeignJobUpdates`, from
where one goroutine copies it into the queue of every `PeerConnection`. The jobs
and clients live in XML databases that save themselves some time after a change.
LDAP is changed by commands that handlers start and wait for.

What is hard. *Atomicity*: an operation of a handler is a sequence of requests
or of LDAP commands, and others' come in between. *Stale state*: a reply is old
when it is used. *Ordering*: reactions to removals, launches and progress
messages run in goroutines that nothing orders; messages of an old and a new TCP
connection; the answers of servers a client has tried in turn. *Failure*:
forwards, stores, loads and LDAP commands that fail, messages and packets that
are lost. *Restart*: the file is older than the database was. *Liveness*: a job
is only launched because a ping has been scheduled; a copy is only repaired
because a greeting follows a reconnect; a peer is only tried again because
somebody will wake the handler. *Long sequences and corner cases* of sequential
code: pointers of a linked list, scanners that stop anywhere, clauses built by
recursion.

What makes the components correct:

- *job pipeline*: ids name one job; a due job is launched, once, and not before
  its time; one install or update job of a machine is processing; a periodic
  series has one instance and goes on until it is stopped; progress does not go
  back; removing a superseded job does not touch the machine.
- *replication*: every copy ends up equal to the owner's jobs, whatever is
  lost; a request changes what it asks for and nothing else.
- *peer connection*: a peer is not given up while it answers, is tried again as
  long as it is not given up, and what it lost is synchronised.
- *clients*: in the end a client has one server, which has the client, and the
  others know.
- *connections*: each one served holds one slot and is counted for its address;
  limits bound what they are meant to bound; messages are the lines sent.
- *systems*: who only moves a system keeps its groups and its state.
- *XML*: an operation changes the tree it is applied to and nothing else; what
  is written is read again; conditions and LDIF mean what they say.
- *XML database*: a change is saved within `persistDelay`; the file is always
  one whole state; `Shutdown` saves everything and nothing follows it.
- *TFTP*: the count is the number of users; data do not change under a transfer;
  a failed or unused load is forgotten; a file arrives whole.
- *audit, logs, sibridge*: replies mention every machine once and counts add up;
  stored logs are found; a command does what the help text says and no more.

## 2. Modules

| module | stands for |
|---|---|
| `Jobs` | jobs, filters, updates and the arithmetic of periods and windows: pure operators |
| `JobDB` | the job pipeline of one server |
| `MCJobDB`, `MCJobLaunch` | its instances: one scenario, or one of two |
| `JobSync`, `MCJobSync` | replication between servers |
| `PeerConnection` | the handler of the connection to one peer, its pinger and monitors |
| `AcceptLoop`, `ConnectionLimits`, `ConnectionRate`, composed by `Connections` | accepting, counting and refusing connections |
| `Requests` | the reader of one connection |
| `TftpTransfer` | both ends of a TFTP transfer over a bad network |
| `Systems`, `FaiLogs` | handlers of messages that run beside each other |
| `MCServer` | the seven parts above in one run |
| `Registration`, `ClientDB` | a client, and the servers it can register at |
| `DurableStore` | what a database with a file promises (abstract) |
| `XmlDB` | how `xml_db.go` does it, a refinement of `DurableStore` |
| `MCStores` | a database, or a client and its servers |
| `TftpCache` | the cache of the TFTP server |
| `XmlForest` | what `xml.Hash` promises: trees (abstract) |
| `XmlList`, `XmlText`, `XmlHash` | how `xml_hash.go` does it with linked lists, a refinement of `XmlForest` |
| `XmlLdif`, `XmlWhere` | the scanner of `ldapsearch` output; filters and `<where>` |
| `Audit`, `PropTree`, `Templates` | audit queries, the search tree of columns, matching rules |
| `Bridge`, `BridgeAttributes`, `BridgeLoop` | sibridge |
| `MCAnswers`, `MCConsole`, `MCXmlHash` | questions, commands, and the run that asks both and operates on trees |
| `JobDB_proofs`, `JobLaunch_proofs`, `JobSeries_proofs`, `JobSync_proofs`, `Stores_proofs`, `Tftp_proofs`, `Connections_proofs`, `Systems_proofs` | section 5 |

`PROJECT.json` maps every definition to the lines it stands for.

### JobDB

`jobDBRequests` is a sequence of request records, as the channel is; a request
record names the function the code passes as a closure (`add`, `modify`,
`remove`, `query`). `HandleRequest` carries out one request and is atomic,
because only the handler reads the jobs. What a `launch` does is several steps:
for each job of the batch the handler sends two requests to its own channel
(progress=groom, then the removal of the competitors), so `batch`, `clearing`
and `own` hold what is left of it. `timers` are the goroutines that sleep
before they ping; `ProcessPendingActions` is the ping. `thread` holds the
goroutines of the action loop, of message handlers and of the groomer: `pc` is
the place at which one stands, `todo` the requests it is about to send, `reply`
the answer to a query. `TakePending`, `ForwardJob`, `Act`, `ReadState`,
`SetLocalboot`, `FollowUp` are `process_act.go`; the `Receive...` actions with
`EnsureJob`, `QueryWindow`, `LaunchWindow` are the message handlers;
`StartGroom` and `GroomJob` are `groomJobDB`; `Persist` and `Restart` save and
load the file. LDAP is the attribute `faiState` of each machine.

History, which no action reads: `launches` counts the launches of each id,
`cancelled` has the series that somebody stopped; the `root` of a job names its
series, and `keep` says that a job was marked with progress=groom or forward
just before it was removed.

### JobSync

`db[s][t]` holds the jobs of server `t` in the database of `s`, so `db[t][t]`
are its own. A request to the database takes effect when it is put into the
channel (everybody uses the same channel, so nobody can tell the difference).
`updates` is `ForeignJobUpdates`, `queue[l]` the queue of the `PeerConnection`
of link `l`, `tcp[l]` its connection, and `readers[l]` has one record for each
TCP connection: what is still on the wire and what the receiving goroutine has
yet to apply of the message it is working on. A message sent over a `"dead"`
connection is lost although `SendLn` succeeds; `Connect` sends it again over a
new one and queues `new_server`; `ConnectFails` loses it and starts the pinger.
`Lose` drops what a broken connection has not delivered. `Restart` ends a
server and starts it from a file that is as old as the behaviour.

### PeerConnection

Where `JobSync` has many messages and two servers, `PeerConnection` has one
handler with all its states: the `queue` with `message` being sent, `tcpConn`,
the monitors that will push a ping when it ends, the one pinger with what is
left of its sleep, `whendown` and the three steps in which a peer is given up.
`silent` and `lost` are histories: for how long nobody could connect, and
whether a message went missing after the last greeting. `TLSModes` has both
branches of the code, which treat errors differently (section 6).

### Connections

`AcceptLoop` follows a connection through three goroutines: the one that takes
a slot and accepts, the main loop that hands on, and the one that registers the
address, serves, and gives both back in deferred calls. `ConnectionLimits` are
the three functions of `connectionlimits.go` as operators, which `AcceptLoop`
uses with a clock that stands still and `ConnectionRate` with one that runs.
`Requests` is the loop of `handle_request` over bytes; the messages are what it
hands to `ProcessEncryptedMessage`. `replied` counts what is written, the
`LineEnd` after each reply included, which the code does not count.

### Systems and FaiLogs

A handler of `Systems` is a list of LDAP commands: it reads an object in one
step and writes it in others, in which the LDAP server does one LDIF record at a
time, and may fail at each. `mixed` and `failed` remember which machines two
handlers worked on at once, or a failed one: the properties are about the rest.
`detected_hardware` brings a state, a mode and a class, or leaves them to the old
object, the template or the defaults. A new object is named after what DNS calls
the machine (`DnsName`), or after its MAC; `Names` says which names a machine may
get, and two machines may have one in common. Of such machines the properties
say nothing (`OwnNames`), section 6 says why.
`FaiLogs` has the message as the client makes it, the handler, which writes one
file at a time, and the goroutine that keeps the links.

### Registration and ClientDB

`Registration` is the state machine of `RegistrationHandler` with its queue and
timers. `ClientDB` adds what the servers believe, the messages between them and
to the client, and the verification that `ClientUpdate` starts when another
server claims a client. Any message may be lost, for nobody looks at whether it was
sent; `unheard` remembers the servers whose "deregistered" was lost
while they did not have the client.

### XML

`XmlList` has the memory: numbered list nodes with successor, predecessor, link
and nesting; every operation is an operator from a memory to a memory that turns
the pointers the code turns. `XmlHash` applies them to any element the program
can reach. `XmlForest` has the same actions on trees without pointers;
`ImplementsForest` maps the lists to trees. `XmlText` reads and writes,
`XmlLdif` scans. `XmlWhere`, `Audit`, `PropTree`, `Templates` and
`BridgeAttributes` are pure operators with a reference definition each; in
`MCAnswers` an initial state is a question and its one step asks it.

### sibridge

`Bridge` processes lines. A word has a field for each parser that may take it: a
machine, a type of jobs, a date, a time, a wildcard (a word can be several).
`joblist` is what a command leaves behind for one without machines, `sent` the
messages and changes. What is meant does not come from these definitions: `Takes`
has the argument types of the help text, `selection` is the list of machines as
the help text keeps it, and `JobsMeant`, `QueryMeant`, `DeletionMeant`,
`AttributesMeant` and `ReplacementsMeant` say for each kind of command what is to
happen. `Undocumented` are the lines the code treats in another way (section 6).
`BridgeLoop` is the loop that reads ahead, cuts lines and repeats a command.

### XmlDB and DurableStore

Changes are one step (they hold the lock). `Store` is three: temporary file,
content, rename, each of which may fail, and the process may end between any
two. `DurableStore` has the data, the file, and the fact that the database is
open; its only way to change the file is to replace it by the data.

### TftpCache and TftpTransfer

An entry with `LoadCount` and `Data`, the goroutines of the requests, and the
goroutines `Release` starts, which sleep for `Afterlifetime`. The buffer is a
sequence because a load appends to it: two elements are a file served twice in
a row, one after a failed load is a file served broken. `TftpTransfer` starts
where the data is there: options, blocks, acknowledgements, timers that may
always fire, a new port for every request.

## 3. Runs that pass

| run | module, cfg | instance | shows |
|---|---|---|---|
| `series` | `MCJobDB`, `JobDB_series` | a periodic job, 3 ids, 2 messages of add, delete, a failing forward, a restart | `IdsNameOneJob`, `AtMostOneInstance`, `SeriesGoesOn` |
| `launch` | `MCJobLaunch`, `JobLaunch` | "install": a reinstall and an update job of one machine, pings, deletion, a peer's message, progress; "here_i_am": calls of the client beside pings, two ticks, windows, an audit job | `OneInstallAtRest`, `ProgressNeverBackwards`, `LaunchedInWindow` |
| `groom` | `MCJobDB`, `JobDB_groom` | groomer, launches, deletion, follow-ups, `faiState` edited | `QuietRemovalsStayQuiet`, `LaunchedOnce` |
| `live` | `MCJobDB`, `JobDB_live` | one job, GOsa "execute", a restart, here_i_am, a peer's message, progress, `faiState` edited; with and without `<tminus>` | `DueJobsLaunch` |
| `sync` | `MCJobSync`, `JobSync_sync` | two servers, the first has jobs; three events: edits, requests, breaks and refused connections, or a restart | `LossIsRepaired`, `Converges` |
| `stores` | `MCStores`, `Stores` | a database with two items, `persistDelay` 2, five ticks, two explicit `Persist`; or a client and two servers with two faults | `ChangesWillBeSaved`, `ShutdownSaves`, `ImplementsDurableStore`, `EventuallySaved`; `Repaired`, `Agreement` |
| `tftp_cache` | `TftpCache` | three requests, a file, a hook, two versions | `CountsUsers`, `ServedWhole`, `CacheDrains` |
| `server` | `MCServer`, `Server` | the seven parts of section 2, one in each behaviour | `ConnectionsLimited`, `MessagesAreLines`, `NeverGivenUpEarly`, `KeepsTrying`, `LossesAreSynced`, `FileArrives`, `MembershipKept`, `StateIsKept`, `LogsAreFound` |
| `data` | `MCXmlHash`, `XmlHash` | three operations on XML fragments; or one of 43000 questions; or two commands, or a connection, of sibridge | `Intact`, `ReadersSeeTree`, `ImplementsForest`; `ReadsLdif`, `ConditionsSplitItems`, `AuditsAddUp`, `LatestAuditAnswers`, `RulesFit`, `SubstringsSelect`; `CommandsMeanWhatHelpSays`, `LinesAreObeyed` |

A run that hosts several parts chooses one in its initial state (`part`,
`scenario`, `question`); the variables of the others stay as they are. The
parts share no state, so that this is the same as a run for each.

Every property has a seeded bug in `PROJECT.json` under which its run fails;
the definitions marked "Seeded bug" in the modules are only there for that.

Some properties need a word.

- `LossIsRepaired` computes what the receiver will have once everything under
  way has been applied, and says that this is the owner's table, or something
  is in motion that ends in a complete copy: a full sync on its way to the
  handler, a greeting in one direction, a confirmation in the other, or a
  connection that will be opened and therefore greeted over. A sync that is
  missing in one of these chains shows in the state in which it is missing,
  long before (and whether or not) the copies differ.
- `KeepsTrying` and `LossesAreSynced` are the same two ideas for one handler
  with all its states, where nothing but a ping in the queue wakes it.
- `ImplementsForest` says of every pointer operation what it is on trees. It
  holds for operations inside deep elements and of an element on its own
  descendants, which the tests of `xml_hash.go` do not try.
- `ConditionsSplitItems` needs no second implementation of conditions: a
  condition and its negation must divide the items.
- `HourlyBounded` (in `ConnectionsLimited`) is what the average of
  `connectionlimits.go` guarantees: fewer than three times the limit in any
  hour. That it is not the limit itself is a consequence of the average.
- `Repaired` says that a client whose server does not have it is about to be
  asked or to tell, by a message or goroutine under way; `Agreement`, that this
  ends with all agreed. Both except one state (`GivenUp`), in which the code does
  leave a client: that one "deregistered" was lost.

### Bounds

*JobDB.* Two goroutine slots beside the two loops: the races listed as hazards
are between two goroutines and the handler. A goroutine that finds no slot
waits, as one may that is not scheduled. `QueueCap` of 10 or 12 is never
reached in these runs, just as 16384 is not meant to be. `MaxID` 1 to 3: two
jobs that compete, or a job, its follow-up and one more. `MaxTime` 0, 1 or 2:
jobs are due at once, after a wait, or inside a window that opens and closes.
`MaxMessages` 2 or 3: each hazard needs two or three events. The slots are
interchangeable, and the runs without a liveness property use that symmetry.
Each run admits only the kinds of messages (`Messages`) that its question is
about; section 6 says what happens with others.

*JobSync.* Two servers, because a link does not depend on a third; one of them
owns jobs, because the two directions share only the greetings. Two ids, one
job at the start: a job can be added, changed and removed, and an id can be
handed out again after a restart. Three events: two edits and a break, an edit
and two breaks or refusals, an edit and a restart. A behaviour has connection
faults or a restart (`FaultSets`), and a restart is its last event.

*Databases, caches.* Two items tell partial from whole files. Five ticks with a
delay of two leave room for three overlapping persist jobs. A third TFTP request
can find both an active one and a sleeping goroutine.

*Clients.* Two servers, because a client only ever moves from one to another.
Two faults: of LDAP, a lost message and a lost confirmation, or the same with a
restart instead of LDAP. `Overtakes` is FALSE: messages of a server to the
client arrive in order. Larger sets and TRUE lead to what section 6 says.

*Server.* Three clients with two addresses for two slots, six connections, two
failures of `AcceptTCP`; an hour of six ticks and 20 of them; streams of up to 8
letters with limits of 2, 3 and 5 bytes and a read buffer of 4, so that every
boundary falls inside, at and behind a message; a downtime of three ticks, which
is longer than the short delays; files of 0, 2, 3 and 6 pieces with blocks of 2
and 3, so that a last block is empty, short or full, ids modulo 4 (the least
that two faults leave unambiguous, section 5), two ports, two faults of packets;
two machines, each with a name of its own that it may get or lose, a group, two
handlers at once out of three and one failure of LDAP; two log messages in two
seconds. The queue of a peer and the number of its monitors are not limited in
the code; in the model no *new* message or fault comes while two are there.

*Data.* 14 list nodes and three fragments are enough for two documents and a
copy of one. Three operations: one that builds, one that moves, one that breaks.
The questions take every combination of small inputs that differ in what the
code branches on: digits at the ends of 8 bits (64 in the code), names of which
one begins with another, whitespace, folds at every place, damaged files,
limits of answers reached and not reached. Two commands: the first can only
leave a list of machines behind, on which the second depends.

Deadlock is not checked: with messages and ids used up, a system at rest is
where a behaviour should end. What should not stop is stated as liveness.

### Fairness

Weak fairness on the steps of goroutines that are ready: the handler, the
action loop, goroutines with something to do, `Connect` and `Transmit`,
distribution, readers, `Store` once it has begun, and what `Progress` of
`ClientDB` lists. The Go scheduler runs every ready goroutine. Sleeping
goroutines wake (`time.Sleep`), so the clock is fair up to its bound, and a
broken connection is noticed (`monitorConnection` reads from it, and go-susi
sets TCP keep-alive). Nothing is assumed of messages, edits, breaks, restarts,
errors or calls of `Persist`. `Send` is fair as `Transmit` or `Connect`: when
faults have ended a connection can be made. In `ClientDB` a message is delivered
within a tick, except where a handler waits for LDAP.

## 4. Runs that end in a violation

| run | property | what happens |
|---|---|---|
| `two_installs` | `OneInstallAtRest` | two here_i_am of a machine both find no processing job and both add one; nothing removes either (here_i_am.go:355 and jobdb.go:619 say there is only one) |
| `sync_overlap` | `Converges` | the goroutine of the old TCP connection applies an update after the complete copy that came over the new one; a removed job is back in the copy until the next full sync (jobdb.go:198-205) |
| `delete_clauses` | `DeletesOnlyMatching` | sibridge: "delete install dev3 dev3" deletes jobs of other types or machines, because a clause is omitted as redundant that is not (sibridge.go:1793) |

`sync_overlap` differs from `sync` in one constant, `Overlap`: whether a peer
may have opened a new connection before the receiver is done with the old one.
Nothing in the code excludes it; a goroutine that is stalled for a reconnect
and a round trip is enough. `sync` shows that this is the only way in which
copies stay different in that instance.

## 5. Proofs

TLAPS checks these for every value of the constants that satisfies the
assumptions of their modules.

| theorem | says |
|---|---|
| `JobDB_proofs!TypeCorrect` | every variable keeps its type; no goroutine stands at a place for which it lacks the job or request it needs |
| `JobDB_proofs!IdsUnique` | `IdsNameOneJob`: an id names one job from the moment it is taken until the job and the reaction to its removal are gone |
| `JobLaunch_proofs!ProgressKept` | `ProgressNeverBackwards`: no step but a restart takes a job to a smaller percentage |
| `JobLaunch_proofs!NeverTooEarly` | `LaunchedInWindow`: nothing is launched before its time or its window |
| `JobLaunch_proofs!PingsLaunchOnce` | `LaunchedOnce`: one launch of a job between two restarts, without here_i_am and without GOsa's "resume" and "execute" |
| `JobLaunch_proofs!OneInstall` | `OneInstallAtRest`, without here_i_am and restarts |
| `JobLaunch_proofs!RemovalsStayQuiet` | `QuietRemovalsStayQuiet`, without progress reports, here_i_am and messages of peers |
| `JobSeries_proofs!SeriesKept` | `SeriesGoesOn`: the last instance of a series does not get lost |
| `JobSeries_proofs!OneInstance` | `AtMostOneInstance`; if jobs are forwarded, under `ForwardsAlone` |
| `JobSync_proofs!SyncTypeTheorem` | where `Overlap = FALSE`, jobs, messages, channels, queues and connections keep their types |
| `JobSync_proofs!LossIsRepairedTheorem` | `LossIsRepaired`, where `Overlap = FALSE`: the messages on their way turn a copy into the jobs of their owner, or a complete copy has been set in motion |
| `Stores_proofs!ChangesSaved`, `ShutdownCorrect`, `TypeCorrect` | a change waits for a persist job that wakes within `persistDelay`; after `Shutdown` the file holds the data unless the store failed |
| `Stores_proofs!Refinement` | lock, temporary file and rename implement `DurableStore` |
| `Stores_proofs!RepairedTheorem` | `Repaired`, as long as no server ends with a verification that is still needed (`VerificationsSurvive`) |
| `Stores_proofs!RepairedWithoutRestarts` | `Repaired` where no server is restarted, with nothing else asked |
| `Tftp_proofs!CountCorrect`, `ServedCorrect`, `TypeCorrect` | `LoadCount` is the number of users plus one if a goroutine of `Release` sleeps; what a transfer reads from does not change |
| `Tftp_proofs!FilesArrive` | `FileArrives`: whatever the network does with packets, a client has the first blocks of the file in order, and a loader that is done the whole file; ids wrap around |
| `Connections_proofs!PatientTheorem` | without TLS, a peer's jobs are removed only after `MaxPeerDowntime` without a connection |
| `Connections_proofs!KeepsTryingTheorem`, `LossesAreSyncedTheorem` | without TLS, a handler without a connection will be woken; a loss is followed by a `new_server` |
| `Connections_proofs!Accounted` | each connection that is served holds one slot and is counted for its address; no limit is exceeded |
| `Connections_proofs!HourlyLimit`, `Limited` | an address is permitted less than three times its limit in any hour; with `Accounted`, `ConnectionsLimited` |
| `Connections_proofs!LinesProcessed` | `MessagesAreLines`: however bytes arrive, the messages processed are the lines sent, none is longer than its limit, and the total is exceeded by the line ends of replies at most |
| `Systems_proofs!MembershipTheorem` | `MembershipKept`: whatever handlers a machine with names of its own has one after the other, it has one object at most after every LDIF record, and at rest the object is in the groups it was put into and no dn is left behind |
| `Systems_proofs!StateTheorem` | `StateIsKept`: the `faiState` of such a machine changes only to what a message, the action of a job or `FAIReboot` asks for; whoever writes back all attributes keeps it |

*JobDB.* `TypeOK` includes `ThreadOK`, which says what a goroutine holds at each
`pc`; without it no step of a goroutine could be typed. Every operator of `Jobs`
has a lemma about the type of its result. For `IdsUnique` the property itself is
not inductive: a follow-up is built from a job that may be anywhere between the
database and the goroutine that reacts to its removal. `IdInv` adds that ids in
the database, in the file and in requests are below `nextID`, that two requests
that will add a job do not carry one id nor that of a job in the database
(`ChannelDistinct`, `TodoDistinct`),
that the handler's batch is in the database and its own requests add nothing
(`HandlerHolds`), and that a job whose removal with "done" has been reported
is neither in the database nor on its way there (`RemovedGone`). One
step for each action, one lemma for each way to send requests.

*Hypotheses on the messages.* `Messages` says which events reach the server, and
the runs give it the kinds their question is about. Five theorems hold for every
value of it; the others say which kinds they leave out, any number of all others
may come in any order. What is left out breaks the property: TLC finds the
behaviours that section 6 lists when the kind is put back. The one exception is
here_i_am in `ForwardsAlone` where no job has a `<tminus>` window, for which a
long simulation has found none.

*JobLaunch.* What is proved of requests is that all of them are `Orderly`, from
the moment a goroutine decides to send them until the handler takes them: a
request that writes a percentage has the filter "behind that percentage", one
that launches has a filter whose time has passed or ids that came from a reply
(`RequestsOrderly`). `ProgressKept` follows. For `NeverTooEarly` an id in such a
request is `Opened`: it is used up, and its job, if there is one, has its
window open; that stays true, because time passes, edits set the time to now
and ids are not handed out again (`Settled`). For `PingsLaunchOnce`, `OnceInv`
says that a job in status waiting or wakeup, in the database or in the batch, or
one that is not yet in the database, has no launch since the last restart. (A
restart sets `launches` to zero: a job that the file has as waiting is launched
again, and should be.) For `OneInstall`,
`InstallInv`: two installations of a machine are processing only while a
removal for the machine is in the channel, where it is behind the launch of the
second.

*RemovalsStayQuiet*, at the end of `JobLaunch_proofs`. A marker and its removal
are two requests and others come between them. `Protected(n, f)` says of the
removal at place `n` of the channel: the request that marks what `f` selects is
before it, and none between them makes `f` select more; or all that `f` selects
is marked, and none before it makes `f` select more. Each step keeps this for
each place: the head is taken and all places move, a request is appended and
only the last place is new (`Held` says what a goroutine or the handler has yet
to send). Only then does the step that removes the jobs have a marker to hand
on.

*JobSeries.* `StepKinds` reduces the thirty actions to six: a request is carried
out, one is sent, an entry is taken, a goroutine goes on (`Turn`), a job is
launched, or none of this matters. `SeriesKept` follows an instance through
them (`Alive`). For `OneInstance`, `Carries(root)` are the holders of a series
outside the database: entries and goroutines that follow it up or may forward
it in vain, and requests to add it. `Single` says that there is at most one,
beside at most one job in the database; that a job in the database has no
follow-up, and a holder beside it acts on that very job, which has been
launched (`StoredApart`, `LiveRan`); and that the channel puts the removal of
the job before the request that brings it back (`ForwardsRemove`, `AddsWait`).
Each step `Moves` a series: it has no more holders than before, one is replaced
by another, or there was none and one begins, and for a beginning the job must
leave the database or be launched for the first time. `ForwardsAlone` is needed
for the last of these.

*JobSync.* `LossIsRepaired` speaks of everything that is on its way along a link.
This is one sequence of messages, `Pipeline`: what is left of the message that
the goroutine of the receiver works on, the wire, the queue of the
`PeerConnection`, the channel of the sender. What becomes of the copy is a
function of it, `After`, so the proof is about sequences first: `After` of two
of them one after the other is `After` of the second, starting from what the
first leaves. Then each step does one of four things. It moves a message within
the sequence, or in and out of it messages that say nothing of jobs. Or it takes
the first, and the copy becomes what that message makes of it; the changes of one
message commute with what remains of it, since each is about another id
(`Merge`). Or it edits a job and appends the message that makes the same
change to the copy. Or it loses messages, and
then `WillConnect` holds: a new connection is due, with a greeting first. From
the greeting on, the repair is handed on: `new_server`, the request for a
complete copy, `confirm_new_server`, and the complete copy itself, after which
the copy no longer matters to `After`. `Shape` is what this needs: a connection
that is down has something to send or a ping coming, a missing one a greeting,
and with `Overlap = FALSE` there is one goroutine for each link. That hypothesis is
what section 4 is about. With `Overlap = TRUE`, TLC finds `LossIsRepaired`
violated after 19 steps under the constants of `JobSync_overlap.cfg`; `TypeOK` is
not, but its proof uses the single goroutine too. Servers, owners, times, updates,
sets of faults and the bounds on ids and events are arbitrary.

*XmlDB.* One inductive invariant in three parts. `LockInv`: a store runs only
under the lock, so what it has written is still the data. `JobInv`:
`blockPersistJobs` stands for a job that wakes soon enough for a change made
now, and one that wakes in time for the oldest unsaved change. `SavedInv`: where
unsaved data comes from. For the refinement, `Rename` is the abstract save,
because of `LockInv`; `Shutdown` closes; all else changes data or stutters.

*ClientDB.* `Repaired` speaks of the client's belief; where that comes from is a
"registered" that a server sent while it had the client. So the invariant is
about answers: each one that is no longer true has a "deregistered" of the same
server behind it, in the queue of the client or in the mail, or the server has a
verification pending (`AnswersRetracted`); and the same of what the client
believes (`HomeAsks`). It needs neither the here_i_am messages nor the
"registered" of other servers that `Repaired` counts as well: these can be lost.
So can a "deregistered"; then its server is in `unheard`, where a here_i_am
takes it out again. Whatever else happens to queue and mail keeps an answer and
its retraction in order (`RetractedRest` to `RetractedArrival`); for arrivals
this is what `Overtakes = FALSE` says. A verification can only get lost with its
server: `VerificationsSurvive` says that none does that is needed, and
`clientdb.go` does not see to it (section 6). In the run `stores` it is true:
TLC finds no violation when it is added to `Stores.cfg` as `part = "clients" =>
...`, because LDAP is fast where servers restart. `ClientsOK` asks for
`ConfirmTicks >= 2`, a list of candidates that are servers, and `Overtakes =
FALSE`; servers, candidates, faults and their number are arbitrary.

*TftpCache.* `CountsUsers` needs `EntryInv` (an entry that nobody uses is as
good as new, one in use has one version) and `ConnInv` (who has got data uses
an entry loaded without error). The cardinality of the users changes by one
in each step, with the library's facts on finite sets.

*TftpTransfer.* `FileArrives` is not inductive, because a packet that is late
carries nothing but an id modulo `IdSpace`. The invariant gives each packet the
numbers it may stand for. Of the packets for the client, which waits for block
c: each has a number that is at least c - 1 minus the faults so far, none behind
one numbered k is older than k minus those faults, and none is newer than the
last block sent (`Numbered`); the same of ACKs and the block the server has sent
(`Paired`). A packet that overtakes another, is lost or doubled costs one fault
and makes this window one wider; a packet that is read makes it no wider. So all
numbers lie within less than `IdSpace`, where an id names one of them
(`ModNear`), and the block that a client takes for c is block c. From there on
it is about the pieces of a file (`PartIs`, `GetReceives`). The hypothesis
`TransferOK` asks for `MaxFaults + 1 < IdSpace`, which the proof needs and the
property as well: with ids modulo 3, two faults and room for three packets TLC
finds a file of 8 pieces that does not arrive, after 12 steps. In the code
`IdSpace` is 65536. `FileLengths`, `BlockSize`, `Requested`, `Ports` and
`Capacity` are arbitrary.

*PeerConnection.* `Inv`: a connection has a monitor until it is closed
(`Monitors`), the downtime runs only while there is none, and not ahead of the
silence (`DownIsSilent`), what the handler knows at each of its stages
(`Stages`), who will wake it (`Woken`), and where the greeting is that makes up
for a loss (`Synced`). With TLS the invariant is false, section 6 says why.

*Connections.* For `Accounted`, the records of the addresses and the slots are
related to the sets of connections in each stage: `limiters[ip].active` is the
cardinality of the set of connections of `ip` between `Register` and
`Deregister`, and `ActiveConnections` is at least the cardinality of those that
hold a slot, because it is not always given back (section 6). One lemma says
what `Goto` does to both cardinalities; the steps differ in which stage follows
which. `HourlyBounded` is not inductive: that few connections are recent says
nothing of those the next attempt may add. An average divides time, and two of
them are more than half an hour apart, so that an hour reaches into three parts
at most (`Parts`): n recent connections before the last average but one (at a),
m up to the last (at b), the rest since. Each part has at most `PerHour`, and
`n < PerHour`, because with so many the first one came with an average that is
not recent any more. The invariant says that there is such a division
(`Divided`). An attempt continues the current part (`PartGoesOn`), begins one
after an average (`PartBegins`, where n has come to 0 and m takes its place), or
the only one after an hour of rest; time takes connections away at the front
(`PartsShrink`). `Accounted` takes from the certificates and the length of an
hour only that they are natural numbers, and has the clock of `AcceptLoop` stand
still; `HourlyLimit` is about one address, and its proof uses neither bound of
`ConnectionRate` (`Bounded`, `MaxTime`). What they ask of their constants is
written in the theorems.

*Requests.* What has been read of a stream is, at every step, the messages so
far, `buf`, and the chunk that is not split yet, in this order (`Laid`,
`Whole`). The messages are the lines that end in the first b letters, where b is
where `buf` begins. Only the first letter of a stream can be a newline in `buf`,
left there by `ReadStartTLS`; otherwise the rest of a line has none (`Chunks`),
and a line is complete with the next newline (`EndedNext`). For the limits, what
remains of each covers what has been read but not counted against it yet
(`Spent`): the bytes left of a message cover the chunk, because the read buffer
was shrunk to them. The letters read before the limits are known, at most three,
are `Early`. `Charged` is what has been written without the line ends: the total
covers that, and nothing covers the rest. The hypothesis `ReaderOK` says that
streams are sequences and limits are numbers, nothing else; the streams, the
read buffer and what a read brings are arbitrary.

*Systems.* A record changes the directory of all machines, and a property of one
machine says nothing about the record that comes next, so neither property is
inductive. The invariant looks at the directory through each machine on which
handlers work one after the other: `Entries`, its objects, `In`, its dns in each
group, and the groups it was put into. `OnTheWay` says where the one handler of
the machine is. Between commands (`Waits`) what it read is still what there is
(`Fresh`) and the object is where it belongs (`Rests`). With records to do
(`Runs`) there is a case for each command of the code and, in the longest of
them, for each part: the attributes are to be written, then the object is to be
renamed (`Renaming`), then group after group follows (`Swapping`: the groups of
which a record is pending have the old dn, the others the new one). Each record
takes the handler from one case to the next (`RunStep`), and a record that is
not possible, which would end the command half way, occurs only where nothing is
lost by it: a group that the dn is already in (`JoiningStep`). Machines that
share names have dns in common, and what one of them does others see; `Kin` are
a machine and those it may share with. `ChangedIs` and `MovedIs` say that a
record leaves what a machine with names of its own sees as it is, unless it is
that machine's; so such machines can be looked at one by one, and threads that
work on different machines need no order. `SystemsOK` asks that `Missing` is
none of the values it stands beside, that the template is no machine, and that
there are finitely many groups. Machines, groups, names, addresses, threads and
the bounds are arbitrary. When this was proved, the arms of a `CASE` of the
model turned out to overlap, which TLC does not notice because it takes the
first (`ReadSystem`); the last arm is now `OTHER`.

They rest on the assumptions `ConstantsOK`, `JobSyncConstants`, `XmlDBConstants`,
`TftpConstants` and `PeerAssumption` (finiteness of the set of requests, natural
delays and the like), which the runs evaluate, and on the theorems of the
library.

Every safety property that a run checks of `JobDB`, `XmlDB`, `TftpCache`,
`TftpTransfer`, `PeerConnection`, the connections, `Requests` and `Systems` has
a theorem; `Repaired` of `ClientDB` has one where no verification that is still
needed dies with its server (and says nothing of a client that a lost
"deregistered" left behind), and `LossIsRepaired` of `JobSync` where `Overlap =
FALSE`. Only model-checked is everything about the remaining modules, and all
liveness (`DueJobsLaunch`, `EventuallySaved`, `CacheDrains`, `Converges`,
`Agreement`): a proof of liveness needs `ENABLED`, which this prover does not
have. The modules about XML, audits, logs and sibridge compute with recursive
operators, about which it cannot prove anything either.

## 6. What the models showed besides

Findings with a run are in section 4. These were met while modelling, or appear
when a bound above is raised; the properties are stated so that they hold
without them, and say so.

Jobs:
- A paused job that is resumed after its time has no ping and is not launched
  until the groomer finds it (jobdb.go:125 says every due job is queued).
  `DueJobsLaunch` is about GOsa's "execute", which sets the time as well.
- `JobsForwardModifyRequest` sends all attributes of its copy to the owner, so
  that a request about one attribute overwrites others that have changed since
  (jobdb.go:410). `LossIsRepaired` is not disturbed: it says that copies agree,
  not on what.
- `CLMSG_PROGRESS` between a job's marker (progress=groom) and its removal
  overwrites the marker (jobdb.go:635): the removal of a superseded job then
  looks like one of GOsa. `groom` has no progress messages for that reason.
- foreign_job_updates and here_i_am mark and remove the installations of a
  machine with two requests; one that is launched between them is removed
  without the marker, and its removal may set the machine to localboot.
- A restart from a file that was written between two launches and the removals
  they asked for leaves two installations of a machine processing.
- here_i_am inside a `<tminus>` window launches a job again that is processing
  already (here_i_am.go:299), and so does a ping after GOsa has made a job wait
  again. `LaunchedOnce` is checked and proved without these.
- `CLMSG_PROGRESS` 100 between the two requests of a forward ends a job that is
  put back: two instances of a periodic job. So does the removal of a job by the
  launch of a competing installation while the job is on its way to a peer.
- A job that is launched twice (GOsa makes it wait again, or it is woken in its
  `<tminus>` window and launched at its time) has two goroutines that forward
  it; when both fail, it is in the database twice. `AtMostOneInstance` is
  checked and proved without these, section 5.
- The reaction to a removal may read `faiState` before the action has written
  it (process_act.go:135).
- A handler blocks for ever when it sends to its own full channel
  (jobdb.go:311). The channel holds 16384 requests.
- A crash between the removal of a periodic job and the request for its
  follow-up ends the series; `SeriesGoesOn` excuses it.
- The groomer puts overdue jobs that are paused into error.
- After a restart from an older file ids are handed out again, and a request
  under way for the old bearer of an id reaches the new one.

Peers, connections, clients:
- In the TLS branch of `handleConnection` `err` keeps its value and `whendown`
  is never reset (peer_connection.go:360). The properties of `PeerConnection`
  are about the other branch.
- A `new_server` that arrives between the three steps in which a peer is given
  up is forgotten (peer_connection.go:443).
- `ActiveConnections` is not decremented when `AcceptTCP` fails or the
  connection is refused (go-susi.go:60 and 305).
- A client ignores "deregistered" while it registers (registered.go:135); a
  confirmation of a server it has left then makes two servers believe in it.
- The "\r\n" after each reply is not counted (go-susi.go:488), although the manual
  says that bytes written count (go-susi-manual.xhtml:11138). With a total of 3,
  one line and its reply of one byte make 5 bytes; `MessagesAreLines` allows two
  for each reply, and without them TLC finds it violated.
- The "deregistered" that asks a client which was taken away is sent once, and the
  result is ignored (clientdb.go:246). When it is lost, the client believes for good
  in a server that has given it up: without `GivenUp` TLC finds `Repaired` and
  `Agreement` violated with one lost message. The comment at clientdb.go:225 says
  that it undoes a wrong assignment.
- The goroutine that verifies a client is lost at a restart, and only clients
  that were one's own are checked then (clientdb.go:69 and 97).

LDAP:
- Two handlers that work on one machine lose each other's groups and states; so
  does one whose LDAP command fails half way. `MembershipKept` and `StateIsKept`
  are about the other machines.
- A new system joins the groups of its template before its object is added, under
  a dn that is made of the short name DNS has for it (detected_hardware.go:98 and
  124). When a machine of that name exists, the object of that one joins, and
  the add fails; here_i_am moves an object to such a dn in the same way
  (here_i_am.go:219). With one name for two machines TLC finds `MembershipKept`
  violated when `OwnNames` is left out of it.
- `SystemForceFAIState` sets twice but does not verify (systemdb.go:404).
- `activate_new` looks for the address of the text of the whole message
  (job_trigger_activate_new.go:167).

Data:
- `Get` has a buffer of 512 bytes for a packet of 516 (tftp/get.go:88).
  `FileArrives` is about the server with a client that has a larger one.
- A TFTP request that ends while an older goroutine of `Release` sleeps adds no
  time of its own to the life of the data.
- A limit of answers of zero gives none, although the manual says it is no
  limit; two counts with one name are both computed
  (gosa_query_audit_aggregate.go:86 and 152); directories of audits are
  compared as strings (audit.go:164).
- "%" in a `<where>` does not match a newline (xml_filter.go:240).
- Matching rules are converted to lower case, classes such as \S included, and
  whitespace at the ends is dropped (systemdb.go:585).
- A `Store` that fails is not tried again before the next change (the comment of
  `failed` in `XmlDB`); a copy of another server's jobs is empty for a moment
  while a complete one is applied.

sibridge:
- "delete install" without machines, with no list from a previous command,
  deletes the jobs of all machines (sibridge.go:1828).
- "query i machine1 machine2", an example of the help text, is rejected
  (sibridge.go:859).
- qaudit clears the list of machines (sibridge.go:1010), which by the help text
  only "delete" does. `CommandsMeanWhatHelpSays` leaves out qaudit and queries
  with types of jobs.
- ".release", ".classes" and ".deb" without a word change nothing (sibridge.go:1374,
  1429 and 1500), ".description" without a word asks for an empty description.

## 7. Plan

Done: the job pipeline with its proofs; the XML database and its refinement; the
TFTP cache; replication; then the handler of a peer connection and the limits on
connections, requests, TFTP transfers and systems in LDAP with their proofs, FAI
logs, registration and clients, the proof that lost updates are repaired, XML
trees with their refinement, scanners, conditions, audits, templates, sibridge.

Next, in this order:

1. the throttle of re-registrations (process_msg.go:81-160), and the clock check
   that makes the server groom after a jump of time;
2. keys: `new_key`, peers that are not go-susi;
3. sibridge's tables of systems and audits.

## 8. Not modelled

- *Message dispatch*: decryption and a switch over the header. Its throttle
  is in the plan.
- *Job query*: reads the database after a bounded wait and changes nothing.
- *FAI and package data*: caches filled by external programs, and queries.
- *Configuration and hooks*: parsing of files and arguments at start-up.
- *TLS, legacy encryption, permissions*: libraries, or checks of one message
  without state between messages.
- *Helper programs*: stand-alone tools, some retired (`attic`).
- *golib* (`Deque`, `Counter`, timestamps, logging) is not in the repository;
  what the models use of it is marked external in `PROJECT.json`, as are LDAP,
  the network and the clients, modelled from how the code uses them.
- *The PHP pages of GOsa*, except the operations on jobs of the deployment
  page (`GOsaUpdate`, `GOsaOffers`).
- Of components that are modelled in part, `PROJECT.json` says what is left out:
  peers that are gosa-si, lookups of systems by name and address, printers and
  `new_ldap_config`, statistics, raw messages and the tables of sibridge.
