SPECIFICATION ServerSpec
CONSTANTS
  MaxPeerDowntime = 3
  OftenUntil = 2
  TLSModes = {FALSE, TRUE}
  MaxQueue = 2
  MaxMonitors = 2
  HalfHour = 3
  PerHour = 3
  MaxTime = 20
  Conn = {c1, c2, c3}
  c3 = c3
  Address <- ConnAddress
  Certificate <- ConnCertificate
  MaxConnections = 2
  ChannelSize = 1
  MaxOpened = 6
  MaxErrors = 2
  ReadSize = 4
  Streams <- ServerStreams
  TotalBytes = {0, 3, 5}
  MessageBytes = {0, 2, 3}
  ReplyLengths = {0, 1}
  FileLengths = {0, 2, 3, 6}
  BlockSize = 3
  Requested = {2, 3}
  IdSpace = 4
  Header = 1
  Ports = {1, 2}
  Capacity = 2
  MaxFaults = 2
  Machine = {m1, m2}
  Missing = Missing
  Names <- MachineNames
  m1 = m1
  m2 = m2
  n1 = n1
  n2 = n2
  IP = {i1}
  Group = {g1}
  Thread = {t1, t2}
  MaxCalls = 3
  MaxLDAPFaults = 1
  NoName = NoName
  PlainName = {n1}
  Action = {"install", "audit"}
  Limits = {0, 2}
  MaxFragmentLength = 3
  Handlers = 2
  MaxSeconds = 1
INVARIANTS ConnectionsLimited MessagesAreLines NeverGivenUpEarly KeepsTrying LossesAreSynced FileArrives MembershipKept LogsAreFound
PROPERTY StateIsKept
CHECK_DEADLOCK FALSE
