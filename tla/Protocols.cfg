SPECIFICATION ProtocolsSpec
CONSTANTS
  Pcbs = {p1, p2}
  NoPcb = NoPcb
  Addrs = {"any", "here", "there", "all", "peer", "other"}
  IpAny = "any"
  Broadcasts = {"all"}
  SameNet <- MCSameNet
  RangeStart = 5
  RangeEnd = 7
  ClientPort = 1
  ServerPort = 2
  BindAddrs = {"any", "here", "there"}
  BindPorts = {0, 1, 5}
  Peers <- MCPeers
  Datagrams <- MCDatagrams
  Ids = {d1, d2, d3}
  DatagramLen = 3
  FragPbufs = {1, 2}
  NumReassData = 2
  MaxPbufs = 6
  MaxAge = 1
  Leases = {a, b}
  NoAddr = NoAddr
  RequestTries = 1
  CheckTries = 1
  RebindTries = 1
  TriesWrap = 4
  TimeWrap = 4
  T1 = 1
  T2 = 2
  MaxReplies = 2
  NoServerId = FALSE
  CanFail = FALSE
  UserCalls = {"start", "stop", "release", "renew"}
INVARIANTS ListSound OneTaker Heard HeldCounted PassedOnce    AlwaysTimed
PROPERTIES  NegotiationEnds
CHECK_DEADLOCK FALSE
