SPECIFICATION Spec
CONSTANTS
  static = static
  found = found
  stranger = stranger
  mixed = mixed
  lower = lower
  Peers <- MCPeers
  Local = Local
  StaticNodes <- MCStaticNodes
  DnsNodes <- MCDnsNodes
  Accounts <- MCAccounts
  Lower <- MCLower
  NoAccount = NoAccount
CHECK_DEADLOCK FALSE
INVARIANTS TypeOK ProtocolsAgree  ErrorLeavesNoNode
