SPECIFICATION Spec
CONSTANTS
  alice = alice
  bob = bob
  indexer = indexer
  deployed = deployed
  other = other
  Agents <- MCAgents
  Accounts <- MCAccounts
  Operators <- MCOperators
  Hashes <- MCTwoHashes
  NoAccount = NoAccount
  NoHash = NoHash
CHECK_DEADLOCK FALSE
INVARIANT OwnerOwns
