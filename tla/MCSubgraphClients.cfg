SPECIFICATION Spec
CONSTANTS
  a = a
  b = b
  s = s
  t = t
  h = h
  Accounts <- MCAccounts
  Subgraphs <- MCSubgraphs
  Hashes <- MCHashes
  Networks = {mainnet, aurora, scroll}
  Supported = {mainnet}
  Unknown = Unknown
  NoData = NoData
  Nothing = Nothing
  Unparsable = Unparsable
  Decimals = 2
  Amounts <- MCAmounts
  MaxAmount = 10000
  F32 <- MCF32
  Blocks = {1, 2}
  MaxEntries = 3
  Numbers = {7, 8}
  MaxI64 = 7
INVARIANTS NoAnswerBesideErrors EnoughStakePasses ShortStakeFails BlocksFit
CHECK_DEADLOCK FALSE
