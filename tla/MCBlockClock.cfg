SPECIFICATION Spec
CONSTANTS
  radio1 = radio1
  radio2 = radio2
  mainnet = mainnet
  unlisted = unlisted
  Radios <- MCRadios
  Networks <- MCNetworks
  Supported <- MCSupported
  Unknown = Unknown
  Interval <- MCInterval
  NoHead = NoHead
  Unparsable = Unparsable
  NoBlock = NoBlock
  UnsupportedNetwork = UnsupportedNetwork
  FailedStatus = FailedStatus
  MaxStatuses = 2
  MaxBlock <- MCMaxBlock
SYMMETRY RadioSymmetry
INVARIANTS TypeOK BlocksAgree BlockReached
PROPERTY BlocksNeverBack
