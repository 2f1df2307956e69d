SPECIFICATION PipelineSpec
CONSTANTS
  m1 = m1
  m2 = m2
  m3 = m3
  early = early
  about = about
  alice = alice
  bob = bob
  me = me
  Messages <- MCMessages
  Identifiers <- MCIdentifiers
  Signers <- MCSigners
  LocalSigner = me
  BadSignature = BadSignature
  IdentifierOf <- MCIdentifierOf
  SignerOf <- MCSignerOf
  NonceOf <- MCNonceOf
  MSG_REPLAY_LIMIT = 3
  StartClock = 2
  MaxClock = 4
  NoNonce = NoNonce
  Skew <- MCSkew
  MaxRestarts = 1
INVARIANTS StaleMeansOvertaken ActsInOrder NoOldMessages AgainNeedsAnother
CHECK_DEADLOCK FALSE
