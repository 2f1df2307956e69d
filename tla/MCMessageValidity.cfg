SPECIFICATION Spec
CONSTANTS
  m1 = m1
  m2 = m2
  m3 = m3
  m4 = m4
  mine = mine
  forged = forged
  about = about
  elsewhere = elsewhere
  alice = alice
  me = me
  Messages <- MCMessages
  Identifiers <- MCIdentifiers
  Signers <- MCSigners
  LocalSigner = me
  BadSignature = BadSignature
  IdentifierOf <- MCIdentifierOf
  SignerOf <- MCSignerOf
  NonceOf <- MCNonceOf
  MSG_REPLAY_LIMIT = 2
  StartClock = 2
  MaxClock = 4
  NoNonce = NoNonce
INVARIANTS TypeOK SavedNonceIsHighest SavedNonceNotAhead OneFirstMessage
CHECK_DEADLOCK FALSE
