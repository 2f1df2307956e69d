SPECIFICATION FairSpec
CONSTANTS
  ping1 = ping1
  ping2 = ping2
  pong = pong
  garbage = garbage
  Messages <- MCMessages
  Pings <- MCPings
  Undecodable <- MCUndecodable
  Workers = 2
  NoMessage = NoMessage
INVARIANTS TypeOK PingsAnsweredOnce ExitDrained
PROPERTIES PingsGetAnswers SignalEndsProgram
