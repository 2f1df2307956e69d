SPECIFICATION Spec
CONSTANTS
  r1 = r1
  r2 = r2
  own = own
  indexing = indexing
  versions = versions
  t1 = t1
  t2 = t2
  c1 = c1
  Messages <- MCMessages
  OwnMessages <- MCOwnMessages
  Topics <- MCTopics
  TopicOf <- MCTopicOf
  SubtopicChoices <- MCSubtopicChoices
  Threads <- MCThreads
  Callers <- MCCallers
  NoMessage = NoMessage
  NoThread = NoThread
INVARIANT OwnMessagesNotAccepted
