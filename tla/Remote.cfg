\* Two clients; two connections at a time, or one and a file of another thread.
CONSTANTS
  Tokens = {"RELOAD", "LOG", "CLOSE", "word", "NL"}
  Commands = {"RELOAD", "LOG", "CLOSE"}
  Clients = {"settings", "tool"}
  Aborted = {"tool"}
  Script <- Dialogues
  Fds = {1, 2, 3, 4, 5}
  LineLimit = 1
  Capacity = 1
  RowsOf <- OneMessage
  MaxInits = 1
SPECIFICATION FairSpec
CHECK_DEADLOCK FALSE
INVARIANTS
  TypeOK
  ConnsOwned
  ExecutedInOrder
  AnswersInOrder
PROPERTIES
  OthersSpared
  Answered
  ShutdownEnds
