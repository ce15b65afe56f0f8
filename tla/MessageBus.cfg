\* One event, two handlers that may fail in any way. Handled messages leave nothing to do.
SPECIFICATION FairSpec
CONSTANTS
  m1 = m1
  t1 = t1
  h1 = h1
  h2 = h2
  Messages = {m1}
  Topics = {t1}
  Handlers = {h1, h2}
  TopicOf <- OneTopic
  Subscribers <- TwoHandlers
  genericRetries = 1
  concurrencyRetries = 2
  ArchivePoisoned = FALSE
  MaxFaults = 2
  MaxRedrives = 1
INVARIANTS
  TypeOK
  NoMessageLost
  LettersKeepTheirTopic
PROPERTY MessagesSettle
CHECK_DEADLOCK FALSE
