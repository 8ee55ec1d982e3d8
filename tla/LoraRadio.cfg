SPECIFICATION FairSpec
CONSTANTS
  MaxPackets = 3
  MaxSends = 3
INVARIANTS
  TypeOK
PROPERTIES
  EveryPacketIsRead
  ListensAgain
  EverySendIsReported
  NoSendIsAborted
