SPECIFICATION ReadingPeerSpec
CONSTANTS
  Strand = Strand
  NoOwner = NoOwner
  Senders = {a, b}
  SyncSenders = {}
  Lens = {2}
  KeepAliveLen = 1
  MaxCalls = 2
  MaxKeepAlives = 1
  MaxTimeouts = 1
  MaxCloses = 0
  MinSendBufSize = 1
  MaxSendBufSize = 3
PROPERTIES OverflowCuts ImplementsStream AcceptedIsTaken
