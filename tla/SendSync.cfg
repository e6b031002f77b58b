SPECIFICATION FairSpec
CONSTANTS
  Strand = Strand
  NoOwner = NoOwner
  Senders = {a, b}
  SyncSenders = {a, b}
  Lens = {2}
  KeepAliveLen = 1
  MaxCalls = 2
  MaxKeepAlives = 0
  MaxTimeouts = 0
  MaxCloses = 1
  MinSendBufSize = 1
  MaxSendBufSize = 3
INVARIANTS MessagesContiguous
PROPERTIES SyncSendReturns CloseCloses
