SPECIFICATION Spec
CONSTANTS
  Strand = Strand
  NoOwner = NoOwner
  Senders = {a}
  SyncSenders = {}
  Lens = {3, 16}
  KeepAliveLen = 3
  MaxCalls = 5
  MaxKeepAlives = 0
  MaxTimeouts = 0
  MaxCloses = 0
  MinSendBufSize = 2
  MaxSendBufSize = 19
INVARIANTS BuffersHold
