SPECIFICATION Spec
CONSTANTS
  Strand = Strand
  NoOwner = NoOwner
  Senders = {a}
  SyncSenders = {a}
  Lens = {2}
  KeepAliveLen = 1
  MaxCalls = 1
  MaxKeepAlives = 1
  MaxTimeouts = 0
  MaxCloses = 0
  MinSendBufSize = 1
  MaxSendBufSize = 3
INVARIANTS MessagesContiguous
