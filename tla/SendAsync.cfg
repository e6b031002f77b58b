SPECIFICATION Spec
CONSTANTS
  Strand = Strand
  NoOwner = NoOwner
  Senders = {a, b}
  SyncSenders = {}
  Lens = {1, 2}
  KeepAliveLen = 1
  MaxCalls = 2
  MaxKeepAlives = 1
  MaxTimeouts = 0
  MaxCloses = 1
  MinSendBufSize = 1
  MaxSendBufSize = 3
INVARIANTS TypeOK WriteToken StreamConserved ReportedOnce
