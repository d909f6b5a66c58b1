SPECIFICATION Spec
CONSTANTS
  WordMax = 31
  MaxErrno = 7
  IntMax = 15
  ByteMax = 7
  EventSize = 4
  KernelEventSize = 3
  LinkSize = 2
  TargetInfoSize = 2
  ReportSize = 2
  MaxAddr = 3
  HostileWords = {0, 1, 2, 4, 7, 16, 25, 30, 31}
  Caps = {2, 6}
  Backends = {"sgx", "kvm", "snp"}
  Requests <- MCRequests
INVARIANT PollEntriesReachCaller
