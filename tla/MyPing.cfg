SPECIFICATION Spec
CONSTANTS
  PING_ATTEMPTS = 5
  Timeout = 5
  Pids = {4242, 70000}
  PidBits = 16
  MaxLatency = 3
  MaxStrays = 1
INVARIANTS EndsInTime UnreachableAfterSilence NoReplyMissed
