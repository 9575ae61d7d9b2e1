CONSTANTS
  Timeout = 5
  MinPing = 2
  MaxHeight = 1
SPECIFICATION Spec
INVARIANT KeepaliveInSeconds
