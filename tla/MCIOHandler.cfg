\* Two handlers and one descriptor number, or one handler both threads hold; a
\* handler is only dropped for good where the loop cannot hold it.
SPECIFICATION InstanceSpec
CONSTANTS
  Handlers = {h1, h2}
  Fds = {7}
  Kinds = {"close", "read"}
  Users = {"loop", "other"}
  MaxQueue = 2
  Risky = {}
CHECK_DEADLOCK FALSE
INVARIANTS HandlersLegal NoUseAfterFree
PROPERTY DescriptorReclaimed
