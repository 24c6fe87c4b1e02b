CONSTANTS
  TcpSockets = {client, fixed}
  Acceptors = {server}
  UdpSockets = {datagrams}
  Plain = {plain}
  Reader = reader
  Writer = writer
  Programs = {{client, server}, {fixed}, {datagrams}, {plain, client}, {reader, writer, plain}}
  Fixed = {fixed}
  Fds = {3, 4, 5}
  FewFds = {3, 4}
  Addresses = {here, there}
  Empty = empty
  Timeouts = {0, 1}
  NegativeReceive = FALSE
  Asserts = FALSE
  OutSize = 2
  InSize = 1
  MaxReady = 1
  MaxSignals = 1
SPECIFICATION Spec
INVARIANTS
  DescriptorsOwned
  BlockingCallsWait
  ConnectReturnsDecided
  BuffersMatchWire
  ErrorTellsFailure
PROPERTIES
  TimedCallsReturn
CHECK_DEADLOCK FALSE
