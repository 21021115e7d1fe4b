SPECIFICATION ClientSpec
CONSTANTS
  Requests <- AnyRequest
  MaxRequests = 3
  Paths = {"/hello", "hello", "*"}
  RootedPaths = {"/hello"}
  Handlers = {"hello", "ballo"}
  Registrations <- Registered
  LargestWindow = 8
  SmallestFrame = 20
  LargestFrame = 30
  Defaults <- DefaultOptions
INVARIANTS TypeOK HandledAsSent NeverServedTwice HandshakeAsAgreed
PROPERTIES ServesAsPromised RequestsServed ConnectionEnds
CHECK_DEADLOCK FALSE
