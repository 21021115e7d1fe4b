SPECIFICATION FairSpec
CONSTANTS
  Requests <- AnyRequest
  MaxRequests = 2
  Paths = {"/hello", "hello", "*"}
  RootedPaths = {"/hello"}
  Handlers = {"hello", "ballo"}
  Registrations <- Registered
  LargestWindow = 8
  SmallestFrame = 20
  LargestFrame = 30
  Defaults <- DefaultOptions
PROPERTIES EofEndsDetection
CHECK_DEADLOCK FALSE
