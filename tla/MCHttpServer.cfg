SPECIFICATION Spec
CONSTANTS
  ServletRoutes <- MCServletRoutes
  FilterRoutes <- MCFilterRoutes
  NoServlet = NoServlet
  Streams <- MCStreams
  MaxUrlSize = 2
  MaxHeaderCount = 2
  MaxHeaderFieldSize = 2
  MaxHeaderValueSize = 2
  MaxBodySize = 2
  BarePages = {"INTERNAL_SERVER_ERROR"}
  Suffixed = {"x.txt", "index.html"}
  FileSizes = {0, 2}
  MaxRead = 4
INVARIANTS
  AnswersMatchRequests
  PromptUnlessJoined
  NoFilterBypassed
  AbortsExplained
PROPERTIES
  ResponseEnds
