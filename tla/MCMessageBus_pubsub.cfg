CONSTANTS
  h1 = h1
  h2 = h2
  Handlers = {h1, h2}
  SubTopics <- MCSubTopics
  Subscribers <- MCSubscribers
  PubTopics <- MCPubTopics
  Priorities = {0, 1}
  Endpoints = {}
  RequestIds = {}
  StreamingTypes = {}
  MaxDepth = 1
  CounterModulus = 2
  None = None
SPECIFICATION Spec
INVARIANT TypeOK CacheIndexConsistent
PROPERTY DispatchFollowsSubscriptions
