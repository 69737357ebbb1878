CONSTANTS
  h1 = h1
  h2 = h2
  Handlers = {h1, h2}
  SubTopics <- MCSubTopics
  Subscribers <- MCOneSubscriber
  PubTopics <- MCPubTopics
  Priorities = {0}
  Endpoints = {e1}
  RequestIds = {r1}
  StreamingTypes = {Quote}
  MaxDepth = 2
  CounterModulus = 2
  None = None
SPECIFICATION Spec
PROPERTY CallbackAtMostOnce
