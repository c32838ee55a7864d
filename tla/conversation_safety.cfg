SPECIFICATION ConversationSpec
CONSTANTS
  Order <- SectionOrder
  MaxHistory = 3
  MaxContexts = 2
  MaxCalls = 6
INVARIANTS
  DiscardedIsGone
  ContinuedRequestsShowTheText
