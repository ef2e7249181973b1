SPECIFICATION ConversationSpec
CONSTANTS
    Files <- AllFiles
    MaxPosts = 4
    MaxDepth = 2
    NULL = NULL
INVARIANTS
    ConversationIsBounded
    OnlyItsOwn
