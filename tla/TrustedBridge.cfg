SPECIFICATION FairSpec
CONSTANTS
    Own = own
    Foreign = foreign
    NoSession = nosession
INVARIANTS
    ConversationIsSound
    NoConnectionLeft
PROPERTIES
    SessionPinned
    CallsReturn
    ImplementsContract
