\* Two relays on either transport, two items after the answer, two at once, and
\* callbacks nested three deep.
SPECIFICATION FairSpec
CONSTANTS
    MaxRelays = 2
    MaxItems = 2
    MaxChunk = 2
    MaxDepth = 3
    PollBatch = 1
INVARIANTS
    TypeOK
    Contract
PROPERTIES
    Settles
\* The app may have used its relays and the stack be empty.
CHECK_DEADLOCK FALSE
