\* A field of each kind, five package paths, eighteen documents.
CONSTANTS
    Bits <- MCBits
    Paths <- MCPaths
    DefsOn <- MCDefsOn
    Topic <- MCTopic
    Documents <- MCDocuments
    MaxPaths = 2
    MaxEdits = 2
SPECIFICATION Spec
INVARIANTS TypeOK JSONRoundTrip JSONFollowsSchema
PROPERTIES ReceivedAsSent CutIsNoticed SchemaKeepsTypes
\* The calls are bounded, and a panic ends the program.
CHECK_DEADLOCK FALSE
