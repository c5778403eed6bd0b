\* Two tool calls, possibly overlapping, between text deltas.
SPECIFICATION FairSpec
CONSTANTS
    MaxPuts = 5
    MaxCalls = 2
CHECK_DEADLOCK FALSE
INVARIANTS WireIsFaithful DoneIsTruthful CallsAreSettled
PROPERTIES ImplementsStreamView NothingAfterClose ResponseEnds
