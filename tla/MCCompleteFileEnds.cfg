CONSTANTS
    Payloads <- MCPayloads
    NoPayload = NoPayload
    Resolvers = 2
    DhtEnabled = TRUE
    Target = 2
    AnchorRange = 1
    EdgeRange = 3
    RetryRanges <- MCRetryRanges
    MinCandidates = 2
    MaxCandidates = 2
    ExtractPerAnchor = 2
    Bootstrap = 1
SPECIFICATION Spec
PROPERTY CompleteFileEnds
CHECK_DEADLOCK FALSE
