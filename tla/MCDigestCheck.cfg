SPECIFICATION Spec
CONSTANTS
    DigestLen = 2
    HashLen = 2
    Texts <- MCTexts
    Documents <- MCDocuments
    Digests <- MCDigests
    Slices <- MCSlices
INVARIANTS
    DecodesTheEncoding
    AsWithBranches
    TurnsByLengthOnly
    DocumentsRoundTrip
    ChecksThePublished
CHECK_DEADLOCK FALSE
