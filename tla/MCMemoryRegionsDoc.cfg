SPECIFICATION ExampleSpec
CONSTANTS
    Rate = 4
    Word = 2
    BufferLen = 6
    LaneCount = 3
    DigestLanes = 2
    Permute <- MCPermute
    Data <- MCData
    Memory <- MCMemory
    Regions <- MCRegions
    RegionLists <- MCRegionLists
    MaxHashSize = 7
    MaxAbsorbed = 11
PROPERTY
    OneDigestPerReadable
