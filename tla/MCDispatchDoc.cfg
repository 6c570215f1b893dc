SPECIFICATION Spec
CONSTANTS
    Wide = 8
    Narrow = 4
    Cpus <- MCCpus
    MaxPermutes = 3
INVARIANT
    FeaturesGatePaths
