SPECIFICATION MCSpec
CONSTANTS
    LeafCapacity = 2
    ChildCapacity = 4
    GroupSize = 2
    BlockCapacity = 13
    MaxBlocks = 14
    Energies <- MCEnergies
    AbsoluteGate = 1
    Rates <- MCRates
    MomentaryHops = 4
    ShortTermHops = 6
    EdgeSamples = 2
    ChunkLengths = {1, 5}
    LastFrame = 26
INVARIANTS
    GateIsTwoPass
    OnlyCapacityOverflows
    LiveWindowsExact
    ProgrammeStartsAtReset
