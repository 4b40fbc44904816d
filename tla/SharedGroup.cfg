SPECIFICATION Spec
CONSTANTS
    t1 = t1
    t2 = t2
    s1 = s1
    p1 = p1
    p2 = p2
    Threads <- MCThreads
    Shaders <- MCShaders
    Programs <- MCPrograms
    Samplers <- MCSamplers
    Layouts <- MCLayouts
    NoObject = NoObject
    MaxRefs = 3
    MaxOut = 1
    MaxGiven = 2
SYMMETRY Symmetry
INVARIANTS
    GroupTypeOK
    ShaderDataKept
    SamplersFlagged
    LocationsRoundTrip
