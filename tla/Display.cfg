SPECIFICATION Spec
CONSTANTS
    b1 = b1
    b2 = b2
    b3 = b3
    Buffers <- MCBuffers
    NoBuffer = NoBuffer
    Rotations <- MCRotations
    MaxFrame <- MCMaxFrame
SYMMETRY Symmetry
INVARIANTS
    TypeOK
    ScreenIsLastPosted
    RotationApplied
