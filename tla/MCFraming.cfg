CONSTANTS
    w1 = w1
    w2 = w2
    Writers = {w1, w2}
    Links <- AllLinks
    Letters = {1, 2}
    UsernameLen = 3
    Byte = 2
    Overhead = 1
    HeaderSize = 2
    Texts = {0, 3, 4}
    Buffer = 6
    MaxFrames = 3
SPECIFICATION Spec
SYMMETRY Symmetry
INVARIANTS FramingTypeOK ResumesInStep BodiesAreOwn AcceptedBodies
PROPERTY ImplementsChannel
