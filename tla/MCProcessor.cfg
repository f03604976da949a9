CONSTANTS
    Lines = {0, 1, 7}
    Exceptions = {0}
    IntVectors = {14, 48, 49}
    CallNumbers = {0, 4, 5, 9, 10, 11}
    Buffers = {"low"}
    Lengths = {0, 255}

SPECIFICATION Spec
INVARIANTS TypeOK NoFault KernelKept TlbCoherent RegistersKept StackBounded DriverNotReentered
PROPERTY Returns
