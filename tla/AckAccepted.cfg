SPECIFICATION Spec
CONSTANTS
    Packet <- AllPackets
    CommandSize = {20}
INVARIANT AckIsAccepted
