SPECIFICATION FairSpec
CONSTANTS
    Packet <- AllPackets
    CommandSize = {0, 20, 248, 249, 300}
INVARIANTS
    DecodingInv RecordsContiguous RecordsInPacket RecordsExact
    FieldsDisjoint SerialEchoed IdentityKept DownlinkWhole
PROPERTY DecodeEnds
