SPECIFICATION Spec
CONSTANTS
    Programs <- MCPrograms
    Checksum <- MCChecksum
INVARIANTS
    TypeOK
    Base58RoundTrip
    Bech32RoundTrip
    ChecksumVerifies
CHECK_DEADLOCK FALSE
