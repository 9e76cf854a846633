\* Two bytes each way, one byte of kernel buffer, peers that keep reading.
SPECIFICATION ReadingSpec
CONSTANTS
    MaxBytes = 2
    Room = 1
INVARIANTS TypeOK FinMeansAll Conserved NoTruncation WaitsAreTimed
PROPERTIES SetUpEnds TornDown KeepsStreams
