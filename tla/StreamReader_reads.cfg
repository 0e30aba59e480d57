SPECIFICATION FairReaderSpec
CONSTANTS
    Total = 7
    ChunkSize = 2
    PrefetchSize = 2
    ReadLens = {1, 2, 4}
INVARIANTS DeliveredInOrder EOFIsTheEnd
PROPERTIES ReadCallsReturn
