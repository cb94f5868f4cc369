\* Two agents, three messages in batches of two, and two disturbances of any kind.
SPECIFICATION Spec
CONSTANTS
    Agents = {a1, a2}
    Attendants = {a1}
    LastMessage = 3
    Imported = {2}
    Garbled = {}
    Batch = 2
    MaxBatches = 2
    MaxDisruptions = 2
INVARIANTS
    TypeOK
    ReceiptsFollowReading
PROPERTIES
    BulkStopsShort
    SeenIsTold
