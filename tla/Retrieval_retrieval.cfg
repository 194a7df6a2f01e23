SPECIFICATION Spec
CONSTANTS
    Ids = {1, 2, 3}
    ClientSets = {{"milvus", "embedding", "es"}, {"milvus", "embedding", "es", "kg_store", "kg_extractor"},
                  {"milvus", "kg_store", "kg_extractor"}, {"embedding", "kg_extractor"}}
    Query = "q"
    Rewritings = {"r"}
    NumQueries = 2
    K = 60
    TopK = 2
    MaxAnswer = 2
    MaxCalls = 4
    Grades = {3, 7}
    Alphabet = {"a", "n", "s", "p", "f"}
    MaxText = 4
    ChunkSize = 2
    Overlaps = {0, 1}
CHECK_DEADLOCK FALSE
INVARIANTS SplitKeepsText FusionRespectsDominance NothingFoundIsLost
