CONSTANTS
    QbSize = 6
    InfoCap = 4
    PlayBufSize = 4
    Prompts = {p}
    ChunkSize = 2
    TalkSizes <- MCTalkSizes
    MaxPackets = 5
SPECIFICATION FairSpec
INVARIANTS
    TypeOK
    OnlyRefusalRaces
    TalkIsAlone
PROPERTIES
    Implements
    SoundEnds
