CONSTANTS
    PeerCount = 2
    PieceCount = 4
    MaxHolders = 2
    PeerCap = 2
    TailCap = 1
    EndgameSize = 2
    Case <- AllCases
    MaxReplies = 2
SPECIFICATION FairSpec
INVARIANTS NothingForgotten WorkMoves CancelsMatch OneFetchEach
PROPERTIES OnlyOriginFailsIt TransferEnds
CHECK_DEADLOCK FALSE
