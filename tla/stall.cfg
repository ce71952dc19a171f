CONSTANTS
    PeerCount = 3
    PieceCount = 4
    MaxHolders = 3
    PeerCap = 2
    TailCap = 1
    EndgameSize = 2
    Case <- PeersAlone
    MaxReplies = 1
SPECIFICATION Spec
INVARIANTS PendingMoves
CHECK_DEADLOCK FALSE
