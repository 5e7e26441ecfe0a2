SPECIFICATION Spec
CONSTANTS
    w1 = w1  w2 = w2  t1 = t1  t2 = t2  p1 = p1  p2 = p2  p3 = p3
    Workers = {w1, w2}
    Torrents = {t1, t2}
    Peers = {p1, p2, p3}
    Hash <- SmallHash
    Wants = {0, 1, 2}
    TorrentRoom = 3
    PeerRoom = 6
INVARIANTS RecordsOwnedOnce CompletedIsNoLeecher OnlyFullZoneKills
PROPERTY AnswerComplete
SYMMETRY Symmetry
