CONSTANTS
    User = {u1, u2}
    Video = {v1, v2}
    Torrent = {t1, t2}
    NoTorrent = NoTorrent
    Tag = {g1}
    Request = {q1, q2}
SPECIFICATION MCSpec
VIEW View
SYMMETRY Symmetry
INVARIANTS TypeOK VideoHasTorrent NoOrphanTorrent LinksResolve TagsAreTheSelection
PROPERTY OnlyOwnersLink
CHECK_DEADLOCK FALSE
