CONSTANTS
    Actor = {a1}
    Torrent = {t1}
    NoTorrent = NoTorrent
    Request = {q1, q2}
    MaxUploads = 4
SPECIFICATION MCSpec
VIEW View
SYMMETRY Requests
INVARIANTS TypeOK ProfileExists NothingLeftBehind
PROPERTY AdminImageKept
CHECK_DEADLOCK FALSE
