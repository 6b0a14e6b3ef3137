SPECIFICATION Spec
CONSTANTS
    d1 = d1
    d2 = d2
    Files = {torrent}
    Downloaders <- MCDownloaders
    Publishers = {p1}
    Size = 2
    MaxBytes = 3
    MaxItems = 1
SYMMETRY Threads
INVARIANTS TypeOK FetchedComplete ListsAgree
PROPERTY DownloadKept
