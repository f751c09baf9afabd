\* Two servents, a small and a large file, three downloads, one death.
SPECIFICATION Spec
CONSTANTS
    Node = {m, n}
    File = {small, large}
    Large = {large}
    Linked = {m, n}
    MaxDownload = 3
    MaxGone = 1
SYMMETRY Symmetry
INVARIANTS TypeOK NoDownloadIsLost  FoundMeansWhole
PROPERTIES StuckIsForGood IsADownloadService
CHECK_DEADLOCK FALSE
