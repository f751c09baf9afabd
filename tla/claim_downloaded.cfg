\* A file that is said to be downloaded is there, although its sender died.
SPECIFICATION Spec
CONSTANTS
    Node = {m, n}
    File = {large}
    Large = {large}
    Linked = {m, n}
    MaxDownload = 1
    MaxGone = 1
INVARIANT AnnouncedFilesAreThere
CHECK_DEADLOCK FALSE
