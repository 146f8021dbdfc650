SPECIFICATION FairSpec
CONSTANTS
    root = root  dir = dir  x = x  y = y  z = z  tar = tar  cut = cut
    FS_DEVICE <- MCDevice
    MountPoint <- MCMountPoint
    Path <- MCPath
    Program <- MCProgram
    Amount <- MCAmount
    archive <- MCArchive
    at <- MCAt
    disksize <- MCDisksize
    elf <- MCElf
    BLOCK = 3
    Wrap = 64
    PathSize = 3
    MaxEntries = 2
    W = 64
    PAGE = 4
    WORD = 2
    Byte <- MCByte
    Stale <- MCStale
    word <- MCWord
    NoBuffer = NoBuffer
    Unset = Unset
INVARIANTS
    FilesTypeOK CursorAtHeader LookupRight
    ImageRight FaultsExplained
PROPERTIES
    MountsStable LoadEnds
CHECK_DEADLOCK FALSE
