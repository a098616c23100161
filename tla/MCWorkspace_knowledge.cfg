SPECIFICATION Spec
CONSTANTS
    Root <- MCRoot
    Uploads <- MCUploads
    Archives <- MCArchives
    FormatOf <- MCFormatOf
    Lines <- MCLines
    Globs <- MCGlobs
    BinaryNames <- MCBinaryNames
    SkippedDirs <- MCSkippedDirs
    Calls <- MCCalls
    SkillFiles <- MCSkillFiles
    Requests <- MCDeepRequest
    Normalize <- MCNormalize
    MaxExtractFiles = 2
    MaxExtractBytes = 3
    ReadDefault = 2
    ReadHardCap = 3
    ListDefault = 2
    SearchDefault = 1
    ScanFileCap = 4
    MaxCalls = 1
INVARIANTS
    TopicsAreServed
CHECK_DEADLOCK FALSE
