\* Every text of up to three lines, including every other of up to two.
CONSTANTS
    Inode <- MCInode
    FileOf <- MCFileOf
    Names <- MCNames
    Line <- MCLine
    Chars <- MCChars
    Means <- MCMeans
    Texts <- MCTexts
    MaxLoads = 2
SPECIFICATION LoaderSpec
INVARIANTS Parsed FilesHeld
CHECK_DEADLOCK FALSE
