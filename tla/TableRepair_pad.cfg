SPECIFICATION TableSpec
CONSTANTS
 ChartTableMaxHeaderCells = 4
 HeadingSplitMaxGapLines = 3
 MdMalformedMinLines = 3
 MdRaggedMinRows = 3
 MdRaggedMinDataRows = 4
 MdHeaderlessMinBlocks = 2
 MaxWrites = 4
INVARIANT OnlyTableLinesPadded
CHECK_DEADLOCK FALSE
