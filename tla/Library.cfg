\* Pairs of items of every kind and single integers, in memory that is large
\* enough or not; three bytes of content in all chunkings, three packets; AMF,
\* bmf and struct values cut anywhere; six writes of nested elements, texts of
\* four characters; requests and responses cut into all reads.  Then:
\* two objects with three userdata and three listener functions; three option
\* settings; numbers of three two-bit bytes, meters of three units over five
\* seconds; five calls on a container; five calls on files of four bytes; five calls
\* on the tables by name.
CONSTANTS
    Messages <- MCMessages
    Capacities = {5, 16}
    Offsets <- MCOffsets
    MaxContent = 3
    MaxPackets = 3
    MaxMessage = 2
    Radix = 4
    LengthMax = 4
    MaxCounted = 2
    MaxFormat = 3
    MaxWrites = 6
    MaxDepth = 3
    Characters = {97, 37, 38, 43, 60, 255}
    MaxText = 4
    MaxBufferSize = 24
    MaxSize = 4
    MaxPath = 5
    MaxObjects = 2
    MaxUserdata = 3
    MaxFunctions = 3
    MaxEvents = 2
    MaxCalls = 1
    Magnitude = 4
    Width = 64
    MaxSets = 3
    Bits = 2
    ByteCount = 3
    Units = 3
    MaxTime = 11
    MaxAdds = 2
    Sizes = {1, 3}
    MaxContainerCalls = 5
    MaxBuffer = 3
    FirstHandles = 2
    MaxHandle = 4
    MaxFile = 4
    Quota = 3
    LinePiece = 2
    BlockSize = 2
    MaxFileCalls = 5
    MaxObjectCalls = 5
SPECIFICATION LibrarySpec
INVARIANTS  DecodedHoweverCut ScriptsSeeObjects ValuesKept FilesKept
CHECK_DEADLOCK FALSE
