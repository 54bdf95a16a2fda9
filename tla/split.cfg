CONSTANTS
    sized = sized
    unsized = unsized
    bare = bare
    Cmd = {sized, unsized, bare}
    NullCmd = {bare}
    Unsized = {unsized}
    Sizes = {2, 3}
    Splits = {1}
    MinSplit = 2
    Nothing = Nothing
    Unset = Unset
    HeaderSize = 1
    SubheaderSize = 1
    PacketSize = 3
    Shorts = 8
    Period = 4
    MinDelay = 2
    MaxWait = 3
    MaxHold = 2
    MaxCalls = 3
    MaxLosses = 1
SPECIFICATION FairSpec
PROPERTIES
    MessagesAreSpaced
    CommandsArriveWhole
    RepliesArriveWhole
