SPECIFICATION Spec
CONSTANTS
    f = f
    t = t
    y = y
    x = x
    eof = eof
    wv = wv
    MaxFile = 2
    Bytes <- MCBytes
    Key <- MCKey
    X = x
    EofByte = eof
    Marker = wv
    Transfers <- AnyFile
    MaxInFlight = 2
    MaxPad = 1
CHECK_DEADLOCK FALSE
PROPERTIES EveryFileArrives
