SPECIFICATION Spec
CONSTANTS
    f = f
    t = t
    y = y
    x = x
    eof = eof
    wv = wv
    MaxFile = 5
    Bytes <- MCBytes
    Key <- MCKey
    X = x
    EofByte = eof
    Marker = wv
    Transfers <- CleanTransfers
    MaxInFlight = 2
    MaxPad = 1
CHECK_DEADLOCK FALSE
INVARIANTS ScansAgree
PROPERTIES FaithfulCopy EveryFileArrives
