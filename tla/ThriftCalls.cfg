SPECIFICATION MCSpec
CONSTANTS
    Clients = {"c"}
    Methods = {"ProxyGet", "ProxyPut", "ProxyGetColumn", "EqualSearch1",
               "EqualSearch2", "OrderSearch", "RunCommand",
               "EqualSearch1PlainText", "EqualSearch2PlainText",
               "OrderSearchPlainText"}
    b1 = b1
    b2 = b2
    n1 = n1
    n2 = n2
    l1 = l1
    l2 = l2
    Blobs <- MCBlobs
    Lists <- MCLists
    Nums <- MCNums
    Failure = Failure
    Void = Void
    Nil = Nil
    MaxCalls = 3
CHECK_DEADLOCK FALSE
INVARIANTS TypeOK InStep ReturnsOwnAnswer RunsAtMostOnce ThrowsForAReason
PROPERTIES ImplementsRemoteCall CallsEnd
