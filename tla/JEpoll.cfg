CONSTANTS
    p1 = p1  p2 = p2
    Peers = {p1, p2}
    MaxData = 2
    Collector = Collector
    Main = Main
    None = None
    DeletesAnyTime = FALSE
SPECIFICATION EpSpec
INVARIANTS EachStoryWhole TablesAgree
PROPERTIES ClosesOnlyClosed ClosedGetClosed
CHECK_DEADLOCK FALSE
