CONSTANTS
    p1 = p1  p2 = p2
    Peers = {p1, p2}
    MaxData = 2
    Collector = Collector
    Main = Main
    None = None
    DeletesAnyTime = TRUE
SPECIFICATION EpSpec
PROPERTIES ClosesOnlyClosed
CHECK_DEADLOCK FALSE
