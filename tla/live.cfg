SPECIFICATION FairSpec
CONSTANT Parts = {"lookup", "station", "socket", "server", "frames", "broadcast", "client"}
PROPERTIES
    WorkEnds
