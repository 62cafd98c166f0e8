CONSTANTS
    App = App
    Sender = {s1}
    Urls = {"wss", "ws", "malformed", "other"}
    Period = 2
    MaxConnects = 3

SPECIFICATION FairSpec
INVARIANTS OkMeansOpened ThreadsJoined SendersInTurn
PROPERTIES ThreadsGoOn
CHECK_DEADLOCK FALSE
