SPECIFICATION Spec
CONSTANTS
    Connections = {c1, c2}
    Workers = {w1, w2}
    Sizes = {0, 2}
    Block = 2
    MaxCount = 5
    MaxRequests = 2
    Urls = {"", "operator"}
    OwnUrl = "public"
INVARIANTS PluginTypeOK ActiveExact LedgerBalanced LinePerRequest NothingLeftRunning UrlHonest OperatorsUrlKept
PROPERTIES GameGoesOn
CHECK_DEADLOCK FALSE
