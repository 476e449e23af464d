SPECIFICATION ConsoleSpec
CONSTANTS
    MaxActions = 3
    MaxLogins = 3
    MaxPanels = 2
    MaxQuestions = 4
    MaxContext = 4
    MaxToolIterations = 2
    MaxCalls = 2
    DiagPods = {"p1"}
    DiagServices = {"s1"}
    DiagSpaces = {"default", "other"}
    SpaceOf <- MCSpaceOf
    PortsOf <- MCPortsOf
    TypedPorts = {80}
    Fickle = {"s1"}
    MaxTests = 1
    MaxPolls = 1
    Workloads = {"w1", "w2", "w3"}
    Impacts <- MCImpacts
    NameOf <- MCNameOf
    Selects <- MCSelects
    Reaches <- MCReaches
    MaxReach = 2
    Machines = {"m1", "m2"}
    Workers = {"w1", "w2"}
    Members <- MCMembers
    Peerings <- MCPeerings
    Rows <- MCRows
    Services = {0, 1, 3, 8}
    Orphans = {0, 1, 14}
    Widths = {401, 800, 1000, 1951}
    MaxAlerts = 2
INVARIANTS
    RunsOnce
    ActiveBarIsTimed
    LockIsFinal
    ContextIsThisConversation
    PodGoesWithItsTest
    ResultNamesItsTest
    WayBackHolds
    EdgesHaveEnds
    DiagramIsClear
    SectionsOpenFed
PROPERTY
    EveryQuestionIsAnswered
CHECK_DEADLOCK FALSE
