SPECIFICATION Spec
CONSTANTS
    Console = Console
    Center = Center
    Mcp = Mcp
    C1 = C1
    C2 = C2
    Clients = {Console, Center, Mcp}
    McpClient = Mcp
    Managed = {Console, Mcp}
    Codes = {C1, C2}
    CodeClient <- MCCodeClient
    Families = {F1, F2}
    Procs = {P1, P2}
    MaxTokens = 3
    MaxSweeps = 2
    MaxFaults = 1
SYMMETRY Symmetric
INVARIANTS
    TypeOK
    CodeOnce
    OneLiveRefresh
    EndedStaysDead
    IndexedWhileLive
    DisableCutsForGood
CHECK_DEADLOCK FALSE
