CONSTANTS
    Socks = {4, 5}
    MaxClients = 2
    MaxConnects = 2
    MaxTyped = 2
    MayStall = {}
    MaxJoins = 2
SPECIFICATION Spec
PROPERTY StoresIntoEmpty
CHECK_DEADLOCK FALSE
