CONSTANTS
    Processes = {window, other, console}
    Consoles = {console}
    Nobody = Nobody
    Backlog = 1
    Unlucky = {console}
SPECIFICATION ClientsFairSpec
INVARIANTS
    ClientsTypeOK
    OneTunnelAtATime
    TunnelUnderLock
    HandlerFindsSession
PROPERTIES
    SignalEndsConsole
    AskIsAnswered
