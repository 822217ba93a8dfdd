SPECIFICATION Spec
CONSTANTS
    None = none
    Procs = {p1, p2}
    Ports = {8080, 8081}
    BrowserHosts <- MCBrowserHosts
    Args <- MCArgs
    Versions <- MCVersions
    ToolHosts <- MCToolHosts
    MaxPages = 2
INVARIANTS
    TypeOK
    TokenIsNeeded
    HostsAreLoopback
    SocketsAreOwn
    PagesWork
CHECK_DEADLOCK FALSE
