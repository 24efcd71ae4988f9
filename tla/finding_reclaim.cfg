CONSTANTS
    NPorts = 2
    Hub = Hub
    Daemon = Daemon
    Proc = {Hub, Daemon}
    Preview = {a, b}
    Client = {d}
    Owner = {a, b, d}
    Nobody = Nobody
    Stranger = Stranger
    a = a
    b = b
    d = d
    Settings <- MCSettings
SPECIFICATION Spec
CHECK_DEADLOCK FALSE
INVARIANT FreshIsNotRemoved
