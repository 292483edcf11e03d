SPECIFICATION Spec
CONSTANTS
    idle = idle
    server = server
    client = client
    other = other
    p1 = p1
    p2 = p2
    Process = {idle, server, client, other}
    Idle = idle
    Null = Null
    Pipe = {a, b, c}
    Task = {t1, t2}
    Port = {p1, p2}
    Boot <- ServerFirst
    Listens <- TwoServers
    Talks <- TwoPeers
    Closers = {server}
    OneAtATime = {}
INVARIANTS
    WaiterSleeps
    OneOwner
PROPERTIES
    ForgottenOnlyByReuse
CHECK_DEADLOCK FALSE
