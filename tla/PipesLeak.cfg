SPECIFICATION Spec
CONSTANTS
    idle = idle
    server = server
    client = client
    other = other
    p1 = p1
    p2 = p2
    Process = {idle, server, client, other}
    Idle = idle
    Null = Null
    Pipe = {a, b, c}
    Task = {t1, t2, t3}
    Port = {p1}
    Boot <- ServerFirst
    Listens <- OneServer
    Talks <- AllClients
    Closers = {}
    OneAtATime = {server}
INVARIANTS
    TasksReturned
CHECK_DEADLOCK FALSE
