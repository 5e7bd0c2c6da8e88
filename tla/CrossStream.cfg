SPECIFICATION Spec
CONSTANTS
    s1 = s1
    s2 = s2
    p1 = p1
    p2 = p2
    r1 = r1
    m1 = m1
    f1 = f1
    f2 = f2
    f3 = f3
    Main = Main
    None = None
    Sse <- OneSession
    Post <- OnePost
    Rpc <- OneRpc
    Stream <- Nobody
    Fds <- TwoFds
    MaxKeepalive = 0
    Stallers <- Nobody
    Given <- AnyFd
    MayStop = TRUE
    MayRestart = FALSE
SYMMETRY Interchangeable
INVARIANTS
    StreamIsolation
