SPECIFICATION FairSpec
CONSTANTS
    s1 = s1
    s2 = s2
    p1 = p1
    p2 = p2
    r1 = r1
    m1 = m1
    f1 = f1
    f2 = f2
    f3 = f3
    Main = Main
    None = None
    Sse <- OneSession
    Post <- Nobody
    Rpc <- Nobody
    Stream <- OneStream
    Fds <- TwoFds
    MaxKeepalive = 1
    Stallers <- StreamsOnly
    Given <- AnyFd
    MayStop = TRUE
    MayRestart = FALSE
PROPERTIES
    ShutdownEndsGetStream
