---------------------------- MODULE MCHttpServer ----------------------------
(***************************************************************************)
(* Instances of HttpServer for TLC.  Clients of one kind, and descriptors, *)
(* are interchangeable: safety runs are checked up to their permutation.   *)
(***************************************************************************)
EXTENDS HttpServer, TLC

CONSTANTS s1, s2, p1, p2, r1, m1, f1, f2, f3

OneSession == {s1}
TwoSessions == {s1, s2}
OnePost == {p1}
TwoPosts == {p1, p2}
OneRpc == {r1}
OneStream == {m1}
Nobody == {}
StreamsOnly == {s1, m1}
TwoFds == {f1, f2}
ThreeFds == {f1, f2, f3}
AnyFd == [c \in Conns |-> Fds]
OwnFd == [c \in Conns |-> CASE c = s1 -> {f1} [] c = p1 -> {f2} [] OTHER -> {f3}]

Interchangeable ==
    Permutations(Sse) \cup Permutations(Post) \cup Permutations(Fds)
=============================================================================
