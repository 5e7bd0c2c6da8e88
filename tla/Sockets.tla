------------------------------ MODULE Sockets ------------------------------
(***************************************************************************)
(* The kernel's sockets as src/mcp_http.c uses them: TCP connections, the  *)
(* file descriptors they are known by, and what a peer reads from each.    *)
(*                                                                         *)
(* A connection is named for the request its client will send.  File       *)
(* descriptors are numbers the kernel hands out again once they are        *)
(* closed, so a thread that keeps one for longer than it owns it may       *)
(* write to, or shut down, the connection of another thread.  Everything   *)
(* below therefore goes through a descriptor, never through a connection.  *)
(***************************************************************************)
EXTENDS Naturals, Sequences, FiniteSets

CONSTANTS
    Sse,      \* connections that send GET /sse; each also names its session
    Post,     \* connections that send POST /message?sessionId=...
    Rpc,      \* connections that send POST /mcp
    Stream,   \* connections that send GET /mcp
    Fds,      \* the file descriptors a connection can be given
    Main,     \* the thread that runs mcp_server_run_http
    None

Conns == Sse \cup Post \cup Rpc \cup Stream

ASSUME ConnsDisjoint ==
    /\ Sse \cap Post = {} /\ Sse \cap Rpc = {} /\ Sse \cap Stream = {}
    /\ Post \cap Rpc = {} /\ Post \cap Stream = {} /\ Rpc \cap Stream = {}
ASSUME FiniteClients == IsFiniteSet(Sse) /\ IsFiniteSet(Post)
ASSUME SpecialValues == /\ Main \notin Conns /\ None \notin Conns \cup Fds
                        /\ Main # None

(* What write_full is given: one piece of output, with the connection it   *)
(* is meant for and the connection whose thread writes it.  An SSE event   *)
(* takes several writes; two parts are enough to see one torn.  A complete *)
(* HTTP response, whatever its status, is a "reply".                       *)
Kinds == {"reply", "headers", "open", "keepalive", "endpoint", "message"}
Piece == [to: Conns, by: Conns, kind: Kinds, part: 0..2]

VARIABLES
    owner,    \* the connection a descriptor refers to, None when it is free
    fd,       \* the descriptor a connection was accepted as; the number is
              \* remembered (conn_arg_t.fd, sse_session.fd) after its close
    link,     \* the state of a connection:
              \*   "up"          open both ways
              \*   "stalled"     the peer does not read; a send blocks
              \*   "peerclosed"  the peer is gone, sends may still succeed
              \*   "down"        shut down, reset or closed; sends fail
    wire,     \* the pieces a connection carried that were meant for it, in
              \* the order sent
    strayed   \* the pieces that went out on another connection, with it

sockVars == <<owner, fd, link, wire, strayed>>

SocketsTypeOK ==
    /\ owner \in [Fds -> Conns \cup {None}]
    /\ fd \in [Conns -> Fds \cup {None}]
    /\ link \in [Conns -> {"up", "stalled", "peerclosed", "down"}]
    /\ wire \in [Conns -> Seq(Piece)]
    /\ strayed \in SUBSET (Conns \X Piece)

SocketsInit ==
    /\ owner = [f \in Fds |-> None]
    /\ fd = [c \in Conns |-> None]
    /\ link = [c \in Conns |-> "down"]
    /\ wire = [c \in Conns |-> <<>>]
    /\ strayed = {}

----------------------------------------------------------------------------
(* System calls.                                                           *)

accept(c, f) ==
    /\ owner[f] = None
    /\ owner' = [owner EXCEPT ![f] = c]
    /\ fd' = [fd EXCEPT ![c] = f]
    /\ link' = [link EXCEPT ![c] = "up"]
    /\ UNCHANGED <<wire, strayed>>

(* A send through a descriptor succeeds on an open connection, blocks on a *)
(* stalled one, may do either after the peer left, and fails on one that   *)
(* is shut down or on a descriptor that is closed.                         *)
MaySend(f) == owner[f] # None /\ link[owner[f]] \in {"up", "peerclosed"}
MayFail(f) == owner[f] # None => link[owner[f]] \in {"peerclosed", "down"}

(* write_full's loop over partial sends and EINTR is one step: it returns  *)
(* when everything is sent or when a send fails.  A failed send leaves the *)
(* connection reset.                                                       *)
write_full(f, piece, ok) ==
    /\ IF ok THEN MaySend(f) ELSE MayFail(f)
    /\ wire' = IF ok /\ owner[f] = piece.to
               THEN [wire EXCEPT ![piece.to] = Append(@, piece)]
               ELSE wire
    /\ strayed' = IF ok /\ owner[f] # piece.to
                  THEN strayed \cup {<<owner[f], piece>>}
                  ELSE strayed
    /\ link' = IF ok \/ owner[f] = None
               THEN link
               ELSE [link EXCEPT ![owner[f]] = "down"]
    /\ UNCHANGED <<owner, fd>>

(* recv returns 0 or an error other than a timeout once the connection is  *)
(* no longer open.                                                         *)
RecvEnds(f) == owner[f] # None => link[owner[f]] \in {"peerclosed", "down"}

shutdown(f) ==
    /\ link' = IF owner[f] = None THEN link
                                  ELSE [link EXCEPT ![owner[f]] = "down"]
    /\ UNCHANGED <<owner, fd, wire, strayed>>

(* shutdown then close, the last calls of conn_thread.                     *)
close(f) ==
    /\ owner' = [owner EXCEPT ![f] = None]
    /\ link' = IF owner[f] = None THEN link
                                  ELSE [link EXCEPT ![owner[f]] = "down"]
    /\ UNCHANGED <<fd, wire, strayed>>

----------------------------------------------------------------------------
(* What the peer of a connection does.                                     *)

peer_closes(c) ==
    /\ link[c] \in {"up", "stalled"}
    /\ link' = [link EXCEPT ![c] = "peerclosed"]
    /\ UNCHANGED <<owner, fd, wire, strayed>>

peer_stalls(c) ==
    /\ link[c] = "up"
    /\ link' = [link EXCEPT ![c] = "stalled"]
    /\ UNCHANGED <<owner, fd, wire, strayed>>

peer_drains(c) ==
    /\ link[c] = "stalled"
    /\ link' = [link EXCEPT ![c] = "up"]
    /\ UNCHANGED <<owner, fd, wire, strayed>>
============================================================================
