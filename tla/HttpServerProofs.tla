-------------------------- MODULE HttpServerProofs --------------------------
(***************************************************************************)
(* Theorems about HttpServer for every set of clients and descriptors,     *)
(* every bound on keepalives, and every choice of the clients that stall.  *)
(*                                                                         *)
(* The safety properties follow from IInv, which is proved inductive one   *)
(* conjunct at a time, each by cases on the actions of Next.               *)
(***************************************************************************)
EXTENDS HttpServer, TLAPS, FiniteSetTheorems

----------------------------------------------------------------------------
(* Sockets: what each system call does to the connections.                 *)

(* A link that is down stays down.                                         *)
DownStays == \A c \in Conns : link[c] = "down" => link'[c] = "down"

(* A step that neither opens nor closes a descriptor.                      *)
Quiet == SocketsTypeOK' /\ UNCHANGED <<owner, fd>> /\ DownStays

(* A step that leaves the sockets alone is quiet.                          *)
LEMMA SameSockets == SocketsTypeOK /\ UNCHANGED sockVars => Quiet
BY DEF SocketsTypeOK, sockVars, Quiet, DownStays

(* A send changes no owner and no descriptor.                              *)
LEMMA WriteFull ==
    ASSUME SocketsTypeOK, NEW f \in Fds, NEW x \in Piece, NEW ok \in BOOLEAN,
           write_full(f, x, ok)
    PROVE  Quiet
<1> USE DEF Quiet, DownStays
<1>1. CASE ok
  <2>1. owner[f] \in Conns
    BY <1>1 DEF write_full, MaySend, SocketsTypeOK
  <2>2. wire' \in [Conns -> Seq(Piece)]
    <3>1. wire' = wire
          \/ \E c \in Conns : wire' = [wire EXCEPT ![c] = Append(@, x)]
      BY <1>1, <2>1 DEF write_full
    <3>2. \A c \in Conns : Append(wire[c], x) \in Seq(Piece)
      BY DEF SocketsTypeOK
    <3>. QED BY <3>1, <3>2 DEF SocketsTypeOK
  <2>3. strayed' \in SUBSET (Conns \X Piece)
    BY <1>1, <2>1 DEF write_full, SocketsTypeOK
  <2>. QED
    BY <1>1, <2>2, <2>3 DEF write_full, SocketsTypeOK, DownStays
<1>2. CASE ~ok
  BY <1>2 DEF write_full, SocketsTypeOK, DownStays
<1>. QED BY <1>1, <1>2

(* shutdown takes a connection down.                                       *)
LEMMA Shutdown ==
    ASSUME SocketsTypeOK, NEW f \in Fds, shutdown(f)
    PROVE  /\ Quiet
           /\ owner[f] # None => link'[owner[f]] = "down"
BY DEF Quiet, SocketsTypeOK, shutdown, DownStays

(* close gives one descriptor back.                                        *)
LEMMA Close ==
    ASSUME SocketsTypeOK, NEW f \in Fds, close(f)
    PROVE  /\ SocketsTypeOK'
           /\ owner' = [owner EXCEPT ![f] = None]
           /\ UNCHANGED fd
           /\ DownStays
BY DEF SocketsTypeOK, close, DownStays

(* accept takes a free one.                                                *)
LEMMA Accept ==
    ASSUME SocketsTypeOK, NEW c \in Conns, NEW f \in Fds, accept(c, f)
    PROVE  /\ SocketsTypeOK'
           /\ owner[f] = None
           /\ owner' = [owner EXCEPT ![f] = c]
           /\ fd' = [fd EXCEPT ![c] = f]
           /\ \A d \in Conns \ {c} : link'[d] = link[d]
BY DEF SocketsTypeOK, accept

(* What is sent is a piece.                                                *)
LEMMA PieceType ==
    ASSUME NEW to \in Conns, NEW by \in Conns, NEW kind \in Kinds,
           NEW part \in 0..2
    PROVE  piece(to, by, kind, part) \in Piece
BY DEF piece, Piece

(* A client only changes the state of its link.                            *)
LEMMA PeerQuiet ==
    ASSUME SocketsTypeOK, NEW c \in Conns,
           peer_closes(c) \/ peer_stalls(c) \/ peer_drains(c)
    PROVE  Quiet
BY DEF SocketsTypeOK, Quiet, DownStays, peer_closes, peer_stalls, peer_drains


(* The steps there are, each of the main thread, a thread or a client.      *)
Steps ==
    \/ on_signal \/ main_setup \/ main_check \/ main_accept_error
             \/ run_again \/ mcp_server_destroy \/ walk_lock \/ walk_unlock
    \/ \E c \in Conns :
               main_accept(c) \/ main_drop(c) \/ read_request(c)
               \/ read_refused(c) \/ read_nothing(c) \/ send_error(c)
               \/ conn_close(c) \/ client(c)
    \/ \E s \in Sse :
               walk_session(s) \/ sse_create(s) \/ sse_hello(s)
               \/ sse_endpoint1(s) \/ sse_endpoint2(s) \/ sse_loop(s)
               \/ sse_recv_end(s) \/ sse_keepalive(s) \/ sse_ping(s)
               \/ sse_mark_closed(s) \/ sse_unlink(s) \/ sse_release(s)
    \/ \E c \in Streams : recv_ignored(c) \/ recv_timeout(c)
    \/ \E c \in Post \cup Rpc :
               parse_ok(c) \/ parse_error(c) \/ dispatch_lock(c)
               \/ dispatch_unlock(c)
    \/ \E p \in Post :
               post_find(p) \/ post_ref(p) \/ post_ack(p) \/ post_push(p)
               \/ post_message1(p) \/ post_message2(p) \/ post_release(p)
    \/ \E r \in Rpc : rpc_respond(r) \/ rpc_event(r)
    \/ \E m \in Stream :
               stream_headers(m) \/ stream_open(m) \/ stream_keepalive(m)
               \/ stream_loop(m) \/ stream_recv_end(m)
    \/ UNCHANGED vars

LEMMA StepIs == [Next]_vars => Steps
BY DEF Steps, Next, MainExit, MainAccept, ThreadStep, ClientStep, TimeoutStep,
       SseStep, CoreStep, PostStep, RpcStep, StreamStep, read_eof, Terminated,
       Conns, Streams

----------------------------------------------------------------------------
(* Types: the program counters.                                            *)
LEMMA PcTypes == IInv /\ [Next]_vars => PcsTypeOK'
<1> SUFFICES ASSUME IInv, [Next]_vars PROVE PcsTypeOK'
  OBVIOUS
<1> USE ConnsDisjoint
   DEF IInv, TypeOK, PcsTypeOK, goto, Conns, Streams, SsePcs, PostPcs, RpcPcs,
       StreamPcs, AnyPcs, SseServing, PostHolding, Ended
<1>1. CASE on_signal \/ main_setup \/ main_check \/ main_accept_error
             \/ run_again \/ mcp_server_destroy \/ walk_lock \/ walk_unlock
  BY <1>1
     DEF on_signal, main_setup, main_check, main_accept_error, run_again,
         mcp_server_destroy,
         walk_lock, walk_unlock
<1>2. ASSUME NEW c \in Conns,
               main_accept(c) \/ main_drop(c) \/ read_request(c)
               \/ read_refused(c) \/ read_nothing(c) \/ send_error(c)
               \/ conn_close(c) \/ client(c)
        PROVE  PcsTypeOK'
  BY <1>2
     DEF main_accept, main_drop, read_request, FirstStep, read_refused,
         read_nothing, send_error, conn_close, client
<1>3. ASSUME NEW s \in Sse,
               walk_session(s) \/ sse_create(s) \/ sse_hello(s)
               \/ sse_endpoint1(s) \/ sse_endpoint2(s) \/ sse_loop(s)
               \/ sse_recv_end(s) \/ sse_keepalive(s) \/ sse_ping(s)
               \/ sse_mark_closed(s) \/ sse_unlink(s) \/ sse_release(s)
        PROVE  PcsTypeOK'
  BY <1>3
     DEF walk_session, sse_create, sse_hello, sse_endpoint1, sse_endpoint2,
         sse_loop, sse_recv_end, sse_keepalive, sse_ping, sse_mark_closed,
         sse_unlink, sse_release
<1>4. ASSUME NEW c \in Streams,
               recv_ignored(c) \/ recv_timeout(c)
        PROVE  PcsTypeOK'
  BY <1>4 DEF recv_ignored, recv_timeout
<1>5. ASSUME NEW c \in Post \cup Rpc,
               parse_ok(c) \/ parse_error(c) \/ dispatch_lock(c)
               \/ dispatch_unlock(c)
        PROVE  PcsTypeOK'
  BY <1>5 DEF parse_ok, parse_error, dispatch_lock, dispatch_unlock
<1>6. ASSUME NEW p \in Post,
               post_find(p) \/ post_ref(p) \/ post_ack(p) \/ post_push(p)
               \/ post_message1(p) \/ post_message2(p) \/ post_release(p)
        PROVE  PcsTypeOK'
  BY <1>6
     DEF post_find, post_ref, post_ack, post_push, post_message1,
         post_message2, post_release
<1>7. ASSUME NEW r \in Rpc,
               rpc_respond(r) \/ rpc_event(r)
        PROVE  PcsTypeOK'
  BY <1>7 DEF rpc_respond, rpc_event
<1>8. ASSUME NEW m \in Stream,
               stream_headers(m) \/ stream_open(m) \/ stream_keepalive(m)
               \/ stream_loop(m) \/ stream_recv_end(m)
        PROVE  PcsTypeOK'
  BY <1>8
     DEF stream_headers, stream_send, stream_open, stream_keepalive,
         stream_loop, stream_recv_end
<1>9. CASE UNCHANGED vars
  BY <1>9 DEF vars
<1>. QED
  BY <1>1, <1>2, <1>3, <1>4, <1>5, <1>6, <1>7, <1>8, <1>9, StepIs, Zenon
     DEF Steps


----------------------------------------------------------------------------
(* Sockets and descriptors.                                                *)

(* Descriptors in use are descriptors.                                     *)
LEMMA OpenFd == IInv => \A c \in Conns : pc[c] # "idle" => fd[c] \in Fds
BY DEF IInv, FdsOwned

(* The session a POST pushes to has a descriptor.                          *)
LEMMA TargetFd ==
    IInv => \A p \in Post : pc[p] \in PostHolding =>
                /\ target[p] \in Conns
                /\ fd[target[p]] \in Fds
<1> SUFFICES ASSUME IInv, NEW p \in Post, pc[p] \in PostHolding
             PROVE  target[p] \in Conns /\ fd[target[p]] \in Fds
  OBVIOUS
<1>1. target[p] \in Sse
  BY DEF IInv, SessionsMatch
<1>2. pc[target[p]] # "idle"
  BY DEF IInv, SessionsMatch, SseServing, Opened
<1>. QED BY <1>1, <1>2, OpenFd DEF Conns

(* A connection that was accepted and is down is down for good.            *)
Falls == \A c \in Conns : pc[c] # "idle" /\ link[c] = "down" => link'[c] = "down"

(* What every step keeps of the sockets.                                   *)
SocketsKept == SocketsTypeOK' /\ FdsOwned' /\ Falls

(* One system call at most, and it keeps every open thread its descriptor. *)
LEMMA SocketsStep == IInv /\ [Next]_vars => SocketsKept
<1> SUFFICES ASSUME IInv, [Next]_vars PROVE SocketsKept
  OBVIOUS
<1> USE DEF IInv, TypeOK, Kinds, Conns, Streams, PostHolding
<1>1. CASE on_signal \/ main_setup \/ main_check \/ main_accept_error
             \/ run_again \/ mcp_server_destroy \/ walk_lock \/ walk_unlock
  BY SameSockets, <1>1
     DEF on_signal, SocketsKept, FdsOwned, Falls, Quiet, DownStays, goto,
         PcsTypeOK, Ended, main_setup, run_again, main_check, main_accept_error,
         mcp_server_destroy,
         walk_lock, walk_unlock
<1>2. ASSUME NEW c \in Conns, main_accept(c) PROVE SocketsKept
  <2>1. PICK f \in Given[c] : accept(c, f)
    BY <1>2 DEF main_accept
  <2>2. f \in Fds
    BY Bounds
  <2>3. /\ SocketsTypeOK' /\ owner[f] = None
        /\ owner' = [owner EXCEPT ![f] = c] /\ fd' = [fd EXCEPT ![c] = f]
        /\ \A d \in Conns \ {c} : link'[d] = link[d]
    BY <2>1, <2>2, Accept
  <2>4. pc[c] = "idle" /\ pc' = [pc EXCEPT ![c] = "read"]
    BY <1>2 DEF main_accept, goto
  <2>5. FdsOwned'
    BY <2>2, <2>3, <2>4, SpecialValues
       DEF FdsOwned, PcsTypeOK, SocketsTypeOK, Ended
  <2>. QED
    BY <2>3, <2>4, <2>5 DEF SocketsKept, Falls
<1>3. ASSUME NEW c \in Conns, main_drop(c) PROVE SocketsKept
  BY <1>3, Bounds
     DEF main_drop, SocketsTypeOK, SocketsKept, FdsOwned, Falls, goto,
         PcsTypeOK, Ended
<1>4. ASSUME NEW c \in Conns,
               read_request(c) \/ read_refused(c) \/ read_nothing(c)
        PROVE  SocketsKept
  BY SameSockets, <1>4
     DEF read_request, FirstStep, SocketsKept, FdsOwned, Falls, Quiet,
         DownStays, goto, PcsTypeOK, Ended, read_refused, read_nothing
<1>5. ASSUME NEW c \in Conns, send_error(c) PROVE SocketsKept
  BY WriteFull, PieceType, OpenFd, <1>5
     DEF send_error, SocketsKept, FdsOwned, Falls, Quiet, DownStays, goto,
         PcsTypeOK, Ended
<1>6. ASSUME NEW c \in Conns, conn_close(c) PROVE SocketsKept
  <2>1. fd[c] \in Fds /\ owner[fd[c]] = c
    BY <1>6 DEF conn_close, FdsOwned, Ended
  <2>. QED
    BY <1>6, <2>1, Close
       DEF conn_close, SocketsKept, FdsOwned, Falls, DownStays, goto,
           PcsTypeOK, Ended, SocketsTypeOK
<1>7. ASSUME NEW c \in Conns, client(c) PROVE SocketsKept
  BY PeerQuiet, <1>7
     DEF client, SocketsKept, FdsOwned, Falls, Quiet, DownStays, goto,
         PcsTypeOK, Ended
<1>8. ASSUME NEW s \in Sse, walk_session(s) PROVE SocketsKept
  <2>1. pc[s] # "idle"
    BY <1>8 DEF walk_session, TableMatches, InTable, SseServing
  <2>. QED
    BY <1>8, <2>1, Shutdown, OpenFd
       DEF walk_session, SocketsKept, FdsOwned, Falls, Quiet, DownStays
<1>9. ASSUME NEW s \in Sse,
               sse_create(s) \/ sse_loop(s) \/ sse_recv_end(s)
               \/ sse_keepalive(s) \/ sse_mark_closed(s) \/ sse_unlink(s)
               \/ sse_release(s)
        PROVE  SocketsKept
  BY SameSockets, <1>9
     DEF sse_create, SocketsKept, FdsOwned, Falls, Quiet, DownStays, goto,
         PcsTypeOK, Ended, sse_loop, sse_recv_end, sse_keepalive,
         sse_mark_closed, sse_unlink, sse_release
<1>10. ASSUME NEW s \in Sse,
               sse_hello(s) \/ sse_endpoint1(s) \/ sse_endpoint2(s)
               \/ sse_ping(s)
        PROVE  SocketsKept
  BY WriteFull, PieceType, OpenFd, <1>10
     DEF sse_hello, SocketsKept, FdsOwned, Falls, Quiet, DownStays, goto,
         PcsTypeOK, Ended, sse_endpoint1, sse_endpoint2, sse_ping
<1>11. ASSUME NEW c \in Streams,
               recv_ignored(c) \/ recv_timeout(c)
        PROVE  SocketsKept
  BY SameSockets, <1>11
     DEF recv_ignored, SocketsKept, FdsOwned, Falls, Quiet, DownStays, goto,
         PcsTypeOK, Ended, recv_timeout
<1>12. ASSUME NEW c \in Post \cup Rpc,
               parse_ok(c) \/ parse_error(c) \/ dispatch_lock(c)
               \/ dispatch_unlock(c)
        PROVE  SocketsKept
  BY SameSockets, <1>12
     DEF parse_ok, SocketsKept, FdsOwned, Falls, Quiet, DownStays, goto,
         PcsTypeOK, Ended, parse_error, dispatch_lock, dispatch_unlock
<1>13. ASSUME NEW p \in Post,
               post_find(p) \/ post_ref(p) \/ post_push(p)
               \/ post_release(p)
        PROVE  SocketsKept
  BY SameSockets, <1>13
     DEF post_find, SocketsKept, FdsOwned, Falls, Quiet, DownStays, goto,
         PcsTypeOK, Ended, post_ref, post_push, post_release
<1>14. ASSUME NEW p \in Post, post_ack(p) PROVE SocketsKept
  BY WriteFull, PieceType, OpenFd, <1>14
     DEF post_ack, SocketsKept, FdsOwned, Falls, Quiet, DownStays, goto,
         PcsTypeOK, Ended
<1>15. ASSUME NEW p \in Post,
               post_message1(p) \/ post_message2(p)
        PROVE  SocketsKept
  BY WriteFull, PieceType, OpenFd, TargetFd, <1>15
     DEF post_message1, SocketsKept, FdsOwned, Falls, Quiet, DownStays, goto,
         PcsTypeOK, Ended, post_message2
<1>16. ASSUME NEW r \in Rpc,
               rpc_respond(r) \/ rpc_event(r)
        PROVE  SocketsKept
  BY WriteFull, PieceType, OpenFd, <1>16
     DEF rpc_respond, SocketsKept, FdsOwned, Falls, Quiet, DownStays, goto,
         PcsTypeOK, Ended, rpc_event
<1>17. ASSUME NEW m \in Stream,
               stream_headers(m) \/ stream_open(m) \/ stream_keepalive(m)
        PROVE  SocketsKept
  BY WriteFull, PieceType, OpenFd, <1>17
     DEF stream_headers, stream_send, SocketsKept, FdsOwned, Falls, Quiet,
         DownStays, goto, PcsTypeOK, Ended, stream_open, stream_keepalive
<1>18. ASSUME NEW m \in Stream,
               stream_loop(m) \/ stream_recv_end(m)
        PROVE  SocketsKept
  BY SameSockets, <1>18
     DEF stream_loop, SocketsKept, FdsOwned, Falls, Quiet, DownStays, goto,
         PcsTypeOK, Ended, stream_recv_end
<1>19. CASE UNCHANGED vars
  BY SameSockets, <1>19
     DEF vars, SocketsKept, FdsOwned, Falls, Quiet, DownStays
<1>. QED
  BY <1>1, <1>2, <1>3, <1>4, <1>5, <1>6, <1>7, <1>8, <1>9, <1>10, <1>11,
     <1>12, <1>13, <1>14, <1>15, <1>16, <1>17, <1>18, <1>19
     DEF Next, MainExit, MainAccept, ThreadStep, ClientStep, TimeoutStep,
         SseStep, CoreStep, PostStep, RpcStep, StreamStep, read_eof,
         Terminated, Conns, Streams

----------------------------------------------------------------------------
(* The session table and its memory.                                       *)

(* Finitely many threads use a session.                                    *)
LEMMA HoldersFinite == \A s \in Sse : IsFiniteSet(Holders(s))
<1> TAKE s \in Sse
<1>1. Holders(s) \subseteq Post \cup {s}
  BY DEF Holders
<1>2. IsFiniteSet(Post \cup {s})
  BY FiniteClients, FS_Singleton, FS_Union
<1>. QED BY <1>1, <1>2, FS_Subset

(* A session that someone holds has a positive count and is not freed.     *)
LEMMA Held ==
    ASSUME IInv, NEW s \in Sse, Holders(s) # {}
    PROVE  refcount[s] \in Nat \ {0} /\ ~freed[s]
<1>1. Cardinality(Holders(s)) \in Nat \ {0}
  BY HoldersFinite, FS_CardinalityType, FS_EmptySet
<1>. QED BY <1>1 DEF IInv, SessionMemory

(* A POST between acquire and release is one of them.                      *)
LEMMA PostHolds ==
    IInv => \A p \in Post : pc[p] \in PostHolding =>
                target[p] \in Sse /\ p \in Holders(target[p])
BY DEF IInv, SessionsMatch, Holders

(* So is the stream's own thread.                                          *)
LEMMA SseHolds ==
    IInv => \A s \in Sse : pc[s] \in SseServing => s \in Holders(s)
BY DEF Holders

(* A step that leaves the sessions alone keeps their types.                *)
LEMMA SameSessions == SessionsTypeOK /\ UNCHANGED sessVars => SessionsTypeOK'
BY DEF SessionsTypeOK, sessVars

(* So does every step.                                                     *)
LEMMA SessionTypes == IInv /\ [Next]_vars => SessionsTypeOK'
<1> SUFFICES ASSUME IInv, [Next]_vars PROVE SessionsTypeOK'
  OBVIOUS
<1> USE DEF IInv, TypeOK, Conns, PostHolding, SseServing
<1>1. CASE on_signal \/ main_setup \/ main_check \/ main_accept_error
             \/ run_again \/ mcp_server_destroy
  BY SameSessions, <1>1
     DEF on_signal, main_setup, main_check, main_accept_error, run_again,
         mcp_server_destroy
<1>2. CASE walk_lock \/ walk_unlock
  BY <1>2 DEF walk_lock, SessionsTypeOK, walk_unlock
<1>3. ASSUME NEW c \in Conns,
               main_accept(c) \/ main_drop(c) \/ read_request(c)
               \/ read_refused(c) \/ read_nothing(c) \/ send_error(c)
               \/ conn_close(c) \/ client(c)
        PROVE  SessionsTypeOK'
  BY SameSessions, <1>3
     DEF main_accept, main_drop, read_request, read_refused, read_nothing,
         send_error, conn_close, client
<1>4. ASSUME NEW s \in Sse,
               walk_session(s) \/ sse_mark_closed(s)
        PROVE  SessionsTypeOK'
  BY <1>4 DEF walk_session, SessionsTypeOK, sse_mark_closed
<1>5. ASSUME NEW s \in Sse, sse_create(s) PROVE SessionsTypeOK'
  <2>1. CASE session_create(s)
    BY <2>1 DEF session_create, SessionsTypeOK
  <2>2. CASE UNCHANGED sessVars
    BY <2>2, SameSessions
  <2>. QED BY <1>5, <2>1, <2>2 DEF sse_create
<1>6. ASSUME NEW s \in Sse,
               sse_hello(s) \/ sse_endpoint1(s) \/ sse_endpoint2(s)
               \/ sse_loop(s) \/ sse_recv_end(s) \/ sse_keepalive(s) \/ sse_ping(s)
               \/ sse_unlink(s)
        PROVE  SessionsTypeOK'
  BY SameSessions, <1>6
     DEF sse_hello, lock_write, SessionsTypeOK, sse_endpoint1, unlock_write,
         sse_endpoint2, sse_loop, sse_recv_end, sse_keepalive, sse_ping,
         sse_unlink, session_unlink
<1>7. ASSUME NEW s \in Sse, sse_release(s) PROVE SessionsTypeOK'
  BY SameSessions, Held, SseHolds, <1>7
     DEF sse_release, session_release, SessionsTypeOK
<1>8. ASSUME NEW c \in Streams,
               recv_ignored(c) \/ recv_timeout(c)
        PROVE  SessionsTypeOK'
  BY SameSessions, <1>8 DEF recv_ignored, recv_timeout
<1>9. ASSUME NEW c \in Post \cup Rpc,
               parse_ok(c) \/ dispatch_lock(c) \/ dispatch_unlock(c)
        PROVE  SessionsTypeOK'
  BY SameSessions, <1>9 DEF parse_ok, dispatch_lock, dispatch_unlock
<1>10. ASSUME NEW c \in Post \cup Rpc, parse_error(c) PROVE SessionsTypeOK'
  <2>1. CASE c \in Post
    <3>1. target[c] \in Sse /\ session_release(target[c])
      BY <1>10, <2>1, PostHolds DEF parse_error
    <3>2. refcount[target[c]] \in Nat \ {0}
      BY <1>10, <2>1, PostHolds, Held DEF parse_error
    <3>. QED BY <3>1, <3>2 DEF session_release, SessionsTypeOK
  <2>2. CASE c \notin Post
    BY <1>10, <2>2, SameSessions DEF parse_error
  <2>. QED BY <2>1, <2>2
<1>11. ASSUME NEW p \in Post,
               post_find(p) \/ post_push(p) \/ post_message1(p)
               \/ post_message2(p)
        PROVE  SessionsTypeOK'
  BY SameSessions, PostHolds, <1>11
     DEF post_find, session_find, session_not_found, SessionsTypeOK,
         post_push, lock_write, post_message1, unlock_write, post_message2
<1>12. ASSUME NEW p \in Post, post_ref(p) PROVE SessionsTypeOK'
  BY <1>12 DEF post_ref, session_ref, SessionsTypeOK, SessionsMatch
<1>13. ASSUME NEW p \in Post, post_ack(p) PROVE SessionsTypeOK'
  BY SameSessions, <1>13 DEF post_ack
<1>14. ASSUME NEW p \in Post, post_release(p) PROVE SessionsTypeOK'
  BY SameSessions, Held, PostHolds, <1>14
     DEF post_release, session_release, SessionsTypeOK
<1>15. ASSUME NEW r \in Rpc,
               rpc_respond(r) \/ rpc_event(r)
        PROVE  SessionsTypeOK'
  BY SameSessions, <1>15 DEF rpc_respond, rpc_event
<1>16. ASSUME NEW m \in Stream,
               stream_headers(m) \/ stream_open(m) \/ stream_keepalive(m)
               \/ stream_loop(m) \/ stream_recv_end(m)
        PROVE  SessionsTypeOK'
  BY SameSessions, <1>16
     DEF stream_headers, stream_send, stream_open, stream_keepalive,
         stream_loop, stream_recv_end
<1>17. CASE UNCHANGED vars
  BY SameSessions, <1>17 DEF vars
<1>. QED
  BY <1>1, <1>2, <1>3, <1>4, <1>5, <1>6, <1>7, <1>8, <1>9, <1>10, <1>11,
     <1>12, <1>13, <1>14, <1>15, <1>16, <1>17
     DEF Next, MainExit, MainAccept, ThreadStep, ClientStep, TimeoutStep,
         SseStep, CoreStep, PostStep, RpcStep, StreamStep, read_eof,
         Terminated, Conns, Streams

(* Types: the main thread and the requests.                                *)
LEMMA ThreadTypes == IInv /\ [Next]_vars => ThreadsTypeOK'
<1> SUFFICES ASSUME IInv, [Next]_vars PROVE ThreadsTypeOK'
  OBVIOUS
<1> USE DEF IInv, TypeOK, ThreadsTypeOK, MainPcs, mainVars, postVars, Conns,
   Streams
<1>1. CASE on_signal \/ main_setup \/ main_check \/ main_accept_error
             \/ run_again \/ mcp_server_destroy \/ walk_lock \/ walk_unlock
  BY <1>1
     DEF on_signal, main_setup, main_check, main_accept_error, run_again,
         mcp_server_destroy,
         walk_lock, SessionsTypeOK, walk_unlock
<1>2. ASSUME NEW c \in Conns,
               main_accept(c) \/ main_drop(c) \/ read_request(c)
               \/ read_refused(c) \/ read_nothing(c) \/ send_error(c)
               \/ conn_close(c) \/ client(c)
        PROVE  ThreadsTypeOK'
  BY <1>2
     DEF main_accept, main_drop, read_request, KnownSessions, read_refused,
         read_nothing, send_error, conn_close, client
<1>3. ASSUME NEW s \in Sse,
               walk_session(s) \/ sse_create(s) \/ sse_hello(s)
               \/ sse_endpoint1(s) \/ sse_endpoint2(s) \/ sse_loop(s)
               \/ sse_recv_end(s) \/ sse_keepalive(s) \/ sse_ping(s)
               \/ sse_mark_closed(s) \/ sse_unlink(s) \/ sse_release(s)
        PROVE  ThreadsTypeOK'
  BY <1>3
     DEF walk_session, sse_create, sse_hello, sse_endpoint1, sse_endpoint2,
         sse_loop, sse_recv_end, sse_keepalive, sse_ping, sse_mark_closed,
         sse_unlink, sse_release
<1>4. ASSUME NEW c \in Streams,
               recv_ignored(c) \/ recv_timeout(c)
        PROVE  ThreadsTypeOK'
  BY <1>4 DEF recv_ignored, recv_timeout
<1>5. ASSUME NEW c \in Post \cup Rpc,
               parse_ok(c) \/ parse_error(c) \/ dispatch_lock(c)
               \/ dispatch_unlock(c)
        PROVE  ThreadsTypeOK'
  BY <1>5 DEF parse_ok, parse_error, dispatch_lock, dispatch_unlock
<1>6. ASSUME NEW p \in Post,
               post_find(p) \/ post_ref(p) \/ post_ack(p) \/ post_push(p)
               \/ post_message1(p) \/ post_message2(p) \/ post_release(p)
        PROVE  ThreadsTypeOK'
  BY <1>6
     DEF post_find, post_ref, post_ack, post_push, post_message1,
         post_message2, post_release
<1>7. ASSUME NEW r \in Rpc,
               rpc_respond(r) \/ rpc_event(r)
        PROVE  ThreadsTypeOK'
  BY <1>7 DEF rpc_respond, rpc_event
<1>8. ASSUME NEW m \in Stream,
               stream_headers(m) \/ stream_open(m) \/ stream_keepalive(m)
               \/ stream_loop(m) \/ stream_recv_end(m)
        PROVE  ThreadsTypeOK'
  BY <1>8
     DEF stream_headers, stream_send, stream_open, stream_keepalive,
         stream_loop, stream_recv_end
<1>9. CASE UNCHANGED vars
  BY <1>9 DEF vars
<1>. QED
  BY <1>1, <1>2, <1>3, <1>4, <1>5, <1>6, <1>7, <1>8, <1>9, StepIs, Zenon
     DEF Steps


(* The list and its lock follow the program counters.                      *)
LEMMA TableStep == IInv /\ [Next]_vars => TableMatches'
<1> SUFFICES ASSUME IInv, [Next]_vars PROVE TableMatches'
  OBVIOUS
<1> USE ConnsDisjoint, SpecialValues
   DEF IInv, TypeOK, PcsTypeOK, SessionsTypeOK, ThreadsTypeOK, TableMatches,
       goto, Conns, Streams, MainPcs, sessVars, mainVars, SsePcs, PostPcs,
       RpcPcs, StreamPcs, AnyPcs, SseServing, PostHolding, Ended, InTable
<1>1. CASE on_signal \/ main_setup \/ main_check \/ main_accept_error
             \/ run_again \/ mcp_server_destroy \/ walk_lock \/ walk_unlock
  BY <1>1
     DEF on_signal, main_setup, main_check, main_accept_error, run_again,
         mcp_server_destroy,
         walk_lock, walk_unlock
<1>2. ASSUME NEW c \in Conns,
               main_accept(c) \/ main_drop(c) \/ read_request(c)
               \/ read_refused(c) \/ read_nothing(c) \/ send_error(c)
               \/ conn_close(c) \/ client(c)
        PROVE  TableMatches'
  BY <1>2
     DEF main_accept, main_drop, read_request, FirstStep, read_refused,
         read_nothing, send_error, conn_close, client
<1>3. ASSUME NEW s \in Sse,
               walk_session(s) \/ sse_create(s) \/ sse_hello(s)
               \/ sse_endpoint1(s) \/ sse_endpoint2(s) \/ sse_loop(s)
               \/ sse_recv_end(s) \/ sse_keepalive(s) \/ sse_ping(s)
               \/ sse_mark_closed(s) \/ sse_unlink(s) \/ sse_release(s)
        PROVE  TableMatches'
  BY <1>3
     DEF walk_session, sse_create, session_create, sse_hello, lock_write,
         sse_endpoint1, unlock_write, sse_endpoint2, sse_loop, sse_recv_end,
         sse_keepalive, sse_ping, sse_mark_closed, sse_unlink, session_unlink,
         sse_release, session_release
<1>4. ASSUME NEW c \in Streams,
               recv_ignored(c) \/ recv_timeout(c)
        PROVE  TableMatches'
  BY <1>4 DEF recv_ignored, recv_timeout
<1>5. ASSUME NEW c \in Post \cup Rpc,
               parse_ok(c) \/ parse_error(c) \/ dispatch_lock(c)
               \/ dispatch_unlock(c)
        PROVE  TableMatches'
  BY <1>5
     DEF parse_ok, parse_error, session_release, dispatch_lock,
         dispatch_unlock
<1>6. ASSUME NEW p \in Post,
               post_find(p) \/ post_ref(p) \/ post_ack(p) \/ post_push(p)
               \/ post_message1(p) \/ post_message2(p) \/ post_release(p)
        PROVE  TableMatches'
  BY <1>6
     DEF post_find, session_find, session_not_found, post_ref, session_ref,
         post_ack, post_push, lock_write, post_message1, unlock_write,
         post_message2, post_release, session_release
<1>7. ASSUME NEW r \in Rpc,
               rpc_respond(r) \/ rpc_event(r)
        PROVE  TableMatches'
  BY <1>7 DEF rpc_respond, rpc_event
<1>8. ASSUME NEW m \in Stream,
               stream_headers(m) \/ stream_open(m) \/ stream_keepalive(m)
               \/ stream_loop(m) \/ stream_recv_end(m)
        PROVE  TableMatches'
  BY <1>8
     DEF stream_headers, stream_send, stream_open, stream_keepalive,
         stream_loop, stream_recv_end
<1>9. CASE UNCHANGED vars
  BY <1>9 DEF vars
<1>. QED
  BY <1>1, <1>2, <1>3, <1>4, <1>5, <1>6, <1>7, <1>8, <1>9, StepIs, Zenon
     DEF Steps


(* A POST keeps the session it found; a session is closed before it ends.  *)
LEMMA SessionsStep == IInv /\ [Next]_vars => SessionsMatch'
<1> SUFFICES ASSUME IInv, [Next]_vars PROVE SessionsMatch'
  OBVIOUS
<1> USE ConnsDisjoint, SpecialValues
   DEF IInv, TypeOK, PcsTypeOK, SessionsTypeOK, ThreadsTypeOK, SessionsMatch,
       TableMatches, goto, Conns, Streams, Opened, sessVars, postVars, SsePcs,
       PostPcs, RpcPcs, StreamPcs, AnyPcs, SseServing, PostHolding, Ended,
       InTable, Waiting
<1>1. CASE on_signal \/ main_setup \/ main_check \/ main_accept_error
             \/ run_again \/ mcp_server_destroy \/ walk_lock \/ walk_unlock
  BY <1>1
     DEF on_signal, main_setup, main_check, main_accept_error, run_again,
         mcp_server_destroy,
         walk_lock, walk_unlock
<1>2. ASSUME NEW c \in Conns,
               main_accept(c) \/ main_drop(c) \/ read_request(c)
               \/ read_refused(c) \/ read_nothing(c) \/ send_error(c)
               \/ conn_close(c) \/ client(c)
        PROVE  SessionsMatch'
  BY <1>2
     DEF main_accept, main_drop, read_request, FirstStep, read_refused,
         read_nothing, send_error, conn_close, client
<1>3. ASSUME NEW s \in Sse,
               walk_session(s) \/ sse_create(s) \/ sse_hello(s)
               \/ sse_endpoint1(s) \/ sse_endpoint2(s) \/ sse_loop(s)
               \/ sse_recv_end(s) \/ sse_keepalive(s) \/ sse_ping(s)
               \/ sse_mark_closed(s) \/ sse_unlink(s) \/ sse_release(s)
        PROVE  SessionsMatch'
  BY <1>3
     DEF walk_session, sse_create, session_create, sse_hello, lock_write,
         sse_endpoint1, unlock_write, sse_endpoint2, sse_loop, sse_recv_end,
         sse_keepalive, sse_ping, sse_mark_closed, sse_unlink, session_unlink,
         sse_release, session_release
<1>4. ASSUME NEW c \in Streams,
               recv_ignored(c) \/ recv_timeout(c)
        PROVE  SessionsMatch'
  BY <1>4 DEF recv_ignored, recv_timeout
<1>5. ASSUME NEW c \in Post \cup Rpc,
               parse_ok(c) \/ parse_error(c) \/ dispatch_lock(c)
               \/ dispatch_unlock(c)
        PROVE  SessionsMatch'
  BY <1>5
     DEF parse_ok, parse_error, session_release, dispatch_lock,
         dispatch_unlock
<1>6. ASSUME NEW p \in Post,
               post_find(p) \/ post_ref(p) \/ post_ack(p) \/ post_push(p)
               \/ post_message1(p) \/ post_message2(p) \/ post_release(p)
        PROVE  SessionsMatch'
  BY <1>6
     DEF post_find, session_find, session_not_found, post_ref, session_ref,
         post_ack, post_push, lock_write, post_message1, unlock_write,
         post_message2, post_release, session_release
<1>7. ASSUME NEW r \in Rpc,
               rpc_respond(r) \/ rpc_event(r)
        PROVE  SessionsMatch'
  BY <1>7 DEF rpc_respond, rpc_event
<1>8. ASSUME NEW m \in Stream,
               stream_headers(m) \/ stream_open(m) \/ stream_keepalive(m)
               \/ stream_loop(m) \/ stream_recv_end(m)
        PROVE  SessionsMatch'
  BY <1>8
     DEF stream_headers, stream_send, stream_open, stream_keepalive,
         stream_loop, stream_recv_end
<1>9. CASE UNCHANGED vars
  BY <1>9 DEF vars
<1>. QED
  BY <1>1, <1>2, <1>3, <1>4, <1>5, <1>6, <1>7, <1>8, <1>9, StepIs, Zenon
     DEF Steps


(* A step after which the same threads hold the same sessions, and which   *)
(* closes none but a session held.                                         *)
HoldingKept ==
    /\ UNCHANGED <<refcount, freed>>
    /\ \A s \in Sse : pc'[s] \in SseServing <=> pc[s] \in SseServing
    /\ \A p \in Post : /\ pc'[p] \in PostHolding <=> pc[p] \in PostHolding
                       /\ pc[p] \in PostHolding => target'[p] = target[p]
    /\ \A s \in Sse : closed'[s] = closed[s] \/ pc[s] \in SseServing

(* Where nobody starts or stops using a session, nothing changes.          *)
LEMMA MemoryKept == IInv /\ HoldingKept => SessionMemory'
<1> SUFFICES ASSUME IInv, HoldingKept, NEW s \in Sse
             PROVE  /\ refcount'[s] = Cardinality(Holders(s)')
                    /\ freed'[s] <=> closed'[s] /\ Holders(s)' = {}
  BY DEF SessionMemory
<1>1. Holders(s)' = Holders(s)
  BY DEF HoldingKept, Holders
<1>2. pc[s] \in SseServing => Holders(s) # {}
  BY DEF Holders
<1>. QED BY <1>1, <1>2 DEF IInv, SessionMemory, HoldingKept

(* A step that changes the holders of one session s only.                  *)
OnlyHoldersOf(s) ==
    \A x \in Sse \ {s} :
        /\ Holders(x)' = Holders(x)
        /\ refcount'[x] = refcount[x]
        /\ freed'[x] = freed[x]
        /\ closed'[x] = closed[x]

(* A thread t starts to use session s: its own, which it enters in the     *)
(* table, or one that it finds there.                                      *)
Joins(s, t) ==
    /\ OnlyHoldersOf(s)
    /\ t \notin Holders(s) /\ Holders(s)' = Holders(s) \cup {t}
    /\ refcount'[s] = refcount[s] + 1 /\ ~freed[s] /\ ~freed'[s]
    /\ \/ /\ t = s /\ s \notin g_sessions_head /\ Holders(s) = {}
          /\ g_sessions_head' = g_sessions_head \cup {s}
       \/ t \in Post /\ s \in g_sessions_head /\ UNCHANGED g_sessions_head

(* It stops using the session, its own one off the table.                  *)
Leaves(s, t) ==
    /\ OnlyHoldersOf(s)
    /\ t \in Holders(s) /\ Holders(s)' = Holders(s) \ {t}
    /\ session_release(s)
    /\ Holders(s)' = {} => closed[s]
    /\ t = s => s \notin g_sessions_head

(* Nobody does either; a session may be taken off the table.               *)
Remains ==
    /\ HoldingKept
    /\ \/ UNCHANGED g_sessions_head
       \/ \E s \in g_sessions_head : g_sessions_head' = g_sessions_head \ {s}

(* A new user takes one reference.                                         *)
LEMMA HolderAdded ==
    ASSUME IInv, NEW s \in Sse, NEW t, Joins(s, t)
    PROVE  SessionMemory'
<1> USE DEF Joins
<1>1. Cardinality(Holders(s)') = Cardinality(Holders(s)) + 1
  BY HoldersFinite, FS_AddElement
<1>2. refcount'[s] = Cardinality(Holders(s)') /\ Holders(s)' # {}
  BY <1>1 DEF IInv, SessionMemory
<1>. QED BY <1>2 DEF IInv, SessionMemory, OnlyHoldersOf

(* A user that stops gives one back, the last one frees it.                *)
LEMMA HolderRemoved ==
    ASSUME IInv, NEW s \in Sse, NEW t, Leaves(s, t)
    PROVE  /\ SessionMemory'
           /\ ~freed[s]
           /\ freed'[s] <=> Holders(s)' = {}
<1> USE DEF Leaves
<1>1. Cardinality(Holders(s)') = Cardinality(Holders(s)) - 1
  BY HoldersFinite, FS_RemoveElement
<1>2. refcount[s] \in Nat \ {0} /\ ~freed[s] /\ refcount[s] = Cardinality(Holders(s))
  BY Held DEF IInv, SessionMemory
<1>3. refcount'[s] = Cardinality(Holders(s)') /\ closed'[s] = closed[s]
  BY <1>1, <1>2 DEF session_release, IInv, TypeOK, SessionsTypeOK
<1>4. freed'[s] <=> refcount[s] = 1
  BY <1>2 DEF session_release, IInv, TypeOK, SessionsTypeOK
<1>5. refcount[s] = 1 <=> Holders(s)' = {}
  <2>1. IsFiniteSet(Holders(s)')
    BY HoldersFinite, FS_RemoveElement
  <2>2. Cardinality(Holders(s)') = 0 <=> Holders(s)' = {}
    BY <2>1, FS_EmptySet
  <2>. QED BY <1>1, <1>2, <2>2
<1>. QED
  BY <1>2, <1>3, <1>4, <1>5 DEF IInv, SessionMemory, OnlyHoldersOf

(* A POST's release is a removal.                                          *)
LEMMA PostReleases ==
    ASSUME IInv, NEW p \in Post, NEW l, pc[p] \in PostHolding, goto(p, l),
           l \notin PostHolding, session_release(target[p]), UNCHANGED target
    PROVE  target[p] \in Sse /\ Leaves(target[p], p)
<1> USE ConnsDisjoint DEF IInv, TypeOK, PcsTypeOK, SessionsTypeOK, Conns
<1>1. PICK s \in Sse : s = target[p] /\ p \in Holders(s)
  BY PostHolds
<1>2. pc' = [pc EXCEPT ![p] = l] /\ p \notin Sse
  BY DEF goto
<1>3. Holders(s)' = Holders(s) \ {p}
  BY <1>1, <1>2 DEF Holders
<1>4. OnlyHoldersOf(s)
  BY <1>1, <1>2 DEF OnlyHoldersOf, Holders, session_release
<1>5. Holders(s)' = {} => closed[s]
  <2>1. pc[s] \notin SseServing => closed[s]
    BY <1>1 DEF SessionsMatch
  <2>2. pc[s] \in SseServing => s \in Holders(s)'
    BY <1>1, <1>2, <1>3 DEF Holders
  <2>. QED BY <2>1, <2>2
<1>. QED BY <1>1, <1>2, <1>3, <1>4, <1>5 DEF Leaves

(* One thread at most starts or stops using one session.                   *)
Sharing ==
    \/ Remains
    \/ \E s \in Sse, t \in Sse \cup Post : Joins(s, t) \/ Leaves(s, t)

LEMMA SharingStep == IInv /\ [Next]_vars => Sharing
<1> SUFFICES ASSUME IInv, [Next]_vars PROVE Sharing
  OBVIOUS
<1> USE ConnsDisjoint
   DEF IInv, TypeOK, PcsTypeOK, SessionsTypeOK, goto, Conns, Streams,
       sessVars, postVars, SseServing, PostHolding
<1>1. ASSUME on_signal \/ main_setup \/ main_check \/ main_accept_error
             \/ run_again \/ mcp_server_destroy \/ walk_lock \/ walk_unlock
        PROVE  Remains
  BY <1>1
     DEF on_signal, Remains, HoldingKept, SsePcs, PostPcs, RpcPcs, StreamPcs, AnyPcs,
         Ended, main_setup, run_again, main_check, main_accept_error,
         mcp_server_destroy, walk_lock,
         walk_unlock
<1>2. ASSUME NEW c \in Conns,
               main_accept(c) \/ main_drop(c) \/ read_refused(c)
               \/ read_nothing(c) \/ send_error(c) \/ conn_close(c)
               \/ client(c)
        PROVE  Remains
  BY <1>2
     DEF main_accept, Remains, HoldingKept, SsePcs, PostPcs, RpcPcs, StreamPcs, AnyPcs,
         Ended, main_drop, read_refused, read_nothing, send_error, conn_close,
         client
<1>3. ASSUME NEW c \in Conns, read_request(c) PROVE Remains
  <2>1. pc[c] = "read" /\ pc' = [pc EXCEPT ![c] = FirstStep(c)]
    BY <1>3 DEF read_request
  <2>2. FirstStep(c) \notin SseServing \/ c \notin Sse
    BY DEF FirstStep
  <2>3. FirstStep(c) \notin PostHolding \/ c \notin Post
    BY DEF FirstStep
  <2>4. \A p \in Post : pc[p] \in PostHolding => target'[p] = target[p]
    BY <1>3, <2>1 DEF read_request, ThreadsTypeOK
  <2>5. HoldingKept
    BY <1>3, <2>1, <2>2, <2>3, <2>4 DEF read_request, HoldingKept
  <2>. QED BY <1>3, <2>5 DEF read_request, Remains
<1>4. ASSUME NEW s \in Sse,
               walk_session(s) \/ sse_hello(s) \/ sse_endpoint1(s)
               \/ sse_endpoint2(s) \/ sse_loop(s) \/ sse_recv_end(s)
               \/ sse_keepalive(s) \/ sse_ping(s) \/ sse_mark_closed(s)
               \/ sse_unlink(s)
        PROVE  Remains
  <2>. USE DEF Remains, HoldingKept, SsePcs, PostPcs, RpcPcs, StreamPcs, AnyPcs, Ended
  <2>1. CASE walk_session(s) \/ sse_unlink(s)
    BY <2>1 DEF walk_session, TableMatches, InTable, sse_unlink, session_unlink
  <2>2. CASE sse_hello(s) \/ sse_endpoint1(s) \/ sse_endpoint2(s)
    BY <2>2 DEF sse_hello, lock_write, sse_endpoint1, unlock_write, sse_endpoint2
  <2>3. CASE \/ sse_loop(s) \/ sse_recv_end(s) \/ sse_keepalive(s)
             \/ sse_ping(s) \/ sse_mark_closed(s)
    BY <2>3 DEF sse_loop, sse_recv_end, sse_keepalive, sse_ping,
                sse_mark_closed, lock_write, unlock_write
  <2>. QED BY <1>4, <2>1, <2>2, <2>3
<1>5. ASSUME NEW s \in Sse, sse_create(s) PROVE Sharing
  <2>1. CASE session_create(s) /\ goto(s, "hello")
    <3>1. pc[s] = "create" /\ pc' = [pc EXCEPT ![s] = "hello"]
      BY <1>5, <2>1 DEF sse_create
    <3>2. /\ Holders(s) = {} /\ ~closed[s] /\ ~freed[s]
          /\ s \notin g_sessions_head
      <4>1. s \notin g_sessions_head
        BY <3>1 DEF TableMatches, InTable
      <4>2. s \notin Post /\ pc[s] \notin SseServing /\ pc[s] \notin Opened
        BY <3>1 DEF SseServing, Opened
      <4>3. \A p \in Post : ~(target[p] = s /\ pc[p] \in PostHolding)
        BY <4>2 DEF SessionsMatch
      <4>4. Holders(s) = {}
        BY <4>2, <4>3, Zenon DEF Holders
      <4>5. ~closed[s] /\ ~freed[s]
        BY <4>2 DEF SessionsMatch, SessionMemory
      <4>. QED BY <4>1, <4>4, <4>5
    <3>3. refcount[s] = 0
      BY <3>2, FS_EmptySet DEF SessionMemory
    <3>4. UNCHANGED target
      BY <1>5 DEF sse_create, postVars
    <3>5. Holders(s)' = Holders(s) \cup {s} /\ OnlyHoldersOf(s)
      BY <2>1, <3>1, <3>2, <3>4
         DEF Holders, OnlyHoldersOf, session_create, SseServing
    <3>6. /\ refcount'[s] = refcount[s] + 1 /\ ~freed'[s]
          /\ g_sessions_head' = g_sessions_head \cup {s}
      BY <2>1, <3>2, <3>3 DEF session_create
    <3>7. Joins(s, s)
      BY <3>2, <3>5, <3>6 DEF Joins
    <3>. QED BY <3>7 DEF Sharing
  <2>2. CASE UNCHANGED sessVars /\ goto(s, "reply")
    BY <1>5, <2>2 DEF sse_create, Sharing, Remains, HoldingKept
  <2>. QED BY <1>5, <2>1, <2>2 DEF sse_create
<1>6. ASSUME NEW s \in Sse, sse_release(s) PROVE Sharing
  <2>1. pc[s] = "release" /\ pc' = [pc EXCEPT ![s] = "close"] /\ UNCHANGED target
    BY <1>6 DEF sse_release, postVars
  <2>2. s \in Holders(s) /\ closed[s] /\ session_release(s)
    BY <1>6, <2>1 DEF sse_release, Holders, SessionsMatch
  <2>3. Holders(s)' = Holders(s) \ {s}
    BY <2>1 DEF Holders
  <2>4. OnlyHoldersOf(s)
    BY <2>1, <2>2 DEF OnlyHoldersOf, Holders, session_release
  <2>5. s \notin g_sessions_head
    BY <2>1 DEF TableMatches, InTable
  <2>. QED BY <2>2, <2>3, <2>4, <2>5 DEF Leaves, Sharing
<1>7. ASSUME NEW c \in Streams,
               recv_ignored(c) \/ recv_timeout(c)
        PROVE  Remains
  BY <1>7
     DEF recv_ignored, Remains, HoldingKept, SsePcs, PostPcs, RpcPcs, StreamPcs,
         AnyPcs, Ended, recv_timeout
<1>8. ASSUME NEW c \in Post \cup Rpc,
               parse_ok(c) \/ dispatch_lock(c) \/ dispatch_unlock(c)
        PROVE  Remains
  BY <1>8
     DEF parse_ok, Remains, HoldingKept, SsePcs, PostPcs, RpcPcs, StreamPcs, AnyPcs,
         Ended, dispatch_lock, dispatch_unlock
<1>9. ASSUME NEW c \in Post \cup Rpc, parse_error(c) PROVE Sharing
  <2>1. CASE c \in Post
    <3>1. /\ pc[c] \in PostHolding /\ goto(c, "reply") /\ UNCHANGED target
          /\ session_release(target[c]) /\ "reply" \notin PostHolding
      BY <1>9, <2>1 DEF parse_error
    <3> HIDE DEF IInv, goto, PostHolding
    <3>. QED BY <2>1, <3>1, PostReleases DEF Sharing
  <2>2. CASE c \notin Post
    BY <1>9, <2>2 DEF parse_error, Sharing, Remains, HoldingKept
  <2>. QED BY <2>1, <2>2
<1>10. ASSUME NEW p \in Post,
               post_find(p) \/ post_ack(p) \/ post_push(p)
               \/ post_message1(p) \/ post_message2(p)
        PROVE  Remains
  BY <1>10
     DEF post_find, Remains, HoldingKept, SsePcs, PostPcs, RpcPcs, StreamPcs, AnyPcs,
         Ended, session_find, session_not_found, post_ack, post_push,
         lock_write, post_message1, unlock_write, post_message2
<1>11. ASSUME NEW p \in Post, post_ref(p) PROVE Sharing
  <2>1. pc[p] = "ref" /\ pc' = [pc EXCEPT ![p] = "parse"] /\ UNCHANGED target
    BY <1>11 DEF post_ref, postVars
  <2>2. PICK s \in Sse : s = target[p] /\ s \in Holders(s) /\ session_ref(p, s)
                             /\ s \in g_sessions_head
    BY <1>11, <2>1 DEF post_ref, SessionsMatch, TableMatches, InTable, Holders
  <2>3. ~freed[s]
    BY <2>2, Held
  <2>4. p \notin Holders(s) /\ Holders(s)' = Holders(s) \cup {p}
    BY <2>1, <2>2 DEF Holders
  <2>5. OnlyHoldersOf(s)
    BY <2>1, <2>2 DEF OnlyHoldersOf, Holders, session_ref
  <2>6. /\ refcount'[s] = refcount[s] + 1 /\ ~freed'[s]
        /\ UNCHANGED g_sessions_head
    BY <2>2, <2>3 DEF session_ref
  <2>7. Joins(s, p)
    BY <2>2, <2>3, <2>4, <2>5, <2>6 DEF Joins
  <2>. QED BY <2>7 DEF Sharing
<1>12. ASSUME NEW p \in Post, post_release(p) PROVE Sharing
  <2>1. /\ pc[p] \in PostHolding /\ goto(p, "close") /\ UNCHANGED target
        /\ session_release(target[p]) /\ "close" \notin PostHolding
    BY <1>12 DEF post_release
  <2> HIDE DEF IInv, goto, PostHolding
  <2>. QED BY <2>1, PostReleases DEF Sharing
<1>13. ASSUME NEW r \in Rpc,
               rpc_respond(r) \/ rpc_event(r)
        PROVE  Remains
  BY <1>13
     DEF rpc_respond, Remains, HoldingKept, SsePcs, PostPcs, RpcPcs, StreamPcs, AnyPcs,
         Ended, rpc_event
<1>14. ASSUME NEW m \in Stream,
               stream_headers(m) \/ stream_open(m) \/ stream_keepalive(m)
               \/ stream_loop(m) \/ stream_recv_end(m)
        PROVE  Remains
  BY <1>14
     DEF stream_headers, Remains, HoldingKept, SsePcs, PostPcs, RpcPcs, StreamPcs,
         AnyPcs, Ended, stream_send, stream_open, stream_keepalive,
         stream_loop, stream_recv_end
<1>15. ASSUME UNCHANGED vars
        PROVE  Remains
  BY <1>15 DEF vars, Remains, HoldingKept
<1>16. Remains => Sharing
  BY DEF Sharing
<1>. QED
  BY <1>1, <1>2, <1>3, <1>4, <1>5, <1>6, <1>7, <1>8, <1>9, <1>10, <1>11,
     <1>12, <1>13, <1>14, <1>15, <1>16
     DEF Next, MainExit, MainAccept, ThreadStep, ClientStep, TimeoutStep,
         SseStep, CoreStep, PostStep, RpcStep, StreamStep, read_eof,
         Terminated, Conns, Streams

(* Counts and memory follow the holders.                                   *)
LEMMA MemoryStep == IInv /\ [Next]_vars => SessionMemory'
BY SharingStep, MemoryKept, HolderAdded, HolderRemoved DEF Sharing, Remains

(* The shutdown walk misses no stream that waits.                          *)
LEMMA WalkStep == IInv /\ [Next]_vars => WalkReaches'
<1> SUFFICES ASSUME IInv, [Next]_vars PROVE WalkReaches'
  OBVIOUS
<1> USE ConnsDisjoint, SpecialValues
   DEF IInv, TypeOK, PcsTypeOK, ThreadsTypeOK, WalkReaches, TableMatches,
       SocketsKept, Falls, goto, Conns, Streams, MainPcs, mainVars, SsePcs,
       PostPcs, RpcPcs, StreamPcs, AnyPcs, SseServing, PostHolding, Ended,
       InTable, Waiting
<1>1. CASE on_signal \/ main_setup \/ main_check \/ main_accept_error
             \/ run_again \/ mcp_server_destroy \/ walk_lock \/ walk_unlock
  BY SocketsStep, <1>1
     DEF on_signal, main_setup, main_check, main_accept_error, run_again,
         mcp_server_destroy,
         walk_lock, walk_unlock
<1>2. ASSUME NEW c \in Conns,
               main_accept(c) \/ main_drop(c) \/ read_request(c)
               \/ read_refused(c) \/ read_nothing(c) \/ send_error(c)
               \/ conn_close(c) \/ client(c)
        PROVE  WalkReaches'
  BY SocketsStep, <1>2
     DEF main_accept, main_drop, read_request, FirstStep, read_refused,
         read_nothing, send_error, conn_close, client
<1>3. ASSUME NEW s \in Sse, walk_session(s) PROVE WalkReaches'
  <2>1. pc[s] # "idle" /\ pc[s] \notin Ended
    BY <1>3 DEF walk_session
  <2>2. fd[s] \in Fds /\ owner[fd[s]] = s
    BY <2>1, OpenFd DEF FdsOwned
  <2>3. link'[s] = "down"
    BY <1>3, <2>2, Shutdown, SpecialValues DEF walk_session
  <2>. QED BY <1>3, <2>3, SocketsStep DEF walk_session
<1>4. ASSUME NEW s \in Sse,
               sse_create(s) \/ sse_hello(s) \/ sse_endpoint1(s)
               \/ sse_endpoint2(s) \/ sse_loop(s) \/ sse_recv_end(s)
               \/ sse_keepalive(s) \/ sse_ping(s) \/ sse_mark_closed(s)
               \/ sse_unlink(s) \/ sse_release(s)
        PROVE  WalkReaches'
  BY SocketsStep, <1>4
     DEF sse_create, session_create, sse_hello, lock_write, sse_endpoint1,
         unlock_write, sse_endpoint2, sse_loop, sse_recv_end, sse_keepalive,
         sse_ping, sse_mark_closed, sse_unlink, session_unlink, sse_release,
         session_release
<1>5. ASSUME NEW c \in Streams,
               recv_ignored(c) \/ recv_timeout(c)
        PROVE  WalkReaches'
  BY SocketsStep, <1>5 DEF recv_ignored, recv_timeout
<1>6. ASSUME NEW c \in Post \cup Rpc,
               parse_ok(c) \/ parse_error(c) \/ dispatch_lock(c)
               \/ dispatch_unlock(c)
        PROVE  WalkReaches'
  BY SocketsStep, <1>6
     DEF parse_ok, parse_error, session_release, dispatch_lock,
         dispatch_unlock
<1>7. ASSUME NEW p \in Post,
               post_find(p) \/ post_ref(p) \/ post_ack(p) \/ post_push(p)
               \/ post_message1(p) \/ post_message2(p) \/ post_release(p)
        PROVE  WalkReaches'
  BY SocketsStep, <1>7
     DEF post_find, session_find, session_not_found, post_ref, session_ref,
         post_ack, post_push, lock_write, post_message1, unlock_write,
         post_message2, post_release, session_release
<1>8. ASSUME NEW r \in Rpc,
               rpc_respond(r) \/ rpc_event(r)
        PROVE  WalkReaches'
  BY SocketsStep, <1>8 DEF rpc_respond, rpc_event
<1>9. ASSUME NEW m \in Stream,
               stream_headers(m) \/ stream_open(m) \/ stream_keepalive(m)
               \/ stream_loop(m) \/ stream_recv_end(m)
        PROVE  WalkReaches'
  BY SocketsStep, <1>9
     DEF stream_headers, stream_send, stream_open, stream_keepalive,
         stream_loop, stream_recv_end
<1>10. CASE UNCHANGED vars
  BY <1>10 DEF vars, sockVars
<1>. QED
  BY <1>1, <1>2, <1>3, <1>4, <1>5, <1>6, <1>7, <1>8, <1>9, <1>10
     DEF Next, MainExit, MainAccept, ThreadStep, ClientStep, TimeoutStep,
         SseStep, CoreStep, PostStep, RpcStep, StreamStep, read_eof,
         Terminated, Conns, Streams

----------------------------------------------------------------------------
(* What a step may not do to a freed session.                              *)
FreedKept ==
    \A s \in Sse : freed[s] =>
        /\ UNCHANGED <<refcount[s], closed[s], write_lock[s], freed[s]>>
        /\ s \in g_sessions_head <=> s \in g_sessions_head'

(* A freed session is left alone.                                          *)
LEMMA FreedStep == IInv /\ [Next]_vars => FreedKept
<1> SUFFICES ASSUME IInv, [Next]_vars PROVE FreedKept
  OBVIOUS
<1> USE DEF IInv, TypeOK, SessionsTypeOK, FreedKept, sessVars, PostHolding,
   SseServing
<1>1. CASE on_signal \/ main_setup \/ main_check \/ main_accept_error
             \/ run_again \/ mcp_server_destroy \/ walk_lock \/ walk_unlock
  BY Held, PostHolds, SseHolds, <1>1
     DEF on_signal, main_setup, main_check, main_accept_error, run_again,
         mcp_server_destroy,
         walk_lock, walk_unlock
<1>2. ASSUME NEW c \in Conns,
               main_accept(c) \/ main_drop(c) \/ read_request(c)
               \/ read_refused(c) \/ read_nothing(c) \/ send_error(c)
               \/ conn_close(c) \/ client(c)
        PROVE  FreedKept
  BY Held, PostHolds, SseHolds, <1>2
     DEF main_accept, main_drop, read_request, read_refused, read_nothing,
         send_error, conn_close, client
<1>3. ASSUME NEW s \in Sse,
               walk_session(s) \/ sse_hello(s) \/ sse_endpoint1(s)
               \/ sse_endpoint2(s) \/ sse_loop(s) \/ sse_recv_end(s)
               \/ sse_keepalive(s) \/ sse_ping(s) \/ sse_mark_closed(s)
               \/ sse_unlink(s) \/ sse_release(s)
        PROVE  FreedKept
  <2>1. CASE walk_session(s) \/ sse_unlink(s)
    BY Held, PostHolds, SseHolds, <2>1
       DEF walk_session, TableMatches, InTable, sse_unlink, session_unlink
  <2>2. CASE sse_hello(s) \/ sse_endpoint1(s) \/ sse_endpoint2(s)
    BY Held, PostHolds, SseHolds, <2>2
       DEF sse_hello, lock_write, sse_endpoint1, unlock_write, sse_endpoint2
  <2>3. CASE sse_loop(s) \/ sse_recv_end(s) \/ sse_keepalive(s) \/ sse_ping(s)
    BY Held, PostHolds, SseHolds, <2>3
       DEF sse_loop, sse_recv_end, sse_keepalive, lock_write, sse_ping,
           unlock_write
  <2>4. CASE sse_mark_closed(s) \/ sse_release(s)
    BY Held, PostHolds, SseHolds, <2>4 DEF sse_mark_closed, sse_release, session_release
  <2>. QED BY <1>3, <2>1, <2>2, <2>3, <2>4
<1>4. ASSUME NEW s \in Sse, sse_create(s) PROVE FreedKept
  <2>1. ~freed[s]
    BY <1>4 DEF sse_create, SessionMemory, SessionsMatch, Opened
  <2>. QED BY <1>4, <2>1 DEF sse_create, session_create
<1>5. ASSUME NEW c \in Streams,
               recv_ignored(c) \/ recv_timeout(c)
        PROVE  FreedKept
  BY Held, PostHolds, SseHolds, <1>5 DEF recv_ignored, recv_timeout
<1>6. ASSUME NEW c \in Post \cup Rpc,
               parse_ok(c) \/ dispatch_lock(c) \/ dispatch_unlock(c)
        PROVE  FreedKept
  BY Held, PostHolds, SseHolds, <1>6
     DEF parse_ok, dispatch_lock, dispatch_unlock
<1>7. ASSUME NEW c \in Post \cup Rpc, parse_error(c) PROVE FreedKept
  <2>1. CASE c \in Post
    BY <1>7, <2>1, Held, PostHolds DEF parse_error, session_release
  <2>2. CASE c \notin Post
    BY <1>7, <2>2 DEF parse_error
  <2>. QED BY <2>1, <2>2
<1>8. ASSUME NEW p \in Post,
               post_find(p) \/ post_ack(p) \/ post_push(p)
               \/ post_message1(p) \/ post_message2(p) \/ post_release(p)
        PROVE  FreedKept
  BY Held, PostHolds, SseHolds, <1>8
     DEF post_find, session_find, session_not_found, post_ack, post_push,
         lock_write, post_message1, unlock_write, post_message2, post_release,
         session_release
<1>9. ASSUME NEW p \in Post, post_ref(p) PROVE FreedKept
  <2>1. target[p] \in Sse /\ ~freed[target[p]]
    BY <1>9, SseHolds, Held DEF post_ref, SessionsMatch, TableMatches, InTable
  <2>. QED BY <1>9, <2>1 DEF post_ref, session_ref
<1>10. ASSUME NEW r \in Rpc,
               rpc_respond(r) \/ rpc_event(r)
        PROVE  FreedKept
  BY Held, PostHolds, SseHolds, <1>10 DEF rpc_respond, rpc_event
<1>11. ASSUME NEW m \in Stream,
               stream_headers(m) \/ stream_open(m) \/ stream_keepalive(m)
               \/ stream_loop(m) \/ stream_recv_end(m)
        PROVE  FreedKept
  BY Held, PostHolds, SseHolds, <1>11
     DEF stream_headers, stream_send, stream_open, stream_keepalive,
         stream_loop, stream_recv_end
<1>12. CASE UNCHANGED vars
  BY <1>12 DEF vars
<1>. QED
  BY <1>1, <1>2, <1>3, <1>4, <1>5, <1>6, <1>7, <1>8, <1>9, <1>10, <1>11, <1>12
     DEF Next, MainExit, MainAccept, ThreadStep, ClientStep, TimeoutStep,
         SseStep, CoreStep, PostStep, RpcStep, StreamStep, read_eof,
         Terminated, Conns, Streams

----------------------------------------------------------------------------
(* How far each thread is from its end.                                    *)

(* Where a thread goes leads towards its end, or back to waiting.          *)
OnwardFrom(c) ==
    pc'[c] # pc[c] =>
        \/ StepsFrom(pc'[c]) < StepsFrom(pc[c])
        \/ /\ pc[c] = "loop" /\ pc'[c] = "recv" /\ ~g_shutdown
           /\ c \in Sse => ~closed[c]

(* A step moves one thread at most, onward.                                *)
LEMMA OnwardStep == IInv /\ [Next]_vars => \A c \in Conns : OnwardFrom(c)
<1> SUFFICES ASSUME IInv, [Next]_vars PROVE \A c \in Conns : OnwardFrom(c)
  OBVIOUS
<1> USE ConnsDisjoint
   DEF IInv, TypeOK, PcsTypeOK, goto, Conns, Streams, OnwardFrom, StepsFrom
<1>1. CASE on_signal \/ main_setup \/ main_check \/ main_accept_error
             \/ run_again \/ mcp_server_destroy \/ walk_lock \/ walk_unlock
  BY <1>1
     DEF on_signal, main_setup, main_check, main_accept_error, run_again,
         mcp_server_destroy,
         walk_lock, walk_unlock
<1>2. ASSUME NEW c \in Conns,
               main_accept(c) \/ main_drop(c) \/ read_request(c)
               \/ read_refused(c) \/ read_nothing(c) \/ send_error(c)
               \/ conn_close(c) \/ client(c)
        PROVE  \A d \in Conns : OnwardFrom(d)
  BY <1>2
     DEF main_accept, main_drop, read_request, FirstStep, read_refused,
         read_nothing, send_error, conn_close, client
<1>3. ASSUME NEW s \in Sse,
               walk_session(s) \/ sse_create(s) \/ sse_hello(s)
               \/ sse_endpoint1(s) \/ sse_endpoint2(s) \/ sse_loop(s)
               \/ sse_recv_end(s) \/ sse_keepalive(s) \/ sse_ping(s)
               \/ sse_mark_closed(s) \/ sse_unlink(s) \/ sse_release(s)
        PROVE  \A d \in Conns : OnwardFrom(d)
  BY <1>3
     DEF walk_session, sse_create, sse_hello, sse_endpoint1, sse_endpoint2,
         sse_loop, sse_recv_end, sse_keepalive, sse_ping, sse_mark_closed,
         sse_unlink, sse_release
<1>4. ASSUME NEW c \in Streams,
               recv_ignored(c) \/ recv_timeout(c)
        PROVE  \A d \in Conns : OnwardFrom(d)
  BY <1>4 DEF recv_ignored, recv_timeout
<1>5. ASSUME NEW c \in Post \cup Rpc,
               parse_ok(c) \/ parse_error(c) \/ dispatch_lock(c)
               \/ dispatch_unlock(c)
        PROVE  \A d \in Conns : OnwardFrom(d)
  BY <1>5 DEF parse_ok, parse_error, dispatch_lock, dispatch_unlock
<1>6. ASSUME NEW p \in Post,
               post_find(p) \/ post_ref(p) \/ post_ack(p) \/ post_push(p)
               \/ post_message1(p) \/ post_message2(p) \/ post_release(p)
        PROVE  \A d \in Conns : OnwardFrom(d)
  BY <1>6
     DEF post_find, post_ref, post_ack, post_push, post_message1,
         post_message2, post_release
<1>7. ASSUME NEW r \in Rpc,
               rpc_respond(r) \/ rpc_event(r)
        PROVE  \A d \in Conns : OnwardFrom(d)
  BY <1>7 DEF rpc_respond, rpc_event
<1>8. ASSUME NEW m \in Stream,
               stream_headers(m) \/ stream_open(m) \/ stream_keepalive(m)
               \/ stream_loop(m) \/ stream_recv_end(m)
        PROVE  \A d \in Conns : OnwardFrom(d)
  BY <1>8
     DEF stream_headers, stream_send, stream_open, stream_keepalive,
         stream_loop, stream_recv_end
<1>9. CASE UNCHANGED vars
  BY <1>9 DEF vars
<1>. QED
  BY <1>1, <1>2, <1>3, <1>4, <1>5, <1>6, <1>7, <1>8, <1>9, StepIs, Zenon
     DEF Steps

----------------------------------------------------------------------------
(* The invariant.                                                          *)

(* The invariant holds at the start.                                       *)
LEMMA InitIInv == Init => IInv
<1> SUFFICES ASSUME Init PROVE IInv
  OBVIOUS
<1> USE SpecialValues DEF Init, SocketsInit, SessionsInit
<1>1. TypeOK
  <2>1. SocketsTypeOK
    BY DEF SocketsTypeOK
  <2>2. SessionsTypeOK
    BY DEF SessionsTypeOK
  <2>3. PcsTypeOK
    BY DEF PcsTypeOK, SsePcs, PostPcs, RpcPcs, StreamPcs, AnyPcs, Ended, Conns
  <2>4. ThreadsTypeOK
    BY DEF ThreadsTypeOK, MainPcs
  <2>. QED BY <2>1, <2>2, <2>3, <2>4 DEF TypeOK
<1>2. FdsOwned /\ TableMatches /\ SessionsMatch /\ WalkReaches
  BY DEF FdsOwned, TableMatches, SessionsMatch, WalkReaches, Ended, InTable,
     SseServing, PostHolding, Opened, Conns, Waiting
<1>3. \A s \in Sse : Holders(s) = {}
  BY DEF Holders, SseServing, PostHolding, Conns
<1>4. SessionMemory
  BY <1>3, FS_EmptySet DEF SessionMemory
<1>. QED BY <1>1, <1>2, <1>4 DEF IInv

(* Every step keeps it.                                                    *)
LEMMA IInvStep == IInv /\ [Next]_vars => IInv'
BY PcTypes, SocketsStep, SessionTypes, ThreadTypes, TableStep, SessionsStep,
   MemoryStep, WalkStep DEF IInv, TypeOK, SocketsKept

(* IInv is an inductive invariant of the server, for every set of clients  *)
(* and descriptors.                                                        *)
THEOREM Invariance == Spec => []IInv
<1>1. Init => IInv
  BY InitIInv
<1>2. IInv /\ [Next]_vars => IInv'
  BY IInvStep
<1>. QED BY <1>1, <1>2, PTL DEF Spec

(* Every variable keeps its type; no reference count goes below zero.      *)
THEOREM TypeCorrect == Spec => []TypeOK
<1>1. IInv => TypeOK
  BY DEF IInv
<1>. QED BY <1>1, Invariance, PTL

(* A session's count is the number of its users and it is freed exactly    *)
(* when the last of them lets it go: no use after free, no leak.           *)
(* (session_create, session_acquire, session_release.)                     *)
THEOREM SessionMemoryCorrect == Spec => []SessionMemory
<1>1. IInv => SessionMemory
  BY DEF IInv
<1>. QED BY <1>1, Invariance, PTL

(* No walk of the session list, and no lookup between its search and its   *)
(* increment, meets a freed node.                                          *)
THEOREM NoWalkOverFreedCorrect == Spec => []NoWalkOverFreed
<1>1. IInv => NoWalkOverFreed
  <2> SUFFICES ASSUME IInv, NEW s \in Sse, freed[s]
               PROVE  /\ s \notin g_sessions_head \cup toWalk
                      /\ \A p \in Post : target[p] = s => pc[p] # "ref"
    BY DEF NoWalkOverFreed
  <2>1. pc[s] \notin SseServing
    BY SseHolds, Held
  <2>. QED BY <2>1 DEF IInv, TableMatches, SessionsMatch, InTable
<1>. QED BY <1>1, Invariance, PTL

(* The descriptor of a listed session is its own connection's, so the      *)
(* shutdown walk ends the streams of sessions and nothing else.            *)
THEOREM LinkedFdOwnedCorrect == Spec => []LinkedFdOwned
<1>1. IInv => LinkedFdOwned
  BY DEF IInv, TypeOK, SessionsTypeOK, LinkedFdOwned, FdsOwned, TableMatches,
     InTable, SseServing, Ended, Conns
<1>. QED BY <1>1, Invariance, PTL

(* When mcp_server_run_http has returned no session's thread waits, to     *)
(* read or to send, on a connection that is still open.                    *)
THEOREM NoStreamLeftBehindCorrect == Spec => []NoStreamLeftBehind
<1>1. IInv => NoStreamLeftBehind
  BY DEF IInv, NoStreamLeftBehind, WalkReaches, TableMatches
<1>. QED BY <1>1, Invariance, PTL

(* No step reads, counts, locks or relinks a session that was freed.       *)
THEOREM FreedIsUntouchedCorrect == Spec => FreedIsUntouched
<1>1. IInv /\ [Next]_vars => [FreedKept]_vars
  BY FreedStep
<1>. QED BY <1>1, Invariance, PTL DEF Spec, FreedIsUntouched, FreedKept


(* Every step of a thread leads towards its end, except that a stream      *)
(* waits again as long as neither the server nor its session is at its     *)
(* end.  (mcp_http.c:434, 489.)                                            *)
THEOREM ThreadsRunOutCorrect == Spec => ThreadsRunOut
<1>1. IInv /\ [Next]_vars => [\A c \in Conns : OnwardFrom(c)]_vars
  BY OnwardStep
<1>. QED BY <1>1, Invariance, PTL DEF Spec, ThreadsRunOut, OnwardFrom

----------------------------------------------------------------------------
(* The table shares its sessions among the threads as SharedNodes does.    *)

HolderMap == [s \in Sse |-> Holders(s)]
FreedSet == {s \in Sse : freed[s]}

(* It starts as the promise says.                                          *)
LEMMA TableInit == Init => Table!Init
<1> SUFFICES ASSUME Init PROVE Table!Init
  OBVIOUS
<1>1. \A s \in Sse : Holders(s) = {}
  BY DEF Init, Holders, SseServing, PostHolding, Conns
<1>. QED BY <1>1 DEF Init, SessionsInit, Table!Init

(* Every step is one of the promise's, or none of it shows.                *)
LEMMA TableShares ==
    ASSUME IInv, [Next]_vars
    PROVE  Table!Next \/ UNCHANGED <<g_sessions_head, HolderMap, FreedSet>>
<1>0. g_sessions_head \subseteq Sse
  BY DEF IInv, TypeOK, SessionsTypeOK
<1>1. ASSUME Remains
      PROVE  Table!Next \/ UNCHANGED <<g_sessions_head, HolderMap, FreedSet>>
  <2>1. \A s \in Sse : Holders(s)' = Holders(s)
    BY <1>1 DEF Remains, HoldingKept, Holders
  <2>2. HolderMap' = HolderMap /\ FreedSet' = FreedSet
    BY <1>1, <2>1 DEF Remains, HoldingKept, HolderMap, FreedSet
  <2>3. ASSUME NEW s \in Sse, s \in g_sessions_head,
               g_sessions_head' = g_sessions_head \ {s}
        PROVE  Table!Next
    <3>1. Table!Unlist(s)
      BY <2>2, <2>3 DEF Table!Unlist, HolderMap, FreedSet
    <3>. QED BY <3>1 DEF Table!Next
  <2>. QED BY <1>0, <1>1, <2>2, <2>3 DEF Remains
<1>2. ASSUME NEW s \in Sse, NEW t \in Sse \cup Post, Joins(s, t)
      PROVE  Table!Next
  <2>1. HolderMap' = [HolderMap EXCEPT ![s] = @ \cup {t}]
    BY <1>2 DEF Joins, OnlyHoldersOf, HolderMap
  <2>2. FreedSet' = FreedSet
    BY <1>2 DEF Joins, OnlyHoldersOf, FreedSet
  <2>3. CASE /\ t = s /\ s \notin g_sessions_head /\ Holders(s) = {}
             /\ g_sessions_head' = g_sessions_head \cup {s}
    <3>1. Table!Enter(s)
      BY <1>2, <2>1, <2>2, <2>3 DEF Table!Enter, HolderMap, FreedSet, Joins
    <3>. QED BY <3>1 DEF Table!Next
  <2>4. CASE t \in Post /\ s \in g_sessions_head /\ UNCHANGED g_sessions_head
    <3>1. t # s
      BY <2>4, ConnsDisjoint
    <3>2. Table!Acquire(s, t)
      BY <1>2, <2>1, <2>2, <2>4, <3>1
         DEF Table!Acquire, HolderMap, FreedSet, Joins
    <3>. QED BY <3>2 DEF Table!Next
  <2>. QED BY <1>2, <2>3, <2>4 DEF Joins
<1>3. ASSUME NEW s \in Sse, NEW t \in Sse \cup Post, Leaves(s, t)
      PROVE  Table!Next
  <2>1. HolderMap' = [HolderMap EXCEPT ![s] = @ \ {t}]
    BY <1>3 DEF Leaves, OnlyHoldersOf, HolderMap
  <2>2. freed'[s] <=> Holders(s) = {t}
    BY <1>3, HolderRemoved DEF Leaves
  <2>3. FreedSet' = FreedSet \cup {m \in {s} : HolderMap[m] = {t}}
    BY <1>3, <2>2, HolderRemoved
       DEF Leaves, OnlyHoldersOf, HolderMap, FreedSet
  <2>4. Table!Release(s, t)
    BY <1>3, <2>1, <2>3
       DEF Leaves, session_release, Table!Release, HolderMap, FreedSet
  <2>. QED BY <2>4 DEF Table!Next
<1>. QED BY <1>1, <1>2, <1>3, SharingStep DEF Sharing

(* The lock, the search and count in two steps, and the count each thread  *)
(* takes down by itself keep the promise: a session is entered, found and  *)
(* taken off the table by those who may, and freed by its last user only.  *)
(* (mcp_http.c:73-171.)                                                    *)
THEOREM SessionsAreSharedCorrect == Spec => SessionsAreShared
<1>1. IInv /\ [Next]_vars =>
          [Table!Next]_<<g_sessions_head, HolderMap, FreedSet>>
  BY TableShares
<1>. QED
  BY <1>1, TableInit, Invariance, PTL
     DEF Spec, SessionsAreShared, Table!Spec, HolderMap, FreedSet
============================================================================
