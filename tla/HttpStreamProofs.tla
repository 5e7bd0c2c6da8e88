-------------------------- MODULE HttpStreamProofs --------------------------
(***************************************************************************)
(* What the clients of /sse read, for every set of clients: HttpServer     *)
(* implements EventStreams, and no response is lost on the way to a live   *)
(* stream.                                                                 *)
(*                                                                         *)
(* SInv is inductive next to IInv.  Three lemmas say what a step may do:   *)
(* to the links (LinkStep), to one stream (StreamStepped) and to one POST  *)
(* (PostStepped).  The conjuncts of SInv follow from these without another *)
(* look at the actions.                                                    *)
(***************************************************************************)
EXTENDS HttpServerProofs

----------------------------------------------------------------------------
(* What a write does.                                                      *)

Puts(c, x) ==
    /\ link[c] # "down"
    /\ link' = link
    /\ wire' = [wire EXCEPT ![c] = Append(@, x)]

Fails(c) ==
    /\ wire' = wire
    /\ link' = [link EXCEPT ![c] = "down"]

EndedDown == \A c \in Conns : pc[c] \in Ended => link[c] = "down"

(* A thread that writes to its own connection reaches it, or resets it.    *)
LEMMA OwnWrite ==
    ASSUME IInv, NEW c \in Conns, pc[c] \notin Ended, NEW x, x.to = c,
           NEW ok \in BOOLEAN, write_full(fd[c], x, ok)
    PROVE  IF ok THEN Puts(c, x) ELSE Fails(c)
<1>1. owner[fd[c]] = c /\ c # None
  BY SpecialValues DEF IInv, FdsOwned
<1>. QED BY <1>1 DEF write_full, MaySend, Puts, Fails

(* A POST that writes to its session's stream reaches it, or the stream's  *)
(* connection is down: a descriptor that has changed hands was closed.     *)
LEMMA PostWrite ==
    ASSUME IInv, EndedDown, NEW p \in Post, pc[p] \in PostHolding,
           NEW x, x.to = target[p], NEW ok \in BOOLEAN,
           write_full(fd[target[p]], x, ok)
    PROVE  \/ ok /\ Puts(target[p], x)
           \/ wire' = wire /\ link'[target[p]] = "down"
<1> DEFINE s == target[p]
<1>1. s \in Sse /\ s \in Conns /\ s # None /\ fd[s] \in Fds
  BY TargetFd, SpecialValues DEF IInv, SessionsMatch, Conns
<1>2. link \in [Conns -> {"up", "stalled", "peerclosed", "down"}]
      /\ owner \in [Fds -> Conns \cup {None}]
  BY DEF IInv, TypeOK, SocketsTypeOK
<1>3. CASE owner[fd[s]] = s
  BY <1>1, <1>2, <1>3 DEF write_full, MaySend, Puts
<1>4. CASE owner[fd[s]] # s
  <2>1. link[s] = "down"
    BY <1>1, <1>4 DEF IInv, FdsOwned, EndedDown
  <2>2. wire' = wire
    BY <1>4 DEF write_full
  <2>3. link'[s] = "down"
    BY <1>1, <1>2, <2>1 DEF write_full
  <2>. QED BY <2>2, <2>3
<1>. QED BY <1>3, <1>4

----------------------------------------------------------------------------
(* What a step does to the links.                                          *)

Gone == {"peerclosed", "down"}

(* A connection that ended stays ended, and one that is over is down.      *)
LinksKept ==
    /\ \A c \in Conns : pc[c] # "idle" /\ link[c] \in Gone => link'[c] \in Gone
    /\ EndedDown'

(* What a step does to the connections of streams.                         *)
LEMMA LinkStep == IInv /\ SInv /\ [Next]_vars => LinksKept
<1> SUFFICES ASSUME IInv, SInv, [Next]_vars PROVE LinksKept
  OBVIOUS
<1> USE DEF LinksKept, EndedDown, Gone, SInv, TargetsGreeted, goto, Ended,
            sockVars
<1>0. /\ link \in [Conns -> {"up", "stalled", "peerclosed", "down"}]
      /\ owner \in [Fds -> Conns \cup {None}]
      /\ pc \in [Conns -> SsePcs \cup PostPcs \cup RpcPcs \cup StreamPcs]
      /\ \A c \in Conns : pc[c] \notin Ended => owner[fd[c]] = c /\ fd[c] \in Fds
  BY DEF IInv, TypeOK, SocketsTypeOK, PcsTypeOK, FdsOwned
<1>00. \A f, x, ok : write_full(f, x, ok) =>
           \A c \in Conns : link'[c] \in {link[c], "down"}
  BY <1>0 DEF write_full
<1> USE DEF Conns, Streams
<1>1. CASE on_signal \/ main_setup \/ main_check \/ main_accept_error
             \/ run_again \/ mcp_server_destroy \/ walk_lock \/ walk_unlock
  BY <1>0, <1>1
     DEF on_signal, main_setup, main_check, main_accept_error, run_again,
         mcp_server_destroy, walk_lock, walk_unlock
<1>2. ASSUME NEW c \in Conns,
               main_accept(c)
        PROVE  LinksKept
  BY <1>0, Bounds, <1>2
     DEF main_accept, accept
<1>3. ASSUME NEW c \in Conns,
               main_drop(c)
        PROVE  LinksKept
  BY <1>0, <1>3
     DEF main_drop
<1>4. ASSUME NEW c \in Conns,
               read_request(c) \/ read_refused(c) \/ read_nothing(c)
        PROVE  LinksKept
  BY <1>0, <1>4
     DEF read_request, FirstStep, read_refused, read_nothing
<1>5. ASSUME NEW c \in Conns,
               send_error(c)
        PROVE  LinksKept
  BY <1>0, <1>00, <1>5
     DEF send_error
<1>6. ASSUME NEW c \in Conns,
               conn_close(c)
        PROVE  LinksKept
  <2>1. owner[fd[c]] = c /\ fd[c] \in Fds /\ c # None
    BY <1>0, <1>6, SpecialValues DEF conn_close
  <2>. QED BY <1>0, <2>1, <1>6 DEF conn_close, close
<1>7. ASSUME NEW c \in Conns,
               client(c)
        PROVE  LinksKept
  BY <1>0, <1>7
     DEF client, peer_closes, peer_stalls, peer_drains
<1>8. ASSUME NEW t \in Sse,
               walk_session(t)
        PROVE  LinksKept
  BY <1>0, <1>8
     DEF walk_session, shutdown
<1>9. ASSUME NEW t \in Sse,
               sse_create(t) \/ sse_loop(t) \/ sse_recv_end(t)
               \/ sse_keepalive(t) \/ sse_mark_closed(t) \/ sse_unlink(t)
               \/ sse_release(t)
        PROVE  LinksKept
  BY <1>0, <1>9
     DEF sse_create, session_create, sse_loop, sse_recv_end, sse_keepalive,
         lock_write, sse_mark_closed, sse_unlink, session_unlink, sse_release,
         session_release
<1>10. ASSUME NEW t \in Sse,
               sse_hello(t) \/ sse_endpoint1(t) \/ sse_endpoint2(t)
               \/ sse_ping(t)
        PROVE  LinksKept
  BY <1>0, <1>00, <1>10
     DEF sse_hello, lock_write, sse_endpoint1, unlock_write, sse_endpoint2,
         sse_ping
<1>11. ASSUME NEW c \in Streams,
               recv_ignored(c) \/ recv_timeout(c)
        PROVE  LinksKept
  BY <1>0, <1>11
     DEF recv_ignored, recv_timeout
<1>12. ASSUME NEW c \in Post \cup Rpc,
               parse_ok(c) \/ parse_error(c) \/ dispatch_lock(c)
               \/ dispatch_unlock(c)
        PROVE  LinksKept
  BY <1>0, <1>12
     DEF parse_ok, parse_error, session_release, dispatch_lock,
         dispatch_unlock
<1>13. ASSUME NEW p \in Post,
               post_find(p) \/ post_ref(p) \/ post_push(p) \/ post_release(p)
        PROVE  LinksKept
  BY <1>0, <1>13
     DEF post_find, session_find, session_not_found, post_ref, session_ref,
         post_push, lock_write, post_release, session_release
<1>14. ASSUME NEW p \in Post,
               post_ack(p)
        PROVE  LinksKept
  BY <1>0, <1>00, <1>14
     DEF post_ack
<1>15. ASSUME NEW p \in Post,
               post_message1(p)
        PROVE  LinksKept
  BY <1>0, <1>00, <1>15
     DEF post_message1, unlock_write
<1>16. ASSUME NEW p \in Post,
               post_message2(p)
        PROVE  LinksKept
  BY <1>0, <1>00, <1>16
     DEF post_message2, unlock_write
<1>17. ASSUME NEW r \in Rpc,
               rpc_respond(r) \/ rpc_event(r)
        PROVE  LinksKept
  BY <1>0, <1>00, <1>17
     DEF rpc_respond, rpc_event
<1>18. ASSUME NEW m \in Stream,
               stream_headers(m) \/ stream_open(m) \/ stream_keepalive(m)
        PROVE  LinksKept
  BY <1>0, <1>00, <1>18
     DEF stream_headers, stream_send, stream_open, stream_keepalive
<1>19. ASSUME NEW m \in Stream,
               stream_loop(m) \/ stream_recv_end(m)
        PROVE  LinksKept
  BY <1>0, <1>19
     DEF stream_loop, stream_recv_end
<1>20. CASE UNCHANGED vars
  BY <1>0, <1>20
     DEF vars, sockVars, sessVars, mainVars, postVars
<1>. QED
  BY <1>1, <1>2, <1>3, <1>4, <1>5, <1>6, <1>7, <1>8, <1>9, <1>10, <1>11,
     <1>12, <1>13, <1>14, <1>15, <1>16, <1>17, <1>18, <1>19, <1>20
     DEF Next, MainExit, MainAccept, ThreadStep, ClientStep, TimeoutStep,
         SseStep, CoreStep, PostStep, RpcStep, StreamStep, read_eof,
         Terminated, Conns, Streams


----------------------------------------------------------------------------
(* What a step does to one stream.                                         *)

Silent == {"idle", "read", "reply", "create", "hello"}
Greeting == {"endpoint1", "endpoint2"}
Looping == {"loop"} \cup Waiting

(* The stream's thread sends, and goes from one place to another.          *)
Sends(s, from, kind, part, to) ==
    /\ pc[s] = from
    /\ Puts(s, piece(s, s, kind, part))
    /\ pc' = [pc EXCEPT ![s] = to]
    /\ target' = target

(* A POST does, for its session.                                           *)
Pushes(p, s, from, part, to) ==
    /\ target[p] = s
    /\ pc[p] = from
    /\ Puts(s, piece(s, p, "message", part))
    /\ pc' = [pc EXCEPT ![p] = to]
    /\ target' = target

Moves(s) ==
    \/ Sends(s, "reply", "reply", 0, "close")
    \/ Sends(s, "hello", "headers", 0, "endpoint1")
    \/ Sends(s, "endpoint1", "endpoint", 1, "endpoint2")
    \/ Sends(s, "endpoint2", "endpoint", 2, "loop")
    \/ Sends(s, "ping", "keepalive", 0, "loop")
    \/ \E p \in Post : \/ Pushes(p, s, "message1", 1, "message2")
                       \/ Pushes(p, s, "message2", 2, "release")

(* Nothing is sent on it; who left an event unfinished found it down.      *)
Still(s) ==
    /\ wire'[s] = wire[s]
    /\ pc'[s] \in Silent => pc[s] \in Silent
    /\ pc'[s] \in Greeting => pc'[s] = pc[s]
    /\ pc'[s] \in Looping => pc[s] \in Looping
    /\ pc[s] \in Greeting => pc'[s] = pc[s] \/ link'[s] = "down"
    /\ \A p \in Post : pc[p] = "message2" /\ target[p] = s =>
          \/ pc'[p] = "message2" /\ target'[p] = s
          \/ link'[s] = "down"

StreamKept == \A s \in Sse : Moves(s) \/ Still(s)

(* What a step of a stream's thread does to its stream.                    *)
LEMMA StreamStepped == IInv /\ SInv /\ [Next]_vars => StreamKept
<1> SUFFICES ASSUME IInv, SInv, [Next]_vars PROVE StreamKept
  OBVIOUS
<1> USE ConnsDisjoint
    DEF StreamKept, Still, goto, Conns, Streams, Silent, Greeting, Looping,
        Waiting, sockVars, postVars
<1>0. /\ pc \in [Conns -> SsePcs \cup PostPcs \cup RpcPcs \cup StreamPcs]
      /\ wire \in [Conns -> Seq(Piece)]
      /\ target \in [Post -> Sse \cup {None}]
      /\ link \in [Conns -> {"up", "stalled", "peerclosed", "down"}]
      /\ EndedDown
  BY DEF IInv, TypeOK, SocketsTypeOK, PcsTypeOK, ThreadsTypeOK, SInv,
         TargetsGreeted, EndedDown
<1>00. ASSUME NEW c \in Conns, pc[c] \notin Ended, NEW kind, NEW part,
             NEW ok \in BOOLEAN,
             write_full(fd[c], piece(c, c, kind, part), ok)
       PROVE  IF ok THEN Puts(c, piece(c, c, kind, part)) ELSE Fails(c)
  BY <1>00, OwnWrite DEF piece
<1>1. CASE on_signal \/ main_setup \/ main_check \/ main_accept_error
             \/ run_again \/ mcp_server_destroy \/ walk_lock \/ walk_unlock
  BY <1>0, <1>1
     DEF on_signal, main_setup, main_check, main_accept_error, run_again,
         mcp_server_destroy, walk_lock, walk_unlock
<1>2. ASSUME NEW c \in Conns,
               main_accept(c)
        PROVE  StreamKept
  BY <1>0, <1>2
     DEF main_accept, accept
<1>3. ASSUME NEW c \in Conns,
               main_drop(c)
        PROVE  StreamKept
  BY <1>0, <1>3
     DEF main_drop
<1>4. ASSUME NEW c \in Conns,
               read_request(c) \/ read_refused(c) \/ read_nothing(c)
        PROVE  StreamKept
  BY <1>0, <1>4
     DEF read_request, FirstStep, read_refused, read_nothing
<1>5. ASSUME NEW c \in Conns,
               send_error(c)
        PROVE  StreamKept
  <2>1. PICK ok \in BOOLEAN : write_full(fd[c], piece(c, c, "reply", 0), ok)
    BY <1>5 DEF send_error
  <2>2. IF ok THEN Puts(c, piece(c, c, "reply", 0)) ELSE Fails(c)
    BY <1>00, <2>1, <1>5 DEF send_error, Ended
  <2>3. ASSUME NEW s \in Sse, s = c PROVE Moves(s) \/ Still(s)
    BY <1>0, <2>2, <2>3, <1>5 DEF send_error, Moves, Sends, Fails
  <2>4. ASSUME NEW s \in Sse, s # c PROVE Still(s)
    BY <1>0, <2>2, <2>4, <1>5 DEF send_error, Puts, Fails
  <2>. QED BY <2>3, <2>4
<1>6. ASSUME NEW c \in Conns,
               conn_close(c)
        PROVE  StreamKept
  BY <1>0, <1>6
     DEF conn_close, close
<1>7. ASSUME NEW c \in Conns,
               client(c)
        PROVE  StreamKept
  BY <1>0, <1>7
     DEF client, peer_closes, peer_stalls, peer_drains
<1>8. ASSUME NEW t \in Sse,
               walk_session(t)
        PROVE  StreamKept
  BY <1>0, <1>8
     DEF walk_session, shutdown
<1>9. ASSUME NEW t \in Sse,
               sse_create(t) \/ sse_loop(t) \/ sse_recv_end(t)
               \/ sse_keepalive(t) \/ sse_mark_closed(t) \/ sse_unlink(t)
               \/ sse_release(t)
        PROVE  StreamKept
  BY <1>0, <1>9
     DEF sse_create, session_create, sse_loop, sse_recv_end, sse_keepalive,
         lock_write, sse_mark_closed, sse_unlink, session_unlink, sse_release,
         session_release
<1>10. ASSUME NEW t \in Sse,
               sse_hello(t) \/ sse_endpoint1(t) \/ sse_endpoint2(t)
               \/ sse_ping(t)
        PROVE  StreamKept
  <2>1. PICK ok \in BOOLEAN, kind \in Kinds, part \in 0..2 :
             /\ write_full(fd[t], piece(t, t, kind, part), ok)
             /\ ok => \/ sse_hello(t) /\ kind = "headers" /\ part = 0
                           /\ pc' = [pc EXCEPT ![t] = "endpoint1"]
                      \/ sse_endpoint1(t) /\ kind = "endpoint" /\ part = 1
                           /\ pc' = [pc EXCEPT ![t] = "endpoint2"]
                      \/ sse_endpoint2(t) /\ kind = "endpoint" /\ part = 2
                           /\ pc' = [pc EXCEPT ![t] = "loop"]
                      \/ sse_ping(t) /\ kind = "keepalive" /\ part = 0
                           /\ pc' = [pc EXCEPT ![t] = "loop"]
             /\ ~ok => pc' = [pc EXCEPT ![t] = "markclosed"]
    BY <1>10 DEF sse_hello, sse_endpoint1, sse_endpoint2, sse_ping, Kinds
  <2>2. /\ pc[t] \in {"hello", "endpoint1", "endpoint2", "ping"}
        /\ target' = target
    BY <1>10 DEF sse_hello, sse_endpoint1, sse_endpoint2, sse_ping, postVars
  <2>3. IF ok THEN Puts(t, piece(t, t, kind, part)) ELSE Fails(t)
    BY <1>00, <2>1, <2>2 DEF Ended
  <2>4. ASSUME NEW s \in Sse, s = t PROVE Moves(s) \/ Still(s)
    <3>1. CASE ok
      BY <2>1, <2>2, <2>3, <2>4, <3>1
         DEF Moves, Sends, sse_hello, sse_endpoint1, sse_endpoint2,
             sse_ping
    <3>2. CASE ~ok
      BY <1>0, <2>1, <2>2, <2>3, <2>4, <3>2 DEF Fails
    <3>. QED BY <3>1, <3>2
  <2>5. ASSUME NEW s \in Sse, s # t PROVE Still(s)
    BY <1>0, <2>1, <2>2, <2>3, <2>5 DEF Puts, Fails
  <2>. QED BY <2>4, <2>5
<1>11. ASSUME NEW c \in Streams,
               recv_ignored(c) \/ recv_timeout(c)
        PROVE  StreamKept
  BY <1>0, <1>11
     DEF recv_ignored, recv_timeout
<1>12. ASSUME NEW c \in Post \cup Rpc,
               parse_ok(c) \/ parse_error(c) \/ dispatch_lock(c)
               \/ dispatch_unlock(c)
        PROVE  StreamKept
  BY <1>0, <1>12
     DEF parse_ok, parse_error, session_release, dispatch_lock,
         dispatch_unlock
<1>13. ASSUME NEW p \in Post,
               post_find(p) \/ post_ref(p) \/ post_push(p) \/ post_release(p)
        PROVE  StreamKept
  BY <1>0, <1>13
     DEF post_find, session_find, session_not_found, post_ref, session_ref,
         post_push, lock_write, post_release, session_release
<1>14. ASSUME NEW p \in Post,
               post_ack(p)
        PROVE  StreamKept
  <2>1. PICK ok \in BOOLEAN, kind \in Kinds :
               write_full(fd[p], piece(p, p, kind, 0), ok)
    BY <1>14 DEF post_ack, Kinds
  <2>2. IF ok THEN Puts(p, piece(p, p, kind, 0)) ELSE Fails(p)
    BY <1>00, <2>1, <1>14 DEF post_ack, Ended
  <2>3. \A s \in Sse : wire'[s] = wire[s]
    BY <1>0, <2>2 DEF Puts, Fails
  <2>. QED BY <1>0, <2>3, <1>14 DEF post_ack
<1>15. ASSUME NEW p \in Post,
               post_message1(p)
        PROVE  StreamKept
  <2>1. PICK ok \in BOOLEAN :
             /\ write_full(fd[target[p]], piece(target[p], p, "message", 1), ok)
             /\ pc' = [pc EXCEPT ![p] = IF ok THEN "message2" ELSE "release"]
    BY <1>15 DEF post_message1
  <2>2. pc[p] = "message1" /\ target' = target /\ target[p] \in Sse
    BY <1>15 DEF post_message1, postVars, IInv, SessionsMatch, PostHolding
  <2>3. \/ ok /\ Puts(target[p], piece(target[p], p, "message", 1))
        \/ wire' = wire
    BY <1>0, <2>1, <2>2, PostWrite DEF piece, PostHolding
  <2>4. ASSUME NEW s \in Sse PROVE Moves(s) \/ Still(s)
    <3>1. CASE ok /\ Puts(s, piece(s, p, "message", 1)) /\ s = target[p]
      BY <2>1, <2>2, <3>1 DEF Moves, Pushes
    <3>2. CASE wire'[s] = wire[s]
      BY <1>0, <2>1, <2>2, <3>2
    <3>. QED BY <1>0, <2>2, <2>3, <3>1, <3>2 DEF Puts
  <2>. QED BY <2>4
<1>16. ASSUME NEW p \in Post,
               post_message2(p)
        PROVE  StreamKept
  <2>1. PICK ok \in BOOLEAN :
             write_full(fd[target[p]], piece(target[p], p, "message", 2), ok)
    BY <1>16 DEF post_message2
  <2>2. /\ pc[p] = "message2" /\ target' = target /\ target[p] \in Sse
        /\ pc' = [pc EXCEPT ![p] = "release"]
    BY <1>16 DEF post_message2, postVars, IInv, SessionsMatch, PostHolding
  <2>3. \/ Puts(target[p], piece(target[p], p, "message", 2))
        \/ wire' = wire /\ link'[target[p]] = "down"
    BY <1>0, <2>1, <2>2, PostWrite DEF piece, PostHolding
  <2>4. ASSUME NEW s \in Sse PROVE Moves(s) \/ Still(s)
    <3>1. CASE Puts(s, piece(s, p, "message", 2)) /\ s = target[p]
      BY <2>2, <3>1 DEF Moves, Pushes
    <3>2. CASE wire'[s] = wire[s] /\ (s = target[p] => link'[s] = "down")
      BY <1>0, <2>2, <3>2
    <3>. QED BY <1>0, <2>2, <2>3, <3>1, <3>2 DEF Puts
  <2>. QED BY <2>4
<1>17. ASSUME NEW r \in Rpc,
               rpc_respond(r) \/ rpc_event(r)
        PROVE  StreamKept
  <2>1. PICK ok \in BOOLEAN, kind \in Kinds :
               write_full(fd[r], piece(r, r, kind, 0), ok)
    BY <1>17 DEF rpc_respond, rpc_event, Kinds
  <2>2. IF ok THEN Puts(r, piece(r, r, kind, 0)) ELSE Fails(r)
    BY <1>00, <2>1, <1>17 DEF rpc_respond, rpc_event, Ended
  <2>3. \A s \in Sse : wire'[s] = wire[s]
    BY <1>0, <2>2 DEF Puts, Fails
  <2>. QED BY <1>0, <2>3, <1>17 DEF rpc_respond, rpc_event
<1>18. ASSUME NEW m \in Stream,
               stream_headers(m) \/ stream_open(m) \/ stream_keepalive(m)
        PROVE  StreamKept
  <2>1. PICK ok \in BOOLEAN, kind \in Kinds :
               write_full(fd[m], piece(m, m, kind, 0), ok)
    BY <1>18 DEF stream_headers, stream_open, stream_keepalive, stream_send, Kinds
  <2>2. IF ok THEN Puts(m, piece(m, m, kind, 0)) ELSE Fails(m)
    BY <1>00, <2>1, <1>18 DEF stream_headers, stream_open, stream_keepalive,
                              stream_send, Ended
  <2>3. \A s \in Sse : wire'[s] = wire[s]
    BY <1>0, <2>2 DEF Puts, Fails
  <2>. QED BY <1>0, <2>3, <1>18 DEF stream_headers, stream_open, stream_keepalive, stream_send
<1>19. ASSUME NEW m \in Stream,
               stream_loop(m) \/ stream_recv_end(m)
        PROVE  StreamKept
  BY <1>0, <1>19
     DEF stream_loop, stream_recv_end
<1>20. CASE UNCHANGED vars
  BY <1>0, <1>20
     DEF vars, sockVars, sessVars, mainVars, postVars
<1>. QED
  BY <1>1, <1>2, <1>3, <1>4, <1>5, <1>6, <1>7, <1>8, <1>9, <1>10, <1>11,
     <1>12, <1>13, <1>14, <1>15, <1>16, <1>17, <1>18, <1>19, <1>20
     DEF Next, MainExit, MainAccept, ThreadStep, ClientStep, TimeoutStep,
         SseStep, CoreStep, PostStep, RpcStep, StreamStep, read_eof,
         Terminated, Conns, Streams


----------------------------------------------------------------------------
(* What a step does to one POST.                                           *)

AfterSend == {"message2", "release", "close", "done"}
Finished == {"release", "close", "done"}
Answering == {"ack", "push", "message1"} \cup AfterSend

TargetKept(p) ==
    /\ \/ target'[p] = target[p]
       \/ pc[p] = "read" /\ target'[p] \in KnownSessions \cup {None}
    /\ pc'[p] \in {"idle", "read"} =>
          pc[p] \in {"idle", "read"} /\ target'[p] = target[p]

SendKept(p) ==
    /\ pc[p] \in AfterSend => pc'[p] \in AfterSend
    /\ pc'[p] = "message2" =>
          \/ pc[p] = "message2"
          \/ pc[p] = "message1" /\ link'[target[p]] = "down"
          \/ /\ pc[p] = "message1"
             /\ Puts(target[p], piece(target[p], p, "message", 1))

(* A response that is not pushed met a stream that has ended.              *)
RespKept(p) ==
    /\ resp'[p] =>
          \/ resp[p] /\ pc'[p] \in Answering
          \/ pc[p] = "handling" /\ pc'[p] = "ack"
    /\ resp'[p] /\ pc'[p] \in Finished =>
          \/ pc[p] \in Finished
          \/ closed'[target[p]]
          \/ link'[target[p]] = "down"
          \/ /\ pc[p] = "message2"
             /\ Puts(target[p], piece(target[p], p, "message", 2))

PostKept == \A q \in Post : TargetKept(q) /\ SendKept(q) /\ RespKept(q)

(* What a step of a POST does to the stream it pushes to.                  *)
LEMMA PostStepped == IInv /\ SInv /\ [Next]_vars => PostKept
<1> SUFFICES ASSUME IInv, SInv, [Next]_vars PROVE PostKept
  OBVIOUS
<1> USE ConnsDisjoint
    DEF PostKept, TargetKept, SendKept, RespKept, AfterSend, Finished,
        Answering, goto, Conns, Streams, sockVars, postVars
<1>0. /\ pc \in [Conns -> SsePcs \cup PostPcs \cup RpcPcs \cup StreamPcs]
      /\ target \in [Post -> Sse \cup {None}]
      /\ resp \in [Post \cup Rpc -> BOOLEAN]
      /\ EndedDown
      /\ \A q \in Post : resp[q] => pc[q] \in Answering
      /\ \A q \in Post : pc[q] \in PostPcs
  BY DEF IInv, TypeOK, PcsTypeOK, ThreadsTypeOK, SInv, TargetsGreeted,
         EndedDown, MessagesShaped
<1>1. CASE on_signal \/ main_setup \/ main_check \/ main_accept_error
             \/ run_again \/ mcp_server_destroy \/ walk_lock \/ walk_unlock
  BY <1>0, <1>1
     DEF on_signal, main_setup, main_check, main_accept_error, run_again,
         mcp_server_destroy, walk_lock, walk_unlock
<1>2. ASSUME NEW c \in Conns,
               main_accept(c)
        PROVE  PostKept
  BY <1>0, <1>2
     DEF main_accept, accept
<1>3. ASSUME NEW c \in Conns,
               main_drop(c)
        PROVE  PostKept
  BY <1>0, <1>3
     DEF main_drop
<1>4. ASSUME NEW c \in Conns,
               read_request(c) \/ read_refused(c) \/ read_nothing(c)
        PROVE  PostKept
  BY <1>0, <1>4
     DEF read_request, FirstStep, read_refused, read_nothing
<1>5. ASSUME NEW c \in Conns,
               send_error(c)
        PROVE  PostKept
  BY <1>0, <1>5
     DEF send_error
<1>6. ASSUME NEW c \in Conns,
               conn_close(c)
        PROVE  PostKept
  BY <1>0, <1>6
     DEF conn_close, close
<1>7. ASSUME NEW c \in Conns,
               client(c)
        PROVE  PostKept
  BY <1>0, <1>7
     DEF client, peer_closes, peer_stalls, peer_drains
<1>8. ASSUME NEW t \in Sse,
               walk_session(t)
        PROVE  PostKept
  BY <1>0, <1>8
     DEF walk_session, shutdown
<1>9. ASSUME NEW t \in Sse,
               sse_create(t) \/ sse_loop(t) \/ sse_recv_end(t)
               \/ sse_keepalive(t) \/ sse_mark_closed(t) \/ sse_unlink(t)
               \/ sse_release(t)
        PROVE  PostKept
  BY <1>0, <1>9
     DEF sse_create, session_create, sse_loop, sse_recv_end, sse_keepalive,
         lock_write, sse_mark_closed, sse_unlink, session_unlink, sse_release,
         session_release
<1>10. ASSUME NEW t \in Sse,
               sse_hello(t) \/ sse_endpoint1(t) \/ sse_endpoint2(t)
               \/ sse_ping(t)
        PROVE  PostKept
  BY <1>0, <1>10
     DEF sse_hello, lock_write, sse_endpoint1, unlock_write, sse_endpoint2,
         sse_ping
<1>11. ASSUME NEW c \in Streams,
               recv_ignored(c) \/ recv_timeout(c)
        PROVE  PostKept
  BY <1>0, <1>11
     DEF recv_ignored, recv_timeout
<1>12. ASSUME NEW c \in Post \cup Rpc,
               parse_ok(c) \/ parse_error(c) \/ dispatch_lock(c)
               \/ dispatch_unlock(c)
        PROVE  PostKept
  BY <1>0, <1>12
     DEF PostPcs, PostHolding, parse_ok, parse_error, session_release,
         dispatch_lock, dispatch_unlock
<1>13. ASSUME NEW p \in Post,
               post_find(p) \/ post_ref(p) \/ post_push(p) \/ post_release(p)
        PROVE  PostKept
  BY <1>0, <1>13
     DEF sessVars, post_find, session_find, session_not_found, post_ref,
         session_ref, post_push, lock_write, post_release, session_release
<1>14. ASSUME NEW p \in Post,
               post_ack(p)
        PROVE  PostKept
  BY <1>0, <1>14
     DEF post_ack
<1>15. ASSUME NEW p \in Post,
               post_message1(p)
        PROVE  PostKept
  <2>1. PICK ok \in BOOLEAN :
             /\ write_full(fd[target[p]], piece(target[p], p, "message", 1), ok)
             /\ pc' = [pc EXCEPT ![p] = IF ok THEN "message2" ELSE "release"]
    BY <1>15 DEF post_message1
  <2>2. \/ ok /\ Puts(target[p], piece(target[p], p, "message", 1))
        \/ link'[target[p]] = "down"
    BY <1>0, <2>1, PostWrite, <1>15 DEF piece, PostHolding, post_message1
  <2>. QED BY <1>0, <2>1, <2>2, <1>15 DEF post_message1
<1>16. ASSUME NEW p \in Post,
               post_message2(p)
        PROVE  PostKept
  <2>1. PICK ok \in BOOLEAN :
             /\ write_full(fd[target[p]], piece(target[p], p, "message", 2), ok)
    BY <1>16 DEF post_message2
  <2>2. \/ ok /\ Puts(target[p], piece(target[p], p, "message", 2))
        \/ link'[target[p]] = "down"
    BY <1>0, <2>1, PostWrite, <1>16 DEF piece, PostHolding, post_message2
  <2>. QED BY <1>0, <2>1, <2>2, <1>16 DEF post_message2
<1>17. ASSUME NEW r \in Rpc,
               rpc_respond(r) \/ rpc_event(r)
        PROVE  PostKept
  BY <1>0, <1>17
     DEF rpc_respond, rpc_event
<1>18. ASSUME NEW m \in Stream,
               stream_headers(m) \/ stream_open(m) \/ stream_keepalive(m)
        PROVE  PostKept
  BY <1>0, <1>18
     DEF stream_headers, stream_send, stream_open, stream_keepalive
<1>19. ASSUME NEW m \in Stream,
               stream_loop(m) \/ stream_recv_end(m)
        PROVE  PostKept
  BY <1>0, <1>19
     DEF stream_loop, stream_recv_end
<1>20. CASE UNCHANGED vars
  BY <1>0, <1>20
     DEF vars, sockVars, sessVars, mainVars, postVars
<1>. QED
  BY <1>1, <1>2, <1>3, <1>4, <1>5, <1>6, <1>7, <1>8, <1>9, <1>10, <1>11,
     <1>12, <1>13, <1>14, <1>15, <1>16, <1>17, <1>18, <1>19, <1>20
     DEF Next, MainExit, MainAccept, ThreadStep, ClientStep, TimeoutStep,
         SseStep, CoreStep, PostStep, RpcStep, StreamStep, read_eof,
         Terminated, Conns, Streams


----------------------------------------------------------------------------
(* What a step does to the locks and flags of a session.                   *)

ClosedStays == \A s \in Sse : closed[s] => closed'[s]

(* closed is never taken back.                                             *)
LEMMA ClosedStep == IInv /\ [Next]_vars => ClosedStays
<1> SUFFICES ASSUME IInv, [Next]_vars, NEW s \in Sse, closed[s]
             PROVE  closed'[s]
  BY DEF ClosedStays
<1>1. closed \in [Sse -> BOOLEAN] /\ pc[s] \in Opened
  BY DEF IInv, TypeOK, SessionsTypeOK, SessionsMatch
<1> USE DEF sessVars
<1>2. CASE on_signal \/ main_setup \/ main_check \/ main_accept_error
             \/ run_again \/ mcp_server_destroy \/ walk_lock \/ walk_unlock
  BY <1>2 DEF on_signal, main_setup, main_check, main_accept_error, run_again,
              mcp_server_destroy, walk_lock, walk_unlock
<1>3. ASSUME NEW c \in Conns,
               main_accept(c) \/ main_drop(c) \/ read_request(c)
               \/ read_refused(c) \/ read_nothing(c) \/ send_error(c)
               \/ conn_close(c) \/ client(c)
        PROVE  closed'[s]
  BY <1>3 DEF main_accept, main_drop, read_request, read_refused,
              read_nothing, send_error, conn_close, client
<1>4. ASSUME NEW t \in Sse, sse_create(t) PROVE closed'[s]
  BY <1>1, <1>4 DEF sse_create, session_create, Opened, SseServing
<1>5. ASSUME NEW t \in Sse,
               walk_session(t) \/ sse_hello(t)
               \/ sse_endpoint1(t) \/ sse_endpoint2(t) \/ sse_loop(t)
               \/ sse_recv_end(t) \/ sse_keepalive(t) \/ sse_ping(t)
               \/ sse_mark_closed(t) \/ sse_unlink(t) \/ sse_release(t)
        PROVE  closed'[s]
  BY <1>1, <1>5
     DEF walk_session, sse_hello, lock_write, sse_endpoint1, unlock_write,
         sse_endpoint2, sse_loop, sse_recv_end, sse_keepalive, sse_ping,
         sse_mark_closed, sse_unlink, session_unlink, sse_release,
         session_release
<1>6. ASSUME NEW c \in Streams, recv_ignored(c) \/ recv_timeout(c)
        PROVE  closed'[s]
  BY <1>6 DEF recv_ignored, recv_timeout
<1>7. ASSUME NEW c \in Post \cup Rpc,
               parse_ok(c) \/ parse_error(c) \/ dispatch_lock(c)
               \/ dispatch_unlock(c)
        PROVE  closed'[s]
  BY <1>7 DEF parse_ok, parse_error, session_release, dispatch_lock,
              dispatch_unlock
<1>8. ASSUME NEW p \in Post,
               post_find(p) \/ post_ref(p) \/ post_ack(p) \/ post_push(p)
               \/ post_message1(p) \/ post_message2(p) \/ post_release(p)
        PROVE  closed'[s]
  BY <1>8
     DEF post_find, session_find, session_not_found, post_ref, session_ref,
         post_ack, post_push, lock_write, post_message1, unlock_write,
         post_message2, post_release, session_release
<1>9. ASSUME NEW r \in Rpc, rpc_respond(r) \/ rpc_event(r)
        PROVE  closed'[s]
  BY <1>9 DEF rpc_respond, rpc_event
<1>10. ASSUME NEW m \in Stream,
               stream_headers(m) \/ stream_open(m) \/ stream_keepalive(m)
               \/ stream_loop(m) \/ stream_recv_end(m)
        PROVE  closed'[s]
  BY <1>10 DEF stream_headers, stream_send, stream_open, stream_keepalive,
               stream_loop, stream_recv_end
<1>11. CASE UNCHANGED vars
  BY <1>11 DEF vars
<1>. QED
  BY <1>2, <1>3, <1>4, <1>5, <1>6, <1>7, <1>8, <1>9, <1>10, <1>11, StepIs
     DEF Steps

(* write_lock is held by those who write, one at a time.                   *)
LEMMA LocksStep == IInv /\ SInv /\ [Next]_vars => WriteLocks'
<1> SUFFICES ASSUME IInv, SInv, [Next]_vars PROVE WriteLocks'
  OBVIOUS
<1> USE ConnsDisjoint
    DEF WriteLocks, Sending, goto, Conns, Streams, sessVars, postVars
<1>0. /\ pc \in [Conns -> SsePcs \cup PostPcs \cup RpcPcs \cup StreamPcs]
      /\ write_lock \in [Sse -> Conns \cup {None}]
      /\ target \in [Post -> Sse \cup {None}]
      /\ None \notin Conns
      /\ WriteLocks
      /\ \A p \in Post : pc[p] \in PostHolding => target[p] \in Sse
  BY SpecialValues
     DEF IInv, TypeOK, SessionsTypeOK, PcsTypeOK, ThreadsTypeOK, SInv,
         SessionsMatch
<1>1. CASE on_signal \/ main_setup \/ main_check \/ main_accept_error
             \/ run_again \/ mcp_server_destroy \/ walk_lock \/ walk_unlock
  BY <1>0, <1>1
     DEF on_signal, main_setup, main_check, main_accept_error, run_again,
         mcp_server_destroy, walk_lock, walk_unlock
<1>2. ASSUME NEW c \in Conns,
               main_accept(c)
        PROVE  WriteLocks'
  BY <1>0, <1>2
     DEF main_accept, accept
<1>3. ASSUME NEW c \in Conns,
               main_drop(c)
        PROVE  WriteLocks'
  BY <1>0, <1>3
     DEF main_drop
<1>4. ASSUME NEW c \in Conns,
               read_request(c) \/ read_refused(c) \/ read_nothing(c)
        PROVE  WriteLocks'
  BY <1>0, <1>4
     DEF read_request, FirstStep, read_refused, read_nothing
<1>5. ASSUME NEW c \in Conns,
               send_error(c)
        PROVE  WriteLocks'
  BY <1>0, <1>5
     DEF send_error
<1>6. ASSUME NEW c \in Conns,
               conn_close(c)
        PROVE  WriteLocks'
  BY <1>0, <1>6
     DEF conn_close, close
<1>7. ASSUME NEW c \in Conns,
               client(c)
        PROVE  WriteLocks'
  BY <1>0, <1>7
     DEF client, peer_closes, peer_stalls, peer_drains
<1>8. ASSUME NEW t \in Sse,
               walk_session(t)
        PROVE  WriteLocks'
  BY <1>0, <1>8
     DEF walk_session, shutdown
<1>9. ASSUME NEW t \in Sse,
               sse_create(t) \/ sse_loop(t) \/ sse_recv_end(t)
               \/ sse_keepalive(t) \/ sse_mark_closed(t) \/ sse_unlink(t)
               \/ sse_release(t)
        PROVE  WriteLocks'
  BY <1>0, <1>9
     DEF sse_create, session_create, sse_loop, sse_recv_end, sse_keepalive,
         lock_write, sse_mark_closed, sse_unlink, session_unlink, sse_release,
         session_release
<1>10. ASSUME NEW t \in Sse,
               sse_hello(t) \/ sse_endpoint1(t) \/ sse_endpoint2(t)
               \/ sse_ping(t)
        PROVE  WriteLocks'
  BY <1>0, <1>10
     DEF sse_hello, lock_write, sse_endpoint1, unlock_write, sse_endpoint2,
         sse_ping
<1>11. ASSUME NEW c \in Streams,
               recv_ignored(c) \/ recv_timeout(c)
        PROVE  WriteLocks'
  BY <1>0, <1>11
     DEF recv_ignored, recv_timeout
<1>12. ASSUME NEW c \in Post \cup Rpc,
               parse_ok(c) \/ parse_error(c) \/ dispatch_lock(c)
               \/ dispatch_unlock(c)
        PROVE  WriteLocks'
  BY <1>0, <1>12
     DEF parse_ok, parse_error, session_release, dispatch_lock,
         dispatch_unlock
<1>13. ASSUME NEW p \in Post,
               post_find(p) \/ post_ref(p) \/ post_push(p) \/ post_release(p)
        PROVE  WriteLocks'
  BY <1>0, <1>13
     DEF PostHolding, post_find, session_find, session_not_found, post_ref,
         session_ref, post_push, lock_write, post_release, session_release
<1>14. ASSUME NEW p \in Post,
               post_ack(p)
        PROVE  WriteLocks'
  BY <1>0, <1>14
     DEF post_ack
<1>15. ASSUME NEW p \in Post,
               post_message1(p)
        PROVE  WriteLocks'
  BY <1>0, <1>15
     DEF PostHolding, post_message1, unlock_write
<1>16. ASSUME NEW p \in Post,
               post_message2(p)
        PROVE  WriteLocks'
  BY <1>0, <1>16
     DEF PostHolding, post_message2, unlock_write
<1>17. ASSUME NEW r \in Rpc,
               rpc_respond(r) \/ rpc_event(r)
        PROVE  WriteLocks'
  BY <1>0, <1>17
     DEF rpc_respond, rpc_event
<1>18. ASSUME NEW m \in Stream,
               stream_headers(m) \/ stream_open(m) \/ stream_keepalive(m)
        PROVE  WriteLocks'
  BY <1>0, <1>18
     DEF stream_headers, stream_send, stream_open, stream_keepalive
<1>19. ASSUME NEW m \in Stream,
               stream_loop(m) \/ stream_recv_end(m)
        PROVE  WriteLocks'
  BY <1>0, <1>19
     DEF stream_loop, stream_recv_end
<1>20. CASE UNCHANGED vars
  BY <1>0, <1>20
     DEF vars, sockVars, sessVars, mainVars, postVars
<1>. QED
  BY <1>1, <1>2, <1>3, <1>4, <1>5, <1>6, <1>7, <1>8, <1>9, <1>10, <1>11,
     <1>12, <1>13, <1>14, <1>15, <1>16, <1>17, <1>18, <1>19, <1>20
     DEF Next, MainExit, MainAccept, ThreadStep, ClientStep, TimeoutStep,
         SseStep, CoreStep, PostStep, RpcStep, StreamStep, read_eof,
         Terminated, Conns, Streams


----------------------------------------------------------------------------
(* What a piece more does to what was sent.                                *)

StreamTypes ==
    /\ wire \in [Conns -> Seq(Piece)]
    /\ pc \in [Conns -> SsePcs \cup PostPcs \cup RpcPcs \cup StreamPcs]
    /\ \A s \in Sse : wire[s] # <<>> => Len(wire[s]) \in DOMAIN wire[s]

(* The types the streams need are part of IInv.                            *)
LEMMA StreamTypesHold == IInv => StreamTypes
<1>1. \A w \in Seq(Piece) : w # <<>> => Len(w) \in DOMAIN w
  OBVIOUS
<1>. QED BY <1>1 DEF IInv, TypeOK, SocketsTypeOK, PcsTypeOK, StreamTypes, Conns

(* What one send leaves on the wire.                                       *)
LEMMA Sent ==
    ASSUME StreamTypes, NEW s \in Sse, NEW x \in Piece, Puts(s, x)
    PROVE  /\ wire'[s] # <<>>
           /\ wire'[s][Len(wire'[s])] = x
           /\ \A y : (\E i \in DOMAIN wire'[s] : wire'[s][i] = y)
                       <=> SentTo(s, y) \/ y = x
           /\ wire'[s][1] = IF wire[s] = <<>> THEN x ELSE wire[s][1]
           /\ \A t \in Sse : t # s => wire'[t] = wire[t]
<1> DEFINE n == Len(wire[s])
<1>1. wire[s] \in Seq(Piece) /\ s \in Conns /\ n \in Nat
  BY DEF StreamTypes, Conns
<1>2. wire'[s] = Append(wire[s], x) /\ \A t \in Sse : t # s => wire'[t] = wire[t]
  BY <1>1 DEF Puts, StreamTypes, Conns
<1>3. /\ Len(wire'[s]) = n + 1
      /\ DOMAIN wire'[s] = 1..n + 1
      /\ wire'[s][n + 1] = x
      /\ \A i \in 1..n : wire'[s][i] = wire[s][i]
      /\ DOMAIN wire[s] = 1..n
      /\ wire[s] = <<>> <=> n = 0
  BY <1>1, <1>2
<1>4. wire'[s] # <<>>
  BY <1>1, <1>2
<1>5. ASSUME NEW y, NEW i \in DOMAIN wire'[s], wire'[s][i] = y
      PROVE  SentTo(s, y) \/ y = x
  <2>1. i = n + 1 \/ i \in 1..n
    BY <1>1, <1>3, <1>5
  <2>. QED BY <1>3, <1>5, <2>1 DEF SentTo
<1>6. ASSUME NEW y, SentTo(s, y) \/ y = x
      PROVE  \E i \in DOMAIN wire'[s] : wire'[s][i] = y
  <2>1. CASE y = x
    <3>1. n + 1 \in DOMAIN wire'[s]
      BY <1>1, <1>3
    <3>. QED BY <1>3, <2>1, <3>1
  <2>2. CASE SentTo(s, y)
    <3>1. PICK i \in 1..n : wire[s][i] = y
      BY <1>3, <2>2 DEF SentTo
    <3>2. i \in DOMAIN wire'[s]
      BY <1>1, <1>3
    <3>. QED BY <1>3, <3>1, <3>2
  <2>. QED BY <1>6, <2>1, <2>2
<1>7. wire'[s][1] = IF wire[s] = <<>> THEN x ELSE wire[s][1]
  BY <1>1, <1>3
<1>. QED BY <1>2, <1>3, <1>4, <1>5, <1>6, <1>7

----------------------------------------------------------------------------
(* Where a stream is when something is sent on it.                         *)

(* The piece x, with what was there before it and how the thread that      *)
(* sent it goes on.                                                        *)
Fits(s, x) ==
    \/ /\ x = piece(s, s, "reply", 0)
       /\ wire[s] = <<>>
       /\ pc' = [pc EXCEPT ![s] = "close"]
    \/ /\ x = piece(s, s, "headers", 0)
       /\ wire[s] = <<>>
       /\ pc' = [pc EXCEPT ![s] = "endpoint1"]
    \/ /\ x = piece(s, s, "endpoint", 1)
       /\ Greeted(s) /\ LastSent(s) = piece(s, s, "headers", 0)
       /\ pc' = [pc EXCEPT ![s] = "endpoint2"]
    \/ /\ x = piece(s, s, "endpoint", 2)
       /\ Greeted(s) /\ LastSent(s) = piece(s, s, "endpoint", 1)
       /\ pc' = [pc EXCEPT ![s] = "loop"]
    \/ /\ x = piece(s, s, "keepalive", 0)
       /\ Greeted(s) /\ BetweenEvents(s)
       /\ pc' = [pc EXCEPT ![s] = "loop"]
    \/ \E p \in Post :
          /\ target[p] = s /\ pc[s] \notin Greeting
          /\ pc[p] \in {"message1", "message2"}
          /\ \A q \in Post : Sending(q, s) => q = p
          /\ \/ /\ x = piece(s, p, "message", 1)
                /\ Greeted(s) /\ BetweenEvents(s)
                /\ ~SentTo(s, x)
                /\ pc' = [pc EXCEPT ![p] = "message2"]
             \/ /\ x = piece(s, p, "message", 2)
                /\ Greeted(s) /\ LastSent(s) = piece(s, p, "message", 1)
                /\ pc' = [pc EXCEPT ![p] = "release"]

(* What a thread sends fits what it sent before.                           *)
LEMMA MoveFits ==
    ASSUME IInv, SInv, NEW s \in Sse, Moves(s)
    PROVE  \E x \in Piece : Puts(s, x) /\ Fits(s, x) /\ target' = target
<1> USE PieceType DEF Kinds, Conns
<1>1. ASSUME NEW from, NEW kind \in Kinds, NEW part \in 0..2, NEW to,
             Sends(s, from, kind, part, to), Fits(s, piece(s, s, kind, part))
      PROVE  \E x \in Piece : Puts(s, x) /\ Fits(s, x) /\ target' = target
  BY <1>1 DEF Sends
<1>2. CASE Sends(s, "reply", "reply", 0, "close")
  <2>1. Fits(s, piece(s, s, "reply", 0))
    BY <1>2 DEF Sends, Fits, SInv, StreamsShaped
  <2>. QED BY <1>1, <1>2, <2>1
<1>3. CASE Sends(s, "hello", "headers", 0, "endpoint1")
  <2>1. Fits(s, piece(s, s, "headers", 0))
    BY <1>3 DEF Sends, Fits, SInv, StreamsShaped
  <2>. QED BY <1>1, <1>3, <2>1
<1>4. CASE Sends(s, "endpoint1", "endpoint", 1, "endpoint2")
  <2>1. Fits(s, piece(s, s, "endpoint", 1))
    BY <1>4 DEF Sends, Fits, SInv, StreamsShaped
  <2>. QED BY <1>1, <1>4, <2>1
<1>5. CASE Sends(s, "endpoint2", "endpoint", 2, "loop")
  <2>1. Fits(s, piece(s, s, "endpoint", 2))
    BY <1>5 DEF Sends, Fits, SInv, StreamsShaped
  <2>. QED BY <1>1, <1>5, <2>1
<1>6. CASE Sends(s, "ping", "keepalive", 0, "loop")
  <2>1. Greeted(s)
    BY <1>6 DEF Sends, SInv, StreamsShaped, Waiting
  <2>2. \A p \in Post : ~Sending(p, s)
    BY <1>6, ConnsDisjoint DEF Sends, SInv, WriteLocks
  <2>3. BetweenEvents(s)
    BY <1>6, <2>1, <2>2 DEF Sends, Puts, SInv, StreamsShaped
  <2>4. Fits(s, piece(s, s, "keepalive", 0))
    BY <1>6, <2>1, <2>3 DEF Sends, Fits
  <2>. QED BY <1>1, <1>6, <2>4
<1>7. ASSUME NEW p \in Post,
             \/ Pushes(p, s, "message1", 1, "message2")
             \/ Pushes(p, s, "message2", 2, "release")
      PROVE  \E x \in Piece : Puts(s, x) /\ Fits(s, x) /\ target' = target
  <2>1. Sending(p, s) /\ link[s] # "down"
    BY <1>7 DEF Pushes, Puts, Sending
  <2>2. write_lock[s] = p /\ p # s
    BY <2>1, ConnsDisjoint DEF SInv, WriteLocks
  <2>3. Greeted(s) /\ pc[s] \notin Greeting
    BY <2>1, <2>2, SpecialValues
       DEF SInv, TargetsGreeted, WriteLocks, Sending, Greeting
  <2>4. \A q \in Post : Sending(q, s) => q = p
    BY <2>2 DEF SInv, WriteLocks
  <2>5. CASE Pushes(p, s, "message1", 1, "message2")
    <3>1. BetweenEvents(s)
      BY <2>1, <2>3, <2>4, <2>5
         DEF Pushes, SInv, StreamsShaped, Greeting
    <3>2. ~SentTo(s, piece(s, p, "message", 1))
      BY <2>5 DEF Pushes, SInv, MessagesShaped
    <3>3. Fits(s, piece(s, p, "message", 1))
      BY <2>3, <2>4, <2>5, <3>1, <3>2 DEF Pushes, Fits
    <3>. QED BY <2>5, <3>3 DEF Pushes
  <2>6. CASE Pushes(p, s, "message2", 2, "release")
    <3>1. LastSent(s) = piece(s, p, "message", 1)
      BY <2>1, <2>6 DEF Pushes, SInv, MessagesShaped
    <3>2. Fits(s, piece(s, p, "message", 2))
      BY <2>3, <2>4, <2>6, <3>1 DEF Pushes, Fits
    <3>. QED BY <2>6, <3>2 DEF Pushes
  <2>. QED BY <1>7, <2>5, <2>6
<1>. QED BY <1>2, <1>3, <1>4, <1>5, <1>6, <1>7 DEF Moves

----------------------------------------------------------------------------
(* SInv is inductive.                                                      *)

(* What is on a stream stays there, in its place.                          *)
Grown ==
    \A s \in Sse :
        /\ \A y : SentTo(s, y) => (\E i \in DOMAIN wire'[s] : wire'[s][i] = y)
        /\ Greeted(s) =>
              wire'[s] # <<>> /\ wire'[s][1] = piece(s, s, "headers", 0)

Step == /\ IInv /\ SInv /\ IInv' /\ LinksKept /\ SocketsKept /\ StreamKept
        /\ PostKept /\ ClosedStays /\ WriteLocks' /\ Grown /\ StreamTypes

(* The three views of a step, together.                                    *)
LEMMA StepHolds == IInv /\ SInv /\ [Next]_vars => Step
<1> SUFFICES ASSUME IInv, SInv, [Next]_vars PROVE Step
  OBVIOUS
<1>1. /\ IInv' /\ LinksKept /\ SocketsKept /\ StreamKept /\ PostKept
      /\ ClosedStays /\ WriteLocks' /\ StreamTypes
  BY IInvStep, LinkStep, SocketsStep, StreamStepped, PostStepped, ClosedStep,
     LocksStep, StreamTypesHold
<1>2. ASSUME NEW s \in Sse
      PROVE  /\ \A y : SentTo(s, y) =>
                    (\E i \in DOMAIN wire'[s] : wire'[s][i] = y)
             /\ Greeted(s) =>
                    wire'[s] # <<>> /\ wire'[s][1] = piece(s, s, "headers", 0)
  <2>1. CASE Moves(s)
    BY <1>1, <2>1, MoveFits, Sent DEF Greeted
  <2>2. CASE Still(s)
    BY <2>2 DEF Still, Greeted, SentTo
  <2>. QED BY <1>1, <2>1, <2>2 DEF StreamKept
<1>. QED BY <1>1, <1>2 DEF Step, Grown

(* A POST only knows sessions whose headers were sent.                     *)
LEMMA TargetsStep == Step => TargetsGreeted'
<1> SUFFICES ASSUME Step PROVE TargetsGreeted'
  OBVIOUS
<1> USE DEF Step
<1>1. ASSUME NEW s \in Sse, SentTo(s, piece(s, s, "headers", 0))'
      PROVE  Greeted(s)'
  <2>1. CASE Still(s)
    BY <1>1, <2>1 DEF Still, SentTo, Greeted, SInv, TargetsGreeted
  <2>2. CASE Moves(s)
    <3>1. PICK x \in Piece : Puts(s, x) /\ Fits(s, x)
      BY <2>2, MoveFits
    <3>2. CASE x = piece(s, s, "headers", 0)
      <4>1. wire[s] = <<>>
        BY <3>1, <3>2 DEF Fits, piece
      <4>. QED BY <3>1, <3>2, <4>1, Sent DEF Greeted
    <3>3. CASE x # piece(s, s, "headers", 0)
      <4> DEFINE h == piece(s, s, "headers", 0)
      <4>0. (\E i \in DOMAIN wire'[s] : wire'[s][i] = h) <=> SentTo(s, h) \/ h = x
        BY <3>1, Sent
      <4>1. SentTo(s, h)
        BY <1>1, <3>3, <4>0 DEF SentTo
      <4>. QED BY <4>1 DEF Grown, Greeted, SInv, TargetsGreeted
    <3>. QED BY <3>2, <3>3
  <2>. QED BY <2>1, <2>2 DEF StreamKept
<1>2. ASSUME NEW p \in Post, NEW s \in Sse, target'[p] = s
      PROVE  Greeted(s)'
  <2>1. TargetKept(p)
    BY DEF PostKept
  <2>2. Greeted(s)
    BY <1>2, <2>1, SpecialValues
       DEF TargetKept, KnownSessions, SInv, TargetsGreeted, SentTo, Conns
  <2>. QED BY <2>2 DEF Grown, Greeted
<1>3. ASSUME NEW p \in Post, pc'[p] \in {"idle", "read"}
      PROVE  target'[p] = None
  BY <1>3 DEF PostKept, TargetKept, SInv, TargetsGreeted
<1>4. \A p \in Post : target'[p] \in Sse \cup {None}
  BY DEF IInv, TypeOK, ThreadsTypeOK
<1>. QED
  BY <1>1, <1>2, <1>3, <1>4 DEF TargetsGreeted, LinksKept, EndedDown, Greeted

(* The stream's own bytes keep their shape.                                *)
LEMMA ShapedStep == Step => StreamsShaped'
<1> SUFFICES ASSUME Step, NEW s \in Sse
             PROVE  /\ pc'[s] \in Silent => wire'[s] = <<>>
                    /\ pc'[s] \in Greeting \cup Looping => Greeted(s)'
                    /\ pc'[s] = "endpoint1" =>
                          LastSent(s)' = piece(s, s, "headers", 0)
                    /\ pc'[s] = "endpoint2" =>
                          LastSent(s)' = piece(s, s, "endpoint", 1)
                    /\ Greeted(s)' /\ pc'[s] \notin Greeting =>
                          \/ link'[s] = "down" \/ BetweenEvents(s)'
                          \/ \E p \in Post :
                                Sending(p, s)' /\ pc'[p] = "message2"
  BY DEF StreamsShaped, Silent, Greeting, Looping, Waiting
<1> USE DEF Step, Silent, Greeting, Looping, Waiting
<1>0. /\ pc[s] \in Silent => wire[s] = <<>>
      /\ pc[s] \in Greeting \cup Looping => Greeted(s)
      /\ pc[s] = "endpoint1" => LastSent(s) = piece(s, s, "headers", 0)
      /\ pc[s] = "endpoint2" => LastSent(s) = piece(s, s, "endpoint", 1)
      /\ Greeted(s) /\ pc[s] \notin Greeting =>
            \/ link[s] = "down" \/ BetweenEvents(s)
            \/ \E p \in Post : Sending(p, s) /\ pc[p] = "message2"
  BY DEF SInv, StreamsShaped
<1>1. CASE Still(s)
  <2>1. ASSUME Greeted(s), link[s] = "down" PROVE link'[s] = "down"
    BY <1>0, <2>1 DEF SocketsKept, Falls, Greeted, Conns
  <2>2. Greeted(s)' = Greeted(s) /\ LastSent(s)' = LastSent(s)
    BY <1>1 DEF Still, Greeted, LastSent
  <2>3. BetweenEvents(s) => BetweenEvents(s)'
    BY <1>1, <2>2 DEF Still, BetweenEvents
  <2>4. ASSUME NEW p \in Post, Sending(p, s), pc[p] = "message2"
        PROVE  link'[s] = "down" \/ (Sending(p, s)' /\ pc'[p] = "message2")
    BY <1>1, <2>4 DEF Still, Sending
  <2>. QED BY <1>0, <1>1, <2>1, <2>2, <2>3, <2>4 DEF Still
<1>2. CASE Moves(s)
  <2>1. PICK x \in Piece : Puts(s, x) /\ Fits(s, x) /\ target' = target
    BY <1>2, MoveFits
  <2>2. /\ wire'[s] # <<>> /\ wire'[s][Len(wire'[s])] = x
        /\ wire'[s][1] = IF wire[s] = <<>> THEN x ELSE wire[s][1]
    BY <2>1, Sent
  <2>3. LastSent(s)' = x /\ s \in Conns
    BY <2>2 DEF LastSent, Conns
  <2>4. Greeted(s) => Greeted(s)'
    BY <2>2 DEF Greeted
  <2>5. CASE wire[s] = <<>>
    BY <2>1, <2>2, <2>3, <2>5
       DEF Fits, Greeted, StreamTypes, piece, BetweenEvents
  <2>6. CASE x \in {piece(s, s, "endpoint", 1), piece(s, s, "endpoint", 2),
                    piece(s, s, "keepalive", 0)} /\ wire[s] # <<>>
    BY <2>1, <2>2, <2>3, <2>4, <2>6
       DEF Fits, StreamTypes, piece, BetweenEvents
  <2>7. CASE x.kind = "message" /\ wire[s] # <<>>
    <3>1. PICK p \in Post :
             /\ target[p] = s /\ pc[s] \notin Greeting /\ Greeted(s)
             /\ pc[p] \in {"message1", "message2"}
             /\ \/ /\ x = piece(s, p, "message", 1)
                   /\ pc' = [pc EXCEPT ![p] = "message2"]
                \/ /\ x = piece(s, p, "message", 2)
                   /\ pc' = [pc EXCEPT ![p] = "release"]
      BY <2>1, <2>7 DEF Fits, piece
    <3>2. pc'[s] = pc[s] /\ p # s /\ p \in Conns
      BY <3>1, ConnsDisjoint DEF StreamTypes, Conns
    <3>3. CASE x = piece(s, p, "message", 1)
      <4>1. Sending(p, s)' /\ pc'[p] = "message2"
        BY <2>1, <3>1, <3>2, <3>3 DEF StreamTypes, piece, Sending
      <4>. QED BY <1>0, <2>4, <2>7, <3>1, <3>2, <4>1
    <3>4. CASE x = piece(s, p, "message", 2)
      <4>1. BetweenEvents(s)'
        BY <2>2, <2>3, <3>4 DEF BetweenEvents, piece
      <4>. QED BY <1>0, <2>4, <2>7, <3>1, <3>2, <4>1
    <3>. QED BY <3>1, <3>3, <3>4
  <2>. QED BY <2>1, <2>5, <2>6, <2>7 DEF Fits, piece, Greeted
<1>. QED BY <1>1, <1>2 DEF StreamKept

(* So do the events of POSTs among them.                                   *)
LEMMA MessagesStep == Step => MessagesShaped'
<1> SUFFICES ASSUME Step PROVE MessagesShaped'
  OBVIOUS
<1> USE DEF Step
<1>0. \A p \in Post : TargetKept(p) /\ SendKept(p) /\ RespKept(p)
  BY DEF PostKept
<1>1. ASSUME NEW s \in Sse, NEW p \in Post,
             SentTo(s, piece(s, p, "message", 1))'
      PROVE  pc'[p] \in {"message2", "release", "close", "done"}
  <2> DEFINE m == piece(s, p, "message", 1)
  <2>1. CASE SentTo(s, m)
    BY <1>0, <2>1 DEF SInv, MessagesShaped, SendKept, AfterSend
  <2>2. CASE ~SentTo(s, m)
    <3>1. Moves(s)
      BY <1>1, <2>2 DEF StreamKept, Still, SentTo
    <3>2. PICK x \in Piece : Puts(s, x) /\ Fits(s, x)
      BY <3>1, MoveFits
    <3>3. (\E i \in DOMAIN wire'[s] : wire'[s][i] = m) <=> SentTo(s, m) \/ m = x
      BY <3>2, Sent
    <3>4. x = m
      BY <1>1, <2>2, <3>3 DEF SentTo
    <3>5. PICK q \in Post :
             \/ x = piece(s, q, "message", 1) /\ pc' = [pc EXCEPT ![q] = "message2"]
             \/ x = piece(s, q, "message", 2)
      BY <3>2, <3>4 DEF Fits, piece
    <3>6. q = p /\ pc' = [pc EXCEPT ![q] = "message2"]
      BY <3>4, <3>5 DEF piece
    <3>. QED BY <3>6 DEF StreamTypes, Conns
  <2>. QED BY <2>1, <2>2
<1>2. ASSUME NEW p \in Post, pc'[p] = "message2", NEW s \in Sse, target[p] = s
      PROVE  /\ target'[p] = s
             /\ \/ link'[s] = "down"
                \/ LastSent(s)' = piece(s, p, "message", 1)
  <2> DEFINE m == piece(s, p, "message", 1)
  <2>1. /\ Sending(p, s) /\ target'[p] = s
        /\ \/ pc[p] = "message2"
           \/ pc[p] = "message1" /\ (link'[s] = "down" \/ Puts(s, m))
    BY <1>0, <1>2 DEF SendKept, TargetKept, Sending
  <2>2. CASE pc[p] = "message1"
    <3>1. m \in Piece
      BY PieceType DEF Kinds, Conns
    <3>. QED BY <2>1, <2>2, <3>1, Sent DEF LastSent
  <2>3. CASE pc[p] = "message2"
    <3>1. link[s] = "down" \/ LastSent(s) = m
      BY <1>2, <2>3 DEF SInv, MessagesShaped
    <3>2. Greeted(s)
      BY <1>2, SpecialValues DEF SInv, TargetsGreeted, Conns
    <3>3. CASE Still(s)
      <4>1. link[s] = "down" => link'[s] = "down"
        BY <3>2
           DEF SocketsKept, Falls, SInv, StreamsShaped, Greeted, Conns
      <4>. QED BY <2>1, <3>1, <3>3, <4>1 DEF Still, LastSent
    <3>4. CASE Moves(s)
      <4>1. PICK x \in Piece : Puts(s, x) /\ Fits(s, x)
        BY <3>4, MoveFits
      <4>2. LastSent(s) = m /\ ~BetweenEvents(s) /\ wire[s] # <<>>
        BY <3>1, <3>2, <4>1 DEF Puts, BetweenEvents, piece, Greeted
      <4>3. ~(LastSent(s) = piece(s, s, "headers", 0))
            /\ ~(LastSent(s) = piece(s, s, "endpoint", 1))
        BY <4>2 DEF piece
      <4>4. PICK q \in Post :
               /\ \A r \in Post : Sending(r, s) => r = q
               /\ pc' = [pc EXCEPT ![q] = "release"]
        BY <4>1, <4>2, <4>3 DEF Fits
      <4>5. q = p
        BY <2>1, <4>4
      <4>. QED BY <1>2, <4>4, <4>5 DEF StreamTypes, Conns
    <3>. QED BY <2>1, <3>3, <3>4 DEF StreamKept
  <2>. QED BY <2>1, <2>2, <2>3
<1>3. ASSUME NEW p \in Post, resp'[p]
      PROVE  /\ target'[p] # None
             /\ pc'[p] \in Answering
  <2>1. pc[p] \notin {"idle", "read"}
    BY <1>0, <1>3 DEF RespKept, SInv, MessagesShaped
  <2>2. target[p] # None
    BY <1>0, <1>3, SpecialValues
       DEF RespKept, SInv, MessagesShaped, IInv, SessionsMatch, PostHolding,
           Conns
  <2>. QED
    BY <1>0, <1>3, <2>1, <2>2 DEF RespKept, TargetKept, Answering, AfterSend
<1>4. \A p \in Post : pc'[p] = "message2" => target[p] \in Sse
  <2> TAKE p \in Post
  <2>1. pc'[p] = "message2" => pc[p] \in {"message1", "message2"}
    BY <1>0 DEF SendKept
  <2>. QED BY <2>1 DEF IInv, SessionsMatch, PostHolding
<1>. QED
  BY <1>1, <1>2, <1>3, <1>4
     DEF MessagesShaped, Answering, AfterSend, LastSent

(* An accepted message stays delivered.                                    *)
LEMMA DeliveredStep == Step => AcceptedIsDelivered'
<1> SUFFICES ASSUME Step, NEW p \in Post, NEW s \in Sse,
                    resp'[p], pc'[p] \in Finished, target'[p] = s
             PROVE  \/ \A part \in 1..2 : SentTo(s, piece(s, p, "message", part))'
                    \/ closed'[s]
                    \/ link'[s] \in Gone
  <2>1. Step => MessagesShaped' /\ IInv'
    BY MessagesStep DEF Step
  <2>2. ASSUME Step, NEW p \in Post, resp'[p] PROVE target'[p] \in Sse
    BY <2>1, <2>2 DEF MessagesShaped, IInv, TypeOK, ThreadsTypeOK
  <2>. QED
    BY <2>2 DEF AcceptedIsDelivered, Delivered, SentTo, Finished, Gone
<1> USE DEF Step
<1>0. TargetKept(p) /\ SendKept(p) /\ RespKept(p) /\ target[p] = s
  <2>1. TargetKept(p) /\ SendKept(p) /\ RespKept(p)
    BY DEF PostKept
  <2>2. pc[p] # "read"
    BY <2>1 DEF RespKept, SInv, MessagesShaped
  <2>. QED BY <2>1, <2>2 DEF TargetKept
<1>1. Greeted(s) /\ s \in Conns
  BY <1>0, SpecialValues DEF SInv, TargetsGreeted, Conns
<1>2. CASE pc[p] \in Finished
  <2>1. resp[p]
    BY <1>2 , <1>0 DEF RespKept, Finished
  <2>2. \/ \A part \in 1..2 : SentTo(s, piece(s, p, "message", part))
        \/ closed[s] \/ link[s] \in Gone
    BY <1>0, <1>2, <2>1
       DEF SInv, AcceptedIsDelivered, Delivered, SentTo, Finished, Gone
  <2>3. pc[s] # "idle"
    BY <1>1 DEF SInv, StreamsShaped, Greeted
  <2>4. (\A part \in 1..2 : SentTo(s, piece(s, p, "message", part))) =>
            \A part \in 1..2 : SentTo(s, piece(s, p, "message", part))'
    BY DEF Grown, SentTo
  <2>. QED BY <1>1, <2>2, <2>3, <2>4 DEF ClosedStays, LinksKept
<1>3. CASE pc[p] = "message2" /\ Puts(s, piece(s, p, "message", 2))
  <2> DEFINE m == piece(s, p, "message", 2)
  <2>1. LastSent(s) = piece(s, p, "message", 1)
    BY <1>0, <1>3 DEF SInv, MessagesShaped, Puts
  <2>2. SentTo(s, piece(s, p, "message", 1))
    BY <1>1, <2>1 DEF LastSent, SentTo, Greeted, StreamTypes
  <2>3. SentTo(s, piece(s, p, "message", 1))'
    BY <2>2 DEF Grown, SentTo
  <2>4. m \in Piece
    BY PieceType DEF Kinds, Conns
  <2>5. SentTo(s, m)'
    <3>1. (\E i \in DOMAIN wire'[s] : wire'[s][i] = m) <=> SentTo(s, m) \/ m = m
      BY <1>3, <2>4, Sent
    <3>. QED BY <3>1 DEF SentTo
  <2>. QED BY <2>3, <2>5
<1>. QED BY <1>0, <1>2, <1>3 DEF RespKept, Gone

(* The invariant holds at the start.                                       *)
LEMMA InitSInv == Init => SInv
<1> SUFFICES ASSUME Init PROVE SInv
  OBVIOUS
<1> USE DEF Init, SocketsInit, SessionsInit
<1>1. \A c \in Conns : pc[c] = "idle" /\ link[c] = "down" /\ wire[c] = <<>>
  OBVIOUS
<1>2. \A s \in Sse : s \in Conns /\ write_lock[s] = None
  BY DEF Conns
<1>3. \A p \in Post : p \in Conns /\ target[p] = None /\ ~resp[p]
  BY DEF Conns
<1>4. None \notin Conns
  BY SpecialValues
<1>5. WriteLocks
  BY <1>1, <1>2, <1>3, <1>4 DEF WriteLocks, Sending
<1>6. TargetsGreeted
  BY <1>1, <1>2, <1>3 DEF TargetsGreeted, SentTo
<1>7. StreamsShaped
  BY <1>1, <1>2 DEF StreamsShaped, Greeted, Waiting
<1>8. MessagesShaped /\ AcceptedIsDelivered
  BY <1>1, <1>2, <1>3 DEF MessagesShaped, SentTo, AcceptedIsDelivered
<1>. QED BY <1>5, <1>6, <1>7, <1>8 DEF SInv

(* It holds in every reachable state.                                      *)
LEMMA SInvariance == Spec => []SInv
<1>1. IInv /\ SInv /\ [Next]_vars => SInv'
  BY StepHolds, TargetsStep, ShapedStep, MessagesStep, DeliveredStep
     DEF SInv, Step
<1>. QED BY <1>1, InitSInv, Invariance, PTL DEF Spec

----------------------------------------------------------------------------
(* Theorems.                                                               *)

(* No response is lost between a live stream and the handler that accepted *)
(* the request.  ("pushed as an SSE `message` event on the matching /sse   *)
(* stream", mcp_http.c:17-19.)                                             *)
THEOREM AcceptedIsDeliveredCorrect == Spec => []AcceptedIsDelivered
<1>1. SInv => AcceptedIsDelivered
  BY DEF SInv
<1>. QED BY <1>1, SInvariance, PTL

Streamed == [s \in Sse |-> wire[s]]

(* Streams start as the promise says.                                      *)
LEMMA PromiseInit == Init => Promise!Init
BY DEF Init, SocketsInit, Promise!Init, Conns

(* Every step is one of the promise's, or none of its streams move.        *)
LEMMA PromiseStep ==
    ASSUME Step PROVE Promise!Next \/ Streamed' = Streamed
<1> USE DEF Step
<1>1. CASE \A s \in Sse : Still(s)
  BY <1>1 DEF Still, Streamed
<1>2. ASSUME NEW s \in Sse, Moves(s) PROVE Promise!Next
  <2>1. PICK x \in Piece : Puts(s, x) /\ Fits(s, x)
    BY <1>2, MoveFits
  <2>2. Promise!put(s, x)
    BY <2>1, Sent DEF Puts, Promise!put, StreamTypes, Conns
  <2>3. /\ LastSent(s) = Promise!Last(s)
        /\ \A y : (\E i \in DOMAIN Streamed[s] : Streamed[s][i] = y) <=> SentTo(s, y)
        /\ \A by, kind, part :
              piece(s, by, kind, part) = Promise!item(s, by, kind, part)
    BY DEF LastSent, Promise!Last, SentTo, Streamed, piece, Promise!item
  <2>4. CASE x = piece(s, s, "reply", 0) /\ wire[s] = <<>>
    BY <2>2, <2>3, <2>4 DEF Promise!Refuse, Promise!Next
  <2>5. CASE x = piece(s, s, "headers", 0) /\ wire[s] = <<>>
    BY <2>2, <2>3, <2>5 DEF Promise!Open, Promise!Next
  <2>6. CASE /\ x = piece(s, s, "endpoint", 1) /\ wire[s] # <<>>
             /\ LastSent(s) = piece(s, s, "headers", 0)
    <3>1. Promise!Last(s).kind = "headers"
      BY <2>3, <2>6 DEF piece
    <3>. QED 
      BY <2>2, <2>6, <3>1
         DEF Promise!Endpoint, Promise!Next, piece, Promise!item
  <2>7. ASSUME NEW by, NEW kind, x = piece(s, by, kind, 2), wire[s] # <<>>,
               LastSent(s) = piece(s, by, kind, 1)
        PROVE  Promise!Next
    <3>1. /\ Promise!Last(s).part = 1
          /\ x = [Promise!Last(s) EXCEPT !.part = 2]
      BY <2>3, <2>7 DEF piece
    <3>2. Promise!put(s, [Promise!Last(s) EXCEPT !.part = 2])
      BY <2>2, <3>1 DEF Promise!put
    <3>3. Promise!Finish(s)
      BY <2>7, <3>1, <3>2 DEF Promise!Finish
    <3>. QED BY <3>3 DEF Promise!Next
  <2>8. CASE x = piece(s, s, "keepalive", 0) /\ BetweenEvents(s)
    BY <2>2, <2>3, <2>8
       DEF BetweenEvents, Promise!Between, Promise!Keepalive, Promise!Next
  <2>9. ASSUME NEW p \in Post, x = piece(s, p, "message", 1),
               BetweenEvents(s), ~SentTo(s, x)
        PROVE  Promise!Next
    <3>1. Promise!Message(s, p)
      BY <2>2, <2>3, <2>9
         DEF BetweenEvents, Promise!Between, Promise!Message, Streamed
    <3>. QED BY <3>1 DEF Promise!Next
  <2>. QED
    BY <2>1, <2>4, <2>5, <2>6, <2>7, <2>8, <2>9 DEF Fits, Greeted
<1>. QED BY <1>1, <1>2 DEF StreamKept

(* The threads and locks of HttpServer give every client of /sse what      *)
(* EventStreams promises.  (mcp_http.c:13-24.)                             *)
THEOREM StreamsKeepPromiseCorrect == Spec => StreamsKeepPromise
<1>1. IInv /\ SInv /\ [Next]_vars => Promise!Next \/ Streamed' = Streamed
  BY StepHolds, PromiseStep
<1>2. IInv /\ SInv /\ [Next]_vars => [Promise!Next]_Streamed
  BY <1>1
<1>. QED
  BY <1>2, PromiseInit, Invariance, SInvariance, PTL
     DEF Spec, StreamsKeepPromise, Promise!Spec, Streamed

(* Every event is written whole, with nothing of another one inside it.    *)
(* ("without interleaving writes", mcp_http.c:23-24.)                      *)
THEOREM FramesWholeCorrect == Spec => []FramesWhole
BY StreamsKeepPromiseCorrect, Promise!PromiseMeans, PTL
   DEF StreamsKeepPromise, FramesWhole

(* The first event a client of /sse reads is the one that names its        *)
(* endpoint.  (mcp_http.c:13-15.)                                          *)
THEOREM EndpointFirstCorrect == Spec => []EndpointFirst
BY StreamsKeepPromiseCorrect, Promise!PromiseMeans, PTL
   DEF StreamsKeepPromise, EndpointFirst

----------------------------------------------------------------------------
(* Locks.                                                                  *)

(* The two locks that every client's threads take have the holders they    *)
(* are meant to have.                                                      *)
LEMMA GlobalLocksStep ==
    IInv /\ GlobalLocks /\ [Next]_vars => GlobalLocks'
<1> SUFFICES ASSUME IInv, GlobalLocks, [Next]_vars PROVE GlobalLocks'
  OBVIOUS
<1>0. /\ pc \in [Conns -> SsePcs \cup PostPcs \cup RpcPcs \cup StreamPcs]
      /\ None \notin Conns
      /\ GlobalLocks
  BY SpecialValues DEF IInv, TypeOK, PcsTypeOK
<1> USE ConnsDisjoint
   DEF GlobalLocks, goto, Conns, Streams, sessVars
<1>1. CASE on_signal \/ main_setup \/ main_check \/ main_accept_error
             \/ run_again \/ mcp_server_destroy \/ walk_lock \/ walk_unlock
  BY <1>0, <1>1
     DEF on_signal, main_setup, main_check, main_accept_error, run_again,
         mcp_server_destroy,
         walk_lock, walk_unlock
<1>2. ASSUME NEW c \in Conns,
               main_accept(c) \/ main_drop(c) \/ read_request(c)
               \/ read_refused(c) \/ read_nothing(c) \/ send_error(c)
               \/ conn_close(c) \/ client(c)
        PROVE  GlobalLocks'
  BY <1>0, <1>2
     DEF main_accept, main_drop, read_request, FirstStep, read_refused,
         read_nothing, send_error, conn_close, client
<1>3. ASSUME NEW s \in Sse,
               walk_session(s) \/ sse_create(s) \/ sse_hello(s)
               \/ sse_endpoint1(s) \/ sse_endpoint2(s) \/ sse_loop(s)
               \/ sse_recv_end(s) \/ sse_keepalive(s) \/ sse_ping(s)
               \/ sse_mark_closed(s) \/ sse_unlink(s) \/ sse_release(s)
        PROVE  GlobalLocks'
  BY <1>0, <1>3
     DEF walk_session, sse_create, session_create, sse_hello, lock_write, sse_endpoint1, sse_endpoint2,
         sse_loop, sse_recv_end, sse_keepalive, sse_ping, sse_mark_closed,
         sse_unlink, session_unlink, unlock_write, sse_release, session_release
<1>4. ASSUME NEW c \in Streams,
               recv_ignored(c) \/ recv_timeout(c)
        PROVE  GlobalLocks'
  BY <1>0, <1>4 DEF recv_ignored, recv_timeout
<1>5. ASSUME NEW c \in Post \cup Rpc,
               parse_ok(c) \/ parse_error(c) \/ dispatch_lock(c)
               \/ dispatch_unlock(c)
        PROVE  GlobalLocks'
  BY <1>0, <1>5 DEF parse_ok, parse_error, session_release, dispatch_lock, dispatch_unlock
<1>6. ASSUME NEW p \in Post,
               post_find(p) \/ post_ref(p) \/ post_ack(p) \/ post_push(p)
               \/ post_message1(p) \/ post_message2(p) \/ post_release(p)
        PROVE  GlobalLocks'
  BY <1>0, <1>6
     DEF post_find, session_find, session_not_found, session_ref,
         lock_write, unlock_write, session_release, post_ref, post_ack, post_push, post_message1,
         post_message2, post_release
<1>7. ASSUME NEW r \in Rpc,
               rpc_respond(r) \/ rpc_event(r)
        PROVE  GlobalLocks'
  BY <1>0, <1>7 DEF rpc_respond, rpc_event
<1>8. ASSUME NEW m \in Stream,
               stream_headers(m) \/ stream_open(m) \/ stream_keepalive(m)
               \/ stream_loop(m) \/ stream_recv_end(m)
        PROVE  GlobalLocks'
  BY <1>0, <1>8
     DEF stream_headers, stream_send, stream_open, stream_keepalive,
         stream_loop, stream_recv_end
<1>9. CASE UNCHANGED vars
  BY <1>0, <1>9 DEF vars
<1>. QED
  BY <1>1, <1>2, <1>3, <1>4, <1>5, <1>6, <1>7, <1>8, <1>9, StepIs, Zenon
     DEF Steps

(* It holds in every reachable state.                                      *)
LEMMA GlobalLocksInvariance == Spec => []GlobalLocks
<1>1. Init => GlobalLocks
  BY SpecialValues DEF Init, SessionsInit, GlobalLocks
<1>. QED BY <1>1, GlobalLocksStep, Invariance, PTL DEF Spec

(* No thread waits for a lock with another one held, or for a client with  *)
(* a lock that the threads of other clients need.  (mcp_http.c:13-24.)     *)
THEOREM LocksDoNotNestCorrect == Spec => []LocksDoNotNest
<1>1. ASSUME IInv, SInv, GlobalLocks PROVE LocksDoNotNest
  <2>0. /\ Main \notin Conns /\ None \notin Conns \cup {Main}
        /\ Main \notin Sse \cup Post \cup Rpc
    BY SpecialValues DEF Conns
  <2>1. \A c \in Conns : c = g_sessions_lock => c \in Post /\ pc[c] = "ref"
    BY <1>1, <2>0 DEF GlobalLocks, IInv, TableMatches
  <2>2. \A c \in Conns : c = g_dispatch_lock => pc[c] = "handling"
    BY <1>1 DEF GlobalLocks
  <2>3. \A s \in Sse, c \in Conns : c = write_lock[s] =>
           \/ c = s /\ pc[c] \in {"endpoint1", "endpoint2", "ping"}
           \/ c \in Post /\ Sending(c, s)
    BY <1>1 DEF SInv, WriteLocks
  <2>4. mainPc = "closesock" => Main # g_sessions_lock
    BY <1>1 DEF IInv, TableMatches
  <2>5. \A t \in Conns : HoldsLock(t) => ~AwaitsLock(t)
    BY <2>0, <2>1, <2>2, <2>3, ConnsDisjoint
       DEF HoldsLock, AwaitsLock, Sending, Conns
  <2>6. HoldsLock(Main) => ~AwaitsLock(Main)
    <3>1. Main # g_dispatch_lock /\ \A s \in Sse : Main # write_lock[s]
      BY <1>1, SpecialValues
         DEF IInv, TypeOK, SessionsTypeOK, ThreadsTypeOK
    <3>. QED BY <2>0, <2>4, <3>1 DEF HoldsLock, AwaitsLock
  <2>7. \A c \in Conns : c \in {g_sessions_lock, g_dispatch_lock} =>
           pc[c] \notin SendPlaces \cup RecvPlaces \cup Ended
    BY <2>1, <2>2 DEF SendPlaces, RecvPlaces, Ended
  <2>8. \A s \in Sse, c \in Conns : write_lock[s] = c =>
           pc[c] \in SendPlaces /\ SendsTo(c) = s
    BY <2>3 DEF SendPlaces, SendsTo, Sending
  <2>. QED BY <2>5, <2>6, <2>7, <2>8 DEF LocksDoNotNest
<1>. QED
  BY <1>1, Invariance, SInvariance, GlobalLocksInvariance, PTL
=============================================================================
