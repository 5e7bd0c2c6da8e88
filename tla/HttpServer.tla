----------------------------- MODULE HttpServer -----------------------------
(***************************************************************************)
(* The threads of src/mcp_http.c: the accept loop of mcp_server_run_http,  *)
(* and one detached thread per connection, with the signals, peers and     *)
(* caller they run among.                                                  *)
(*                                                                         *)
(* One action is what a thread does between two points at which another    *)
(* thread can tell the difference: a send, a recv, a lock operation or an  *)
(* access to a session.  Taking a lock is one step with the access it      *)
(* guards, releasing it one step with the last access before it, except    *)
(* where a thread can block or be overtaken while it holds the lock.       *)
(***************************************************************************)
EXTENDS SseSessions

CONSTANTS
    MaxKeepalive,   \* keepalives per stream before a shutdown (a bound)
    Stallers,       \* the clients that may stop reading (a bound)
    Given,          \* the descriptors a connection may be given (a bound)
    MayStop,        \* a signal may come (a bound)
    MayRestart      \* mcp_server_run_http is called again (a bound)
ASSUME Bounds == /\ MaxKeepalive \in Nat
                 /\ MayStop \in BOOLEAN /\ MayRestart \in BOOLEAN
                 /\ Stallers \subseteq Conns
                 /\ Given \in [Conns -> SUBSET Fds]

VARIABLES
    g_shutdown,
    g_dispatch_lock,    \* the thread inside mcp_handle_message, or None
    mainPc,             \* what Main does next
    toWalk,             \* sessions the shutdown walk has still to visit
    pc,                 \* what each connection's thread does next
    target,             \* the session a POST /message names, None if unknown
    resp                \* a POST: there is a response to send

mainVars == <<g_shutdown, mainPc, toWalk>>
postVars == <<target, resp>>
vars == <<sockVars, sessVars, mainVars, g_dispatch_lock, pc, postVars>>

----------------------------------------------------------------------------
(* Program counters.  "idle" is a client that has not connected.           *)

SseServing == {"hello", "endpoint1", "endpoint2", "loop", "recv",
               "keepalive", "ping", "markclosed", "unlink", "release"}
PostHolding == {"parse", "dispatch", "handling", "ack", "push", "message1",
                "message2", "release"}
Ended == {"idle", "done"}

AnyPcs == Ended \cup {"read", "reply", "close"}
SsePcs == AnyPcs \cup SseServing \cup {"create"}
PostPcs == AnyPcs \cup PostHolding \cup {"acquire", "ref"}
RpcPcs == AnyPcs \cup {"parse", "dispatch", "handling", "respond", "event"}
StreamPcs == AnyPcs \cup {"headers", "open", "loop", "recv", "keepalive"}

MainPcs == {"setup", "check", "accept", "closesock", "walk", "returned",
            "destroyed"}

PcsTypeOK ==
    /\ pc \in [Conns -> SsePcs \cup PostPcs \cup RpcPcs \cup StreamPcs]
    /\ \A s \in Sse : pc[s] \in SsePcs
    /\ \A p \in Post : pc[p] \in PostPcs
    /\ \A r \in Rpc : pc[r] \in RpcPcs
    /\ \A m \in Stream : pc[m] \in StreamPcs

ThreadsTypeOK ==
    /\ g_shutdown \in BOOLEAN
    /\ g_dispatch_lock \in Conns \cup {None}
    /\ mainPc \in MainPcs
    /\ toWalk \in SUBSET Sse
    /\ target \in [Post -> Sse \cup {None}]
    /\ resp \in [Post \cup Rpc -> BOOLEAN]

(* Every variable stays in its type: in particular the thread of each kind *)
(* of connection stays within its own handler of mcp_http.c, and no count  *)
(* of references falls below zero.                                         *)
TypeOK == SocketsTypeOK /\ SessionsTypeOK /\ PcsTypeOK /\ ThreadsTypeOK

Init ==
    /\ SocketsInit
    /\ SessionsInit
    /\ g_shutdown = FALSE
    /\ g_dispatch_lock = None
    /\ mainPc = "setup"
    /\ toWalk = {}
    /\ pc = [c \in Conns |-> "idle"]
    /\ target = [p \in Post |-> None]
    /\ resp = [c \in Post \cup Rpc |-> FALSE]

goto(c, l) == pc' = [pc EXCEPT ![c] = l]

piece(to, by, kind, part) ==
    [to |-> to, by |-> by, kind |-> kind, part |-> part]

----------------------------------------------------------------------------
(* The accept loop and shutdown: mcp_server_run_http.                      *)

(* SIGINT or SIGTERM.  The handler only sets the flag.  A signal delivered *)
(* to Main while it is blocked in accept makes accept return EINTR; one    *)
(* delivered to another thread, or before the call, does not.  Once the    *)
(* flag is set another signal matters only to accept.                      *)
on_signal ==
    /\ MayStop
    /\ ~g_shutdown \/ mainPc = "accept"
    /\ g_shutdown' = TRUE
    /\ mainPc' \in IF mainPc = "accept" THEN {"accept", "check"} ELSE {mainPc}
    /\ UNCHANGED <<sockVars, sessVars, toWalk, g_dispatch_lock, pc, postVars>>

(* The listening socket is made, or cannot be: the host is not an address, *)
(* or socket, bind or listen fails, and the call returns an error.  The    *)
(* signal handlers are installed by then.                                  *)
main_setup ==
    /\ mainPc = "setup"
    /\ mainPc' \in {"check", "returned"}
    /\ UNCHANGED <<sockVars, sessVars, g_shutdown, toWalk, g_dispatch_lock,
                   pc, postVars>>

main_check ==
    /\ mainPc = "check"
    /\ mainPc' = IF g_shutdown THEN "closesock" ELSE "accept"
    /\ UNCHANGED <<sockVars, sessVars, g_shutdown, toWalk, g_dispatch_lock,
                   pc, postVars>>

(* accept returns a connection and its thread is started.                  *)
main_accept(c) ==
    /\ mainPc = "accept"
    /\ pc[c] = "idle"
    /\ \E f \in Given[c] : accept(c, f)
    /\ mainPc' = "check"
    /\ goto(c, "read")
    /\ UNCHANGED <<sessVars, g_shutdown, toWalk, g_dispatch_lock, postVars>>

(* malloc or pthread_create fails: Main closes the connection itself.      *)
main_drop(c) ==
    /\ mainPc = "accept"
    /\ pc[c] = "idle"
    /\ \E f \in Given[c] : owner[f] = None /\ fd' = [fd EXCEPT ![c] = f]
    /\ mainPc' = "check"
    /\ goto(c, "done")
    /\ UNCHANGED <<owner, link, wire, strayed, sessVars, g_shutdown, toWalk,
                   g_dispatch_lock, postVars>>

(* accept fails (EMFILE, ECONNABORTED): the loop goes round.               *)
main_accept_error ==
    /\ mainPc = "accept"
    /\ mainPc' = "check"
    /\ UNCHANGED <<sockVars, sessVars, g_shutdown, toWalk, g_dispatch_lock,
                   pc, postVars>>

(* After the loop: close the listening socket, take g_sessions_lock and    *)
(* visit every session in the list.  Nothing is pushed or unlinked while   *)
(* the lock is held, so the list walked is the list locked.                *)
walk_lock ==
    /\ mainPc = "closesock"
    /\ g_sessions_lock = None
    /\ g_sessions_lock' = Main
    /\ toWalk' = g_sessions_head
    /\ mainPc' = "walk"
    /\ UNCHANGED <<sockVars, g_sessions_head, refcount, closed, write_lock,
                   freed, g_shutdown, g_dispatch_lock, pc, postVars>>

(* Variant: the walk sets closed and leaves the connection open.           *)
walk_session_flag_only(s) ==
    /\ mainPc = "walk"
    /\ s \in toWalk
    /\ closed' = [closed EXCEPT ![s] = TRUE]
    /\ UNCHANGED sockVars
    /\ toWalk' = toWalk \ {s}
    /\ UNCHANGED <<g_sessions_head, g_sessions_lock, refcount, write_lock,
                   freed, g_shutdown, mainPc, g_dispatch_lock, pc, postVars>>

(* Variant: the walk takes write_lock to set closed.                       *)
walk_session_locks(s) ==
    /\ mainPc = "walk"
    /\ s \in toWalk
    /\ write_lock[s] = None
    /\ closed' = [closed EXCEPT ![s] = TRUE]
    /\ shutdown(fd[s])
    /\ toWalk' = toWalk \ {s}
    /\ UNCHANGED <<g_sessions_head, g_sessions_lock, refcount, write_lock,
                   freed, g_shutdown, mainPc, g_dispatch_lock, pc, postVars>>

walk_session(s) ==
    /\ mainPc = "walk"
    /\ s \in toWalk
    /\ closed' = [closed EXCEPT ![s] = TRUE]
    /\ shutdown(fd[s])
    /\ toWalk' = toWalk \ {s}
    /\ UNCHANGED <<g_sessions_head, g_sessions_lock, refcount, write_lock,
                   freed, g_shutdown, mainPc, g_dispatch_lock, pc, postVars>>

walk_unlock ==
    /\ mainPc = "walk"
    /\ toWalk = {}
    /\ g_sessions_lock' = None
    /\ mainPc' = "returned"
    /\ UNCHANGED <<sockVars, g_sessions_head, refcount, closed, write_lock,
                   freed, g_shutdown, toWalk, g_dispatch_lock, pc, postVars>>

(* The caller runs the server again, in the same process: the sessions and *)
(* threads that the last run left are still there, and so is g_shutdown.   *)
run_again ==
    /\ MayRestart
    /\ mainPc = "returned"
    /\ mainPc' = "setup"
    /\ UNCHANGED <<sockVars, sessVars, g_shutdown, toWalk, g_dispatch_lock,
                   pc, postVars>>

(* The caller frees the server once mcp_server_run_http has returned, as   *)
(* examples/http_demo and tests/test_http.c do.  What a thread that is     *)
(* still inside the core does next is undefined; the model lets it go on.  *)
mcp_server_destroy ==
    /\ mainPc = "returned"
    /\ mainPc' = "destroyed"
    /\ UNCHANGED <<sockVars, sessVars, g_shutdown, toWalk, g_dispatch_lock,
                   pc, postVars>>

----------------------------------------------------------------------------
(* Every connection's thread: reading and routing a request, error replies *)
(* and the end of the thread.                                              *)

(* A client can only name a session whose id it was told: the stream's     *)
(* response headers carry it before the endpoint event does.               *)
KnownSessions ==
    {s \in Sse : \E i \in DOMAIN wire[s] : wire[s][i] = piece(s, s, "headers", 0)}

(* Variant: GET /sse is routed to the handler of GET /mcp.                 *)
FirstStep_crossed(c) == CASE c \in Sse  -> "headers"
                  [] c \in Post -> "acquire"
                  [] c \in Rpc  -> "parse"
                  [] OTHER      -> "headers"

FirstStep(c) == CASE c \in Sse  -> "create"
                  [] c \in Post -> "acquire"
                  [] c \in Rpc  -> "parse"
                  [] OTHER      -> "headers"

(* The request is complete and routed to its handler.                      *)
read_request(c) ==
    /\ pc[c] = "read"
    /\ goto(c, FirstStep(c))
    /\ target' \in IF c \in Post
                   THEN {[target EXCEPT ![c] = t] : t \in KnownSessions \cup {None}}
                   ELSE {target}
    /\ UNCHANGED <<sockVars, sessVars, mainVars, g_dispatch_lock, resp>>

(* It is refused: 400, 404 or 405, a missing sessionId, or no memory.      *)
read_refused(c) ==
    /\ pc[c] = "read"
    /\ goto(c, "reply")
    /\ UNCHANGED <<sockVars, sessVars, mainVars, g_dispatch_lock, postVars>>

(* It never completes, or is not HTTP: the thread returns without a reply. *)
read_nothing(c) ==
    /\ pc[c] = "read"
    /\ goto(c, "close")
    /\ UNCHANGED <<sockVars, sessVars, mainVars, g_dispatch_lock, postVars>>

read_eof(c) == pc[c] = "read" /\ RecvEnds(fd[c]) /\ read_nothing(c)

send_error(c) ==
    /\ pc[c] = "reply"
    /\ \E ok \in BOOLEAN : write_full(fd[c], piece(c, c, "reply", 0), ok)
    /\ goto(c, "close")
    /\ UNCHANGED <<sessVars, mainVars, g_dispatch_lock, postVars>>

conn_close(c) ==
    /\ pc[c] = "close"
    /\ close(fd[c])
    /\ goto(c, "done")
    /\ UNCHANGED <<sessVars, mainVars, g_dispatch_lock, postVars>>

----------------------------------------------------------------------------
(* GET /sse: handle_legacy_sse_get.                                        *)

sse_create(s) ==
    /\ pc[s] = "create"
    /\ \/ session_create(s) /\ goto(s, "hello")
       \/ UNCHANGED sessVars /\ goto(s, "reply")
    /\ UNCHANGED <<sockVars, mainVars, g_dispatch_lock, postVars>>

(* Variant: write_lock is let go between the headers and the endpoint.     *)
sse_hello_unlocks(s) ==
    /\ pc[s] = "hello"
    /\ write_lock[s] = None
    /\ \E ok \in BOOLEAN :
          /\ write_full(fd[s], piece(s, s, "headers", 0), ok)
          /\ IF ok THEN UNCHANGED sessVars /\ goto(s, "endpoint1")
                   ELSE UNCHANGED sessVars /\ goto(s, "markclosed")
    /\ UNCHANGED <<mainVars, g_dispatch_lock, postVars>>

(* The headers and the endpoint event go out under one hold of write_lock. *)
sse_hello(s) ==
    /\ pc[s] = "hello"
    /\ write_lock[s] = None
    /\ \E ok \in BOOLEAN :
          /\ write_full(fd[s], piece(s, s, "headers", 0), ok)
          /\ IF ok THEN lock_write(s, s) /\ goto(s, "endpoint1")
                   ELSE UNCHANGED sessVars /\ goto(s, "markclosed")
    /\ UNCHANGED <<mainVars, g_dispatch_lock, postVars>>

sse_endpoint1(s) ==
    /\ pc[s] = "endpoint1"
    /\ \E ok \in BOOLEAN :
          /\ write_full(fd[s], piece(s, s, "endpoint", 1), ok)
          /\ IF ok THEN UNCHANGED sessVars /\ goto(s, "endpoint2")
                   ELSE unlock_write(s) /\ goto(s, "markclosed")
    /\ UNCHANGED <<mainVars, g_dispatch_lock, postVars>>

sse_endpoint2(s) ==
    /\ pc[s] = "endpoint2"
    /\ \E ok \in BOOLEAN :
          /\ write_full(fd[s], piece(s, s, "endpoint", 2), ok)
          /\ goto(s, IF ok THEN "loop" ELSE "markclosed")
    /\ unlock_write(s)
    /\ UNCHANGED <<mainVars, g_dispatch_lock, postVars>>

(* Variant: the loop leaves it to the walk to end it.                      *)
sse_loop_closed_only(s) ==
    /\ pc[s] = "loop"
    /\ goto(s, IF ~closed[s] THEN "recv" ELSE "markclosed")
    /\ UNCHANGED <<sockVars, sessVars, mainVars, g_dispatch_lock, postVars>>

sse_loop(s) ==
    /\ pc[s] = "loop"
    /\ goto(s, IF ~g_shutdown /\ ~closed[s] THEN "recv" ELSE "markclosed")
    /\ UNCHANGED <<sockVars, sessVars, mainVars, g_dispatch_lock, postVars>>

(* Variant: recv returning 0 is taken for no data.                         *)
sse_recv_end_retries(s) ==
    /\ pc[s] = "recv"
    /\ RecvEnds(fd[s])
    /\ goto(s, "loop")
    /\ UNCHANGED <<sockVars, sessVars, mainVars, g_dispatch_lock, postVars>>

sse_recv_end(s) ==
    /\ pc[s] = "recv"
    /\ RecvEnds(fd[s])
    /\ goto(s, "markclosed")
    /\ UNCHANGED <<sockVars, sessVars, mainVars, g_dispatch_lock, postVars>>

(* Variant: a single send needs no lock.                                   *)
sse_keepalive_unlocked(s) ==
    /\ pc[s] = "keepalive"
    /\ \E ok \in BOOLEAN :
          /\ write_full(fd[s], piece(s, s, "keepalive", 0), ok)
          /\ goto(s, IF ok THEN "loop" ELSE "markclosed")
    /\ UNCHANGED <<sessVars, mainVars, g_dispatch_lock, postVars>>

(* recv timed out: a keepalive is due, and waits for write_lock.           *)
sse_keepalive(s) ==
    /\ pc[s] = "keepalive"
    /\ lock_write(s, s)
    /\ goto(s, "ping")
    /\ UNCHANGED <<sockVars, mainVars, g_dispatch_lock, postVars>>

(* Its single send, which a client that does not read blocks with the lock *)
(* held.  Whatever became of it, the lock is given back.                   *)
sse_ping(s) ==
    /\ pc[s] = "ping"
    /\ \E ok \in BOOLEAN :
          /\ write_full(fd[s], piece(s, s, "keepalive", 0), ok)
          /\ goto(s, IF ok THEN "loop" ELSE "markclosed")
    /\ unlock_write(s)
    /\ UNCHANGED <<mainVars, g_dispatch_lock, postVars>>

(* Variant: the descriptor is closed as soon as the loop ends.             *)
sse_mark_closed_closes(s) ==
    /\ pc[s] = "markclosed"
    /\ closed' = [closed EXCEPT ![s] = TRUE]
    /\ close(fd[s])
    /\ goto(s, "unlink")
    /\ UNCHANGED <<g_sessions_head, g_sessions_lock, refcount,
                   write_lock, freed, mainVars, g_dispatch_lock, postVars>>

(* closed is set without taking write_lock.                                *)
sse_mark_closed(s) ==
    /\ pc[s] = "markclosed"
    /\ closed' = [closed EXCEPT ![s] = TRUE]
    /\ goto(s, "unlink")
    /\ UNCHANGED <<sockVars, g_sessions_head, g_sessions_lock, refcount,
                   write_lock, freed, mainVars, g_dispatch_lock, postVars>>

sse_unlink(s) ==
    /\ pc[s] = "unlink"
    /\ session_unlink(s)
    /\ goto(s, "release")
    /\ UNCHANGED <<sockVars, mainVars, g_dispatch_lock, postVars>>

(* Variant: the stream's thread owns the session and frees it.             *)
sse_release_frees(s) ==
    /\ pc[s] = "release"
    /\ refcount' = [refcount EXCEPT ![s] = @ - 1]
    /\ freed' = [freed EXCEPT ![s] = TRUE]
    /\ UNCHANGED <<g_sessions_head, g_sessions_lock, closed, write_lock>>
    /\ goto(s, "close")
    /\ UNCHANGED <<sockVars, mainVars, g_dispatch_lock, postVars>>

sse_release(s) ==
    /\ pc[s] = "release"
    /\ session_release(s)
    /\ goto(s, "close")
    /\ UNCHANGED <<sockVars, mainVars, g_dispatch_lock, postVars>>

----------------------------------------------------------------------------
(* recv in the loop of an SSE stream, legacy or not.                       *)

Streams == Sse \cup Stream

(* The client sends bytes the server ignores, or a signal interrupts recv. *)
(* A link counts as ended once what was sent before its end is read.       *)
recv_ignored(c) ==
    /\ pc[c] = "recv"
    /\ ~RecvEnds(fd[c])
    /\ goto(c, "loop")
    /\ UNCHANGED <<sockVars, sessVars, mainVars, g_dispatch_lock, postVars>>

Keepalives(c) == {i \in DOMAIN wire[c] : wire[c][i] = piece(c, c, "keepalive", 0)}

(* Variant: SO_RCVTIMEO is set on /sse streams only.                       *)
recv_timeout_sse_only(c) ==
    /\ c \in Sse
    /\ pc[c] = "recv"
    /\ ~RecvEnds(fd[c])
    /\ g_shutdown \/ Cardinality(Keepalives(c)) < MaxKeepalive
    /\ goto(c, "keepalive")
    /\ UNCHANGED <<sockVars, sessVars, mainVars, g_dispatch_lock, postVars>>

(* SO_RCVTIMEO expires.                                                    *)
recv_timeout(c) ==
    /\ pc[c] = "recv"
    /\ ~RecvEnds(fd[c])
    /\ g_shutdown \/ Cardinality(Keepalives(c)) < MaxKeepalive
    /\ goto(c, "keepalive")
    /\ UNCHANGED <<sockVars, sessVars, mainVars, g_dispatch_lock, postVars>>

----------------------------------------------------------------------------
(* Requests that reach the core: dispatch_locked.                          *)

(* The body parses, or not; POST /message gives its session back first.    *)
parse_ok(c) ==
    /\ pc[c] = "parse"
    /\ goto(c, "dispatch")
    /\ UNCHANGED <<sockVars, sessVars, mainVars, g_dispatch_lock, postVars>>

(* Variant: a body that does not parse leaves the session acquired.        *)
parse_error_leaks(c) ==
    /\ pc[c] = "parse"
    /\ UNCHANGED sessVars
    /\ goto(c, "reply")
    /\ UNCHANGED <<sockVars, mainVars, g_dispatch_lock, postVars>>

parse_error(c) ==
    /\ pc[c] = "parse"
    /\ IF c \in Post THEN session_release(target[c]) ELSE UNCHANGED sessVars
    /\ goto(c, "reply")
    /\ UNCHANGED <<sockVars, mainVars, g_dispatch_lock, postVars>>

(* Variant: the dispatch lock is held until the event is pushed.           *)
dispatch_lock_wide(c) ==
    /\ pc[c] = "dispatch"
    /\ g_dispatch_lock = None
    /\ \A p \in Post : pc[p] \notin {"ack", "push", "message1", "message2"}
    /\ g_dispatch_lock' = c
    /\ goto(c, "handling")
    /\ UNCHANGED <<sockVars, sessVars, mainVars, postVars>>

dispatch_lock(c) ==
    /\ pc[c] = "dispatch"
    /\ g_dispatch_lock = None
    /\ g_dispatch_lock' = c
    /\ goto(c, "handling")
    /\ UNCHANGED <<sockVars, sessVars, mainVars, postVars>>

(* Variant: without a response the thread returns with the lock held.      *)
dispatch_unlock_early(c) ==
    /\ pc[c] = "handling"
    /\ resp' \in {[resp EXCEPT ![c] = r] : r \in BOOLEAN}
    /\ g_dispatch_lock' = IF resp'[c] THEN None ELSE c
    /\ goto(c, IF c \in Post THEN "ack" ELSE "respond")
    /\ UNCHANGED <<sockVars, sessVars, mainVars, target>>

(* mcp_handle_message gives a response, or none (a notification, or no     *)
(* memory).                                                                *)
dispatch_unlock(c) ==
    /\ pc[c] = "handling"
    /\ g_dispatch_lock' = None
    /\ resp' \in {[resp EXCEPT ![c] = r] : r \in BOOLEAN}
    /\ goto(c, IF c \in Post THEN "ack" ELSE "respond")
    /\ UNCHANGED <<sockVars, sessVars, mainVars, target>>

----------------------------------------------------------------------------
(* POST /message: handle_legacy_post_message.                              *)

post_find(p) ==
    /\ pc[p] = "acquire"
    /\ IF target[p] \in g_sessions_head
       THEN session_find(p, target[p]) /\ goto(p, "ref")
       ELSE session_not_found(target[p]) /\ goto(p, "reply")
    /\ UNCHANGED <<sockVars, mainVars, g_dispatch_lock, postVars>>

post_ref(p) ==
    /\ pc[p] = "ref"
    /\ session_ref(p, target[p])
    /\ goto(p, "parse")
    /\ UNCHANGED <<sockVars, mainVars, g_dispatch_lock, postVars>>

(* 202 is sent, whatever comes of it; then the response is printed, which  *)
(* needs memory.                                                           *)
post_ack(p) ==
    /\ pc[p] = "ack"
    /\ \E ok \in BOOLEAN : write_full(fd[p], piece(p, p, "reply", 0), ok)
    /\ \E printed \in BOOLEAN :
          /\ resp' = [resp EXCEPT ![p] = @ /\ printed]
          /\ goto(p, IF resp[p] /\ printed THEN "push" ELSE "release")
    /\ UNCHANGED <<sessVars, mainVars, g_dispatch_lock, target>>

(* Variant: a POST that finds the stream busy gives up.                    *)
post_push_trylock(p) ==
    /\ pc[p] = "push"
    /\ IF closed[target[p]] \/ write_lock[target[p]] # None
       THEN UNCHANGED sessVars /\ goto(p, "release")
       ELSE lock_write(target[p], p) /\ goto(p, "message1")
    /\ UNCHANGED <<sockVars, mainVars, g_dispatch_lock, postVars>>

(* Take the session's write_lock, then look at closed.                     *)
post_push(p) ==
    /\ pc[p] = "push"
    /\ write_lock[target[p]] = None
    /\ IF closed[target[p]]
       THEN UNCHANGED sessVars /\ goto(p, "release")
       ELSE lock_write(target[p], p) /\ goto(p, "message1")
    /\ UNCHANGED <<sockVars, mainVars, g_dispatch_lock, postVars>>

(* Variant: a failed send returns without unlocking.                       *)
post_message1_keeps_lock(p) ==
    /\ pc[p] = "message1"
    /\ \E ok \in BOOLEAN :
          /\ write_full(fd[target[p]], piece(target[p], p, "message", 1), ok)
          /\ IF ok THEN UNCHANGED sessVars /\ goto(p, "message2")
                   ELSE UNCHANGED sessVars /\ goto(p, "release")
    /\ UNCHANGED <<mainVars, g_dispatch_lock, postVars>>

post_message1(p) ==
    /\ pc[p] = "message1"
    /\ \E ok \in BOOLEAN :
          /\ write_full(fd[target[p]], piece(target[p], p, "message", 1), ok)
          /\ IF ok THEN UNCHANGED sessVars /\ goto(p, "message2")
                   ELSE unlock_write(target[p]) /\ goto(p, "release")
    /\ UNCHANGED <<mainVars, g_dispatch_lock, postVars>>

post_message2(p) ==
    /\ pc[p] = "message2"
    /\ \E ok \in BOOLEAN :
          write_full(fd[target[p]], piece(target[p], p, "message", 2), ok)
    /\ unlock_write(target[p])
    /\ goto(p, "release")
    /\ UNCHANGED <<mainVars, g_dispatch_lock, postVars>>

post_release(p) ==
    /\ pc[p] = "release"
    /\ session_release(target[p])
    /\ goto(p, "close")
    /\ UNCHANGED <<sockVars, mainVars, g_dispatch_lock, postVars>>

----------------------------------------------------------------------------
(* POST /mcp: handle_mcp_post.                                             *)

(* 202 without a response; else 500 if it cannot be printed, a JSON body,  *)
(* or the headers of a single-event stream.                                *)
rpc_respond(r) ==
    /\ pc[r] = "respond"
    /\ \E kind \in IF resp[r] THEN {"reply", "headers"} ELSE {"reply"},
          ok \in BOOLEAN :
          /\ write_full(fd[r], piece(r, r, kind, 0), ok)
          /\ goto(r, IF kind = "headers" /\ ok THEN "event" ELSE "close")
    /\ resp' = [resp EXCEPT ![r] = FALSE]
    /\ UNCHANGED <<sessVars, mainVars, g_dispatch_lock, target>>

rpc_event(r) ==
    /\ pc[r] = "event"
    /\ \E ok \in BOOLEAN : write_full(fd[r], piece(r, r, "message", 0), ok)
    /\ goto(r, "close")
    /\ UNCHANGED <<sessVars, mainVars, g_dispatch_lock, postVars>>

----------------------------------------------------------------------------
(* GET /mcp: handle_mcp_get_stream.  The stream is in no table.            *)

stream_send(m, at, kind, next) ==
    /\ pc[m] = at
    /\ \E ok \in BOOLEAN :
          /\ write_full(fd[m], piece(m, m, kind, 0), ok)
          /\ goto(m, IF ok THEN next ELSE "close")
    /\ UNCHANGED <<sessVars, mainVars, g_dispatch_lock, postVars>>

stream_headers(m) == stream_send(m, "headers", "headers", "open")
stream_open(m) == stream_send(m, "open", "open", "loop")
stream_keepalive(m) == stream_send(m, "keepalive", "keepalive", "loop")

stream_loop(m) ==
    /\ pc[m] = "loop"
    /\ goto(m, IF g_shutdown THEN "close" ELSE "recv")
    /\ UNCHANGED <<sockVars, sessVars, mainVars, g_dispatch_lock, postVars>>

stream_recv_end(m) ==
    /\ pc[m] = "recv"
    /\ RecvEnds(fd[m])
    /\ goto(m, "close")
    /\ UNCHANGED <<sockVars, sessVars, mainVars, g_dispatch_lock, postVars>>

----------------------------------------------------------------------------
(* What clients do to an open connection.                                  *)

client(c) ==
    /\ peer_closes(c) \/ (c \in Stallers /\ peer_stalls(c)) \/ peer_drains(c)
    /\ UNCHANGED <<sessVars, mainVars, g_dispatch_lock, pc, postVars>>

----------------------------------------------------------------------------
MainExit ==
    main_setup \/ main_check \/ walk_lock \/ (\E s \in Sse : walk_session(s)) \/ walk_unlock

MainAccept ==
    (\E c \in Conns : main_accept(c) \/ main_drop(c)) \/ main_accept_error

SseStep(s) ==
    \/ sse_create(s) \/ sse_hello(s) \/ sse_endpoint1(s) \/ sse_endpoint2(s)
    \/ sse_loop(s) \/ sse_recv_end(s) \/ sse_keepalive(s) \/ sse_ping(s)
    \/ sse_mark_closed(s) \/ sse_unlink(s) \/ sse_release(s)

CoreStep(c) ==
    parse_ok(c) \/ parse_error(c) \/ dispatch_lock(c) \/ dispatch_unlock(c)

PostStep(p) ==
    \/ post_find(p) \/ post_ref(p) \/ post_ack(p) \/ post_push(p)
    \/ post_message1(p) \/ post_message2(p) \/ post_release(p)

RpcStep(r) == rpc_respond(r) \/ rpc_event(r)

StreamStep(m) ==
    \/ stream_headers(m) \/ stream_open(m) \/ stream_keepalive(m)
    \/ stream_loop(m) \/ stream_recv_end(m)

(* The steps a thread takes by itself, as long as it is scheduled.         *)
ThreadStep(c) ==
    \/ read_eof(c) \/ send_error(c) \/ conn_close(c)
    \/ c \in Sse /\ SseStep(c)
    \/ c \in Post \cup Rpc /\ CoreStep(c)
    \/ c \in Post /\ PostStep(c)
    \/ c \in Rpc /\ RpcStep(c)
    \/ c \in Stream /\ StreamStep(c)

(* The steps that wait for a client.                                       *)
ClientStep(c) ==
    \/ read_request(c) \/ read_refused(c) \/ read_nothing(c)
    \/ c \in Streams /\ recv_ignored(c)
    \/ client(c)

TimeoutStep(c) == c \in Streams /\ recv_timeout(c)

(* The process is left with nothing to do.                                 *)
Terminated ==
    /\ mainPc = "destroyed"
    /\ \A c \in Conns : pc[c] \in Ended
    /\ UNCHANGED vars

Next ==
    \/ on_signal \/ MainExit \/ MainAccept \/ run_again \/ mcp_server_destroy
    \/ \E c \in Conns : ThreadStep(c) \/ ClientStep(c) \/ TimeoutStep(c)
    \/ Terminated

Spec == Init /\ [][Next]_vars

(* Threads are scheduled and timers expire; nothing is assumed of clients, *)
(* of signals, or of accept, which waits for either.                       *)
Fairness ==
    /\ WF_vars(MainExit)
    /\ \A c \in Conns : WF_vars(ThreadStep(c)) /\ WF_vars(TimeoutStep(c))

FairSpec == Spec /\ Fairness

----------------------------------------------------------------------------
(* Safety.                                                                 *)

Holders(s) ==
    {t \in {s} : pc[t] \in SseServing}
    \cup {p \in Post : target[p] = s /\ pc[p] \in PostHolding}

(* A session's count is the number of threads that may still use it, and   *)
(* its memory is given back exactly when a finished session has no more of *)
(* them: neither a use after free nor a leak.  (session_create,            *)
(* session_acquire, session_release; refcount, mcp_http.c:81.)             *)
SessionMemory ==
    \A s \in Sse :
        /\ refcount[s] = Cardinality(Holders(s))
        /\ freed[s] <=> closed[s] /\ Holders(s) = {}

(* No list walk meets a freed node: not session_acquire's between its      *)
(* search and its increment, nor the shutdown walk's, nor anyone's next.   *)
NoWalkOverFreed ==
    \A s \in Sse : freed[s] =>
        /\ s \notin g_sessions_head \cup toWalk
        /\ \A p \in Post : target[p] = s => pc[p] # "ref"

(* The descriptor of a session in the table is the session's own           *)
(* connection: shutdown(s->fd) in the shutdown walk never hits a           *)
(* connection that was given the number of a closed stream.                *)
LinkedFdOwned ==
    \A s \in g_sessions_head : owner[fd[s]] = s

(* Who uses a session, and whether it was freed, as SharedNodes sees them. *)
Table == INSTANCE SharedNodes WITH
    Nodes <- Sse, Users <- Sse \cup Post, listed <- g_sessions_head,
    users <- [s \in Sse |-> Holders(s)], returned <- {s \in Sse : freed[s]}

(* A table behind a lock, a search and a count in two steps, and a counter *)
(* that each thread takes down by itself share the sessions among the      *)
(* threads as SharedNodes does: refinement.  (mcp_http.c:73-171.)          *)
SessionsAreShared == Table!Spec

(* What the clients of /sse read is what EventStreams promises them.       *)
Promise == INSTANCE EventStreams WITH out <- [s \in Sse |-> wire[s]]

(* Threads that write to one stream through several sends and two kinds of *)
(* locks keep the promise: refinement.  (mcp_http.c:13-24.)                *)
StreamsKeepPromise == Promise!Spec

(* Writers never interleave: on a stream the second half of an event       *)
(* follows its first half, and nothing else does.  ("so POST handlers in   *)
(* other threads can push events without interleaving writes",             *)
(* mcp_http.c:23-24.)                                                      *)
FramesWhole == Promise!FramesWhole

(* A stream begins with its headers and the endpoint event, though it is   *)
(* in the table, open to every POST, before either is sent.  ("first event *)
(* is `endpoint`", mcp_http.c:14-15.)  An error reply opens no stream.     *)
EndpointFirst == Promise!EndpointFirst

Delivered(p) ==
    \A part \in 1..2 : \E i \in DOMAIN wire[target[p]] :
        wire[target[p]][i] = piece(target[p], p, "message", part)

(* A response that was printed is on its session's stream by the time the  *)
(* POST's thread is done, unless the stream has ended: no response is lost *)
(* between a live session and its handler.  (mcp_http.c:16-19.)            *)
AcceptedIsDelivered ==
    \A p \in Post : resp[p] /\ pc[p] \in {"release", "close", "done"} =>
        \/ Delivered(p)
        \/ closed[target[p]]
        \/ link[target[p]] \in {"peerclosed", "down"}

(* Where a stream's thread is once it has tested g_shutdown and found it   *)
(* not set, until it tests it again.                                       *)
Waiting == {"recv", "keepalive", "ping"}

(* Once mcp_server_run_http has returned, no session's thread waits on a   *)
(* connection that was left open: each stream was in the list the walk     *)
(* shut down, or had not begun to wait and saw g_shutdown.                 *)
NoStreamLeftBehind ==
    mainPc \in {"returned", "destroyed"} =>
        \A s \in Sse : pc[s] \in Waiting => link[s] = "down"

(* The places at which a thread may block in send, in recv or for a lock.  *)
SendPlaces == {"reply", "hello", "endpoint1", "endpoint2", "ping", "ack",
               "message1", "message2", "respond", "event", "headers", "open",
               "keepalive"}
RecvPlaces == {"read", "recv"}
AwaitsLock(t) ==
    \/ t = Main /\ mainPc = "closesock"
    \/ t \in Sse /\ pc[t] \in {"create", "hello", "keepalive", "unlink"}
    \/ t \in Post /\ pc[t] \in {"acquire", "dispatch", "push"}
    \/ t \in Rpc /\ pc[t] = "dispatch"

SendsTo(c) == IF pc[c] \in {"message1", "message2"} THEN target[c] ELSE c

HoldsLock(t) ==
    t \in {g_sessions_lock, g_dispatch_lock} \cup {write_lock[s] : s \in Sse}

(* No thread waits for a lock with another one held, so that no chain of   *)
(* threads waits for itself; a thread with one of the locks that everybody *)
(* takes has no client to wait for, and one with a stream's write_lock     *)
(* none but the stream's.  No thread ends with a lock held.                *)
(* (mcp_http.c:13-24; 129, 138, 160, 397, 473, 501, 591, 976.)             *)
LocksDoNotNest ==
    /\ \A t \in Conns \cup {Main} : HoldsLock(t) => ~AwaitsLock(t)
    /\ \A c \in Conns : c \in {g_sessions_lock, g_dispatch_lock} =>
          pc[c] \notin SendPlaces \cup RecvPlaces \cup Ended
    /\ \A s \in Sse, c \in Conns : write_lock[s] = c =>
          pc[c] \in SendPlaces /\ SendsTo(c) = s

(* The invariant that carries the safety properties above: what each       *)
(* program counter says of the locks, the table and the descriptors.       *)

(* A thread that is not over owns the descriptor it was given.             *)
FdsOwned ==
    \A c \in Conns : /\ pc[c] # "idle" => fd[c] \in Fds
                     /\ pc[c] \notin Ended => owner[fd[c]] = c

InTable == SseServing \ {"release"}
Opened == SseServing \cup {"close", "done"}

(* The list holds the sessions between their creation and their unlinking; *)
(* g_sessions_lock is held only inside session_acquire and by the walk.    *)
TableMatches ==
    /\ \A s \in Sse : s \in g_sessions_head <=> pc[s] \in InTable
    /\ \A p \in Post : pc[p] = "ref" <=> g_sessions_lock = p
    /\ mainPc = "walk" <=> g_sessions_lock = Main
    /\ mainPc # "walk" => toWalk = {}
    /\ toWalk \subseteq g_sessions_head

(* A POST's session was opened and is the one it counted itself in; a      *)
(* stream's thread gives its session up only once it is closed.            *)
SessionsMatch ==
    /\ \A p \in Post : pc[p] \in PostHolding \cup {"ref"} => target[p] \in Sse
    /\ \A p \in Post : pc[p] = "ref" => target[p] \in g_sessions_head
    /\ \A p \in Post : pc[p] \in PostHolding /\ pc[target[p]] \notin SseServing
                         => pc[target[p]] \in Opened /\ closed[target[p]]
    /\ \A s \in Sse : pc[s] \in {"unlink", "release"} => closed[s]
    /\ \A s \in Sse : closed[s] => pc[s] \in Opened

(* Out of the accept loop the flag is set, so no stream starts to wait; a  *)
(* stream that waits is still to be visited by the walk, or was.           *)
WalkReaches ==
    /\ mainPc \in {"closesock", "walk"} => g_shutdown
    /\ mainPc \in {"setup", "returned", "destroyed"} /\ ~g_shutdown =>
          \A c \in Conns : pc[c] = "idle"
    /\ mainPc \in {"walk", "setup", "returned", "destroyed"} =>
          \A s \in Sse : pc[s] \in Waiting =>
              s \in toWalk \/ link[s] = "down"

IInv == /\ TypeOK /\ FdsOwned /\ TableMatches /\ SessionsMatch
        /\ SessionMemory /\ WalkReaches

(* The invariant that carries the streams' promise.                        *)

SentTo(s, x) == \E i \in DOMAIN wire[s] : wire[s][i] = x
LastSent(s) == wire[s][Len(wire[s])]

Greeted(s) == wire[s] # <<>> /\ wire[s][1] = piece(s, s, "headers", 0)
Sending(p, s) == target[p] = s /\ pc[p] \in {"message1", "message2"}

(* A session's write_lock is held exactly where its thread sends the       *)
(* endpoint event or a keepalive and where a POST sends its message.       *)
WriteLocks ==
    \A s \in Sse : \A c \in Conns :
        write_lock[s] = c <=>
            \/ c = s /\ pc[c] \in {"endpoint1", "endpoint2", "ping"}
            \/ c \in Post /\ Sending(c, s)

(* A POST names a session whose headers were sent.                         *)
TargetsGreeted ==
    /\ \A s \in Sse : SentTo(s, piece(s, s, "headers", 0)) => Greeted(s)
    /\ \A p \in Post : target[p] # None => Greeted(target[p])
    /\ \A p \in Post : pc[p] \in {"idle", "read"} => target[p] = None
    /\ \A c \in Conns : pc[c] \in Ended => link[c] = "down"

BetweenEvents(s) ==
    /\ wire[s] # <<>>
    /\ LastSent(s).part # 1
    /\ LastSent(s).kind \in {"endpoint", "message", "keepalive"}

(* What is on a stream where its thread is; a stream whose last event is   *)
(* cut has lost its connection.                                            *)
StreamsShaped ==
    \A s \in Sse :
        /\ pc[s] \in {"idle", "read", "reply", "create", "hello"} => wire[s] = <<>>
        /\ pc[s] \in {"endpoint1", "endpoint2", "loop"} \cup Waiting =>
              Greeted(s)
        /\ pc[s] = "endpoint1" => LastSent(s) = piece(s, s, "headers", 0)
        /\ pc[s] = "endpoint2" => LastSent(s) = piece(s, s, "endpoint", 1)
        /\ Greeted(s) /\ pc[s] \notin {"endpoint1", "endpoint2"} =>
              \/ link[s] = "down" \/ BetweenEvents(s)
              \/ \E p \in Post : Sending(p, s) /\ pc[p] = "message2"

(* Where a POST's thread is with its response, and what of it was sent.    *)
MessagesShaped ==
    /\ \A s \in Sse : \A p \in Post : SentTo(s, piece(s, p, "message", 1)) =>
          pc[p] \in {"message2", "release", "close", "done"}
    /\ \A p \in Post : pc[p] = "message2" =>
          \/ link[target[p]] = "down"
          \/ LastSent(target[p]) = piece(target[p], p, "message", 1)
    /\ \A p \in Post : resp[p] =>
          /\ target[p] # None
          /\ pc[p] \in {"ack", "push", "message1", "message2", "release",
                        "close", "done"}

SInv == /\ WriteLocks /\ TargetsGreeted /\ StreamsShaped /\ MessagesShaped
        /\ AcceptedIsDelivered

(* The dispatch lock is held by the thread that is inside the core; of the *)
(* connections only those that look a session up are seen with the lock of *)
(* the table.                                                              *)
GlobalLocks ==
    /\ \A c \in Conns : g_dispatch_lock = c <=> pc[c] = "handling"
    /\ g_sessions_lock \in Post \cup {Main, None}

(* Every piece on a connection was meant for it.  ("pushed as an SSE       *)
(* `message` event on the matching /sse stream", mcp_http.c:17-19.)        *)
StreamIsolation == strayed = {}

(* No thread is inside the core when its memory is freed.  ("serializes    *)
(* calls into mcp_handle_message so the single-threaded server core stays  *)
(* consistent", mcp_http.c:21-23.)                                         *)
CoreAlive ==
    mainPc = "destroyed" => \A c \in Conns : pc[c] # "handling"

----------------------------------------------------------------------------
(* Action properties.                                                      *)

(* Nothing of a session changes once it is freed: no thread counts, locks, *)
(* closes or unlinks a node it kept a pointer to.                          *)
FreedIsUntouched ==
    [][\A s \in Sse : freed[s] =>
          /\ UNCHANGED <<refcount[s], closed[s], write_lock[s], freed[s]>>
          /\ s \in g_sessions_head <=> s \in g_sessions_head']_vars

(* How far a thread is from its end, at each place of its code.            *)
StepsFrom(l) ==
    CASE l = "done" -> 0
      [] l = "close" -> 1
      [] l \in {"reply", "release", "event"} -> 2
      [] l \in {"unlink", "message2", "respond"} -> 3
      [] l \in {"markclosed", "message1"} -> 4
      [] l \in {"loop", "push"} -> 5
      [] l \in {"ping", "open", "endpoint2", "ack"} -> 6
      [] l \in {"keepalive", "headers", "endpoint1", "handling"} -> 7
      [] l \in {"recv", "hello", "dispatch"} -> 8
      [] l \in {"create", "parse"} -> 9
      [] l = "ref" -> 10
      [] l = "acquire" -> 11
      [] l = "read" -> 12
      [] l = "idle" -> 13

(* Every step of a thread leads towards its end, except that a stream      *)
(* waits again, which it does not once the server stops or its session is  *)
(* closed: from then on the code bounds the steps each thread still makes. *)
(* (mcp_http.c:434, 489.)                                                  *)
ThreadsRunOut ==
    [][\A c \in Conns : pc'[c] # pc[c] =>
          \/ StepsFrom(pc'[c]) < StepsFrom(pc[c])
          \/ /\ pc[c] = "loop" /\ pc'[c] = "recv" /\ ~g_shutdown
             /\ c \in Sse => ~closed[c]]_vars

----------------------------------------------------------------------------
(* Liveness.                                                               *)

(* A thread whose client has gone ends, unless another client does not     *)
(* read what it is sent: no descriptor or thread outlives its client.      *)
DisconnectEnds ==
    \A c \in Conns : link[c] = "peerclosed" ~>
        pc[c] = "done" \/ \E d \in Conns : link[d] = "stalled"

(* A stream nobody reads holds up no POST /mcp request: the dispatch lock  *)
(* is never held across a send.                                            *)
StallIsContained ==
    \A r \in Rpc : pc[r] = "parse" ~> pc[r] = "done" \/ link[r] = "stalled"

(* A session marked closed, by its thread or by the shutdown walk, ends    *)
(* even if its client does not read and a POST is blocked sending to it.   *)
ClosedSessionEnds ==
    \A s \in Sse : closed[s] ~> pc[s] = "done"

(* Out of its accept loop, mcp_server_run_http returns, whatever the       *)
(* streams' clients do.                                                    *)
ShutdownReturns == mainPc = "closesock" ~> mainPc = "returned"

(* After the return each session that was or comes to be open ends, unless *)
(* it was opened too late for the walk and its client does not read.       *)
ShutdownEndsStreams ==
    \A s \in Sse : mainPc = "returned" /\ pc[s] \in SseServing ~>
        pc[s] = "done" \/ link[s] = "stalled"

(* A GET /mcp stream ends after a shutdown by its own timeout.             *)
ShutdownEndsGetStream ==
    \A m \in Stream : g_shutdown /\ pc[m] = "recv" ~>
        pc[m] = "done" \/ link[m] = "stalled"

(* A signal ends the run loop.  ("Exits on SIGINT/SIGTERM", mcp.h:67.)     *)
SignalStopsServer == g_shutdown ~> mainPc \in {"returned", "destroyed"}
=============================================================================
