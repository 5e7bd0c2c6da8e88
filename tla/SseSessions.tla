---------------------------- MODULE SseSessions ----------------------------
(***************************************************************************)
(* The table of legacy HTTP+SSE sessions of src/mcp_http.c: a linked list  *)
(* under g_sessions_lock, whose nodes are reference counted.               *)
(*                                                                         *)
(* A session is named by the GET /sse connection it was created for; its   *)
(* descriptor (sse_session.fd) is fd[s].  Its id is 128 random bits, so    *)
(* two sessions never have the same id.  Each operation that the code      *)
(* makes atomic with g_sessions_lock, or with a C11 atomic, is one         *)
(* operator; session_acquire is two, because the reference it takes is     *)
(* only safe if nothing happens between finding the node and counting it.  *)
(***************************************************************************)
EXTENDS Sockets

VARIABLES
    g_sessions_head,   \* the sessions in the list
    g_sessions_lock,   \* the thread that holds it, or None
    refcount,
    closed,
    write_lock,        \* the thread that holds a session's write lock
    freed              \* the node was given back to the allocator

sessVars == <<g_sessions_head, g_sessions_lock, refcount, closed,
              write_lock, freed>>

SessionsTypeOK ==
    /\ g_sessions_head \in SUBSET Sse
    /\ g_sessions_lock \in Conns \cup {Main, None}
    /\ refcount \in [Sse -> Nat]
    /\ closed \in [Sse -> BOOLEAN]
    /\ write_lock \in [Sse -> Conns \cup {None}]
    /\ freed \in [Sse -> BOOLEAN]

SessionsInit ==
    /\ g_sessions_head = {}
    /\ g_sessions_lock = None
    /\ refcount = [s \in Sse |-> 0]
    /\ closed = [s \in Sse |-> FALSE]
    /\ write_lock = [s \in Sse |-> None]
    /\ freed = [s \in Sse |-> FALSE]

(* calloc, the initial stores, and the push under the lock.                *)
session_create(s) ==
    /\ g_sessions_lock = None
    /\ g_sessions_head' = g_sessions_head \cup {s}
    /\ refcount' = [refcount EXCEPT ![s] = 1]
    /\ closed' = [closed EXCEPT ![s] = FALSE]
    /\ UNCHANGED <<g_sessions_lock, write_lock, freed>>

(* session_acquire, first half: lock, then walk the list to the node.      *)
session_find(p, s) ==
    /\ g_sessions_lock = None
    /\ s \in g_sessions_head
    /\ g_sessions_lock' = p
    /\ UNCHANGED <<g_sessions_head, refcount, closed, write_lock, freed>>

(* session_acquire when no node has the id: lock, walk, unlock.            *)
session_not_found(s) ==
    /\ g_sessions_lock = None
    /\ s \notin g_sessions_head
    /\ UNCHANGED sessVars

(* session_acquire, second half: count the reference, then unlock.         *)
session_ref(p, s) ==
    /\ g_sessions_lock = p
    /\ refcount' = [refcount EXCEPT ![s] = @ + 1]
    /\ g_sessions_lock' = None
    /\ UNCHANGED <<g_sessions_head, closed, write_lock, freed>>

(* The thread whose decrement takes the count from 1 frees the node; no    *)
(* thread can see the node between the two, so they are one step.          *)
session_release(s) ==
    /\ refcount' = [refcount EXCEPT ![s] = @ - 1]
    /\ freed' = [freed EXCEPT ![s] = @ \/ refcount[s] = 1]
    /\ UNCHANGED <<g_sessions_head, g_sessions_lock, closed, write_lock>>

(* Variant: the node is unlinked without g_sessions_lock.                  *)
session_unlink_unlocked(s) ==
    /\ g_sessions_head' = g_sessions_head \ {s}
    /\ UNCHANGED <<g_sessions_lock, refcount, closed, write_lock, freed>>

session_unlink(s) ==
    /\ g_sessions_lock = None
    /\ g_sessions_head' = g_sessions_head \ {s}
    /\ UNCHANGED <<g_sessions_lock, refcount, closed, write_lock, freed>>

(* pthread_mutex_lock and _unlock of a session's write_lock.               *)
lock_write(s, c) ==
    /\ write_lock[s] = None
    /\ write_lock' = [write_lock EXCEPT ![s] = c]
    /\ UNCHANGED <<g_sessions_head, g_sessions_lock, refcount, closed, freed>>

unlock_write(s) ==
    /\ write_lock' = [write_lock EXCEPT ![s] = None]
    /\ UNCHANGED <<g_sessions_head, g_sessions_lock, refcount, closed, freed>>
============================================================================
