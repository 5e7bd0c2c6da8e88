# c_mcp_server in TLA+

The server is a C library for the Model Context Protocol: a registry of tools, a
JSON-RPC 2.0 core that answers `initialize`, `ping`, `tools/list` and
`tools/call`, and two transports, stdio and HTTP. The HTTP transport
(`src/src/mcp_http.c`) is where the program is concurrent: one detached thread
per connection, a table of SSE sessions shared by them, three kinds of lock, a
signal handler and a shutdown that runs while the threads do. `HttpServer` models
it, `HttpRequest` how one of its threads takes a request in. The core, the stdio
transport and the registry are sequential, and what is hard in them is failure: each builds trees of cJSON objects with an error path at almost
every allocation. `JsonRpc`, `Stdio` and `ToolRegistry` model them with those paths,
and with the one place where the code has none and loses an object
(`mcp_stdio.c:75`).

Paths below are relative to the repository (`src/` here is its root, so
`mcp_http.c` is `src/src/mcp_http.c`).

## Inventory

| Part | State | Operations | What is hard | Modules |
|---|---|---|---|---|
| Accept loop and shutdown (`mcp_server_run_http`, `on_signal`) | `g_shutdown`, the listening socket | set up, accept, start a thread, signal, walk the sessions, return, run again | signal against `accept`; threads and sessions that outlive the run loop; sessions opened during the walk | `HttpServer` |
| Connection threads and handlers (`conn_thread`, `handle_connection`, `handle_*`) | one descriptor each, `g_dispatch_lock` | read and route a request, answer it, stream, close | sends that block, peers that leave or stop reading, descriptor numbers that are reused | `HttpServer`, `EventStreams` |
| SSE session table (`session_*`) | `g_sessions_head`, `g_sessions_lock`, and per session `refcount`, `closed`, `write_lock`, `fd` | create, acquire, release, unlink, push an event, keepalive | lifetime of a node used by several threads; `closed` read under a lock and set without it | `SseSessions`, `SharedNodes` |
| Sockets and descriptors | the kernel's | accept, send, recv, shutdown, close | reuse of numbers, stalled and lost peers | `Sockets` (external) |
| Request parsing (`read_headers`, `read_full`, `write_full`, `handle_connection`, `extract_session_id`, `accept_prefers_sse`) | local buffers | incremental search for the blank line, Content-Length, Accept, sessionId, routing, body, reply | chunk boundaries, limits, integer conversions, lines that come twice | `HttpRequest` |
| JSON-RPC core (`mcp_jsonrpc.c`) | `initialized` | dispatch, results, errors, tool calls | one flag for all clients; a lack of memory half-way; NULL means both "notification" and "no memory" | `JsonRpc`, `Memory` |
| Server object and tool registry (`mcp_server.c`) | `tools`, `tools_count`, `tools_cap`, names | create, destroy, add_tool, find_tool, tool responses | failures part-way through a registration, growth, uniqueness | `ToolRegistry`, `Memory` |
| stdio transport (`mcp_stdio.c`) | the line buffer | read a line, parse, dispatch, write | write failures, end of input, a request that cannot be answered | `Stdio`, `Responder` |
| Logging (`mcp_log.c`) | none | a line on stderr | nothing | not modelled |
| cJSON (third party), examples, tests, `build/` | | | | not modelled; `http_demo`'s `main` gives `mcp_server_destroy` |

How the parts interact: `mcp_server_run_http` starts a thread per connection and
never joins it. A POST's thread calls the core under `g_dispatch_lock`, and for
the legacy protocol writes the answer to *another* thread's connection, through
the session it acquired from the table. The stream's thread writes to the same
connection (headers, endpoint event, keepalives) under the session's
`write_lock`. On a signal the main thread marks each session in the table closed
and shuts its connection down, then returns to a caller that frees the server.

What makes each part correct:

* Sessions: a node is freed once, when its last user gives it back, and is
  never reached by a walk, counted, locked or unlinked afterwards.
* Streams: the endpoint event comes first, events are never interleaved, and a
  response is dropped only because its stream is over.
* Descriptors: nobody shuts down or writes to a connection that is not theirs.
* Shutdown: the run loop returns whatever the clients do, and streams end.
* Containment: a client that does not read or goes away costs no other client.
* Core: each error path frees exactly what was built; a tool's failure is told; no
  tool runs before an `initialize`.
* stdio: one reply to a request, none to a notification; a response of the core that
  cannot be written ends the loop; what is left on the heap between two lines is at
  most a null id of a reply to a line that did not parse.
* Registry: a registration adds one complete tool or changes nothing, and a name
  finds one tool.

The hazards this code is exposed to are listed with their lines in
`PROJECT.json`, each with the properties that cover it or the reason why none
does.

## Modules

**`Sockets`** is the kernel as the transport uses it. A connection is named
for the one request its client sends (the server closes each connection after
one request), so the constants `Sse`, `Post`, `Rpc` and `Stream` are the
clients of `GET /sse`, `POST /message`, `POST /mcp` and `GET /mcp`. `owner`
maps a descriptor number to the connection it refers to *now*; `fd` is the
number a connection was given, which `conn_arg_t` and `sse_session_t` go on
holding after it is closed. Every send, recv and shutdown goes through the
number, as in the code, so a stale number reaches the wrong connection in the
model exactly when it does in the kernel. `link` is the state of a connection
(open, not read by its peer, left by its peer, down), `wire` what was sent on it
that was meant for it, and `strayed` what went out on another connection, each
piece with its addressee and its writer. `write_full` is one step
that succeeds, or fails and leaves the connection reset; on a stalled
connection it has no step: the thread is blocked.

**`SseSessions`** is the table. `session_acquire` is two steps (find the
node, count the reference) with `g_sessions_lock` held in between, because that
is the point of the lock; the other operations are one step each.

**`HttpServer`** composes them with the threads. `pc[c]` is where connection
`c`'s thread is, `mainPc` where the main thread is. Actions follow the handlers:

| Handler | Actions |
|---|---|
| `on_signal`, `mcp_server_run_http` | `on_signal`, `main_setup`, `main_check`, `main_accept`, `main_drop`, `main_accept_error`, `walk_lock`, `walk_session`, `walk_unlock` |
| the caller's `main` | `run_again`, `mcp_server_destroy` |
| `handle_connection`, `conn_thread` | `read_request`, `read_refused`, `read_nothing`, `read_eof`, `send_error`, `conn_close` |
| `handle_legacy_sse_get` | `sse_create`, `sse_hello`, `sse_endpoint1`, `sse_endpoint2`, `sse_loop`, `sse_recv_end`, `recv_ignored`, `recv_timeout`, `sse_keepalive`, `sse_ping`, `sse_mark_closed`, `sse_unlink`, `sse_release` |
| `handle_legacy_post_message` | `post_find`, `post_ref`, `parse_ok`, `parse_error`, `dispatch_lock`, `dispatch_unlock`, `post_ack`, `post_push`, `post_message1`, `post_message2`, `post_release` |
| `handle_mcp_post` | `parse_*`, `dispatch_*`, `rpc_respond`, `rpc_event` |
| `handle_mcp_get_stream` | `stream_headers`, `stream_open`, `stream_loop`, `recv_*`, `stream_recv_end`, `stream_keepalive` |

Definitions whose comment begins with "Variant:" are a slip somebody could make
in the definition after them; they are used by no specification and serve to
see that a property notices it.

A run begins with `main_setup`, which may fail (`socket`, `inet_pton`, `bind`,
`listen`); the signal handlers are installed by then. `run_again` is a caller that
runs the server a second time in the same process: threads and sessions of the first
run are still there, and so is `g_shutdown`, which nothing resets. The second run then
walks what the first left, at whatever point its threads are, and returns.

**`EventStreams`** is what the clients of `GET /sse` are promised: a stream is
refused, or opens with its headers; the endpoint event comes first; then come
keepalives and whole messages, at most one from each POST, in any order. `HttpServer`
implements it (`StreamsKeepPromise`) with `wire`, restricted to sessions, as `out`:
the threads, the locks and the table are the mechanism, and what they are for is that
each stream is one of these sequences. `FramesWhole` and `EndpointFirst` are stated
of `EventStreams` and hold of whatever implements it (`PromiseMeans`): the runs check
the refinement, and what follows from it is proved, not checked again.

**`SharedNodes`** is what the session table promises the threads that share it, without
its locks and counts: a node is entered with its owner as the only user, others join
while it is listed, the owner takes it off the list before it leaves, and the last user
to leave gives the memory back. `HttpServer` implements it (`SessionsAreShared`) with
`g_sessions_head` as `listed`, the threads whose program counter says they may use a
session (`Holders`) as `users`, and the freed sessions as `returned`. An acquire in two
steps is one step there, the second, which is why the session must still be listed then.
What the promise is good for is `NodesStaySafe`.

**`HttpRequest`** is one thread from its first `recv` to the handler or to the end of
a reply, the part `HttpServer` has as a choice (`read_request`, `read_refused`,
`read_nothing`, and `write_full` as one step). The input is a sequence of bytes. CR, LF
and the bytes of a body are themselves; a text with neither, which no step looks into,
is one byte that carries what the code finds in it: method, path and query of a request
line, sign and digits of a Content-Length, the media ranges of an Accept. `recv` takes
any number of bytes there is room for, `send` any number that is left of the write.

| Function | Definitions |
|---|---|
| `read_headers` | `recv_headers` (`Start`, `BlankAt`), `recv_ends` |
| `handle_connection` | `request_line`, `header_line` (`CrIn`, `EolOf`, `strtoul`, `cut`), `route` (`route_get`, `route_post`, `LengthRefused`, `Already`), `handle_post` |
| `read_full` | `recv_body`, `recv_ends` |
| `extract_session_id`, `accept_prefers_sse`, `contains_ci` | `extract_session_id`, `accept_prefers_sse`, `AsksForStream` |
| `send_response`, `write_full` | `answer`, `send`, `send_fails` |

**`Memory`** is the heap as code that builds cJSON trees uses it. A variable of the
code is NULL, points to something live, or dangles; an object may have been added
to a tree, which then owns it. `fault` is set by a double free, a use after free, a
free from under the owner, an object added twice, or a pointer that is overwritten, or
whose block ends (`Leave`), while it is the only one. An object stands for what is put
into it before anybody else sees it: the strings of a result, of a tool's entry and of
an item, and the parts of an envelope, whose copy of the id is freed by `make_envelope`
when it cannot be added (`mcp_jsonrpc.c:36-41`). Their failures are those of the object:
the paths that delete it, in the model, stand for each of the allocations inside it.

**`JsonRpc`** is `mcp_jsonrpc.c`, and the response builder of `mcp_server.c` that
handlers call. `at` is the place in the handlers; a step runs to the next place
where an allocation may fail, and its `oom` disjuncts are the error paths up to
there, each with the `cJSON_Delete` calls of that path. A message is what the core
looks at in one: whether it is an object, whether `jsonrpc` is right, its method,
its id, and what `tools/call` finds in its params. A handler makes any calls of the
builder, at most `MaxCalls`, and returns either result. What it did is kept in
`calls` and `failed`, to be compared with the answer. The item of a text
(`mcp_tool_response_add_text`) is an object of its own: `TextItem` has it made, added to
the content, or deleted on its way there, within one call of the builder. `faults` says
of a whole run
whether allocations and writes may fail in it; it never changes, and properties that
speak of a machine with enough of both have it in their condition.

| Function | Actions |
|---|---|
| `mcp_handle_message` | `refuse`, `ignore_notification`, `dispatch` |
| `handle_initialize`, `handle_ping` | the same |
| `handle_tools_list` | `handle_tools_list`, `list_tool`, `list_end` |
| `handle_tools_call` | `call_refused`, `call_args`, `call_content`, `handler_returns`, `call_result`, `call_error_item`, `call_attach`, `call_is_error` |
| the tool's handler | `mcp_tool_response_add_text`, `mcp_tool_response_set_error` |
| `make_result`, `make_error` (with `make_envelope`, `clone_id`) | the same |

**`Stdio`** is `mcp_server_run_stdio` around the core: `getline`, `getline_fails`,
`parse_error`, `parse_ok`, `core` (a step of `JsonRpc`), `no_response`, `respond`,
`run_returns`. `write_message` succeeds, fails with nothing written, or fails with
a part written. `lines` and `stdout` are what was read and written so far.
`getline_fails` covers the end of the input, read errors and a line there is no
memory for. A line over which cJSON runs out of memory is answered like one that
does not parse. That answer is built from what can be allocated, on a heap of its own
(`reply_heap`): `resp`, its error `err`, and its null id, one variable for each line
(`null_id`). It may lack its error or its code, and a failure to write it is ignored, so
that what comes next may continue its line; `LossEndsLoop` therefore speaks of the
core's responses only. The result of `cJSON_AddItemToObject` is ignored as well
(line 75): when there is no memory to copy the key, the id was made and is in no tree
(cJSON neither takes nor frees it then), and is lost when the block ends. So `WithId`
has three outcomes, and after one of them `parse_error` leaves the id on the heap.

**`Responder`** is what a client may rely on: at most one reply to a line, before
the next is taken, that answers to the request in it or says that the line could not
be read, and none to a notification or a blank line. `Stdio` implements it
(`KeepsPromise`), with `lines` as what was heard and `stdout`, reduced to the line
and to what is answered, as what was said. Without memory any line may be one that
could not be read, a notification too. What it comes to is `RepliesMatch`, proved of
whatever implements `Responder` (`PromiseMeans`).

**`ToolRegistry`** is the server object of `mcp_server.c`: `mcp_server_create`,
`mcp_server_add_tool` in the steps `add_tool`, `add_schema`, `tools_reserve`,
`add_fill`, `add_commit`, and `mcp_server_destroy`. The pointers of the slots are
variables of the heap, so that a failed registration must give each of them back.
`realloc` moves the array and keeps what its slots point to.

**`MCHttpServer`**, **`MCHttpRequest`**, **`MCStdio`** and **`MCToolRegistry`** give
the instances for TLC; **`HttpServerProofs`**, **`HttpStreamProofs`** (which extends
it), **`HttpRequestProofs`**, **`StdioProofs`** and **`ToolRegistryProofs`** hold the
proofs; `EventStreams`, `SharedNodes` and `Responder` have what follows from them.

### Granularity

A step is what a thread does between two points where another thread can tell
the difference. Taking a lock is one step with the access it guards, and the
release one step with the last access before it: a lock operation only moves
the step later or earlier among other threads' steps. Where a thread can block
or be overtaken *inside* a critical section the section is several steps: the
hello of a stream (headers and two halves of the endpoint event), the two
halves of a message, the two halves of `session_acquire`, the shutdown walk,
the core's `mcp_handle_message`, and a keepalive (`sse_keepalive` takes `write_lock`,
`sse_ping` sends and gives it back): a stalled client is seen to block each of them
with its lock held.

* The unlock after a failed `send_sse_headers` is one step with the send, as
  nothing is written in between; so the lock is not seen taken at all then.
* An event is six sends in the code and two pieces here: enough to see it
  torn, cut short by a failure, or continued on another connection. The
  single event of a `POST /mcp` answer goes to a connection no other thread
  knows, and is one piece.
* `shutdown` and `close` at the end of `conn_thread` are one step. Between
  them the connection is down and its number still taken; a POST that writes
  then fails, which it can also do just after the close while the number is free.
* In `session_release` the decrement that finds 1 and the free are one step:
  no other thread has a reference.
* `walk_session` sets `closed` and shuts down in one step. Between the two, a
  stream's thread can leave its loop, but it cannot pass `session_unlink`,
  which needs the lock the walk holds, and so cannot close its descriptor.
* Sessions are a set: the order of the list matters to nobody.
* The id of a session is 128 random bits; the model takes ids to be unique. A
  client can name only a session whose headers were sent, or an unknown one.

### What the models leave out

* Wording: the texts of responses, the landing page, log lines, the numbers in a
  JSON value. The HTTP status is kept where a reply's parts are (`HttpRequest`).
* In `HttpRequest`: how a text is compared (case, blanks, a NUL in the middle of a
  line) and the sizes of `method` (16) and `path` (1024); a request line is one or it
  is not. In `HttpServer`: which request meets which refusal; it takes them all.
* `gen_session_id` failing is `session_create` failing. `setsockopt` failing has no
  effect the model could show: a receive timeout that was not set.
* A signal's other effects: `recv` interrupted is `recv_ignored`. Bytes a client sends
  on a stream are ignored by the code, and are a step through `recv_ignored`.
* The visibility of `g_shutdown` (`volatile sig_atomic_t`) between threads: the flag
  is read as written.
* Time. `recv_timeout` may happen at any moment; 15 seconds and "immediately" are not
  told apart, nor is a busy loop from a wait (`accept` failing with EMFILE).

## Runs

### HTTP

These runs are of `MCHttpServer`. `Given` says which descriptor numbers a
connection may be given: `AnyFd` any free one, `OwnFd` its own, for runs whose
question has nothing to do with reuse. `Stallers` are the clients that may stop
reading. `MaxKeepalive` bounds the keepalives of a stream before a shutdown
(after one they stop by themselves). `MayStop` allows a signal, `MayRestart` further
runs of the server in the same process. Safety runs are
reduced by symmetry of sessions, POSTs and descriptors; liveness runs are not.

| Run | Instance | Checks |
|---|---|---|
| `TwoPosters` | 1 session, 2 POSTs, 3 descriptors | `TypeOK`, `SessionMemory`, `AcceptedIsDelivered`, `LocksDoNotNest`, `StreamsKeepPromise`, `SessionsAreShared` |
| `TwoSessions` | 2 sessions, 1 POST, 2 descriptors, 1 keepalive, runs one after the other | `NoWalkOverFreed`, `LinkedFdOwned`, `NoStreamLeftBehind`, `FreedIsUntouched`, `ThreadsRunOut` |
| `Contained` | a session that may stall, a POST to it, a `POST /mcp` | `DisconnectEnds`, `StallIsContained` |
| `Shutdown` | a session that may stall, a POST to it, 2 descriptors, a signal | `ClosedSessionEnds`, `ShutdownReturns`, `ShutdownEndsStreams` |
| `GetStream` | a session and a `GET /mcp` stream that may stall, a signal | `ShutdownEndsGetStream` |

The bounds are enough for what each run asks. Two POSTs and the stream's own
thread are three users of one session and three writers of one stream: each
pair of them meets in every order. Two sessions and two descriptors make a
closed stream's number be given out again while the old session is still held
by a POST. One session that stalls is enough to hold a lock across a blocked
send, and one other request to be held up by it.

Three runs show disagreements between the code and what it says of itself; each
ends with a counterexample:

* `CrossStream`: a POST tests `closed` (line 592) with `write_lock` held, but
  the stream's thread sets it (line 516) and closes the descriptor (line 882)
  without that lock. If a connection is accepted on the same number in between,
  the event goes to it. Taking `write_lock` around line 516 would close the gap.
* `LostSignal`: a signal between the test of `g_shutdown` and `accept` (lines
  942-945), or delivered to another thread, leaves the server in `accept` until
  a client connects, although `mcp.h:67` says it exits.
* `DestroyedCore`: threads are detached (line 970) and `mcp_server_run_http`
  does not wait for them; `http_demo` and `test_http.c` free the server next,
  with a thread possibly inside `mcp_handle_message`.

The shutdown walk signals "any live SSE streams" (line 975) but a `GET /mcp` stream
is in no table: it may still wait when the run loop returns, and ends by its receive
timeout only, which is what `GetStream` checks.

### Requests

`Requests` (of `MCHttpRequest`): every method and path with one header line; a POST
with any two lines among seven Content-Lengths (right, too small, 0, too large,
overflowing, negative, without digits), four Accepts and an unknown one, or with a
line that has a CR or LF by itself, at its end or inside it (after a lone CR the code sees
no more lines, and the body must still begin behind the blank line); bodies shorter, as
long and longer than announced; a header that does not fit, and inputs that are no
requests. 1006 inputs, each cut in every way. The header buffer is 12 bytes: a header
with two lines ends
before that, one input's exactly there, and one's does not fit. Bodies are 2 bytes at
most, an unsigned long 3 bits, kept ids and Accepts 2 long, so that every limit is met
from both sides. The four bytes of the blank line are split between two, three and four
calls of `recv`. It checks `RequestTypeOK`, `HeaderEndFound`, `LengthHonoured`, `BodyExact`,
`AcceptFirstWins`, `ReplyExact`, `CompleteIsRead`, `StepsRunOut` and `CompleteIsTaken`.

`LengthHonoured` speaks of lengths without a minus sign. `strtoul` takes one and
wraps: `Content-Length: -18446744073709551615` is 1, in the code and in the model
(`-7` of 3 bits). No document says what should become of it. `Complete`, in
`CompleteIsTaken` and `CompleteIsRead`, asks for as many bytes as a body may have, as
the code waits for what was announced.

### Core and stdio

These runs are of `MCStdio`. `ToolCount` is the number of registered tools,
`MaxCalls` the calls of the response builder a handler makes at most, `MaxLines`
the lines of a session, `Messages` the messages it is made of (`AllMessages`: every
method, every way to ask for a tool, every way to be no request, and the odd ids).
`faults` starts with both of its values.

| Run | Instance | Checks |
|---|---|---|
| `StdioLoop` | any 2 lines, 2 tools, 2 builder calls | `TypeOK`, `OnlyIdsLeak`, `NoHeapFault`, `ToolErrorTold`, `LossEndsLoop`, `EveryRequestAnswered`, `InitializeGates`, `KeepsPromise`, `NoStepRepeats`, `LineIsFinished` |
| `SilentRequest` | 1 line | `SilenceMeansNotification`, violated |

Nothing of the core is on the heap between two lines, and the ids that were lost before
(`OnlyIdsLeak`) are never looked at again, so what a line can do depends on the ones
before it through `initialized` alone: a second line sees both values of it.
Two tools make a list fail with a tool already in it, and two builder calls replace
an error message by another, or by none. That more lines, tools and calls show
nothing else is what `StdioProofs` proves. `InitializeGates` contains
`InitializeFirst`, the half of it that holds whatever fails.

`OnlyIdsLeak` says what is left on the heap between two lines: of the core's trees
nothing, whatever failed; of the loop's own replies nothing but the null id of a line
that could not be parsed, one to a line, and only in a run whose allocations may fail.
That the id is lost then is what the code does (`mcp_stdio.c:75`); no document says that
nothing leaks, so it is no finding here, but the result of that call should be looked at
as `make_envelope` does.

`SilentRequest`: `mcp_internal.h:47` says NULL is returned "if the request was a
notification"; `make_result` and `make_error` also return NULL without memory, and
both transports then drop a request as if nobody waited for its answer.

### Registry

`Registry` (of `MCToolRegistry`): at most five tools under five names, which takes
the array past its first capacity of 4, each registered with both texts, with a
schema, or with a schema that does not parse; any allocation may fail, and the
object may be destroyed between any two calls. It checks `RegistryTypeOK`,
`RegistryMemory`, `NamesUnique` and `AddsOrNothing`, with names interchangeable.

### Fairness

`FairSpec` assumes weak fairness of each thread's own steps, of each stream's
receive timeout (`SO_RCVTIMEO` is set before every `recv` of both loops), and of
the main thread's steps outside `accept`. Nothing is assumed of `accept`, of
signals, or of clients: they may never send, never read again and never leave.
Weak fairness is enough for the locks: a connection is in one request for its
whole life, so a lock has finitely many contenders, each of which takes it a
bounded number of times, and a waiting thread's step is enabled continuously in
the end. That is a property of the bounded instance as well as of any finite
set of clients, not of a server with an endless stream of new ones; on that the
code rests on the fairness of the mutex.

`HttpRequest!FairSpec` assumes weak fairness of the one thread: it is scheduled, and
bytes that were sent arrive. The client may leave at any time.

`Stdio!FairSpec` assumes weak fairness of the loop's one thread once it has a line;
`getline` may wait for ever. That a tool's handler returns is the bound `MaxCalls`: the
code promises nothing about a handler that does not.

Conclusions that depend on a peer say so: a thread blocked sending to a client
that neither reads nor leaves is excused (`link = "stalled"`), since
`write_full` has no timeout.

## Proofs

### HTTP

`HttpServerProofs` proves, for every finite set of sessions and POSTs, every set
of other connections and of descriptors, and every value of the bounds:

| Theorem | Statement |
|---|---|
| `Invariance` | `Spec => []IInv` |
| `TypeCorrect` | `Spec => []TypeOK` |
| `SessionMemoryCorrect` | `Spec => []SessionMemory` |
| `NoWalkOverFreedCorrect` | `Spec => []NoWalkOverFreed` |
| `LinkedFdOwnedCorrect` | `Spec => []LinkedFdOwned` |
| `NoStreamLeftBehindCorrect` | `Spec => []NoStreamLeftBehind` |
| `FreedIsUntouchedCorrect` | `Spec => FreedIsUntouched` |
| `ThreadsRunOutCorrect` | `Spec => ThreadsRunOut` |
| `SessionsAreSharedCorrect` | `Spec => SessionsAreShared`, the refinement of `SharedNodes` |

They rest on the assumptions the modules state of their constants: the four
kinds of connection are disjoint (`ConnsDisjoint`), the sessions and the POSTs
are finite sets (`FiniteClients`, for the cardinality in `SessionMemory`),
`Main` and `None` are neither connections nor descriptors (`SpecialValues`),
and the bounds have their types (`Bounds`).

The argument is one inductive invariant, `IInv`. `SessionMemory` alone is not
inductive: that a decrement to zero is the last one needs the count to be the
number of threads whose program counter says they hold the session, and that a
new holder is counted in before the node can be freed needs the node to be in
the table while it is looked up. So `IInv` adds

* `FdsOwned`: a thread that is not over owns the descriptor it was given;
* `TableMatches`: the list is exactly the sessions between creation and
  unlinking, and `g_sessions_lock` is held exactly inside `session_acquire`
  and by the walk;
* `SessionsMatch`: a POST that holds a session names one, and the session of a
  POST whose stream has ended is closed;
* `WalkReaches`: outside the accept loop the flag is set, and a stream that
  waits is still to be visited by the walk or already shut down.

Each part is preserved by every action; the lemmas on `Holders` say what a step
does to the set whose cardinality the count is. `NoWalkOverFreed`,
`LinkedFdOwned` and `NoStreamLeftBehind` follow from `IInv` in a state, and
`FreedIsUntouched` from `IInv` before a step: no thread has a program counter
from which it touches a freed session. `SharingStep` sorts the actions by what they do to
the holders of a session: a thread joins (`Joins`), one leaves (`Leaves`), or all stay
(`Remains`). The count (`MemoryStep`) and the refinement (`TableShares`) both follow from
it, the latter with `IInv`: that the counter shows 1 exactly to the last holder is what
makes the concrete free the abstract one.

`ThreadsRunOut` is the safety half of the liveness properties: `StepsFrom` numbers the
places of the code so that each step of a thread goes down, but for the loops of the two
streams, which go round only while neither the server stops nor the session is closed.
With the fairness of TLC's runs it is why a thread that is never blocked ends.

`HttpStreamProofs` proves, for the same constants:

| Theorem | Statement |
|---|---|
| `StreamsKeepPromiseCorrect` | `Spec => StreamsKeepPromise`, the refinement of `EventStreams` |
| `FramesWholeCorrect` | `Spec => []FramesWhole` |
| `EndpointFirstCorrect` | `Spec => []EndpointFirst` |
| `AcceptedIsDeliveredCorrect` | `Spec => []AcceptedIsDelivered` |
| `LocksDoNotNestCorrect` | `Spec => []LocksDoNotNest` |

`SInv` is inductive next to `IInv`. It says who holds each `write_lock`, by program
counter (`WriteLocks`), that a POST names a session whose headers were sent
(`TargetsGreeted`), what the last piece on a stream is where its thread and its POSTs
are (`StreamsShaped`), and how far each message got (`MessagesShaped`). The first two
are needed because the session is in the table before a byte is sent: what keeps a
message behind the endpoint event is that its client learnt the id from the headers,
and that the headers were sent under the lock the POST waits for. The proof looks at
the actions three times only, for what a step does to the links (`LinkStep`), to one
stream (`StreamStepped`) and to one POST (`PostStepped`); the rest follows from these.
`FramesWhole` and `EndpointFirst` then come from `PromiseMeans` of `EventStreams`.

`LocksDoNotNest` is the other half of liveness: nobody waits for one mutex with another
one held, and a mutex everybody needs is never held at a `send` or a `recv`. It follows
from who holds what: `WriteLocks` for the streams, `TableMatches` for the table, and
`GlobalLocks`, an invariant of its own, which says that the core's lock is held exactly
inside the core and the table's by no thread but those of `TableMatches`.

### Requests

`HttpRequestProofs` proves, for every set of inputs and all sizes of the buffers:

| Theorem | Statement |
|---|---|
| `TypeCorrect` | `Spec => []RequestTypeOK` |
| `HeaderEndFoundCorrect` | `Spec => []HeaderEndFound` |
| `LengthHonouredCorrect` | `Spec => []LengthHonoured` |
| `BodyExactCorrect` | `Spec => []BodyExact` |
| `AcceptFirstWinsCorrect` | `Spec => []AcceptFirstWins` |
| `ReplyExactCorrect` | `Spec => []ReplyExact` |
| `CompleteIsReadCorrect` | `Spec => []CompleteIsRead` |
| `StepsRunOutCorrect` | `Spec => StepsRunOut` |

from `Sizes` (the sizes are numbers, the header buffer is not empty, and a body may be
shorter than `ULONG_MAX`), `InputsAreSequences` and `Fields` (the fields of a text
have their types). The properties compare what the thread found, step by step in its
buffers, with definitions over the whole input (`Ends`, `HeaderLines`, `LinesOf`).
`IInv` says how far the thread is: the header buffer is a prefix of the input in which
no blank line was overlooked, though the search goes on from 3 bytes before the last
chunk (`HeaderIsPrefix`, `HeaderSearched`); each line start so far was one, and the
values taken are those of the last line of each kind before it (`LinesTaken`); the body
is what follows, and the next `recv` goes on behind it (`BodyFollows`); the client has
heard what was sent (`ReplyHeard`).

`CompleteIsRead` and `StepsRunOut` are what `CompleteIsTaken` rests on. The first says
that no `recv` waits for a byte that is not coming and that such a request is given up
for two reasons only; it needs, besides `IInv`, what is known of a thread that gave up
(`GivenUp`) or has not found a line yet (`NoLineYet`). The second counts: bytes to take,
lines to look at, parts of the code and of the reply to come, which every step of the
thread makes fewer (`StepCounts`).

### Core and stdio

`StdioProofs` proves, for every set of messages, every number of tools, lines and
builder calls, and failures anywhere or nowhere:

| Theorem | Statement |
|---|---|
| `LoopTypeCorrect` | `Spec => []TypeOK` |
| `OnlyIdsLeakCorrect` | `Spec => []OnlyIdsLeak` |
| `NoHeapFaultCorrect` | `Spec => []NoHeapFault` |
| `LossEndsLoopCorrect` | `Spec => []LossEndsLoop` |
| `InitializeFirstCorrect` | `Spec => []InitializeFirst` |
| `EveryRequestAnsweredCorrect` | `Spec => []EveryRequestAnswered` |
| `InitializeGatesCorrect` | `Spec => []InitializeGates` |
| `KeepsPromiseCorrect` | `Spec => KeepsPromise`, the refinement of `Responder` |
| `RepliesMatchCorrect` | `Spec => []RepliesMatch`, from the refinement and `PromiseMeans` of `Responder` |
| `ToolErrorToldCorrect` | `Spec => []ToolErrorTold` |
| `NoStepRepeatsCorrect` | `Spec => NoStepRepeats` |

from `CoreBounds` and `StdioBounds` (the constants have their types), `NoOwnerIsNone` and
`NoOwnerIsNoReply`. The inductive invariant has two halves. `HeapAt` says, for each place
in the core, which objects may be live there and which tree each is in: a step's error
path then frees exactly what `HeapAt` lists, and the lemmas `...Heap` show it place by
place, from what `Alloc`, `Attach`, `Clear`, `Delete` and `Return` do to one object
(`AllocIs` to `ReturnIs`) and to a heap in which only certain objects are live
(`AllocOnly`, `AttachOnly`, `DeleteOnly`). The tree of a tool list has any number of
tools (`Built`, `Listed`), freed in one go (`ListDeleted`). The other half follows a
message through the core (`Dispatched`, `RightlyAnswered`, `Collected`) and through
the loop (`AtHand`, `RepliesDealt`, `AllSettled`, `AllGated`, `InitializedBy`): every
line before the one at hand is dealt with, and the flag says whether a request to
initialize was among those that had a chance to set it.

`Collected` is what `ToolErrorTold` needs at every place before the answer: the content
gathered so far is the texts of those calls of the builder that added one, in their
order, and an error text is kept if and only if that of the last error was. The
positions are cardinalities of `Added`, the same set cut at each call, so that no
recursion over `calls` is needed (`AddedGrows`, `HoldsGrows`; `HoldsShifts` for the
error that is put in front). An error whose text is empty (`"empty"`) is told with the
generic text, as the code tests for an empty string. `NoStepRepeats` counts, as
`StepsRunOut` does, over the tools still to be listed and the calls a handler may still
make.

The loop's own replies have a heap and an invariant of their own, `ReplyInv`: no fault,
and what is live is the null id of an earlier line that the core did not answer (`Lost`).
`WithErrorIs` says what is live, and where, in each way a reply can be put together, and
`ReplyIsGone` that the deletion leaves the id that was not added and nothing else.

### Registry

`ToolRegistryProofs` proves, for every set of names, every kind of tool and every
number of tools:

| Theorem | Statement |
|---|---|
| `Invariance` | `Spec => []IInv` |
| `TypeCorrect` | `Spec => []RegistryTypeOK` |
| `RegistryMemoryCorrect` | `Spec => []RegistryMemory` |
| `NamesUniqueCorrect` | `Spec => []NamesUnique` |
| `AddsOrNothingCorrect` | `Spec => AddsOrNothing` |

from `RegistryBounds` (the constants have their types, and `None` is no name) and
`NoOwnerIsNone` (`NoOwner` is none of the heap's objects). `RegistryMemory` speaks of
the heap between two calls and `NamesUnique` of the names of counted slots, so neither
is inductive. `IInv` adds `MemoryInv`, what is on the heap at each point of a call (the
schema from `add_schema` on, the array from `tools_reserve` on, some of the strings at
`add_commit`), and `CallInv`: the name being registered is not taken, the slot after
the last is within the array once `tools_reserve` has run, and holds what was asked
for. The lemmas `AllocFlat`, `AllocAllFlat`, `DeleteFlat` and `ReturnFlat` say what each
operation of `Memory` does to the sets of live and freed objects when nothing is added
to a tree; with them each action is a fact about sets. `NeededSame` and `NeededGrows`
relate the heap a registry needs to the number of its tools.

### Model-checked only

* The liveness properties: `DisconnectEnds`, `StallIsContained`, `ClosedSessionEnds`,
  `ShutdownReturns`, `ShutdownEndsStreams`, `ShutdownEndsGetStream`,
  `CompleteIsTaken`, `LineIsFinished`. Of what they rest on `LocksDoNotNest`,
  `ThreadsRunOut`, `CompleteIsRead`, `StepsRunOut` and `NoStepRepeats` are proved; that a
  fair scheduler then brings a thread to its end is temporal reasoning with `ENABLED`.
* The four violations.

## Not modelled

* `mcp_log.c` writes a line to stderr and changes no state.
* cJSON is third-party: the models have what its callers see, a value or NULL.
* The tools of the examples are pure functions; of `http_demo`'s `main` the models have
  its end, which frees the server.
* Tests were read for what the code promises; `build/` is generated.
* The composition of `HttpServer` with `JsonRpc`: under `g_dispatch_lock` the core runs
  as it does under the stdio loop, and what it does with `initialized` (one flag for
  all clients, `mcp_jsonrpc.c:317`) is no different with two transports, so nothing but
  the product of both state spaces would be added. `HttpServer` has the core as a
  step that answers or does not, between taking the lock and releasing it.
* A server with an endless stream of new clients: each connection of the models serves
  one request, as in the code, and there are finitely many.
