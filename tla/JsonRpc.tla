------------------------------- MODULE JsonRpc ------------------------------
(***************************************************************************)
(* The core of the server, src/mcp_jsonrpc.c: from a parsed message to the *)
(* response or to none, with a failure possible at every allocation, and   *)
(* the tool handlers it calls with the builder of src/mcp_server.c.        *)
(*                                                                         *)
(* The core has one thread.  A step is the part of a handler between two   *)
(* of its allocations' error paths, so that each path frees what was       *)
(* built up to there and nothing else.                                     *)
(***************************************************************************)
EXTENDS Integers, Sequences, FiniteSetsExt, Memory

CONSTANTS
    ToolCount,      \* the registered tools are 1..ToolCount
    MaxCalls        \* calls of the response builder per tool call (a bound)
ASSUME CoreBounds == ToolCount \in Nat /\ MaxCalls \in Nat

JSONRPC_PARSE_ERROR == -32700
JSONRPC_INVALID_REQUEST == -32600
JSONRPC_METHOD_NOT_FOUND == -32601
JSONRPC_INVALID_PARAMS == -32602
JSONRPC_INTERNAL_ERROR == -32603
Codes == {0, JSONRPC_PARSE_ERROR, JSONRPC_INVALID_REQUEST,
          JSONRPC_METHOD_NOT_FOUND, JSONRPC_INVALID_PARAMS,
          JSONRPC_INTERNAL_ERROR}

(* What the core looks at in a message.  An id is a string or a number     *)
(* ("value"), null or anything else ("null"), or not there; params are     *)
(* not an object, lack a name, name no tool, or name one with arguments    *)
(* that are an object, are something else, or are not there.               *)
Methods == {"initialize", "ping", "tools/list", "tools/call", "other", "none"}
Params == {"notobject", "noname", "unknown", "noargs", "badargs", "args"}
Message == [object: BOOLEAN, jsonrpc: BOOLEAN, method: Methods,
            id: {"value", "null", "missing"}, params: Params]

(* What a tool's handler did with its mcp_tool_response_t: calls of        *)
(* mcp_tool_response_add_text and _set_error, in order.  "empty" is the    *)
(* text of no characters.                                                  *)
ToolTexts == {"some text", "more text"}
Texts == ToolTexts \cup {"tool error", "tool handler failed", "message", "empty"}
BuilderCall == [add: BOOLEAN, text: Texts, stored: BOOLEAN]

Response == [id: {"value", "null"}, code: Codes, isError: BOOLEAN,
             content: Seq(Texts)]
NoResponse == [id |-> "null", code |-> 0, isError |-> FALSE, content |-> <<>>]

(* The variables that point into the heap.                                 *)
named(v) == <<v, 0>>
msgObj == named("msg")
env == named("env")
result == named("result")
content == named("content")
error_msg == named("error_msg")
err_item == named("err_item")
args_empty == named("args_empty")
item == named("item")
obj(i) == <<"obj", i>>
schema_copy(i) == <<"schema_copy", i>>

Objects == {msgObj, env, result, content, error_msg, err_item, args_empty, item}
           \cup {obj(i) : i \in 1..ToolCount}
           \cup {schema_copy(i) : i \in 1..ToolCount}

ASSUME NoOwnerIsNone == NoOwner \notin Objects

VARIABLES
    faults,         \* whether allocations, and writes, may fail in this run
    at,             \* what the core does next; "idle" without a message
    msg,            \* the message being handled
    initialized,
    heap,
    code,           \* the error make_error is called with
    ix,             \* tools/list: the next tool
    items,          \* tools/call: the texts of resp.content
    is_error,       \* tools/call: resp.is_error
    calls,          \* tools/call: what the handler did (history)
    failed,         \* tools/call: the handler returned an error (history)
    response        \* what mcp_handle_message returns

callVars == <<items, is_error, calls, failed>>
coreVars == <<at, msg, initialized, heap, code, ix, callVars, response>>

Places == {"idle", "handle", "initialize", "ping", "tools/list", "list",
           "tools/call", "content", "handler", "result", "error_item",
           "attach", "is_error", "make_result", "make_error", "done"}

CoreTypeOK ==
    /\ faults \in BOOLEAN
    /\ at \in Places
    /\ msg \in Message
    /\ initialized \in BOOLEAN
    /\ heap \in Heap(Objects)
    /\ code \in Codes
    /\ ix \in 1..ToolCount + 1
    /\ items \in Seq(Texts)
    /\ is_error \in BOOLEAN
    /\ calls \in Seq(BuilderCall)
    /\ failed \in BOOLEAN
    /\ response \in Response

CoreInit ==
    /\ faults \in BOOLEAN
    /\ at = "idle"
    /\ msg = [object |-> FALSE, jsonrpc |-> FALSE, method |-> "none",
              id |-> "missing", params |-> "notobject"]
    /\ initialized = FALSE
    /\ heap = EmptyHeap(Objects)
    /\ code = 0
    /\ ix = 1
    /\ items = <<>> /\ is_error = FALSE /\ calls = <<>> /\ failed = FALSE
    /\ response = NoResponse

(* Outcomes of an allocation.                                              *)
Allocates == IF faults THEN BOOLEAN ELSE {TRUE}

(* return make_error(id, c, ...), with the heap left as h.                 *)
fail(h, c) == heap' = h /\ code' = c /\ at' = "make_error"
oom(h) == faults /\ fail(h, JSONRPC_INTERNAL_ERROR)

----------------------------------------------------------------------------
(* mcp_handle_message.                                                     *)

Valid(m) == m.object /\ m.jsonrpc /\ m.method # "none"
IsRequest(m) == Valid(m) /\ m.id # "missing"
IsNotification(m) == Valid(m) /\ m.id = "missing"
NeedsInitialize == msg.method \notin {"initialize", "ping"}

refuse ==
    /\ at = "handle"
    /\ \/ ~Valid(msg) /\ fail(heap, JSONRPC_INVALID_REQUEST)
       \/ /\ IsRequest(msg) /\ NeedsInitialize /\ ~initialized
          /\ fail(heap, JSONRPC_INVALID_REQUEST)
       \/ /\ IsRequest(msg) /\ msg.method = "other" /\ initialized
          /\ fail(heap, JSONRPC_METHOD_NOT_FOUND)
    /\ UNCHANGED <<msg, initialized, ix, callVars, response>>

(* Variant: an unknown notification is answered like an unknown request.   *)
ignore_notification_answers ==
    /\ at = "handle"
    /\ IsNotification(msg)
    /\ fail(heap, JSONRPC_METHOD_NOT_FOUND)
    /\ UNCHANGED <<msg, initialized, ix, callVars, response>>

ignore_notification ==
    /\ at = "handle"
    /\ IsNotification(msg)
    /\ at' = "done"
    /\ UNCHANGED <<msg, initialized, heap, code, ix, callVars, response>>

(* Variant: the initialized flag is not tested.                            *)
dispatch_uninitialized ==
    /\ at = "handle"
    /\ IsRequest(msg) /\ msg.method # "other"
    /\ at' = msg.method
    /\ UNCHANGED <<msg, initialized, heap, code, ix, callVars, response>>

dispatch ==
    /\ at = "handle"
    /\ IsRequest(msg) /\ msg.method # "other"
    /\ initialized \/ ~NeedsInitialize
    /\ at' = msg.method
    /\ UNCHANGED <<msg, initialized, heap, code, ix, callVars, response>>

----------------------------------------------------------------------------
(* initialize, ping and tools/list.                                        *)

(* Variant: the flag waits for notifications/initialized.                  *)
handle_initialize_waits ==
    /\ at = "initialize"
    /\ \/ heap' = Alloc(heap, result) /\ at' = "make_result" /\ UNCHANGED code
       \/ oom(heap)
       \/ oom(Delete(Alloc(heap, result), {result}))
    /\ UNCHANGED <<msg, initialized, ix, callVars, response>>

(* The flag is set once the result is built, before it is known whether    *)
(* there will be a response to carry it.                                   *)
handle_initialize ==
    /\ at = "initialize"
    /\ \/ /\ heap' = Alloc(heap, result)
          /\ initialized' = TRUE
          /\ at' = "make_result"
          /\ UNCHANGED code
       \/ oom(heap) /\ UNCHANGED initialized
       \/ oom(Delete(Alloc(heap, result), {result})) /\ UNCHANGED initialized
    /\ UNCHANGED <<msg, ix, callVars, response>>

handle_ping ==
    /\ at = "ping"
    /\ \/ heap' = Alloc(heap, result) /\ at' = "make_result" /\ UNCHANGED code
       \/ oom(heap)
    /\ UNCHANGED <<msg, initialized, ix, callVars, response>>

(* Variant: the array is walked from index 0 of one that begins at 1.      *)
handle_tools_list_zero ==
    /\ at = "tools/list"
    /\ \/ heap' = Alloc(heap, result) /\ at' = "list" /\ UNCHANGED code
       \/ oom(heap)
       \/ oom(Delete(Alloc(heap, result), {result}))
    /\ ix' = 0
    /\ UNCHANGED <<msg, initialized, callVars, response>>

handle_tools_list ==
    /\ at = "tools/list"
    /\ \/ heap' = Alloc(heap, result) /\ at' = "list" /\ UNCHANGED code
       \/ oom(heap)
       \/ oom(Delete(Alloc(heap, result), {result}))
    /\ ix' = 1
    /\ UNCHANGED <<msg, initialized, callVars, response>>

(* One tool: its object, a copy of its schema added to it, and it to the   *)
(* array.                                                                  *)
list_tool ==
    /\ at = "list"
    /\ ix <= ToolCount
    /\ LET created == Alloc(heap, obj(ix))
           copied == Alloc(created, schema_copy(ix))
           filled == Attach(copied, schema_copy(ix), obj(ix))
       IN  \/ /\ heap' = Attach(filled, obj(ix), result)
              /\ ix' = ix + 1
              /\ UNCHANGED <<at, code>>
           \/ /\ \/ oom(Delete(heap, {result}))
                 \/ oom(Delete(created, {obj(ix), result}))
                 \/ oom(Delete(Delete(copied, {schema_copy(ix)}),
                               {obj(ix), result}))
                 \/ oom(Delete(filled, {obj(ix), result}))
              /\ UNCHANGED ix
    /\ UNCHANGED <<msg, initialized, callVars, response>>

list_end ==
    /\ at = "list"
    /\ ix > ToolCount
    /\ at' = "make_result"
    /\ UNCHANGED <<msg, initialized, heap, code, ix, callVars, response>>

----------------------------------------------------------------------------
(* tools/call: handle_tools_call.                                          *)

call_refused ==
    /\ at = "tools/call"
    /\ \/ /\ msg.params \in {"notobject", "noname", "badargs"}
          /\ fail(heap, JSONRPC_INVALID_PARAMS)
       \/ msg.params = "unknown" /\ fail(heap, JSONRPC_METHOD_NOT_FOUND)
    /\ UNCHANGED <<msg, initialized, ix, callVars, response>>

(* Arguments that are not there are an empty object.                       *)
call_args ==
    /\ at = "tools/call"
    /\ \/ msg.params = "args" /\ at' = "content" /\ UNCHANGED <<heap, code>>
       \/ /\ msg.params = "noargs"
          /\ \/ /\ heap' = Alloc(heap, args_empty)
                /\ at' = "content"
                /\ UNCHANGED code
             \/ oom(heap)
    /\ UNCHANGED <<msg, initialized, ix, callVars, response>>

(* Variant: the error path forgets the empty arguments.                    *)
call_content_leaks ==
    /\ at = "content"
    /\ \/ heap' = Alloc(heap, content) /\ at' = "handler" /\ UNCHANGED code
       \/ oom(heap)
    /\ items' = <<>> /\ is_error' = FALSE /\ calls' = <<>> /\ failed' = FALSE
    /\ UNCHANGED <<msg, initialized, ix, response>>

call_content ==
    /\ at = "content"
    /\ \/ heap' = Alloc(heap, content) /\ at' = "handler" /\ UNCHANGED code
       \/ oom(Delete(heap, {args_empty}))
    /\ items' = <<>> /\ is_error' = FALSE /\ calls' = <<>> /\ failed' = FALSE
    /\ UNCHANGED <<msg, initialized, ix, response>>

(* The tool's handler adds texts, sets errors, and returns.                *)

(* Variant: the error path forgets the item.                               *)
TextItem_leaks(h, stored) ==
    LET created == Alloc(h, item)
    IN  {Leave(g, item) : g \in IF stored THEN {Attach(created, item, content)}
                                          ELSE {h, created}}

(* What adding a text leaves on the heap: the item in the content, or      *)
(* nothing more than there was if there is no memory for it.               *)
TextItem(h, stored) ==
    LET created == Alloc(h, item)
    IN  {Leave(g, item) : g \in IF stored THEN {Attach(created, item, content)}
                                          ELSE {h, Delete(created, {item})}}

(* A text that could not be added leaves the response as it was.           *)
mcp_tool_response_add_text ==
    /\ at = "handler"
    /\ Len(calls) < MaxCalls
    /\ \E stored \in Allocates, text \in ToolTexts :
          /\ heap' \in TextItem(heap, stored)
          /\ items' = IF stored THEN Append(items, text) ELSE items
          /\ calls' = Append(calls, [add |-> TRUE, text |-> text, stored |-> stored])
    /\ UNCHANGED <<at, msg, initialized, code, ix, is_error, failed, response>>

(* The old message is deleted; there is none if the new one cannot be made. *)
set_error(h, stored) ==
    /\ LET deleted == Delete(h, {error_msg})
       IN  heap' = IF stored THEN Alloc(deleted, error_msg)
                             ELSE Clear(deleted, error_msg)
    /\ is_error' = TRUE

mcp_tool_response_set_error ==
    /\ at = "handler"
    /\ Len(calls) < MaxCalls
    /\ \E stored \in Allocates, text \in {"message", "empty"} :
          /\ set_error(heap, stored)
          /\ calls' = Append(calls, [add |-> FALSE, text |-> text,
                                     stored |-> stored])
    /\ UNCHANGED <<at, msg, initialized, code, ix, items, failed, response>>

(* A handler that failed without setting an error has one set for it.      *)
handler_returns ==
    /\ at = "handler"
    /\ \E rc \in BOOLEAN, stored \in Allocates :
          /\ failed' = ~rc
          /\ IF failed' /\ ~is_error
             THEN set_error(Delete(heap, {args_empty}), stored)
             ELSE heap' = Delete(heap, {args_empty}) /\ UNCHANGED is_error
    /\ at' = "result"
    /\ UNCHANGED <<msg, initialized, code, ix, items, calls, response>>

call_result ==
    /\ at = "result"
    /\ \/ heap' = Alloc(heap, result) /\ at' = "error_item" /\ UNCHANGED code
       \/ oom(Delete(heap, {content, error_msg}))
    /\ UNCHANGED <<msg, initialized, ix, callVars, response>>

(* The calls that set an error, and the text error_msg points to.          *)
Errors == {i \in DOMAIN calls : ~calls[i].add}
ErrorTexts == IF Errors = {} THEN "tool handler failed" ELSE calls[Max(Errors)].text

(* Variant: the error is added after the handler's texts.                  *)
call_error_item_last ==
    /\ at = "error_item"
    /\ LET created == Alloc(heap, err_item)
           text == IF heap.state[error_msg] = "live" /\ ErrorTexts # "empty"
                   THEN ErrorTexts ELSE "tool error"
       IN  \/ /\ is_error
              /\ heap' = Attach(created, err_item, content)
              /\ items' = Append(items, text)
              /\ at' = "attach"
              /\ UNCHANGED code
           \/ ~is_error /\ at' = "attach" /\ UNCHANGED <<heap, code, items>>
    /\ UNCHANGED <<msg, initialized, ix, is_error, calls, failed, response>>

(* The error comes first in the content.                                   *)
call_error_item ==
    /\ at = "error_item"
    /\ LET created == Alloc(heap, err_item)
           text == IF heap.state[error_msg] = "live" /\ ErrorTexts # "empty"
                   THEN ErrorTexts ELSE "tool error"
       IN  \/ /\ is_error
              /\ heap' = Attach(created, err_item, content)
              /\ items' = <<text>> \o items
              /\ at' = "attach"
              /\ UNCHANGED code
           \/ ~is_error /\ at' = "attach" /\ UNCHANGED <<heap, code, items>>
           \/ /\ is_error
              /\ \/ oom(Delete(heap, {result, content, error_msg}))
                 \/ oom(Delete(created, {err_item, result, content, error_msg}))
              /\ UNCHANGED items
    /\ UNCHANGED <<msg, initialized, ix, is_error, calls, failed, response>>

call_attach ==
    /\ at = "attach"
    /\ \/ /\ heap' = Delete(Attach(heap, content, result), {error_msg})
          /\ at' = "is_error"
          /\ UNCHANGED code
       \/ oom(Delete(heap, {result, content, error_msg}))
    /\ UNCHANGED <<msg, initialized, ix, callVars, response>>

(* Variant: the error path frees the content, which result owns by now.    *)
call_is_error_twice ==
    /\ at = "is_error"
    /\ \/ at' = "make_result" /\ UNCHANGED <<heap, code>>
       \/ oom(Delete(heap, {result, content}))
    /\ UNCHANGED <<msg, initialized, ix, callVars, response>>

call_is_error ==
    /\ at = "is_error"
    /\ \/ at' = "make_result" /\ UNCHANGED <<heap, code>>
       \/ oom(Delete(heap, {result}))
    /\ UNCHANGED <<msg, initialized, ix, callVars, response>>

----------------------------------------------------------------------------
(* The envelope, with its copy of the id, which make_envelope frees if it  *)
(* cannot be added: they are one object here.                              *)

(* clone_id: what is not a string or a number is answered with null.       *)
clone_id == IF msg.object /\ msg.id = "value" THEN "value" ELSE "null"

make_result ==
    /\ at = "make_result"
    /\ LET wrapped == Alloc(heap, env)
           called == msg.method = "tools/call"
       IN  \/ /\ heap' = Attach(wrapped, result, env)
              /\ response' = [id |-> clone_id, code |-> 0,
                              isError |-> called /\ is_error,
                              content |-> IF called THEN items ELSE <<>>]
           \/ /\ faults
              /\ heap' \in {Delete(heap, {result}), Delete(wrapped, {result, env})}
              /\ UNCHANGED response
    /\ at' = "done"
    /\ UNCHANGED <<msg, initialized, code, ix, callVars>>

(* Variant: the error is made again when there is no memory for it.        *)
make_error_retries ==
    /\ at = "make_error"
    /\ \/ /\ heap' = Alloc(heap, env)
          /\ response' = [id |-> clone_id, code |-> code,
                          isError |-> FALSE, content |-> <<>>]
          /\ at' = "done"
       \/ faults /\ at' = "handle" /\ UNCHANGED <<heap, response>>
    /\ UNCHANGED <<msg, initialized, code, ix, callVars>>

make_error ==
    /\ at = "make_error"
    /\ \/ /\ heap' = Alloc(heap, env)
          /\ response' = [id |-> clone_id, code |-> code,
                          isError |-> FALSE, content |-> <<>>]
       \/ faults /\ heap' = Delete(Alloc(heap, env), {env}) /\ UNCHANGED response
    /\ at' = "done"
    /\ UNCHANGED <<msg, initialized, code, ix, callVars>>

CoreStep ==
    \/ refuse \/ ignore_notification \/ dispatch
    \/ handle_initialize \/ handle_ping
    \/ handle_tools_list \/ list_tool \/ list_end
    \/ call_refused \/ call_args \/ call_content
    \/ mcp_tool_response_add_text \/ mcp_tool_response_set_error
    \/ handler_returns
    \/ call_result \/ call_error_item \/ call_attach \/ call_is_error
    \/ make_result \/ make_error

(* The caller is given a response, or NULL.                                *)
Answered == heap.state[env] = "live"
=============================================================================
