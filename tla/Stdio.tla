------------------------------- MODULE Stdio --------------------------------
(***************************************************************************)
(* The stdio transport, src/mcp_stdio.c: one line in, at most one line     *)
(* out, until the input ends or a response cannot be written.              *)
(***************************************************************************)
EXTENDS JsonRpc

CONSTANTS
    Messages,       \* the messages the client may send
    MaxLines        \* the lines it sends at most (a bound)
ASSUME StdioBounds == Messages \subseteq Message /\ MaxLines \in Nat

(* A line is empty once trimmed, or does not parse, or is a message.       *)
Line == [kind: {"blank", "garbage"}, msg: {CHOOSE m \in Messages : TRUE}]
        \cup [kind: {"message"}, msg: Messages]

(* What one call of write_message put on stdout: a reply and its newline,  *)
(* or, if it failed half-way, the beginning of that.  The reply is the     *)
(* core's, or the loop's own to a line that does not parse.                *)
Output == [line: 1..MaxLines, core: BOOLEAN, whole: BOOLEAN, response: Response]

(* What the loop itself points to: the reply it makes to a line that does  *)
(* not parse, that reply's error, and its null id, a variable of its own   *)
(* for each line.                                                          *)
resp == named("resp")
err == named("err")
null_id(n) == <<"id", n>>
ReplyObjects == {resp, err} \cup {null_id(n) : n \in 1..MaxLines}

ASSUME NoOwnerIsNoReply == NoOwner \notin ReplyObjects

VARIABLES
    io,          \* what mcp_server_run_stdio does next
    lines,       \* the lines read
    stdout,      \* what was written
    reply_heap,  \* the heap of ReplyObjects
    rc

vars == <<faults, coreVars, io, lines, stdout, reply_heap, rc>>

StdioTypeOK ==
    /\ io \in {"getline", "parse", "core", "break", "returned"}
    /\ lines \in Seq(Line)
    /\ stdout \in Seq(Output)
    /\ rc \in {"MCP_OK", "MCP_ERR_IO"}

(* The variables stay in their types.                                      *)
TypeOK == CoreTypeOK /\ StdioTypeOK /\ reply_heap \in Heap(ReplyObjects)

Init ==
    /\ CoreInit
    /\ io = "getline" /\ lines = <<>> /\ stdout = <<>> /\ rc = "MCP_OK"
    /\ reply_heap = EmptyHeap(ReplyObjects)

(* Blank lines are skipped.                                                *)
getline ==
    /\ io = "getline"
    /\ Len(lines) < MaxLines
    /\ \E line \in Line :
          /\ lines' = Append(lines, line)
          /\ io' = IF line.kind = "blank" THEN "getline" ELSE "parse"
    /\ UNCHANGED <<coreVars, stdout, reply_heap, rc>>

(* The end of the input, or an error reading it.                           *)
getline_fails ==
    /\ io = "getline"
    /\ \E eof \in BOOLEAN : rc' = IF eof THEN "MCP_OK" ELSE "MCP_ERR_IO"
    /\ io' = "break"
    /\ UNCHANGED <<coreVars, lines, stdout, reply_heap>>

run_returns ==
    /\ io = "break"
    /\ io' = "returned"
    /\ UNCHANGED <<coreVars, lines, stdout, reply_heap, rc>>

Last == lines[Len(lines)]

(* write_message: the text cannot be printed, or is written in full, in    *)
(* part or not at all.                                                     *)
write_message(reply, ok) ==
    LET put(whole) == Append(stdout, [line |-> Len(lines), core |-> io = "core",
                                      whole |-> whole, response |-> reply])
    IN  IF ok THEN stdout' = put(TRUE)
              ELSE faults /\ stdout' \in {stdout, put(FALSE)}

(* Variant: a line that does not parse is skipped.                         *)
parse_error_silent ==
    /\ io = "parse"
    /\ Last.kind = "garbage" \/ faults
    /\ io' = "getline"
    /\ UNCHANGED <<coreVars, lines, stdout, reply_heap, rc>>

(* The heap with a reply to line n: its null id is added, or could not be  *)
(* made, or was made and not added, which nobody looks at; then its error  *)
(* is added, or could not be and is gone.                                  *)
WithId(n) ==
    LET created == Alloc(reply_heap, resp)
        made == Alloc(created, null_id(n))
    IN  {Attach(made, null_id(n), resp)} \cup (IF faults THEN {created, made} ELSE {})
WithError(n) ==
    {Attach(Alloc(h, err), err, resp) : h \in WithId(n)}
    \cup (IF faults THEN WithId(n) ELSE {})

(* What the code in the reply may be; 0 stands for none.                   *)
ErrorCodes(h) ==
    IF h.state[err] = "live"
    THEN {JSONRPC_PARSE_ERROR} \cup (IF faults THEN {0} ELSE {})
    ELSE {0}

(* Variant: the reply is not deleted when it could not be written.         *)
parse_error_leaks ==
    /\ io = "parse"
    /\ Last.kind = "garbage" \/ faults
    /\ io' = "getline"
    /\ UNCHANGED <<coreVars, lines, rc>>
    /\ \/ \E h \in WithError(Len(lines)) : \E c \in ErrorCodes(h), ok \in BOOLEAN :
             /\ write_message([NoResponse EXCEPT !.code = c], ok)
             /\ reply_heap' = Return(IF ok THEN Delete(h, {resp}) ELSE h)
       \/ faults /\ UNCHANGED <<stdout, reply_heap>>

(* The line is not JSON, or there is no memory to parse it.  The reply is  *)
(* put together from what can be allocated, whether it could be written is *)
(* ignored, and it is deleted with what was added to it.                   *)
parse_error ==
    /\ io = "parse"
    /\ Last.kind = "garbage" \/ faults
    /\ io' = "getline"
    /\ UNCHANGED <<coreVars, lines, rc>>
    /\ \/ \E h \in WithError(Len(lines)) : \E c \in ErrorCodes(h), ok \in BOOLEAN :
             /\ write_message([NoResponse EXCEPT !.code = c], ok)
             /\ reply_heap' = Return(Delete(h, {resp}))
       \/ faults /\ UNCHANGED <<stdout, reply_heap>>

parse_ok ==
    /\ io = "parse"
    /\ Last.kind = "message"
    /\ msg' = Last.msg
    /\ heap' = Alloc(heap, msgObj)
    /\ response' = NoResponse
    /\ at' = "handle"
    /\ io' = "core"
    /\ UNCHANGED <<initialized, code, ix, callVars, lines, stdout,
                   reply_heap, rc>>

core ==
    /\ io = "core"
    /\ CoreStep
    /\ UNCHANGED <<io, lines, stdout, reply_heap, rc>>

(* mcp_handle_message returned NULL.                                       *)
no_response ==
    /\ io = "core" /\ at = "done" /\ ~Answered
    /\ heap' = Return(Delete(heap, {msgObj}))
    /\ at' = "idle"
    /\ io' = "getline"
    /\ UNCHANGED <<msg, initialized, code, ix, callVars, response, lines,
                   stdout, reply_heap, rc>>

(* Variant: the result of write_message is ignored.                        *)
respond_ignores ==
    /\ io = "core" /\ at = "done" /\ Answered
    /\ \E ok \in BOOLEAN : write_message(response, ok)
    /\ io' = "getline"
    /\ heap' = Return(Delete(heap, {msgObj, env}))
    /\ at' = "idle"
    /\ UNCHANGED <<msg, initialized, code, ix, callVars, response, lines,
                   reply_heap, rc>>

(* It returned a response: a failure to write it ends the loop.            *)
respond ==
    /\ io = "core" /\ at = "done" /\ Answered
    /\ \E ok \in BOOLEAN :
          /\ write_message(response, ok)
          /\ io' = IF ok THEN "getline" ELSE "break"
          /\ rc' = IF ok THEN rc ELSE "MCP_ERR_IO"
    /\ heap' = Return(Delete(heap, {msgObj, env}))
    /\ at' = "idle"
    /\ UNCHANGED <<msg, initialized, code, ix, callVars, response, lines,
                   reply_heap>>

LoopStep ==
    /\ run_returns \/ parse_error \/ parse_ok \/ core \/ no_response \/ respond
    /\ UNCHANGED faults

Terminated == io = "returned" /\ UNCHANGED vars

ReadStep == (getline \/ getline_fails) /\ UNCHANGED faults

Next == ReadStep \/ LoopStep \/ Terminated

Spec == Init /\ [][Next]_vars

(* The thread is scheduled.  That tool handlers return is the bound on     *)
(* their calls.                                                            *)
FairSpec == Spec /\ WF_vars(LoopStep)

----------------------------------------------------------------------------
(* Safety.                                                                 *)

(* Of the reply to a line that could not be parsed the null id may be left *)
(* behind, when there is no memory for its key; nothing else is, whatever  *)
(* allocation failed: no tree of the core between two lines, and of the    *)
(* loop's own replies none at all, and no null of a line the core answered.*)
OnlyIdsLeak ==
    /\ at = "idle" => Live(heap) = {}
    /\ \A o \in Live(reply_heap) : faults /\ \E n \in DOMAIN lines :
          /\ o = null_id(n) /\ lines[n].kind # "blank"
          /\ \A j \in DOMAIN stdout : stdout[j].line = n => ~stdout[j].core

(* No error path frees, adds or uses anything twice, or loses a pointer it *)
(* still needs.                                                            *)
NoHeapFault == ~heap.fault /\ ~reply_heap.fault

(* Of the first n calls of the builder, those that added a text.           *)
Added(n) == {i \in 1..n : calls[i].add /\ calls[i].stored}

(* What is said of the last error set, or of a failure without one, when   *)
(* there was memory to keep its text and the text is not empty; a generic  *)
(* text otherwise, never that of an earlier error.                         *)
ErrorTold ==
    IF Errors = {}
    THEN {"tool handler failed"} \cup (IF faults THEN {"tool error"} ELSE {})
    ELSE LET last == calls[Max(Errors)]
         IN  {IF last.stored /\ last.text # "empty" THEN last.text ELSE "tool error"}

(* The result of a tool call says what the handler did: isError is set if  *)
(* and only if it failed or set an error, the error comes first, and the   *)
(* texts it added follow, each of them, in their order.  ("On non-zero     *)
(* return, the response is sent as a tool error", mcp.h:32.)               *)
ToolErrorTold ==
    at = "done" /\ Answered /\ response.code = 0 /\ msg.method = "tools/call" =>
        LET shift == IF failed \/ Errors # {} THEN 1 ELSE 0
        IN  /\ response.isError <=> shift = 1
            /\ Len(response.content) = Cardinality(Added(Len(calls))) + shift
            /\ \A i \in Added(Len(calls)) :
                  response.content[Cardinality(Added(i)) + shift] = calls[i].text
            /\ shift = 1 => response.content[1] \in ErrorTold

(* A response of the core that was not written in full is the last thing   *)
(* written, and mcp_server_run_stdio then reports a failure.               *)
LossEndsLoop ==
    \A i \in DOMAIN stdout :
        stdout[i].core /\ ~stdout[i].whole =>
            i = Len(stdout) /\ io \in {"break", "returned"} /\ rc = "MCP_ERR_IO"

InitializeRequest(line) ==
    line.kind = "message" /\ IsRequest(line.msg) /\ line.msg.method = "initialize"

(* A tool runs only after a request to initialize was taken.               *)
InitializeFirst ==
    at = "handler" => \E i \in 1..Len(lines) - 1 : InitializeRequest(lines[i])

Replies(i) == {j \in DOMAIN stdout : stdout[j].line = i /\ stdout[j].whole}

(* When neither memory nor output fails, every line that calls for a reply *)
(* has one before the next line is taken.                                  *)
EveryRequestAnswered ==
    io = "getline" /\ ~faults => \A i \in DOMAIN lines :
        \/ Replies(i) # {}
        \/ lines[i].kind = "blank"
        \/ lines[i].kind = "message" /\ IsNotification(lines[i].msg)

(* Whatever fails, no tool runs before a request to initialize was taken.  *)
(* When neither memory nor output fails, requests for tools are refused as *)
(* invalid until one was taken, and never afterwards.                      *)
InitializeGates ==
    /\ InitializeFirst
    /\ ~faults => \A i \in DOMAIN stdout : LET line == lines[stdout[i].line] IN
           line.kind = "message" /\ IsRequest(line.msg)
           /\ line.msg.method \in {"tools/list", "tools/call"} =>
               (stdout[i].response.code = JSONRPC_INVALID_REQUEST
                <=> \A k \in 1..stdout[i].line - 1 : ~InitializeRequest(lines[k]))

(* What a reply to a line may answer to: an id, or a line that could not   *)
(* be read, which any line is when there is no memory to parse it.         *)
OwedTo(line) ==
    CASE line.kind = "blank" -> {}
      [] line.kind = "garbage" -> {"unread"}
      [] OTHER ->
            {"unread"} \cup
            (IF IsNotification(line.msg) THEN {}
             ELSE {IF line.msg.object /\ line.msg.id = "value"
                   THEN "value" ELSE "null"})

AnswersTo(output) == IF output.core THEN output.response.id ELSE "unread"

Promise == INSTANCE Responder WITH
    Owed <- [line \in Line |-> OwedTo(line)],
    heard <- lines,
    said <- [i \in DOMAIN stdout |-> [line |-> stdout[i].line,
                                      to |-> AnswersTo(stdout[i])]],
    over <- io = "returned"

(* The loop keeps a JSON-RPC transport's promise to its client.            *)
KeepsPromise == Promise!Spec

(* The replies a client reads are to its requests, each to a later line    *)
(* than the one before: none is doubled, late, or meant for another line.  *)
(* (mcp_server_run_stdio.)                                                 *)
RepliesMatch == Promise!RepliesMatch

(* NULL is returned for notifications only.  ("NULL if the request was a   *)
(* notification", mcp_internal.h:47.)                                      *)
SilenceMeansNotification ==
    at = "done" /\ ~Answered => IsNotification(msg)

----------------------------------------------------------------------------
(* Liveness.                                                               *)

(* How many steps the line at hand takes at most, from here on.            *)
CoreStepsLeft ==
    CASE at = "handle" -> ToolCount + MaxCalls + 11
      [] at = "tools/call" -> MaxCalls + 10
      [] at = "content" -> MaxCalls + 9
      [] at = "handler" -> (MaxCalls - Len(calls)) + 8
      [] at = "result" -> 7
      [] at = "error_item" -> 6
      [] at = "attach" -> 5
      [] at = "tools/list" -> ToolCount + 5
      [] at = "list" -> (ToolCount + 1 - ix) + 4
      [] at \in {"initialize", "ping", "is_error"} -> 4
      [] at \in {"make_result", "make_error"} -> 3
      [] OTHER -> 2

StepsLeft ==
    CASE io = "parse" -> ToolCount + MaxCalls + 12
      [] io = "core" -> CoreStepsLeft
      [] io = "break" -> 1
      [] OTHER -> 0

(* No step but the reading of the next line is for nothing: none leads     *)
(* back, and none is tried again, whatever failed.  A line is dealt with   *)
(* in as many steps as there are tools and calls of the builder, and a     *)
(* dozen more.                                                             *)
NoStepRepeats == [][LoopStep => StepsLeft' \in 0..StepsLeft - 1]_vars

(* Every line is dealt with: the loop is back at its input, or has         *)
(* returned, after whatever failed.                                        *)
LineIsFinished == io # "getline" ~> io \in {"getline", "returned"}
=============================================================================
