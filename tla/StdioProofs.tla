---------------------------- MODULE StdioProofs -----------------------------
(***************************************************************************)
(* What Stdio and the core promise holds for every set of messages, every  *)
(* number of lines, tools and calls, and wherever memory or output fails.  *)
(***************************************************************************)
EXTENDS Stdio, SequenceTheorems, FiniteSetTheorems, WellFoundedInduction, TLAPS

----------------------------------------------------------------------------
(* The inductive invariant: the heap.                                      *)

(* o is a variable that points to an object of its own, or may.            *)
Root(h, o) == h.state[o] = "live" /\ h.under[o] = NoOwner
RootOrNull(h, o) == Root(h, o) \/ h.state[o] = "null"

(* Nothing went wrong so far, and the message is there.                    *)
Sound(h) == h \in Heap(Objects) /\ ~h.fault
Clean(h) == Sound(h) /\ Root(h, msgObj)

(* Beside the message only objects of L are live.                          *)
Only(h, L) == Clean(h) /\ \A o \in Objects : h.state[o] = "live" => o \in L \cup {msgObj}

(* The tree at result, as tools/list and tools/call build it.              *)
UnderResult(h, o) ==
    \/ h.under[o] = result
    \/ \E p \in Objects \ {env} : h.under[o] = p /\ h.under[p] = result

(* Of the tools before n, the objects and their schemas.                   *)
Listed(n) == {obj(i) : i \in 1..n - 1} \cup {schema_copy(i) : i \in 1..n - 1}
Built(h, n) ==
    \A i \in 1..n - 1 :
        h.under[obj(i)] = result /\ h.under[schema_copy(i)] = obj(i)

HeapAt(a, n, h) ==
    /\ a = "idle" => Sound(h) /\ \A o \in Objects : h.state[o] = "null"
    /\ a \in {"handle", "initialize", "ping", "tools/list", "tools/call"} =>
          Only(h, {}) /\ \A o \in Objects \ {msgObj} : h.state[o] = "null"
    /\ a = "list" => /\ Only(h, {result} \cup Listed(n))
                     /\ Root(h, result) /\ Built(h, n)
    /\ a = "content" => /\ Only(h, {args_empty})
                        /\ RootOrNull(h, args_empty) /\ h.state[error_msg] = "null"
    /\ a = "handler" => /\ Only(h, {args_empty, content, error_msg})
                        /\ RootOrNull(h, args_empty) /\ RootOrNull(h, error_msg)
                        /\ Root(h, content)
    /\ a = "result" => /\ Only(h, {content, error_msg})
                       /\ RootOrNull(h, error_msg) /\ Root(h, content)
    /\ a = "error_item" => /\ Only(h, {content, error_msg, result})
                           /\ RootOrNull(h, error_msg) /\ Root(h, content)
                           /\ Root(h, result)
    /\ a = "attach" => /\ Only(h, {content, error_msg, result, err_item})
                       /\ RootOrNull(h, error_msg) /\ Root(h, content)
                       /\ Root(h, result)
                       /\ h.state[err_item] = "live" => h.under[err_item] = content
    /\ a = "is_error" => /\ Only(h, {content, result, err_item})
                         /\ Root(h, result) /\ h.under[content] = result
                         /\ h.state[content] = "live"
                         /\ h.state[err_item] = "live" => h.under[err_item] = content
    /\ a = "make_result" => /\ Clean(h) /\ Root(h, result) /\ h.state[env] # "live"
                            /\ \A o \in Objects \ {msgObj, result} :
                                  h.state[o] = "live" => UnderResult(h, o)
    /\ a = "make_error" => Only(h, {})
    /\ a = "done" => /\ Clean(h)
                     /\ h.state[env] = "live" => h.under[env] = NoOwner
                     /\ \A o \in Objects \ {msgObj} :
                           h.state[o] = "live" =>
                               h.state[env] = "live" /\ env \in Owners(h, o)

----------------------------------------------------------------------------
(* The inductive invariant: what the core does, and for which message.     *)

ToolPlaces == {"tools/list", "list", "tools/call", "content", "handler",
               "result", "error_item", "attach", "is_error"}
ToolMethods == {"tools/list", "tools/call"}
ToolRequest(m) == IsRequest(m) /\ m.method \in ToolMethods

(* Only requests are dispatched, each to its handler.                      *)
Dispatched ==
    /\ at \in {"initialize", "ping", "tools/list", "tools/call"} => msg.method = at
    /\ at = "list" => msg.method = "tools/list"
    /\ at \in ToolPlaces \ {"tools/list", "list"} => msg.method = "tools/call"
    /\ at \notin {"idle", "handle", "make_error", "done"} => IsRequest(msg)
    /\ at \in ToolPlaces => initialized
    /\ at = "make_result" /\ msg.method \in ToolMethods => initialized

(* What a response answers, and with which code.                           *)
RightlyAnswered ==
    /\ at = "make_error" =>
          /\ ~IsNotification(msg)
          /\ ToolRequest(msg) => (code = JSONRPC_INVALID_REQUEST <=> ~initialized)
    /\ at = "done" /\ Answered =>
          /\ ~IsNotification(msg)
          /\ response.id = clone_id
          /\ ToolRequest(msg) =>
                (response.code = JSONRPC_INVALID_REQUEST <=> ~initialized)
    /\ at = "done" /\ ~Answered /\ ~faults => IsNotification(msg)

----------------------------------------------------------------------------
(* The inductive invariant: what a tool's handler did and what is said of  *)
(* it, of the calls c of the builder.                                      *)

AddedBy(c, n) == {i \in 1..n : c[i].add /\ c[i].stored}
ErrorsOf(c) == {i \in DOMAIN c : ~c[i].add}

(* Where in the content the texts begin.                                   *)
Shift(c, f) == IF f \/ ErrorsOf(c) # {} THEN 1 ELSE 0

(* The texts added are in its, in their order, after s others.             *)
Holds(its, c, s) ==
    /\ Len(its) = Cardinality(AddedBy(c, Len(c))) + s
    /\ \A i \in AddedBy(c, Len(c)) : its[Cardinality(AddedBy(c, i)) + s] = c[i].text

(* error_msg is the last error's, if there was memory for it; w is whether *)
(* there may be none.                                                      *)
MessageKept(h, c, f, w) ==
    /\ ErrorsOf(c) # {} =>
          (h.state[error_msg] = "live" <=> c[Max(ErrorsOf(c))].stored)
    /\ ErrorsOf(c) = {} /\ f /\ ~w => h.state[error_msg] = "live"

(* its, with or without isError, is what the calls c and the handler's     *)
(* failure f amount to.                                                    *)
Tells(its, e, c, f) == (e <=> Shift(c, f) = 1) /\ Holds(its, c, Shift(c, f))

Collected ==
    /\ at = "handler" => Len(calls) <= MaxCalls /\ ~failed
    /\ at \in {"handler", "result", "error_item"} =>
          /\ is_error <=> Shift(calls, failed) = 1
          /\ Holds(items, calls, 0)
          /\ MessageKept(heap, calls, failed, faults)
    /\ at \in {"attach", "is_error"} \/ (at = "make_result" /\ msg.method = "tools/call") =>
          /\ Tells(items, is_error, calls, failed)
          /\ is_error => items[1] \in ErrorTold
    /\ at = "make_error" => code # 0
    /\ at = "done" /\ Answered /\ response.code = 0 /\ msg.method = "tools/call" =>
          /\ Tells(response.content, response.isError, calls, failed)
          /\ response.isError => response.content[1] \in ErrorTold

----------------------------------------------------------------------------
(* The inductive invariant: the loop.                                      *)

(* The line at hand is the last one read.                                  *)
AtHand ==
    /\ Len(lines) <= MaxLines
    /\ io = "core" <=> at # "idle"
    /\ io \in {"parse", "core"} => lines # <<>> /\ Last.kind # "blank"
    /\ io = "core" => Last.kind = "message" /\ msg = Last.msg

(* How many lines are dealt with.                                          *)
Dealt == IF io \in {"parse", "core"} THEN Len(lines) - 1 ELSE Len(lines)

(* How many lines had a chance to initialize the server.                   *)
Tried == IF io = "parse" \/ at \in {"handle", "initialize"}
         THEN Len(lines) - 1 ELSE Len(lines)

(* A request to initialize is among the first n lines of s.                *)
Opened(s, n) == \E i \in 1..n : InitializeRequest(s[i])

InitializedBy ==
    /\ initialized => Opened(lines, Tried)
    /\ ~faults /\ Opened(lines, Tried) => initialized

(* Replies are to lines dealt with.                                        *)
RepliesDealt == \A i \in DOMAIN stdout : stdout[i].line \in 1..Dealt

(* Line i of s calls for no reply, or w has one.                           *)
Settled(s, w, i) ==
    \/ \E j \in DOMAIN w : w[j].line = i /\ w[j].whole
    \/ s[i].kind = "blank"
    \/ s[i].kind = "message" /\ IsNotification(s[i].msg)

AllSettled == ~faults => \A i \in 1..Dealt : Settled(lines, stdout, i)

(* Output o refuses a request for tools if and only if none to initialize  *)
(* came before it.                                                         *)
Gated(s, o) ==
    s[o.line].kind = "message" /\ ToolRequest(s[o.line].msg) =>
        (o.response.code = JSONRPC_INVALID_REQUEST <=> ~Opened(s, o.line - 1))

AllGated == ~faults => \A i \in DOMAIN stdout : Gated(lines, stdout[i])

CoreInv == CoreTypeOK /\ HeapAt(at, ix, heap) /\ Dispatched /\ RightlyAnswered
           /\ Collected
LoopInv == StdioTypeOK /\ AtHand /\ RepliesDealt /\ AllSettled /\ LossEndsLoop
           /\ AllGated
IInv == CoreInv /\ LoopInv /\ InitializedBy

(* o is the null id of an earlier line that the core did not answer.       *)
Lost(o) ==
    /\ faults
    /\ \E n \in DOMAIN lines :
          /\ o = null_id(n) /\ lines[n].kind # "blank"
          /\ io \in {"parse", "core"} => n # Len(lines)
          /\ \A j \in DOMAIN stdout : stdout[j].line = n => ~stdout[j].core

(* No more than such nulls is left of the loop's own replies.              *)
ReplyInv ==
    /\ reply_heap \in Heap(ReplyObjects) /\ ~reply_heap.fault
    /\ \A o \in ReplyObjects : reply_heap.state[o] = "live" => Lost(o)

----------------------------------------------------------------------------
(* The objects and the operations of the heap.                             *)

Variables == {msgObj, env, result, content, error_msg, err_item, args_empty, item}

(* The variables are different ones.                                       *)
LEMMA VariablesDiffer ==
    /\ msgObj # env /\ msgObj # result /\ msgObj # content /\ msgObj # error_msg
    /\ msgObj # err_item /\ msgObj # args_empty
    /\ env # result /\ env # content /\ env # error_msg /\ env # err_item
    /\ env # args_empty
    /\ result # content /\ result # error_msg /\ result # err_item
    /\ result # args_empty
    /\ content # error_msg /\ content # err_item /\ content # args_empty
    /\ error_msg # err_item /\ error_msg # args_empty
    /\ err_item # args_empty
    /\ item \notin {msgObj, env, result, content, error_msg, err_item, args_empty}
BY DEF msgObj, env, result, content, error_msg, err_item, args_empty, item, named

(* Nor is one of them a tool's object or schema.                           *)
LEMMA ToolsDiffer ==
    ASSUME NEW i, NEW j
    PROVE  /\ obj(i) \notin Variables /\ schema_copy(i) \notin Variables
           /\ obj(i) # schema_copy(j)
           /\ obj(i) = obj(j) => i = j
           /\ schema_copy(i) = schema_copy(j) => i = j
BY DEF Variables, obj, schema_copy,
       msgObj, env, result, content, error_msg, err_item, args_empty, item, named

(* All of them are objects, and NoOwner is none.                           *)
LEMMA ObjectsAre ==
    /\ Variables \subseteq Objects
    /\ \A i \in 1..ToolCount : obj(i) \in Objects /\ schema_copy(i) \in Objects
    /\ \A o \in Objects : \/ o \in Variables
                          \/ \E i \in 1..ToolCount : o = obj(i) \/ o = schema_copy(i)
    /\ NoOwner \notin Objects
BY NoOwnerIsNone DEF Objects, Variables

(* What the fields of a heap hold.                                         *)
LEMMA HeapIs ==
    ASSUME NEW h \in Heap(Objects), NEW o \in Objects
    PROVE  /\ h.state[o] \in {"null", "live", "freed"}
           /\ h.under[o] \in Objects \cup {NoOwner}
           /\ h.fault \in BOOLEAN
           /\ DOMAIN h.state = Objects /\ DOMAIN h.under = Objects
BY DEF Heap

(* What malloc changes: one object, and the fault if it was in use.        *)
LEMMA AllocIn ==
    ASSUME NEW U, NEW h \in Heap(U), NEW o \in U
    PROVE  /\ Alloc(h, o) \in Heap(U)
           /\ \A x \in U :
                 /\ Alloc(h, o).state[x] = IF x = o THEN "live" ELSE h.state[x]
                 /\ Alloc(h, o).under[x] = IF x = o THEN NoOwner ELSE h.under[x]
           /\ Alloc(h, o).fault <=> h.fault \/ h.state[o] = "live"
BY DEF Heap, Alloc

LEMMA AllocIs ==
    ASSUME NEW h \in Heap(Objects), NEW o \in Objects
    PROVE  /\ Alloc(h, o) \in Heap(Objects)
           /\ \A x \in Objects :
                 /\ Alloc(h, o).state[x] = IF x = o THEN "live" ELSE h.state[x]
                 /\ Alloc(h, o).under[x] = IF x = o THEN NoOwner ELSE h.under[x]
           /\ Alloc(h, o).fault <=> h.fault \/ h.state[o] = "live"
BY AllocIn, Zenon

(* What adding an item to a tree changes: the item's owner.                *)
LEMMA AttachIn ==
    ASSUME NEW U, NEW h \in Heap(U), NEW o \in U, NEW p \in U
    PROVE  /\ Attach(h, o, p) \in Heap(U)
           /\ \A x \in U :
                 /\ Attach(h, o, p).state[x] = h.state[x]
                 /\ Attach(h, o, p).under[x] = IF x = o THEN p ELSE h.under[x]
           /\ h.state[o] = "live" /\ h.state[p] = "live" /\ h.under[o] = NoOwner =>
                 (Attach(h, o, p).fault <=> h.fault)
<1>1. Attach(h, o, p) \in Heap(U)
  BY DEF Heap, Attach, Live
<1>2. \A x \in U :
         /\ Attach(h, o, p).state[x] = h.state[x]
         /\ Attach(h, o, p).under[x] = IF x = o THEN p ELSE h.under[x]
  BY DEF Heap, Attach
<1>3. ASSUME h.state[o] = "live", h.state[p] = "live", h.under[o] = NoOwner
      PROVE  Attach(h, o, p).fault <=> h.fault
  <2>1. o \in Live(h) /\ p \in Live(h)
    BY <1>3 DEF Heap, Live
  <2>2. {o, p} \ Live(h) = {}
    BY <2>1
  <2> QED BY <1>3, <2>2 DEF Attach
<1> QED BY <1>1, <1>2, <1>3

LEMMA AttachIs ==
    ASSUME NEW h \in Heap(Objects), NEW o \in Objects, NEW p \in Objects
    PROVE  /\ Attach(h, o, p) \in Heap(Objects)
           /\ \A x \in Objects :
                 /\ Attach(h, o, p).state[x] = h.state[x]
                 /\ Attach(h, o, p).under[x] = IF x = o THEN p ELSE h.under[x]
           /\ h.state[o] = "live" /\ h.state[p] = "live" /\ h.under[o] = NoOwner =>
                 (Attach(h, o, p).fault <=> h.fault)
BY AttachIn, Zenon

(* What assigning NULL changes: one pointer; it loses a live object.       *)
LEMMA ClearIs ==
    ASSUME NEW h \in Heap(Objects), NEW o \in Objects
    PROVE  /\ Clear(h, o) \in Heap(Objects)
           /\ \A x \in Objects :
                 /\ Clear(h, o).state[x] = IF x = o THEN "null" ELSE h.state[x]
                 /\ Clear(h, o).under[x] = h.under[x]
           /\ Clear(h, o).fault <=> h.fault \/ h.state[o] = "live"
BY DEF Heap, Clear

(* What the end of a block changes: one pointer, which loses an object that *)
(* no tree owns.                                                           *)
LEMMA LeaveIs ==
    ASSUME NEW h \in Heap(Objects), NEW o \in Objects
    PROVE  /\ Leave(h, o) \in Heap(Objects)
           /\ \A x \in Objects :
                 /\ Leave(h, o).state[x] = IF x = o THEN "null" ELSE h.state[x]
                 /\ Leave(h, o).under[x] = IF x = o THEN NoOwner ELSE h.under[x]
           /\ Leave(h, o).fault <=> h.fault \/ (h.state[o] = "live" /\ h.under[o] = NoOwner)
BY DEF Heap, Leave

(* Whose deletion frees o: o's own, and that of what owns it.              *)
LEMMA DeleteIn ==
    ASSUME NEW U, NEW h \in Heap(U), NEW S \in SUBSET U
    PROVE  /\ Delete(h, S) \in Heap(U)
           /\ \A x \in U :
                 /\ Delete(h, S).under[x] = h.under[x]
                 /\ Delete(h, S).state[x] =
                       IF /\ h.state[x] = "live"
                          /\ \E r \in S : h.state[r] = "live" /\ r \in Owners(h, x)
                       THEN "freed" ELSE h.state[x]
           /\ (\A r \in S : RootOrNull(h, r)) => (Delete(h, S).fault <=> h.fault)
<1> DEFINE new == [o \in U |-> IF /\ h.state[o] = "live"
                                 /\ \E r \in S : h.state[r] = "live" /\ r \in Owners(h, o)
                              THEN "freed" ELSE h.state[o]]
           f == \/ h.fault
                \/ \E r \in S : h.state[r] = "freed"
                \/ \E r \in S : h.state[r] = "live" /\ h.under[r] # NoOwner
<1>1. DOMAIN h.state = U
  BY DEF Heap
<1>2. Delete(h, S) = [state |-> new, under |-> h.under, fault |-> f]
  BY <1>1 DEF Delete
<1>3. (\A r \in S : RootOrNull(h, r)) => (f <=> h.fault)
  BY DEF RootOrNull, Root
<1>4. f \in BOOLEAN
  BY DEF Heap
<1>5. new \in [U -> {"null", "live", "freed"}]
  BY DEF Heap
<1>6. \A x \in U : new[x] = IF /\ h.state[x] = "live"
                               /\ \E r \in S : h.state[r] = "live" /\ r \in Owners(h, x)
                            THEN "freed" ELSE h.state[x]
  OBVIOUS
<1> HIDE DEF new, f
<1>7. h.under \in [U -> U \cup {NoOwner}]
  BY DEF Heap
<1>8. Delete(h, S) \in Heap(U)
  BY <1>2, <1>4, <1>5, <1>7 DEF Heap
<1>9. Delete(h, S).under = h.under /\ Delete(h, S).state = new /\ Delete(h, S).fault = f
  BY <1>2
<1> QED BY <1>3, <1>6, <1>8, <1>9

LEMMA DeleteIs ==
    ASSUME NEW h \in Heap(Objects), NEW S \in SUBSET Objects
    PROVE  /\ Delete(h, S) \in Heap(Objects)
           /\ \A x \in Objects :
                 /\ Delete(h, S).under[x] = h.under[x]
                 /\ Delete(h, S).state[x] =
                       IF /\ h.state[x] = "live"
                          /\ \E r \in S : h.state[r] = "live" /\ r \in Owners(h, x)
                       THEN "freed" ELSE h.state[x]
           /\ (\A r \in S : RootOrNull(h, r)) => (Delete(h, S).fault <=> h.fault)
BY DeleteIn, Zenon

(* The end of a function forgets its freed pointers.                       *)
LEMMA ReturnIn ==
    ASSUME NEW U, NEW h \in Heap(U)
    PROVE  /\ Return(h) \in Heap(U)
           /\ \A x \in U :
                 Return(h).state[x] = IF h.state[x] = "freed" THEN "null" ELSE h.state[x]
           /\ Return(h).fault <=> h.fault
BY DEF Heap, Return

LEMMA ReturnIs ==
    ASSUME NEW h \in Heap(Objects)
    PROVE  /\ Return(h) \in Heap(Objects)
           /\ \A x \in Objects :
                 Return(h).state[x] = IF h.state[x] = "freed" THEN "null" ELSE h.state[x]
           /\ Return(h).fault <=> h.fault
BY ReturnIn, Zenon

(* Owners of an object that has none, or one that has none.                *)
LEMMA OwnersAre ==
    ASSUME NEW h \in Heap(Objects), NEW o \in Objects
    PROVE  /\ o \in Owners(h, o)
           /\ h.under[o] \in Owners(h, o)
           /\ h.under[o] = NoOwner => \A r \in Objects : r \in Owners(h, o) => r = o
           /\ h.under[o] \in Objects =>
                 /\ h.under[h.under[o]] \in Owners(h, o)
                 /\ h.under[h.under[o]] \in Objects =>
                       h.under[h.under[h.under[o]]] \in Owners(h, o)
<1>1. NoOwner \notin Objects
  BY ObjectsAre
<1> QED BY <1>1 DEF Owners, Owner

----------------------------------------------------------------------------
(* The operations, and the predicates of the invariant.                    *)

(* A new object.                                                           *)
LEMMA AllocOnly ==
    ASSUME NEW h, NEW L, Only(h, L), NEW o \in Objects \ {msgObj}, h.state[o] # "live"
    PROVE  /\ Only(Alloc(h, o), L \cup {o})
           /\ Root(Alloc(h, o), o)
           /\ \A x \in Objects \ {o} :
                 /\ Alloc(h, o).state[x] = h.state[x]
                 /\ Alloc(h, o).under[x] = h.under[x]
<1>1. h \in Heap(Objects) /\ ~h.fault /\ msgObj \in Objects
  BY ObjectsAre DEF Only, Clean, Sound, Variables
<1>2. Sound(Alloc(h, o))
  BY <1>1, AllocIs DEF Sound
<1>3. Root(Alloc(h, o), o)
  BY <1>1, AllocIs DEF Root
<1>4. \A x \in Objects \ {o} :
         /\ Alloc(h, o).state[x] = h.state[x]
         /\ Alloc(h, o).under[x] = h.under[x]
  BY <1>1, AllocIs
<1>5. Clean(Alloc(h, o))
  BY <1>1, <1>2, <1>4 DEF Only, Clean, Root
<1>6. \A x \in Objects : Alloc(h, o).state[x] = "live" => x \in (L \cup {o}) \cup {msgObj}
  BY <1>4 DEF Only
<1> QED BY <1>3, <1>4, <1>5, <1>6 DEF Only

(* An object is added to another.                                          *)
LEMMA AttachOnly ==
    ASSUME NEW h, NEW L, Only(h, L), NEW o \in Objects \ {msgObj}, NEW p \in Objects,
           Root(h, o), h.state[p] = "live"
    PROVE  /\ Only(Attach(h, o, p), L)
           /\ Attach(h, o, p).under[o] = p
           /\ \A x \in Objects : Attach(h, o, p).state[x] = h.state[x]
           /\ \A x \in Objects \ {o} : Attach(h, o, p).under[x] = h.under[x]
<1>1. h \in Heap(Objects) /\ ~h.fault /\ msgObj \in Objects
  BY ObjectsAre DEF Only, Clean, Sound, Variables
<1>2. Sound(Attach(h, o, p))
  BY <1>1, AttachIs DEF Sound, Root
<1>3. /\ Attach(h, o, p).under[o] = p
      /\ \A x \in Objects : Attach(h, o, p).state[x] = h.state[x]
      /\ \A x \in Objects \ {o} : Attach(h, o, p).under[x] = h.under[x]
  <2>1. \A x \in Objects :
           /\ Attach(h, o, p).state[x] = h.state[x]
           /\ Attach(h, o, p).under[x] = IF x = o THEN p ELSE h.under[x]
    BY <1>1, AttachIs
  <2> QED BY <2>1
<1>4. Clean(Attach(h, o, p))
  BY <1>1, <1>2, <1>3 DEF Only, Clean, Root
<1>5. \A x \in Objects : Attach(h, o, p).state[x] = "live" => x \in L \cup {msgObj}
  BY <1>3 DEF Only
<1> QED BY <1>3, <1>4, <1>5 DEF Only

(* Objects are deleted, and what they own; L is what is left.              *)
LEMMA DeleteOnly ==
    ASSUME NEW h, Clean(h), NEW L, NEW S \in SUBSET (Objects \ {msgObj}),
           \A r \in S : RootOrNull(h, r),
           \A o \in Objects \ {msgObj} : h.state[o] = "live" =>
               o \in L \/ \E r \in S : h.state[r] = "live" /\ r \in Owners(h, o)
    PROVE  /\ Only(Delete(h, S), L)
           /\ \A x \in Objects : Delete(h, S).under[x] = h.under[x]
           /\ \A x \in Objects : Delete(h, S).state[x] = "null" <=> h.state[x] = "null"
           /\ \A x \in Objects \ S : Root(h, x) => Root(Delete(h, S), x)
           /\ \A x \in S : Delete(h, S).state[x] # "live"
<1>1. h \in Heap(Objects) /\ ~h.fault /\ msgObj \in Objects /\ Root(h, msgObj)
      /\ S \in SUBSET Objects
  BY ObjectsAre DEF Clean, Sound, Variables
<1>2. Sound(Delete(h, S))
  BY <1>1, DeleteIs DEF Sound
<1>3. \A x \in Objects :
         /\ Delete(h, S).under[x] = h.under[x]
         /\ Delete(h, S).state[x] =
               IF /\ h.state[x] = "live"
                  /\ \E r \in S : h.state[r] = "live" /\ r \in Owners(h, x)
               THEN "freed" ELSE h.state[x]
  BY <1>1, DeleteIs
<1>4. \A x \in Objects \ S : Root(h, x) => Root(Delete(h, S), x)
  <2> SUFFICES ASSUME NEW x \in Objects \ S, Root(h, x) PROVE Root(Delete(h, S), x)
    OBVIOUS
  <2>1. h.state[x] = "live" /\ h.under[x] = NoOwner
    BY DEF Root
  <2>2. \A r \in S : r \notin Owners(h, x)
    BY <1>1, <2>1, OwnersAre
  <2> QED BY <1>3, <2>1, <2>2 DEF Root
<1>5. Clean(Delete(h, S))
  BY <1>1, <1>2, <1>4 DEF Clean
<1>6. \A x \in Objects : Delete(h, S).state[x] = "live" => x \in L \cup {msgObj}
  <2> SUFFICES ASSUME NEW x \in Objects \ {msgObj}, Delete(h, S).state[x] = "live"
               PROVE  x \in L
    OBVIOUS
  <2>1. /\ h.state[x] = "live"
        /\ ~ \E r \in S : h.state[r] = "live" /\ r \in Owners(h, x)
    BY <1>3
  <2> QED BY <2>1
<1>7. \A x \in S : Delete(h, S).state[x] # "live"
  <2> SUFFICES ASSUME NEW x \in S, h.state[x] = "live"
               PROVE  Delete(h, S).state[x] # "live"
    BY <1>1, <1>3
  <2>1. x \in Owners(h, x)
    BY <1>1, OwnersAre
  <2> QED BY <1>1, <1>3, <2>1
<1>8. \A x \in Objects : Delete(h, S).state[x] = "null" <=> h.state[x] = "null"
  BY <1>3
<1> QED BY <1>3, <1>4, <1>5, <1>6, <1>7, <1>8 DEF Only

(* The same, when all that is live is deleted by itself.                   *)
LEMMA DeleteAll ==
    ASSUME NEW h, NEW L \in SUBSET (Objects \ {msgObj}), Only(h, L),
           \A r \in L : RootOrNull(h, r)
    PROVE  Only(Delete(h, L), {})
<1>1. h \in Heap(Objects)
  BY DEF Only, Clean, Sound
<1>2. \A o \in Objects \ {msgObj} : h.state[o] = "live" =>
         \E r \in L : h.state[r] = "live" /\ r \in Owners(h, o)
  BY <1>1, OwnersAre DEF Only
<1> QED BY <1>2, DeleteOnly DEF Only

(* What is there of a set can be replaced by more.                         *)
LEMMA OnlyMore ==
    ASSUME NEW h, NEW L, NEW M, Only(h, L), L \subseteq M
    PROVE  Only(h, M)
BY DEF Only

(* Where the message is all there is.                                      *)
LEMMA AtStart ==
    ASSUME NEW h, NEW n, NEW a \in {"handle", "initialize", "ping", "tools/list",
           "tools/call"}
    PROVE  HeapAt(a, n, h) <=>
              Only(h, {}) /\ \A o \in Objects \ {msgObj} : h.state[o] = "null"
BY DEF HeapAt

(* make_error starts with nothing but the message.                         *)
LEMMA AtError ==
    ASSUME NEW h, NEW n
    PROVE  HeapAt("make_error", n, h) <=> Only(h, {})
BY DEF HeapAt

(* The tree of tools/list is the result's.                                 *)
LEMMA ListTree ==
    ASSUME NEW h, NEW n \in 1..ToolCount + 1, h \in Heap(Objects), Built(h, n),
           NEW o \in Listed(n)
    PROVE  o \in Objects \ Variables /\ UnderResult(h, o) /\ result \in Owners(h, o)
<1>0. ToolCount \in Nat /\ result \in Objects
  BY CoreBounds, ObjectsAre DEF Variables
<1>1. CASE \E i \in 1..n - 1 : o = obj(i)
  <2>1. PICK i \in 1..n - 1 : o = obj(i)
    BY <1>1
  <2>2. o \in Objects /\ h.under[o] = result
    BY <1>0, <2>1, ObjectsAre DEF Built
  <2>3. o \notin Variables
    BY <2>1, ToolsDiffer
  <2> QED BY <2>2, <2>3, OwnersAre DEF UnderResult
<1>2. CASE \E i \in 1..n - 1 : o = schema_copy(i)
  <2>1. PICK i \in 1..n - 1 : o = schema_copy(i)
    BY <1>2
  <2>2. /\ o \in Objects /\ obj(i) \in Objects
        /\ h.under[o] = obj(i) /\ h.under[obj(i)] = result
    BY <1>0, <2>1, ObjectsAre DEF Built
  <2>3. o \notin Variables /\ obj(i) # env
    BY <2>1, ToolsDiffer DEF Variables
  <2> QED BY <2>2, <2>3, OwnersAre DEF UnderResult
<1> QED BY <1>1, <1>2 DEF Listed

(* It goes with the result, and what else is deleted.                      *)
LEMMA ListDeleted ==
    ASSUME NEW h, NEW n \in 1..ToolCount + 1, Clean(h), Built(h, n), Root(h, result),
           NEW S \in SUBSET (Objects \ {msgObj}), result \in S,
           \A r \in S : Root(h, r),
           \A o \in Objects \ {msgObj} : h.state[o] = "live" =>
               o \in Listed(n) \/ \E r \in S : r \in Owners(h, o)
    PROVE  Only(Delete(h, S), {})
<1>1. h \in Heap(Objects)
  BY DEF Clean, Sound
<1>2. \A o \in Objects \ {msgObj} : h.state[o] = "live" =>
         \E r \in S : h.state[r] = "live" /\ r \in Owners(h, o)
  <2> SUFFICES ASSUME NEW o \in Objects \ {msgObj}, h.state[o] = "live"
               PROVE  \E r \in S : h.state[r] = "live" /\ r \in Owners(h, o)
    OBVIOUS
  <2>1. CASE o \in Listed(n)
    BY <1>1, <2>1, ListTree DEF Root
  <2>2. CASE \E r \in S : r \in Owners(h, o)
    BY <2>2 DEF Root
  <2> QED BY <2>1, <2>2
<1>3. \A r \in S : RootOrNull(h, r)
  BY DEF RootOrNull
<1> QED BY <1>2, <1>3, DeleteOnly

(* The result is made, and what is done when it cannot be.                 *)
LEMMA ResultMade ==
    ASSUME NEW h, Only(h, {}), \A o \in Objects \ {msgObj} : h.state[o] = "null"
    PROVE  /\ Only(Alloc(h, result), {result}) /\ Root(Alloc(h, result), result)
           /\ Only(Delete(Alloc(h, result), {result}), {})
           /\ \A o \in Objects \ {msgObj, result} : Alloc(h, result).state[o] = "null"
<1>1. result \in Objects \ {msgObj}
  BY ObjectsAre, VariablesDiffer DEF Variables
<1>2. /\ Only(Alloc(h, result), {} \cup {result}) /\ Root(Alloc(h, result), result)
      /\ \A x \in Objects \ {result} : Alloc(h, result).state[x] = h.state[x]
  BY <1>1, AllocOnly
<1>3. {} \cup {result} = {result}
  OBVIOUS
<1>4. Only(Delete(Alloc(h, result), {result}), {})
  BY <1>1, <1>2, <1>3, DeleteAll DEF RootOrNull
<1> QED BY <1>1, <1>2, <1>3, <1>4

(* initialize and ping leave their result alone on the heap, or nothing.   *)
LEMMA HandleInitializeHeap ==
    ASSUME HeapAt(at, ix, heap), handle_initialize \/ handle_ping
    PROVE  HeapAt(at', ix', heap')
<1>1. at \in {"initialize", "ping"}
  BY DEF handle_initialize, handle_ping
<1>2. Only(heap, {}) /\ \A o \in Objects \ {msgObj} : heap.state[o] = "null"
  BY <1>1, AtStart
<1>3. \/ heap' = Alloc(heap, result) /\ at' = "make_result"
      \/ at' = "make_error" /\ heap' = heap
      \/ at' = "make_error" /\ heap' = Delete(Alloc(heap, result), {result})
  BY DEF handle_initialize, handle_ping, oom, fail
<1>4. CASE heap' = Alloc(heap, result) /\ at' = "make_result"
  <2>1. Only(heap', {result}) /\ Root(heap', result)
    BY <1>2, <1>4, ResultMade
  <2>2. env \in Objects /\ env # result /\ env # msgObj
    BY ObjectsAre, VariablesDiffer DEF Variables
  <2>3. heap'.state[env] # "live"
    BY <2>1, <2>2 DEF Only
  <2> QED BY <1>4, <2>1, <2>3 DEF HeapAt, Only
<1>5. CASE at' = "make_error" /\ heap' = heap
  BY <1>2, <1>5, AtError
<1>6. CASE at' = "make_error" /\ heap' = Delete(Alloc(heap, result), {result})
  BY <1>2, <1>6, AtError, ResultMade
<1> QED BY <1>3, <1>4, <1>5, <1>6

(* tools/list starts an empty list, or has nothing.                        *)
LEMMA HandleToolsListHeap ==
    ASSUME HeapAt(at, ix, heap), handle_tools_list
    PROVE  HeapAt(at', ix', heap')
<1>1. at = "tools/list" /\ ix' = 1
  BY DEF handle_tools_list
<1>2. Only(heap, {}) /\ \A o \in Objects \ {msgObj} : heap.state[o] = "null"
  BY <1>1, AtStart
<1>3. \/ heap' = Alloc(heap, result) /\ at' = "list"
      \/ at' = "make_error" /\ heap' = heap
      \/ at' = "make_error" /\ heap' = Delete(Alloc(heap, result), {result})
  BY DEF handle_tools_list, oom, fail
<1>4. CASE heap' = Alloc(heap, result) /\ at' = "list"
  <2>1. Only(heap', {result}) /\ Root(heap', result)
    BY <1>2, <1>4, ResultMade
  <2>2. {result} \cup Listed(1) = {result} /\ Built(heap', 1)
    BY DEF Listed, Built
  <2> QED BY <1>1, <1>4, <2>1, <2>2 DEF HeapAt
<1>5. CASE at' = "make_error" /\ heap' = heap
  BY <1>2, <1>5, AtError
<1>6. CASE at' = "make_error" /\ heap' = Delete(Alloc(heap, result), {result})
  BY <1>2, <1>6, AtError, ResultMade
<1> QED BY <1>3, <1>4, <1>5, <1>6

(* One more tool on the list, or the whole list freed.                     *)
LEMMA ListToolHeap ==
    ASSUME HeapAt(at, ix, heap), ix \in 1..ToolCount + 1, list_tool
    PROVE  HeapAt(at', ix', heap')
<1> DEFINE created == Alloc(heap, obj(ix))
           copied == Alloc(created, schema_copy(ix))
           filled == Attach(copied, schema_copy(ix), obj(ix))
           L == {result} \cup Listed(ix)
           o == obj(ix)
           s == schema_copy(ix)
<1>1. /\ at = "list" /\ ix \in 1..ToolCount /\ ToolCount \in Nat
      /\ Only(heap, L) /\ Root(heap, result) /\ Built(heap, ix)
  BY CoreBounds DEF list_tool, HeapAt
<1>2. /\ o \in Objects \ {msgObj} /\ s \in Objects \ {msgObj} /\ o # s
      /\ result \in Objects /\ o # result /\ s # result /\ result # msgObj
  BY <1>1, ObjectsAre, ToolsDiffer, VariablesDiffer DEF Variables
<1>3. /\ o \notin L \cup {msgObj} /\ s \notin (L \cup {o}) \cup {msgObj}
      /\ \A i \in 1..ix - 1 : /\ obj(i) \notin {o, s} /\ schema_copy(i) \notin {o, s}
                              /\ obj(i) \in Objects /\ schema_copy(i) \in Objects
  <2>1. \A i \in 1..ix - 1 : /\ obj(i) # o /\ obj(i) # s /\ schema_copy(i) # o
                             /\ schema_copy(i) # s
                             /\ obj(i) \in Objects /\ schema_copy(i) \in Objects
    <3> SUFFICES ASSUME NEW i \in 1..ix - 1
                 PROVE  /\ obj(i) # o /\ obj(i) # s /\ schema_copy(i) # o
                        /\ schema_copy(i) # s
                        /\ obj(i) \in Objects /\ schema_copy(i) \in Objects
      OBVIOUS
    <3>1. i # ix /\ i \in 1..ToolCount
      BY <1>1
    <3> QED BY <3>1, ToolsDiffer, ObjectsAre
  <2>2. o \notin Listed(ix) /\ s \notin Listed(ix)
    BY <2>1 DEF Listed
  <2> QED BY <1>2, <2>1, <2>2
<1> HIDE DEF o, s
<1>4. /\ Only(created, L \cup {o}) /\ Root(created, o) /\ Root(created, result)
      /\ Built(created, ix)
  <2>1. heap.state[o] # "live"
    BY <1>1, <1>2, <1>3 DEF Only
  <2>2. /\ Only(created, L \cup {o}) /\ Root(created, o)
        /\ \A x \in Objects \ {o} : /\ created.state[x] = heap.state[x]
                                    /\ created.under[x] = heap.under[x]
    BY <1>1, <1>2, <2>1, AllocOnly DEF o
  <2> QED BY <1>1, <1>2, <1>3, <2>2 DEF Root, Built
<1> HIDE DEF created
<1>5. /\ Only(copied, (L \cup {o}) \cup {s}) /\ Root(copied, s) /\ Root(copied, o)
      /\ Root(copied, result) /\ Built(copied, ix)
  <2>1. created.state[s] # "live"
    BY <1>2, <1>3, <1>4 DEF Only
  <2>2. /\ Only(copied, (L \cup {o}) \cup {s}) /\ Root(copied, s)
        /\ \A x \in Objects \ {s} : /\ copied.state[x] = created.state[x]
                                    /\ copied.under[x] = created.under[x]
    BY <1>2, <1>4, <2>1, AllocOnly DEF s
  <2> QED BY <1>2, <1>3, <1>4, <2>2 DEF Root, Built
<1> HIDE DEF copied
<1>6. /\ Only(filled, (L \cup {o}) \cup {s}) /\ filled.under[s] = o /\ Root(filled, o)
      /\ filled.state[s] = "live" /\ Root(filled, result) /\ Built(filled, ix)
  <2>1. /\ Only(filled, (L \cup {o}) \cup {s}) /\ filled.under[s] = o
        /\ \A x \in Objects : filled.state[x] = copied.state[x]
        /\ \A x \in Objects \ {s} : filled.under[x] = copied.under[x]
    BY <1>2, <1>5, AttachOnly DEF s, o, Root
  <2> QED BY <1>2, <1>3, <1>5, <2>1 DEF Root, Built
<1> HIDE DEF filled
<1>7. CASE heap' = Attach(filled, o, result) /\ ix' = ix + 1 /\ at' = at
  <2>1. /\ Only(heap', (L \cup {o}) \cup {s}) /\ heap'.under[o] = result
        /\ \A x \in Objects : heap'.state[x] = filled.state[x]
        /\ \A x \in Objects \ {o} : heap'.under[x] = filled.under[x]
    BY <1>2, <1>6, <1>7, AttachOnly DEF Root
  <2>2. Root(heap', result)
    BY <1>2, <1>6, <2>1 DEF Root
  <2>3. Built(heap', ix + 1)
    <3> SUFFICES ASSUME NEW i \in 1..(ix + 1) - 1
                 PROVE  heap'.under[obj(i)] = result /\ heap'.under[schema_copy(i)] = obj(i)
      BY DEF Built
    <3>1. CASE i = ix
      BY <1>2, <1>6, <2>1, <3>1 DEF o, s
    <3>2. CASE i \in 1..ix - 1
      BY <1>3, <1>6, <2>1, <3>2 DEF Built
    <3> QED BY <1>1, <3>1, <3>2
  <2>4. (L \cup {o}) \cup {s} = {result} \cup Listed(ix + 1)
    <3>1. 1..(ix + 1) - 1 = (1..ix - 1) \cup {ix}
      BY <1>1
    <3>2. {obj(i) : i \in 1..(ix + 1) - 1} = {obj(i) : i \in 1..ix - 1} \cup {o}
      BY <3>1, Zenon DEF o
    <3>3. {schema_copy(i) : i \in 1..(ix + 1) - 1} =
             {schema_copy(i) : i \in 1..ix - 1} \cup {s}
      BY <3>1, Zenon DEF s
    <3> QED BY <3>2, <3>3 DEF Listed
  <2> QED BY <1>1, <1>7, <2>1, <2>2, <2>3, <2>4 DEF HeapAt
<1>8. CASE heap' = Delete(heap, {result}) /\ at' = "make_error"
  <2>1. Only(Delete(heap, {result}), {})
    <3>1. heap \in Heap(Objects) /\ result \in Owners(heap, result)
      BY <1>1, <1>2, OwnersAre DEF Only, Clean, Sound
    <3>2. \A x \in Objects \ {msgObj} : heap.state[x] = "live" =>
             x \in Listed(ix) \/ \E r \in {result} : r \in Owners(heap, x)
      BY <1>1, <3>1 DEF Only
    <3>3. Clean(heap) /\ {result} \in SUBSET (Objects \ {msgObj}) /\ result \in {result}
          /\ \A r \in {result} : Root(heap, r)
      BY <1>1, <1>2 DEF Only
    <3> QED BY <1>1, <3>2, <3>3, ListDeleted
  <2> QED BY <1>8, <2>1, AtError
<1>9. ASSUME NEW h, Only(h, (L \cup {o}) \cup {s}), Root(h, o), Root(h, result),
             Built(h, ix),
             h.state[s] = "live" => h.under[s] = o
      PROVE  Only(Delete(h, {o, result}), {})
  <2>1. /\ h \in Heap(Objects) /\ result \in Owners(h, result) /\ o \in Owners(h, o)
        /\ h.state[s] = "live" => o \in Owners(h, s)
    BY <1>2, <1>9, OwnersAre DEF Only, Clean, Sound
  <2>2. \A x \in Objects \ {msgObj} : h.state[x] = "live" =>
           x \in Listed(ix) \/ \E r \in {o, result} : r \in Owners(h, x)
    <3> SUFFICES ASSUME NEW x \in Objects \ {msgObj}, h.state[x] = "live",
                        x \notin Listed(ix)
                 PROVE  \E r \in {o, result} : r \in Owners(h, x)
      OBVIOUS
    <3>1. x = result \/ x = o \/ x = s
      BY <1>9 DEF Only
    <3> QED BY <2>1, <3>1
  <2>3. Clean(h) /\ {o, result} \in SUBSET (Objects \ {msgObj}) /\ result \in {o, result}
        /\ \A r \in {o, result} : Root(h, r)
    BY <1>2, <1>9 DEF Only
  <2> QED BY <1>1, <1>9, <2>2, <2>3, ListDeleted
<1>10. CASE heap' = Delete(created, {o, result}) /\ at' = "make_error"
  <2>1. created.state[s] # "live"
    BY <1>2, <1>3, <1>4 DEF Only
  <2>2. Only(created, (L \cup {o}) \cup {s})
    BY <1>4, OnlyMore
  <2> QED BY <1>4, <1>9, <1>10, <2>1, <2>2, AtError
<1>11. CASE heap' = Delete(Delete(copied, {s}), {o, result}) /\ at' = "make_error"
  <2>1. copied \in Heap(Objects) /\ Clean(copied) /\ s \in Owners(copied, s)
    BY <1>2, <1>5, OwnersAre DEF Only, Clean, Sound
  <2> DEFINE S == {s}
             kept == L \cup {o}
             d == Delete(copied, S)
  <2>2. \A x \in Objects \ {msgObj} : copied.state[x] = "live" =>
           x \in kept \/ \E r \in S : copied.state[r] = "live" /\ r \in Owners(copied, x)
    BY <1>5, <2>1 DEF Only, Root
  <2>3. S \in SUBSET (Objects \ {msgObj}) /\ \A r \in S : RootOrNull(copied, r)
    BY <1>2, <1>5 DEF RootOrNull
  <2>4. /\ Only(d, kept)
        /\ \A x \in Objects : d.under[x] = copied.under[x]
        /\ \A x \in Objects \ S : Root(copied, x) => Root(d, x)
        /\ \A x \in S : d.state[x] # "live"
    <3> HIDE DEF S, kept
    <3> QED BY <2>1, <2>2, <2>3, DeleteOnly
  <2> HIDE DEF d
  <2>5. Only(d, (L \cup {o}) \cup {s})
    BY <2>4, OnlyMore
  <2>6. Root(d, o) /\ Root(d, result) /\ Built(d, ix) /\ d.state[s] # "live"
    BY <1>2, <1>3, <1>5, <2>4 DEF Built
  <2>7. Only(Delete(d, {o, result}), {})
    BY <1>9, <2>5, <2>6
  <2> QED BY <1>11, <2>7, AtError DEF d
<1>12. CASE heap' = Delete(filled, {o, result}) /\ at' = "make_error"
  BY <1>6, <1>9, <1>12, AtError
<1>13. \/ heap' = Attach(filled, o, result) /\ ix' = ix + 1 /\ at' = at
       \/ heap' = Delete(heap, {result}) /\ at' = "make_error"
       \/ heap' = Delete(created, {o, result}) /\ at' = "make_error"
       \/ heap' = Delete(Delete(copied, {s}), {o, result}) /\ at' = "make_error"
       \/ heap' = Delete(filled, {o, result}) /\ at' = "make_error"
  BY DEF list_tool, oom, fail, created, copied, filled, o, s
<1> QED BY <1>7, <1>8, <1>10, <1>11, <1>12, <1>13

(* A finished list is a result.                                            *)
LEMMA ListEndHeap ==
    ASSUME HeapAt(at, ix, heap), ix \in 1..ToolCount + 1, list_end
    PROVE  HeapAt(at', ix', heap')
<1>1. /\ Only(heap, {result} \cup Listed(ix)) /\ Root(heap, result) /\ Built(heap, ix)
      /\ at' = "make_result" /\ heap' = heap
  BY DEF list_end, HeapAt
<1>2. \A o \in Listed(ix) : o \notin Variables /\ UnderResult(heap, o)
  BY <1>1, ListTree DEF Only, Clean, Sound
<1>3. env \in Objects /\ env \in Variables /\ env # result /\ env # msgObj
  BY ObjectsAre, VariablesDiffer DEF Variables
<1>4. heap.state[env] # "live"
  BY <1>1, <1>2, <1>3 DEF Only
<1>5. \A o \in Objects \ {msgObj, result} : heap.state[o] = "live" => UnderResult(heap, o)
  BY <1>1, <1>2 DEF Only
<1> QED BY <1>1, <1>4, <1>5 DEF HeapAt, Only


(* A request that is refused, not answered or dispatched.                  *)
LEMMA RefuseHeap ==
    ASSUME HeapAt(at, ix, heap), msg \in Message,
           refuse \/ ignore_notification \/ dispatch \/ call_refused
    PROVE  HeapAt(at', ix', heap')
<1>1. at \in {"handle", "tools/call"}
  BY DEF refuse, ignore_notification, dispatch, call_refused
<1>2. Only(heap, {}) /\ \A o \in Objects \ {msgObj} : heap.state[o] = "null"
  BY <1>1, AtStart
<1>3. /\ heap' = heap
      /\ \/ at' = "make_error"
         \/ at' = "done"
         \/ at' \in {"initialize", "ping", "tools/list", "tools/call"}
  BY DEF refuse, ignore_notification, dispatch, call_refused, fail, IsRequest, Valid,
         Message, Methods
<1>4. CASE at' = "make_error"
  BY <1>2, <1>3, <1>4, AtError
<1>5. CASE at' = "done"
  <2>1. env \in Objects \ {msgObj}
    BY ObjectsAre, VariablesDiffer DEF Variables
  <2> QED BY <1>2, <1>3, <1>5, <2>1 DEF HeapAt, Only
<1>6. CASE at' \in {"initialize", "ping", "tools/list", "tools/call"}
  BY <1>2, <1>3, <1>6, AtStart
<1> QED BY <1>3, <1>4, <1>5, <1>6

----------------------------------------------------------------------------
(* The heap of tools/call.                                                 *)

(* The empty arguments are there, or the call needs none of them.          *)
LEMMA CallArgsHeap ==
    ASSUME HeapAt(at, ix, heap), call_args
    PROVE  HeapAt(at', ix', heap')
<1>1. at = "tools/call"
  BY DEF call_args
<1>2. Only(heap, {}) /\ \A o \in Objects \ {msgObj} : heap.state[o] = "null"
  BY <1>1, AtStart
<1>3. /\ args_empty \in Objects \ {msgObj} /\ error_msg \in Objects \ {msgObj}
      /\ args_empty # error_msg
  BY ObjectsAre, VariablesDiffer DEF Variables
<1>4. CASE at' = "content" /\ heap' = heap
  <2>1. Only(heap, {args_empty})
    BY <1>2, OnlyMore
  <2> QED BY <1>2, <1>3, <1>4, <2>1 DEF HeapAt, RootOrNull
<1>5. CASE at' = "content" /\ heap' = Alloc(heap, args_empty)
  <2>1. /\ Only(heap', {} \cup {args_empty}) /\ Root(heap', args_empty)
        /\ heap'.state[error_msg] = heap.state[error_msg]
    BY <1>2, <1>3, <1>5, AllocOnly
  <2>2. Only(heap', {args_empty})
    BY <2>1, OnlyMore
  <2> QED BY <1>2, <1>3, <1>5, <2>1, <2>2 DEF HeapAt, RootOrNull
<1>6. CASE at' = "make_error" /\ heap' = heap
  BY <1>2, <1>6, AtError
<1> QED BY <1>4, <1>5, <1>6 DEF call_args, oom, fail

(* The content array is made, or everything so far is freed.               *)
LEMMA CallContentHeap ==
    ASSUME HeapAt(at, ix, heap), call_content
    PROVE  HeapAt(at', ix', heap')
<1>1. /\ Only(heap, {args_empty}) /\ RootOrNull(heap, args_empty)
      /\ heap.state[error_msg] = "null"
  BY DEF call_content, HeapAt
<1>2. /\ args_empty \in Objects \ {msgObj} /\ error_msg \in Objects \ {msgObj}
      /\ content \in Objects \ {msgObj} /\ content # args_empty /\ content # error_msg
  BY ObjectsAre, VariablesDiffer DEF Variables
<1>3. CASE at' = "handler" /\ heap' = Alloc(heap, content)
  <2>1. heap.state[content] # "live"
    BY <1>1, <1>2 DEF Only
  <2>2. /\ Only(heap', {args_empty} \cup {content}) /\ Root(heap', content)
        /\ \A x \in Objects \ {content} : /\ heap'.state[x] = heap.state[x]
                                          /\ heap'.under[x] = heap.under[x]
    BY <1>1, <1>2, <1>3, <2>1, AllocOnly
  <2>3. Only(heap', {args_empty, content, error_msg})
    BY <2>2, OnlyMore
  <2>4. RootOrNull(heap', args_empty) /\ RootOrNull(heap', error_msg)
    BY <1>1, <1>2, <2>2 DEF RootOrNull, Root
  <2> QED BY <1>3, <2>2, <2>3, <2>4 DEF HeapAt
<1>4. CASE at' = "make_error" /\ heap' = Delete(heap, {args_empty})
  <2>1. Only(heap', {})
    BY <1>1, <1>2, <1>4, DeleteAll
  <2> QED BY <1>4, <2>1, AtError
<1> QED BY <1>3, <1>4 DEF call_content, oom, fail

(* The heap once the error message is replaced, by nothing without memory. *)
ErrorSet(h, stored) ==
    IF stored THEN Alloc(Delete(h, {error_msg}), error_msg)
              ELSE Clear(Delete(h, {error_msg}), error_msg)

(* The error message is replaced, and nothing else.                        *)
LEMMA SetErrorHeap ==
    ASSUME NEW h, NEW L, Only(h, L), error_msg \in L, RootOrNull(h, error_msg),
           NEW stored \in BOOLEAN
    PROVE  LET e == ErrorSet(h, stored)
           IN  /\ Only(e, L) /\ RootOrNull(e, error_msg)
               /\ e.state[error_msg] = "live" <=> stored
               /\ \A x \in Objects \ {error_msg} : Root(h, x) => Root(e, x)
               /\ \A x \in Objects \ {error_msg} : h.state[x] = "null" => e.state[x] = "null"
<1> DEFINE e == ErrorSet(h, stored)
<1>0. SUFFICES /\ Only(e, L) /\ RootOrNull(e, error_msg)
               /\ e.state[error_msg] = "live" <=> stored
               /\ \A x \in Objects \ {error_msg} : Root(h, x) => Root(e, x)
               /\ \A x \in Objects \ {error_msg} : h.state[x] = "null" => e.state[x] = "null"
  OBVIOUS
<1> DEFINE d == Delete(h, {error_msg})
<1>1. error_msg \in Objects \ {msgObj} /\ msgObj \in Objects
  BY ObjectsAre, VariablesDiffer DEF Variables
<1>2. /\ Only(d, L)
      /\ \A x \in Objects : d.state[x] = "null" <=> h.state[x] = "null"
      /\ \A x \in Objects \ {error_msg} : Root(h, x) => Root(d, x)
      /\ d.state[error_msg] # "live"
  <2>1. /\ Clean(h) /\ {error_msg} \in SUBSET (Objects \ {msgObj})
        /\ \A r \in {error_msg} : RootOrNull(h, r)
        /\ \A o \in Objects \ {msgObj} : h.state[o] = "live" =>
              o \in L \/ \E r \in {error_msg} : h.state[r] = "live" /\ r \in Owners(h, o)
    BY <1>1 DEF Only
  <2>2. /\ Only(d, L)
        /\ \A x \in Objects : d.state[x] = "null" <=> h.state[x] = "null"
        /\ \A x \in Objects \ {error_msg} : Root(h, x) => Root(d, x)
        /\ \A x \in {error_msg} : d.state[x] # "live"
    BY <2>1, DeleteOnly
  <2> QED BY <2>2
<1> HIDE DEF d, e
<1>3. CASE stored
  <2>1. e = Alloc(d, error_msg)
    BY <1>3 DEF d, e, ErrorSet
  <2> DEFINE a == Alloc(d, error_msg)
  <2>2. /\ Only(a, L \cup {error_msg}) /\ Root(a, error_msg)
        /\ \A x \in Objects \ {error_msg} : /\ a.state[x] = d.state[x]
                                            /\ a.under[x] = d.under[x]
    BY <1>1, <1>2, AllocOnly
  <2> HIDE DEF a
  <2>3. Only(a, L)
    BY <2>2, OnlyMore
  <2>4. e = a
    BY <2>1 DEF a
  <2> QED BY <1>2, <1>3, <2>2, <2>3, <2>4 DEF RootOrNull, Root
<1>4. CASE ~stored
  <2>1. d \in Heap(Objects) /\ ~d.fault
    BY <1>2 DEF Only, Clean, Sound
  <2> DEFINE c == Clear(d, error_msg)
  <2>2. /\ c \in Heap(Objects) /\ ~c.fault
        /\ \A x \in Objects : /\ c.state[x] = IF x = error_msg THEN "null" ELSE d.state[x]
                              /\ c.under[x] = d.under[x]
    BY <1>1, <1>2, <2>1, ClearIs
  <2> HIDE DEF c
  <2>3. e = c
    BY <1>4 DEF c, d, e, ErrorSet
  <2>4. \A x \in Objects \ {error_msg} : c.state[x] = d.state[x] /\ c.under[x] = d.under[x]
    BY <2>2
  <2>5. Only(c, L)
    BY <1>1, <1>2, <2>2, <2>4 DEF Only, Clean, Sound, Root
  <2>6. \A x \in Objects \ {error_msg} : Root(h, x) => Root(c, x)
    BY <1>2, <2>4 DEF Root
  <2>7. RootOrNull(c, error_msg)
    BY <1>1, <2>2 DEF RootOrNull
  <2>8. c.state[error_msg] = "null"
    BY <1>1, <2>2
  <2> QED BY <1>2, <1>4, <2>3, <2>4, <2>5, <2>6, <2>7, <2>8
<1> QED BY <1>3, <1>4

(* An item goes into the content, or is freed: where all that is live is a *)
(* tree of its own, nothing but the item's own pointer changes.            *)
LEMMA TextHeap ==
    ASSUME NEW h, NEW L, Only(h, L), item \notin L, Root(h, content),
           \A o \in Objects : h.state[o] = "live" => h.under[o] = NoOwner,
           NEW stored \in BOOLEAN, NEW g \in TextItem(h, stored)
    PROVE  /\ Only(g, L)
           /\ \A x \in Objects \ {item} : g.state[x] = h.state[x] /\ g.under[x] = h.under[x]
<1> DEFINE created == Alloc(h, item)
<1>1. /\ h \in Heap(Objects) /\ ~h.fault /\ Root(h, msgObj)
      /\ item \in Objects /\ content \in Objects /\ msgObj \in Objects
      /\ item # content /\ item # msgObj /\ NoOwner \notin Objects
  BY ObjectsAre, VariablesDiffer DEF Only, Clean, Sound, Variables
<1>2. h.state[item] # "live"
  BY <1>1 DEF Only
<1>3. /\ created \in Heap(Objects) /\ ~created.fault
      /\ created.state[item] = "live" /\ created.under[item] = NoOwner
      /\ \A x \in Objects \ {item} : /\ created.state[x] = h.state[x]
                                     /\ created.under[x] = h.under[x]
  <2>1. /\ created \in Heap(Objects)
        /\ \A x \in Objects :
              /\ created.state[x] = IF x = item THEN "live" ELSE h.state[x]
              /\ created.under[x] = IF x = item THEN NoOwner ELSE h.under[x]
        /\ created.fault <=> h.fault \/ h.state[item] = "live"
    BY ONLY <1>1, AllocIs DEF created
  <2> QED BY ONLY <1>1, <1>2, <2>1
<1> HIDE DEF created
<1>4. PICK mid \in {Attach(created, item, content), h, Delete(created, {item})} :
         g = Leave(mid, item)
  BY DEF TextItem, created
<1> DEFINE Kept == /\ mid \in Heap(Objects) /\ ~mid.fault
                   /\ ~(mid.state[item] = "live" /\ mid.under[item] = NoOwner)
                   /\ \A x \in Objects \ {item} : /\ mid.state[x] = h.state[x]
                                                  /\ mid.under[x] = h.under[x]
<1>5. ASSUME mid = Attach(created, item, content) PROVE Kept
  <2>1. created.state[content] = "live"
    BY <1>1, <1>3 DEF Root
  <2>2. /\ mid \in Heap(Objects) /\ ~mid.fault
        /\ \A x \in Objects :
              /\ mid.state[x] = created.state[x]
              /\ mid.under[x] = IF x = item THEN content ELSE created.under[x]
    <3> DEFINE q == Attach(created, item, content)
    <3>1. /\ created \in Heap(Objects) /\ ~created.fault
          /\ created.state[item] = "live" /\ created.under[item] = NoOwner
      BY ONLY <1>3
    <3>2. /\ q \in Heap(Objects) /\ ~q.fault
          /\ \A x \in Objects :
                /\ q.state[x] = created.state[x]
                /\ q.under[x] = IF x = item THEN content ELSE created.under[x]
      BY ONLY <1>1, <2>1, <3>1, AttachIs
    <3>3. mid = q
      BY <1>5
    <3> HIDE DEF q
    <3> QED BY ONLY <3>2, <3>3
  <2>3. mid.under[item] # NoOwner
    BY ONLY <1>1, <2>2
  <2>4. \A x \in Objects \ {item} : /\ mid.state[x] = h.state[x]
                                   /\ mid.under[x] = h.under[x]
    BY ONLY <1>3, <2>2
  <2> QED BY ONLY <2>2, <2>3, <2>4
<1>6. ASSUME mid = h PROVE Kept
  BY <1>1, <1>2, <1>6
<1>7. ASSUME mid = Delete(created, {item}) PROVE Kept
  <2>1. /\ mid \in Heap(Objects) /\ ~mid.fault
        /\ \A x \in Objects :
              /\ mid.under[x] = created.under[x]
              /\ mid.state[x] =
                    IF /\ created.state[x] = "live"
                       /\ \E r \in {item} : created.state[r] = "live"
                                           /\ r \in Owners(created, x)
                    THEN "freed" ELSE created.state[x]
    BY <1>1, <1>3, <1>7, DeleteIs DEF RootOrNull, Root
  <2>2. \A x \in Objects \ {item} :
           created.state[x] = "live" => item \notin Owners(created, x)
    <3>1. \A x \in Objects \ {item} :
             created.state[x] = "live" => created.under[x] = NoOwner
      BY <1>3
    <3> QED BY ONLY <1>1, <1>3, <3>1, OwnersAre
  <2>3. item \in Owners(created, item)
    BY ONLY <1>1, <1>3, OwnersAre
  <2>4. mid.state[item] = "freed"
    BY ONLY <1>1, <1>3, <2>1, <2>3
  <2>5. \A x \in Objects \ {item} : /\ mid.state[x] = h.state[x]
                                   /\ mid.under[x] = h.under[x]
    BY ONLY <1>3, <2>1, <2>2
  <2> QED BY ONLY <2>1, <2>4, <2>5
<1>8. Kept
  BY ONLY <1>4, <1>5, <1>6, <1>7
<1> HIDE DEF Kept
<1>9. /\ g \in Heap(Objects) /\ ~g.fault /\ g.state[item] = "null"
      /\ \A x \in Objects \ {item} : g.state[x] = h.state[x] /\ g.under[x] = h.under[x]
  <2> DEFINE q == Leave(mid, item)
  <2>1. /\ mid \in Heap(Objects) /\ ~mid.fault
        /\ ~(mid.state[item] = "live" /\ mid.under[item] = NoOwner)
        /\ \A x \in Objects \ {item} : /\ mid.state[x] = h.state[x]
                                       /\ mid.under[x] = h.under[x]
    BY ONLY <1>8 DEF Kept
  <2>2. /\ q \in Heap(Objects) /\ ~q.fault
        /\ \A x \in Objects :
              /\ q.state[x] = IF x = item THEN "null" ELSE mid.state[x]
              /\ q.under[x] = IF x = item THEN NoOwner ELSE mid.under[x]
    <3>1. /\ mid \in Heap(Objects) /\ ~mid.fault /\ item \in Objects
          /\ ~(mid.state[item] = "live" /\ mid.under[item] = NoOwner)
      BY ONLY <1>1, <2>1
    <3> QED BY ONLY <3>1, LeaveIs
  <2>3. g = q
    BY ONLY <1>4
  <2> HIDE DEF q
  <2> QED BY ONLY <1>1, <2>1, <2>2, <2>3
<1>10. \A o \in Objects : g.state[o] = "live" => o \in L \cup {msgObj}
  BY <1>9 DEF Only
<1> QED BY <1>1, <1>9, <1>10 DEF Only, Clean, Sound, Root

(* What the tool's handler adds stays under content and error_msg.         *)
LEMMA HandlerHeap ==
    ASSUME HeapAt(at, ix, heap),
           mcp_tool_response_add_text \/ mcp_tool_response_set_error
    PROVE  HeapAt(at', ix', heap')
<1> DEFINE L == {args_empty, content, error_msg}
<1>1. at = "handler" /\ at' = "handler"
  BY DEF mcp_tool_response_add_text, mcp_tool_response_set_error
<1>2. /\ Only(heap, L) /\ RootOrNull(heap, args_empty) /\ RootOrNull(heap, error_msg)
      /\ Root(heap, content)
  BY <1>1 DEF HeapAt
<1>3. /\ args_empty \in Objects \ {error_msg} /\ content \in Objects \ {error_msg}
      /\ error_msg \in L
  BY ObjectsAre, VariablesDiffer DEF Variables
<1> HIDE DEF L
<1>4. CASE mcp_tool_response_add_text
  <2>1. PICK stored \in BOOLEAN : heap' \in TextItem(heap, stored)
    BY <1>4 DEF mcp_tool_response_add_text, Allocates
  <2>2. /\ item \notin L /\ args_empty \in Objects \ {item}
        /\ content \in Objects \ {item} /\ error_msg \in Objects \ {item}
    BY ObjectsAre, VariablesDiffer DEF Variables, L
  <2>3. \A o \in Objects : heap.state[o] = "live" => heap.under[o] = NoOwner
    BY <1>2 DEF Only, Clean, Root, RootOrNull, L
  <2>4. /\ Only(heap', L)
        /\ \A x \in Objects \ {item} : /\ heap'.state[x] = heap.state[x]
                                       /\ heap'.under[x] = heap.under[x]
    BY <1>2, <2>1, <2>2, <2>3, TextHeap
  <2>5. /\ RootOrNull(heap', args_empty) /\ RootOrNull(heap', error_msg)
        /\ Root(heap', content)
    BY <1>2, <2>2, <2>4 DEF Root, RootOrNull
  <2> QED BY <1>1, <2>4, <2>5 DEF HeapAt, L
<1>5. CASE \E stored \in BOOLEAN :
              heap' = ErrorSet(heap, stored)
  <2>1. /\ Only(heap', L) /\ RootOrNull(heap', error_msg)
        /\ \A x \in Objects \ {error_msg} : Root(heap, x) => Root(heap', x)
        /\ \A x \in Objects \ {error_msg} :
              heap.state[x] = "null" => heap'.state[x] = "null"
    BY <1>2, <1>3, <1>5, SetErrorHeap
  <2>2. Root(heap', content) /\ RootOrNull(heap', args_empty)
    BY <1>2, <1>3, <2>1 DEF RootOrNull
  <2> QED BY <1>1, <2>1, <2>2 DEF HeapAt, L
<1>6. mcp_tool_response_add_text \/ \E stored \in BOOLEAN : heap' = ErrorSet(heap, stored)
  BY DEF mcp_tool_response_set_error, set_error, Allocates, ErrorSet
<1> QED BY <1>4, <1>5, <1>6

(* The arguments made for the handler are freed once.                      *)
LEMMA HandlerReturnsHeap ==
    ASSUME HeapAt(at, ix, heap), handler_returns
    PROVE  HeapAt(at', ix', heap')
<1> DEFINE L == {content, error_msg}
           d == Delete(heap, {args_empty})
<1>1. at = "handler" /\ at' = "result"
  BY DEF handler_returns
<1>2. /\ Only(heap, {args_empty, content, error_msg}) /\ RootOrNull(heap, args_empty)
      /\ RootOrNull(heap, error_msg) /\ Root(heap, content)
  BY <1>1 DEF HeapAt
<1>3. /\ args_empty \in Objects \ {msgObj}
      /\ content \in Objects /\ content # args_empty /\ content # error_msg
      /\ error_msg \in Objects /\ error_msg # args_empty /\ error_msg \in L
  BY ObjectsAre, VariablesDiffer DEF Variables
<1>4. Only(d, L) /\ RootOrNull(d, error_msg) /\ Root(d, content)
  <2>1. /\ Clean(heap) /\ {args_empty} \in SUBSET (Objects \ {msgObj})
        /\ \A r \in {args_empty} : RootOrNull(heap, r)
    BY <1>2, <1>3 DEF Only
  <2>2. \A o \in Objects \ {msgObj} : heap.state[o] = "live" =>
           o \in L \/ \E r \in {args_empty} : heap.state[r] = "live" /\ r \in Owners(heap, o)
    BY <1>2, OwnersAre DEF Only, Clean, Sound
  <2>3. /\ Only(d, L)
        /\ \A x \in Objects : d.state[x] = "null" <=> heap.state[x] = "null"
        /\ \A x \in Objects \ {args_empty} : Root(heap, x) => Root(d, x)
    BY <2>1, <2>2, DeleteOnly
  <2> QED BY <1>2, <1>3, <2>3 DEF RootOrNull
<1> HIDE DEF L, d
<1>5. CASE heap' = d
  BY <1>1, <1>4, <1>5 DEF HeapAt, L
<1>6. CASE \E stored \in BOOLEAN :
              heap' = ErrorSet(d, stored)
  <2>1. /\ Only(heap', L) /\ RootOrNull(heap', error_msg)
        /\ \A x \in Objects \ {error_msg} : Root(d, x) => Root(heap', x)
    BY <1>3, <1>4, <1>6, SetErrorHeap
  <2> QED BY <1>1, <1>3, <1>4, <2>1 DEF HeapAt, L
<1>7. heap' = d \/ \E stored \in BOOLEAN :
         heap' = ErrorSet(d, stored)
  BY DEF handler_returns, set_error, Allocates, d, ErrorSet
<1> QED BY <1>5, <1>6, <1>7

(* Without memory for result, content and error_msg go.                    *)
LEMMA CallResultHeap ==
    ASSUME HeapAt(at, ix, heap), call_result
    PROVE  HeapAt(at', ix', heap')
<1>1. /\ Only(heap, {content, error_msg}) /\ RootOrNull(heap, error_msg)
      /\ Root(heap, content)
  BY DEF call_result, HeapAt
<1>2. /\ result \in Objects \ {msgObj} /\ result # content /\ result # error_msg
      /\ content \in Objects \ {msgObj} /\ error_msg \in Objects \ {msgObj}
  BY ObjectsAre, VariablesDiffer DEF Variables
<1>3. CASE at' = "error_item" /\ heap' = Alloc(heap, result)
  <2>1. heap.state[result] # "live"
    BY <1>1, <1>2 DEF Only
  <2>2. /\ Only(heap', {content, error_msg} \cup {result}) /\ Root(heap', result)
        /\ \A x \in Objects \ {result} : /\ heap'.state[x] = heap.state[x]
                                         /\ heap'.under[x] = heap.under[x]
    BY <1>1, <1>2, <1>3, <2>1, AllocOnly
  <2>3. Only(heap', {content, error_msg, result})
    BY <2>2, OnlyMore
  <2>4. RootOrNull(heap', error_msg) /\ Root(heap', content)
    BY <1>1, <1>2, <2>2 DEF RootOrNull, Root
  <2> QED BY <1>3, <2>2, <2>3, <2>4 DEF HeapAt
<1>4. CASE at' = "make_error" /\ heap' = Delete(heap, {content, error_msg})
  <2>1. Only(heap', {})
    <3>1. {content, error_msg} \in SUBSET (Objects \ {msgObj})
          /\ \A r \in {content, error_msg} : RootOrNull(heap, r)
      BY <1>1, <1>2 DEF RootOrNull
    <3> QED BY <1>1, <1>4, <3>1, DeleteAll
  <2> QED BY <1>4, <2>1, AtError
<1> QED BY <1>3, <1>4 DEF call_result, oom, fail

(* The error's item is made, or dropped, and content is kept.              *)
LEMMA CallErrorItemHeap ==
    ASSUME HeapAt(at, ix, heap), call_error_item
    PROVE  HeapAt(at', ix', heap')
<1> DEFINE created == Alloc(heap, err_item)
           L == {content, error_msg, result}
           M == {content, error_msg, result, err_item}
<1>1. /\ Only(heap, L) /\ RootOrNull(heap, error_msg) /\ Root(heap, content)
      /\ Root(heap, result)
  BY DEF call_error_item, HeapAt
<1>2. /\ L \in SUBSET (Objects \ {msgObj}) /\ M \in SUBSET (Objects \ {msgObj})
      /\ err_item \in Objects \ {msgObj} /\ err_item \notin L \cup {msgObj}
      /\ content \in Objects /\ err_item # content /\ err_item # result
      /\ err_item # error_msg /\ result \in Objects /\ error_msg \in Objects
  BY ObjectsAre, VariablesDiffer DEF Variables
<1>3. /\ Only(created, M) /\ RootOrNull(created, error_msg) /\ Root(created, content)
      /\ Root(created, result) /\ Root(created, err_item)
  <2>1. heap.state[err_item] # "live"
    BY <1>1, <1>2 DEF Only
  <2>2. /\ Only(created, L \cup {err_item}) /\ Root(created, err_item)
        /\ \A x \in Objects \ {err_item} : /\ created.state[x] = heap.state[x]
                                           /\ created.under[x] = heap.under[x]
    BY <1>1, <1>2, <2>1, AllocOnly
  <2>3. L \cup {err_item} = M
    OBVIOUS
  <2> QED BY <1>1, <1>2, <2>2, <2>3 DEF RootOrNull, Root
<1>4. CASE at' = "attach" /\ heap' = Attach(created, err_item, content)
  <2>1. /\ Only(heap', M) /\ heap'.under[err_item] = content
        /\ \A x \in Objects : heap'.state[x] = created.state[x]
        /\ \A x \in Objects \ {err_item} : heap'.under[x] = created.under[x]
    BY <1>2, <1>3, <1>4, AttachOnly DEF Root
  <2>2. RootOrNull(heap', error_msg) /\ Root(heap', content) /\ Root(heap', result)
    BY <1>2, <1>3, <2>1 DEF RootOrNull, Root
  <2> QED BY <1>4, <2>1, <2>2 DEF HeapAt
<1>5. CASE at' = "attach" /\ heap' = heap
  <2>1. Only(heap, M) /\ heap.state[err_item] # "live"
    BY <1>1, <1>2, OnlyMore DEF Only
  <2> QED BY <1>1, <1>5, <2>1 DEF HeapAt
<1>6. CASE at' = "make_error" /\ heap' = Delete(heap, {result, content, error_msg})
  <2>1. L = {result, content, error_msg} /\ \A r \in L : RootOrNull(heap, r)
    BY <1>1 DEF RootOrNull
  <2>2. Only(Delete(heap, L), {})
    BY <1>1, <1>2, <2>1, DeleteAll
  <2> QED BY <1>6, <2>1, <2>2, AtError
<1>7. CASE /\ at' = "make_error"
           /\ heap' = Delete(created, {err_item, result, content, error_msg})
  <2>1. M = {err_item, result, content, error_msg} /\ \A r \in M : RootOrNull(created, r)
    BY <1>3 DEF RootOrNull
  <2>2. Only(Delete(created, M), {})
    BY <1>2, <1>3, <2>1, DeleteAll
  <2> QED BY <1>7, <2>1, <2>2, AtError
<1> QED BY <1>4, <1>5, <1>6, <1>7 DEF call_error_item, oom, fail

(* content is handed over to result, with the item of the error in it.     *)
LEMMA CallAttachHeap ==
    ASSUME HeapAt(at, ix, heap), call_attach
    PROVE  HeapAt(at', ix', heap')
<1> DEFINE L == {content, error_msg, result, err_item}
           added == Attach(heap, content, result)
<1>1. /\ Only(heap, L) /\ RootOrNull(heap, error_msg) /\ Root(heap, content)
      /\ Root(heap, result)
      /\ heap.state[err_item] = "live" => heap.under[err_item] = content
  <2>1. at = "attach"
    BY DEF call_attach
  <2> QED BY <2>1 DEF HeapAt
<1>0. heap \in Heap(Objects)
  BY <1>1 DEF Only, Clean, Sound
<1>2. /\ content \in Objects \ {msgObj} /\ result \in Objects \ {msgObj}
      /\ error_msg \in Objects \ {msgObj} /\ err_item \in Objects \ {msgObj}
      /\ content # result /\ content # error_msg /\ result # error_msg
      /\ err_item # content /\ err_item # error_msg
  BY ObjectsAre, VariablesDiffer DEF Variables
<1>3. CASE at' = "is_error" /\ heap' = Delete(added, {error_msg})
  <2>1. /\ Only(added, L) /\ added.under[content] = result
        /\ \A x \in Objects : added.state[x] = heap.state[x]
        /\ \A x \in Objects \ {content} : added.under[x] = heap.under[x]
    BY <1>1, <1>2, AttachOnly DEF Root
  <2> HIDE DEF added
  <2>2. added \in Heap(Objects) /\ RootOrNull(added, error_msg) /\ Root(added, result)
    BY <1>1, <1>2, <2>1 DEF RootOrNull, Root, Only, Clean, Sound
  <2> DEFINE N == {content, result, err_item}
  <2>3. \A o \in Objects \ {msgObj} : added.state[o] = "live" =>
           o \in N \/ \E r \in {error_msg} : added.state[r] = "live" /\ r \in Owners(added, o)
    BY <2>1, <2>2, OwnersAre DEF Only
  <2>4. /\ Only(heap', N)
        /\ \A x \in Objects : heap'.under[x] = added.under[x]
        /\ \A x \in Objects \ {error_msg} : Root(added, x) => Root(heap', x)
    <3>1. Clean(added) /\ {error_msg} \in SUBSET (Objects \ {msgObj})
          /\ \A r \in {error_msg} : RootOrNull(added, r)
      BY <1>2, <2>1, <2>2 DEF Only
    <3> DEFINE d == Delete(added, {error_msg})
    <3>2. /\ Only(d, N)
          /\ \A x \in Objects : d.under[x] = added.under[x]
          /\ \A x \in Objects \ {error_msg} : Root(added, x) => Root(d, x)
      BY <2>3, <3>1, DeleteOnly
    <3> QED BY <1>3, <3>2
  <2>5. heap'.state[content] = "live"
    <3>1. added.state[content] = "live" /\ added.under[result] = NoOwner
      BY <1>1, <1>2, <2>1, <2>2 DEF Root
    <3>2. error_msg \notin Owners(added, content)
      <4>1. NoOwner \notin Objects
        BY ObjectsAre
      <4> QED BY <1>2, <2>1, <3>1, <4>1 DEF Owners, Owner
    <3>3. heap'.state[content] =
             IF /\ added.state[content] = "live"
                /\ \E r \in {error_msg} : added.state[r] = "live" /\ r \in Owners(added, content)
             THEN "freed" ELSE added.state[content]
      BY <1>2, <1>3, <2>2, DeleteIs
    <3> QED BY <3>1, <3>2, <3>3
  <2>6. heap'.state[err_item] = "live" => heap'.under[err_item] = content
    <3>1. heap'.state[err_item] = "live" => added.state[err_item] = "live"
      <4>1. heap'.state[err_item] =
               IF /\ added.state[err_item] = "live"
                  /\ \E r \in {error_msg} : added.state[r] = "live"
                                            /\ r \in Owners(added, err_item)
               THEN "freed" ELSE added.state[err_item]
        BY <1>2, <1>3, <2>2, DeleteIs
      <4> QED BY <4>1
    <3> QED BY <1>1, <1>2, <2>1, <2>4, <3>1
  <2>7. Root(heap', result) /\ heap'.under[content] = result
    BY <1>2, <2>1, <2>2, <2>4
  <2> QED BY <1>3, <2>4, <2>5, <2>6, <2>7 DEF HeapAt
<1>4. CASE at' = "make_error" /\ heap' = Delete(heap, {result, content, error_msg})
  <2> DEFINE S == {result, content, error_msg}
  <2>1. Clean(heap) /\ S \in SUBSET (Objects \ {msgObj}) /\ \A r \in S : RootOrNull(heap, r)
    BY <1>1, <1>2 DEF Only, RootOrNull
  <2>2. \A o \in Objects \ {msgObj} : heap.state[o] = "live" =>
           o \in {} \/ \E r \in S : heap.state[r] = "live" /\ r \in Owners(heap, o)
    <3> SUFFICES ASSUME NEW o \in Objects \ {msgObj}, heap.state[o] = "live"
                 PROVE  \E r \in S : heap.state[r] = "live" /\ r \in Owners(heap, o)
      OBVIOUS
    <3>1. o \in L /\ o \in Owners(heap, o) /\ heap.under[o] \in Owners(heap, o)
      BY <1>0, <1>1, OwnersAre DEF Only
    <3>2. CASE o \in S
      BY <3>1, <3>2
    <3>3. CASE o = err_item
      BY <1>1, <3>1, <3>3 DEF Root
    <3> QED BY <3>1, <3>2, <3>3
  <2>3. Only(heap', {})
    BY <1>4, <2>1, <2>2, DeleteOnly
  <2> QED BY <1>4, <2>3, AtError
<1> QED BY <1>3, <1>4 DEF call_attach, oom, fail

(* Without memory for isError, result goes, and what is under it.          *)
LEMMA CallIsErrorHeap ==
    ASSUME HeapAt(at, ix, heap), call_is_error
    PROVE  HeapAt(at', ix', heap')
<1>1. /\ Only(heap, {content, result, err_item}) /\ Root(heap, result)
      /\ heap.under[content] = result
      /\ heap.state[err_item] = "live" => heap.under[err_item] = content
  <2>1. at = "is_error"
    BY DEF call_is_error
  <2> QED BY <2>1 DEF HeapAt
<1>0. heap \in Heap(Objects) /\ Clean(heap)
  BY <1>1 DEF Only, Clean, Sound
<1>2. /\ content \in Objects \ {env} /\ result \in Objects \ {msgObj}
      /\ env \in Objects /\ env \notin {content, result, err_item, msgObj}
  BY ObjectsAre, VariablesDiffer DEF Variables
<1>3. \A o \in Objects \ {msgObj, result} : heap.state[o] = "live" => UnderResult(heap, o)
  BY <1>1, <1>2 DEF Only, UnderResult
<1>4. CASE at' = "make_result" /\ heap' = heap
  <2>1. heap.state[env] # "live"
    BY <1>1, <1>2 DEF Only
  <2> QED BY <1>0, <1>1, <1>3, <1>4, <2>1 DEF HeapAt
<1>5. CASE at' = "make_error" /\ heap' = Delete(heap, {result})
  <2>1. \A o \in Objects \ {msgObj} : heap.state[o] = "live" =>
           o \in {} \/ \E r \in {result} : heap.state[r] = "live" /\ r \in Owners(heap, o)
    BY <1>0, <1>1, <1>2, <1>3, OwnersAre DEF UnderResult, Root
  <2>2. {result} \in SUBSET (Objects \ {msgObj}) /\ \A r \in {result} : RootOrNull(heap, r)
    BY <1>1, <1>2 DEF RootOrNull
  <2>3. Only(heap', {})
    BY <1>0, <1>1, <1>5, <2>1, <2>2, DeleteOnly
  <2> QED BY <1>5, <2>3, AtError
<1> QED BY <1>4, <1>5 DEF call_is_error, oom, fail

----------------------------------------------------------------------------
(* The heap of the envelope, and between two lines.                        *)

(* A heap with the message alone, and no response.                         *)
LEMMA AtDone ==
    ASSUME NEW h, NEW n, Only(h, {})
    PROVE  HeapAt("done", n, h) /\ h.state[env] # "live"
<1>1. env \in Objects \ {msgObj}
  BY ObjectsAre, VariablesDiffer DEF Variables
<1> QED BY <1>1 DEF HeapAt, Only

(* The envelope owns the result, or both are freed.                        *)
LEMMA MakeResultHeap ==
    ASSUME HeapAt(at, ix, heap), make_result
    PROVE  /\ HeapAt(at', ix', heap')
           /\ heap' = Attach(Alloc(heap, env), result, env) => heap'.state[env] = "live"
           /\ heap' \in {Delete(heap, {result}), Delete(Alloc(heap, env), {result, env})} =>
                 heap'.state[env] # "live"
<1> DEFINE wrapped == Alloc(heap, env)
<1>1. /\ Clean(heap) /\ Root(heap, result) /\ heap.state[env] # "live"
      /\ \A o \in Objects \ {msgObj, result} : heap.state[o] = "live" => UnderResult(heap, o)
      /\ at' = "done" /\ heap \in Heap(Objects) /\ Only(heap, Objects)
  BY DEF make_result, HeapAt, Only, Clean, Sound
<1>2. /\ env \in Objects \ {msgObj} /\ result \in Objects \ {msgObj} /\ env # result
      /\ NoOwner \notin Objects
  BY ObjectsAre, VariablesDiffer DEF Variables
<1>3. /\ Only(wrapped, Objects \cup {env}) /\ Root(wrapped, env) /\ Root(wrapped, result)
      /\ \A x \in Objects \ {env} : /\ wrapped.state[x] = heap.state[x]
                                    /\ wrapped.under[x] = heap.under[x]
  <2>1. /\ Only(wrapped, Objects \cup {env}) /\ Root(wrapped, env)
        /\ \A x \in Objects \ {env} : /\ wrapped.state[x] = heap.state[x]
                                      /\ wrapped.under[x] = heap.under[x]
    BY <1>1, <1>2, AllocOnly
  <2> QED BY <1>1, <1>2, <2>1 DEF Root
<1> HIDE DEF wrapped
<1>7. Attach(wrapped, result, env).state[env] = "live"
  BY <1>2, <1>3, AttachOnly DEF Root
<1>4. ASSUME heap' = Attach(wrapped, result, env)
      PROVE  HeapAt(at', ix', heap')
  <2>1. /\ Only(heap', Objects \cup {env}) /\ heap'.under[result] = env
        /\ \A x \in Objects : heap'.state[x] = wrapped.state[x]
        /\ \A x \in Objects \ {result} : heap'.under[x] = wrapped.under[x]
    BY <1>2, <1>3, <1>4, AttachOnly DEF Root
  <2>2. heap' \in Heap(Objects) /\ Clean(heap')
    BY <2>1 DEF Only, Clean, Sound
  <2>3. heap'.under[env] = NoOwner /\ heap'.state[env] = "live"
    BY <1>2, <1>3, <2>1 DEF Root
  <2>4. \A o \in Objects \ {msgObj} : heap'.state[o] = "live" => env \in Owners(heap', o)
    <3> SUFFICES ASSUME NEW o \in Objects \ {msgObj}, heap'.state[o] = "live"
                 PROVE  env \in Owners(heap', o)
      OBVIOUS
    <3>1. CASE o = env
      BY <2>2, <3>1, OwnersAre
    <3>2. CASE o = result
      BY <2>1, <2>2, <3>2, OwnersAre
    <3>3. CASE o # env /\ o # result
      <4>1. UnderResult(heap, o)
        BY <1>1, <1>3, <2>1, <3>3
      <4>2. \A p \in Objects \ {env, result} : heap'.under[p] = heap.under[p]
        BY <1>3, <2>1
      <4>3. CASE heap.under[o] = result
        BY <1>2, <2>1, <2>2, <3>3, <4>2, <4>3, OwnersAre
      <4>4. CASE \E p \in Objects \ {env} : heap.under[o] = p /\ heap.under[p] = result
        <5>1. PICK p \in Objects \ {env} : heap.under[o] = p /\ heap.under[p] = result
          BY <4>4
        <5>2. p # result
          BY <1>1, <1>2, <5>1 DEF Root
        <5>3. heap'.under[o] = p /\ heap'.under[p] = result
          BY <3>3, <4>2, <5>1, <5>2
        <5> QED BY <1>2, <2>1, <2>2, <5>1, <5>3, OwnersAre
      <4> QED BY <4>1, <4>3, <4>4 DEF UnderResult
    <3> QED BY <3>1, <3>2, <3>3
  <2> QED BY <1>1, <2>2, <2>3, <2>4 DEF HeapAt
<1>5. Only(Delete(heap, {result}), {})
  <2>1. \A o \in Objects \ {msgObj} : heap.state[o] = "live" =>
           o \in {} \/ \E r \in {result} : heap.state[r] = "live" /\ r \in Owners(heap, o)
    BY <1>1, <1>2, OwnersAre DEF UnderResult, Root
  <2>2. {result} \in SUBSET (Objects \ {msgObj}) /\ \A r \in {result} : RootOrNull(heap, r)
    BY <1>1, <1>2 DEF RootOrNull
  <2> QED BY <1>1, <2>1, <2>2, DeleteOnly
<1>6. Only(Delete(wrapped, {result, env}), {})
  <2> DEFINE S == {result, env}
  <2>1. wrapped \in Heap(Objects) /\ Clean(wrapped)
    BY <1>3 DEF Only, Clean, Sound
  <2>2. \A o \in Objects \ {msgObj} : wrapped.state[o] = "live" =>
           o \in {} \/ \E r \in S : wrapped.state[r] = "live" /\ r \in Owners(wrapped, o)
    <3> SUFFICES ASSUME NEW o \in Objects \ {msgObj}, wrapped.state[o] = "live"
                 PROVE  \E r \in S : wrapped.state[r] = "live" /\ r \in Owners(wrapped, o)
      OBVIOUS
    <3>1. CASE o \in S
      BY <2>1, <3>1, OwnersAre
    <3>2. CASE o \notin S
      <4>1. UnderResult(heap, o) /\ wrapped.under[o] = heap.under[o]
        BY <1>1, <1>3, <3>2
      <4>2. UnderResult(wrapped, o)
        BY <1>3, <4>1 DEF UnderResult
      <4> QED BY <1>2, <1>3, <2>1, <4>2, OwnersAre DEF UnderResult, Root
    <3> QED BY <3>1, <3>2
  <2>3. S \in SUBSET (Objects \ {msgObj}) /\ \A r \in S : RootOrNull(wrapped, r)
    BY <1>2, <1>3 DEF RootOrNull
  <2> QED BY <2>1, <2>2, <2>3, DeleteOnly
<1>8. ASSUME heap' \in {Delete(heap, {result}), Delete(wrapped, {result, env})}
      PROVE  HeapAt(at', ix', heap')
  BY <1>1, <1>5, <1>6, <1>8, AtDone
<1>9. /\ Delete(heap, {result}).state[env] # "live"
      /\ Delete(wrapped, {result, env}).state[env] # "live"
  BY <1>5, <1>6, AtDone
<1>10. HeapAt(at', ix', heap')
  BY <1>4, <1>8 DEF make_result, wrapped
<1> QED BY <1>7, <1>9, <1>10 DEF wrapped

(* The envelope of an error, or nothing.                                   *)
LEMMA MakeErrorHeap ==
    ASSUME HeapAt(at, ix, heap), make_error
    PROVE  /\ HeapAt(at', ix', heap')
           /\ heap' = Alloc(heap, env) => heap'.state[env] = "live"
           /\ heap' = Delete(Alloc(heap, env), {env}) => heap'.state[env] # "live"
<1>1. Only(heap, {}) /\ at' = "done"
  BY DEF make_error, HeapAt
<1>2. env \in Objects \ {msgObj}
  BY ObjectsAre, VariablesDiffer DEF Variables
<1> DEFINE made == Alloc(heap, env)
<1>3. Only(made, {} \cup {env}) /\ Root(made, env)
  BY <1>1, <1>2, AllocOnly DEF Only
<1>4. Only(made, {env})
  BY <1>3, OnlyMore
<1> HIDE DEF made
<1>5. Only(Delete(made, {env}), {})
  BY <1>2, <1>3, <1>4, DeleteAll DEF RootOrNull
<1>6. /\ made.state[env] = "live"
      /\ Delete(made, {env}).state[env] # "live"
  BY <1>3, <1>5, AtDone DEF Root
<1>7. ASSUME heap' = made
      PROVE  HeapAt(at', ix', heap')
  <2>1. made \in Heap(Objects) /\ Clean(made) /\ env \in Owners(made, env)
    BY <1>2, <1>4, OwnersAre DEF Only, Clean, Sound
  <2> QED BY <1>1, <1>3, <1>4, <1>7, <2>1 DEF HeapAt, Only, Root
<1>8. ASSUME heap' = Delete(made, {env})
      PROVE  HeapAt(at', ix', heap')
  BY <1>1, <1>5, <1>8, AtDone
<1>9. HeapAt(at', ix', heap')
  BY <1>7, <1>8 DEF make_error, made
<1> QED BY <1>6, <1>9 DEF made

(* A parsed line is the message.                                           *)
LEMMA ParseHeap ==
    ASSUME HeapAt("idle", ix, heap), parse_ok
    PROVE  HeapAt(at', ix', heap')
<1>1. Sound(heap) /\ \A o \in Objects : heap.state[o] = "null"
  BY DEF HeapAt
<1>2. at' = "handle" /\ heap' = Alloc(heap, msgObj)
  BY DEF parse_ok
<1>3. msgObj \in Objects
  BY ObjectsAre DEF Variables
<1>4. /\ heap' \in Heap(Objects) /\ ~heap'.fault /\ Root(heap', msgObj)
      /\ \A o \in Objects \ {msgObj} : heap'.state[o] = "null"
  <2>1. heap \in Heap(Objects) /\ ~heap.fault /\ heap.state[msgObj] # "live"
    BY <1>1, <1>3 DEF Sound
  <2>2. /\ heap' \in Heap(Objects) /\ ~heap'.fault
        /\ \A x \in Objects :
              /\ heap'.state[x] = IF x = msgObj THEN "live" ELSE heap.state[x]
              /\ heap'.under[x] = IF x = msgObj THEN NoOwner ELSE heap.under[x]
    BY ONLY <1>2, <1>3, <2>1, AllocIs
  <2> QED BY ONLY <1>1, <1>3, <2>2 DEF Root
<1> QED BY <1>2, <1>4, AtStart DEF Only, Clean, Sound

(* The message, and the response if there is one, are deleted.             *)
LEMMA ReturnHeap ==
    ASSUME HeapAt("done", ix, heap), no_response \/ respond
    PROVE  HeapAt(at', ix', heap')
<1> DEFINE S == IF heap.state[env] = "live" THEN {msgObj, env} ELSE {msgObj}
           d == Delete(heap, S)
<1>1. at' = "idle" /\ heap' = Return(d)
  BY DEF no_response, respond, Answered
<1>0. /\ Clean(heap)
      /\ heap.state[env] = "live" => heap.under[env] = NoOwner
      /\ \A o \in Objects \ {msgObj} : heap.state[o] = "live" =>
            heap.state[env] = "live" /\ env \in Owners(heap, o)
  BY DEF HeapAt
<1>2. heap \in Heap(Objects) /\ ~heap.fault /\ Root(heap, msgObj)
  BY <1>0 DEF Clean, Sound
<1>3. msgObj \in Objects /\ env \in Objects /\ S \in SUBSET Objects
  BY ObjectsAre DEF Variables
<1>4. \A r \in S : RootOrNull(heap, r)
  BY <1>0, <1>2 DEF RootOrNull, Root
<1>5. \A o \in Objects : heap.state[o] = "live" =>
         \E r \in S : heap.state[r] = "live" /\ r \in Owners(heap, o)
  BY <1>0, <1>2, <1>3, OwnersAre DEF Root
<1> HIDE DEF S
<1>6. d \in Heap(Objects) /\ ~d.fault /\ \A o \in Objects : d.state[o] # "live"
  BY <1>2, <1>3, <1>4, <1>5, DeleteIs
<1>7. \A o \in Objects : d.state[o] \in {"null", "live", "freed"}
  BY <1>6, HeapIs
<1> HIDE DEF d
<1>8. Sound(heap') /\ \A o \in Objects : heap'.state[o] = "null"
  BY <1>1, <1>6, <1>7, ReturnIs DEF Sound
<1> QED BY <1>1, <1>8 DEF HeapAt

----------------------------------------------------------------------------
(* The steps of the core keep its invariant.                               *)

(* At every place the heap is a heap, and is not faulty.                   *)
LEMMA SoundAt ==
    ASSUME NEW a \in Places, NEW n, NEW h, HeapAt(a, n, h)
    PROVE  Sound(h)
BY DEF HeapAt, Places, Only, Clean

(* Every step of the core leaves the heap as its next one expects it.      *)
LEMMA CoreHeap ==
    ASSUME CoreTypeOK, HeapAt(at, ix, heap), CoreStep
    PROVE  HeapAt(at', ix', heap')
<1>1. msg \in Message /\ ix \in 1..ToolCount + 1
  BY DEF CoreTypeOK
<1> QED BY <1>1, RefuseHeap, HandleInitializeHeap, HandleToolsListHeap, ListToolHeap,
           ListEndHeap, CallArgsHeap, CallContentHeap, HandlerHeap, HandlerReturnsHeap,
           CallResultHeap, CallErrorItemHeap, CallAttachHeap, CallIsErrorHeap,
           MakeResultHeap, MakeErrorHeap
        DEF CoreStep

(* A set of calls has a last one.                                          *)
LEMMA LastIs ==
    ASSUME NEW n \in Nat, NEW S \in SUBSET (1..n), S # {}
    PROVE  Max(S) \in S /\ \A y \in S : Max(S) >= y
<1> DEFINE D == {n - x : x \in S}
<1>1. D \in SUBSET Nat /\ D # {}
  <2>1. \A x \in S : n - x \in Nat
    OBVIOUS
  <2> QED BY <2>1
<1>2. PICK d \in D : \A e \in D : d <= e
  <2>1. IsWellFoundedOn(OpToRel(<, Nat), Nat)
    BY NatLessThanWellFounded, Zenon DEF OpToRel
  <2>2. \E d \in D : \A e \in D : <<e, d>> \notin OpToRel(<, Nat)
    BY <1>1, <2>1, WFMin, Zenon
  <2>3. PICK d \in D : \A e \in D : <<e, d>> \notin OpToRel(<, Nat)
    BY <2>2
  <2>4. d \in Nat /\ \A e \in D : e \in Nat
    BY <1>1
  <2>5. \A e \in D : ~(e < d)
    <3> SUFFICES ASSUME NEW e \in D, e < d PROVE FALSE
      OBVIOUS
    <3>1. <<e, d>> \in OpToRel(<, Nat)
      BY <2>4 DEF OpToRel
    <3> QED BY <2>3, <3>1
  <2> HIDE DEF D
  <2>6. \A e \in D : d <= e
    BY <2>4, <2>5
  <2> QED BY <2>6
<1>3. PICK x \in S : d = n - x
  OBVIOUS
<1>4. \A y \in S : x >= y
  <2> SUFFICES ASSUME NEW y \in S PROVE x >= y
    OBVIOUS
  <2>1. n - x <= n - y
    BY <1>2, <1>3
  <2>2. n \in Int /\ x \in Int /\ y \in Int
    OBVIOUS
  <2> HIDE DEF D
  <2> QED BY <2>1, <2>2, SMT
<1> QED BY <1>4 DEF Max

(* What the error says of a call is one of the texts.                      *)
LEMMA ErrorTextIs ==
    ASSUME calls \in Seq(BuilderCall)
    PROVE  ErrorTexts \in Texts
<1>1. Len(calls) \in Nat /\ DOMAIN calls = 1..Len(calls)
  OBVIOUS
<1>2. CASE Errors = {}
  BY <1>2 DEF ErrorTexts, Texts
<1>3. CASE Errors # {}
  <2>1. Errors \in SUBSET (1..Len(calls))
    BY <1>1 DEF Errors
  <2>2. Max(Errors) \in 1..Len(calls)
    BY <1>1, <1>3, <2>1, LastIs
  <2>3. calls[Max(Errors)] \in BuilderCall
    BY <1>1, <2>2
  <2>4. ErrorTexts = calls[Max(Errors)].text
    BY <1>3 DEF ErrorTexts
  <2> QED BY <2>3, <2>4 DEF BuilderCall
<1> QED BY <1>2, <1>3

(* Sequences stay what they are sequences of.                              *)
LEMMA SeqGrows ==
    ASSUME NEW T, NEW s \in Seq(T), NEW e \in T
    PROVE  /\ Append(s, e) \in Seq(T) /\ Len(Append(s, e)) = Len(s) + 1
           /\ Append(s, e)[Len(s) + 1] = e
           /\ \A i \in 1..Len(s) : Append(s, e)[i] = s[i]
OBVIOUS

(* The empty sequence is a sequence of anything.                           *)
LEMMA NoneIsSeq ==
    ASSUME NEW T
    PROVE  <<>> \in Seq(T)
OBVIOUS

(* The steps that leave alone what tools/call keeps, and the response.     *)
PlainStep ==
    \/ refuse \/ ignore_notification \/ dispatch
    \/ handle_initialize \/ handle_ping
    \/ handle_tools_list \/ list_tool \/ list_end
    \/ call_refused \/ call_args
    \/ call_result \/ call_attach \/ call_is_error

(* Every step of the core keeps its types.                                 *)
LEMMA CoreTypes ==
    ASSUME CoreTypeOK, HeapAt(at, ix, heap), CoreStep, UNCHANGED faults
    PROVE  CoreTypeOK'
<1>0. /\ items \in Seq(Texts) /\ is_error \in BOOLEAN /\ calls \in Seq(BuilderCall)
      /\ failed \in BOOLEAN /\ response \in Response /\ ToolCount \in Nat
      /\ ix \in 1..ToolCount + 1 /\ code \in Codes /\ initialized \in BOOLEAN
      /\ faults' = faults /\ faults \in BOOLEAN
  BY CoreBounds DEF CoreTypeOK
<1>1. msg' = msg /\ msg \in Message /\ initialized' \in BOOLEAN
  BY <1>0 DEF CoreTypeOK, CoreStep, refuse, ignore_notification, dispatch,
              handle_initialize, handle_ping,
         handle_tools_list, list_tool, list_end, call_refused, call_args, call_content,
         mcp_tool_response_add_text, mcp_tool_response_set_error, handler_returns,
         call_result, call_error_item, call_attach, call_is_error, make_result, make_error
<1>2. at' \in Places
  <2>1. CASE dispatch
    BY <1>1, <2>1 DEF dispatch, IsRequest, Valid, Places, Message, Methods
  <2>2. CASE mcp_tool_response_add_text \/ mcp_tool_response_set_error \/ list_tool
    BY <2>2 DEF mcp_tool_response_add_text, mcp_tool_response_set_error, list_tool, oom,
         fail, Places
  <2>3. CASE ~dispatch /\ ~mcp_tool_response_add_text /\ ~mcp_tool_response_set_error
             /\ ~list_tool
    BY <2>3 DEF CoreStep, refuse, ignore_notification, handle_initialize, handle_ping,
         handle_tools_list, list_end, call_refused, call_args, call_content,
         handler_returns, call_result, call_error_item, call_attach, call_is_error,
         make_result, make_error, fail, oom, Places
  <2> QED BY <2>1, <2>2, <2>3
<1>3. code' \in Codes
  BY <1>0 DEF CoreStep, refuse, ignore_notification, dispatch, handle_initialize,
              handle_ping,
         handle_tools_list, list_tool, list_end, call_refused, call_args, call_content,
         mcp_tool_response_add_text, mcp_tool_response_set_error, handler_returns,
         call_result, call_error_item, call_attach, call_is_error, make_result, make_error,
         fail, oom, Codes
<1>4. ix' \in 1..ToolCount + 1
  <2>1. CASE handle_tools_list
    BY <1>0, <2>1 DEF handle_tools_list
  <2>2. CASE list_tool
    BY <1>0, <2>2 DEF list_tool
  <2>3. CASE ~handle_tools_list /\ ~list_tool
    BY <1>0, <2>3 DEF CoreStep, refuse, ignore_notification, dispatch,
                      handle_initialize,
         handle_ping, list_end, call_refused, call_args, call_content,
         mcp_tool_response_add_text, mcp_tool_response_set_error, handler_returns,
         call_result, call_error_item, call_attach, call_is_error, make_result, make_error
  <2> QED BY <2>1, <2>2, <2>3
<1>5. heap' \in Heap(Objects)
  BY <1>2, CoreHeap, SoundAt DEF Sound
<1>6. /\ items' \in Seq(Texts) /\ is_error' \in BOOLEAN /\ calls' \in Seq(BuilderCall)
      /\ failed' \in BOOLEAN /\ response' \in Response
  <2>1. CASE PlainStep
    BY <1>0, <2>1 DEF PlainStep, callVars, refuse, ignore_notification, dispatch,
         handle_initialize, handle_ping, handle_tools_list, list_tool, list_end,
         call_refused, call_args, call_result, call_attach, call_is_error
  <2>2. CASE call_content
    <3>1. items' = <<>> /\ is_error' = FALSE /\ calls' = <<>> /\ failed' = FALSE
          /\ response' = response
      BY <2>2 DEF call_content
    <3>2. <<>> \in Seq(Texts) /\ <<>> \in Seq(BuilderCall)
      BY NoneIsSeq
    <3> QED BY <1>0, <3>1, <3>2
  <2>3. CASE mcp_tool_response_add_text
    <3>1. PICK stored \in Allocates, text \in ToolTexts :
             /\ items' = IF stored THEN Append(items, text) ELSE items
             /\ calls' = Append(calls, [add |-> TRUE, text |-> text, stored |-> stored])
      BY <2>3 DEF mcp_tool_response_add_text
    <3>2. text \in Texts /\ stored \in BOOLEAN
      BY DEF Texts, Allocates
    <3>3. [add |-> TRUE, text |-> text, stored |-> stored] \in BuilderCall
      BY <3>2 DEF BuilderCall
    <3>4. UNCHANGED <<is_error, failed, response>>
      BY <2>3 DEF mcp_tool_response_add_text
    <3>5. Append(items, text) \in Seq(Texts)
      BY <1>0, <3>2, SeqGrows, Zenon
    <3>6. calls' \in Seq(BuilderCall)
      BY <1>0, <3>1, <3>3, SeqGrows, Zenon
    <3> QED BY <1>0, <3>1, <3>4, <3>5, <3>6
  <2>4. CASE mcp_tool_response_set_error
    <3>1. PICK stored \in Allocates, text \in {"message", "empty"} :
             calls' = Append(calls, [add |-> FALSE, text |-> text, stored |-> stored])
      BY <2>4 DEF mcp_tool_response_set_error
    <3>2. text \in Texts /\ stored \in BOOLEAN
      BY DEF Texts, Allocates
    <3>3. [add |-> FALSE, text |-> text, stored |-> stored] \in BuilderCall
      BY <3>2 DEF BuilderCall
    <3>4. UNCHANGED <<items, failed, response>> /\ is_error' = TRUE
      BY <2>4 DEF mcp_tool_response_set_error, set_error
    <3>5. calls' \in Seq(BuilderCall)
      BY <1>0, <3>1, <3>3, SeqGrows, Zenon
    <3> QED BY <1>0, <3>4, <3>5
  <2>5. CASE handler_returns
    <3>1. UNCHANGED <<items, calls, response>> /\ failed' \in BOOLEAN
          /\ is_error' \in {is_error, TRUE}
      BY <2>5 DEF handler_returns, set_error
    <3> QED BY <1>0, <3>1
  <2>6. CASE call_error_item
    <3>1. UNCHANGED <<is_error, calls, failed, response>>
      BY <2>6 DEF call_error_item
    <3>2. items' = items \/ \E text \in {ErrorTexts, "tool error"} : items' = <<text>> \o items
      BY <2>6 DEF call_error_item
    <3>3. \A text \in {ErrorTexts, "tool error"} : text \in Texts
      BY <1>0, ErrorTextIs DEF Texts
    <3>4. items' \in Seq(Texts)
      <4>1. \A text \in Texts : <<text>> \o items \in Seq(Texts)
        BY <1>0
      <4> QED BY <1>0, <3>2, <3>3, <4>1
    <3> QED BY <1>0, <3>1, <3>4
  <2>7. CASE make_result
    <3>1. UNCHANGED <<items, is_error, calls, failed>>
      BY <2>7 DEF make_result, callVars
    <3>2. \/ UNCHANGED response
          \/ response' = [id |-> clone_id, code |-> 0,
                          isError |-> msg.method = "tools/call" /\ is_error,
                          content |-> IF msg.method = "tools/call" THEN items ELSE <<>>]
      BY <2>7 DEF make_result
    <3>3. clone_id \in {"value", "null"} /\ 0 \in Codes
      BY DEF clone_id, Codes
    <3>4. \A c \in Seq(Texts), e \in BOOLEAN :
             [id |-> clone_id, code |-> 0, isError |-> e, content |-> c] \in Response
      BY <3>3 DEF Response
    <3>5. (IF msg.method = "tools/call" THEN items ELSE <<>>) \in Seq(Texts)
      BY <1>0
    <3>6. (msg.method = "tools/call" /\ is_error) \in BOOLEAN
      OBVIOUS
    <3>7. [id |-> clone_id, code |-> 0, isError |-> msg.method = "tools/call" /\ is_error,
           content |-> IF msg.method = "tools/call" THEN items ELSE <<>>] \in Response
      BY <3>4, <3>5, <3>6, Zenon
    <3>8. response' \in Response
      BY <1>0, <3>2, <3>7
    <3> QED BY <1>0, <3>1, <3>8
  <2>8. CASE make_error
    <3>1. UNCHANGED <<items, is_error, calls, failed>>
      BY <2>8 DEF make_error, callVars
    <3>2. \/ UNCHANGED response
          \/ response' = [id |-> clone_id, code |-> code, isError |-> FALSE,
                          content |-> <<>>]
      BY <2>8 DEF make_error
    <3>3. clone_id \in {"value", "null"} /\ code \in Codes /\ <<>> \in Seq(Texts)
      BY <1>0, NoneIsSeq DEF clone_id
    <3>4. \A i \in {"value", "null"}, c \in Codes, t \in Seq(Texts) :
             [id |-> i, code |-> c, isError |-> FALSE, content |-> t] \in Response
      BY DEF Response
    <3>5. [id |-> clone_id, code |-> code, isError |-> FALSE, content |-> <<>>] \in Response
      BY <3>3, <3>4
    <3>6. response' \in Response
      BY <1>0, <3>2, <3>5
    <3> QED BY <1>0, <3>1, <3>6
  <2> QED BY <2>1, <2>2, <2>3, <2>4, <2>5, <2>6, <2>7, <2>8 DEF CoreStep, PlainStep
<1> QED BY <1>0, <1>1, <1>2, <1>3, <1>4, <1>5, <1>6 DEF CoreTypeOK

(* The steps of the core leave the message alone.                          *)
LEMMA MessageStays ==
    ASSUME CoreStep
    PROVE  msg' = msg
BY DEF CoreStep, refuse, ignore_notification, dispatch, handle_initialize, handle_ping,
       handle_tools_list, list_tool, list_end, call_refused, call_args, call_content,
       mcp_tool_response_add_text, mcp_tool_response_set_error, handler_returns,
       call_result, call_error_item, call_attach, call_is_error, make_result, make_error

(* Only handle_initialize sets the flag, and it does not reset it.         *)
LEMMA InitializedStays ==
    ASSUME CoreTypeOK, CoreStep
    PROVE  /\ initialized => initialized'
           /\ at # "initialize" => initialized' = initialized
BY DEF CoreTypeOK,
       CoreStep, refuse, ignore_notification, dispatch, handle_initialize, handle_ping,
       handle_tools_list, list_tool, list_end, call_refused, call_args, call_content,
       mcp_tool_response_add_text, mcp_tool_response_set_error, handler_returns,
       call_result, call_error_item, call_attach, call_is_error, make_result, make_error

(* Where a step of the core leads.                                         *)
Leads(a, b) ==
    CASE a \in {"initialize", "ping"} -> b \in {"make_result", "make_error"}
      [] a \in {"tools/list", "list"} -> b \in {"list", "make_result", "make_error"}
      [] a \in ToolPlaces \ {"tools/list", "list"} ->
            b \in (ToolPlaces \ {"tools/list", "list", "tools/call"})
                  \cup {"make_result", "make_error"}
      [] a \in {"make_result", "make_error"} -> b = "done"
      [] OTHER -> FALSE

(* Which step of the core follows which.                                   *)
LEMMA CoreLeads ==
    ASSUME CoreStep, at # "handle"
    PROVE  Leads(at, at')
BY DEF CoreStep, refuse, ignore_notification, dispatch, handle_initialize, handle_ping,
       handle_tools_list, list_tool, list_end, call_refused, call_args, call_content,
       mcp_tool_response_add_text, mcp_tool_response_set_error, handler_returns,
       call_result, call_error_item, call_attach, call_is_error, make_result, make_error,
       fail, oom, Leads, ToolPlaces

(* What happens to a message that is looked at.                            *)
LEMMA HandleLeads ==
    ASSUME CoreTypeOK, CoreStep, at = "handle"
    PROVE  /\ heap' = heap /\ initialized' = initialized
           /\ \/ /\ at' = "make_error"
                 /\ ~IsNotification(msg)
                 /\ ToolRequest(msg) => (code' = JSONRPC_INVALID_REQUEST /\ ~initialized)
                 /\ ~(IsRequest(msg) /\ msg.method = "initialize")
              \/ at' = "done" /\ IsNotification(msg)
              \/ /\ at' = msg.method /\ IsRequest(msg)
                 /\ at' \in {"initialize", "ping", "tools/list", "tools/call"}
                 /\ at' \in ToolMethods => initialized
<1>1. refuse \/ ignore_notification \/ dispatch
  BY DEF CoreStep, refuse, ignore_notification, dispatch, handle_initialize,
         handle_ping,
       handle_tools_list, list_tool, list_end, call_refused, call_args, call_content,
       mcp_tool_response_add_text, mcp_tool_response_set_error, handler_returns,
       call_result, call_error_item, call_attach, call_is_error, make_result, make_error
<1>2. CASE refuse
  BY <1>2 DEF refuse, fail, NeedsInitialize, IsRequest, IsNotification, ToolRequest,
       ToolMethods, Valid
<1>3. CASE ignore_notification
  BY <1>3 DEF ignore_notification
<1>4. CASE dispatch
  BY <1>4 DEF dispatch, NeedsInitialize, IsRequest, Valid, ToolMethods, CoreTypeOK,
       Message, Methods
<1> QED BY <1>1, <1>2, <1>3, <1>4

(* A handler works on the request that was dispatched to it.               *)
LEMMA CoreDispatched ==
    ASSUME CoreTypeOK, Dispatched, CoreStep
    PROVE  Dispatched'
<1>1. msg' = msg
  BY MessageStays
<1>2. CASE at = "handle"
  BY <1>1, <1>2, HandleLeads DEF Dispatched, ToolPlaces, ToolMethods
<1>3. CASE at # "handle"
  <2>1. Leads(at, at')
    BY <1>3, CoreLeads
  <2>2. at \in Places \ {"idle", "handle", "done"}
    BY <1>3, <2>1 DEF Leads, ToolPlaces, Places
  <2>3. initialized => initialized'
    BY InitializedStays
  <2>4. CASE at \in {"initialize", "ping"}
    BY <1>1, <2>1, <2>4 DEF Dispatched, Leads, ToolPlaces, ToolMethods
  <2>5. CASE at \in {"tools/list", "list"}
    BY <1>1, <2>1, <2>3, <2>5 DEF Dispatched, Leads, ToolPlaces, ToolMethods
  <2>6. CASE at \in ToolPlaces \ {"tools/list", "list"}
    BY <1>1, <2>1, <2>3, <2>6 DEF Dispatched, Leads, ToolPlaces, ToolMethods
  <2>7. CASE at \in {"make_result", "make_error"}
    BY <1>1, <2>1, <2>7 DEF Dispatched, Leads, ToolPlaces, ToolMethods
  <2> QED BY <2>2, <2>4, <2>5, <2>6, <2>7 DEF Places, ToolPlaces
<1> QED BY <1>2, <1>3

(* No handler refuses a request as invalid.                                *)
LEMMA HandlersCodes ==
    ASSUME CoreStep, at # "handle", at' = "make_error"
    PROVE  code' # JSONRPC_INVALID_REQUEST
<1>1. code' \in {JSONRPC_METHOD_NOT_FOUND, JSONRPC_INVALID_PARAMS, JSONRPC_INTERNAL_ERROR}
  BY DEF CoreStep, refuse, ignore_notification, dispatch, handle_initialize,
         handle_ping,
       handle_tools_list, list_tool, list_end, call_refused, call_args, call_content,
       mcp_tool_response_add_text, mcp_tool_response_set_error, handler_returns,
       call_result, call_error_item, call_attach, call_is_error, make_result, make_error,
       fail, oom
<1> QED BY <1>1 DEF JSONRPC_INVALID_REQUEST, JSONRPC_INVALID_PARAMS,
                JSONRPC_METHOD_NOT_FOUND, JSONRPC_INTERNAL_ERROR

(* What is answered fits the message.                                      *)
LEMMA CoreAnswers ==
    ASSUME CoreTypeOK, HeapAt(at, ix, heap), Dispatched, RightlyAnswered, CoreStep,
           UNCHANGED faults
    PROVE  RightlyAnswered'
<1>1. msg' = msg /\ clone_id' = clone_id
  BY MessageStays DEF clone_id
<1>2. CASE at = "handle"
  <2>1. Only(heap, {})
    BY <1>2, AtStart
  <2>2. heap.state[env] # "live"
    BY <2>1, AtDone
  <2> QED BY <1>1, <1>2, <2>2, HandleLeads DEF RightlyAnswered, Answered
<1>3. CASE at = "make_result"
  <2>1. make_result
    BY <1>3 DEF CoreStep, refuse, ignore_notification, dispatch, handle_initialize,
       handle_ping,
       handle_tools_list, list_tool, list_end, call_refused, call_args, call_content,
       mcp_tool_response_add_text, mcp_tool_response_set_error, handler_returns,
       call_result, call_error_item, call_attach, call_is_error, make_result, make_error
  <2>2. /\ at' = "done" /\ initialized' = initialized
        /\ \/ /\ heap' = Attach(Alloc(heap, env), result, env)
              /\ response'.id = clone_id /\ response'.code = 0
           \/ /\ faults
              /\ heap' \in {Delete(heap, {result}),
                            Delete(Alloc(heap, env), {result, env})}
    BY <2>1 DEF make_result
  <2>3. /\ heap' = Attach(Alloc(heap, env), result, env) => Answered'
        /\ heap' \in {Delete(heap, {result}), Delete(Alloc(heap, env), {result, env})} =>
              ~Answered'
    BY <2>1, MakeResultHeap DEF Answered
  <2>4. IsRequest(msg) /\ (msg.method \in ToolMethods => initialized)
    BY <1>3 DEF Dispatched
  <2>5. 0 # JSONRPC_INVALID_REQUEST /\ ~IsNotification(msg)
    BY <2>4 DEF JSONRPC_INVALID_REQUEST, IsNotification, IsRequest
  <2> QED BY <1>1, <2>2, <2>3, <2>4, <2>5 DEF RightlyAnswered, ToolRequest
<1>4. CASE at = "make_error"
  <2>1. make_error
    BY <1>4 DEF CoreStep, refuse, ignore_notification, dispatch, handle_initialize,
       handle_ping,
       handle_tools_list, list_tool, list_end, call_refused, call_args, call_content,
       mcp_tool_response_add_text, mcp_tool_response_set_error, handler_returns,
       call_result, call_error_item, call_attach, call_is_error, make_result, make_error
  <2>2. /\ at' = "done" /\ initialized' = initialized
        /\ \/ /\ heap' = Alloc(heap, env)
              /\ response'.id = clone_id /\ response'.code = code
           \/ faults /\ heap' = Delete(Alloc(heap, env), {env})
    BY <2>1 DEF make_error
  <2>3. /\ heap' = Alloc(heap, env) => Answered'
        /\ heap' = Delete(Alloc(heap, env), {env}) => ~Answered'
    BY <2>1, MakeErrorHeap DEF Answered
  <2>4. ~IsNotification(msg)
        /\ (ToolRequest(msg) => (code = JSONRPC_INVALID_REQUEST <=> ~initialized))
    BY <1>4 DEF RightlyAnswered
  <2> QED BY <1>1, <2>2, <2>3, <2>4 DEF RightlyAnswered
<1>5. CASE at \notin {"handle", "make_result", "make_error"}
  <2>1. Leads(at, at') /\ at' # "done"
    BY <1>5, CoreLeads DEF Leads, ToolPlaces
  <2>2. CASE at' = "make_error"
    <3>1. code' # JSONRPC_INVALID_REQUEST
      BY <1>5, <2>2, HandlersCodes
    <3>2. IsRequest(msg) /\ (ToolRequest(msg) => initialized)
      BY <1>5, <2>1 DEF Dispatched, Leads, ToolPlaces, ToolRequest, ToolMethods
    <3>3. ~IsNotification(msg) /\ (initialized => initialized')
      BY <3>2, InitializedStays DEF IsNotification, IsRequest
    <3> QED BY <1>1, <2>2, <3>1, <3>2, <3>3 DEF RightlyAnswered
  <2> QED BY <2>1, <2>2 DEF RightlyAnswered
<1> QED BY <1>2, <1>3, <1>4, <1>5

----------------------------------------------------------------------------
(* What the calls of the response builder amount to.                       *)

(* The calls that added a text can be counted.                             *)
LEMMA AddedIs ==
    ASSUME NEW c, NEW n \in Nat
    PROVE  /\ AddedBy(c, n) \in SUBSET (1..n) /\ IsFiniteSet(AddedBy(c, n))
           /\ Cardinality(AddedBy(c, n)) \in Nat
<1>1. AddedBy(c, n) \in SUBSET (1..n)
  BY DEF AddedBy
<1>2. IsFiniteSet(1..n)
  BY FS_Interval
<1>3. IsFiniteSet(AddedBy(c, n))
  BY <1>1, <1>2, FS_Subset
<1> QED BY <1>1, <1>3, FS_CardinalityType

(* A call that added one comes after at least as many as it counts.        *)
LEMMA RankIs ==
    ASSUME NEW c, NEW n \in Nat, NEW i \in AddedBy(c, n)
    PROVE  Cardinality(AddedBy(c, i)) \in 1..Cardinality(AddedBy(c, n))
<1>1. i \in 1..n /\ i \in Nat /\ i \in AddedBy(c, i)
  BY DEF AddedBy
<1>2. AddedBy(c, i) \in SUBSET AddedBy(c, n)
  BY <1>1 DEF AddedBy
<1>3. Cardinality(AddedBy(c, i)) <= Cardinality(AddedBy(c, n))
  BY <1>2, AddedIs, FS_Subset
<1>4. Cardinality(AddedBy(c, i)) # 0
  BY <1>1, AddedIs, FS_EmptySet
<1> QED BY <1>1, <1>3, <1>4, AddedIs

(* One more call.                                                          *)
LEMMA AddedGrows ==
    ASSUME NEW c \in Seq(BuilderCall), NEW e \in BuilderCall
    PROVE  LET d == Append(c, e)
               n == Len(c)
           IN  /\ Len(d) = n + 1
               /\ \A k \in 0..n : AddedBy(d, k) = AddedBy(c, k)
               /\ AddedBy(d, n + 1) = IF e.add /\ e.stored
                                      THEN AddedBy(c, n) \cup {n + 1} ELSE AddedBy(c, n)
               /\ ErrorsOf(c) \in SUBSET (1..n)
               /\ ErrorsOf(d) = IF e.add THEN ErrorsOf(c) ELSE ErrorsOf(c) \cup {n + 1}
               /\ d[n + 1] = e /\ \A i \in 1..n : d[i] = c[i]
<1> DEFINE d == Append(c, e)
           n == Len(c)
<1>1. /\ n \in Nat /\ Len(d) = n + 1 /\ d[n + 1] = e
      /\ \A i \in 1..n : d[i] = c[i]
      /\ DOMAIN d = 1..n + 1 /\ DOMAIN c = 1..n
  OBVIOUS
<1> HIDE DEF d, n
<1>2. \A k \in 0..n : AddedBy(d, k) = AddedBy(c, k)
  BY <1>1 DEF AddedBy
<1>3. \A i \in 1..n + 1 : i = n + 1 \/ i \in 1..n
  BY <1>1
<1>4. AddedBy(d, n + 1) = IF e.add /\ e.stored
                          THEN AddedBy(c, n) \cup {n + 1} ELSE AddedBy(c, n)
  BY <1>1, <1>3 DEF AddedBy
<1>5. ErrorsOf(d) = IF e.add THEN ErrorsOf(c) ELSE ErrorsOf(c) \cup {n + 1}
  BY <1>1, <1>3 DEF ErrorsOf
<1>6. ErrorsOf(c) \in SUBSET (1..n)
  BY <1>1 DEF ErrorsOf
<1> QED BY <1>1, <1>2, <1>4, <1>5, <1>6 DEF d, n

(* A text that was added is the last one; one that was not is not there.   *)
LEMMA HoldsGrows ==
    ASSUME NEW c \in Seq(BuilderCall), NEW e \in BuilderCall,
           NEW its \in Seq(Texts), Holds(its, c, 0)
    PROVE  Holds(IF e.add /\ e.stored THEN Append(its, e.text) ELSE its, Append(c, e), 0)
<1> DEFINE d == Append(c, e)
           n == Len(c)
           m == Cardinality(AddedBy(c, n))
           more == IF e.add /\ e.stored THEN Append(its, e.text) ELSE its
           rank(i) == Cardinality(AddedBy(d, i))
<1>1. /\ n \in Nat /\ Len(d) = n + 1 /\ d[n + 1] = e
      /\ \A k \in 0..n : AddedBy(d, k) = AddedBy(c, k)
      /\ AddedBy(d, n + 1) = IF e.add /\ e.stored
                             THEN AddedBy(c, n) \cup {n + 1} ELSE AddedBy(c, n)
      /\ \A i \in 1..n : d[i] = c[i]
  <2>1. n \in Nat
    OBVIOUS
  <2> QED BY <2>1, AddedGrows
<1>2. /\ AddedBy(c, n) \in SUBSET (1..n) /\ IsFiniteSet(AddedBy(c, n)) /\ m \in Nat
      /\ Len(its) = m
      /\ \A i \in AddedBy(c, n) : its[Cardinality(AddedBy(c, i))] = c[i].text
  <2>1. AddedBy(c, n) \in SUBSET (1..n) /\ IsFiniteSet(AddedBy(c, n)) /\ m \in Nat
    BY <1>1, AddedIs
  <2>2. \A i \in AddedBy(c, n) : Cardinality(AddedBy(c, i)) \in Nat
    <3>1. \A i \in AddedBy(c, n) : i \in Nat
      BY <1>1, <2>1
    <3> QED BY <3>1, AddedIs
  <2>3. /\ Len(its) = m + 0
        /\ \A i \in AddedBy(c, n) : its[Cardinality(AddedBy(c, i)) + 0] = c[i].text
    BY DEF Holds
  <2>4. \A k \in Nat : k + 0 = k
    OBVIOUS
  <2>5. Len(its) = m
    BY <2>1, <2>3, <2>4, Zenon
  <2>6. \A i \in AddedBy(c, n) : its[Cardinality(AddedBy(c, i))] = c[i].text
    BY <2>2, <2>3, <2>4, Zenon
  <2> QED BY <2>1, <2>5, <2>6, Zenon
<1>3. \A i \in AddedBy(c, n) : rank(i) \in 1..m /\ its[rank(i)] = d[i].text
  <2> SUFFICES ASSUME NEW i \in AddedBy(c, n)
               PROVE  rank(i) \in 1..m /\ its[rank(i)] = d[i].text
    OBVIOUS
  <2>1. i \in 1..n /\ i \in 0..n
    BY <1>2
  <2>2. AddedBy(d, i) = AddedBy(c, i) /\ d[i] = c[i]
    BY <1>1, <2>1
  <2> QED BY <1>1, <1>2, <2>2, RankIs
<1>4. CASE e.add /\ e.stored
  <2>1. n + 1 \notin AddedBy(c, n)
    BY <1>1, <1>2
  <2>2. Cardinality(AddedBy(d, n + 1)) = m + 1
    BY <1>1, <1>2, <1>4, <2>1, FS_AddElement
  <2>3. /\ Len(more) = m + 1 /\ more[m + 1] = e.text
        /\ \A k \in 1..m : more[k] = its[k]
    <3>1. e.text \in Texts
      BY DEF BuilderCall
    <3> QED BY <1>2, <1>4, <3>1
  <2> HIDE DEF more, m, n, d
  <2>4. \A i \in AddedBy(d, n + 1) : more[Cardinality(AddedBy(d, i))] = d[i].text
    <3>1. \A i \in AddedBy(c, n) : more[Cardinality(AddedBy(d, i))] = d[i].text
      BY <1>3, <2>3
    <3>2. more[Cardinality(AddedBy(d, n + 1))] = d[n + 1].text
      BY <1>1, <2>2, <2>3
    <3> QED BY <1>1, <1>4, <3>1, <3>2
  <2>5. \A i \in AddedBy(d, n + 1) : Cardinality(AddedBy(d, i)) + 0 = Cardinality(AddedBy(d, i))
    <3>1. \A i \in AddedBy(d, n + 1) : i \in Nat
      BY <1>1, AddedIs
    <3> QED BY <3>1, AddedIs
  <2>6. Holds(more, d, 0)
    BY <1>1, <1>2, <2>2, <2>3, <2>4, <2>5 DEF Holds
  <2> QED BY <2>6 DEF more, d
<1>5. CASE ~(e.add /\ e.stored)
  <2>1. more = its /\ AddedBy(d, n + 1) = AddedBy(c, n)
    BY <1>1, <1>5
  <2> HIDE DEF more, m, n, d
  <2>2. \A i \in AddedBy(d, n + 1) : more[Cardinality(AddedBy(d, i)) + 0] = d[i].text
    BY <1>3, <2>1 DEF m
  <2>3. Len(more) = Cardinality(AddedBy(d, n + 1)) + 0
    BY <1>2, <2>1 DEF m
  <2>4. Holds(more, d, 0)
    BY <1>1, <2>2, <2>3 DEF Holds
  <2> QED BY <2>4 DEF more, d
<1> QED BY <1>4, <1>5

(* The error before them shifts the texts by one.                          *)
LEMMA HoldsShifts ==
    ASSUME NEW c \in Seq(BuilderCall), NEW its \in Seq(Texts), NEW t \in Texts,
           Holds(its, c, 0)
    PROVE  Holds(<<t>> \o its, c, 1) /\ (<<t>> \o its)[1] = t
<1> DEFINE more == <<t>> \o its
           m == Cardinality(AddedBy(c, Len(c)))
<1>1. Len(c) \in Nat /\ m \in Nat /\ Len(its) = m
  <2>1. Len(c) \in Nat
    OBVIOUS
  <2> QED BY <2>1, AddedIs DEF Holds
<1>2. Len(more) = m + 1 /\ more[1] = t /\ \A k \in 1..m : more[k + 1] = its[k]
  BY <1>1
<1>3. \A i \in AddedBy(c, Len(c)) :
         Cardinality(AddedBy(c, i)) \in 1..m /\ its[Cardinality(AddedBy(c, i))] = c[i].text
  <2>1. \A i \in AddedBy(c, Len(c)) : Cardinality(AddedBy(c, i)) \in 1..m
    BY <1>1, RankIs
  <2> QED BY <1>1, <2>1 DEF Holds
<1> HIDE DEF more, m
<1>4. Holds(more, c, 1)
  <2>1. \A i \in AddedBy(c, Len(c)) : more[Cardinality(AddedBy(c, i)) + 1] = c[i].text
    BY <1>2, <1>3
  <2> QED BY <1>2, <2>1 DEF Holds, m
<1> QED BY <1>2, <1>4 DEF more

(* Nothing was called yet.                                                 *)
LEMMA NothingCalled ==
    /\ Holds(<<>>, <<>>, 0) /\ Shift(<<>>, FALSE) = 0 /\ ErrorsOf(<<>>) = {}
    /\ \A h, w : MessageKept(h, <<>>, FALSE, w)
<1>1. Len(<<>>) = 0 /\ DOMAIN <<>> = {}
  OBVIOUS
<1>2. ErrorsOf(<<>>) = {}
  BY <1>1 DEF ErrorsOf
<1>3. AddedBy(<<>>, 0) = {}
  BY DEF AddedBy
<1>4. Holds(<<>>, <<>>, 0)
  BY <1>1, <1>3, FS_EmptySet DEF Holds
<1> QED BY <1>2, <1>4 DEF Shift, MessageKept

(* An error that is set is the last one; a text that is added is none.     *)
LEMMA ErrorsGrow ==
    ASSUME NEW c \in Seq(BuilderCall), NEW e \in BuilderCall
    PROVE  LET d == Append(c, e)
           IN  /\ e.add => /\ ErrorsOf(d) = ErrorsOf(c)
                           /\ ErrorsOf(c) # {} =>
                                 d[Max(ErrorsOf(d))] = c[Max(ErrorsOf(c))]
               /\ ~e.add => ErrorsOf(d) # {} /\ d[Max(ErrorsOf(d))] = e
<1> DEFINE d == Append(c, e)
           n == Len(c)
<1>1. /\ n \in Nat /\ d[n + 1] = e /\ \A i \in 1..n : d[i] = c[i]
      /\ ErrorsOf(c) \in SUBSET (1..n)
      /\ ErrorsOf(d) = IF e.add THEN ErrorsOf(c) ELSE ErrorsOf(c) \cup {n + 1}
  <2>1. n \in Nat
    OBVIOUS
  <2> QED BY <2>1, AddedGrows
<1> HIDE DEF d, n
<1>2. CASE e.add
  <2>1. ErrorsOf(d) = ErrorsOf(c)
    BY <1>1, <1>2
  <2>2. ASSUME ErrorsOf(c) # {} PROVE Max(ErrorsOf(c)) \in 1..n
    BY <1>1, <2>2, LastIs
  <2> QED BY <1>1, <1>2, <2>1, <2>2 DEF d
<1>3. CASE ~e.add
  <2> DEFINE S == ErrorsOf(d)
  <2>1. S = ErrorsOf(c) \cup {n + 1}
    BY <1>1, <1>3
  <2>2. S \in SUBSET (1..n + 1) /\ S # {} /\ n + 1 \in S /\ n + 1 \in Nat
    <3> DEFINE T == ErrorsOf(c)
    <3>1. T \in SUBSET (1..n) /\ S = T \cup {n + 1} /\ n \in Nat
      BY <1>1, <2>1
    <3> HIDE DEF S, T
    <3> QED BY <3>1
  <2> HIDE DEF S
  <2>3. Max(S) \in S /\ \A y \in S : Max(S) >= y
    BY <2>2, LastIs
  <2>4. Max(S) \in 1..n + 1 /\ Max(S) >= n + 1
    BY <2>2, <2>3
  <2>5. Max(S) = n + 1
    BY <1>1, <2>4
  <2> QED BY <1>1, <1>3, <2>2, <2>5 DEF S, d
<1> QED BY <1>2, <1>3

----------------------------------------------------------------------------
(* The core collects the handler's calls.                                  *)

(* The steps that come before the handler or have nothing to do with it.   *)
ApartStep ==
    \/ refuse \/ ignore_notification \/ dispatch
    \/ handle_initialize \/ handle_ping
    \/ handle_tools_list \/ list_tool \/ list_end
    \/ call_refused \/ call_args

(* What is said of an error depends on the calls alone.                    *)
LEMMA ErrorToldStays ==
    ASSUME UNCHANGED <<calls, faults>>
    PROVE  ErrorTold' = ErrorTold
BY DEF ErrorTold, Errors

(* Before the handler there is nothing to tell.                            *)
LEMMA ApartCollects ==
    ASSUME CoreTypeOK, HeapAt(at, ix, heap), Dispatched, ApartStep
    PROVE  Collected'
<1>1. msg' = msg
  BY DEF ApartStep, refuse, ignore_notification, dispatch, handle_initialize,
     handle_ping, handle_tools_list, list_tool, list_end, call_refused, call_args
<1>2. CASE at = "handle"
  <2>1. refuse \/ ignore_notification \/ dispatch
    BY <1>2 DEF ApartStep, refuse, ignore_notification, dispatch, handle_initialize,
       handle_ping, handle_tools_list, list_tool, list_end, call_refused, call_args
  <2>2. heap' = heap /\ at' \in {"make_error", "done"} \cup (Methods \ {"other", "none"})
    BY <2>1 DEF refuse, ignore_notification, dispatch, fail, IsRequest, Valid,
       CoreTypeOK, Message, Methods
  <2>3. at' = "make_error" => code' # 0
    BY <2>1, <2>2 DEF refuse, ignore_notification, dispatch, fail, IsRequest, Valid,
       CoreTypeOK, Message, Methods, JSONRPC_INVALID_REQUEST, JSONRPC_METHOD_NOT_FOUND
  <2>4. heap.state[env] # "live"
    BY <1>2, AtStart, AtDone
  <2> QED BY <2>2, <2>3, <2>4 DEF Collected, Methods, Answered
<1>3. CASE at # "handle"
  <2>1. /\ at' \in {"make_result", "make_error", "list", "content"}
        /\ at' = "make_result" => msg.method # "tools/call"
    BY <1>3 DEF ApartStep, refuse, ignore_notification, dispatch, handle_initialize,
       handle_ping, handle_tools_list, list_tool, list_end, call_refused, call_args,
       fail, oom, Dispatched
  <2>2. at' = "make_error" => code' # 0
    BY <1>3 DEF ApartStep, refuse, ignore_notification, dispatch, handle_initialize,
       handle_ping, handle_tools_list, list_tool, list_end, call_refused, call_args,
       fail, oom, JSONRPC_INVALID_PARAMS, JSONRPC_METHOD_NOT_FOUND, JSONRPC_INTERNAL_ERROR
  <2> QED BY <1>1, <2>1, <2>2 DEF Collected
<1> QED BY <1>2, <1>3

(* The handler begins with nothing.                                        *)
LEMMA ContentCollects ==
    ASSUME CoreTypeOK, Collected, call_content
    PROVE  Collected'
<1>1. /\ at' \in {"handler", "make_error"} /\ (at' = "make_error" => code' # 0)
      /\ items' = <<>> /\ is_error' = FALSE /\ calls' = <<>> /\ failed' = FALSE
  BY DEF call_content, fail, oom, JSONRPC_INTERNAL_ERROR
<1>2. Len(calls') <= MaxCalls
  BY <1>1, CoreBounds
<1>3. Holds(items', calls', 0) /\ Shift(calls', failed') = 0
      /\ MessageKept(heap', calls', failed', faults')
  BY <1>1, NothingCalled
<1> QED BY <1>1, <1>2, <1>3 DEF Collected

(* The handler's calls are collected as they come.                         *)
LEMMA HandlerCollects ==
    ASSUME CoreTypeOK, HeapAt(at, ix, heap), Collected, UNCHANGED faults,
           mcp_tool_response_add_text \/ mcp_tool_response_set_error
    PROVE  Collected'
<1>1. /\ items \in Seq(Texts) /\ calls \in Seq(BuilderCall) /\ is_error \in BOOLEAN
      /\ Len(calls) \in Nat /\ MaxCalls \in Nat /\ faults \in BOOLEAN
  BY CoreBounds DEF CoreTypeOK
<1>2. /\ at = "handler" /\ at' = "handler" /\ ~failed /\ failed' = failed
      /\ Len(calls) < MaxCalls
  BY DEF mcp_tool_response_add_text, mcp_tool_response_set_error, Collected
<1>3. /\ is_error <=> Shift(calls, failed) = 1
      /\ Holds(items, calls, 0) /\ MessageKept(heap, calls, failed, faults)
  BY <1>2 DEF Collected
<1>4. CASE mcp_tool_response_add_text
  <2>1. PICK stored \in Allocates, text \in ToolTexts :
           /\ heap' \in TextItem(heap, stored)
           /\ items' = IF stored THEN Append(items, text) ELSE items
           /\ calls' = Append(calls, [add |-> TRUE, text |-> text, stored |-> stored])
    BY <1>4 DEF mcp_tool_response_add_text
  <2> DEFINE e == [add |-> TRUE, text |-> text, stored |-> stored]
  <2>2. e \in BuilderCall /\ e.add /\ e.stored = stored /\ e.text = text
    BY DEF BuilderCall, Texts, Allocates
  <2>3. calls' = Append(calls, e)
        /\ items' = IF e.add /\ e.stored THEN Append(items, e.text) ELSE items
    BY <2>1, <2>2
  <2>4. heap'.state[error_msg] = heap.state[error_msg] /\ is_error' = is_error
    <3>1. /\ Only(heap, {args_empty, content, error_msg}) /\ Root(heap, content)
          /\ RootOrNull(heap, args_empty) /\ RootOrNull(heap, error_msg)
      BY <1>2 DEF HeapAt
    <3>2. \A o \in Objects : heap.state[o] = "live" => heap.under[o] = NoOwner
      BY <3>1 DEF Only, Clean, Root, RootOrNull
    <3>3. item \notin {args_empty, content, error_msg} /\ error_msg \in Objects \ {item}
      BY ObjectsAre, VariablesDiffer DEF Variables
    <3>4. stored \in BOOLEAN
      BY DEF Allocates
    <3> QED BY <1>4, <2>1, <3>1, <3>2, <3>3, <3>4, TextHeap DEF mcp_tool_response_add_text
  <2> HIDE DEF e
  <2>5. Len(calls') = Len(calls) + 1
    BY <1>1, <2>2, <2>3
  <2>6. Holds(items', calls', 0)
    BY <1>1, <1>3, <2>2, <2>3, HoldsGrows
  <2>7. /\ ErrorsOf(calls') = ErrorsOf(calls)
        /\ ErrorsOf(calls) # {} =>
              calls'[Max(ErrorsOf(calls'))] = calls[Max(ErrorsOf(calls))]
    BY <1>1, <2>2, <2>3, ErrorsGrow
  <2>8. Shift(calls', failed') = Shift(calls, failed)
    BY <1>2, <2>7 DEF Shift
  <2>9. MessageKept(heap', calls', failed', faults')
    BY <1>2, <1>3, <2>4, <2>7 DEF MessageKept
  <2> QED BY <1>1, <1>2, <1>3, <2>4, <2>5, <2>6, <2>8, <2>9 DEF Collected
<1>5. CASE mcp_tool_response_set_error
  <2>1. PICK stored \in Allocates, text \in {"message", "empty"} :
           /\ set_error(heap, stored)
           /\ calls' = Append(calls, [add |-> FALSE, text |-> text, stored |-> stored])
    BY <1>5 DEF mcp_tool_response_set_error
  <2> DEFINE e == [add |-> FALSE, text |-> text, stored |-> stored]
  <2>2. e \in BuilderCall /\ ~e.add /\ e.stored = stored /\ stored \in BOOLEAN
    BY DEF BuilderCall, Texts, Allocates
  <2>3. calls' = Append(calls, e)
    BY <2>1
  <2>4. items' = items /\ is_error' = TRUE /\ heap' = ErrorSet(heap, stored)
    BY <1>5, <2>1 DEF mcp_tool_response_set_error, set_error, ErrorSet
  <2> HIDE DEF e
  <2>5. Len(calls') = Len(calls) + 1
    BY <1>1, <2>2, <2>3
  <2>6. Holds(items', calls', 0)
    <3>1. items' = IF e.add /\ e.stored THEN Append(items, e.text) ELSE items
      BY <2>2, <2>4
    <3> QED BY <1>1, <1>3, <2>2, <2>3, <3>1, HoldsGrows
  <2>7. ErrorsOf(calls') # {} /\ calls'[Max(ErrorsOf(calls'))] = e
    BY <1>1, <2>2, <2>3, ErrorsGrow
  <2>8. Shift(calls', failed') = 1
    BY <2>7 DEF Shift
  <2>9. heap'.state[error_msg] = "live" <=> stored
    <3>1. /\ Only(heap, {args_empty, content, error_msg}) /\ RootOrNull(heap, error_msg)
          /\ error_msg \in {args_empty, content, error_msg}
      BY <1>2 DEF HeapAt
    <3> QED BY <2>2, <2>4, <3>1, SetErrorHeap
  <2>10. MessageKept(heap', calls', failed', faults')
    BY <2>2, <2>7, <2>9 DEF MessageKept
  <2> QED BY <1>1, <1>2, <2>4, <2>5, <2>6, <2>8, <2>10 DEF Collected
<1> QED BY <1>4, <1>5

(* A failure counts as an error, with a text of its own if none was set.   *)
LEMMA ReturnCollects ==
    ASSUME CoreTypeOK, HeapAt(at, ix, heap), Collected, handler_returns, UNCHANGED faults
    PROVE  Collected'
<1> DEFINE freed == Delete(heap, {args_empty})
<1>1. PICK stored \in Allocates :
         /\ failed' \in BOOLEAN
         /\ failed' /\ ~is_error => set_error(freed, stored)
         /\ ~(failed' /\ ~is_error) => heap' = freed /\ is_error' = is_error
  BY DEF handler_returns
<1>2. /\ at = "handler" /\ at' = "result" /\ UNCHANGED <<items, calls>> /\ ~failed
      /\ is_error \in BOOLEAN /\ faults \in BOOLEAN /\ stored \in BOOLEAN
      /\ ~faults => stored
  BY DEF handler_returns, Collected, CoreTypeOK, Allocates
<1>3. /\ is_error <=> Shift(calls, failed) = 1
      /\ Holds(items, calls, 0) /\ MessageKept(heap, calls, failed, faults)
  BY <1>2 DEF Collected
<1>4. is_error <=> ErrorsOf(calls) # {}
  BY <1>2, <1>3 DEF Shift
<1>5. /\ Only(freed, {content, error_msg}) /\ RootOrNull(freed, error_msg)
      /\ freed.state[error_msg] = "live" <=> heap.state[error_msg] = "live"
  <2>1. /\ Only(heap, {args_empty, content, error_msg}) /\ RootOrNull(heap, args_empty)
        /\ RootOrNull(heap, error_msg)
    BY <1>2 DEF HeapAt
  <2>2. /\ args_empty \in Objects \ {msgObj} /\ error_msg \in Objects \ {args_empty}
    BY ObjectsAre, VariablesDiffer DEF Variables
  <2>3. /\ Clean(heap) /\ {args_empty} \in SUBSET (Objects \ {msgObj})
        /\ \A r \in {args_empty} : RootOrNull(heap, r)
    BY <2>1, <2>2 DEF Only
  <2>4. \A o \in Objects \ {msgObj} : heap.state[o] = "live" =>
           o \in {content, error_msg}
           \/ \E r \in {args_empty} : heap.state[r] = "live" /\ r \in Owners(heap, o)
    BY <2>1, OwnersAre DEF Only, Clean, Sound
  <2>5. /\ Only(freed, {content, error_msg})
        /\ \A x \in Objects : freed.state[x] = "null" <=> heap.state[x] = "null"
        /\ \A x \in Objects \ {args_empty} : Root(heap, x) => Root(freed, x)
    BY <2>3, <2>4, DeleteOnly
  <2> QED BY <2>1, <2>2, <2>5 DEF RootOrNull, Root
<1> HIDE DEF freed
<1>6. CASE failed' /\ ~is_error
  <2>1. is_error' = TRUE /\ heap' = ErrorSet(freed, stored)
    BY <1>1, <1>6 DEF set_error, ErrorSet
  <2>2. heap'.state[error_msg] = "live" <=> stored
    BY <1>2, <1>5, <2>1, SetErrorHeap
  <2>3. MessageKept(heap', calls', failed', faults')
    BY <1>2, <1>4, <1>6, <2>2 DEF MessageKept
  <2> QED BY <1>2, <1>3, <1>6, <2>1, <2>3 DEF Collected, Shift
<1>7. CASE ~(failed' /\ ~is_error)
  <2>1. heap' = freed /\ is_error' = is_error
    BY <1>1, <1>7
  <2>2. MessageKept(heap', calls', failed', faults')
    BY <1>2, <1>3, <1>4, <1>5, <1>7, <2>1 DEF MessageKept
  <2>3. is_error' <=> Shift(calls', failed') = 1
    BY <1>2, <1>4, <1>7, <2>1 DEF Shift
  <2> QED BY <1>2, <1>3, <2>1, <2>2, <2>3 DEF Collected
<1> QED BY <1>6, <1>7

(* The result does not touch what was collected.                           *)
LEMMA ResultCollects ==
    ASSUME CoreTypeOK, HeapAt(at, ix, heap), Collected, call_result, UNCHANGED faults
    PROVE  Collected'
<1>1. CASE heap' = Alloc(heap, result) /\ at' = "error_item"
  <2>1. Only(heap, {content, error_msg}) /\ at = "result"
    BY DEF call_result, HeapAt
  <2>2. /\ result \in Objects \ {msgObj, content, error_msg}
        /\ error_msg \in Objects \ {result}
    BY ObjectsAre, VariablesDiffer DEF Variables
  <2>3. heap \in Heap(Objects)
    BY <2>1 DEF Only, Clean, Sound
  <2>4. heap'.state[error_msg] = heap.state[error_msg]
    BY <1>1, <2>2, <2>3, AllocIs
  <2>5. UNCHANGED <<callVars, response, faults>>
    BY DEF call_result
  <2>6. MessageKept(heap', calls', failed', faults')
    BY <2>1, <2>4, <2>5 DEF MessageKept, Collected, callVars
  <2> QED BY <1>1, <2>1, <2>5, <2>6 DEF Collected, callVars
<1>2. CASE at' = "make_error" /\ code' # 0
  BY <1>2 DEF Collected
<1> QED BY <1>1, <1>2 DEF call_result, oom, fail, JSONRPC_INTERNAL_ERROR

(* The error is told, in the words of the last one if they were kept.      *)
LEMMA ErrorItemCollects ==
    ASSUME CoreTypeOK, Collected, call_error_item, UNCHANGED faults
    PROVE  Collected'
<1> DEFINE text == IF heap.state[error_msg] = "live" /\ ErrorTexts # "empty"
                   THEN ErrorTexts ELSE "tool error"
<1>1. /\ items \in Seq(Texts) /\ calls \in Seq(BuilderCall) /\ is_error \in BOOLEAN
      /\ faults \in BOOLEAN /\ failed \in BOOLEAN
  BY DEF CoreTypeOK
<1>2. at = "error_item" /\ UNCHANGED <<is_error, calls, failed, response>>
  BY DEF call_error_item
<1>3. /\ is_error <=> Shift(calls, failed) = 1
      /\ Holds(items, calls, 0) /\ MessageKept(heap, calls, failed, faults)
  BY <1>2 DEF Collected
<1>4. CASE at' = "make_error" /\ code' # 0
  BY <1>4 DEF Collected
<1>5. CASE ~is_error /\ at' = "attach" /\ items' = items
  <2>1. Shift(calls, failed) = 0
    BY <1>3, <1>5 DEF Shift
  <2> QED BY <1>2, <1>3, <1>5, <2>1 DEF Collected, Tells
<1>6. CASE is_error /\ at' = "attach" /\ items' = <<text>> \o items
  <2>1. text \in Texts
    BY <1>1, <1>6, ErrorTextIs DEF Texts
  <2> HIDE DEF text
  <2>2. Holds(items', calls, 1) /\ items'[1] = text
    BY <1>1, <1>3, <1>6, <2>1, HoldsShifts
  <2>3. Shift(calls, failed) = 1 /\ Errors = ErrorsOf(calls)
    BY <1>3, <1>6 DEF Errors, ErrorsOf
  <2>4. text \in ErrorTold
    <3>1. CASE Errors = {}
      <4>1. failed /\ ErrorTexts = "tool handler failed"
        BY <1>1, <2>3, <3>1 DEF Shift, ErrorTexts
      <4>2. heap.state[error_msg] = "live" \/ faults
        BY <1>3, <2>3, <3>1, <4>1 DEF MessageKept
      <4> QED BY <3>1, <4>1, <4>2 DEF ErrorTold, text
    <3>2. CASE Errors # {}
      <4>1. ErrorTexts = calls[Max(Errors)].text
        BY <3>2 DEF ErrorTexts
      <4>2. heap.state[error_msg] = "live" <=> calls[Max(Errors)].stored
        BY <1>3, <2>3, <3>2 DEF MessageKept
      <4> QED BY <3>2, <4>1, <4>2 DEF ErrorTold, text
    <3> QED BY <3>1, <3>2
  <2>5. ErrorTold' = ErrorTold
    BY <1>2, ErrorToldStays
  <2> QED BY <1>2, <1>6, <2>2, <2>3, <2>4, <2>5 DEF Collected, Tells
<1>7. \/ at' = "make_error" /\ code' = JSONRPC_INTERNAL_ERROR
      \/ ~is_error /\ at' = "attach" /\ items' = items
      \/ is_error /\ at' = "attach" /\ items' = <<text>> \o items
  BY Zenon DEF call_error_item, oom, fail
<1>8. JSONRPC_INTERNAL_ERROR # 0
  BY DEF JSONRPC_INTERNAL_ERROR
<1> HIDE DEF text
<1> QED BY <1>4, <1>5, <1>6, <1>7, <1>8, Zenon

(* What is told goes into the response as it is.                           *)
LEMMA EnvelopeCollects ==
    ASSUME CoreTypeOK, HeapAt(at, ix, heap), Dispatched, Collected, UNCHANGED faults,
           call_attach \/ call_is_error \/ make_result \/ make_error
    PROVE  Collected'
<1>1. UNCHANGED <<msg, callVars>> /\ ErrorTold' = ErrorTold
  <2>1. UNCHANGED <<msg, callVars>>
    BY DEF call_attach, call_is_error, make_result, make_error
  <2> QED BY <2>1, ErrorToldStays DEF callVars
<1>2. CASE call_attach \/ call_is_error
  <2>1. /\ at \in {"attach", "is_error"} /\ msg.method = "tools/call"
        /\ \/ at' \in {"is_error", "make_result"}
           \/ at' = "make_error" /\ code' # 0
    BY <1>2 DEF call_attach, call_is_error, fail, oom, JSONRPC_INTERNAL_ERROR,
       Dispatched, ToolPlaces
  <2> QED BY <1>1, <2>1 DEF Collected, callVars
<1>3. CASE make_result
  <2>1. CASE /\ heap' = Attach(Alloc(heap, env), result, env)
             /\ response' = [id |-> clone_id, code |-> 0,
                             isError |-> msg.method = "tools/call" /\ is_error,
                             content |-> IF msg.method = "tools/call" THEN items ELSE <<>>]
    <3>1. at = "make_result" /\ at' = "done"
      BY <1>3 DEF make_result
    <3>2. msg.method = "tools/call" =>
             response'.isError = is_error /\ response'.content = items
      BY <2>1 DEF CoreTypeOK
    <3> QED BY <1>1, <3>1, <3>2 DEF Collected, callVars
  <2>2. CASE /\ faults
             /\ heap' \in {Delete(heap, {result}), Delete(Alloc(heap, env), {result, env})}
    <3>1. at' = "done" /\ ~Answered'
      BY <1>3, <2>2, MakeResultHeap DEF make_result, Answered
    <3> QED BY <3>1 DEF Collected
  <2> QED BY <1>3, <2>1, <2>2 DEF make_result
<1>4. CASE make_error
  <2>1. CASE response' = [id |-> clone_id, code |-> code, isError |-> FALSE,
                          content |-> <<>>]
    <3>1. at = "make_error" /\ at' = "done" /\ response'.code = code
      BY <1>4, <2>1 DEF make_error
    <3> QED BY <3>1 DEF Collected
  <2>2. CASE heap' = Delete(Alloc(heap, env), {env})
    <3>1. at' = "done" /\ ~Answered'
      BY <1>4, <2>2, MakeErrorHeap DEF make_error, Answered
    <3> QED BY <3>1 DEF Collected
  <2> QED BY <1>4, <2>1, <2>2 DEF make_error
<1> QED BY <1>2, <1>3, <1>4

(* Every step of the core collects what the handler does and tells it.     *)
LEMMA CoreCollects ==
    ASSUME CoreTypeOK, HeapAt(at, ix, heap), Dispatched, Collected, CoreStep,
           UNCHANGED faults
    PROVE  Collected'
BY ApartCollects, ContentCollects, HandlerCollects, ReturnCollects, ResultCollects,
   ErrorItemCollects, EnvelopeCollects DEF CoreStep, ApartStep

----------------------------------------------------------------------------
(* The core and the steps of the loop.                                     *)

(* Every step of the core keeps its part of the invariant.                 *)
LEMMA CoreKeeps ==
    ASSUME CoreInv, CoreStep, UNCHANGED faults
    PROVE  CoreInv'
BY CoreTypes, CoreHeap, CoreDispatched, CoreAnswers, CoreCollects DEF CoreInv

(* So does a step of the loop alone.                                       *)
LEMMA CoreWaits ==
    ASSUME CoreInv, UNCHANGED <<coreVars, faults>>
    PROVE  CoreInv'
<1> USE DEF coreVars, callVars
<1>1. CoreTypeOK' /\ HeapAt(at', ix', heap')
  BY DEF CoreInv, CoreTypeOK
<1>2. Dispatched' /\ RightlyAnswered'
  BY DEF CoreInv, Dispatched, RightlyAnswered, Answered, clone_id
<1>3. Collected'
  <2>1. ErrorTold' = ErrorTold
    BY ErrorToldStays
  <2> QED BY <2>1 DEF CoreInv, Collected, Answered
<1> QED BY <1>1, <1>2, <1>3 DEF CoreInv

(* What a line is.                                                         *)
LEMMA LineIs ==
    ASSUME NEW l \in Line
    PROVE  /\ l.kind \in {"blank", "garbage", "message"}
           /\ l.kind = "message" => l.msg \in Messages /\ l.msg \in Message
BY StdioBounds DEF Line

(* A parsed line starts the core.                                          *)
LEMMA CoreParses ==
    ASSUME CoreInv, at = "idle", parse_ok, UNCHANGED faults, Last \in Line
    PROVE  CoreInv'
<1>1. Last.msg \in Message
  BY LineIs DEF parse_ok
<1>2. /\ msg' = Last.msg /\ response' = NoResponse /\ at' = "handle"
      /\ UNCHANGED <<initialized, code, ix, callVars, faults>>
  BY DEF parse_ok
<1>3. HeapAt(at', ix', heap')
  BY ParseHeap DEF CoreInv
<1>4. heap' \in Heap(Objects)
  BY <1>2, <1>3, SoundAt DEF Places, Sound
<1>5. NoResponse \in Response
  BY NoneIsSeq DEF NoResponse, Response, Codes
<1>6. CoreTypeOK'
  BY <1>1, <1>2, <1>4, <1>5 DEF CoreInv, CoreTypeOK, callVars, Places
<1>7. Dispatched' /\ RightlyAnswered'
  BY <1>2 DEF Dispatched, RightlyAnswered, ToolPlaces
<1>8. Collected'
  BY <1>2 DEF Collected
<1> QED BY <1>3, <1>6, <1>7, <1>8 DEF CoreInv

(* The end of the core's work leaves it idle.                              *)
LEMMA CoreReturns ==
    ASSUME CoreInv, at = "done", no_response \/ respond, UNCHANGED faults
    PROVE  CoreInv'
<1>1. at' = "idle" /\ UNCHANGED <<msg, initialized, code, ix, callVars, response, faults>>
  BY DEF no_response, respond
<1>2. HeapAt(at', ix', heap')
  BY ReturnHeap DEF CoreInv
<1>3. heap' \in Heap(Objects)
  BY <1>1, <1>2, SoundAt DEF Places, Sound
<1>4. CoreTypeOK'
  BY <1>1, <1>3 DEF CoreInv, CoreTypeOK, callVars, Places
<1>5. Dispatched' /\ RightlyAnswered'
  BY <1>1 DEF Dispatched, RightlyAnswered, ToolPlaces
<1>6. Collected'
  BY <1>1 DEF Collected
<1> QED BY <1>2, <1>4, <1>5, <1>6 DEF CoreInv

----------------------------------------------------------------------------
(* Lines and outputs that are added.                                       *)

(* A new line opens the server if it is a request to initialize.           *)
LEMMA OpenedGrows ==
    ASSUME NEW s \in Seq(Line), NEW l \in Line
    PROVE  /\ \A n \in 0..Len(s) : Opened(Append(s, l), n) <=> Opened(s, n)
           /\ Opened(Append(s, l), Len(s) + 1) <=>
                 Opened(s, Len(s)) \/ InitializeRequest(l)
<1>1. /\ Len(s) \in Nat /\ Append(s, l)[Len(s) + 1] = l
      /\ \A i \in 1..Len(s) : Append(s, l)[i] = s[i]
  BY SeqGrows
<1>2. \A n \in 0..Len(s) : Opened(Append(s, l), n) <=> Opened(s, n)
  BY <1>1 DEF Opened
<1>3. 1..Len(s) + 1 = (1..Len(s)) \cup {Len(s) + 1}
  BY <1>1
<1>4. Opened(Append(s, l), Len(s) + 1) <=> Opened(s, Len(s)) \/ InitializeRequest(l)
  BY <1>1, <1>3 DEF Opened
<1> QED BY <1>2, <1>4

(* The same, from the end of the lines.                                    *)
LEMMA OpenedByLast ==
    ASSUME NEW s \in Seq(Line), s # <<>>
    PROVE  Opened(s, Len(s)) <=> Opened(s, Len(s) - 1) \/ InitializeRequest(s[Len(s)])
<1>1. Len(s) \in Nat \ {0}
  OBVIOUS
<1>2. 1..Len(s) = (1..Len(s) - 1) \cup {Len(s)}
  BY <1>1
<1> QED BY <1>2 DEF Opened

(* A line once settled stays so.                                           *)
LEMMA SettledGrows ==
    ASSUME NEW s \in Seq(Line), NEW w \in Seq(Output), NEW i \in 1..Len(s),
           Settled(s, w, i)
    PROVE  /\ \A l \in Line : Settled(Append(s, l), w, i)
           /\ \A o \in Output : Settled(s, Append(w, o), i)
<1>1. \A l \in Line : Append(s, l)[i] = s[i]
  BY SeqGrows
<1>2. \A o \in Output : /\ DOMAIN Append(w, o) = 1..Len(w) + 1
                        /\ \A j \in 1..Len(w) : Append(w, o)[j] = w[j]
  BY SeqGrows
<1>3. DOMAIN w = 1..Len(w) /\ Len(w) \in Nat
  OBVIOUS
<1>4. DOMAIN w \subseteq 1..Len(w) + 1
  BY <1>3
<1> QED BY <1>1, <1>2, <1>3, <1>4 DEF Settled

(* A reply rightly refused or let through stays so.                        *)
LEMMA GatedGrows ==
    ASSUME NEW s \in Seq(Line), NEW l \in Line, NEW o, o.line \in 1..Len(s), Gated(s, o)
    PROVE  Gated(Append(s, l), o)
<1>1. Append(s, l)[o.line] = s[o.line]
  BY SeqGrows
<1>2. o.line - 1 \in 0..Len(s)
  OBVIOUS
<1> QED BY <1>1, <1>2, OpenedGrows DEF Gated

(* What write_message adds.                                                *)
Written(reply, ok) == [line |-> Len(lines), core |-> io = "core", whole |-> ok,
                       response |-> reply]

(* What write_message puts out.                                            *)
LEMMA WriteIs ==
    ASSUME LoopInv, lines # <<>>, NEW reply \in Response, NEW ok \in BOOLEAN,
           write_message(reply, ok), faults \in BOOLEAN
    PROVE  /\ ~ok => faults
           /\ \/ stdout' = stdout /\ ~ok
              \/ stdout' = Append(stdout, Written(reply, ok))
           /\ Written(reply, ok) \in Output
<1>1. lines \in Seq(Line) /\ Len(lines) <= MaxLines /\ MaxLines \in Nat
  BY StdioBounds DEF LoopInv, StdioTypeOK, AtHand
<1>2. Len(lines) \in 1..MaxLines
  BY <1>1
<1>3. Written(reply, ok) \in Output
  BY <1>2 DEF Written, Output
<1> QED BY <1>3 DEF write_message, Written

----------------------------------------------------------------------------
(* The steps of the loop keep the invariant.                               *)

(* The invariant holds at the start.                                       *)
LEMMA InitInv == Init => IInv
<1> SUFFICES ASSUME Init PROVE IInv
  OBVIOUS
<1> USE DEF Init, CoreInit
<1>1. EmptyHeap(Objects) \in Heap(Objects)
  BY DEF EmptyHeap, Heap
<1>2. Sound(heap) /\ \A o \in Objects : heap.state[o] = "null"
  BY <1>1 DEF EmptyHeap, Sound
<1>3. HeapAt(at, ix, heap)
  BY <1>2 DEF HeapAt
<1>4. msg \in Message /\ NoResponse \in Response
  BY NoneIsSeq DEF Message, Methods, Params, NoResponse, Response, Codes
<1>5. ix \in 1..ToolCount + 1
  BY CoreBounds
<1>6. items \in Seq(Texts) /\ calls \in Seq(BuilderCall) /\ lines \in Seq(Line)
      /\ stdout \in Seq(Output)
  BY NoneIsSeq
<1>7. CoreTypeOK
  BY <1>1, <1>4, <1>5, <1>6 DEF CoreTypeOK, Places, Codes
<1>8. Dispatched /\ RightlyAnswered /\ Collected
  BY DEF Dispatched, RightlyAnswered, Collected, ToolPlaces
<1>9. StdioTypeOK
  BY <1>6 DEF StdioTypeOK
<1>10. Len(lines) = 0 /\ DOMAIN stdout = {} /\ MaxLines \in Nat
  BY StdioBounds
<1>11. AtHand /\ RepliesDealt /\ LossEndsLoop /\ AllGated
  BY <1>10 DEF AtHand, RepliesDealt, LossEndsLoop, AllGated
<1>12. AllSettled
  BY <1>10 DEF AllSettled, Dealt
<1>13. InitializedBy
  BY <1>10 DEF InitializedBy, Tried, Opened
<1> QED BY <1>3, <1>7, <1>8, <1>9, <1>11, <1>12, <1>13 DEF IInv, CoreInv, LoopInv

(* A line is read.                                                         *)
LEMMA GetlineKeeps ==
    ASSUME IInv, getline, UNCHANGED faults
    PROVE  IInv'
<1>1. /\ io = "getline" /\ Len(lines) < MaxLines
      /\ UNCHANGED <<coreVars, stdout, rc>>
  BY DEF getline
<1>2. PICK l \in Line : /\ lines' = Append(lines, l)
                        /\ io' = IF l.kind = "blank" THEN "getline" ELSE "parse"
  BY DEF getline
<1>3. CoreInv'
  BY <1>1, CoreWaits DEF IInv
<1>4. /\ lines \in Seq(Line) /\ stdout \in Seq(Output) /\ rc \in {"MCP_OK", "MCP_ERR_IO"}
      /\ Len(lines) \in Nat /\ MaxLines \in Nat /\ at = "idle" /\ at' = at
      /\ Dealt = Len(lines) /\ Tried = Len(lines) /\ stdout' = stdout
      /\ initialized' = initialized
  <2>1. at = "idle"
    BY <1>1 DEF IInv, LoopInv, AtHand
  <2> QED BY <1>1, <2>1, StdioBounds DEF IInv, LoopInv, StdioTypeOK, Dealt, Tried, coreVars
<1>5. /\ lines' \in Seq(Line) /\ Len(lines') = Len(lines) + 1
      /\ lines'[Len(lines')] = l /\ lines' # <<>>
      /\ \A i \in 1..Len(lines) : lines'[i] = lines[i]
  BY <1>2, <1>4, SeqGrows
<1>6. Last' = l
  BY <1>5 DEF Last
<1>7. StdioTypeOK'
  BY <1>1, <1>2, <1>4, <1>5 DEF StdioTypeOK
<1>8. AtHand'
  BY <1>1, <1>2, <1>4, <1>5, <1>6 DEF AtHand
<1>9. /\ l.kind = "blank" => Dealt' = Len(lines) + 1 /\ Tried' = Len(lines) + 1
      /\ l.kind # "blank" => Dealt' = Len(lines) /\ Tried' = Len(lines)
  BY <1>2, <1>4, <1>5 DEF Dealt, Tried
<1>10. RepliesDealt'
  BY <1>4, <1>9 DEF IInv, LoopInv, RepliesDealt
<1>11. AllSettled'
  <2> SUFFICES ASSUME ~faults, NEW i \in 1..Dealt'
               PROVE  Settled(lines', stdout, i)
    BY <1>4 DEF AllSettled
  <2>1. CASE i \in 1..Len(lines)
    <3>1. Settled(lines, stdout, i)
      BY <1>4, <2>1 DEF IInv, LoopInv, AllSettled
    <3> QED BY <1>2, <1>4, <2>1, <3>1, SettledGrows
  <2>2. CASE i = Len(lines) + 1 /\ l.kind = "blank"
    BY <1>5, <2>2 DEF Settled
  <2> QED BY <1>4, <1>9, <2>1, <2>2
<1>12. LossEndsLoop'
  BY <1>1, <1>4 DEF IInv, LoopInv, LossEndsLoop
<1>13. AllGated'
  <2> SUFFICES ASSUME ~faults, NEW i \in DOMAIN stdout
               PROVE  Gated(lines', stdout[i])
    BY <1>4 DEF AllGated
  <2>1. Gated(lines, stdout[i]) /\ stdout[i].line \in 1..Len(lines)
    BY <1>4 DEF IInv, LoopInv, AllGated, RepliesDealt
  <2> QED BY <1>2, <1>4, <2>1, GatedGrows
<1>14. InitializedBy'
  <2>1. Opened(lines', Tried') <=> Opened(lines, Len(lines))
    <3>1. CASE l.kind = "blank"
      <4>1. ~InitializeRequest(l)
        BY <3>1 DEF InitializeRequest
      <4> QED BY <1>2, <1>4, <1>9, <3>1, <4>1, OpenedGrows
    <3>2. CASE l.kind # "blank"
      BY <1>2, <1>4, <1>9, <3>2, OpenedGrows
    <3> QED BY <3>1, <3>2
  <2> QED BY <1>4, <2>1 DEF IInv, InitializedBy
<1> QED BY <1>3, <1>7, <1>8, <1>10, <1>11, <1>12, <1>13, <1>14 DEF IInv, LoopInv

(* The loop ends.                                                          *)
LEMMA EndKeeps ==
    ASSUME IInv, getline_fails \/ run_returns, UNCHANGED faults
    PROVE  IInv'
<1>1. /\ io \in {"getline", "break"} /\ io' \in {"break", "returned"}
      /\ io = "break" => rc' = rc
      /\ rc' \in {rc, "MCP_OK", "MCP_ERR_IO"}
      /\ UNCHANGED <<coreVars, lines, stdout>>
  BY DEF getline_fails, run_returns
<1>2. CoreInv'
  BY <1>1, CoreWaits DEF IInv
<1>3. at = "idle" /\ at' = at /\ initialized' = initialized /\ Last' = Last
  BY <1>1 DEF IInv, LoopInv, AtHand, coreVars, Last
<1>4. Dealt' = Dealt /\ Tried' = Tried
  BY <1>1, <1>3 DEF Dealt, Tried
<1>5. StdioTypeOK' /\ AtHand'
  BY <1>1, <1>3 DEF IInv, LoopInv, StdioTypeOK, AtHand
<1>6. RepliesDealt' /\ AllSettled' /\ AllGated'
  BY <1>1, <1>4 DEF IInv, LoopInv, RepliesDealt, AllSettled, AllGated
<1>7. LossEndsLoop'
  BY <1>1 DEF IInv, LoopInv, LossEndsLoop
<1>8. InitializedBy'
  BY <1>1, <1>3, <1>4 DEF IInv, InitializedBy
<1> QED BY <1>2, <1>5, <1>6, <1>7, <1>8 DEF IInv, LoopInv

(* What is known where a line is at hand.                                  *)
LEMMA AtHandIs ==
    ASSUME IInv, io \in {"parse", "core"}
    PROVE  /\ lines \in Seq(Line) /\ stdout \in Seq(Output) /\ lines # <<>>
           /\ Len(lines) \in Nat \ {0} /\ Len(lines) \in 1..MaxLines
           /\ Last \in Line /\ Last = lines[Len(lines)] /\ Last.kind # "blank"
           /\ Dealt = Len(lines) - 1
           /\ DOMAIN stdout = 1..Len(stdout) /\ Len(stdout) \in Nat
           /\ \A i \in DOMAIN stdout : stdout[i] \in Output
                                       /\ stdout[i].line \in 1..Len(lines) - 1
                                       /\ ~(stdout[i].core /\ ~stdout[i].whole)
           /\ faults \in BOOLEAN
<1>1. lines \in Seq(Line) /\ stdout \in Seq(Output) /\ lines # <<>> /\ MaxLines \in Nat
      /\ Len(lines) <= MaxLines /\ Last.kind # "blank" /\ faults \in BOOLEAN
  BY StdioBounds DEF IInv, LoopInv, StdioTypeOK, AtHand, CoreInv, CoreTypeOK
<1>2. Len(lines) \in Nat \ {0} /\ Last \in Line
  BY <1>1 DEF Last
<1>3. Dealt = Len(lines) - 1
  BY DEF Dealt
<1>4. \A i \in DOMAIN stdout : stdout[i] \in Output
                               /\ stdout[i].line \in 1..Len(lines) - 1
                               /\ ~(stdout[i].core /\ ~stdout[i].whole)
  BY <1>1, <1>3 DEF IInv, LoopInv, RepliesDealt, LossEndsLoop
<1> QED BY <1>1, <1>2, <1>3, <1>4 DEF Last

(* The line at hand is dealt with, and o is written or nothing is.         *)
LEMMA DealtWith ==
    ASSUME IInv, io \in {"parse", "core"}, UNCHANGED faults, NEW o,
           lines' = lines, at' = "idle", io' \in {"getline", "break"},
           rc' \in {"MCP_OK", "MCP_ERR_IO"},
           stdout' = stdout \/ stdout' = Append(stdout, o),
           stdout' # stdout => /\ o \in Output /\ o.line = Len(lines)
                               /\ ~faults => Gated(lines, o)
                               /\ o.core /\ ~o.whole => io' = "break" /\ rc' = "MCP_ERR_IO",
           ~faults => \/ o.line = Len(lines) /\ o.whole /\ stdout' = Append(stdout, o)
                      \/ Last.kind = "message" /\ IsNotification(Last.msg)
    PROVE  LoopInv'
<1>1. /\ lines \in Seq(Line) /\ stdout \in Seq(Output) /\ lines # <<>>
      /\ Len(lines) \in Nat \ {0} /\ Len(lines) \in 1..MaxLines
      /\ Last \in Line /\ Last = lines[Len(lines)]
      /\ Dealt = Len(lines) - 1
      /\ DOMAIN stdout = 1..Len(stdout) /\ Len(stdout) \in Nat
      /\ \A i \in DOMAIN stdout : stdout[i] \in Output
                                  /\ stdout[i].line \in 1..Len(lines) - 1
                                  /\ ~(stdout[i].core /\ ~stdout[i].whole)
  BY AtHandIs
<1>2. Dealt' = Len(lines) /\ lines' = lines
  BY DEF Dealt
<1>3. \/ stdout' = stdout
      \/ /\ stdout' = Append(stdout, o) /\ o \in Output /\ stdout' # stdout
         /\ stdout' \in Seq(Output) /\ Len(stdout') = Len(stdout) + 1
         /\ DOMAIN stdout' = 1..Len(stdout) + 1
         /\ stdout'[Len(stdout) + 1] = o
         /\ \A i \in 1..Len(stdout) : stdout'[i] = stdout[i]
  <2>1. CASE stdout' # stdout
    <3>1. stdout' = Append(stdout, o) /\ o \in Output
      BY <2>1
    <3>2. /\ stdout' \in Seq(Output) /\ Len(stdout') = Len(stdout) + 1
          /\ stdout'[Len(stdout) + 1] = o
          /\ \A i \in 1..Len(stdout) : stdout'[i] = stdout[i]
      BY ONLY <1>1, <3>1, SeqGrows
    <3>3. DOMAIN stdout' = 1..Len(stdout) + 1
      BY ONLY <3>2
    <3> QED BY ONLY <2>1, <3>1, <3>2, <3>3
  <2> QED BY <2>1
<1>4. \A i \in DOMAIN stdout' :
         \/ i \in DOMAIN stdout /\ stdout'[i] = stdout[i]
         \/ i = Len(stdout') /\ stdout'[i] = o /\ stdout' # stdout
  BY <1>1, <1>3
<1>5. StdioTypeOK'
  BY <1>1, <1>3 DEF StdioTypeOK
<1>6. AtHand'
  BY <1>1 DEF IInv, LoopInv, AtHand
<1>7. RepliesDealt'
  BY <1>1, <1>2, <1>4 DEF RepliesDealt
<1>8. LossEndsLoop'
  BY <1>1, <1>4 DEF LossEndsLoop
<1>9. AllGated'
  <2> SUFFICES ASSUME ~faults, NEW i \in DOMAIN stdout'
               PROVE  Gated(lines, stdout'[i])
    BY DEF AllGated
  <2> QED BY <1>4 DEF IInv, LoopInv, AllGated
<1>10. AllSettled'
  <2> SUFFICES ASSUME ~faults, NEW i \in 1..Len(lines)
               PROVE  Settled(lines, stdout', i)
    BY <1>2 DEF AllSettled
  <2>1. CASE i = Len(lines)
    <3>1. CASE Last.kind = "message" /\ IsNotification(Last.msg)
      BY <1>1, <2>1, <3>1 DEF Settled
    <3>2. CASE o.line = Len(lines) /\ o.whole /\ stdout' = Append(stdout, o)
      <4>0. Len(Append(stdout, o)) = Len(stdout) + 1
        BY <1>1
      <4>1. stdout' # stdout
        <5> SUFFICES ASSUME stdout' = stdout PROVE FALSE
          OBVIOUS
        <5>1. Append(stdout, o) = stdout
          BY <3>2
        <5>2. Len(stdout) = Len(stdout) + 1
          BY <4>0, <5>1, Zenon
        <5>3. Len(stdout) \in Nat
          BY <1>1
        <5> QED BY <5>2, <5>3
      <4>2. Len(stdout) + 1 \in DOMAIN stdout' /\ stdout'[Len(stdout) + 1] = o
        BY <1>1, <1>3, <4>1
      <4> QED BY <2>1, <3>2, <4>2 DEF Settled
    <3> QED BY <3>1, <3>2
  <2>2. CASE i \in 1..Len(lines) - 1
    <3>1. Settled(lines, stdout, i)
      BY <1>1, <2>2 DEF IInv, LoopInv, AllSettled
    <3> QED BY <1>1, <1>3, <3>1, SettledGrows
  <2> QED BY <1>1, <2>1, <2>2
<1> QED BY <1>5, <1>6, <1>7, <1>8, <1>9, <1>10 DEF LoopInv

(* A line that does not parse.                                             *)
LEMMA ParseErrorKeeps ==
    ASSUME IInv, parse_error, UNCHANGED faults
    PROVE  IInv'
<1>1. /\ io = "parse" /\ io' = "getline" /\ rc' = rc /\ lines' = lines
      /\ Last.kind = "garbage" \/ faults
      /\ UNCHANGED coreVars
  BY DEF parse_error
<1>2. CoreInv' /\ at = "idle" /\ at' = "idle" /\ initialized' = initialized
      /\ rc \in {"MCP_OK", "MCP_ERR_IO"} /\ faults \in BOOLEAN
  BY <1>1, CoreWaits DEF IInv, LoopInv, AtHand, coreVars, StdioTypeOK, CoreInv,
                         CoreTypeOK
<1>3. lines \in Seq(Line) /\ lines # <<>> /\ Last = lines[Len(lines)]
      /\ Len(lines) \in Nat \ {0}
  BY <1>1, AtHandIs
<1>4. LoopInv'
  <2>1. CASE stdout' = stdout /\ faults
    BY <1>1, <1>2, <2>1, DealtWith
  <2>2. CASE \E c \in {JSONRPC_PARSE_ERROR, 0},
                ok \in BOOLEAN : write_message([NoResponse EXCEPT !.code = c], ok)
    <3>1. PICK c \in {JSONRPC_PARSE_ERROR, 0}, ok \in BOOLEAN :
             write_message([NoResponse EXCEPT !.code = c], ok)
      BY <2>2
    <3> DEFINE reply == [NoResponse EXCEPT !.code = c]
               o == Written(reply, ok)
    <3>2. reply \in Response
      <4>1. NoResponse \in Response
        BY NoneIsSeq DEF NoResponse, Response, Codes
      <4>2. c \in Codes
        BY DEF Codes
      <4> QED BY <4>1, <4>2 DEF Response
    <3>3. write_message(reply, ok)
      BY <3>1
    <3> HIDE DEF reply
    <3>4. /\ ~ok => faults
          /\ (stdout' = stdout /\ ~ok) \/ stdout' = Append(stdout, o)
          /\ o \in Output
      BY <1>2, <1>3, <3>2, <3>3, WriteIs DEF IInv
    <3>5. o.line = Len(lines) /\ ~o.core /\ o.whole = ok
      BY <1>1 DEF Written
    <3>6. ~faults => Gated(lines, o)
      BY <1>1, <1>3, <3>5 DEF Gated
    <3> HIDE DEF o
    <3> QED BY <1>1, <1>2, <3>4, <3>5, <3>6, DealtWith
  <2> QED BY <2>1, <2>2 DEF parse_error, ErrorCodes
<1>5. InitializedBy'
  <2>1. Tried = Len(lines) - 1 /\ Tried' = Len(lines)
    BY <1>1, <1>2 DEF Tried
  <2>2. Opened(lines, Len(lines)) <=>
           Opened(lines, Len(lines) - 1) \/ InitializeRequest(Last)
    BY <1>3, OpenedByLast
  <2>3. ~faults => ~InitializeRequest(Last)
    BY <1>1 DEF InitializeRequest
  <2> QED BY <1>1, <1>2, <2>1, <2>2, <2>3 DEF IInv, InitializedBy
<1> QED BY <1>2, <1>4, <1>5 DEF IInv

(* While the core works the loop stands still.                             *)
LEMMA LoopWaits ==
    ASSUME IInv, UNCHANGED <<lines, stdout, rc, faults>>, at' # "idle",
           io \in {"parse", "core"}, io' = "core", Last.kind = "message", msg' = Last.msg
    PROVE  LoopInv'
<1>1. Last' = Last /\ Dealt' = Dealt
  BY DEF Last, Dealt
<1>2. StdioTypeOK' /\ AtHand'
  BY <1>1, AtHandIs DEF IInv, LoopInv, StdioTypeOK, AtHand
<1>3. RepliesDealt' /\ AllSettled' /\ AllGated'
  BY <1>1 DEF IInv, LoopInv, RepliesDealt, AllSettled, AllGated
<1>4. LossEndsLoop'
  BY AtHandIs DEF LossEndsLoop
<1> QED BY <1>2, <1>3, <1>4 DEF LoopInv

(* A line that parses keeps the invariant.                                 *)
LEMMA ParseOkKeeps ==
    ASSUME IInv, parse_ok, UNCHANGED faults
    PROVE  IInv'
<1>1. /\ io = "parse" /\ io' = "core" /\ at' = "handle" /\ Last.kind = "message"
      /\ msg' = Last.msg /\ UNCHANGED <<lines, stdout, rc, initialized>>
  BY DEF parse_ok
<1>2. at = "idle" /\ Last \in Line
  BY <1>1, AtHandIs DEF IInv, LoopInv, AtHand
<1>3. CoreInv'
  BY <1>2, CoreParses DEF IInv
<1>4. LoopInv'
  BY <1>1, LoopWaits
<1>5. InitializedBy'
  <2>1. Tried' = Tried
    BY <1>1 DEF Tried
  <2> QED BY <1>1, <2>1 DEF IInv, InitializedBy
<1> QED BY <1>3, <1>4, <1>5 DEF IInv

(* The core's work keeps it.                                               *)
LEMMA CoreStepKeeps ==
    ASSUME IInv, core, UNCHANGED faults
    PROVE  IInv'
<1>1. /\ io = "core" /\ io' = "core" /\ CoreStep
      /\ UNCHANGED <<lines, stdout, rc>>
  BY DEF core
<1>2. CoreInv /\ CoreInv' /\ CoreTypeOK
  BY <1>1, CoreKeeps DEF IInv, CoreInv
<1>3. msg' = msg /\ msg = Last.msg /\ Last.kind = "message" /\ at # "idle"
  BY <1>1, MessageStays DEF IInv, LoopInv, AtHand
<1>4. lines \in Seq(Line) /\ lines # <<>> /\ Last = lines[Len(lines)]
      /\ Len(lines) \in Nat \ {0}
  BY <1>1, AtHandIs
<1>5. Opened(lines, Len(lines)) <=>
         Opened(lines, Len(lines) - 1) \/ InitializeRequest(Last)
  BY <1>4, OpenedByLast
<1>6. CASE at = "handle"
  <2>1. /\ initialized' = initialized
        /\ \/ /\ at' \in {"make_error", "done"}
              /\ ~(IsRequest(msg) /\ msg.method = "initialize")
           \/ at' = "initialize"
           \/ /\ at' \in {"ping", "tools/list", "tools/call"}
              /\ msg.method # "initialize"
    BY <1>1, <1>2, <1>6, HandleLeads DEF IsNotification, IsRequest
  <2>2. LoopInv'
    BY <1>1, <1>3, <2>1, LoopWaits
  <2>3. Tried = Len(lines) - 1
        /\ Tried' = IF at' = "initialize" THEN Len(lines) - 1 ELSE Len(lines)
    BY <1>1, <1>6, <2>1 DEF Tried
  <2>4. at' # "initialize" => ~InitializeRequest(Last)
    BY <1>3, <2>1 DEF InitializeRequest
  <2>5. InitializedBy'
    BY <1>1, <1>5, <2>1, <2>3, <2>4 DEF IInv, InitializedBy
  <2> QED BY <1>2, <2>2, <2>5 DEF IInv
<1>7. CASE at # "handle"
  <2>1. Leads(at, at')
    BY <1>1, <1>7, CoreLeads
  <2>2. at' \notin {"idle", "handle", "initialize"}
    BY <2>1 DEF Leads, ToolPlaces
  <2>3. LoopInv'
    BY <1>1, <1>3, <2>2, LoopWaits
  <2>4. Tried' = Len(lines)
    BY <1>1, <2>2 DEF Tried
  <2>5. CASE at = "initialize"
    <3>1. InitializeRequest(Last)
      BY <1>2, <1>3, <2>5 DEF CoreInv, Dispatched, InitializeRequest
    <3>2. ~faults => initialized'
      BY <1>1, <2>5 DEF CoreStep, refuse, ignore_notification, dispatch,
         handle_initialize, handle_ping, handle_tools_list, list_tool, list_end,
         call_refused, call_args, call_content, mcp_tool_response_add_text,
         mcp_tool_response_set_error, handler_returns, call_result, call_error_item,
         call_attach, call_is_error, make_result, make_error, oom
    <3> QED BY <1>1, <1>2, <1>5, <2>3, <2>4, <3>1, <3>2 DEF IInv, InitializedBy
  <2>6. CASE at # "initialize"
    <3>1. initialized' = initialized
      BY <1>1, <1>2, <2>6, InitializedStays
    <3>2. Tried = Len(lines)
      BY <1>1, <1>7, <2>6 DEF Tried
    <3> QED BY <1>1, <1>2, <2>3, <2>4, <3>1, <3>2 DEF IInv, InitializedBy
  <2> QED BY <2>5, <2>6
<1> QED BY <1>6, <1>7

(* The core is done.                                                       *)
LEMMA ReturnKeeps ==
    ASSUME IInv, no_response \/ respond, UNCHANGED faults
    PROVE  IInv'
<1>1. /\ io = "core" /\ at = "done" /\ at' = "idle" /\ lines' = lines
      /\ initialized' = initialized
  BY DEF no_response, respond
<1>2. CoreInv /\ CoreInv' /\ faults \in BOOLEAN /\ response \in Response
      /\ rc \in {"MCP_OK", "MCP_ERR_IO"}
  BY <1>1, CoreReturns DEF IInv, CoreInv, CoreTypeOK, LoopInv, StdioTypeOK
<1>3. lines \in Seq(Line) /\ lines # <<>> /\ Last = lines[Len(lines)]
      /\ Len(lines) \in Nat \ {0} /\ msg = Last.msg /\ Last.kind = "message"
  BY <1>1, AtHandIs DEF IInv, LoopInv, AtHand
<1>4. Opened(lines, Len(lines)) <=>
         Opened(lines, Len(lines) - 1) \/ InitializeRequest(Last)
  BY <1>3, OpenedByLast
<1>5. Tried = Len(lines)
  BY <1>1 DEF Tried
<1>6. io' \in {"getline", "break"}
  BY DEF no_response, respond
<1>7. LoopInv'
  <2>1. CASE no_response
    <3>1. stdout' = stdout /\ rc' = rc /\ ~Answered
      BY <2>1 DEF no_response
    <3>2. ~faults => IsNotification(Last.msg)
      BY <1>1, <1>2, <1>3, <3>1 DEF CoreInv, RightlyAnswered
    <3> QED BY <1>1, <1>2, <1>3, <1>6, <3>1, <3>2, DealtWith
  <2>2. CASE respond
    <3>1. PICK ok \in BOOLEAN : /\ write_message(response, ok)
                                /\ io' = IF ok THEN "getline" ELSE "break"
                                /\ rc' = IF ok THEN rc ELSE "MCP_ERR_IO"
      BY <2>2 DEF respond
    <3> DEFINE o == Written(response, ok)
    <3>2. /\ ~ok => faults
          /\ (stdout' = stdout /\ ~ok) \/ stdout' = Append(stdout, o)
          /\ o \in Output
      BY <1>2, <1>3, <3>1, WriteIs DEF IInv
    <3>3. o.line = Len(lines) /\ o.whole = ok /\ o.response = response
      BY DEF Written
    <3>4. ~faults => Gated(lines, o)
      <4> SUFFICES ASSUME ~faults, ToolRequest(Last.msg)
                   PROVE  response.code = JSONRPC_INVALID_REQUEST
                          <=> ~Opened(lines, Len(lines) - 1)
        BY <1>3, <3>3 DEF Gated
      <4>1. response.code = JSONRPC_INVALID_REQUEST <=> ~initialized
        BY <1>1, <1>2, <1>3, <2>2 DEF CoreInv, RightlyAnswered, respond
      <4>2. ~InitializeRequest(Last)
        BY DEF InitializeRequest, ToolRequest, ToolMethods
      <4> QED BY <1>4, <1>5, <4>1, <4>2 DEF IInv, InitializedBy
    <3> HIDE DEF o
    <3>5. rc' \in {"MCP_OK", "MCP_ERR_IO"}
      BY <1>2, <3>1
    <3>6. o.core /\ ~o.whole => io' = "break" /\ rc' = "MCP_ERR_IO"
      BY <3>1, <3>3
    <3>7. ~faults => o.whole /\ stdout' = Append(stdout, o)
      BY <3>2, <3>3
    <3> QED BY <1>1, <1>6, <3>2, <3>3, <3>4, <3>5, <3>6, <3>7, DealtWith
  <2> QED BY <2>1, <2>2
<1>8. InitializedBy'
  <2>1. Tried' = Len(lines)
    BY <1>1, <1>6 DEF Tried
  <2> QED BY <1>1, <1>5, <2>1 DEF IInv, InitializedBy
<1> QED BY <1>2, <1>7, <1>8 DEF IInv

(* The inductive invariant holds in every reachable state.                 *)
LEMMA Invariance == Spec => []IInv
<1>1. IInv /\ [Next]_vars => IInv'
  <2> SUFFICES ASSUME IInv, [Next]_vars PROVE IInv'
    OBVIOUS
  <2>1. CASE UNCHANGED vars
    <3>1. CoreInv'
      BY <2>1, CoreWaits DEF IInv, vars
    <3> QED BY <2>1, <3>1 DEF IInv, vars, coreVars, LoopInv, InitializedBy, Tried,
           StdioTypeOK, AtHand, Last, RepliesDealt, Dealt, AllSettled, LossEndsLoop,
           AllGated
  <2>2. CASE getline /\ UNCHANGED faults
    BY <2>2, GetlineKeeps
  <2>3. CASE (getline_fails \/ run_returns) /\ UNCHANGED faults
    BY <2>3, EndKeeps
  <2>4. CASE parse_error /\ UNCHANGED faults
    BY <2>4, ParseErrorKeeps
  <2>5. CASE parse_ok /\ UNCHANGED faults
    BY <2>5, ParseOkKeeps
  <2>6. CASE core /\ UNCHANGED faults
    BY <2>6, CoreStepKeeps
  <2>7. CASE (no_response \/ respond) /\ UNCHANGED faults
    BY <2>7, ReturnKeeps
  <2> QED BY <2>1, <2>2, <2>3, <2>4, <2>5, <2>6, <2>7
          DEF Next, ReadStep, LoopStep, Terminated
<1> QED BY <1>1, InitInv, PTL DEF Spec

----------------------------------------------------------------------------
(* The loop's own replies.                                                 *)

LEMMA ReplyObjectsAre ==
    ASSUME NEW n \in 1..MaxLines
    PROVE  /\ resp \in ReplyObjects /\ err \in ReplyObjects
           /\ null_id(n) \in ReplyObjects
           /\ resp # err /\ \A k : null_id(k) \notin {resp, err}
           /\ \A k : null_id(k) = null_id(n) => k = n
           /\ NoOwner \notin ReplyObjects
BY NoOwnerIsNoReply DEF ReplyObjects, resp, err, null_id, named

(* What the heap of a reply to line n, with its error or without, holds    *)
(* beyond that of before, where nothing of a reply is live.                *)
LEMMA WithErrorIs ==
    ASSUME NEW n \in 1..MaxLines, reply_heap \in Heap(ReplyObjects), ~reply_heap.fault,
           \A o \in {resp, err, null_id(n)} : reply_heap.state[o] # "live",
           NEW h \in WithError(n)
    PROVE  /\ h \in Heap(ReplyObjects) /\ ~h.fault
           /\ Root(h, resp)
           /\ h.state[err] = "live" => h.under[err] = resp
           /\ h.state[null_id(n)] = "live" => h.under[null_id(n)] = resp \/ faults
           /\ \A x \in ReplyObjects \ {resp, err, null_id(n)} :
                 h.state[x] = reply_heap.state[x]
<1> DEFINE id == null_id(n)
           created == Alloc(reply_heap, resp)
           made == Alloc(created, id)
           Others(g) == \A x \in ReplyObjects \ {resp, err, id} :
                           g.state[x] = reply_heap.state[x]
           Reply(g) == /\ g \in Heap(ReplyObjects) /\ ~g.fault
                       /\ Root(g, resp) /\ g.state[err] # "live"
                       /\ g.state[id] = "live" => g.under[id] = resp \/ faults
                       /\ Others(g)
<1>1. /\ resp \in ReplyObjects /\ err \in ReplyObjects /\ id \in ReplyObjects
      /\ resp # err /\ id # resp /\ id # err /\ NoOwner \notin ReplyObjects
  BY ReplyObjectsAre
<1>2. reply_heap.state[resp] # "live" /\ reply_heap.state[err] # "live"
      /\ reply_heap.state[id] # "live"
  OBVIOUS
<1> HIDE DEF id
<1>3. Reply(created) /\ created.state[id] # "live"
  <2>1. /\ created \in Heap(ReplyObjects) /\ ~created.fault
        /\ \A x \in ReplyObjects :
              /\ created.state[x] = IF x = resp THEN "live" ELSE reply_heap.state[x]
              /\ created.under[x] = IF x = resp THEN NoOwner ELSE reply_heap.under[x]
    BY <1>1, <1>2, AllocIn
  <2> HIDE DEF created
  <2> QED BY <1>1, <1>2, <2>1 DEF Root
<1> HIDE DEF created
<1>4. /\ made \in Heap(ReplyObjects) /\ ~made.fault /\ Root(made, resp) /\ Root(made, id)
      /\ made.state[err] # "live" /\ Others(made)
  <2>1. /\ made \in Heap(ReplyObjects) /\ ~made.fault
        /\ \A x \in ReplyObjects :
              /\ made.state[x] = IF x = id THEN "live" ELSE created.state[x]
              /\ made.under[x] = IF x = id THEN NoOwner ELSE created.under[x]
    <3>1. created \in Heap(ReplyObjects) /\ ~created.fault /\ created.state[id] # "live"
      BY <1>3
    <3> QED BY ONLY <1>1, <3>1, AllocIn
  <2> HIDE DEF made
  <2> QED BY <1>1, <1>3, <2>1 DEF Root
<1> HIDE DEF made
<1>5. Reply(Attach(made, id, resp))
  <2> DEFINE g == Attach(made, id, resp)
  <2>1. /\ g \in Heap(ReplyObjects) /\ ~g.fault
        /\ \A x \in ReplyObjects :
              /\ g.state[x] = made.state[x]
              /\ g.under[x] = IF x = id THEN resp ELSE made.under[x]
    <3>1. /\ made \in Heap(ReplyObjects) /\ ~made.fault /\ made.state[resp] = "live"
          /\ made.state[id] = "live" /\ made.under[id] = NoOwner
      BY <1>4 DEF Root
    <3> QED BY ONLY <1>1, <3>1, AttachIn
  <2> HIDE DEF g
  <2>2. Reply(g)
    BY <1>1, <1>4, <2>1 DEF Root
  <2> QED BY <2>2 DEF g
<1>6. \A g \in WithId(n) : Reply(g)
  BY <1>3, <1>4, <1>5 DEF WithId, created, made, id
<1>7. CASE h \in WithId(n)
  BY <1>6, <1>7 DEF id
<1>8. ASSUME NEW g \in WithId(n), h = Attach(Alloc(g, err), err, resp)
      PROVE  /\ h \in Heap(ReplyObjects) /\ ~h.fault
             /\ Root(h, resp) /\ h.under[err] = resp
             /\ h.state[id] = "live" => h.under[id] = resp \/ faults
             /\ Others(h)
  <2> DEFINE a == Alloc(g, err)
  <2>1. Reply(g)
    BY <1>6
  <2>2. /\ a \in Heap(ReplyObjects) /\ ~a.fault
        /\ \A x \in ReplyObjects :
              /\ a.state[x] = IF x = err THEN "live" ELSE g.state[x]
              /\ a.under[x] = IF x = err THEN NoOwner ELSE g.under[x]
    <3>1. g \in Heap(ReplyObjects) /\ ~g.fault /\ g.state[err] # "live"
      BY <2>1
    <3> QED BY ONLY <1>1, <3>1, AllocIn
  <2> HIDE DEF a
  <2>3. a.state[err] = "live" /\ a.state[resp] = "live" /\ a.under[err] = NoOwner
    BY <1>1, <2>1, <2>2 DEF Root
  <2>4. /\ h \in Heap(ReplyObjects) /\ ~h.fault
        /\ \A x \in ReplyObjects :
              /\ h.state[x] = a.state[x]
              /\ h.under[x] = IF x = err THEN resp ELSE a.under[x]
    <3> DEFINE q == Attach(a, err, resp)
    <3>1. /\ q \in Heap(ReplyObjects) /\ ~q.fault
          /\ \A x \in ReplyObjects :
                /\ q.state[x] = a.state[x]
                /\ q.under[x] = IF x = err THEN resp ELSE a.under[x]
      <4>1. a \in Heap(ReplyObjects) /\ ~a.fault
        BY ONLY <2>2
      <4> QED BY ONLY <1>1, <2>3, <4>1, AttachIn
    <3>2. h = q
      BY <1>8 DEF a
    <3> HIDE DEF q
    <3> QED BY ONLY <3>1, <3>2
  <2> QED BY <1>1, <2>1, <2>2, <2>4 DEF Root
<1>9. \/ h \in WithId(n)
      \/ \E g \in WithId(n) : h = Attach(Alloc(g, err), err, resp)
  BY DEF WithError
<1> QED BY <1>7, <1>8, <1>9 DEF id

(* Once it is deleted nothing of it is left but a null that is not in it.  *)
LEMMA ReplyIsGone ==
    ASSUME NEW n \in 1..MaxLines, reply_heap \in Heap(ReplyObjects), ~reply_heap.fault,
           \A o \in {resp, err, null_id(n)} : reply_heap.state[o] # "live",
           NEW h \in WithError(n), NEW new, new = Return(Delete(h, {resp}))
    PROVE  /\ new \in Heap(ReplyObjects) /\ ~new.fault
           /\ \A o \in ReplyObjects : new.state[o] = "live" =>
                 reply_heap.state[o] = "live" \/ (o = null_id(n) /\ faults)
<1> DEFINE d == Delete(h, {resp})
<1>1. /\ h \in Heap(ReplyObjects) /\ ~h.fault
      /\ Root(h, resp)
      /\ h.state[err] = "live" => h.under[err] = resp
      /\ h.state[null_id(n)] = "live" => h.under[null_id(n)] = resp \/ faults
      /\ \A x \in ReplyObjects \ {resp, err, null_id(n)} :
            h.state[x] = reply_heap.state[x]
  BY WithErrorIs
<1>2. resp \in ReplyObjects /\ NoOwner \notin ReplyObjects
  BY ReplyObjectsAre
<1>3. /\ d \in Heap(ReplyObjects) /\ ~d.fault
      /\ \A x \in ReplyObjects :
            d.state[x] = IF /\ h.state[x] = "live"
                            /\ \E r \in {resp} : h.state[r] = "live" /\ r \in Owners(h, x)
                         THEN "freed" ELSE h.state[x]
  <2>1. {resp} \in SUBSET ReplyObjects /\ \A r \in {resp} : RootOrNull(h, r)
    BY <1>1, <1>2 DEF RootOrNull
  <2> QED BY <1>1, <2>1, DeleteIn
<1>4. \A x \in ReplyObjects : x = resp \/ h.under[x] = resp => resp \in Owners(h, x)
  BY <1>2 DEF Owners, Owner
<1>5. \A x \in ReplyObjects : d.state[x] = "live" =>
         /\ h.state[x] = "live" /\ x # resp /\ h.under[x] # resp
  BY <1>1, <1>2, <1>3, <1>4 DEF Root
<1>6. new = Return(d)
  OBVIOUS
<1> HIDE DEF d
<1>7. /\ new \in Heap(ReplyObjects) /\ ~new.fault
      /\ \A x \in ReplyObjects : new.state[x] = "live" => d.state[x] = "live"
  BY ONLY <1>3, <1>6, ReturnIn
<1>8. \A x \in ReplyObjects : d.state[x] = "live" =>
         reply_heap.state[x] = "live" \/ (x = null_id(n) /\ faults)
  BY <1>1, <1>5
<1> QED BY ONLY <1>7, <1>8

(* The invariant holds at the start.                                       *)
LEMMA ReplyInit == Init => ReplyInv
<1>1. EmptyHeap(ReplyObjects) \in Heap(ReplyObjects)
      /\ ~EmptyHeap(ReplyObjects).fault
      /\ \A o \in ReplyObjects : EmptyHeap(ReplyObjects).state[o] = "null"
  BY DEF EmptyHeap, Heap
<1> QED BY <1>1 DEF Init, ReplyInv

(* What was lost stays lost while its line stays and the core does not     *)
(* answer it.                                                              *)
LEMMA LostStays ==
    ASSUME NEW o, Lost(o), faults' = faults,
           \A n \in DOMAIN lines :
              /\ n \in DOMAIN lines' /\ lines'[n] = lines[n]
              /\ n # Len(lines) \/ io \notin {"parse", "core"} =>
                    /\ io' \in {"parse", "core"} => n # Len(lines')
                    /\ \A j \in DOMAIN stdout' : stdout'[j].line = n /\ stdout'[j].core =>
                          j \in DOMAIN stdout /\ stdout[j] = stdout'[j]
    PROVE  Lost(o)'
BY DEF Lost

(* The loop's steps keep it.                                               *)
LEMMA ReplyKeeps ==
    ASSUME IInv, ReplyInv, [Next]_vars
    PROVE  ReplyInv'
<1>1. lines \in Seq(Line) /\ stdout \in Seq(Output) /\ Len(lines) \in Nat
      /\ DOMAIN lines = 1..Len(lines) /\ faults \in BOOLEAN
      /\ DOMAIN stdout = 1..Len(stdout) /\ Len(stdout) \in Nat
  BY DEF IInv, LoopInv, StdioTypeOK, CoreInv, CoreTypeOK
<1>2. faults' = faults
  BY DEF Next, ReadStep, LoopStep, Terminated, vars
<1>3. ASSUME reply_heap' = reply_heap, \A o : Lost(o) => Lost(o)'
      PROVE  ReplyInv'
  BY <1>3 DEF ReplyInv
<1>4. CASE getline
  <2>1. PICK l \in Line : lines' = Append(lines, l)
    BY <1>4 DEF getline
  <2>2. stdout' = stdout /\ reply_heap' = reply_heap /\ io = "getline"
    BY <1>4 DEF getline
  <2>3. /\ DOMAIN lines' = 1..Len(lines) + 1 /\ Len(lines') = Len(lines) + 1
        /\ \A n \in 1..Len(lines) : lines'[n] = lines[n]
    BY <1>1, <2>1, SeqGrows
  <2>4. \A o : Lost(o) => Lost(o)'
    BY <1>1, <1>2, <2>2, <2>3, LostStays
  <2> QED BY <1>3, <2>2, <2>4
<1>5. CASE UNCHANGED <<lines, stdout, reply_heap>>
           /\ (io' \in {"parse", "core"} => io \in {"parse", "core"})
  <2>1. \A o : Lost(o) => Lost(o)'
    BY <1>2, <1>5, LostStays
  <2> QED BY <1>3, <1>5, <2>1
<1>6. CASE respond
  <2>1. io = "core" /\ io' \in {"getline", "break"} /\ lines' = lines
        /\ reply_heap' = reply_heap
    BY <1>6 DEF respond
  <2>2. stdout' = stdout \/ \E o : o.line = Len(lines) /\ stdout' = Append(stdout, o)
    BY <1>6 DEF respond, write_message
  <2>3. ASSUME NEW o, o.line = Len(lines), stdout' = Append(stdout, o)
        PROVE  \A j \in DOMAIN stdout' : stdout'[j].line # Len(lines) =>
                  j \in DOMAIN stdout /\ stdout[j] = stdout'[j]
    BY <1>1, <2>3
  <2>4. \A o : Lost(o) => Lost(o)'
    BY <1>1, <1>2, <2>1, <2>2, <2>3, LostStays
  <2> QED BY <1>3, <2>1, <2>4
<1>7. CASE parse_error
  <2>1. io = "parse" /\ io' = "getline" /\ lines' = lines
    BY <1>7 DEF parse_error
  <2>2. /\ Len(lines) \in 1..MaxLines /\ Len(lines) \in DOMAIN lines
        /\ lines[Len(lines)].kind # "blank"
        /\ \A j \in DOMAIN stdout : stdout[j].line # Len(lines)
    BY <1>1, <2>1, AtHandIs
  <2>3. stdout' = stdout \/ \E o : /\ o.line = Len(lines) /\ ~o.core
                                  /\ stdout' = Append(stdout, o)
    BY <1>7, <2>1 DEF parse_error, write_message
  <2>4. ASSUME NEW o, ~o.core, stdout' = Append(stdout, o)
        PROVE  \A j \in DOMAIN stdout' : stdout'[j].core =>
                  j \in DOMAIN stdout /\ stdout[j] = stdout'[j]
    BY <1>1, <2>4
  <2>5. \A j \in DOMAIN stdout' : stdout'[j].core =>
           j \in DOMAIN stdout /\ stdout[j] = stdout'[j]
    BY <2>3, <2>4
  <2>6. \A o : Lost(o) => Lost(o)'
    BY <1>1, <1>2, <2>1, <2>5, LostStays
  <2>7. CASE reply_heap' = reply_heap
    BY <1>3, <2>6, <2>7
  <2>8. CASE \E h \in WithError(Len(lines)) : reply_heap' = Return(Delete(h, {resp}))
    <3>1. PICK h \in WithError(Len(lines)) : reply_heap' = Return(Delete(h, {resp}))
      BY <2>8
    <3>2. \A o \in {resp, err, null_id(Len(lines))} : reply_heap.state[o] # "live"
      <4>1. \A o \in {resp, err, null_id(Len(lines))} : o \in ReplyObjects /\ ~Lost(o)
        BY <1>1, <2>1, <2>2, ReplyObjectsAre DEF Lost
      <4> QED BY <4>1 DEF ReplyInv
    <3>3. /\ reply_heap' \in Heap(ReplyObjects) /\ ~reply_heap'.fault
          /\ \A o \in ReplyObjects : reply_heap'.state[o] = "live" =>
                reply_heap.state[o] = "live" \/ (o = null_id(Len(lines)) /\ faults)
      BY <2>2, <3>1, <3>2, ReplyIsGone DEF ReplyInv
    <3>4. ASSUME NEW o, o = null_id(Len(lines)), faults PROVE Lost(o)'
      <4>1. \A j \in DOMAIN stdout' : stdout'[j].line = Len(lines) => ~stdout'[j].core
        BY ONLY <2>2, <2>5
      <4>2. /\ o = null_id(Len(lines)) /\ Len(lines) \in DOMAIN lines' /\ faults'
            /\ lines'[Len(lines)].kind # "blank" /\ io' \notin {"parse", "core"}
        BY <1>2, <2>1, <2>2, <3>4
      <4> QED BY ONLY <4>1, <4>2, Zenon DEF Lost
    <3> QED BY <2>6, <3>3, <3>4 DEF ReplyInv
  <2> QED BY <1>7, <2>7, <2>8 DEF parse_error
<1>8. getline \/ respond \/ parse_error
      \/ /\ UNCHANGED <<lines, stdout, reply_heap>>
         /\ io' \in {"parse", "core"} => io \in {"parse", "core"}
  BY DEF Next, vars, ReadStep, LoopStep, Terminated, getline_fails, run_returns,
         parse_ok, core, no_response
<1> QED BY <1>4, <1>5, <1>6, <1>7, <1>8

LEMMA ReplyInvariance == Spec => []ReplyInv
<1>1. IInv /\ ReplyInv /\ [Next]_vars => ReplyInv'
  BY ReplyKeeps
<1> QED BY <1>1, ReplyInit, Invariance, PTL DEF Spec

----------------------------------------------------------------------------
(* The theorems.                                                           *)

(* The variables stay in their types.                                      *)
THEOREM LoopTypeCorrect == Spec => []TypeOK
<1>1. IInv /\ ReplyInv => TypeOK
  BY DEF IInv, CoreInv, LoopInv, ReplyInv, TypeOK
<1> QED BY <1>1, Invariance, ReplyInvariance, PTL

(* The result of a tool call says what the handler did: isError if and     *)
(* only if it failed or set an error, the last error's text first, and     *)
(* each text it added after that, in their order, whatever could not be    *)
(* stored (handle_tools_call and the response builder of mcp_server.c).    *)
THEOREM ToolErrorToldCorrect == Spec => []ToolErrorTold
<1>1. IInv => ToolErrorTold
  <2> SUFFICES ASSUME IInv, at = "done", Answered, response.code = 0,
                      msg.method = "tools/call"
               PROVE  LET shift == IF failed \/ Errors # {} THEN 1 ELSE 0
                      IN  /\ response.isError <=> shift = 1
                          /\ Len(response.content) = Cardinality(Added(Len(calls))) + shift
                          /\ \A i \in Added(Len(calls)) :
                                response.content[Cardinality(Added(i)) + shift]
                                = calls[i].text
                          /\ shift = 1 => response.content[1] \in ErrorTold
    BY DEF ToolErrorTold
  <2>1. /\ Tells(response.content, response.isError, calls, failed)
        /\ response.isError => response.content[1] \in ErrorTold
    BY DEF IInv, CoreInv, Collected
  <2>2. Errors = ErrorsOf(calls) /\ \A n : Added(n) = AddedBy(calls, n)
    BY DEF Errors, ErrorsOf, Added, AddedBy
  <2> QED BY <2>1, <2>2 DEF Tells, Holds, Shift
<1> QED BY <1>1, Invariance, PTL

(* Of the trees the core builds nothing is left between two lines, and of  *)
(* the loop's own replies nothing but the null id that could not be added  *)
(* to one (the cJSON_Delete calls of handle_tools_list, handle_tools_call, *)
(* mcp_tool_response_add_text, make_result, make_error and                 *)
(* mcp_server_run_stdio, and the one it lacks).                            *)
THEOREM OnlyIdsLeakCorrect == Spec => []OnlyIdsLeak
<1>1. IInv /\ ReplyInv => OnlyIdsLeak
  <2> SUFFICES ASSUME IInv, ReplyInv PROVE OnlyIdsLeak
    OBVIOUS
  <2>1. ASSUME at = "idle" PROVE Live(heap) = {}
    <3>1. heap \in Heap(Objects) /\ \A o \in Objects : heap.state[o] = "null"
      BY <2>1 DEF IInv, CoreInv, HeapAt, Sound
    <3>2. DOMAIN heap.state = Objects
      BY <3>1 DEF Heap
    <3> QED BY <3>1, <3>2 DEF Live
  <2>2. \A o \in Live(reply_heap) : Lost(o)
    BY DEF ReplyInv, Live, Heap
  <2> QED BY <2>1, <2>2 DEF OnlyIdsLeak, Lost
<1> QED BY <1>1, Invariance, ReplyInvariance, PTL

(* And each is freed once: none frees what another tree owns by then.      *)
THEOREM NoHeapFaultCorrect == Spec => []NoHeapFault
<1>1. IInv /\ ReplyInv => NoHeapFault
  <2> SUFFICES ASSUME IInv, ReplyInv PROVE ~heap.fault
    BY DEF NoHeapFault, ReplyInv
  <2>1. at \in Places /\ HeapAt(at, ix, heap)
    BY DEF IInv, CoreInv, CoreTypeOK
  <2> QED BY <2>1, SoundAt DEF Sound
<1> QED BY <1>1, Invariance, ReplyInvariance, PTL

(* A response of the core that was not written in full is the last thing   *)
(* mcp_server_run_stdio writes, and it returns MCP_ERR_IO.                 *)
THEOREM LossEndsLoopCorrect == Spec => []LossEndsLoop
<1>1. IInv => LossEndsLoop
  BY DEF IInv, LoopInv
<1> QED BY <1>1, Invariance, PTL

(* No tool's handler runs before a request to initialize was taken.        *)
THEOREM InitializeFirstCorrect == Spec => []InitializeFirst
<1>1. IInv => InitializeFirst
  <2> SUFFICES ASSUME IInv, at = "handler"
               PROVE  \E i \in 1..Len(lines) - 1 : InitializeRequest(lines[i])
    BY DEF InitializeFirst
  <2>1. io = "core" /\ initialized /\ msg.method = "tools/call" /\ msg = Last.msg
    BY DEF IInv, CoreInv, Dispatched, ToolPlaces, LoopInv, AtHand
  <2>2. lines \in Seq(Line) /\ lines # <<>> /\ Last = lines[Len(lines)]
    BY <2>1, AtHandIs
  <2>3. Tried = Len(lines)
    BY <2>1 DEF Tried
  <2>4. Opened(lines, Len(lines))
    BY <2>1, <2>3 DEF IInv, InitializedBy
  <2>5. ~InitializeRequest(Last)
    BY <2>1 DEF InitializeRequest
  <2>6. Opened(lines, Len(lines) - 1)
    BY <2>2, <2>4, <2>5, OpenedByLast
  <2> QED BY <2>6 DEF Opened
<1> QED BY <1>1, Invariance, PTL

(* When neither memory nor output fails, a line that calls for a reply has *)
(* one before mcp_server_run_stdio takes the next line.                    *)
THEOREM EveryRequestAnsweredCorrect == Spec => []EveryRequestAnswered
<1>1. IInv => EveryRequestAnswered
  <2> SUFFICES ASSUME IInv, io = "getline", ~faults, NEW i \in DOMAIN lines
               PROVE  \/ Replies(i) # {}
                      \/ lines[i].kind = "blank"
                      \/ lines[i].kind = "message" /\ IsNotification(lines[i].msg)
    BY DEF EveryRequestAnswered
  <2>1. i \in 1..Dealt
    BY DEF IInv, LoopInv, StdioTypeOK, Dealt
  <2>2. Settled(lines, stdout, i)
    BY <2>1 DEF IInv, LoopInv, AllSettled
  <2> QED BY <2>2 DEF Settled, Replies
<1> QED BY <1>1, Invariance, PTL

(* Requests for tools are refused as invalid until a request to initialize *)
(* was taken, and never afterwards.                                        *)
THEOREM InitializeGatesCorrect == Spec => []InitializeGates
<1>1. IInv /\ InitializeFirst => InitializeGates
  <2> SUFFICES ASSUME IInv, ~faults, NEW i \in DOMAIN stdout,
                      lines[stdout[i].line].kind = "message",
                      ToolRequest(lines[stdout[i].line].msg)
               PROVE  stdout[i].response.code = JSONRPC_INVALID_REQUEST <=>
                         \A k \in 1..stdout[i].line - 1 : ~InitializeRequest(lines[k])
    BY DEF InitializeGates, ToolRequest, ToolMethods
  <2>1. Gated(lines, stdout[i])
    BY DEF IInv, LoopInv, AllGated
  <2> QED BY <2>1 DEF Gated, Opened
<1> QED BY <1>1, Invariance, InitializeFirstCorrect, PTL

----------------------------------------------------------------------------
(* The refinement.                                                         *)

Said(w) == [i \in DOMAIN w |-> [line |-> w[i].line, to |-> AnswersTo(w[i])]]

(* A sequence with one more element, known by its elements.                *)
LEMMA AppendIs ==
    ASSUME NEW T, NEW s \in Seq(T), NEW e \in T, NEW t \in Seq(T),
           Len(t) = Len(s) + 1, t[Len(s) + 1] = e,
           \A i \in 1..Len(s) : t[i] = s[i]
    PROVE  t = Append(s, e)
<1>1. Append(s, e) \in Seq(T) /\ Len(Append(s, e)) = Len(t)
  BY SeqGrows
<1>2. \A i \in 1..Len(t) : t[i] = Append(s, e)[i]
  <2> SUFFICES ASSUME NEW i \in 1..Len(t) PROVE t[i] = Append(s, e)[i]
    OBVIOUS
  <2>1. i \in 1..Len(s) \/ i = Len(s) + 1
    OBVIOUS
  <2> QED BY <2>1, SeqGrows
<1> QED BY <1>1, <1>2, SeqEqual

(* What is written to the line at hand is said.                            *)
LEMMA WriteSays ==
    ASSUME IInv, io \in {"parse", "core"}, lines' = lines, io' # "returned",
           NEW o, stdout' = Append(stdout, o), o \in Output, o.line = Len(lines),
           AnswersTo(o) \in OwedTo(Last)
    PROVE  Promise!Say
<1>1. /\ stdout \in Seq(Output) /\ DOMAIN stdout = 1..Len(stdout) /\ Len(stdout) \in Nat
      /\ lines # <<>> /\ Len(lines) \in Nat \ {0}
      /\ Last \in Line /\ Last = lines[Len(lines)]
      /\ \A i \in DOMAIN stdout : stdout[i].line \in 1..Len(lines) - 1
  BY AtHandIs
<1>2. /\ DOMAIN stdout' = 1..Len(stdout) + 1 /\ stdout'[Len(stdout) + 1] = o
      /\ \A i \in 1..Len(stdout) : stdout'[i] = stdout[i]
  BY <1>1, SeqGrows
<1>3. Said(stdout') = Append(Said(stdout), [line |-> Len(lines), to |-> AnswersTo(o)])
  <2> DEFINE e == [line |-> Len(lines), to |-> AnswersTo(o)]
  <2>1. /\ DOMAIN Said(stdout) = 1..Len(stdout) /\ DOMAIN Said(stdout') = 1..Len(stdout) + 1
        /\ Said(stdout')[Len(stdout) + 1] = e
        /\ \A i \in 1..Len(stdout) : Said(stdout')[i] = Said(stdout)[i]
    BY <1>1, <1>2 DEF Said
  <2> DEFINE T == {Said(stdout')[i] : i \in 1..Len(stdout) + 1}
  <2>2. /\ e \in T /\ \A i \in 1..Len(stdout) : Said(stdout)[i] \in T
        /\ \A i \in 1..Len(stdout) + 1 : Said(stdout')[i] \in T
    BY <1>1, <2>1
  <2>3. Said(stdout) = [i \in 1..Len(stdout) |-> Said(stdout)[i]]
        /\ Said(stdout') = [i \in 1..Len(stdout) + 1 |-> Said(stdout')[i]]
    BY <1>1, <1>2 DEF Said
  <2> HIDE DEF e, T
  <2>4. Said(stdout) \in Seq(T) /\ Said(stdout') \in Seq(T)
    BY <1>1, <2>1, <2>2, <2>3
  <2>5. Len(Said(stdout)) = Len(stdout) /\ Len(Said(stdout')) = Len(stdout) + 1
    BY <1>1, <2>1, <2>4
  <2> QED BY <2>1, <2>2, <2>4, <2>5, AppendIs DEF e
<1>4. \A i \in DOMAIN Said(stdout) : Said(stdout)[i].line # Len(lines)
  BY <1>1 DEF Said
<1>5. AnswersTo(o) \in [line \in Line |-> OwedTo(line)][lines[Len(lines)]]
  BY <1>1
<1> QED BY <1>1, <1>3, <1>4, <1>5 DEF Promise!Say, Said

(* Every step of the loop is one of Responder's, or none.                  *)
LEMMA StepSays ==
    ASSUME IInv, [Next]_vars
    PROVE  [Promise!Next]_<<lines, Said(stdout), io = "returned">>
<1>1. CASE UNCHANGED <<lines, stdout>> /\ (io = "returned" <=> io' = "returned")
  BY <1>1 DEF Said
<1>2. CASE getline
  <2>1. PICK l \in Line : lines' = Append(lines, l) /\ io' # "returned"
    BY <1>2 DEF getline
  <2>2. io # "returned" /\ stdout' = stdout
    BY <1>2 DEF getline
  <2>3. Promise!Hear(l)
    BY <2>1, <2>2 DEF Promise!Hear
  <2> QED BY <2>1, <2>3 DEF Promise!Next
<1>3. CASE run_returns
  <2>1. Promise!Stop
    BY <1>3 DEF run_returns, Promise!Stop
  <2> QED BY <2>1 DEF Promise!Next
<1>4. CASE parse_error /\ stdout' # stdout
  <2>1. /\ io = "parse" /\ io' = "getline" /\ lines' = lines
    BY <1>4 DEF parse_error
  <2>2. PICK c \in {JSONRPC_PARSE_ERROR, 0}, ok \in BOOLEAN :
           write_message([NoResponse EXCEPT !.code = c], ok)
    BY <1>4 DEF parse_error, ErrorCodes
  <2> DEFINE reply == [NoResponse EXCEPT !.code = c]
             o == Written(reply, ok)
  <2>3. reply \in Response
    <3>1. NoResponse \in Response /\ c \in Codes
      BY NoneIsSeq DEF NoResponse, Response, Codes
    <3> QED BY <3>1 DEF Response
  <2> HIDE DEF reply
  <2>4. stdout' = Append(stdout, o) /\ o \in Output
    BY <1>4, <2>1, <2>2, <2>3, AtHandIs, WriteIs DEF IInv, reply
  <2>5. o.line = Len(lines) /\ AnswersTo(o) = "unread"
    BY <2>1 DEF Written, AnswersTo
  <2>6. "unread" \in OwedTo(Last)
    <3>1. Last.kind \in {"garbage", "message"}
      BY <2>1, AtHandIs, LineIs
    <3> QED BY <3>1 DEF OwedTo
  <2> HIDE DEF o
  <2>7. Promise!Say
    BY <2>1, <2>4, <2>5, <2>6, WriteSays
  <2> QED BY <2>7 DEF Promise!Next
<1>5. CASE respond /\ stdout' # stdout
  <2>1. /\ io = "core" /\ at = "done" /\ Answered /\ lines' = lines
        /\ io' \in {"getline", "break"}
    BY <1>5 DEF respond
  <2>2. PICK ok \in BOOLEAN : write_message(response, ok)
    BY <1>5 DEF respond
  <2> DEFINE o == Written(response, ok)
  <2>3. stdout' = Append(stdout, o) /\ o \in Output
    <3>1. response \in Response
      BY DEF IInv, CoreInv, CoreTypeOK
    <3> QED BY <1>5, <2>1, <2>2, <3>1, AtHandIs, WriteIs DEF IInv
  <2>4. o.line = Len(lines) /\ AnswersTo(o) = response.id
    BY <2>1 DEF Written, AnswersTo
  <2>5. response.id = clone_id /\ ~IsNotification(msg)
    BY <2>1 DEF IInv, CoreInv, RightlyAnswered
  <2>6. Last.kind = "message" /\ msg = Last.msg
    BY <2>1 DEF IInv, LoopInv, AtHand
  <2>7. response.id \in OwedTo(Last)
    BY <2>5, <2>6 DEF OwedTo, clone_id
  <2> HIDE DEF o
  <2>8. Promise!Say
    BY <2>1, <2>3, <2>4, <2>7, WriteSays
  <2> QED BY <2>8 DEF Promise!Next
<1>6. \/ UNCHANGED <<lines, stdout>> /\ (io = "returned" <=> io' = "returned")
      \/ getline \/ run_returns
      \/ parse_error /\ stdout' # stdout
      \/ respond /\ stdout' # stdout
  BY DEF Next, vars, ReadStep, LoopStep, Terminated, getline_fails, parse_error,
         parse_ok,
         core, no_response, respond
<1> QED BY <1>1, <1>2, <1>3, <1>4, <1>5, <1>6

(* The loop of mcp_server_run_stdio keeps a transport's promise: every step *)
(* of it is one that Responder allows, or none that a client can see.      *)
THEOREM KeepsPromiseCorrect == Spec => KeepsPromise
<1>1. Init => Promise!Init
  <2> SUFFICES ASSUME Init PROVE Promise!Init
    OBVIOUS
  <2>1. stdout = <<>> /\ lines = <<>> /\ io # "returned"
    BY DEF Init
  <2>2. [i \in DOMAIN stdout |-> [line |-> stdout[i].line,
                                 to |-> AnswersTo(stdout[i])]] = <<>>
    BY <2>1
  <2> QED BY <2>1, <2>2 DEF Promise!Init
<1>2. IInv /\ [Next]_vars =>
         [Promise!Next]_<<lines, Said(stdout), io = "returned">>
  BY StepSays
<1> QED BY <1>1, <1>2, Invariance, PTL DEF Spec, KeepsPromise, Promise!Spec, Said

(* The replies a client reads match its lines, one to a line at most, in   *)
(* their order.                                                            *)
THEOREM RepliesMatchCorrect == Spec => []RepliesMatch
BY KeepsPromiseCorrect, Promise!PromiseMeans, PTL DEF KeepsPromise, RepliesMatch

----------------------------------------------------------------------------
(* Every line is dealt with in finitely many steps.                        *)

(* The core, while it has a message, has at least one step left.           *)
LEMMA CoreStepsLeftIs ==
    ASSUME IInv, at # "idle"
    PROVE  CoreStepsLeft \in 2..ToolCount + MaxCalls + 11
<1>1. /\ ToolCount \in Nat /\ MaxCalls \in Nat /\ ix \in 1..ToolCount + 1
      /\ Len(calls) \in Nat /\ at \in Places
      /\ at = "handler" => Len(calls) <= MaxCalls
  BY CoreBounds DEF IInv, CoreInv, CoreTypeOK, Collected
<1>2. CASE at = "handler"
  BY <1>1, <1>2 DEF CoreStepsLeft
<1>3. CASE at = "list"
  BY <1>1, <1>3 DEF CoreStepsLeft
<1>4. CASE at \in {"handle", "tools/call", "content", "tools/list"}
  <2>1. CoreStepsLeft \in {ToolCount + MaxCalls + 11, MaxCalls + 10, MaxCalls + 9,
                           ToolCount + 5}
    BY <1>4, Zenon DEF CoreStepsLeft
  <2> QED BY <1>1, <2>1
<1>5. CASE at \notin {"handle", "tools/call", "content", "tools/list", "handler", "list"}
  <2>1. CoreStepsLeft \in 2..7
    BY <1>5 DEF CoreStepsLeft
  <2> QED BY <1>1, <2>1
<1> QED BY <1>2, <1>3, <1>4, <1>5

(* Each step of the core leaves fewer.                                     *)
LEMMA CoreStepCounts ==
    ASSUME IInv, CoreStep, at # "idle", at' # "idle"
    PROVE  CoreStepsLeft' < CoreStepsLeft
<1>1. /\ ToolCount \in Nat /\ MaxCalls \in Nat /\ ix \in 1..ToolCount + 1
      /\ Len(calls) \in Nat /\ calls \in Seq(BuilderCall) /\ at \in Places
      /\ CoreTypeOK
  BY CoreBounds DEF IInv, CoreInv, CoreTypeOK
<1>2. CASE at = "handle"
  <2>1. at' \in {"make_error", "done", "initialize", "ping", "tools/list", "tools/call"}
    BY <1>1, <1>2, HandleLeads
  <2> QED BY <1>1, <1>2, <2>1 DEF CoreStepsLeft
<1>3. CASE at \in {"initialize", "ping", "tools/call", "make_result", "make_error"}
  <2>1. /\ at \in {"initialize", "ping"} => at' \in {"make_result", "make_error"}
        /\ at = "tools/call" => at' \in {"content", "make_error"}
        /\ at \in {"make_result", "make_error"} => at' = "done"
    BY <1>3, Zenon DEF CoreStep, refuse, ignore_notification, dispatch,
       handle_initialize, handle_ping, handle_tools_list, list_tool, list_end,
       call_refused, call_args, call_content, mcp_tool_response_add_text,
       mcp_tool_response_set_error, handler_returns, call_result, call_error_item,
       call_attach, call_is_error, make_result, make_error, fail, oom
  <2> QED BY <1>1, <1>3, <2>1 DEF CoreStepsLeft
<1>4. CASE at \in {"tools/list", "list"}
  <2>1. \/ at = "tools/list" /\ at' = "list" /\ ix' = 1
        \/ at = "list" /\ at' = "list" /\ ix' = ix + 1 /\ ix <= ToolCount
        \/ at' \in {"make_result", "make_error"}
    BY <1>4 DEF CoreStep, refuse, ignore_notification, dispatch,
       handle_initialize, handle_ping, handle_tools_list, list_tool, list_end,
       call_refused, call_args, call_content, mcp_tool_response_add_text,
       mcp_tool_response_set_error, handler_returns, call_result, call_error_item,
       call_attach, call_is_error, make_result, make_error, fail, oom
  <2> QED BY <1>1, <1>4, <2>1 DEF CoreStepsLeft
<1>5. CASE at \in {"content", "handler"}
  <2>1. \/ at = "content" /\ at' = "handler" /\ calls' = <<>>
        \/ /\ at = "handler" /\ at' = "handler" /\ Len(calls) < MaxCalls
           /\ \E c \in BuilderCall : calls' = Append(calls, c)
        \/ at = "handler" /\ at' = "result"
        \/ at' = "make_error"
    <3>1. call_content \/ handler_returns \/ mcp_tool_response_add_text
          \/ mcp_tool_response_set_error
      BY <1>5 DEF CoreStep, refuse, ignore_notification, dispatch,
         handle_initialize, handle_ping, handle_tools_list, list_tool, list_end,
         call_refused, call_args, call_content, mcp_tool_response_add_text,
         mcp_tool_response_set_error, handler_returns, call_result, call_error_item,
         call_attach, call_is_error, make_result, make_error
    <3>2. CASE call_content
      BY <3>2 DEF call_content, fail, oom
    <3>3. CASE handler_returns
      BY <3>3 DEF handler_returns
    <3>4. CASE mcp_tool_response_add_text
      <4>1. \A stored \in Allocates, text \in ToolTexts :
               [add |-> TRUE, text |-> text, stored |-> stored] \in BuilderCall
        BY DEF BuilderCall, Texts, Allocates
      <4> QED BY <3>4, <4>1 DEF mcp_tool_response_add_text
    <3>5. CASE mcp_tool_response_set_error
      <4>1. \A stored \in Allocates, text \in {"message", "empty"} :
               [add |-> FALSE, text |-> text, stored |-> stored] \in BuilderCall
        BY DEF BuilderCall, Texts, Allocates
      <4> QED BY <3>5, <4>1 DEF mcp_tool_response_set_error
    <3> QED BY <3>1, <3>2, <3>3, <3>4, <3>5
  <2>2. ASSUME at = "handler", at' = "handler", Len(calls) < MaxCalls,
               NEW c \in BuilderCall, calls' = Append(calls, c)
        PROVE  CoreStepsLeft' < CoreStepsLeft
    <3>1. Len(calls') = Len(calls) + 1
      BY <1>1, <2>2
    <3> QED BY <1>1, <2>2, <3>1 DEF CoreStepsLeft
  <2>3. Len(calls) <= MaxCalls \/ at # "handler"
    BY DEF IInv, CoreInv, Collected
  <2>4. ASSUME at = "content", at' = "handler", calls' = <<>>
        PROVE  CoreStepsLeft' < CoreStepsLeft
    <3>1. Len(calls') = 0
      BY <2>4
    <3> QED BY <1>1, <2>4, <3>1 DEF CoreStepsLeft
  <2>5. CASE at' \in {"result", "make_error"}
    BY <1>1, <1>5, <2>3, <2>5 DEF CoreStepsLeft
  <2> QED BY <2>1, <2>2, <2>4, <2>5
<1>6. CASE at \in {"result", "error_item", "attach", "is_error"}
  <2>1. /\ at = "result" => at' \in {"error_item", "make_error"}
        /\ at = "error_item" => at' \in {"attach", "make_error"}
        /\ at = "attach" => at' \in {"is_error", "make_error"}
        /\ at = "is_error" => at' \in {"make_result", "make_error"}
    BY <1>6, Zenon DEF CoreStep, refuse, ignore_notification, dispatch,
       handle_initialize, handle_ping, handle_tools_list, list_tool, list_end,
       call_refused, call_args, call_content, mcp_tool_response_add_text,
       mcp_tool_response_set_error, handler_returns, call_result, call_error_item,
       call_attach, call_is_error, make_result, make_error, fail, oom
  <2> QED BY <1>1, <1>6, <2>1 DEF CoreStepsLeft
<1>7. CASE at = "done"
  BY <1>7 DEF CoreStep, refuse, ignore_notification, dispatch, handle_initialize,
     handle_ping, handle_tools_list, list_tool, list_end, call_refused, call_args,
     call_content, mcp_tool_response_add_text, mcp_tool_response_set_error,
     handler_returns, call_result, call_error_item, call_attach, call_is_error,
     make_result, make_error
<1> QED BY <1>1, <1>2, <1>3, <1>4, <1>5, <1>6, <1>7 DEF Places

(* No step but the reading of the next line is for nothing: a line is      *)
(* dealt with in a number of steps that the tools and the calls of the     *)
(* builder bound, whatever fails (mcp_handle_message and the loop of       *)
(* mcp_server_run_stdio retry nothing).                                    *)
THEOREM NoStepRepeatsCorrect == Spec => NoStepRepeats
<1>1. IInv /\ at # "idle" => CoreStepsLeft \in Nat
  <2>1. ToolCount + MaxCalls + 11 \in Nat
    BY CoreBounds
  <2> QED BY <2>1, CoreStepsLeftIs
<1>2. (IInv /\ at # "idle" => CoreStepsLeft \in Nat)'
  BY <1>1, PTL
<1>3. ASSUME IInv, IInv', LoopStep
      PROVE  StepsLeft' \in 0..StepsLeft - 1
  <2>1. /\ ToolCount \in Nat /\ MaxCalls \in Nat
        /\ io = "core" <=> at # "idle"
        /\ io' = "core" <=> at' # "idle"
    BY <1>3, CoreBounds DEF IInv, LoopInv, AtHand
  <2>2. CASE run_returns
    BY <2>2 DEF run_returns, StepsLeft
  <2>3. CASE parse_error
    BY <2>1, <2>3 DEF parse_error, StepsLeft
  <2>4. CASE parse_ok
    BY <2>1, <2>4 DEF parse_ok, StepsLeft, CoreStepsLeft
  <2>5. CASE core
    <3>1. io = "core" /\ io' = "core" /\ CoreStep /\ at # "idle" /\ at' # "idle"
      BY <2>1, <2>5 DEF core
    <3>2. CoreStepsLeft \in Nat /\ CoreStepsLeft' \in Nat
      BY <1>3, <1>1, <1>2, <3>1
    <3>3. CoreStepsLeft' < CoreStepsLeft
      BY <1>3, <3>1, CoreStepCounts
    <3>4. StepsLeft = CoreStepsLeft /\ StepsLeft' = CoreStepsLeft'
      BY <3>1 DEF StepsLeft
    <3> QED BY <3>2, <3>3, <3>4
  <2>6. CASE no_response \/ respond
    <3>1. io = "core" /\ at = "done" /\ io' \in {"getline", "break"}
      BY <2>6 DEF no_response, respond
    <3>2. StepsLeft = 2
      BY <3>1 DEF StepsLeft, CoreStepsLeft
    <3>3. StepsLeft' \in {0, 1}
      BY <3>1 DEF StepsLeft
    <3> QED BY <3>2, <3>3
  <2> QED BY <1>3, <2>2, <2>3, <2>4, <2>5, <2>6 DEF LoopStep
<1>4. IInv /\ IInv' /\ [Next]_vars => [LoopStep => StepsLeft' \in 0..StepsLeft - 1]_vars
  BY <1>3
<1> QED BY <1>4, Invariance, PTL DEF Spec, NoStepRepeats
=============================================================================
