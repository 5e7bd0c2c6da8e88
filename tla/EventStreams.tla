---------------------------- MODULE EventStreams ----------------------------
(***************************************************************************)
(* What the clients of GET /sse are promised, whatever runs behind it:     *)
(* a stream is refused, or opens with its headers; the endpoint event      *)
(* comes first; then come keepalives and whole messages, at most one from  *)
(* each POST.  A stream may end anywhere: nothing follows what was cut.    *)
(* (mcp_http.c:13-24.)                                                     *)
(***************************************************************************)
EXTENDS Naturals, Sequences, TLAPS

CONSTANTS Sse, Post     \* the streams, and the clients that POST to them

VARIABLE out            \* out[s]: what was written on stream s, in order

item(s, by, kind, part) == [to |-> s, by |-> by, kind |-> kind, part |-> part]

Last(s) == out[s][Len(out[s])]
put(s, x) == out' = [out EXCEPT ![s] = Append(@, x)]

Init == out = [s \in Sse |-> <<>>]

Refuse(s) == out[s] = <<>> /\ put(s, item(s, s, "reply", 0))
Open(s) == out[s] = <<>> /\ put(s, item(s, s, "headers", 0))

Endpoint(s) ==
    /\ out[s] # <<>> /\ Last(s).kind = "headers"
    /\ put(s, item(s, s, "endpoint", 1))

(* Between two events of a stream that was greeted.                        *)
Between(s) ==
    /\ out[s] # <<>>
    /\ Last(s).part # 1
    /\ Last(s).kind \in {"endpoint", "message", "keepalive"}

Keepalive(s) == Between(s) /\ put(s, item(s, s, "keepalive", 0))

Message(s, p) ==
    /\ Between(s)
    /\ \A i \in DOMAIN out[s] : out[s][i] # item(s, p, "message", 1)
    /\ put(s, item(s, p, "message", 1))

(* The rest of the event that was begun.                                   *)
Finish(s) ==
    /\ out[s] # <<>> /\ Last(s).part = 1
    /\ put(s, [Last(s) EXCEPT !.part = 2])

Next == \E s \in Sse :
    \/ Refuse(s) \/ Open(s) \/ Endpoint(s) \/ Keepalive(s) \/ Finish(s)
    \/ \E p \in Post : Message(s, p)

Spec == Init /\ [][Next]_out

----------------------------------------------------------------------------
(* What follows from the promise.                                          *)

(* The second half of an event follows its first half, and nothing else    *)
(* does.  ("so POST handlers in other threads can push events without      *)
(* interleaving writes", mcp_http.c:23-24.)                                *)
FramesWhole ==
    \A s \in Sse : \A i \in DOMAIN out[s] :
        /\ out[s][i].part = 1 /\ i < Len(out[s])
              => out[s][i + 1] = [out[s][i] EXCEPT !.part = 2]
        /\ out[s][i].part = 2
              => i > 1 /\ out[s][i - 1] = [out[s][i] EXCEPT !.part = 1]

Hello(s) == <<item(s, s, "headers", 0), item(s, s, "endpoint", 1),
              item(s, s, "endpoint", 2)>>

(* A stream begins with its headers and the endpoint event, though it is   *)
(* in the table, open to every POST, before either is sent.  ("first event *)
(* is `endpoint`", mcp_http.c:14-15.)  An error reply opens no stream.     *)
EndpointFirst ==
    \A s \in Sse : out[s] # <<>> /\ out[s][1].kind # "reply" =>
        \A i \in DOMAIN out[s] \cap 1..3 : out[s][i] = Hello(s)[i]

----------------------------------------------------------------------------
(* The inductive invariant: a stream begins with a reply or with headers,  *)
(* and has neither again.                                                  *)

Item == [to: Sse, by: Sse \cup Post, part: 0..2,
         kind: {"reply", "headers", "endpoint", "keepalive", "message"}]

TypeOK == out \in [Sse -> Seq(Item)]

Begun ==
    \A s \in Sse : out[s] # <<>> =>
        /\ out[s][1] \in {item(s, s, "reply", 0), item(s, s, "headers", 0)}
        /\ \A i \in DOMAIN out[s] : i > 1 =>
              out[s][i].kind \in {"endpoint", "keepalive", "message"}

IInv == TypeOK /\ Begun /\ FramesWhole /\ EndpointFirst

(* What Next may put after what.                                           *)
Follows(s, x) ==
    /\ x \in Item
    /\ IF out[s] = <<>>
       THEN x \in {item(s, s, "reply", 0), item(s, s, "headers", 0)}
       ELSE /\ x.kind \in {"endpoint", "keepalive", "message"}
            /\ Last(s).part = 1 \/ x.part = 2 => x = [Last(s) EXCEPT !.part = 2]
            /\ x.part = 2 => Last(s).part = 1
            /\ Last(s).kind = "headers" => x = item(s, s, "endpoint", 1)
            /\ Last(s).kind # "reply"

(* Every step puts one piece on one stream, where it may follow.           *)
LEMMA NextPuts ==
    ASSUME IInv, NEW s \in Sse,
           \/ Refuse(s) \/ Open(s) \/ Endpoint(s) \/ Keepalive(s) \/ Finish(s)
           \/ \E p \in Post : Message(s, p)
    PROVE  \E x : put(s, x) /\ Follows(s, x)
<1>0. out[s] \in Seq(Item)
  BY DEF IInv, TypeOK
<1>1. out[s] # <<>> => /\ Last(s) \in Item
                       /\ Last(s) = out[s][Len(out[s])]
                       /\ Len(out[s]) \in DOMAIN out[s]
  BY <1>0 DEF Last
<1> USE DEF Item, item, Follows
<1>2. CASE Refuse(s)
  BY <1>2 DEF Refuse
<1>3. CASE Open(s)
  BY <1>3 DEF Open
<1>4. CASE Endpoint(s)
  <2>1. Last(s).part = 0
    BY <1>1, <1>4 DEF Endpoint, IInv, Begun
  <2>. QED BY <1>4, <2>1 DEF Endpoint
<1>5. CASE Keepalive(s)
  BY <1>5 DEF Keepalive, Between
<1>6. CASE Finish(s)
  <2> DEFINE x == [Last(s) EXCEPT !.part = 2]
  <2>1. Last(s).kind \in {"endpoint", "keepalive", "message"}
    BY <1>1, <1>6 DEF Finish, IInv, Begun
  <2>2. x \in Item /\ x.kind = Last(s).kind /\ x.part = 2
    BY <1>1, <1>6 DEF Finish
  <2>3. Follows(s, x)
    BY <2>1, <2>2, <1>6 DEF Finish
  <2>. QED BY <1>6, <2>3 DEF Finish
<1>7. ASSUME NEW p \in Post, Message(s, p)
      PROVE  \E x : put(s, x) /\ Follows(s, x)
  BY <1>7 DEF Message, Between
<1>. QED BY <1>2, <1>3, <1>4, <1>5, <1>6, <1>7

(* A piece that may follow keeps the invariant.                            *)
LEMMA PutKeeps ==
    ASSUME IInv, NEW s \in Sse, NEW x, put(s, x), Follows(s, x)
    PROVE  IInv'
<1> DEFINE n == Len(out[s])
<1>1. out[s] \in Seq(Item) /\ x \in Item /\ n \in Nat
  BY DEF IInv, TypeOK, Follows
<1>2. TypeOK'
  <2>1. Append(out[s], x) \in Seq(Item)
    BY <1>1
  <2>. QED BY <2>1 DEF IInv, TypeOK, put
<1>3. /\ Len(out'[s]) = n + 1
      /\ out'[s][n + 1] = x
      /\ \A i \in 1..n : out'[s][i] = out[s][i]
      /\ DOMAIN out'[s] = 1..n + 1
      /\ \A t \in Sse : t # s => out'[t] = out[t]
  BY <1>1 DEF IInv, TypeOK, put
<1>4. DOMAIN out[s] = 1..n /\ (n = 0 <=> out[s] = <<>>)
  BY <1>1
<1>5. n > 0 => Last(s) = out[s][n] /\ out[s][n] \in Item
  BY <1>1 DEF Last
<1>6. Begun'
  <2>1. Begun
    BY DEF IInv
  <2>2. ASSUME NEW i \in 1..n + 1, i > 1
        PROVE  out'[s][i].kind \in {"endpoint", "keepalive", "message"}
    <3>1. i # n + 1 => i \in 1..n /\ out[s] # <<>>
      BY <1>1, <1>4
    <3>2. i = n + 1 => out[s] # <<>>
      BY <1>1, <1>4, <2>2
    <3>. QED BY <1>3, <1>4, <2>1, <2>2, <3>1, <3>2 DEF Begun, Follows
  <2>3. out'[s][1] \in {item(s, s, "reply", 0), item(s, s, "headers", 0)}
    <3>1. CASE n = 0
      BY <1>3, <1>4, <3>1 DEF Follows
    <3>2. CASE n > 0
      BY <1>3, <1>4, <2>1, <3>2 DEF Begun
    <3>. QED BY <1>1, <3>1, <3>2
  <2>. QED BY <1>3, <2>1, <2>2, <2>3 DEF Begun, item
<1>7. FramesWhole'
  <2>1. FramesWhole
    BY DEF IInv
  <2>2. ASSUME NEW i \in 1..n + 1, out'[s][i].part = 1, i < n + 1
        PROVE  out'[s][i + 1] = [out'[s][i] EXCEPT !.part = 2]
    <3>1. i \in 1..n /\ out'[s][i] = out[s][i]
      BY <1>1, <1>3, <2>2
    <3>2. CASE i = n
      <4>1. Last(s) = out'[s][i] /\ out[s] # <<>>
        BY <1>4, <1>5, <3>1, <3>2
      <4>2. x = [out'[s][i] EXCEPT !.part = 2]
        BY <2>2, <4>1 DEF Follows
      <4>. QED BY <1>3, <3>2, <4>2
    <3>3. CASE i # n
      <4>1. i + 1 \in 1..n /\ i < n
        BY <1>1, <3>1, <3>3
      <4>2. i \in DOMAIN out[s] /\ out[s][i].part = 1 /\ i < Len(out[s])
        BY <1>4, <2>2, <3>1, <4>1
      <4>3. out[s][i + 1] = [out[s][i] EXCEPT !.part = 2]
        BY ONLY <2>1, <4>2, s \in Sse, Zenon DEF FramesWhole
      <4>. QED BY <1>3, <3>1, <4>1, <4>3
    <3>. QED BY <3>2, <3>3
  <2>3. ASSUME NEW i \in 1..n + 1, out'[s][i].part = 2
        PROVE  i > 1 /\ out'[s][i - 1] = [out'[s][i] EXCEPT !.part = 1]
    <3>1. CASE i = n + 1
      <4>1. n > 0
        BY <1>1, <1>3, <1>4, <2>3, <3>1 DEF Follows, item
      <4>2. x = [out[s][n] EXCEPT !.part = 2] /\ out[s][n].part = 1
        BY <1>3, <1>4, <1>5, <2>3, <3>1, <4>1 DEF Follows
      <4>3. out[s][n] = [x EXCEPT !.part = 1]
        BY <1>5, <4>1, <4>2 DEF Item
      <4>. QED BY <1>1, <1>3, <3>1, <4>1, <4>3
    <3>2. CASE i # n + 1
      <4>1. i \in 1..n /\ out'[s][i] = out[s][i]
        BY <1>1, <1>3, <3>2
      <4>2. i > 1 /\ out[s][i - 1] = [out[s][i] EXCEPT !.part = 1]
        <5>1. i \in DOMAIN out[s] /\ out[s][i].part = 2
          BY <1>4, <2>3, <4>1
        <5>. QED BY ONLY <2>1, <5>1, s \in Sse, Zenon DEF FramesWhole
      <4>3. i - 1 \in 1..n
        BY <1>1, <4>1, <4>2
      <4>. QED BY <1>3, <4>1, <4>2, <4>3
    <3>. QED BY <3>1, <3>2
  <2> SUFFICES ASSUME NEW t \in Sse, NEW i \in DOMAIN out'[t]
               PROVE  /\ out'[t][i].part = 1 /\ i < Len(out'[t])
                            => out'[t][i + 1] = [out'[t][i] EXCEPT !.part = 2]
                      /\ out'[t][i].part = 2 =>
                            /\ i > 1
                            /\ out'[t][i - 1] = [out'[t][i] EXCEPT !.part = 1]
    BY DEF FramesWhole
  <2>4. CASE t = s
    BY <1>3, <2>2, <2>3, <2>4
  <2>5. CASE t # s
    <3>1. out'[t] = out[t] /\ i \in DOMAIN out[t]
      BY <1>3, <2>5
    <3>. QED BY <2>1, <3>1 DEF FramesWhole
  <2>. QED BY <2>4, <2>5
<1>8. EndpointFirst'
  <2>1. EndpointFirst /\ Begun
    BY DEF IInv
  <2>2. ASSUME NEW i \in (1..n + 1) \cap 1..3, out'[s][1].kind # "reply"
        PROVE  out'[s][i] = Hello(s)[i]
    <3>1. CASE i \in 1..n
      <4>1. out[s] # <<>> /\ out[s][1].kind # "reply"
        BY <1>1, <1>3, <1>4, <2>2, <3>1
      <4>. QED BY <1>3, <1>4, <2>1, <3>1, <4>1 DEF EndpointFirst
    <3>2. CASE i = n + 1 /\ n = 0
      BY <1>3, <1>4, <2>2, <3>2 DEF Follows, Hello, item
    <3>3. CASE i = n + 1 /\ n = 1
      <4>1. out[s][1] = item(s, s, "headers", 0)
        BY <1>3, <1>4, <2>1, <2>2, <3>3 DEF Begun, item
      <4>2. x = item(s, s, "endpoint", 1)
        BY <1>4, <1>5, <3>3, <4>1 DEF Follows, item
      <4>. QED BY <1>3, <3>3, <4>2 DEF Hello
    <3>4. CASE i = n + 1 /\ n = 2
      <4>1. out[s][1].kind # "reply" /\ out[s] # <<>>
        BY <1>3, <1>4, <2>2, <3>4
      <4>2. out[s][2] = item(s, s, "endpoint", 1)
        <5>1. 2 \in DOMAIN out[s] \cap 1..3
          BY <1>4, <3>4
        <5>2. out[s][2] = Hello(s)[2]
          BY <2>1, <4>1, <5>1 DEF EndpointFirst
        <5>. QED BY <5>2 DEF Hello
      <4>3. x = item(s, s, "endpoint", 2)
        BY <1>4, <1>5, <3>4, <4>2 DEF Follows, item
      <4>. QED BY <1>3, <3>4, <4>3 DEF Hello
    <3>5. i \in 1..n \/ (i = n + 1 /\ n \in {0, 1, 2})
      <4>1. i \in Nat /\ i <= n + 1 /\ i <= 3 /\ i >= 1
        BY <1>1
      <4>. HIDE DEF n
      <4>. QED BY <1>1, <4>1
    <3>. QED BY <3>1, <3>2, <3>3, <3>4, <3>5
  <2>3. ASSUME NEW t \in Sse, t # s, out'[t] # <<>>, out'[t][1].kind # "reply",
               NEW i \in DOMAIN out'[t] \cap 1..3
        PROVE  out'[t][i] = Hello(t)[i]
    BY <1>3, <2>1, <2>3 DEF EndpointFirst
  <2>. QED BY <1>3, <2>2, <2>3 DEF EndpointFirst, Hello
<1>. QED BY <1>2, <1>6, <1>7, <1>8 DEF IInv

(* The invariant holds of every stream the promise allows.                 *)
LEMMA Invariance == Spec => []IInv
<1>1. Init => IInv
  BY DEF Init, IInv, TypeOK, Begun, FramesWhole, EndpointFirst
<1>2. IInv /\ [Next]_out => IInv'
  <2> SUFFICES ASSUME IInv, [Next]_out PROVE IInv'
    OBVIOUS
  <2>1. CASE Next
    BY <2>1, NextPuts, PutKeeps DEF Next
  <2>2. CASE UNCHANGED out
    BY <2>2 DEF IInv, TypeOK, Begun, FramesWhole, EndpointFirst
  <2>. QED BY <2>1, <2>2
<1>. QED BY <1>1, <1>2, PTL DEF Spec

(* On every stream that keeps the promise, events are whole and the        *)
(* endpoint event is the first.                                            *)
THEOREM PromiseMeans == Spec => [](FramesWhole /\ EndpointFirst)
<1>1. IInv => FramesWhole /\ EndpointFirst
  BY DEF IInv
<1>. QED BY <1>1, Invariance, PTL
=============================================================================
