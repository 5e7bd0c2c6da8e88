---------------------------- MODULE SharedNodes -----------------------------
(***************************************************************************)
(* What the table of /sse sessions promises the threads that share them,   *)
(* without its locks and its counts: a node is entered with its owner as   *)
(* the only user; others become users while it is listed; the owner takes  *)
(* it off the list before it leaves; and the last user to leave, whoever   *)
(* that is, gives the memory back, once.  (mcp_http.c:73-86.)              *)
(***************************************************************************)
EXTENDS TLAPS

CONSTANTS Nodes, Users      \* the owner of a node has the name of the node

VARIABLES
    listed,     \* the nodes a search can find
    users,      \* users[n]: the threads that may use node n
    returned    \* the nodes whose memory was given back

Init ==
    /\ listed = {}
    /\ users = [n \in Nodes |-> {}]
    /\ returned = {}

Enter(n) ==
    /\ n \notin listed \cup returned
    /\ users[n] = {}
    /\ listed' = listed \cup {n}
    /\ users' = [users EXCEPT ![n] = {n}]
    /\ UNCHANGED returned

Acquire(n, u) ==
    /\ n \in listed
    /\ u # n /\ u \notin users[n]
    /\ users' = [users EXCEPT ![n] = @ \cup {u}]
    /\ UNCHANGED <<listed, returned>>

Unlist(n) ==
    /\ n \in listed
    /\ listed' = listed \ {n}
    /\ UNCHANGED <<users, returned>>

Release(n, u) ==
    /\ u \in users[n]
    /\ u = n => n \notin listed
    /\ users' = [users EXCEPT ![n] = @ \ {u}]
    /\ returned' = returned \cup {m \in {n} : users[m] = {u}}
    /\ UNCHANGED listed

Next == \E n \in Nodes :
    \/ Enter(n) \/ Unlist(n)
    \/ \E u \in Users : Acquire(n, u) \/ Release(n, u)

Spec == Init /\ [][Next]_<<listed, users, returned>>

----------------------------------------------------------------------------
(* What follows from the promise.                                          *)

(* A node that can be found has its owner, so that it cannot be given back *)
(* between a search and the reference it leads to; what was given back has *)
(* no user and never has one again.                                        *)
NodesSafe ==
    /\ listed \subseteq Nodes /\ \A n \in listed : n \in users[n]
    /\ \A n \in Nodes : n \in returned => n \notin listed /\ users[n] = {}

LEMMA SafeStep ==
    ASSUME users \in [Nodes -> SUBSET (Nodes \cup Users)], NodesSafe, Next
    PROVE  NodesSafe' /\ users' \in [Nodes -> SUBSET (Nodes \cup Users)]
<1> USE DEF NodesSafe
<1>1. ASSUME NEW n \in Nodes, Enter(n)
      PROVE  NodesSafe' /\ users' \in [Nodes -> SUBSET (Nodes \cup Users)]
  BY <1>1 DEF Enter
<1>2. ASSUME NEW n \in Nodes, Unlist(n)
      PROVE  NodesSafe' /\ users' \in [Nodes -> SUBSET (Nodes \cup Users)]
  BY <1>2 DEF Unlist
<1>3. ASSUME NEW n \in Nodes, NEW u \in Users, Acquire(n, u)
      PROVE  NodesSafe' /\ users' \in [Nodes -> SUBSET (Nodes \cup Users)]
  BY <1>3 DEF Acquire
<1>4. ASSUME NEW n \in Nodes, NEW u \in Users, Release(n, u)
      PROVE  NodesSafe' /\ users' \in [Nodes -> SUBSET (Nodes \cup Users)]
  BY <1>4 DEF Release
<1>. QED BY <1>1, <1>2, <1>3, <1>4 DEF Next

(* The promise means that no node is used or found after it is given back. *)
THEOREM NodesStaySafe == Spec => []NodesSafe
<1> DEFINE Inv == users \in [Nodes -> SUBSET (Nodes \cup Users)] /\ NodesSafe
<1>1. Init => Inv
  BY DEF Init, NodesSafe
<1>2. Inv /\ [Next]_<<listed, users, returned>> => Inv'
  <2>1. CASE Next
    BY <2>1, SafeStep
  <2>2. CASE UNCHANGED <<listed, users, returned>>
    BY <2>2 DEF NodesSafe
  <2>. QED BY <2>1, <2>2
<1>. QED BY <1>1, <1>2, PTL DEF Spec
=============================================================================
