------------------------------- MODULE Memory -------------------------------
(***************************************************************************)
(* The heap as code that builds cJSON trees uses it.                       *)
(*                                                                         *)
(* An object is named for the local variable that points to it.  A heap    *)
(* says of each variable whether it is NULL, points to something live or   *)
(* dangles, and which tree its object was added to: from then on the tree  *)
(* owns it, and cJSON_Delete of the tree frees it.  A heap is faulty once  *)
(* something was freed twice, used after it was freed, freed from under    *)
(* the tree that owns it, or lost because its only pointer was reused.     *)
(***************************************************************************)
CONSTANT NoOwner

Heap(Objects) ==
    [state: [Objects -> {"null", "live", "freed"}],
     under: [Objects -> Objects \cup {NoOwner}],
     fault: BOOLEAN]

EmptyHeap(Objects) ==
    [state |-> [o \in Objects |-> "null"],
     under |-> [o \in Objects |-> NoOwner],
     fault |-> FALSE]

Live(heap) == {o \in DOMAIN heap.state : heap.state[o] = "live"}

(* Trees are at most four deep.                                            *)
Owner(heap, o) == IF o = NoOwner THEN NoOwner ELSE heap.under[o]
Owners(heap, o) ==
    LET a == Owner(heap, o)  b == Owner(heap, a)
    IN  {o, a, b, Owner(heap, b)}

(* cJSON_Create..., cJSON_Duplicate, cJSON_Parse: a new object for o.      *)
Alloc(heap, o) ==
    [state |-> [heap.state EXCEPT ![o] = "live"],
     under |-> [heap.under EXCEPT ![o] = NoOwner],
     fault |-> heap.fault \/ heap.state[o] = "live"]

(* cJSON_AddItemTo...: the tree at p takes o over.                         *)
Attach(heap, o, p) ==
    [state |-> heap.state,
     under |-> [heap.under EXCEPT ![o] = p],
     fault |-> heap.fault \/ {o, p} \ Live(heap) # {} \/ heap.under[o] # NoOwner]

(* cJSON_Delete of each of the variables in S; NULL is skipped.            *)
Delete(heap, S) ==
    [state |-> [o \in DOMAIN heap.state |->
                   IF /\ heap.state[o] = "live"
                      /\ \E r \in S : heap.state[r] = "live" /\ r \in Owners(heap, o)
                   THEN "freed" ELSE heap.state[o]],
     under |-> heap.under,
     fault |-> \/ heap.fault
               \/ \E r \in S : heap.state[r] = "freed"
               \/ \E r \in S : heap.state[r] = "live" /\ heap.under[r] # NoOwner]

(* The variable is set to NULL.                                            *)
Clear(heap, o) ==
    [state |-> [heap.state EXCEPT ![o] = "null"],
     under |-> heap.under,
     fault |-> heap.fault \/ heap.state[o] = "live"]

(* A local variable's block ends: its object goes on as a part of the tree *)
(* that owns it, and is lost if none does.                                 *)
Leave(heap, o) ==
    [state |-> [heap.state EXCEPT ![o] = "null"],
     under |-> [heap.under EXCEPT ![o] = NoOwner],
     fault |-> heap.fault \/ (heap.state[o] = "live" /\ heap.under[o] = NoOwner)]

(* A function returns: its dangling pointers are gone, what it leaked not. *)
Return(heap) ==
    [state |-> [o \in DOMAIN heap.state |->
                    IF heap.state[o] = "freed" THEN "null" ELSE heap.state[o]],
     under |-> [o \in DOMAIN heap.under |->
                    IF heap.state[o] = "live" THEN heap.under[o] ELSE NoOwner],
     fault |-> heap.fault]
=============================================================================
