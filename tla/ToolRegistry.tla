---------------------------- MODULE ToolRegistry ----------------------------
(***************************************************************************)
(* The server object and its array of tools, src/mcp_server.c, with a      *)
(* failure possible at every allocation.  A call of mcp_server_add_tool is *)
(* several steps, one for each group of allocations that fail together;    *)
(* the object has one user, so nothing comes between them.                 *)
(***************************************************************************)
EXTENDS Naturals, FiniteSets, Memory

CONSTANTS
    Names,        \* the names tools are registered under
    None,         \* no name
    Given,        \* what tools are registered with, apart from a name
    MaxTools      \* the tools registered at most (a bound)
ASSUME RegistryBounds ==
    /\ None \notin Names /\ MaxTools \in Nat
    /\ Given \subseteq [title: BOOLEAN, description: BOOLEAN,
                        schema: {"none", "valid", "invalid"}]

Slots == 1..MaxTools
FirstCapacity == 4

(* The variables that own memory: the server's, and those of each slot of  *)
(* the array.  The schema a call makes is the one its slot will have.      *)
srv == <<"srv", 0>>
srv_name == <<"name", 0>>
srv_version == <<"version", 0>>
tools == <<"tools", 0>>
name(i) == <<"name", i>>
title(i) == <<"title", i>>
description(i) == <<"description", i>>
input_schema(i) == <<"input_schema", i>>

ServerOwned == {srv, srv_name, srv_version}
SlotOwned(i) == {name(i), title(i), description(i), input_schema(i)}
Objects == ServerOwned \cup {tools} \cup UNION {SlotOwned(i) : i \in Slots}
ASSUME NoOwnerIsNone == NoOwner \notin Objects

VARIABLES
    at,             \* what the call in progress does next; "idle" without one
    heap,
    tools_count,
    tools_cap,
    named,          \* the name in each slot
    titled,         \* the slots that were given a title
    described,      \* the slots that were given a description
    arg_name,       \* the name the call registers
    arg,            \* its other arguments
    rc              \* what the last call returned

slotVars == <<named, titled, described>>
vars == <<at, heap, tools_count, tools_cap, slotVars, arg_name, arg, rc>>

Results == {"MCP_OK", "MCP_ERR_OOM", "MCP_ERR_PARSE", "MCP_ERR_DUPLICATE"}

(* The variables stay in their types, and the array never holds more tools *)
(* than it was allocated for.                                              *)
RegistryTypeOK ==
    /\ at \in {"none", "idle", "schema", "reserve", "fill", "commit", "destroyed"}
    /\ heap \in Heap(Objects)
    /\ tools_count \in 0..MaxTools
    /\ tools_cap \in Nat /\ tools_count <= tools_cap
    /\ named \in [Slots -> Names \cup {None}]
    /\ titled \in SUBSET Slots /\ described \in SUBSET Slots
    /\ arg_name \in Names \cup {None}
    /\ arg \in Given
    /\ rc \in Results

Init ==
    /\ at = "none"
    /\ heap = EmptyHeap(Objects)
    /\ tools_count = 0 /\ tools_cap = 0
    /\ named = [i \in Slots |-> None] /\ titled = {} /\ described = {}
    /\ arg_name = None /\ arg \in Given
    /\ rc = "MCP_OK"

AllocAll(h, S) ==
    [state |-> [o \in DOMAIN h.state |-> IF o \in S THEN "live" ELSE h.state[o]],
     under |-> h.under,
     fault |-> h.fault \/ S \cap Live(h) # {}]

next == tools_count + 1

return(h, result) == at' = "idle" /\ heap' = Return(h) /\ rc' = result

----------------------------------------------------------------------------
(* mcp_server_create and mcp_server_destroy.                               *)

Destroyed(h) ==
    Delete(Delete(h, UNION {SlotOwned(i) : i \in 1..tools_count}),
           {tools} \cup ServerOwned)

(* If a copy of the name or the version fails the object is destroyed.     *)
mcp_server_create ==
    /\ at = "none"
    /\ \E made \in SUBSET ServerOwned :
          /\ srv \in made \/ made = {}
          /\ IF made = ServerOwned
             THEN at' = "idle" /\ heap' = AllocAll(heap, made)
             ELSE at' = "destroyed" /\ heap' = Return(Destroyed(AllocAll(heap, made)))
    /\ UNCHANGED <<tools_count, tools_cap, slotVars, arg_name, arg, rc>>

mcp_server_destroy ==
    /\ at = "idle"
    /\ at' = "destroyed"
    /\ heap' = Return(Destroyed(heap))
    /\ UNCHANGED <<tools_count, tools_cap, slotVars, arg_name, arg, rc>>

----------------------------------------------------------------------------
(* mcp_server_add_tool.                                                    *)

(* Variant: the last tool is not looked at.                                *)
mcp_server_find_tool_short(n) == \E i \in 1..tools_count - 1 : named[i] = n

mcp_server_find_tool(n) == \E i \in 1..tools_count : named[i] = n

add_tool(n, given) ==
    /\ at = "idle"
    /\ tools_count < MaxTools
    /\ arg_name' = n
    /\ arg' = given
    /\ IF mcp_server_find_tool(n)
       THEN return(heap, "MCP_ERR_DUPLICATE")
       ELSE at' = "schema" /\ UNCHANGED <<heap, rc>>
    /\ UNCHANGED <<tools_count, tools_cap, slotVars>>

(* A schema that does not parse, for its text or for want of memory; no    *)
(* schema is an object of two allocations.                                 *)
add_schema ==
    /\ at = "schema"
    /\ LET made == Alloc(heap, input_schema(next))
       IN  \/ /\ arg.schema # "invalid"
              /\ heap' = made /\ at' = "reserve" /\ UNCHANGED rc
           \/ arg.schema # "none" /\ return(heap, "MCP_ERR_PARSE")
           \/ /\ arg.schema = "none"
              /\ \/ return(heap, "MCP_ERR_OOM")
                 \/ return(Delete(made, {input_schema(next)}), "MCP_ERR_OOM")
    /\ UNCHANGED <<tools_count, tools_cap, slotVars, arg_name, arg>>

(* Variant: a full array is taken to have room for one more.               *)
tools_reserve_full ==
    /\ at = "reserve"
    /\ IF next <= tools_cap + 1 /\ tools_cap > 0
       THEN UNCHANGED <<heap, tools_cap>>
       ELSE /\ tools_cap' = IF tools_cap = 0 THEN FirstCapacity ELSE tools_cap * 2
            /\ heap' = AllocAll(Delete(heap, {tools}), {tools})
    /\ at' = "fill"
    /\ UNCHANGED <<rc, tools_count, slotVars, arg_name, arg>>

(* tools_reserve: the array is doubled when it is full.                    *)
tools_reserve ==
    /\ at = "reserve"
    /\ \/ /\ next <= tools_cap
          /\ at' = "fill"
          /\ UNCHANGED <<heap, tools_cap, rc>>
       \/ /\ next > tools_cap
          /\ tools_cap' = IF tools_cap = 0 THEN FirstCapacity ELSE tools_cap * 2
          /\ heap' = AllocAll(Delete(heap, {tools}), {tools})
          /\ at' = "fill"
          /\ UNCHANGED rc
       \/ /\ next > tools_cap
          /\ return(Delete(heap, {input_schema(next)}), "MCP_ERR_OOM")
          /\ UNCHANGED tools_cap
    /\ UNCHANGED <<tools_count, slotVars, arg_name, arg>>

(* The strings the slot needs, and the copies that could be made of them.  *)
Wanted == {name(next)} \cup (IF arg.title THEN {title(next)} ELSE {})
                       \cup (IF arg.description THEN {description(next)} ELSE {})

add_fill ==
    /\ at = "fill"
    /\ \E made \in SUBSET Wanted : heap' = AllocAll(heap, made)
    /\ named' = [named EXCEPT ![next] = arg_name]
    /\ titled' = IF arg.title THEN titled \cup {next} ELSE titled \ {next}
    /\ described' = IF arg.description THEN described \cup {next}
                                       ELSE described \ {next}
    /\ at' = "commit"
    /\ UNCHANGED <<tools_count, tools_cap, arg_name, arg, rc>>

(* Variant: the strings are freed one by one and the schema forgotten.     *)
add_commit_leaks ==
    /\ at = "commit"
    /\ IF Wanted \subseteq Live(heap)
       THEN tools_count' = next /\ return(heap, "MCP_OK")
       ELSE /\ return(Delete(heap, SlotOwned(next) \ {input_schema(next)}),
                      "MCP_ERR_OOM")
            /\ UNCHANGED tools_count
    /\ UNCHANGED <<tools_cap, slotVars, arg_name, arg>>

(* Variant: the tool is counted before its strings are looked at.          *)
add_commit_counts ==
    /\ at = "commit"
    /\ tools_count' = next
    /\ IF Wanted \subseteq Live(heap)
       THEN return(heap, "MCP_OK")
       ELSE return(Delete(heap, SlotOwned(next)), "MCP_ERR_OOM")
    /\ UNCHANGED <<tools_cap, slotVars, arg_name, arg>>

(* tool_free gives back what the slot got if anything is missing, and     *)
(* empties the slot.                                                       *)
add_commit ==
    /\ at = "commit"
    /\ IF Wanted \subseteq Live(heap)
       THEN /\ tools_count' = next
            /\ return(heap, "MCP_OK")
            /\ UNCHANGED slotVars
       ELSE /\ return(Delete(heap, SlotOwned(next)), "MCP_ERR_OOM")
            /\ named' = [named EXCEPT ![next] = None]
            /\ titled' = titled \ {next} /\ described' = described \ {next}
            /\ UNCHANGED tools_count
    /\ UNCHANGED <<tools_cap, arg_name, arg>>

AddStep == add_schema \/ tools_reserve \/ add_fill \/ add_commit

Terminated == at = "destroyed" /\ UNCHANGED vars

Next ==
    \/ mcp_server_create \/ mcp_server_destroy
    \/ \E n \in Names, given \in Given : add_tool(n, given)
    \/ AddStep
    \/ Terminated

Spec == Init /\ [][Next]_vars

----------------------------------------------------------------------------
(* Properties.                                                             *)

(* What the contents of a slot, and of the registry, need allocated.       *)
SlotNeeds(i) ==
    {name(i), input_schema(i)}
    \cup (IF i \in titled THEN {title(i)} ELSE {})
    \cup (IF i \in described THEN {description(i)} ELSE {})
Needed ==
    ServerOwned \cup (IF tools_cap = 0 THEN {} ELSE {tools})
    \cup UNION {SlotNeeds(i) : i \in 1..tools_count}

(* Whatever allocation failed, between calls the heap holds exactly the    *)
(* server and its complete tools, and nothing once it is destroyed.        *)
RegistryMemory ==
    /\ at = "idle" => Live(heap) = Needed
    /\ at = "destroyed" => Live(heap) = {}
    /\ ~heap.fault

(* A name finds one tool: names stay unique through failed registrations   *)
(* and growth.  ("unique id used in tools/call", mcp.h:46.)                *)
NamesUnique ==
    \A i, j \in 1..tools_count : named[i] = named[j] => i = j

(* A registration adds its tool at the end and returns MCP_OK, or changes  *)
(* no tool: those registered keep their place, whatever the call returns.  *)
AddsOrNothing ==
    [][/\ \A i \in 1..tools_count :
             named[i]' = named[i] /\ (i \in titled <=> i \in titled')
       /\ tools_count' # tools_count =>
             /\ tools_count' = tools_count + 1 /\ rc' = "MCP_OK"
             /\ named'[tools_count'] = arg_name]_vars
=============================================================================
