------------------------- MODULE ToolRegistryProofs -------------------------
(***************************************************************************)
(* Theorems about ToolRegistry for every set of names, every kind of tool  *)
(* and every bound on their number.                                        *)
(***************************************************************************)
EXTENDS ToolRegistry, TLAPS

----------------------------------------------------------------------------
(* The heap, where nothing is added to a tree.                             *)

Flat(h) == h \in Heap(Objects) /\ \A o \in Objects : h.under[o] = NoOwner
Freed(h) == {o \in Objects : h.state[o] = "freed"}

(* The empty heap.                                                         *)
LEMMA EmptyFlat ==
    LET h == EmptyHeap(Objects)
    IN  Flat(h) /\ Live(h) = {} /\ Freed(h) = {} /\ ~h.fault
BY DEF Flat, Freed, Live, Heap, EmptyHeap

(* What each operation does to the objects that are live and freed.        *)
LEMMA AllocAllFlat ==
    ASSUME NEW h, Flat(h), NEW S \in SUBSET Objects, S \cap Live(h) = {}
    PROVE  /\ Flat(AllocAll(h, S))
           /\ Live(AllocAll(h, S)) = Live(h) \cup S
           /\ Freed(AllocAll(h, S)) = Freed(h) \ S
           /\ AllocAll(h, S).fault = h.fault
BY DEF Flat, Freed, Live, Heap, AllocAll

(* One allocation on a heap of roots.                                      *)
LEMMA AllocFlat ==
    ASSUME NEW h, Flat(h), NEW o \in Objects, o \notin Live(h)
    PROVE  /\ Flat(Alloc(h, o))
           /\ Live(Alloc(h, o)) = Live(h) \cup {o}
           /\ Freed(Alloc(h, o)) = Freed(h) \ {o}
           /\ Alloc(h, o).fault = h.fault
BY DEF Flat, Freed, Live, Heap, Alloc

(* Freeing on a heap of roots.                                             *)
LEMMA DeleteFlat ==
    ASSUME NEW h, Flat(h), NEW S \in SUBSET Objects, S \cap Freed(h) = {}
    PROVE  /\ Flat(Delete(h, S))
           /\ Live(Delete(h, S)) = Live(h) \ S
           /\ Freed(Delete(h, S)) = Freed(h) \cup (S \cap Live(h))
           /\ Delete(h, S).fault = h.fault
<1>1. \A o \in Objects : Owners(h, o) = {o, NoOwner}
  BY NoOwnerIsNone DEF Flat, Owners, Owner
<1>2. \A o \in Objects :
         (/\ h.state[o] = "live"
          /\ \E r \in S : h.state[r] = "live" /\ r \in Owners(h, o))
         <=> o \in S \cap Live(h)
  BY <1>1, NoOwnerIsNone DEF Flat, Live, Heap
<1>3. Delete(h, S) = [state |-> [o \in Objects |->
                          IF o \in S \cap Live(h) THEN "freed" ELSE h.state[o]],
                      under |-> h.under, fault |-> h.fault]
  <2>1. /\ DOMAIN h.state = Objects
        /\ ~\E r \in S : h.state[r] = "freed"
        /\ ~\E r \in S : h.state[r] = "live" /\ h.under[r] # NoOwner
    BY DEF Flat, Heap, Live, Freed
  <2> QED BY <1>2, <2>1 DEF Delete, Flat, Heap
<1>. QED
  BY <1>3 DEF Flat, Freed, Live, Heap

(* The end of a function on a heap of roots.                               *)
LEMMA ReturnFlat ==
    ASSUME NEW h, Flat(h)
    PROVE  /\ Flat(Return(h))
           /\ Live(Return(h)) = Live(h)
           /\ Freed(Return(h)) = {}
           /\ Return(h).fault = h.fault
BY DEF Flat, Freed, Live, Heap, Return

(* The variables of one slot are not those of another.                     *)
LEMMA SlotsApart ==
    /\ \A i \in Slots : SlotOwned(i) \cap (ServerOwned \cup {tools}) = {}
    /\ \A i, j \in Slots : i # j => SlotOwned(i) \cap SlotOwned(j) = {}
    /\ tools \notin ServerOwned
    /\ ServerOwned \cup {tools} \subseteq Objects
    /\ \A i \in Slots : SlotOwned(i) \subseteq Objects
BY DEF SlotOwned, ServerOwned, Objects, Slots, srv, srv_name, srv_version,
       tools, name, title, description, input_schema

----------------------------------------------------------------------------
(* The inductive invariant.                                                *)

(* What is on the heap at each point of a call.                            *)
MemoryInv ==
    /\ Flat(heap) /\ Freed(heap) = {} /\ ~heap.fault
    /\ at \in {"none", "destroyed"} => Live(heap) = {}
    /\ at \in {"idle", "schema"} => Live(heap) = Needed
    /\ at \in {"reserve", "fill"} => Live(heap) = Needed \cup {input_schema(next)}
    /\ at = "commit" =>
          /\ Needed \cup {input_schema(next)} \subseteq Live(heap)
          /\ Live(heap) \subseteq Needed \cup {input_schema(next)} \cup Wanted

(* What a call has established about its tool and its slot.                *)
Registering == at \in {"schema", "reserve", "fill", "commit"}
CallInv ==
    /\ at = "none" => tools_count = 0 /\ tools_cap = 0
    /\ Registering => next \in Slots /\ ~mcp_server_find_tool(arg_name)
    /\ at \in {"fill", "commit"} => next <= tools_cap
    /\ at = "commit" =>
          /\ named[next] = arg_name
          /\ next \in titled <=> arg.title
          /\ next \in described <=> arg.description

IInv == RegistryTypeOK /\ NamesUnique /\ CallInv /\ MemoryInv

----------------------------------------------------------------------------
(* What is needed lies in the server and its first tools_count slots.      *)

(* What the registry needs lies in the server and in its tools.            *)
LEMMA NeededWhere ==
    ASSUME RegistryTypeOK
    PROVE  /\ Needed \subseteq ServerOwned \cup {tools}
                               \cup UNION {SlotOwned(i) : i \in 1..tools_count}
           /\ 1..tools_count \subseteq Slots
           /\ Needed \subseteq Objects
           /\ UNION {SlotOwned(i) : i \in 1..tools_count} \subseteq Objects
           /\ next \in Slots => Needed \cap SlotOwned(next) = {}
<1>1. 1..tools_count \subseteq Slots
  BY RegistryBounds DEF RegistryTypeOK, Slots
<1>2. \A i \in Slots : SlotNeeds(i) \subseteq SlotOwned(i)
  BY DEF SlotNeeds, SlotOwned
<1>3. Needed \subseteq ServerOwned \cup {tools}
                       \cup UNION {SlotOwned(i) : i \in 1..tools_count}
  BY <1>1, <1>2 DEF Needed
<1>4. next \in Slots => next \notin 1..tools_count
  BY RegistryBounds DEF RegistryTypeOK, next, Slots
<1>. QED
  BY <1>1, <1>3, <1>4, SlotsApart

(* It does not depend on slots that are not in use.                        *)
LEMMA NeededSame ==
    ASSUME RegistryTypeOK, tools_count' = tools_count,
           (tools_cap' = 0) <=> (tools_cap = 0),
           \A i \in 1..tools_count : /\ i \in titled' <=> i \in titled
                                     /\ i \in described' <=> i \in described
    PROVE  Needed' = Needed
<1>1. \A i \in 1..tools_count : SlotNeeds(i)' = SlotNeeds(i)
  BY DEF SlotNeeds
<1>. QED
  BY <1>1 DEF Needed

(* A slot more is that slot's needs more.                                  *)
LEMMA NeededGrows ==
    ASSUME RegistryTypeOK, tools_count' = next, UNCHANGED <<tools_cap, slotVars>>
    PROVE  Needed' = Needed \cup SlotNeeds(next)
<1>1. \A i \in 1..next : SlotNeeds(i)' = SlotNeeds(i)
  BY DEF SlotNeeds, slotVars
<1>2. 1..next = 1..tools_count \cup {next}
  BY RegistryBounds DEF RegistryTypeOK, next
<1>. QED
  BY <1>1, <1>2 DEF Needed

(* What a registration asks for belongs to its slot.                       *)
LEMMA SlotParts ==
    ASSUME RegistryTypeOK, next \in Slots
    PROVE  /\ Wanted \subseteq SlotOwned(next)
           /\ input_schema(next) \in SlotOwned(next)
           /\ input_schema(next) \notin Wanted
BY DEF Wanted, SlotOwned, name, title, description, input_schema

(* Freeing and returning; freeing a whole server.                          *)
LEMMA ReturnDelete ==
    ASSUME NEW h, Flat(h), Freed(h) = {}, ~h.fault, NEW S \in SUBSET Objects
    PROVE  LET r == Return(Delete(h, S))
           IN  Flat(r) /\ Freed(r) = {} /\ ~r.fault /\ Live(r) = Live(h) \ S
BY DeleteFlat, ReturnFlat

(* Destruction frees everything, once.                                     *)
LEMMA DestroyedFlat ==
    ASSUME RegistryTypeOK, NEW h, Flat(h), Freed(h) = {}, ~h.fault,
           Live(h) \subseteq ServerOwned \cup {tools}
                             \cup UNION {SlotOwned(i) : i \in 1..tools_count}
    PROVE  LET r == Return(Destroyed(h))
           IN  Flat(r) /\ Freed(r) = {} /\ ~r.fault /\ Live(r) = {}
<1> DEFINE slots == UNION {SlotOwned(i) : i \in 1..tools_count}
           server == {tools} \cup ServerOwned
           first == Delete(h, slots)
<1>1. slots \in SUBSET Objects /\ server \in SUBSET Objects
  BY NeededWhere, SlotsApart
<1>2. slots \cap server = {}
  BY NeededWhere, SlotsApart
<1>3. /\ Flat(first) /\ ~first.fault
      /\ Live(first) = Live(h) \ slots /\ Freed(first) \subseteq slots
  BY <1>1, DeleteFlat
<1>4. /\ Flat(Delete(first, server)) /\ ~Delete(first, server).fault
      /\ Live(Delete(first, server)) = {}
  BY <1>1, <1>2, <1>3, DeleteFlat
<1>. QED
  BY <1>4, ReturnFlat DEF Destroyed

----------------------------------------------------------------------------
(* The actions.                                                            *)

(* The invariant holds at the start.                                       *)
LEMMA InitIInv == Init => IInv
<1>. SUFFICES ASSUME Init PROVE IInv
  OBVIOUS
<1>1. MemoryInv
  BY EmptyFlat DEF Init, MemoryInv
<1>2. RegistryTypeOK
  BY <1>1, RegistryBounds DEF Init, RegistryTypeOK, MemoryInv, Flat, Results
<1>. QED
  BY <1>1, <1>2 DEF Init, IInv, NamesUnique, CallInv, Registering

(* Creation allocates the server, or nothing.                              *)
LEMMA CreateMemory == IInv /\ mcp_server_create => MemoryInv'
<1>. SUFFICES ASSUME IInv, mcp_server_create PROVE MemoryInv'
  OBVIOUS
<1>. USE DEF IInv
<1>1. PICK made \in SUBSET ServerOwned :
          IF made = ServerOwned
          THEN at' = "idle" /\ heap' = AllocAll(heap, made)
          ELSE at' = "destroyed" /\ heap' = Return(Destroyed(AllocAll(heap, made)))
  BY DEF mcp_server_create
<1>2. /\ Live(heap) = {} /\ Freed(heap) = {} /\ Flat(heap) /\ ~heap.fault
      /\ tools_count = 0 /\ tools_cap = 0
  BY DEF mcp_server_create, MemoryInv, CallInv
<1> DEFINE h == AllocAll(heap, made)
<1>3. Flat(h) /\ Live(h) = made /\ Freed(h) = {} /\ ~h.fault
  BY <1>2, AllocAllFlat, SlotsApart
<1>4. CASE made = ServerOwned
  <2>1. Needed' = ServerOwned
    BY <1>2 DEF Needed, mcp_server_create
  <2>. QED
    BY <1>1, <1>3, <1>4, <2>1 DEF MemoryInv
<1>5. CASE made # ServerOwned
  <2>1. LET r == Return(Destroyed(h))
        IN  Flat(r) /\ Freed(r) = {} /\ ~r.fault /\ Live(r) = {}
    BY <1>3, DestroyedFlat
  <2>. QED
    BY <1>1, <1>5, <2>1 DEF MemoryInv
<1>. QED
  BY <1>4, <1>5

(* Destruction leaves nothing.                                             *)
LEMMA DestroyMemory == IInv /\ mcp_server_destroy => MemoryInv'
<1>. SUFFICES ASSUME IInv, mcp_server_destroy PROVE MemoryInv'
  OBVIOUS
<1>1. LET r == Return(Destroyed(heap))
      IN  Flat(r) /\ Freed(r) = {} /\ ~r.fault /\ Live(r) = {}
  BY NeededWhere, DestroyedFlat DEF IInv, MemoryInv, mcp_server_destroy
<1>. QED
  BY <1>1 DEF MemoryInv, mcp_server_destroy

(* A call that is refused or starts changes nothing yet.                   *)
LEMMA AddToolMemory ==
    ASSUME IInv, NEW n \in Names, NEW given \in Given, add_tool(n, given)
    PROVE  MemoryInv'
<1>1. Needed' = Needed
  BY NeededSame DEF IInv, add_tool, slotVars
<1>2. Flat(heap) /\ Freed(heap) = {} /\ ~heap.fault /\ Live(heap) = Needed
  BY DEF IInv, MemoryInv, add_tool
<1>3. CASE at' = "idle" /\ heap' = Return(heap)
  BY <1>1, <1>2, <1>3, ReturnFlat DEF MemoryInv
<1>4. CASE at' = "schema" /\ heap' = heap
  BY <1>1, <1>2, <1>4 DEF MemoryInv
<1>. QED
  BY <1>3, <1>4 DEF add_tool, return

(* The schema is there, or nothing is.                                     *)
LEMMA SchemaMemory == IInv /\ add_schema => MemoryInv'
<1>. SUFFICES ASSUME IInv, add_schema PROVE MemoryInv'
  OBVIOUS
<1> DEFINE s == input_schema(next)
           made == Alloc(heap, s)
<1>1. Needed' = Needed /\ s' = s
  BY NeededSame DEF IInv, add_schema, slotVars, next, input_schema
<1>2. Flat(heap) /\ Freed(heap) = {} /\ ~heap.fault /\ Live(heap) = Needed
  BY DEF IInv, MemoryInv, add_schema
<1>3. s \in Objects /\ s \notin Needed
  BY SlotParts, NeededWhere, SlotsApart DEF IInv, CallInv, Registering, add_schema
<1>4. /\ Flat(made) /\ Freed(made) = {} /\ ~made.fault
      /\ Live(made) = Needed \cup {s}
  BY <1>2, <1>3, AllocFlat
<1>5. CASE at' = "reserve" /\ heap' = made
  BY <1>1, <1>4, <1>5 DEF MemoryInv
<1>6. CASE at' = "idle" /\ heap' = Return(heap)
  BY <1>1, <1>2, <1>6, ReturnFlat DEF MemoryInv
<1>7. CASE at' = "idle" /\ heap' = Return(Delete(made, {s}))
  <2>1. LET r == heap'
        IN  /\ Flat(r) /\ Freed(r) = {} /\ ~r.fault
            /\ Live(r) = (Needed \cup {s}) \ {s}
    <3>1. {s} \in SUBSET Objects
      BY <1>3
    <3>. HIDE DEF s, made
    <3>. QED
      BY <1>4, <1>7, <3>1, ReturnDelete
  <2>. QED
    BY <1>1, <1>3, <1>7, <2>1 DEF MemoryInv
<1>. QED
  BY <1>5, <1>6, <1>7 DEF add_schema, return

(* The array grows, or the schema is given back.                           *)
LEMMA ReserveMemory == IInv /\ tools_reserve => MemoryInv'
<1>. SUFFICES ASSUME IInv, tools_reserve PROVE MemoryInv'
  OBVIOUS
<1> DEFINE s == input_schema(next)
<1>1. s' = s
  BY DEF tools_reserve, next, input_schema
<1>2. /\ Flat(heap) /\ Freed(heap) = {} /\ ~heap.fault
      /\ Live(heap) = Needed \cup {s}
  BY DEF IInv, MemoryInv, tools_reserve
<1>3. s \in Objects /\ s \notin Needed /\ s # tools /\ tools \in Objects
  BY SlotParts, NeededWhere, SlotsApart DEF IInv, CallInv, Registering, tools_reserve
<1>4. CASE UNCHANGED <<heap, tools_cap>> /\ at' = "fill"
  <2>1. Needed' = Needed
    BY <1>4, NeededSame DEF IInv, tools_reserve, slotVars
  <2>. QED
    BY <1>1, <1>2, <1>4, <2>1 DEF MemoryInv
<1>5. CASE /\ tools_cap' = IF tools_cap = 0 THEN FirstCapacity ELSE tools_cap * 2
           /\ heap' = AllocAll(Delete(heap, {tools}), {tools})
           /\ at' = "fill"
  <2>1. tools_cap' # 0
    BY <1>5 DEF IInv, RegistryTypeOK, FirstCapacity
  <2>2. \A i \in 1..tools_count : SlotNeeds(i)' = SlotNeeds(i)
    BY DEF SlotNeeds, tools_reserve, slotVars
  <2>3. Needed' = Needed \cup {tools}
    BY <2>1, <2>2 DEF Needed, tools_reserve
  <2> DEFINE d == Delete(heap, {tools})
  <2>4. /\ Flat(d) /\ ~d.fault /\ Freed(d) \subseteq {tools}
        /\ Live(d) = (Needed \cup {s}) \ {tools}
    BY <1>2, <1>3, DeleteFlat
  <2>5. /\ Flat(heap') /\ ~heap'.fault /\ Freed(heap') = {}
        /\ Live(heap') = Needed \cup {tools, s}
    <3>1. heap' = AllocAll(d, {tools}) /\ {tools} \in SUBSET Objects
      BY <1>3, <1>5
    <3>2. {tools} \cap Live(d) = {}
      BY <2>4
    <3>. HIDE DEF d, s
    <3>. QED
      BY <2>4, <3>1, <3>2, AllocAllFlat
  <2>. QED
    BY <1>1, <1>5, <2>3, <2>5 DEF MemoryInv
<1>6. CASE /\ at' = "idle" /\ heap' = Return(Delete(heap, {s}))
           /\ UNCHANGED tools_cap
  <2>1. Needed' = Needed
    BY <1>6, NeededSame DEF IInv, tools_reserve, slotVars
  <2>2. LET r == heap'
        IN  /\ Flat(r) /\ Freed(r) = {} /\ ~r.fault
            /\ Live(r) = (Needed \cup {s}) \ {s}
    <3>1. {s} \in SUBSET Objects
      BY <1>3
    <3>. HIDE DEF s
    <3>. QED
      BY <1>2, <1>6, <3>1, ReturnDelete
  <2>. QED
    BY <1>3, <1>6, <2>1, <2>2 DEF MemoryInv
<1>. QED
  BY <1>4, <1>5, <1>6 DEF tools_reserve, return

(* The slot's strings are allocated, each or not.                          *)
LEMMA FillMemory == IInv /\ add_fill => MemoryInv'
<1>. SUFFICES ASSUME IInv, add_fill PROVE MemoryInv'
  OBVIOUS
<1> DEFINE s == input_schema(next)
<1>1. s' = s /\ Wanted' = Wanted
  BY DEF add_fill, next, input_schema, Wanted
<1>2. /\ Flat(heap) /\ Freed(heap) = {} /\ ~heap.fault
      /\ Live(heap) = Needed \cup {s}
  BY DEF IInv, MemoryInv, add_fill
<1>3. next \in Slots
  BY DEF IInv, CallInv, Registering, add_fill
<1>4. next \notin 1..tools_count
  BY DEF IInv, RegistryTypeOK, next
<1>5. Needed' = Needed
  BY <1>4, NeededSame DEF IInv, add_fill
<1>6. Wanted \cap (Needed \cup {s}) = {} /\ Wanted \subseteq Objects
  BY <1>3, SlotParts, NeededWhere, SlotsApart DEF IInv
<1>7. PICK made \in SUBSET Wanted : heap' = AllocAll(heap, made)
  BY DEF add_fill
<1>8. /\ Flat(heap') /\ ~heap'.fault /\ Freed(heap') = {}
      /\ Live(heap') = Needed \cup {s} \cup made
  BY <1>2, <1>6, <1>7, AllocAllFlat
<1>. QED
  BY <1>1, <1>5, <1>7, <1>8 DEF MemoryInv, add_fill

(* The slot is complete, or all of it is given back.                       *)
LEMMA CommitMemory == IInv /\ add_commit => MemoryInv'
<1>. SUFFICES ASSUME IInv, add_commit PROVE MemoryInv'
  OBVIOUS
<1> DEFINE s == input_schema(next)
<1>1. /\ Flat(heap) /\ Freed(heap) = {} /\ ~heap.fault
      /\ Needed \cup {s} \subseteq Live(heap)
      /\ Live(heap) \subseteq Needed \cup {s} \cup Wanted
  BY DEF IInv, MemoryInv, add_commit
<1>2. next \in Slots
  BY DEF IInv, CallInv, Registering, add_commit
<1>3. CASE Wanted \subseteq Live(heap)
  <2>1. tools_count' = next /\ UNCHANGED <<tools_cap, slotVars>>
        /\ heap' = Return(heap) /\ at' = "idle"
    BY <1>3 DEF add_commit, return
  <2>2. SlotNeeds(next) = {s} \cup Wanted
    BY DEF SlotNeeds, Wanted, IInv, CallInv, add_commit
  <2>3. Needed' = Live(heap)
    BY <1>1, <1>3, <2>1, <2>2, NeededGrows DEF IInv
  <2>. QED
    BY <1>1, <2>1, <2>3, ReturnFlat DEF MemoryInv
<1>4. CASE ~(Wanted \subseteq Live(heap))
  <2>1. /\ heap' = Return(Delete(heap, SlotOwned(next))) /\ at' = "idle"
        /\ UNCHANGED <<tools_count, tools_cap>>
        /\ titled' = titled \ {next} /\ described' = described \ {next}
    BY <1>4 DEF add_commit, return
  <2>2. next \notin 1..tools_count
    BY DEF IInv, RegistryTypeOK, next
  <2>3. Needed' = Needed
    BY <2>1, <2>2, NeededSame DEF IInv
  <2>4. Live(heap) \ SlotOwned(next) = Needed
    BY <1>1, <1>2, SlotParts, NeededWhere DEF IInv
  <2>5. LET r == heap'
        IN  Flat(r) /\ Freed(r) = {} /\ ~r.fault /\ Live(r) = Needed
    BY <1>1, <1>2, <2>1, <2>4, ReturnDelete, SlotsApart
  <2>. QED
    BY <2>1, <2>3, <2>5 DEF MemoryInv
<1>. QED
  BY <1>3, <1>4

(* Nothing changes, nothing is lost.                                       *)
LEMMA StutterMemory == IInv /\ UNCHANGED vars => MemoryInv'
BY DEF IInv, MemoryInv, Flat, Freed, Live, Needed, SlotNeeds, Wanted, next,
       vars, slotVars, name, title, description, input_schema

(* Every step keeps the heap as it is needed.                              *)
LEMMA MemoryStep == IInv /\ [Next]_vars => MemoryInv'
BY CreateMemory, DestroyMemory, AddToolMemory, SchemaMemory, ReserveMemory,
   FillMemory, CommitMemory, StutterMemory DEF Next, AddStep, Terminated

(* What a step does to the registered tools and their slots.               *)
LEMMA CallStep == IInv /\ [Next]_vars => CallInv' /\ NamesUnique'
<1>. SUFFICES ASSUME IInv, [Next]_vars PROVE CallInv' /\ NamesUnique'
  OBVIOUS
<1>. USE DEF IInv, CallInv, NamesUnique, Registering, mcp_server_find_tool, next
<1>1. CASE mcp_server_create
  BY <1>1 DEF mcp_server_create, slotVars
<1>2. CASE mcp_server_destroy
  BY <1>2 DEF mcp_server_destroy, slotVars
<1>3. ASSUME NEW n \in Names, NEW given \in Given, add_tool(n, given)
      PROVE  CallInv' /\ NamesUnique'
  BY <1>3, RegistryBounds DEF add_tool, return, slotVars, RegistryTypeOK, Slots
<1>4. CASE add_schema
  BY <1>4 DEF add_schema, return, slotVars
<1>5. CASE tools_reserve
  BY <1>5 DEF tools_reserve, return, slotVars, RegistryTypeOK, FirstCapacity
<1>6. CASE add_fill
  <2>1. next \notin 1..tools_count
    BY DEF RegistryTypeOK
  <2>2. \A i \in 1..tools_count : named'[i] = named[i]
    BY <1>6, <2>1, NeededWhere DEF add_fill, RegistryTypeOK
  <2>3. named'[next] = arg_name
    BY <1>6 DEF add_fill, RegistryTypeOK
  <2>. QED
    BY <1>6, <2>2, <2>3 DEF add_fill
<1>7. CASE add_commit
  <2>1. CASE tools_count' = next /\ UNCHANGED slotVars /\ at' = "idle"
    <3>1. \A i \in 1..next : i \in 1..tools_count \/ i = next
      BY DEF RegistryTypeOK
    <3>. QED
      BY <1>7, <2>1, <3>1 DEF add_commit, slotVars
  <2>2. CASE /\ tools_count' = tools_count /\ at' = "idle"
             /\ named' = [named EXCEPT ![next] = None]
    <3>1. \A i \in 1..tools_count : named'[i] = named[i]
      BY <2>2, NeededWhere DEF RegistryTypeOK
    <3>. QED
      BY <2>2, <3>1
  <2>. QED
    BY <1>7, <2>1, <2>2 DEF add_commit, return
<1>8. CASE UNCHANGED vars
  BY <1>8 DEF vars, slotVars
<1>. QED
  BY <1>1, <1>2, <1>3, <1>4, <1>5, <1>6, <1>7, <1>8 DEF Next, AddStep, Terminated

(* Every step keeps the types.                                             *)
LEMMA TypeStep == IInv /\ [Next]_vars => RegistryTypeOK'
<1>. SUFFICES ASSUME IInv, [Next]_vars PROVE RegistryTypeOK'
  OBVIOUS
<1>1. heap' \in Heap(Objects)
  BY MemoryStep DEF MemoryInv, Flat
<1>. USE <1>1, RegistryBounds DEF RegistryTypeOK, IInv, Results
<1>2. CASE mcp_server_create
  BY <1>2 DEF mcp_server_create, slotVars
<1>3. CASE mcp_server_destroy
  BY <1>3 DEF mcp_server_destroy, slotVars
<1>4. ASSUME NEW n \in Names, NEW given \in Given, add_tool(n, given)
      PROVE  RegistryTypeOK'
  BY <1>4 DEF add_tool, return, slotVars
<1>5. CASE add_schema
  BY <1>5 DEF add_schema, return, slotVars
<1>6. CASE tools_reserve
  BY <1>6 DEF tools_reserve, return, slotVars, FirstCapacity
<1>7. CASE add_fill
  <2>1. next \in Slots
    BY <1>7 DEF CallInv, Registering, add_fill
  <2>. QED
    BY <1>7, <2>1 DEF add_fill
<1>8. CASE add_commit
  <2>1. next \in Slots /\ next <= tools_cap
    BY <1>8 DEF CallInv, Registering, add_commit
  <2>2. tools_count' \in 0..MaxTools /\ tools_count' <= tools_cap'
    BY <1>8, <2>1 DEF add_commit, next, Slots
  <2>3. /\ named' \in [Slots -> Names \cup {None}]
        /\ titled' \in SUBSET Slots /\ described' \in SUBSET Slots
    BY <1>8 DEF add_commit, slotVars
  <2>. QED
    BY <1>8, <2>2, <2>3 DEF add_commit, return
<1>9. CASE UNCHANGED vars
  BY <1>9 DEF vars, slotVars
<1>. QED
  BY <1>2, <1>3, <1>4, <1>5, <1>6, <1>7, <1>8, <1>9 DEF Next, AddStep, Terminated

----------------------------------------------------------------------------
(* The theorems.                                                           *)

(* The inductive invariant holds in every reachable state.                 *)
THEOREM Invariance == Spec => []IInv
<1>1. IInv /\ [Next]_vars => IInv'
  BY MemoryStep, CallStep, TypeStep DEF IInv
<1>. QED
  BY InitIInv, <1>1, PTL DEF Spec

(* The variables of mcp_server_t stay in their types, and the array of     *)
(* tools is never fuller than it was allocated.                            *)
THEOREM TypeCorrect == Spec => []RegistryTypeOK
<1>1. IInv => RegistryTypeOK
  BY DEF IInv
<1>. QED
  BY Invariance, <1>1, PTL

(* mcp_server_add_tool leaks and double-frees nothing, whatever fails in   *)
(* it, and mcp_server_destroy gives everything back.                       *)
THEOREM RegistryMemoryCorrect == Spec => []RegistryMemory
<1>1. IInv => RegistryMemory
  BY DEF IInv, MemoryInv, RegistryMemory
<1>. QED
  BY Invariance, <1>1, PTL

(* No two tools of a server have the same name.                            *)
THEOREM NamesUniqueCorrect == Spec => []NamesUnique
<1>1. IInv => NamesUnique
  BY DEF IInv
<1>. QED
  BY Invariance, <1>1, PTL

(* A call of mcp_server_add_tool adds its tool at the end and returns      *)
(* MCP_OK, or leaves every registered tool as it was.                      *)
THEOREM AddsOrNothingCorrect == Spec => AddsOrNothing
<1> DEFINE A == /\ \A i \in 1..tools_count :
                      named[i]' = named[i] /\ (i \in titled <=> i \in titled')
                /\ tools_count' # tools_count =>
                      /\ tools_count' = tools_count + 1 /\ rc' = "MCP_OK"
                      /\ named'[tools_count'] = arg_name
<1>1. IInv /\ [Next]_vars => [A]_vars
  <2>. SUFFICES ASSUME IInv, Next PROVE A
    BY DEF vars
  <2>. USE DEF slotVars
  <2>1. \A i \in 1..tools_count : i # next /\ i \in Slots
    BY NeededWhere DEF IInv, RegistryTypeOK, next
  <2>2. CASE add_fill
    BY <2>1, <2>2 DEF add_fill, IInv, RegistryTypeOK
  <2>3. CASE add_commit
    <3>1. CASE Wanted \subseteq Live(heap)
      BY <2>3, <3>1 DEF add_commit, return, IInv, CallInv, next
    <3>2. CASE ~(Wanted \subseteq Live(heap))
      BY <2>1, <2>3, <3>2 DEF add_commit, return, IInv, RegistryTypeOK
    <3>. QED
      BY <3>1, <3>2
  <2>4. CASE ~add_fill /\ ~add_commit
    BY <2>4 DEF Next, AddStep, Terminated, vars, mcp_server_create,
       mcp_server_destroy, add_tool, add_schema, tools_reserve
  <2>. QED
    BY <2>2, <2>3, <2>4
<1>. QED
  BY Invariance, <1>1, PTL DEF Spec, AddsOrNothing
=============================================================================
