-------------------------------- MODULE DList --------------------------------
(***************************************************************************)
(* The doubly linked list of src/blackdb/list.cpp, pointer by pointer.     *)
(* NULL is the null pointer; the nodes in live are allocated.  deletelist  *)
(* is modelled iteration by iteration, the other functions are one step.   *)
(*                                                                         *)
(* An operator above another whose name it extends is that operator with a *)
(* bug in it; no formula uses it.                                          *)
(***************************************************************************)
EXTENDS Integers, Sequences, FiniteSets, SequencesExt

CONSTANTS Node, Value, NULL

ASSUME NULLAssumption == NULL \notin Node

VARIABLES
    head, tail, len,    \* the fields of list
    next, prev, value,  \* the fields of each listNode
    live,               \* nodes that are allocated
    pc,                 \* "none", "list", "deleting" or "null_deref"
    cur, left,          \* locals of deletelist
    call                \* history: the last call that changed the list, and
                        \* its arguments

fields == <<next, prev, value>>
locals == <<cur, left>>
vars == <<head, tail, len, next, prev, value, live, pc, cur, left, call>>

Init ==
    /\ head = NULL /\ tail = NULL /\ len = 0
    /\ next = [x \in Node |-> NULL]
    /\ prev = [x \in Node |-> NULL]
    /\ value = [x \in Node |-> NULL]
    /\ live = {}
    /\ pc = "none"
    /\ cur = NULL /\ left = 0
    /\ call = <<"none">>

CreatList ==
    /\ pc = "none"
    /\ pc' = "list"
    /\ head' = NULL /\ tail' = NULL /\ len' = 0
    /\ UNCHANGED <<fields, live, locals, call>>

-----------------------------------------------------------------------------
(* Adding and removing nodes *)

\* new listNode(), given its value and counted.
Allocate(x, v) ==
    /\ pc = "list"
    /\ x \notin live
    /\ live' = live \cup {x}
    /\ value' = [value EXCEPT ![x] = v]
    /\ len' = len + 1
    /\ UNCHANGED <<pc, locals>>

LastNodeForgotten == NULL
LastNode == IF len = 0 THEN NULL ELSE tail

\* The links of a node that becomes the last one.
LinkBehind(x) ==
    /\ tail' = x
    /\ head' = IF len = 0 THEN x ELSE head
    /\ prev' = [prev EXCEPT ![x] = LastNode]
    /\ next' = [y \in Node |-> CASE y = x -> NULL
                                 [] len # 0 /\ y = tail -> x
                                 [] OTHER -> next[y]]

AddTail(x, v) == Allocate(x, v) /\ LinkBehind(x) /\ call' = <<"tail", x, v>>

\* The links of a node that becomes the first one.
LinkInFrontAtTail(x) == LinkBehind(x)
LinkInFront(x) ==
    /\ head' = x
    /\ tail' = IF len = 0 THEN x ELSE tail
    /\ next' = [next EXCEPT ![x] = IF len = 0 THEN NULL ELSE head]
    /\ prev' = [y \in Node |-> CASE y = x -> NULL
                                 [] len # 0 /\ y = head -> x
                                 [] OTHER -> prev[y]]

AddHead(x, v) == Allocate(x, v) /\ LinkInFront(x) /\ call' = <<"head", x, v>>

HeadWithout(x) == IF prev[x] = NULL THEN next[x] ELSE head
TailWithoutStays(x) == tail
TailWithout(x) == IF next[x] = NULL THEN prev[x] ELSE tail

\* What the caller passes is a node of the list.
DelNode(x) ==
    /\ pc = "list"
    /\ x \in live
    /\ head' = HeadWithout(x)
    /\ next' = IF prev[x] = NULL THEN next ELSE [next EXCEPT ![prev[x]] = next[x]]
    /\ tail' = TailWithout(x)
    /\ prev' = IF next[x] = NULL THEN prev ELSE [prev EXCEPT ![next[x]] = prev[x]]
    /\ live' = live \ {x}
    /\ len' = len - 1
    /\ call' = <<"del", x>>
    /\ UNCHANGED <<value, pc, locals>>

-----------------------------------------------------------------------------
(* deletelist: it counts down len and follows next *)

DeleteStart ==
    /\ pc = "list"
    /\ pc' = "deleting"
    /\ cur' = head
    /\ left' = len
    /\ call' = <<"delete">>
    /\ UNCHANGED <<head, tail, len, fields, live>>

DeleteStep ==
    /\ pc = "deleting"
    /\ left > 0
    /\ IF cur \in live
       THEN /\ live' = live \ {cur}
            /\ cur' = next[cur]
            /\ left' = left - 1
            /\ UNCHANGED pc
       ELSE pc' = "null_deref" /\ UNCHANGED <<live, locals>>
    /\ UNCHANGED <<head, tail, len, fields, call>>

DeleteDone ==
    /\ pc = "deleting"
    /\ left = 0
    /\ pc' = "none"
    /\ head' = NULL /\ tail' = NULL /\ len' = 0
    /\ cur' = NULL
    /\ UNCHANGED <<fields, live, left, call>>

Next ==
    \/ CreatList
    \/ \E x \in Node, v \in Value : AddHead(x, v) \/ AddTail(x, v)
    \/ \E x \in Node : DelNode(x)
    \/ DeleteStart \/ DeleteStep \/ DeleteDone

Spec == Init /\ [][Next]_vars

-----------------------------------------------------------------------------
(* Properties *)

\* The node i steps along a chain of pointers from one end.
Along(first, pointer, i) ==
    LET at[j \in 1..i] == IF j = 1 THEN first
                          ELSE IF at[j - 1] \in Node THEN pointer[at[j - 1]]
                          ELSE NULL
    IN  at[i]
Forward == [i \in 1..len |-> Along(head, next, i)]
Backward == [i \in 1..len |-> Along(tail, prev, i)]

\* A traversal from the head and one from the tail meet the same len nodes in
\* opposite orders, all allocated, all different, and no other is allocated
\* (list.cpp:30-92).
ListSound ==
    pc = "list" =>
        /\ ToSet(Forward) = live
        /\ IsInjective(Forward)
        /\ Backward = Reverse(Forward)
        /\ Cardinality(live) = len
        /\ len # 0 => next[tail] = NULL /\ prev[head] = NULL

\* deletelist, which counts instead of looking for the end, never follows a
\* null or freed pointer, and frees every node (list.cpp:99-116).
AllFreed ==
    /\ pc # "null_deref"
    /\ pc = "none" => live = {}

\* The sequence the pointers stand for, from when the list is created until
\* deletelist is called.
Items == IF pc = "list" THEN [i \in 1..len |-> <<Forward[i], value[Forward[i]]>>]
         ELSE <<>>
Length == IF pc = "list" THEN len ELSE 0

Promise == INSTANCE Deque WITH items <- Items, length <- Length

\* The pointers implement the sequence, call by call: addlistNodeHead adds the
\* node and value it was given in front and addlistNodeTail behind,
\* dellistNode takes out the node it was given and keeps the order of the
\* rest, and handles and values survive all other calls (list.cpp:20-116).
ImplementsDeque == Promise!Spec
=============================================================================
