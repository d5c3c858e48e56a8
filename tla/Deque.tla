-------------------------------- MODULE Deque --------------------------------
(***************************************************************************)
(* What list.h promises its callers: a sequence that grows at both ends    *)
(* and gives up any element.  Elements are the handles callers keep, the   *)
(* listNode pointers, each with the value it was added with.  The last     *)
(* call is recorded with its arguments, so that what became of the         *)
(* sequence is tied to what was asked for.                                 *)
(***************************************************************************)
EXTENDS Integers, Sequences, SequencesExt

CONSTANTS Node, Value

VARIABLES
    items,      \* the sequence of <<handle, value>>
    length,     \* what listLength answers
    call        \* the last call that changed the list, and its arguments

vars == <<items, length, call>>

Unused(h) == \A i \in 1..Len(items) : items[i][1] # h

Init == items = <<>> /\ length = 0 /\ call = <<"none">>

PushFront(h, v) ==
    /\ Unused(h)
    /\ items' = Cons(<<h, v>>, items)
    /\ length' = length + 1
    /\ call' = <<"head", h, v>>

PushBack(h, v) ==
    /\ Unused(h)
    /\ items' = Append(items, <<h, v>>)
    /\ length' = length + 1
    /\ call' = <<"tail", h, v>>

TakeOut(i) ==
    /\ items' = RemoveAt(items, i)
    /\ length' = length - 1
    /\ call' = <<"del", items[i][1]>>

Delete == items' = <<>> /\ length' = 0 /\ call' = <<"delete">>

Next ==
    \/ \E h \in Node, v \in Value : PushFront(h, v) \/ PushBack(h, v)
    \/ \E i \in 1..Len(items) : TakeOut(i)
    \/ Delete

Spec == Init /\ [][Next]_vars
=============================================================================
