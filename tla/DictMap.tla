------------------------------ MODULE DictMap ------------------------------
(***************************************************************************)
(* What dict.h promises its callers: a finite map from keys to values.     *)
(* Nothing here knows about buckets, chains or rehashing.  A call is       *)
(* accepted, stays pending, and takes effect at one instant, when it       *)
(* returns.  The two ways in which dict.cpp can leave defined behaviour    *)
(* are part of the contract because callers meet them: adding to a         *)
(* dictionary whose bucket array dictClear has freed, and a dictDelete     *)
(* that unlinks across the two bucket arrays.                              *)
(***************************************************************************)
EXTENDS Integers, FiniteSets

CONSTANTS Key, Value, NULL

VARIABLES
    pairs,      \* the entries of the dictionary
    backed,     \* the dictionary owns a bucket array
    call,       \* the pending call, NoCall if there is none
    ret,        \* what the last call returned
    phase       \* "idle", "busy", "undefined" or "released"

vars == <<pairs, backed, call, ret, phase>>

DICT_ERROR == 0
DICT_OK == 1

Entry == [key : Key, value : Value]
NoCall == [op |-> "none", key |-> NULL, val |-> NULL]
Calls == [op : {"add", "find", "delete", "rewrite"},
          key : Key, val : Value \cup {NULL}]

Without(k) == {e \in pairs : e.key # k}
With(k) == {e \in pairs : e.key = k}

Init ==
    /\ pairs = {}
    /\ backed = TRUE
    /\ call = NoCall
    /\ ret = NULL
    /\ phase = "idle"

Invoke ==
    /\ phase = "idle"
    /\ phase' = "busy"
    /\ call' \in Calls
    /\ ret' = NULL
    /\ UNCHANGED <<pairs, backed>>

Respond(r) ==
    /\ phase' = "idle"
    /\ call' = NoCall
    /\ ret' = r
    /\ UNCHANGED backed

\* An add never replaces a value: it returns DICT_ERROR on a key it finds.
Add ==
    /\ call.op = "add"
    /\ backed
    /\ \/ /\ With(call.key) = {}
          /\ pairs' = pairs \cup {[key |-> call.key, value |-> call.val]}
          /\ Respond(DICT_OK)
       \/ /\ With(call.key) # {}
          /\ UNCHANGED pairs
          /\ Respond(DICT_ERROR)

Rewrite ==
    /\ call.op = "rewrite"
    /\ backed
    /\ pairs' = Without(call.key) \cup {[key |-> call.key, value |-> call.val]}
    /\ Respond(IF With(call.key) = {} THEN DICT_OK ELSE DICT_ERROR)

Find ==
    /\ call.op = "find"
    /\ UNCHANGED pairs
    /\ \/ With(call.key) = {} /\ Respond(NULL)
       \/ \E e \in With(call.key) : Respond(e.value)

Delete ==
    /\ call.op = "delete"
    /\ pairs' = Without(call.key)
    /\ Respond(IF With(call.key) = {} THEN DICT_ERROR ELSE DICT_OK)

\* The calls that may run into undefined behaviour, and nothing else may.
Undefined ==
    /\ \/ call.op \in {"add", "rewrite"} /\ ~backed
       \/ call.op = "delete" /\ With(call.key) # {}
    /\ phase' = "undefined"
    /\ pairs' \in SUBSET Entry
    /\ UNCHANGED <<backed, call, ret>>

Return == phase = "busy" /\ (Add \/ Rewrite \/ Find \/ Delete \/ Undefined)

\* Emptying the dictionary also frees its bucket array.
Clear ==
    /\ phase = "idle"
    /\ pairs' = {}
    /\ backed' = FALSE
    /\ ret' = DICT_OK
    /\ UNCHANGED <<call, phase>>

\* A resize never changes the contents; it may give a cleared dictionary an
\* array again.
Resize ==
    /\ phase = "idle"
    /\ \/ ret' = DICT_OK /\ backed' = TRUE
       \/ ret' = DICT_ERROR /\ UNCHANGED backed
    /\ UNCHANGED <<pairs, call, phase>>

Size ==
    /\ phase = "idle"
    /\ ret' = Cardinality(pairs)
    /\ UNCHANGED <<pairs, backed, call, phase>>

Release ==
    /\ phase = "idle"
    /\ pairs' = {}
    /\ backed' = FALSE
    /\ phase' = "released"
    /\ UNCHANGED <<call, ret>>

Next == Invoke \/ Return \/ Clear \/ Resize \/ Size \/ Release

Spec == Init /\ [][Next]_vars
=============================================================================
