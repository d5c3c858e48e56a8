------------------------------ MODULE DictIter ------------------------------
(***************************************************************************)
(* The iterator of dict.cpp, over a dictionary in any state Dict reaches,  *)
(* also in the middle of a rehash.                                         *)
(*                                                                         *)
(* showall and rdbSave take an iterator and call dictNext until it returns *)
(* NULL, and nothing else runs meanwhile; so an iteration starts between   *)
(* two calls of Dict and the dictionary keeps still until it ends.         *)
(*                                                                         *)
(* A pointer into a chain is modelled by the rest of the chain it points   *)
(* at: <<>> is NULL, Head is the entry, Tail is entry->next.               *)
(***************************************************************************)
EXTENDS Dict

VARIABLES
    itpc,       \* "none", "next", "done" or "null_deref"
    itable,     \* iter->table
    index,      \* iter->index
    current,    \* iter->current_entry
    following,  \* iter->next_entry
    visited     \* what dictNext has returned so far

itvars == <<itpc, itable, index, current, following, visited>>
allvars == <<vars, itvars>>

ItInit ==
    /\ Init
    /\ itpc = "none"
    /\ itable = 0
    /\ index = -1
    /\ current = <<>>
    /\ following = <<>>
    /\ visited = <<>>

GetDictIterator ==
    /\ itpc = "none"
    /\ pc = "idle"
    /\ itpc' = "next"
    /\ itable' = 0
    /\ index' = -1
    /\ current' = <<>>
    /\ following' = <<>>
    /\ visited' = <<>>
    /\ UNCHANGED vars

\* One entry more than used counts is enough to see that one came twice.
VisitBound == used[0] + used[1] + 1

\* dictNext returns the entry it has reached, if it has reached one.
Reach(chain) ==
    /\ current' = chain
    /\ following' = IF chain = <<>> THEN following ELSE Tail(chain)
    /\ visited' = IF chain = <<>> \/ Len(visited) = VisitBound THEN visited
                  ELSE Append(visited, Head(chain))

EnterSecondAtOne == itable' = 1 /\ index' = 1 /\ Reach(table[1][1])

EnterSecond == itable' = 1 /\ index' = 0 /\ Reach(table[1][0])

\* The next bucket of the array, or the first bucket of ht[1].
NextBucket ==
    /\ itpc = "next"
    /\ current = <<>>
    /\ \/ /\ index + 1 < size[itable]
          /\ index' = index + 1
          /\ Reach(table[itable][index + 1])
          /\ UNCHANGED <<itpc, itable>>
       \/ /\ index + 1 >= size[itable]
          /\ Rehashing /\ itable = 0
          /\ size[1] # 0
          /\ EnterSecond
          /\ UNCHANGED itpc
    /\ UNCHANGED vars

\* dictClear in a rehash leaves rehashidx: the first bucket of a NULL ht[1].
NextFault ==
    /\ itpc = "next"
    /\ current = <<>>
    /\ index + 1 >= size[itable]
    /\ Rehashing /\ itable = 0
    /\ size[1] = 0
    /\ itpc' = "null_deref"
    /\ itable' = 1
    /\ index' = 0
    /\ UNCHANGED <<vars, current, following, visited>>

NextInChainStays ==
    /\ itpc = "next"
    /\ current # <<>>
    /\ Reach(current)
    /\ UNCHANGED <<vars, itpc, itable, index>>

NextInChain ==
    /\ itpc = "next"
    /\ current # <<>>
    /\ Reach(following)
    /\ UNCHANGED <<vars, itpc, itable, index>>

\* dictNext returns NULL: both arrays are exhausted.
NextEnd ==
    /\ itpc = "next"
    /\ current = <<>>
    /\ index + 1 >= size[itable]
    /\ ~(Rehashing /\ itable = 0)
    /\ itpc' = "done"
    /\ index' = index + 1
    /\ UNCHANGED <<vars, itable, current, following, visited>>

DictReleaseIterator ==
    /\ itpc = "done"
    /\ itpc' = "none"
    /\ itable' = 0
    /\ index' = -1
    /\ visited' = <<>>
    /\ following' = <<>>
    /\ UNCHANGED <<vars, current>>

Iterate == NextBucket \/ NextFault \/ NextInChain \/ NextEnd

ItNext ==
    \/ itpc = "none" /\ Next /\ UNCHANGED itvars
    \/ GetDictIterator
    \/ Iterate
    \/ DictReleaseIterator

ItSpec == ItInit /\ [][ItNext]_allvars

\* showall and rdbSave loop on dictNext without waiting for anything; a call
\* runs to its end as in Dict.
ItFairSpec == ItSpec /\ WF_vars(Callee) /\ WF_allvars(Iterate)

-----------------------------------------------------------------------------
(* Properties *)

\* A finished iteration has returned every entry of the dictionary exactly
\* once, also when the entries are spread over both arrays (dict.cpp:479-516):
\* showall lists every key and rdbSave writes every pair.
IterationComplete ==
    itpc = "done" =>
        /\ ToSet(visited) = Pairs
        /\ Len(visited) = used[0] + used[1]

\* The only dictionary an iterator may crash on is one dictClear emptied in
\* the middle of a rehash.
IterationFaultsOnlyWhenCleared ==
    itpc = "null_deref" => size[0] = 0 /\ rehashidx >= 0

\* The loop on dictNext ends.
IterationEnds == (itpc = "next") ~> (itpc # "next")
=============================================================================
