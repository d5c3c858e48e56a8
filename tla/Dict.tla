-------------------------------- MODULE Dict --------------------------------
(***************************************************************************)
(* The incrementally rehashed hash table of src/blackdb/dict.cpp.          *)
(*                                                                         *)
(* A dictionary owns two bucket arrays, ht[0] and ht[1].  While rehashidx  *)
(* is not -1 the entries of ht[0] are being moved to ht[1]: every call     *)
(* first advances the move by RehashSteps buckets, searches both arrays    *)
(* and inserts into ht[1].                                                 *)
(*                                                                         *)
(* One action per iteration of a loop or per straight-line block of the    *)
(* code.  A call enters at "idle", walks through the pc values below and   *)
(* returns to "idle":                                                      *)
(*    rehash, move   dictRehash(d, RehashSteps); cont says where it        *)
(*                   returns to                                            *)
(*    expand         _dictExpandIfNeeded                                   *)
(*    insert         _dictKeyIndex and the insertion of dictAddRaw         *)
(*    sized, search  dictFind, before and after its second rehash step     *)
(*    unlink         dictDelete after its rehash step                      *)
(* Undefined behaviour of the code ends a behaviour of the model: the pc   *)
(* then names what happened.                                               *)
(*                                                                         *)
(* An operator above another whose name it extends (MoveEntryKeepsUsed     *)
(* above MoveEntry) is that operator with a bug in it; no formula uses it. *)
(* The README says which property notices which bug.                       *)
(***************************************************************************)
EXTENDS Integers, Sequences, FiniteSets, SequencesExt

CONSTANTS
    Key, Value, NULL,
    Hash,           \* dictGenHashFunction of a key
    InitialSize,    \* DICT_HT_INITIAL_SIZE, 4 in dict.h
    ResizeRatio,    \* dict_resize_ratio, 3 in dict.h
    RehashSteps,    \* buckets moved per step, 100 in dictStepRehash
    TableSizes      \* the array sizes an instance may allocate (a bound)

ASSUME HashAssumption == Hash \in [Key -> Nat]
ASSUME InitialSizeAssumption == InitialSize \in TableSizes
ASSUME ResizeRatioAssumption == ResizeRatio \in Nat \ {0}
ASSUME RehashStepsAssumption == RehashSteps \in Nat \ {0}
ASSUME NULLAssumption == NULL \notin Value

\* _dictNextPower doubles from DICT_HT_INITIAL_SIZE: no size is skipped.
ASSUME TableSizesAssumption ==
    /\ TableSizes \subseteq Nat \ {0}
    /\ \A s \in TableSizes :
          /\ s >= InitialSize
          /\ s = InitialSize \/ \E h \in TableSizes : s = 2 * h

\* The bound on the sizes leaves room for all the keys of the instance.
ASSUME TableSizesReach ==
    IsFiniteSet(Key) => \E s \in TableSizes : s >= 2 * Cardinality(Key)

VARIABLES
    table,      \* ht[t].table: bucket -> collision chain, empty when NULL
    size,       \* ht[t].size (mask is size - 1), 0 when table is NULL
    used,       \* ht[t].used
    rehashidx,  \* next bucket of ht[0] to move, -1 when not rehashing
    pc,         \* where the running call is
    cont,       \* where dictRehash returns to
    n,          \* rehash steps left in this call of dictRehash
    call,       \* arguments of the running call
    ret         \* result of the last call

vars == <<table, size, used, rehashidx, pc, cont, n, call, ret>>

DICT_ERROR == 0
DICT_OK == 1

Entry == [key : Key, value : Value]
NoCall == [op |-> "none", key |-> NULL, val |-> NULL]

Faults == {"dangling", "null_deref", "overrun"}
Stopped == Faults \cup {"released"}
Running == {"rehash", "move", "expand", "insert", "sized", "search", "unlink"}

-----------------------------------------------------------------------------
(* Tables and chains *)

\* new dictEntry*[s] filled with zeroes; FreshTable(0) stands for NULL.
FreshTable(s) == [i \in 0..(s - 1) |-> <<>>]

\* hash & mask: sizes are powers of two times InitialSize, itself a power of
\* two, so the mask takes the remainder.
Bucket(k, s) == Hash[k] % s

Chain(k, t) == table[t][Bucket(k, size[t])]

\* The scan of a chain with dictSdsKeyCompare.
FoundAt(chain, k, j) ==
    /\ j \in 1..Len(chain)
    /\ chain[j].key = k
    /\ \A i \in 1..(j - 1) : chain[i].key # k
Holds(chain, k) == \E j \in 1..Len(chain) : chain[j].key = k

Rehashing == rehashidx # -1

\* for (table = 0; table <= 1; table++) ... if (!dictIsRehashing(d)) break;
SearchedOnlyFirst == {0}
Searched == IF Rehashing THEN {0, 1} ELSE {0}
Stored(k) == \E t \in Searched : Holds(Chain(k, t), k)

\* The table and the position at which the search of both chains stops.
FirstHit(k, t, j) ==
    /\ t \in Searched
    /\ FoundAt(Chain(k, t), k, j)
    /\ t = 1 => ~Holds(Chain(k, 0), k)

InsertTable == IF Rehashing THEN 1 ELSE 0

Init ==
    /\ table = [t \in {0, 1} |-> FreshTable(IF t = 0 THEN InitialSize ELSE 0)]
    /\ size = [t \in {0, 1} |-> IF t = 0 THEN InitialSize ELSE 0]
    /\ used = [t \in {0, 1} |-> 0]
    /\ rehashidx = -1
    /\ pc = "idle"
    /\ cont = "idle"
    /\ n = 0
    /\ call = NoCall
    /\ ret = NULL

-----------------------------------------------------------------------------
(* Entering a call, and the rehash step most of them start with *)

StepOffByOne == RehashSteps - 1
StepOneBucket == 1
Step == RehashSteps

\* if (dictIsRehashing(d)) dictStepRehash(d);
StepRehashThen(next) ==
    IF Rehashing
    THEN pc' = "rehash" /\ cont' = next /\ n' = Step
    ELSE pc' = next /\ UNCHANGED <<cont, n>>

Invoke(op, k, v) ==
    /\ pc = "idle"
    /\ call' = [op |-> op, key |-> k, val |-> v]
    /\ ret' = NULL
    /\ UNCHANGED <<table, size, used, rehashidx>>

Return(r) ==
    /\ pc' = "idle"
    /\ call' = NoCall
    /\ ret' = r
    /\ UNCHANGED <<cont, n>>

DictAdd(k, v) == Invoke("add", k, v) /\ StepRehashThen("expand")

DictRewrite(k, v) == Invoke("rewrite", k, v) /\ StepRehashThen("expand")

DictFind(k) == Invoke("find", k, NULL) /\ StepRehashThen("sized")

\* dictDelete looks at ht[0].size before it rehashes.
DictDelete(k) ==
    /\ Invoke("delete", k, NULL)
    /\ IF size[0] = 0
       THEN pc' = "unlink" /\ UNCHANGED <<cont, n>>
       ELSE StepRehashThen("unlink")

-----------------------------------------------------------------------------
(* dictRehash(d, n) *)

\* while (n--) has run out.
RehashPause ==
    /\ pc = "rehash"
    /\ n = 0
    /\ pc' = cont
    /\ cont' = "idle"
    /\ UNCHANGED <<table, size, used, rehashidx, n, call, ret>>

SwapTables ==
    /\ table' = [t \in {0, 1} |-> IF t = 0 THEN table[1] ELSE FreshTable(0)]
    /\ size' = [t \in {0, 1} |-> IF t = 0 THEN size[1] ELSE 0]
    /\ used' = [t \in {0, 1} |-> IF t = 0 THEN used[1] ELSE 0]
    /\ pc' = cont
    /\ cont' = "idle"
    /\ n' = 0
    /\ UNCHANGED <<call, ret>>

RehashDoneTooEarly == pc = "rehash" /\ n > 0 /\ SwapTables /\ rehashidx' = -1

\* ht[0] is empty: ht[1] takes its place.
RehashDone ==
    /\ pc = "rehash"
    /\ n > 0
    /\ used[0] = 0
    /\ SwapTables
    /\ rehashidx' = -1

\* while (table[rehashidx] == NULL) rehashidx++ has no bound: it reads past
\* the array when no bucket from rehashidx on has an entry.
RehashBucket ==
    /\ pc = "rehash"
    /\ n > 0
    /\ used[0] # 0
    /\ n' = n - 1
    /\ \E i \in rehashidx..size[0] :
          /\ i < size[0] => table[0][i] # <<>>
          /\ \A h \in rehashidx..(i - 1) : table[0][h] = <<>>
          /\ rehashidx' = i
          /\ pc' = IF i < size[0] THEN "move" ELSE "overrun"
    /\ UNCHANGED <<table, size, used, cont, call, ret>>

\* The head of the chain goes to the front of its chain in ht[1].  What is
\* left of table[0][rehashidx] stands for the local variable entry.
AtEntry == pc = "move" /\ table[0][rehashidx] # <<>>
MovedKey == Head(table[0][rehashidx]).key
Relink(b) ==
    /\ table' = [table EXCEPT
                    ![0][rehashidx] = Tail(@),
                    ![1][b] = Cons(Head(table[0][rehashidx]), @)]
    /\ UNCHANGED <<size, rehashidx, pc, cont, n, call, ret>>

MoveEntryKeepsUsed ==
    /\ AtEntry
    /\ Relink(Bucket(MovedKey, size[1]))
    /\ used' = [used EXCEPT ![1] = @ + 1]

MoveEntryOldMask ==
    /\ AtEntry
    /\ Relink(Bucket(MovedKey, size[0]) % size[1])
    /\ used' = [used EXCEPT ![0] = @ - 1, ![1] = @ + 1]

MoveEntryKeepsHead == AtEntry /\ UNCHANGED vars

MoveEntry ==
    /\ AtEntry
    /\ Relink(Bucket(MovedKey, size[1]))
    /\ used' = [used EXCEPT ![0] = @ - 1, ![1] = @ + 1]

NextIndexSkipsOne == rehashidx + 2
NextIndex == rehashidx + 1

\* The bucket is set to NULL and passed.
BucketDone ==
    /\ pc = "move"
    /\ table[0][rehashidx] = <<>>
    /\ rehashidx' = NextIndex
    /\ pc' = "rehash"
    /\ UNCHANGED <<table, size, used, cont, n, call, ret>>

-----------------------------------------------------------------------------
(* dictExpand, _dictExpandIfNeeded, dictResize *)

\* The array dictExpand allocates: the first power that is large enough.
IsNextPower(p, s) ==
    /\ p \in TableSizes
    /\ p >= s
    /\ \A q \in TableSizes : q >= s => p <= q

\* rehashidx once the new array is ht[t].
StartIndexAlways(t) == 0
StartIndex(t) == IF t = 0 THEN rehashidx ELSE 0

\* dictExpand(d, s) past its check.  A NULL ht[0] gets the new array and is
\* ready; otherwise the new array becomes ht[1] and rehashing starts.
Expand(s) ==
    \E p \in TableSizes :
        /\ IsNextPower(p, s)
        /\ LET t == IF size[0] = 0 THEN 0 ELSE 1
           IN  /\ table' = [table EXCEPT ![t] = FreshTable(p)]
               /\ size' = [size EXCEPT ![t] = p]
               /\ used' = [used EXCEPT ![t] = 0]
               /\ rehashidx' = StartIndex(t)

MayExpandAnytime(s) == used[0] <= s

\* if (dictIsRehashing(d) || d->ht[0].used > size) return DICT_ERROR;
MayExpand(s) == ~Rehashing /\ used[0] <= s

NeverNeedsExpand == FALSE

NeedsExpand ==
    /\ ~Rehashing
    /\ used[0] > size[0]
    /\ used[0] \div size[0] > ResizeRatio

ExpandIfNeeded ==
    /\ pc = "expand"
    /\ pc' = "insert"
    /\ \/ NeedsExpand /\ MayExpand(used[0] * 2) /\ Expand(used[0] * 2)
       \/ ~NeedsExpand /\ UNCHANGED <<table, size, used, rehashidx>>
    /\ UNCHANGED <<cont, n, call, ret>>

ResizeTarget == IF used[0] < InitialSize THEN InitialSize ELSE used[0]

DictResize ==
    /\ pc = "idle"
    /\ \/ /\ MayExpand(ResizeTarget)
          /\ Expand(ResizeTarget)
          /\ ret' = DICT_OK
       \/ /\ ~MayExpand(ResizeTarget)
          /\ ret' = DICT_ERROR
          /\ UNCHANGED <<table, size, used, rehashidx>>
    /\ UNCHANGED <<pc, cont, n, call>>

-----------------------------------------------------------------------------
(* dictAdd and the first half of dictRewrite *)

\* dictClear has freed the array the search indexes.
InsertFault ==
    /\ pc = "insert"
    /\ \E t \in Searched : size[t] = 0
    /\ pc' = "null_deref"
    /\ UNCHANGED <<table, size, used, rehashidx, cont, n, call, ret>>

\* dictAdd returns 0; dictRewrite goes on to dictFind.
InsertExisting ==
    /\ pc = "insert"
    /\ \A t \in Searched : size[t] # 0
    /\ Stored(call.key)
    /\ \/ call.op = "add" /\ Return(DICT_ERROR)
       \/ /\ call.op = "rewrite"
          /\ StepRehashThen("sized")
          /\ UNCHANGED <<call, ret>>
    /\ UNCHANGED <<table, size, used, rehashidx>>

InsertNew ==
    /\ pc = "insert"
    /\ \A t \in Searched : size[t] # 0
    /\ ~Stored(call.key)
    /\ LET t == InsertTable
           e == [key |-> call.key, value |-> call.val]
       IN  /\ table' = [table EXCEPT
                            ![t][Bucket(call.key, size[t])] = Cons(e, @)]
           /\ used' = [used EXCEPT ![t] = @ + 1]
    /\ Return(DICT_OK)
    /\ UNCHANGED <<size, rehashidx>>

-----------------------------------------------------------------------------
(* dictFind and the second half of dictRewrite *)

\* A failed dictFind: dictFecthValue returns NULL, dictRewrite writes through
\* the NULL entry.
FindMiss ==
    /\ pc' = IF call.op = "rewrite" THEN "null_deref" ELSE "idle"
    /\ call' = IF call.op = "rewrite" THEN call ELSE NoCall
    /\ ret' = NULL
    /\ UNCHANGED <<table, size, used, rehashidx, cont, n>>

FindSized ==
    /\ pc = "sized"
    /\ \/ size[0] = 0 /\ FindMiss
       \/ /\ size[0] # 0
          /\ StepRehashThen("search")
          /\ UNCHANGED <<table, size, used, rehashidx, call, ret>>

FindSearch ==
    /\ pc = "search"
    /\ \/ ~Stored(call.key) /\ FindMiss
       \/ \E t \in Searched : \E j \in 1..Len(Chain(call.key, t)) :
             /\ FirstHit(call.key, t, j)
             /\ \/ /\ call.op = "find"
                   /\ Return(Chain(call.key, t)[j].value)
                   /\ UNCHANGED table
                \/ /\ call.op = "rewrite"
                   /\ table' = [table EXCEPT
                         ![t][Bucket(call.key, size[t])][j].value = call.val]
                   /\ Return(DICT_ERROR)
             /\ UNCHANGED <<size, used, rehashidx>>

-----------------------------------------------------------------------------
(* dictDelete *)

\* preEn still points into the chain of ht[0] when the head of the chain of
\* ht[1] is the entry to delete.
Crossing(t, j) == t = 1 /\ j = 1 /\ Chain(call.key, 0) # <<>>

CountOutForgets(t) == UNCHANGED used
CountOutTwice(t) == used' = [used EXCEPT ![t] = @ - 2]
CountOut(t) == used' = [used EXCEPT ![t] = @ - 1]

DeleteFound ==
    \E t \in Searched : \E j \in 1..Len(Chain(call.key, t)) :
        /\ FirstHit(call.key, t, j)
        /\ ~Crossing(t, j)
        /\ table' = [table EXCEPT
                ![t][Bucket(call.key, size[t])] = RemoveAt(@, j)]
        /\ CountOut(t)
        /\ Return(DICT_OK)

\* preEn->next = dictEn->next hangs the rest of the chain of ht[1] behind the
\* chain of ht[0]; the bucket of ht[1] keeps the pointer to the freed entry.
DeleteCrossing ==
    /\ FirstHit(call.key, 1, 1)
    /\ Crossing(1, 1)
    /\ table' = [table EXCEPT ![0][Bucket(call.key, size[0])] =
                    @ \o Tail(Chain(call.key, 1))]
    /\ CountOut(1)
    /\ pc' = "dangling"
    /\ UNCHANGED <<cont, n, call, ret>>

DeleteMiss ==
    /\ size[0] # 0 => ~Stored(call.key)
    /\ Return(DICT_ERROR)
    /\ UNCHANGED <<table, used>>

Unlink ==
    /\ pc = "unlink"
    /\ \/ size[0] # 0 /\ (DeleteFound \/ DeleteCrossing)
       \/ DeleteMiss
    /\ UNCHANGED <<size, rehashidx>>

-----------------------------------------------------------------------------
(* dictClear, dictSize, dictRelease *)

NoTables ==
    /\ table' = [t \in {0, 1} |-> FreshTable(0)]
    /\ size' = [t \in {0, 1} |-> 0]
    /\ used' = [t \in {0, 1} |-> 0]

\* Both arrays are freed; rehashidx keeps its value.
DictClear ==
    /\ pc = "idle"
    /\ NoTables
    /\ ret' = DICT_OK
    /\ UNCHANGED <<rehashidx, pc, cont, n, call>>

DictSize ==
    /\ pc = "idle"
    /\ ret' = used[0] + used[1]
    /\ UNCHANGED <<table, size, used, rehashidx, pc, cont, n, call>>

DictRelease ==
    /\ pc = "idle"
    /\ NoTables
    /\ pc' = "released"
    /\ UNCHANGED <<rehashidx, cont, n, call, ret>>

-----------------------------------------------------------------------------

Caller ==
    \/ \E k \in Key, v \in Value : DictAdd(k, v) \/ DictRewrite(k, v)
    \/ \E k \in Key : DictFind(k) \/ DictDelete(k)
    \/ DictResize
    \/ DictClear
    \/ DictSize
    \/ DictRelease

Callee ==
    \/ RehashPause
    \/ RehashDone
    \/ RehashBucket
    \/ MoveEntry
    \/ BucketDone
    \/ ExpandIfNeeded
    \/ InsertFault
    \/ InsertExisting
    \/ InsertNew
    \/ FindSized
    \/ FindSearch
    \/ Unlink

Next == Caller \/ Callee

Spec == Init /\ [][Next]_vars

\* Nothing runs concurrently with a call: the event loop is single threaded
\* and a call never waits, so the code of a call keeps running.
FairSpec == Spec /\ WF_vars(Callee)

-----------------------------------------------------------------------------
(* Properties *)

KeysOf(buckets, s) == {k \in Key : \E i \in 0..(s - 1) : Holds(buckets[i], k)}
KeysIn(t) == KeysOf(table[t], size[t])

Distinct(chain) ==
    \A j1, j2 \in 1..Len(chain) : chain[j1].key = chain[j2].key => j1 = j2

\* The entries of both arrays.
Pairs ==
    UNION {UNION {ToSet(table[t][i]) : i \in 0..(size[t] - 1)} : t \in {0, 1}}

TypeOK ==
    /\ size \in [{0, 1} -> TableSizes \cup {0}]
    /\ DOMAIN table = {0, 1}
    /\ \A t \in {0, 1} : table[t] \in [0..(size[t] - 1) -> Seq(Entry)]
    /\ used \in [{0, 1} -> Nat]
    /\ rehashidx \in Nat \cup {-1}
    /\ pc \in {"idle"} \cup Running \cup Stopped
    /\ cont \in {"idle", "expand", "sized", "search", "unlink"}
    /\ n \in 0..RehashSteps
    /\ call \in {NoCall} \cup
           [op : {"add", "rewrite"}, key : Key, val : Value] \cup
           [op : {"find", "delete"}, key : Key, val : {NULL}]
    /\ ret \in Value \cup {NULL} \cup Nat

\* Every entry is in the chain its hash selects, in whichever array it is, so
\* that a search of that chain can reach it (dict.cpp:109, 347, 419).
KeysReachable ==
    pc # "dangling" =>
        \A t \in {0, 1} : \A i \in 0..(size[t] - 1) : \A k \in Key :
            Holds(table[t][i], k) => Bucket(k, size[t]) = i

\* No key is stored twice, within a chain or in both arrays: the check of
\* dictAddRaw and the insertion into ht[1] only (dict.cpp:234-249) keep this
\* while entries move between the arrays.
NoDuplicateKeys ==
    pc # "dangling" =>
        /\ \A t \in {0, 1} : \A i \in 0..(size[t] - 1) : Distinct(table[t][i])
        /\ KeysIn(0) \cap KeysIn(1) = {}

\* used counts the entries of each array.  dictRehash ends when ht[0].used is
\* 0 (dict.cpp:84) and frees the array: a count too low loses entries, a
\* count too high makes the scan of line 101 leave the array.
UsedExact ==
    pc # "dangling" => \A t \in {0, 1} : used[t] = Cardinality(KeysIn(t))

\* While rehashing, the buckets of ht[0] below rehashidx are empty and ht[1]
\* has an array; otherwise ht[1] is reset (dict.cpp:92, 117-118, 197-198).
\* dictClear is the exception: it frees both arrays and leaves rehashidx.
RehashFrontier ==
    IF Rehashing /\ size[0] # 0
    THEN size[1] # 0 /\ \A i \in 0..(size[0] - 1) :
             i < rehashidx => table[0][i] = <<>>
    ELSE size[1] = 0 /\ used[1] = 0

\* The unbounded scan of dict.cpp:101 never leaves the array.
NoOverrun == pc # "overrun"

\* Chains stay short: outside a rehash an array holds at most
\* ResizeRatio + 1 entries per bucket (dict.cpp:304), so a rehash finishes
\* before the array it fills is itself overfull.
LoadBounded ==
    ~Rehashing => used[0] <= (ResizeRatio + 1) * size[0]

\* dictDelete never leaves a freed entry in a chain.
NoDangling == pc # "dangling"

\* A rehash only ends once ht[0] is empty, and never starts over: rehashidx
\* grows until it is reset (dict.cpp:84-92, 118).
RehashOnlyForward ==
    [][\/ rehashidx' >= rehashidx
       \/ rehashidx' = -1 /\ KeysIn(0) = {}]_vars

\* Every call returns, or runs into undefined behaviour (the loops of
\* dictRehash, _dictKeyIndex, dictFind and dictDelete end).
CallReturns == (pc \in Running) ~> (pc \notin Running)

\* Calls cannot keep stepping a rehash forever: it completes.
RehashFinishes == ([]<>(pc = "rehash")) => []<>(~Rehashing)

\* The abstract map this table implements: whether ht[0] has an array, and how
\* far the caller can tell a call has come.
Backed == size[0] # 0
Phase ==
    CASE pc = "idle" -> "idle"
      [] pc = "released" -> "released"
      [] pc \in Faults -> "undefined"
      [] OTHER -> "busy"

Map == INSTANCE DictMap WITH pairs <- Pairs, backed <- Backed, phase <- Phase

\* Every call does what the abstract map does, at the instant it returns, and
\* moving entries between the arrays is invisible to the caller.
ImplementsMap == Map!Spec
=============================================================================
