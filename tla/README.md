# blackdb: models, checks and proofs

blackdb is a small in-memory key-value store in the manner of Redis: a server
(`src/Server/Server.cpp`) on libuv, a command-line client
(`src/Client/Client.cpp`) and a library of data structures (`src/blackdb/`).
This directory holds TLA+ modules of its core, the TLC configurations that check
them on small instances, and proofs for TLAPS of what can be said for every size.

## 1. Inventory

| part | state it keeps | operations | what is hard about it | modelled by |
|---|---|---|---|---|
| hash table `dict.cpp` | two bucket arrays, `used` of each, `rehashidx` | `dictAdd`, `dictFind`/`dictFecthValue`, `dictRewrite`, `dictDelete`, `dictResize`, `dictClear`, `dictSize`, `dictRelease`, iterator | entries move between the arrays inside other calls; counters steer unbounded loops | `Dict`, `DictIter`, `DictMap`, `DictProofs`, `DictMapProofs` |
| commands `Server.cpp:36-170` | 16 databases, the database of each client | get, set, del, select, showall | sessions of several clients on shared databases; results that are dropped | `Server`, `ServerProofs` |
| dump files `Server.cpp:402-523` | the files, the position of a save or load | save, load | kills, full disks, cut, foreign and stale files, unchecked reads | `Server`, `ServerProofs` |
| connections `Server.cpp:171-197, 287-344` | handles, reply buffers | connect, read, EOF, write | TCP splits and joins messages; replies in flight when a handle closes; replies on the stack | `Session`, `SessionProofs`; the databases of several clients in `Server` |
| query parser `Server.cpp:203-272` | `argc`, `argv` | split a line in three | quotes and blanks at the ends; `argv` outlives the line | `Query`, `Text`, `TextProofs`; its result in `Server` |
| client `Client.cpp` | one pending line | read a line, write it, print an answer | pairing of answers with commands; closing while something is under way | `Session`, `SessionProofs` |
| linked list `list.cpp` | `head`, `tail`, `len`, the nodes | add at an end, remove, delete | four pointers per change | `DList`, `Deque`, `DListProofs` |
| strings `sds.cpp` | `len`, `free`, an allocation | new, append, clear, grow | the three must agree | `Sds`, `SdsProofs`, `Text`, `TextProofs` |
| `ziplist.cpp` | one block of bytes | push, insert, delete, index | length fields of varying size, cascades, a header that must know the block | `ZiplistCodec`, `Ziplist`, `ZiplistProofs`, in part |
| `skiplist.cpp` | — | insert, delete | unfinished: `sklistInsert` links a node it never allocates | no |
| `db.cpp`, `test.cpp` | — | commented out; an empty `main` | — | no |

How they interact. libuv calls `on_read` for every read of a socket. The line is
parsed into `argc`/`argv`, looked up in `blackCommandTable`, and the command is
run to its end inside the callback; it changes the dictionary of the client's
database and gives its reply to `uv_write`. Nothing else runs meanwhile. What is
concurrent is therefore the order of the clients' commands, TCP, the death of the
process at any instant, and, inside one dictionary, the rehash, which is spread
over the calls made on it.

## 2. The modules

### `Dict`, and `DictMap` which it implements

`Dict` is `dict.cpp` with one action for each straight-line block or loop
iteration. `table[t][i]` is the collision chain of bucket `i` of `ht[t]` as a
sequence, `size` and `used` are the fields of the same name (`mask` is
`size - 1`). A call enters at `pc = "idle"`, runs `dictRehash` first if a rehash
is in progress, and goes on where `cont` says.

| in the model | in the code |
|---|---|
| `DictAdd`, `DictRewrite`, `DictFind`, `DictDelete` | the entry of the call and its choice to rehash first |
| `RehashPause`, `RehashDone`, `RehashBucket`, `MoveEntry`, `BucketDone` | `dictRehash`, lines 80-118; what is left of `table[0][rehashidx]` is the local `entry` |
| `ExpandIfNeeded`, `Expand`, `IsNextPower` | `_dictExpandIfNeeded`, `dictExpand`, `_dictNextPower` |
| `InsertFault`, `InsertExisting`, `InsertNew` | `_dictKeyIndex` and the rest of `dictAddRaw` |
| `FindSized`, `FindSearch` | `dictFind`, which rehashes a second time after a `dictRewrite` |
| `Unlink` (`DeleteFound`, `DeleteCrossing`, `DeleteMiss`) | `dictDelete` after its rehash step |
| `DictResize`, `DictClear`, `DictSize`, `DictRelease` | the functions of that name |

Undefined behaviour ends a behaviour of the model, with its name in `pc`:
`"null_deref"` (a search in an array `dictClear` has freed), `"dangling"` (the
unlinking of `dict.cpp:276` across the two arrays) and `"overrun"` (the scan of
line 101). `DictMap` is the finite map a caller may rely on: each call takes
effect at one instant, when it returns. Because a caller can run into the first
two kinds of undefined behaviour, `DictMap` says exactly when it may, and no
other way out is allowed. The refinement mapping is in `Dict`: `Pairs`, the
entries of both arrays as a set, `Backed`, whether there is an array at all,
and `Phase`, which forgets where inside a call the table is.

### `DictIter`

`Dict` extended with `getDictIterator` and `dictNext`. The iterator runs while no
other call does, as in `rdbSave` and `showall`, but at any stage of a rehash.

### `Server`

The commands, sessions, databases and dump files. A database is the finite map of
`DictMap` and a flag `backed`: it owns a bucket array. This abstraction is
justified by the dictionary's own run (`ImplementsMap`), and the order of
iteration, the only other thing visible, is left open. The crossing delete is the
one behaviour the map does not have; see finding 1 for when it occurs.

A command is one action, since the event loop runs it to its end. `save` and
`load` are modelled iteration by iteration, because a kill can come between two
writes and because `rdbLoad` need not end. A dump file is a sequence of fields:
type bytes, database numbers, keys and values. A field comes with its length; a cut
file is cut between fields. `Killed` takes the process down at any point and leaves of a
running save any prefix of what was given to `fwrite`; with `WriteErrors` the disk
may also be full at the end of a save. `Restart` is `main`: empty databases,
nothing is loaded. Uninitialised memory is read in two places, and the model lets
it hold anything: `type` (`Server.cpp:486`) on an empty file, and `len`
(line 473) wherever the stream ends in front of the first length, so that
the key is allocated and read with any length (`LoadWildLength`). A pair under a
negative number is written in front of the databases: a fault. `showall` writes
past the copy of a key (line 85), and looks into the array that a load has
taken from a database it cleared in the middle of a rehash (`dict.cpp:502`):
nothing happens or the process faults.

`snap` is a history variable: the databases at the moment the last save of each
file began.

### `Session`

One connection: the client's callbacks, the server's, and the streams between
them. It complements `Server`, where a command is one action and answers are not
followed: here a line is a number, and what matters is which line a read is taken
for and which answer the user is shown.

| in the model | in the code |
|---|---|
| `Connect`, `AcceptFails`, `ConnectFails` | `connection_cb`, `CreateClient`; `on_connect` |
| `OnReadData`, `OnReadEof`, `OnReadError` | the three ways through `on_read` |
| `AddReply`, `Send` | `addReplyString` and what libuv then does with the queue |
| `Type`, `Quit` | `receiveData` |
| `Transmit`, `WriteFails` | libuv sending a line, and `after_write` |
| `EchoRead`, `EchoReadEnd` | `echo_read` |
| `ServerKilled`, `ClientKilled` | the death of either process |

A message is cut into `Parts` fragments, and a read returns any prefix of what has
arrived: part of a message, one, or several joined. As in the code, a read is one
command (or one answer) whatever it holds, and what follows its first NUL is
dropped. libuv is modelled from its use: `uv_close` cancels queued writes, a
socket closed with unread data resets the connection, and `uv_write` after
`uv_close`, which `quit` does, is refused or sends. A reply on the stack of
`setCommand` or `selectCommand` may be garbled if it is not sent at once.
`disturbed` remembers that some read was not exactly one message.

### `Characters`, `Query`, `Sds` and their composition `Text`

`Query` is the scan of `readQueryFromClient`, one action per iteration, and the
look-up of `processInputBuffer`. Characters are letters, the blank and the
quote; that is all the scan tells apart. `argv` survives from line to line, and
what an older line left in it is `STALE`.

`Sds` is every function of `sds.cpp` on one string: `cap` bytes behind the
header, the fields `len` and `free`, and the bytes. Bytes of `malloc` are `JUNK`.
`end` records how far a write has reached, beyond the block if it would.
`sdsnewlen` without a text, as `rdbLoad` calls it, clears its bytes but for the last
`Missed`, because its `memset` is told the size of a pointer where it needs that of
the header (`Zeroed`; they differ in a 32-bit build); the read that fills them may fall short (`Fill`). `sdsMakeroom` reads the length through the
pointer it was called with, after the `realloc` (`sds.cpp:75-78`). If the block has
moved, that word is memory already freed: the length as it was, or any of
`Freed`. `WithRoom` is the set of the blocks that may come of it, `moved` marks
those whose room is no longer known. Once a write has left its block
(`Overrun`), only `sdsfree` remains: what else happens depends on what lay behind it.

`Text` feeds the second with what the first finds: once a line is accepted, its
arguments are the C strings of any calls of the library, including `sdsclear`,
which no command uses. `MaxText` and `MinFree` bound the length of a string and how
far below 0 a wrong `free` is followed.

### `ZiplistCodec` and `Ziplist`

`ZiplistCodec` has the conversions as operators on sequences of bytes: the length
of the previous entry (`zipPrevEncodeLength` and back), the encoding with the
length of a string, `stringtoll` with its wrap-around, and the integers of four
widths. All constants of `ziplist.h` are written in terms of `Base`, the number
of values of a byte; `Power[n]` is the number of values of `n` bytes. The loops
(`stringtoll`, the sum `Value` of bytes in their order) are recursive functions
over the positions, so that they can be proved about. Lengths are `unsigned int`
in the code, and below `Power[4]` here.

`Ziplist` is the block and its header through `CreateZiplist`, insertions,
deletions and the resizes of a cascade, and the bytes an insertion writes: its own
entry (`Written`), with the content over the encoding as the code has it, and its
length in the next one (`NextEntry`), with the room that was made for that. What
the code reads of entries that are already there is left open, for the reasons
given in section 6.

### `DList` and `Deque`

`list.cpp` by pointers, with `deletelist` node by node, and the sequence of
handles it implements. Both record the last call with its arguments, so that the
sequence must change as that call says, at the end it names. `MCDList` gives TLC the
symmetry of nodes and values, which the modules only compare. Nothing in the server
uses the list.

## 3. The runs

| run | question | instance | result |
|---|---|---|---|
| `dict` | does the table implement the map through a rehash and stay sound, and does an iteration meet every entry once? | 5 keys, arrays of 2 to 16 buckets, ratio 1, one bucket per step | passes, 189128 states |
| `dict_onestep` | is delete safe when one call empties the old array? | same, 2 values, 5 buckets per step | passes, 588732 states |
| `dict_dangling` | is it safe otherwise? | one bucket per step | violated: finding 1 |
| `server` | does a load restore what was saved, and what do kills, full disks and foreign files do to it? | 1 client, 2 keys, 2 databases, 2 files, byte 26 in one key | passes, 774825 states |
| `server_set_ignored` | does set take effect? | 1 key, 2 values | violated: finding 2 |
| `server_load_faults` | does load survive? | 1 key | violated: finding 3 |
| `server_load_hangs` | does every load return? | 1 key | violated: finding 4 |
| `session` | what does a conversation survive? | 4 lines, messages of 2 pieces | passes, 135315 states |
| `text` | is a line parsed as it should be, and is its text kept? | every line of up to 7 of 4 characters, texts of up to 6 | passes, 2253282 states |
| `sds_room` | does a string that has grown have the room it promises? | lines of up to 3, freed memory that reads 0 | violated: finding 5 |
| `ziplist` | what do the bytes written say, and does the header know its block? | 40 texts, bytes of 32 values, 3 resizes | passes, 486963 states |
| `list_deque` | is the list a sequence? | 4 nodes, 2 values, symmetry | passes, 20345 states |

**Bounds, and why they are enough.**
- *Hash table.* The code starts at 4 buckets, grows when `used / size > 3`
  and moves 100 buckets per call. A rehash then only outlasts a call from 256
  buckets and 1024 keys on. The instances keep the relation and scale the
  numbers: 2 buckets, ratio 1, one bucket per step. With 5 keys the table grows
  when the fifth is added (2 to 8 buckets), so that an array of several occupied
  buckets is moved while other calls are made, and `dictResize` shrinks it to 2 or 4
  buckets and regrows it. `SpreadHash` makes keys collide in
  the small array and part in the large one, or the reverse after a shrink. What
  the scaling cannot show, the proofs do: they hold for every number of keys,
  every hash, ratio and step.
- `TableSizes` bounds the arrays, not the calls: the assumptions say that no
  power is skipped and that there is room for all keys.
- *Server.* Two databases are needed for records to be put into the wrong one, and
  two files because `save a` writes `temp-a.rdb` while `load a` reads `a`. One client
  is enough for these properties: it connects again after a disconnection or a
  kill, and all a client has of its own is the number of its database, which it can
  change between any two commands; what another would do between a save and a load,
  it can do itself. The theorems hold for any number. A database number
  of a foreign file is -1 or `DBCount`, the first that is out of range on
  either side; `select` tries the first index too large.
- *Delete in one step.* `dict_onestep` scales "more steps than buckets" the
  other way: a step that moves as many occupied buckets as there are keys empties
  `ht[0]` in one call, and the call after that ends the rehash before it searches.
- *Session.* Two pieces are enough for a read to end inside a message, to
  begin inside one, and to hold one and a half or two. Four lines let a late
  answer be taken for that of a later line, and the one after that.
- *Text.* Seven characters hold the shortest `set` with a quoted value and room for
  blanks and quotes in the wrong places (`s g "g"`), and every shorter line.
  A preallocation of 3 puts texts of up to 6 on both sides of `SDS_MAX_PREALLOC`, and
  a string of that length has grown more than once. Freed memory reads as 0, less
  than any length, or 9, more than any: `free` promises too much or falls below
  0 (no lower than -6). Three bytes stay unset (`Missed`), as in a 32-bit build, where
  `memset` clears 4 + 1 + `size` bytes from the start of a header of 8; in a 64-bit
  build it reaches the end. `sds_room` needs neither: `Missed` is 0 there.
- *Ziplist.* With 32 values to a byte, 63, 254, 16383 and the limits of the four
  widths become 7, 30, 255 and the limits of 1 to 4 bytes; the texts lie at and on
  either side of each, and every number tried is within reach of TLC. Three
  resizes are a growth out of the first block, a fit into the room it
  claims, and one more growth, or a cascade of two.
- *List.* Four nodes give a first, a last and two inner nodes next to each other.

`CHECK_DEADLOCK FALSE` appears only where the program can stop: after undefined
behaviour or `dictRelease`. The server never deadlocks, and that is checked.

**What the properties say.**
- `KeysReachable`, `NoDuplicateKeys`, `UsedExact`, `RehashFrontier`: the two
  arrays together hold every key at most once, where its hash says, with exact
  counters, the moved part of `ht[0]` empty. They are mutually dependent: the scan
  that has no bound stays inside (`NoOverrun`) because the counters are exact,
  which they are because keys are unique.
- `LoadBounded`: the integer quotient of `dict.cpp:304` keeps at most
  `ResizeRatio + 1` entries per bucket outside a rehash. The growth check is
  skipped while rehashing, so this depends on a rehash ending before `ht[1]` overflows.
- `RehashOnlyForward`, `RehashFinishes`: a rehash never starts over, ends only with
  an empty `ht[0]`, and does end if calls keep stepping it.
- `ImplementsMap`: refinement of `DictMap`. `CallReturns`: no loop runs for ever.
- `IterationComplete`, `IterationFaultsOnlyWhenCleared`, `IterationEnds`: an
  iteration returns each entry once; the only way to fault is a `dictClear` in
  the middle of a rehash (`rehashidx` is not reset), after which `dictNext` goes on
  to a NULL `ht[1]`.
- `LoadFaultsHaveCause`: a load takes the server down only with a negative number in
  the file, a dictionary without an array, or a stream that ends in front of the
  first length; an index that is too large, bytes of an unknown type and a file cut
  elsewhere do not, whoever wrote the file.
- `DumpMatchesSnapshot`: whatever a kill, a full disk or a later save leaves of a
  dump, the pairs that can be read from it are pairs the databases held when
  the save began, under the right database; with the EOF byte, all of them.
- `RestoreExact`: a load of a complete dump that returns leaves exactly the
  databases of the save, whatever came in between.
- `CutDumpNeverSucceeds`: "load data success!" is only said of a dump that
  ends with EOF; the one exception is an empty file, where the compared byte was
  never written.
- `Lockstep`: neither program looks for the end of a message, and yet, as long as
  every read is exactly one message, at most one is under way and the answer
  shown is that of the line typed last.
- `SomethingInFlight`, `PromptReturns`: however messages are split and joined, the
  two programs never wait for each other, and a user who has typed a line is
  prompted again or the client ends. `InOrder`: what is executed as typed is
  executed at most once and in order.
- `NoReplyLost`: the comment at `Server.cpp:305` fears that closing on EOF cancels
  replies a client still waits for; this client never closes one direction only.
- `HandleReleased`: the server closes its handle of a client that is gone, unless
  the connection was reset.
- `ParsesTheGrammar`, `JoinedAgain`, `NoStaleArgument`: the scan accepts exactly
  the lines that have one of three shapes, its arguments joined with
  blanks are the line, and a handler only sees arguments of its own line.
- `RoomAccounted`: a block that stayed where it was when it last grew has the room
  its header promises, and no write leaves a block but one that `realloc` has
  moved (finding 5). `HoldsText`: as long as none has, moved or not, the string
  reads as its text by length and by NUL. `AccountKept`: a header that accounts for
  every byte goes on to, except through `sdsclear` and a `realloc` that moves.
- `RoomKnown`: `bytes` and `remain` add up to the block at first, and to the fifth
  more that is computed and not allocated after the first `realloc`. Of a block that
  has moved it says nothing.
- `EntryReadBack`: of the bytes of an entry as they are in the end, the reading
  functions get back the length of the previous entry, and the text from
  behind the room of the encoding; and from the next entry the length of this one, unless
  the empty text has written over it.
  Nothing is said of the encoding: the content covers it, and `zipGetEntry` looks for
  it in another place, so that no reader gets it back. `NumbersReadBack` therefore
  speaks of the width the insertion chose: read with it, the bytes are the number,
  and its numeral is the text; numbers of more than 64 bits wrap around.
- `WritesStayInEntry`: an insertion writes the bytes it has reserved and no others,
  with two exceptions. The empty text is written one byte behind its entry; and if
  only the bytes in front of the content take an entry past 253, five bytes are
  written into the one-byte field of the next entry.
- `SaveAndLoadEnd`: nobody waits for ever behind a save, or behind a load of a
  complete dump without the byte 26.
- `ListSound`, `AllFreed`, `ImplementsDeque`: both traversals of the list meet
  the same nodes, `deletelist` frees them all, and each call does to the sequence of
  handles what its name and arguments say.

**Fairness.** `Dict`: weak fairness of the steps inside a call. The server has one
thread and a call never waits, so a call that has begun keeps running; nothing is
assumed of the callers, and `RehashFinishes` is conditional on calls that keep
coming. `Server`: weak fairness of the steps of a save and of a load, for the
same reason. No fairness is assumed of clients, of the disk or of `Restart`.
`Session`: weak fairness of `OnRead`, `Send`, `Transmit` and of the client's loop:
both event loops serve what is ready, and TCP delivers what it is given. Nothing is
assumed of the user, and nothing of the kills.

**Seeded bugs.** Above an operator there may be one whose name extends its name:
`MoveEntryKeepsUsed` above `MoveEntry`. It is the operator with a plausible bug;
no formula uses it. Put in the place of the right one, it makes TLC report:

| bug | noticed by |
|---|---|
| `MoveEntryOldMask`: the mask of the wrong array | `KeysReachable` |
| `SearchedOnlyFirst`: one array is searched | `NoDuplicateKeys` |
| `CountOutForgets`, `CountOutTwice`: a counter drifts | `UsedExact`, `TypeOK` |
| `NextIndexSkipsOne`: one bucket too far | `RehashFrontier` |
| `MoveEntryKeepsUsed`: `ht[0].used` not decremented | `NoOverrun` |
| `NeverNeedsExpand` | `LoadBounded` |
| `MayExpandAnytime`: `dictExpand` during a rehash | `RehashOnlyForward` |
| `RehashDoneTooEarly`: `ht[0]` freed with entries in it | `ImplementsMap` |
| `MoveEntryKeepsHead`: the loop does not advance | `CallReturns` |
| `StepOffByOne`: `while (--n)` | `RehashFinishes` |
| `StepOneBucket` | `NoDangling` |
| `EnterSecondAtOne`, `NextInChainStays` | `IterationComplete`, `IterationEnds` |
| `StartIndexAlways`: also when `ht[0]` was NULL | `IterationFaultsOnlyWhenCleared` |
| `HeaderOnlyOnce`: one SELECTDB per file | `DumpMatchesSnapshot` |
| `ClearAllForgets`: load merges | `RestoreExact` |
| `OutOfBoundaryOffByOne` | `TypeOK` of `Server`, `LoadFaultsHaveCause` |
| `ReadTypeStopsAtEnd`: end of file taken for EOF | `CutDumpNeverSucceeds` |
| `SavePairAgain`, `AdvanceForgets` | `SaveAndLoadEnd` |
| `ConsumeForgets`: what is read stays to be read | `Lockstep` |
| `AddReplyOnlyIfWhole`: no reply to a line that is not understood | `SomethingInFlight` |
| `ConsumeKeepsJoined`: the rest of a joined read is read again | `InOrder` |
| `QuitShutsDown`: quit closes one direction only | `NoReplyLost` |
| `StartReadingNever`, `OnReadEofForgets` | `PromptReturns`, `HandleReleased` |
| `QuotedFirstOnly`, `NextStartOnDelimiter`, `KnownCommandAnyArity` | `ParsesTheGrammar`, `JoinedAgain`, `NoStaleArgument` |
| `NewFreeAddsRoom`: room counted twice | `RoomAccounted` |
| `TerminatedNever`, `TakeRoomForNul` | `HoldsText`, `AccountKept` |
| `InPlaceKeepsRoom` | `RoomKnown` |
| `zipPrevEncodeLengthForceLargeBigEndian` | `EntryReadBack` |
| `ReservedForContent`: the encoding is forgotten | `WritesStayInEntry` |
| `AcceptedLeadingZero`: 007 is stored as 7 | `NumbersReadBack` |
| `LastNodeForgotten`, `TailWithoutStays`, `LinkInFrontAtTail` | `ListSound`, `AllFreed`, `ImplementsDeque` |

## 4. Findings

1. **A freed entry stays in the table** (`dict.cpp:276`, run `dict_dangling`).
   `preEn` is not reset when the search of `dictDelete` goes from `ht[0]` to
   `ht[1]`. Needs a rehash that outlasts a call: 1024 keys or more.
2. **set of an existing key does nothing** (`Server.cpp:125`, run
   `server_set_ignored`) and is answered "set done".
3. **load faults when a database that holds a key is loaded into**
   (`Server.cpp:519`, run `server_load_faults`): `dictClear` frees the array that
   `dictAdd` then indexes.
4. **load of a cut dump never returns** (`Server.cpp:491`, run
   `server_load_hangs`), and with it no client is served any more.
5. **A string that has moved may be written behind its block** (`sds.cpp:78`, run
   `sds_room`): `free` is computed with a length that is read from freed memory. In
   the run it reads 0, and a few short appends later the NUL of `sdscat` lands behind
   the block, although line 58 says that the room is there. The loop of `showall`
   (`Server.cpp:80-89`) appends like that.

Seen while modelling and not the subject of a run: a save empties the last good dump
before it writes the new one (`Server.cpp:416`); a save that hits a full disk is
answered "save data success!" (`Server.cpp:406-466`); a load that fails has
already emptied the databases and leaves its file open (`Server.cpp:483, 56`);
`save a` writes `temp-a.rdb`, `load a` reads `a` (`Server.cpp:40, 415`); a reply on
the stack of its handler may be garbled before it is sent (109); `showall` writes
behind its copy of each key (85); a dump is
opened in text mode, so to a load a complete dump ends at its first byte 26
(`Server.cpp:41`; `Readable` in `Server`). The client tests the status of a
connection for -1 only, which no error is, and prompts without one
(`Client.cpp:121`); a reset connection leaves the server's handle open for good
(`Server.cpp:318`); one quote passes for a pair (`Server.cpp:253`). In
`ziplist.cpp`: a resize claims a fifth more room than it allocates, and when
`realloc` moves the block the new size is written into the old one (lines
359-377); an insertion writes its content over the encoding it has just written,
because the pointer was already moved (588-594), so the empty text is written one
byte behind its entry; a string of 63 bytes gets two bytes for its encoding and
uses one (203, 232); `stringtoll` tests for an overflow after it has happened
(170); the end marker of a new list is one byte before the place where an
insertion looks for it (16-20); the size of the length field in the next
entry is computed from the content alone (539), so that the length written there
(559) may have four bytes more than the field; `ziplistIndex` never decrements
its index (679).

## 5. The proofs

Every safety invariant, every action property that speaks of safety, and both
refinements that a passing run checks are theorems. They hold for every value of
the constants that meets the `ASSUME`s of the modules, which are named there and
which TLC evaluates on every instance.

| module | for all | proves |
|---|---|---|
| `DictProofs` | keys, hashes, ratios, steps, chains of array sizes | `TypeCorrect`, `Reachable`, `KeysUnique`, `CountersExact`, `Frontier`, `ScanStaysInside`, `RehashForward`, `LoadStaysBounded`, `DeleteSafe` |
| `DictMapProofs` | the same | `TableIsMap`, `IteratesCompletely`, `IteratorFaults` |
| `ServerProofs` | clients, keys, values, databases, files | `TypeCorrect`, `CutDumpRefused`, `LoadFaultsKnown`, `DumpsMatch`, `LoadRestores` |
| `SessionProofs` | numbers of lines and of pieces of a message | `TypeCorrect`, `NeverStuck`, `ExecutedInOrder`, `InLockstep`, `CloseLosesNoReply` |
| `TextProofs` | alphabets, commands, lengths of lines | `ScanParses`, `ScanLosesNothing`, `HandlersReadTheirLine`, `HandlersCallSds`, and with it for the strings `LinesAreHeld`, `LinesKeepAccount` |
| `SdsProofs` | texts, values of `SDS_MAX_PREALLOC`, of freed memory, numbers of unset bytes | `RoomIsThere`, `TextIsHeld`, `AccountLostOnlyByClearAndMove` |
| `DListProofs` | nodes and values | `TraversalsAgree`, `DeleteFreesAll`, `ListIsDeque` |
| `ZiplistProofs` | bytes, widths, sizes, texts, lengths | `RoomAlwaysKnown`, `InsertionsStayInside`, `EntriesAreReadBack`, `NumbersAreReadBack` |

**The table** (`DictProofs`). The safety invariants are not inductive one by one,
so they are proved together in `IInv`. It adds to them:
- what each `pc` implies (`Control`): in `"move"`, `rehashidx` is inside `ht[0]` and
  `ht[1]` has an array; `cont` is `"idle"` outside `dictRehash`; the shape of `call`
  for each place of the code. Without it the step that moves an entry has no array
  to move it to.
- finiteness of the keys of each array, so that the counters can be compared
  with cardinalities when `Key` is infinite.
- the exception of `dictClear`: both arrays gone, `rehashidx` left as it was. The
  next call that rehashes swaps in an empty table; the invariant says that this
  is the only state with `Rehashing` and `size[0] = 0`.

The central lemmas say how the keys of an array change when a chain gains or
loses an entry, or one entry moves from a chain to a chain of the other array;
`NoOverrun` follows because `used[0] # 0` gives a key of `ht[0]`, whose bucket is
not below `rehashidx`. The proof of each step cites them by action.

Two more invariants stand on `IInv`. `Budget`, for `DeleteSafe`: if every array has
fewer buckets than a step moves, the steps left to a rehash are more than the buckets
it has left, so it is over before the search of `dictDelete` begins. It is the exact
counterpart of finding 1. `Load`, for `LoadStaysBounded`: during a rehash
`used[1] + 2 * used[0]` is at most what `ht[1]` may hold, an entry still to be moved
counting twice, because the call that moves it may insert another.

**The map and the iterator** (`DictMapProofs`). An array is read as the set of its
entries. Every step that changes a chain replaces the entries of one key, and
`IInv` puts that key in no other chain, so the set `Pairs` changes as the map does;
`dictRehash` is shown to leave `Pairs` alone. One fact beyond `IInv` is needed,
`Hits`: when `dictRewrite` goes back to `dictFind` for its entry, the entry is
there. The iterator's invariant, `ItInv`, splits the dictionary in three without
overlap: what was returned, the rest of the chain the iterator is in, and the
buckets ahead, of both arrays.

**The server** (`ServerProofs`). `IInv` says of every file and of the stream of a
save that its fields stand in the order of the format, whatever prefix of them a kill
left; of a load, that it stands before a type byte, and that a load which met a
cut string never leaves its loop, so that the garbage it has read is never saved.
`CursorInv`, for `LoadFaultsKnown`, says that the database a load adds to is one of the
server's unless a negative number was read from the file before.
`PairInv` says which pairs the fields tell: a stream those of the databases the
save has passed and of the part of the current one it has written, a file no pair that
its snapshot does not have, and a load of a complete dump has restored just the
pairs before `pos`. Beside the types, the proofs rest on `ForeignAssumption`: a file of another
origin is well formed (it may be cut, empty, or hold any numbers).

**A conversation** (`SessionProofs`). `TypeOK` and `SomethingInFlight` are inductive
together: a read takes at least one fragment and puts one reply, or one prompt,
in its place. `OrderInv` adds where every line is: the lines executed come before
those that have begun to arrive, those before the ones still queued, and all of
them rise; and, as long as no read was anything but one message, which of the five
stages of `OneAtATime` the conversation is in. Two messages are in the streams
in none of them.

**Lines and strings** (`SdsProofs`, `TextProofs`). In `Sds` the two invariants need
each other: an append writes at `len`, which is where the text ends because of the
second, into room that is there because of the first, as long as the block has
not moved. A block that has moved still holds its text until a write leaves it,
because `len` is never wrong, only `free`; and one that then grows again in place has
its room back. `QInv` says of the scan where
the words found so far begin and end and that `argv` holds them; the grammar
is then a matter of where the blanks are (`NameKeyAndValueByBlanks` and its
neighbours). `HandlersCallSds` shows that the composition implements `Sds`, so what is
proved of the strings holds of those that command lines make.

**The list** (`DListProofs`). `IInv` is the existence of a sequence of distinct
nodes that `next`, `prev`, `head`, `tail` and `len` link up, and whose nodes are the
allocated ones, or those of it that `deletelist` has not reached. The traversals of
`ListSound`, which follow pointers, are shown to walk along that sequence by
induction over their length; for `ListIsDeque` the sequence is shown unique, and
each step of `list.cpp` is matched with the step of `Deque` that records the same
call with the same arguments.

**The ziplist** (`ZiplistProofs`). `IInv` says that a list in use has a block and,
as long as no resize has moved it, what `bytes` and `remain` add up to; `ResizeKeeps` is the step of every action that changes it. `EntryInv` says that the
entry of an insertion is that of some text and some length, before and after its
cascade; the rest are lemmas about the codec: a number written in `k` bytes is read
back modulo `Power[k]` (`ReadsBack`), the two high bits of a first byte are those
that were put there (`ShortCode`, `MiddleCode`, `LongCode`), and the sums of
`stringtoll`, which wrap around, differ from those of the number by a multiple
of `Power[IntWidth[4]]` (`StringtollIsNumber`), so that they are equal where both fit.
`NumeralOfSums` gives the digits back.

**Recursion and induction.** The induction theorems of the library take an operator
as a parameter, which the provers cannot instantiate. Where a proof needs
induction over data (`DListProofs`, `ServerProofs`, `ZiplistProofs`) it is done with
sets: the set of numbers for which a claim holds contains 0 and the successor of
each of its members, so by the well-foundedness of the numbers it contains them
all. That a recursive function exists is proved in the same way
(`RecursionExists`), and that the one the `LET` chooses is that function.

**Only model-checked.** The liveness properties: `CallReturns`, `RehashFinishes`,
`IterationEnds`, `SaveAndLoadEnd`, `PromptReturns` and `HandleReleased`.
They rest on fairness and ENABLED, which the prover does not handle. The findings
are counterexamples of TLC.

## 6. Not modelled, and why

- The hash function itself (any function is allowed), allocation failures (the
  code does not survive them), memory leaks (`dictClear` and `dictDelete` free no
  keys), logging.
- *The traversal of a ziplist*: `ziplistIndex`, `ziplistNext`, `ziplistPrev`,
  `ziplistFind`, `ziplistLen`, and with it the tail offset and the number of
  entries. The code finds an entry by decoding bytes that an insertion has
  overwritten (its content lies on its encoding), or that nobody wrote (the end
  marker of a new list), and decodes some at the wrong place (`zipGetEntry`
  takes the encoding at `p`, not behind the previous length). What it would meet depends on
  the contents of memory. `Ziplist` therefore lets every length that is read be any
  length. The length an insertion writes into the next entry, and the four bytes by
  which it may overrun its field, are in it; the other bytes of the neighbours are
  not. No other file calls the ziplist.
- `skiplist.cpp`: `sklistInsert` never allocates the node it links and
  `comparestring` always answers 0; the first call on an empty list already uses an
  uninitialised pointer. There is no second step to model.
- `db.cpp` is commented out as a whole, `test.cpp` does nothing.

## 7. Plan

1. Done: `Dict`, `DictMap`, `DictIter`, `Server`, `Session`, `Query`, `Sds`, `Text`,
   `ZiplistCodec`, `Ziplist`, `DList`, `Deque`, their runs, and the proofs of
   section 5: every safety invariant, action property and refinement that a
   passing run checks.
2. Left for proof: that `Server` may stand on `DictMap`, as a refinement of the
   commands composed with a table for each database (the step of a command is
   a whole call of the table).
