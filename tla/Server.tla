------------------------------- MODULE Server -------------------------------
(***************************************************************************)
(* The server of src/Server/Server.cpp: the commands of the command table, *)
(* the databases they work on, the dump files of save and load, and what a *)
(* crash or a kill of the process leaves behind.                           *)
(*                                                                         *)
(* The event loop is single threaded, so a command is one action.  save    *)
(* and load are the exceptions: they are modelled loop iteration by loop   *)
(* iteration, because the process can die in the middle of a save and      *)
(* because the loop of rdbLoad need not end.                               *)
(*                                                                         *)
(* A database is what module DictMap says a dictionary is: a finite map,   *)
(* and whether it still owns a bucket array.  A dump file is a sequence of *)
(* fields; a write that is cut off is cut between two fields.              *)
(*                                                                         *)
(* An operator above another whose name it extends (AdvanceForgets above   *)
(* Advance) is that operator with a bug in it; no formula uses it.         *)
(***************************************************************************)
EXTENDS Integers, Sequences, FiniteSets, SequencesExt

CONSTANTS
    Client, Key, Value, NULL,
    DBCount,        \* DB_DEFAULT_NUM
    File,           \* names of files in the dump directory
    TempName,       \* argument of save -> file it writes ("temp-%s.rdb")
    Foreign,        \* dump files nobody saved with this server
    Garbage,        \* the bytes of a string that fread did not fill in
    CtrlZ,          \* keys and values with the byte 26 in them or their length
    WriteErrors     \* TRUE if the disk may be full

ASSUME DBCountAssumption == DBCount \in Nat \ {0}
ASSUME TempNameAssumption == \A a \in DOMAIN TempName : TempName[a] \in File
ASSUME GarbageAssumption == Garbage \notin Key \cup Value
ASSUME CtrlZAssumption == CtrlZ \subseteq Key \cup Value
ASSUME WriteErrorsAssumption == WriteErrors \in BOOLEAN

DB == 0..(DBCount - 1)

VARIABLES
    dbs,        \* server->database[d].db_dict as a map
    backed,     \* that dictionary owns a bucket array
    selected,   \* client->db_id; NULL for a client that is not connected
    reply,      \* the last reply given to uv_write
    disk,       \* the dump directory; NULL for a file that does not exist
    proc,       \* "up", "saving", "loading", "killed" or "faulted"
    file,       \* the file being saved or loaded
    stream,     \* what rdbSave has given to fwrite
    cursor,     \* rdbSave: next database; rdbLoad: the index db points at
    left,       \* rdbSave: keys the iterator has still to return
    pos,        \* rdbLoad: fields read so far
    type,       \* rdbLoad: the variable type
    dbnum,      \* rdbLoad: the variable dbnum
    snap        \* history: the databases when a save of the file began

mem == <<dbs, backed>>
saveRegs == <<stream, left>>
loadRegs == <<pos, type, dbnum>>
vars == <<dbs, backed, selected, reply, disk, proc, file, stream, cursor,
          left, pos, type, dbnum, snap>>

-----------------------------------------------------------------------------
(* Databases and dump files *)

EmptyMap == [k \in {} |-> NULL]
Nothing == [d \in DB |-> EmptyMap]

TypeByte(t) == [f |-> "type", x |-> t]
Field(f, x) == [f |-> f, x |-> x]
TypeBytes == {"SELECTDB", "STRING", "EOF", "OTHER"}

IsType(r, t) == r.f = "type" /\ r.x = t

FieldOK(r) ==
    \/ r.f = "type" /\ r \in [f : {"type"}, x : TypeBytes]
    \/ r.f = "num" /\ r \in [f : {"num"}, x : Int]
    \/ r.f = "key" /\ r \in [f : {"key"}, x : Key]
    \/ r.f = "val" /\ r \in [f : {"val"}, x : Value]

DumpOK(content) ==
    /\ Len(content) \in Nat
    /\ content = [i \in 1..Len(content) |-> content[i]]
    /\ \A i \in 1..Len(content) : FieldOK(content[i])

\* The kind of the field rdbSave writes behind field r, and rdbLoad expects.
Follower(r) ==
    CASE IsType(r, "SELECTDB") -> "num"
      [] IsType(r, "STRING") -> "key"
      [] r.f = "key" -> "val"
      [] OTHER -> "type"

\* A dump, or what is left of one: any fields in the order of the format, up
\* to the first EOF.  The numbers and the type bytes may be of another program.
WellFormed(content) ==
    /\ content # <<>> => content[1].f = "type"
    /\ \A i \in 1..(Len(content) - 1) :
          /\ content[i + 1].f = Follower(content[i])
          /\ ~IsType(content[i], "EOF")

ASSUME ForeignAssumption ==
    \A content \in Foreign : DumpOK(content) /\ WellFormed(content)

Complete(content) ==
    content # NULL /\ content # <<>> /\ IsType(Last(content), "EOF")

Init ==
    /\ dbs = Nothing
    /\ backed = [d \in DB |-> TRUE]
    /\ selected = [c \in Client |-> NULL]
    /\ reply = NULL
    /\ disk \in [File -> {NULL} \cup Foreign]
    /\ proc = "up"
    /\ file = NULL
    /\ stream = <<>>
    /\ cursor = 0
    /\ left = {}
    /\ pos = 0
    /\ type = "OTHER"
    /\ dbnum = 0
    /\ snap = [f \in File |-> NULL]

-----------------------------------------------------------------------------
(* Connections *)

\* connection_cb and CreateClient.
Connect(c) ==
    /\ proc = "up"
    /\ selected[c] = NULL
    /\ selected' = [selected EXCEPT ![c] = 0]
    /\ UNCHANGED <<mem, reply, disk, proc, file, cursor, saveRegs, loadRegs, snap>>

\* on_read with UV_EOF.
Disconnect(c) ==
    /\ proc = "up"
    /\ selected[c] # NULL
    /\ selected' = [selected EXCEPT ![c] = NULL]
    /\ UNCHANGED <<mem, reply, disk, proc, file, cursor, saveRegs, loadRegs, snap>>

-----------------------------------------------------------------------------
(* Commands *)

Command(c) == proc = "up" /\ selected[c] # NULL

Answer(text) ==
    /\ reply' = text
    /\ UNCHANGED <<disk, proc, file, cursor, saveRegs, loadRegs, snap>>

\* Undefined behaviour: the process is gone, and its connections with it.
Fault ==
    /\ proc' = "faulted"
    /\ selected' = [c \in Client |-> NULL]
    /\ reply' = NULL

\* Any index is accepted by the parser, only 0..DBCount-1 by the command.
SelectCommand(c, d) ==
    /\ Command(c)
    /\ IF d \in DB
       THEN /\ selected' = [selected EXCEPT ![c] = d]
            /\ Answer("switch to database")
       ELSE /\ UNCHANGED selected
            /\ Answer("database index error")
    /\ UNCHANGED mem

\* A key keeps the value it has.
DictAdd(m, k, v) ==
    IF k \in DOMAIN m THEN m
    ELSE [x \in DOMAIN m \cup {k} |-> IF x = k THEN v ELSE m[x]]

\* The client is told "set done" whether the key was there or not.
SetCommand(c, k, v) ==
    /\ Command(c)
    /\ LET d == selected[c]
       IN  IF backed[d]
           THEN /\ dbs' = [dbs EXCEPT ![d] = DictAdd(@, k, v)]
                /\ Answer("set done")
                /\ UNCHANGED selected
           ELSE /\ Fault
                /\ UNCHANGED <<dbs, disk, file, cursor, saveRegs, loadRegs, snap>>
    /\ UNCHANGED backed

DelCommand(c, k) ==
    /\ Command(c)
    /\ LET d == selected[c]
       IN  /\ dbs' = [dbs EXCEPT ![d] = [x \in DOMAIN @ \ {k} |-> @[x]]]
           /\ Answer(IF k \in DOMAIN dbs[d] THEN "delete ok" ELSE "no suck key")
    /\ UNCHANGED <<backed, selected>>

GetCommand(c, k) ==
    /\ Command(c)
    /\ LET m == dbs[selected[c]]
       IN  Answer(IF k \in DOMAIN m THEN m[k] ELSE "NULL")
    /\ UNCHANGED <<mem, selected>>

\* sprintf writes the number and a newline behind the copy of each key, past
\* the end of its allocation: nothing happens, or the heap is corrupted.  A
\* dictionary that a load has cleared in the middle of a rehash is empty and
\* has no array for dictNext to look into (dict.cpp:502).
ShowAllCommand(c) ==
    /\ Command(c)
    /\ \/ /\ Answer("all keys")
          /\ UNCHANGED selected
       \/ /\ dbs[selected[c]] # EmptyMap \/ ~backed[selected[c]]
          /\ Fault
          /\ UNCHANGED <<disk, file, cursor, saveRegs, loadRegs, snap>>
    /\ UNCHANGED mem

\* A line that is no command, or a command with another number of arguments.
IllegalCommand(c) ==
    /\ Command(c)
    /\ Answer("command no exist")
    /\ UNCHANGED <<mem, selected>>

-----------------------------------------------------------------------------
(* save *)

\* fopen(..., "w+") empties the file before anything is written to it.
SaveStart(c, a) ==
    /\ Command(c)
    /\ file' = TempName[a]
    /\ disk' = [disk EXCEPT ![TempName[a]] = <<>>]
    /\ snap' = [snap EXCEPT ![TempName[a]] = dbs]
    /\ proc' = "saving"
    /\ stream' = <<>>
    /\ cursor' = 0
    /\ left' = {}
    /\ UNCHANGED <<mem, selected, reply, loadRegs>>

SaveOpenFails(c) ==
    /\ Command(c)
    /\ Answer("sava data fail,pleasse retry!")
    /\ UNCHANGED <<mem, selected>>

HeaderOnlyOnce(d) ==
    IF d = 0 THEN <<TypeByte("SELECTDB"), Field("num", d)>> ELSE <<>>

Header(d) == <<TypeByte("SELECTDB"), Field("num", d)>>

\* The next database that is not empty.
SaveSelect ==
    /\ proc = "saving"
    /\ left = {}
    /\ \E d \in DB :
          /\ d >= cursor
          /\ dbs[d] # EmptyMap
          /\ \A e \in DB : cursor <= e /\ e < d => dbs[e] = EmptyMap
          /\ left' = DOMAIN dbs[d]
          /\ cursor' = d + 1
          /\ stream' = stream \o Header(d)
    /\ UNCHANGED <<mem, selected, reply, disk, proc, file, loadRegs, snap>>

SavePairAgain == proc = "saving" /\ left # {} /\ UNCHANGED vars

\* The iterator returns the entries in the order of their buckets: any order.
SavePair ==
    /\ proc = "saving"
    /\ \E k \in left :
          /\ stream' = stream \o <<TypeByte("STRING"), Field("key", k),
                                   Field("val", dbs[cursor - 1][k])>>
          /\ left' = left \ {k}
    /\ UNCHANGED <<mem, selected, reply, disk, proc, file, cursor, loadRegs, snap>>

\* Neither fwrite nor fclose is checked: the reply is the same on a full disk.
SaveEof ==
    /\ proc = "saving"
    /\ left = {}
    /\ \A d \in DB : d >= cursor => dbs[d] = EmptyMap
    /\ LET whole == Append(stream, TypeByte("EOF"))
       IN  \E m \in (IF WriteErrors THEN 0 ELSE Len(whole))..Len(whole) :
               disk' = [disk EXCEPT ![file] = SubSeq(whole, 1, m)]
    /\ proc' = "up"
    /\ reply' = "save data success!"
    /\ stream' = <<>>
    /\ file' = NULL
    /\ cursor' = 0
    /\ UNCHANGED <<mem, selected, left, loadRegs, snap>>

-----------------------------------------------------------------------------
(* load *)

LoadOpenFails(c, f) ==
    /\ Command(c)
    /\ disk[f] = NULL
    /\ Answer("file open fail")
    /\ UNCHANGED <<mem, selected>>

ClearAllForgets == UNCHANGED mem

ClearAll ==
    /\ dbs' = Nothing
    /\ backed' = [d \in DB |-> backed[d] /\ dbs[d] = EmptyMap]

\* dictClear on every database that is not empty takes its bucket array away.
\* db is left at the last database.  type is not initialised: it holds any
\* byte until the first fread that succeeds.
LoadStart(c, f) ==
    /\ Command(c)
    /\ disk[f] # NULL
    /\ proc' = "loading"
    /\ file' = f
    /\ ClearAll
    /\ cursor' = DBCount - 1
    /\ pos' = 0
    /\ dbnum' = 0
    /\ type' \in IF disk[f] = <<>> THEN TypeBytes ELSE {"OTHER"}
    /\ UNCHANGED <<selected, reply, disk, saveRegs, snap>>

\* The fields fopen(..., "r") lets through: a text stream of the C library
\* ends at the byte 26, Ctrl-Z.
Readable(content) ==
    LET stops == {i \in 1..Len(content) : content[i].x \in CtrlZ}
    IN  IF stops = {} THEN Len(content) ELSE Min(stops) - 1

\* fread leaves its argument alone at the end of the stream.
HasField(i) == pos + i <= Readable(disk[file])
ReadField(i, otherwise) ==
    IF HasField(i) THEN disk[file][pos + i].x ELSE otherwise
ReadTypeStopsAtEnd == ReadField(1, "EOF")
ReadType == ReadField(1, type)

AdvanceForgets(i) == UNCHANGED pos

Advance(i) == pos' = IF HasField(i) THEN pos + i ELSE Readable(disk[file])

LoadReturns(text) ==
    /\ proc' = "up"
    /\ reply' = text
    /\ file' = NULL
    /\ pos' = 0
    /\ type' = "OTHER"
    /\ dbnum' = 0
    /\ cursor' = 0

LoadEof ==
    /\ proc = "loading"
    /\ ReadType = "EOF"
    /\ LoadReturns("load data success!")
    /\ UNCHANGED <<mem, selected, disk, saveRegs, snap>>

OutOfBoundaryOffByOne(d) == d > DBCount

OutOfBoundary(d) == d >= DBCount

LoadSelect ==
    /\ proc = "loading"
    /\ ReadType = "SELECTDB"
    /\ LET d == ReadField(2, dbnum)
       IN  IF OutOfBoundary(d)
           THEN LoadReturns("load data fail,please retry!")
           ELSE /\ dbnum' = d
                /\ cursor' = d
                /\ type' = "SELECTDB"
                /\ Advance(2)
                /\ UNCHANGED <<proc, reply, file>>
    /\ UNCHANGED <<mem, selected, disk, saveRegs, snap>>

\* One key and one value, added with dictAdd.  A negative number in the file
\* has left db before the array of the databases.
LoadPair ==
    /\ proc = "loading"
    /\ ReadType = "STRING"
    /\ type' = "STRING"
    /\ Advance(3)
    /\ LET k == ReadField(2, Garbage)
           v == ReadField(3, Garbage)
       IN  IF cursor \in DB /\ backed[cursor]
           THEN /\ dbs' = [dbs EXCEPT ![cursor] = DictAdd(@, k, v)]
                /\ UNCHANGED <<proc, reply, selected>>
           ELSE Fault /\ UNCHANGED dbs
    /\ UNCHANGED <<backed, disk, file, cursor, saveRegs, dbnum, snap>>

\* len is not initialised either: where the stream ends in front of the first
\* length, the key is allocated and read with any length at all.
NoLengthRead == ~HasField(2) /\ \A i \in 1..pos : disk[file][i].f # "key"

LoadWildLength ==
    /\ proc = "loading"
    /\ ReadType = "STRING"
    /\ NoLengthRead
    /\ Fault
    /\ UNCHANGED <<mem, disk, file, cursor, saveRegs, loadRegs, snap>>

\* Any other type byte: once more around the loop.
LoadOther ==
    /\ proc = "loading"
    /\ ReadType = "OTHER"
    /\ type' = "OTHER"
    /\ Advance(1)
    /\ UNCHANGED <<mem, selected, reply, disk, proc, file, cursor, saveRegs, dbnum, snap>>

-----------------------------------------------------------------------------
(* The process dies, at any time, and is started again *)

\* Of a save in progress, the file holds what the C library happened to flush.
Killed ==
    /\ proc \in {"up", "saving", "loading"}
    /\ proc' = "killed"
    /\ selected' = [c \in Client |-> NULL]
    /\ reply' = NULL
    /\ IF proc = "saving"
       THEN \E m \in 0..Len(stream) :
                disk' = [disk EXCEPT ![file] = SubSeq(stream, 1, m)]
       ELSE UNCHANGED disk
    /\ UNCHANGED <<mem, file, cursor, saveRegs, loadRegs, snap>>

\* main and initServer: sixteen empty databases; no dump is loaded.
Restart ==
    /\ proc \in {"killed", "faulted"}
    /\ proc' = "up"
    /\ dbs' = Nothing
    /\ backed' = [d \in DB |-> TRUE]
    /\ file' = NULL
    /\ stream' = <<>>
    /\ cursor' = 0
    /\ left' = {}
    /\ pos' = 0
    /\ type' = "OTHER"
    /\ dbnum' = 0
    /\ UNCHANGED <<selected, reply, disk, snap>>

-----------------------------------------------------------------------------

SaveStep == SaveSelect \/ SavePair \/ SaveEof
LoadStep == LoadEof \/ LoadSelect \/ LoadPair \/ LoadWildLength \/ LoadOther

ClientStep(c) ==
    \/ Connect(c)
    \/ Disconnect(c)
    \/ \E d \in 0..DBCount : SelectCommand(c, d)
    \/ \E k \in Key, v \in Value : SetCommand(c, k, v)
    \/ \E k \in Key : DelCommand(c, k) \/ GetCommand(c, k)
    \/ ShowAllCommand(c)
    \/ IllegalCommand(c)
    \/ \E a \in DOMAIN TempName : SaveStart(c, a)
    \/ SaveOpenFails(c)
    \/ \E f \in File : LoadOpenFails(c, f) \/ LoadStart(c, f)

Next ==
    \/ \E c \in Client : ClientStep(c)
    \/ SaveStep
    \/ LoadStep
    \/ Killed
    \/ Restart

Spec == Init /\ [][Next]_vars

\* save and load run to their end inside one callback of the event loop.
FairSpec == Spec /\ WF_vars(SaveStep) /\ WF_vars(LoadStep)

-----------------------------------------------------------------------------
(* Properties *)

PartialMap == UNION {[ks -> Value \cup {Garbage}] : ks \in SUBSET (Key \cup {Garbage})}
TypeOK ==
    /\ dbs \in [DB -> PartialMap]
    /\ backed \in [DB -> BOOLEAN]
    /\ selected \in [Client -> DB \cup {NULL}]
    /\ \A f \in File : disk[f] # NULL => DumpOK(disk[f])
    /\ proc \in {"up", "saving", "loading", "killed", "faulted"}
    /\ file \in File \cup {NULL}
    /\ DumpOK(stream)
    /\ cursor \in Int /\ cursor <= DBCount
    /\ left \subseteq Key \cup {Garbage}
    /\ pos \in Nat
    /\ type \in TypeBytes
    /\ dbnum \in Int /\ dbnum < DBCount
    /\ \A f \in File : snap[f] = NULL \/ snap[f] \in [DB -> PartialMap]

\* Pairs of a key and a value, each with the database it is in.
Pairs == DB \X (Key \cup {Garbage}) \X (Value \cup {Garbage})

\* The pairs a reader of a dump finds, each with the database named by the
\* last SELECTDB before it.
PairsIn(content) ==
    {p \in Pairs :
        \E h, i \in 1..Len(content) :
            /\ h < i /\ i < Len(content)
            /\ content[h].f = "num" /\ content[h].x = p[1]
            /\ \A j \in (h + 1)..i : content[j].f # "num"
            /\ content[i].f = "key" /\ content[i].x = p[2]
            /\ content[i + 1].x = p[3]}

PairsOf(databases) ==
    {p \in Pairs : p[2] \in DOMAIN databases[p[1]] /\ databases[p[1]][p[2]] = p[3]}

\* Whatever a kill leaves of a dump, the pairs in it are pairs the databases
\* held when the save began, under the right database; a dump that ends with
\* the EOF byte has them all (Server.cpp:411-467).
DumpMatchesSnapshot ==
    \A f \in File : snap[f] # NULL =>
        /\ PairsIn(disk[f]) \subseteq PairsOf(snap[f])
        /\ Complete(disk[f]) => PairsIn(disk[f]) = PairsOf(snap[f])

\* A load that returns from a complete dump has restored exactly the
\* databases of the moment of the save, whatever happened in between: later
\* writes, kills, restarts, other saves (Server.cpp:469-523).
RestoreExact ==
    [][(/\ proc = "loading" /\ proc' = "up"
        /\ Complete(disk[file]) /\ snap[file] # NULL)
       => dbs' = snap[file] /\ reply' = "load data success!"]_vars

\* A dump that was cut off is never reported as loaded, except for an empty
\* file, where the byte compared with EOF was never written.
CutDumpNeverSucceeds ==
    [][(proc = "loading" /\ proc' = "up" /\ reply' = "load data success!")
       => disk[file] = <<>> \/ IsType(Last(disk[file]), "EOF")]_vars

\* A load takes the server down only where the code reads what it has not
\* checked: a negative database number in the file, a dictionary without an
\* array, a string in front of whose length the stream ends.  Nothing else
\* in a file does it, whoever wrote it: a number behind the last database,
\* bytes of an unknown type, a file cut off elsewhere (Server.cpp:490-519).
LoadFaultsHaveCause ==
    [][(proc = "loading" /\ proc' = "faulted")
       => \/ \E i \in 1..Len(disk[file]) :
                disk[file][i].f = "num" /\ disk[file][i].x < 0
          \/ cursor \in DB /\ ~backed[cursor]
          \/ NoLengthRead]_vars

\* A save returns, and so does a load of a complete dump, unless it takes the
\* process down: no client waits for ever behind it.  A dump with the byte 26
\* in it is the exception (Server.cpp:41): to the load it ends there.
SaveAndLoadEnd ==
    (\/ proc = "saving"
     \/ /\ proc = "loading"
        /\ Complete(disk[file])
        /\ Readable(disk[file]) = Len(disk[file])) ~> (proc \notin {"saving", "loading"})

\* README.md:8 and the reply "set done": after a set the key has the value.
SetTakesEffect ==
    [][\A c \in Client, k \in Key, v \in Value :
         (SetCommand(c, k, v) /\ reply' = "set done")
            => dbs'[selected[c]][k] = v]_vars

\* Server.cpp:471: load empties the databases and reads the dump; it does not
\* take the server down when the dump is complete.
LoadNeverFaults ==
    [][proc = "loading" /\ Complete(disk[file]) => proc' # "faulted"]_vars

\* Server.cpp:56: a load that cannot be completed is answered.
LoadEnds ==
    (proc = "loading" /\ disk[file] # <<>>) ~> (proc # "loading")
=============================================================================
