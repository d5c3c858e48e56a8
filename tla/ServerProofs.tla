---------------------------- MODULE ServerProofs ----------------------------
(***************************************************************************)
(* Type correctness of the server, and what its dump files are worth: for  *)
(* any clients, keys, values, number of databases and files, with files of *)
(* other programs in the dump directory, a disk that may be full, keys     *)
(* with the byte 26 in them, and a process that may be killed anywhere.    *)
(*                                                                         *)
(* IInv says of every file and of the stream of a save that its fields     *)
(* stand in the order of the format, and of a load that it is in front of  *)
(* a type byte.  CursorInv adds where the index of the database can point  *)
(* to, and PairInv which pairs the fields tell: a save has written         *)
(* the pairs of the databases it has passed, and a load of a complete dump *)
(* has restored the pairs it has read.                                     *)
(***************************************************************************)
EXTENDS Server, SequenceTheorems, NaturalsInduction, WellFoundedInduction, TLAPS

-----------------------------------------------------------------------------
(* Fields and dumps *)

Fields ==
    [f : {"type"}, x : TypeBytes] \cup [f : {"num"}, x : Int]
        \cup [f : {"key"}, x : Key] \cup [f : {"val"}, x : Value]

\* The kinds of a field, and what each may hold.
LEMMA FieldFacts ==
    ASSUME NEW r
    PROVE  /\ FieldOK(r) <=> r \in Fields
           /\ r \in Fields => /\ r.f = "type" => r.x \in TypeBytes
                              /\ r.f = "num" => r.x \in Int
                              /\ r.f = "key" => r.x \in Key
                              /\ r.f = "val" => r.x \in Value
                              /\ r.f \in {"type", "num", "key", "val"}
BY DEF FieldOK, Fields

\* A dump is a sequence of fields.
LEMMA DumpFacts ==
    ASSUME NEW content
    PROVE  DumpOK(content) <=> content \in Seq(Fields)
<1>1. ASSUME DumpOK(content) PROVE content \in Seq(Fields)
  <2>1. content \in [1..Len(content) -> Fields] /\ Len(content) \in Nat
    BY <1>1, FieldFacts DEF DumpOK
  <2>. QED  BY <2>1, SeqDef, Zenon
<1>2. ASSUME content \in Seq(Fields) PROVE DumpOK(content)
  <2>1. content \in [1..Len(content) -> Fields] /\ Len(content) \in Nat
    BY <1>2, LenProperties
  <2>2. content = [i \in 1..Len(content) |-> content[i]]
    BY <2>1
  <2>. QED  BY <2>1, <2>2, FieldFacts DEF DumpOK
<1>. QED  BY <1>1, <1>2

\* Which kind of field stands behind which.
LEMMA FollowerFacts ==
    ASSUME NEW r \in Fields
    PROVE  /\ r.f = "type" /\ r.x = "SELECTDB" => Follower(r) = "num"
           /\ r.f = "type" /\ r.x = "STRING" => Follower(r) = "key"
           /\ r.f = "type" /\ r.x \notin {"SELECTDB", "STRING"} => Follower(r) = "type"
           /\ r.f = "num" => Follower(r) = "type"
           /\ r.f = "key" => Follower(r) = "val"
           /\ r.f = "val" => Follower(r) = "type"
<1>1. "type" # "num" /\ "type" # "key" /\ "type" # "val" /\ "num" # "key" /\ "val" # "key"
  OBVIOUS
<1>2. "SELECTDB" # "STRING"
  OBVIOUS
<1>. QED  BY <1>1, <1>2, Zenon DEF Follower, IsType

\* What rdbSave writes are fields.
LEMMA FieldsWritten ==
    /\ \A t \in TypeBytes : TypeByte(t) \in Fields /\ TypeByte(t).f = "type" /\ TypeByte(t).x = t
    /\ \A n \in Int : Field("num", n) \in Fields
    /\ \A k \in Key : Field("key", k) \in Fields
    /\ \A v \in Value : Field("val", v) \in Fields
    /\ \A f, x : Field(f, x).f = f /\ Field(f, x).x = x
BY DEF Fields, TypeByte, Field

\* The order of the naturals is well founded.
LEMMA NaturalsWellFounded ==
    \E R : IsWellFoundedOn(R, Nat) /\ \A x, y \in Nat : y < x => <<y, x>> \in R
<1>1. IsWellFoundedOn(OpToRel(<, Nat), Nat)
  BY NatLessThanWellFounded
<1>2. \A x, y \in Nat : y < x => <<y, x>> \in OpToRel(<, Nat)
  BY DEF OpToRel
<1>. QED  BY <1>1, <1>2, Zenon

\* A set of positions that is not empty has a first.
LEMMA SmallestOf ==
    ASSUME NEW n \in Nat, NEW S \in SUBSET (1..n), S # {}
    PROVE  Min(S) \in S
<1>1. PICK R : IsWellFoundedOn(R, Nat) /\ \A x, y \in Nat : y < x => <<y, x>> \in R
  BY NaturalsWellFounded
<1>2. PICK m \in S : \A k \in S : <<k, m>> \notin R
  <2>1. S \subseteq Nat
    OBVIOUS
  <2>. QED  BY <1>1, <2>1, WFMin, Zenon
<1>3. \A k \in S : m <= k
  <2>1. \A k \in S : m \in Nat /\ k \in Nat
    OBVIOUS
  <2>2. \A k \in S : ~(k < m)
    BY <1>1, <1>2, <2>1, Zenon
  <2>. QED  BY <2>1, <2>2
<1>. QED  BY <1>3 DEF Min

\* What a text stream lets through is a part of the file.
LEMMA ReadableBounds ==
    ASSUME NEW content \in Seq(Fields)
    PROVE  Readable(content) \in 0..Len(content)
<1> DEFINE stops == {i \in 1..Len(content) : content[i].x \in CtrlZ}
<1>1. Len(content) \in Nat
  BY LenProperties
<1>2. stops # {} => Min(stops) \in 1..Len(content)
  BY <1>1, SmallestOf
<1>3. Readable(content) = IF stops = {} THEN Len(content) ELSE Min(stops) - 1
  BY DEF Readable
<1> HIDE DEF stops
<1>. QED  BY <1>1, <1>2, <1>3
-----------------------------------------------------------------------------
(* Writing dumps *)

Dump(content) == content \in Seq(Fields) /\ WellFormed(content)

\* A dump the next type byte can be written to.
Open(content) ==
    /\ content # <<>> => Follower(content[Len(content)]) = "type"
    /\ \A i \in 1..Len(content) : ~IsType(content[i], "EOF")

\* An empty file is a dump, and may be written on.
LEMMA NoFields == Dump(<<>>) /\ Open(<<>>)
<1>1. <<>> \in Seq(Fields) /\ Len(<<>>) = 0
  BY EmptySeq
<1>. QED  BY <1>1 DEF Dump, WellFormed, Open

\* A dump that is cut off is still well formed.
LEMMA CutShort ==
    ASSUME NEW content, Dump(content), NEW m \in 0..Len(content)
    PROVE  /\ Dump(SubSeq(content, 1, m))
           /\ Len(SubSeq(content, 1, m)) = m
           /\ \A i \in 1..m : SubSeq(content, 1, m)[i] = content[i]
<1> DEFINE s == SubSeq(content, 1, m)
<1>0. content \in Seq(Fields) /\ Len(content) \in Nat /\ m \in Nat /\ m <= Len(content)
  BY LenProperties DEF Dump
<1>1. \A i \in 1..m : content[i] \in Fields
  BY <1>0, ElementOfSeq
<1>2. s \in Seq(Fields) /\ Len(s) = m /\ \A i \in 1..m : s[i] = content[i]
  BY <1>0, <1>1, SubSeqProperties
<1>3. m > 0 => content # <<>>
  BY <1>0, EmptySeq
<1>4. s # <<>> => m > 0
  BY <1>2, <1>0, EmptySeq
<1> HIDE DEF s
<1>5. WellFormed(s)
  <2>1. s # <<>> => s[1].f = "type"
    BY <1>0, <1>2, <1>3, <1>4 DEF Dump, WellFormed
  <2>2. ASSUME NEW i \in 1..(Len(s) - 1)
        PROVE  s[i + 1].f = Follower(s[i]) /\ ~IsType(s[i], "EOF")
    <3>1. i \in 1..(Len(content) - 1) /\ s[i] = content[i] /\ s[i + 1] = content[i + 1]
      BY <1>0, <1>2
    <3>. QED  BY <3>1 DEF Dump, WellFormed
  <2>. QED  BY <2>1, <2>2 DEF WellFormed
<1>. QED  BY <1>2, <1>5 DEF s, Dump

\* Dump c is dump a with the fields of b behind it.
Joins(a, b, c) ==
    /\ Dump(c)
    /\ Len(c) = Len(a) + Len(b)
    /\ \A i \in 1..Len(a) : c[i] = a[i]
    /\ \A i \in 1..Len(b) : c[Len(a) + i] = b[i]
    /\ Open(b) => Open(c)

\* Two dumps one behind the other, the first without its EOF.
LEMMA Extended ==
    ASSUME NEW content, Dump(content), Open(content),
           NEW more, Dump(more), more # <<>>
    PROVE  Joins(content, more, content \o more)
<1> DEFINE s == content \o more
<1> DEFINE n == Len(content)
<1>1. content \in Seq(Fields) /\ more \in Seq(Fields)
  BY DEF Dump
<1>2. n \in Nat /\ Len(more) \in Nat /\ Len(more) > 0
  BY <1>1, EmptySeq, LenProperties
<1>3. s \in Seq(Fields) /\ Len(s) = n + Len(more)
  BY <1>1, ConcatProperties
<1>4. \A i \in 1..n + Len(more) : s[i] = IF i <= n THEN content[i] ELSE more[i - n]
  BY <1>1, ConcatProperties
<1> HIDE DEF s
<1>5. \A i \in 1..n : s[i] = content[i]
  BY <1>2, <1>4
<1>6. \A i \in 1..Len(more) : s[n + i] = more[i]
  BY <1>2, <1>4
<1>7. WellFormed(s)
  <2>1. s[1].f = "type"
    <3>1. CASE n = 0
      BY <3>1, <1>2, <1>6 DEF Dump, WellFormed
    <3>2. CASE n > 0
      <4>1. content # <<>>
        BY <3>2, EmptySeq
      <4>. QED  BY <3>2, <4>1, <1>2, <1>5 DEF Dump, WellFormed
    <3>. QED  BY <1>2, <3>1, <3>2
  <2>2. ASSUME NEW i \in 1..(Len(s) - 1)
        PROVE  s[i + 1].f = Follower(s[i]) /\ ~IsType(s[i], "EOF")
    <3>1. CASE i < n
      <4>1. i \in 1..(n - 1) /\ s[i] = content[i] /\ s[i + 1] = content[i + 1]
        BY <3>1, <1>2, <1>5
      <4>. QED  BY <4>1 DEF Dump, WellFormed
    <3>2. CASE i = n
      <4>1. s[i] = content[n] /\ s[i + 1] = more[1] /\ content # <<>> /\ n \in 1..n
        BY <3>2, <1>2, <1>5, <1>6, EmptySeq
      <4>2. more[1].f = "type"
        BY DEF Dump, WellFormed
      <4>. QED  BY <4>1, <4>2 DEF Open
    <3>3. CASE i > n
      <4>1. /\ i - n \in 1..(Len(more) - 1)
            /\ s[i] = more[i - n] /\ s[i + 1] = more[(i - n) + 1]
        <5>1. i - n \in 1..Len(more) /\ (i - n) + 1 \in 1..Len(more)
          BY <3>3, <1>2, <1>3
        <5>2. n + (i - n) = i /\ n + ((i - n) + 1) = i + 1
          BY <1>2
        <5>3. s[n + (i - n)] = more[i - n] /\ s[n + ((i - n) + 1)] = more[(i - n) + 1]
          BY <5>1, <1>6, Zenon
        <5>4. i - n \in 1..(Len(more) - 1)
          BY <3>3, <1>2, <1>3
        <5>. QED  BY <5>2, <5>3, <5>4, Zenon
      <4>. QED  BY <4>1 DEF Dump, WellFormed
    <3>. QED  BY <1>2, <3>1, <3>2, <3>3
  <2>. QED  BY <2>1, <2>2 DEF WellFormed
<1>8. ASSUME Open(more) PROVE Open(s)
  <2>1. s[Len(s)] = more[Len(more)]
    BY <1>2, <1>3, <1>6
  <2>2. Follower(s[Len(s)]) = "type"
    BY <1>8, <2>1 DEF Open
  <2>3. ASSUME NEW i \in 1..Len(s) PROVE ~IsType(s[i], "EOF")
    <3>1. CASE i <= n
      <4>1. i \in 1..n
        BY <3>1, <1>2
      <4>. QED  BY <4>1, <1>5 DEF Open
    <3>2. CASE i > n
      <4>1. i - n \in 1..Len(more) /\ n + (i - n) = i
        BY <3>2, <1>2, <1>3
      <4>2. s[i] = more[i - n]
        BY <4>1, <1>6
      <4>. QED  BY <4>1, <4>2, <1>8 DEF Open
    <3>. QED  BY <1>2, <3>1, <3>2
  <2>. QED  BY <2>2, <2>3 DEF Open
<1>. QED  BY <1>3, <1>5, <1>6, <1>7, <1>8 DEF s, Dump, Joins

\* The two fields in front of a database.
LEMMA HeaderDump ==
    ASSUME NEW d \in DB
    PROVE  /\ Dump(Header(d)) /\ Open(Header(d)) /\ Header(d) # <<>>
           /\ Len(Header(d)) = 2
           /\ Header(d)[1] = TypeByte("SELECTDB") /\ Header(d)[2] = Field("num", d)
<1> DEFINE a == TypeByte("SELECTDB")
<1> DEFINE b == Field("num", d)
<1>1. d \in Int
  BY DBCountAssumption DEF DB
<1>2. a \in Fields /\ b \in Fields /\ a.f = "type" /\ a.x = "SELECTDB" /\ b.f = "num"
  BY <1>1, FieldsWritten DEF TypeBytes
<1>3. Follower(a) = "num" /\ Follower(b) = "type"
  BY <1>2, FollowerFacts
<1> HIDE DEF a, b
<1>4. <<a, b>> \in Seq(Fields) /\ Len(<<a, b>>) = 2 /\ <<a, b>>[1] = a /\ <<a, b>>[2] = b
  BY <1>2
<1>5. <<a, b>> # <<>>
  BY <1>4, EmptySeq
<1>6. WellFormed(<<a, b>>)
  BY <1>2, <1>3, <1>4 DEF WellFormed, IsType
<1>7. Open(<<a, b>>)
  BY <1>2, <1>3, <1>4 DEF Open, IsType
<1>. QED  BY <1>4, <1>5, <1>6, <1>7 DEF a, b, Dump, Header

PairFields(k, v) == <<TypeByte("STRING"), Field("key", k), Field("val", v)>>

\* The three fields of a pair.
LEMMA PairDump ==
    ASSUME NEW k \in Key, NEW v \in Value
    PROVE  /\ Dump(PairFields(k, v)) /\ Open(PairFields(k, v)) /\ PairFields(k, v) # <<>>
           /\ Len(PairFields(k, v)) = 3
           /\ PairFields(k, v)[1] = TypeByte("STRING")
           /\ PairFields(k, v)[2] = Field("key", k)
           /\ PairFields(k, v)[3] = Field("val", v)
<1> DEFINE a == TypeByte("STRING")
<1> DEFINE b == Field("key", k)
<1> DEFINE c == Field("val", v)
<1>2. /\ a \in Fields /\ b \in Fields /\ c \in Fields
      /\ a.f = "type" /\ a.x = "STRING" /\ b.f = "key" /\ c.f = "val"
  BY FieldsWritten DEF TypeBytes
<1>3. Follower(a) = "key" /\ Follower(b) = "val" /\ Follower(c) = "type"
  BY <1>2, FollowerFacts
<1> HIDE DEF a, b, c
<1>4. /\ <<a, b, c>> \in Seq(Fields) /\ Len(<<a, b, c>>) = 3
      /\ <<a, b, c>>[1] = a /\ <<a, b, c>>[2] = b /\ <<a, b, c>>[3] = c
  BY <1>2
<1>5. <<a, b, c>> # <<>>
  BY <1>4, EmptySeq
<1>6. WellFormed(<<a, b, c>>)
  BY <1>2, <1>3, <1>4 DEF WellFormed, IsType
<1>7. Open(<<a, b, c>>)
  BY <1>2, <1>3, <1>4 DEF Open, IsType
<1>. QED  BY <1>4, <1>5, <1>6, <1>7 DEF a, b, c, Dump, PairFields

\* The byte at the end.
LEMMA EofDump ==
    /\ Dump(<<TypeByte("EOF")>>) /\ <<TypeByte("EOF")>> # <<>>
    /\ Len(<<TypeByte("EOF")>>) = 1 /\ <<TypeByte("EOF")>>[1] = TypeByte("EOF")
<1> DEFINE a == TypeByte("EOF")
<1>2. a \in Fields /\ a.f = "type" /\ a.x = "EOF"
  BY FieldsWritten DEF TypeBytes
<1> HIDE DEF a
<1>4. <<a>> \in Seq(Fields) /\ Len(<<a>>) = 1 /\ <<a>>[1] = a
  BY <1>2
<1>5. <<a>> # <<>>
  BY <1>4, EmptySeq
<1>6. WellFormed(<<a>>)
  BY <1>2, <1>4 DEF WellFormed
<1>. QED  BY <1>4, <1>5, <1>6 DEF a, Dump

\* What a save appends, field by field.
LEMMA HeaderAppended ==
    ASSUME NEW content, Dump(content), Open(content), NEW d \in DB
    PROVE  /\ Dump(content \o Header(d)) /\ Open(content \o Header(d))
           /\ Len(content \o Header(d)) = Len(content) + 2
           /\ \A i \in 1..Len(content) : (content \o Header(d))[i] = content[i]
           /\ (content \o Header(d))[Len(content) + 1] = TypeByte("SELECTDB")
           /\ (content \o Header(d))[Len(content) + 2] = Field("num", d)
<1> DEFINE m == Header(d)
<1>1. /\ Dump(m) /\ Open(m) /\ m # <<>> /\ Len(m) = 2
      /\ m[1] = TypeByte("SELECTDB") /\ m[2] = Field("num", d)
  BY HeaderDump
<1> HIDE DEF m
<1>2. Joins(content, m, content \o m)
  BY <1>1, Extended
<1>3. 1 \in 1..2 /\ 2 \in 1..2
  OBVIOUS
<1>. QED  BY <1>1, <1>2, <1>3 DEF m, Joins

\* The same for a pair.
LEMMA PairAppended ==
    ASSUME NEW content, Dump(content), Open(content), NEW k \in Key, NEW v \in Value
    PROVE  /\ Dump(content \o PairFields(k, v)) /\ Open(content \o PairFields(k, v))
           /\ Len(content \o PairFields(k, v)) = Len(content) + 3
           /\ \A i \in 1..Len(content) : (content \o PairFields(k, v))[i] = content[i]
           /\ (content \o PairFields(k, v))[Len(content) + 1] = TypeByte("STRING")
           /\ (content \o PairFields(k, v))[Len(content) + 2] = Field("key", k)
           /\ (content \o PairFields(k, v))[Len(content) + 3] = Field("val", v)
<1> DEFINE m == PairFields(k, v)
<1>1. /\ Dump(m) /\ Open(m) /\ m # <<>> /\ Len(m) = 3
      /\ m[1] = TypeByte("STRING") /\ m[2] = Field("key", k) /\ m[3] = Field("val", v)
  BY PairDump
<1> HIDE DEF m
<1>2. Joins(content, m, content \o m)
  BY <1>1, Extended
<1>3. 1 \in 1..3 /\ 2 \in 1..3 /\ 3 \in 1..3
  OBVIOUS
<1>. QED  BY <1>1, <1>2, <1>3 DEF m, Joins
-----------------------------------------------------------------------------
(* Databases *)

MapsOver(ks, vs) == UNION {[s -> vs] : s \in SUBSET ks}

\* What dictAdd and dictDelete make of a map over ks and vs.
LEMMA MapFacts ==
    ASSUME NEW ks, NEW vs, NEW m \in MapsOver(ks, vs)
    PROVE  /\ m \in [DOMAIN m -> vs] /\ DOMAIN m \subseteq ks
           /\ \A k, v : k \in ks /\ v \in vs =>
                 /\ DictAdd(m, k, v) \in MapsOver(ks, vs)
                 /\ DOMAIN (DictAdd(m, k, v)) = DOMAIN m \cup {k}
                 /\ \A x \in DOMAIN m : (DictAdd(m, k, v))[x] = m[x]
                 /\ k \notin DOMAIN m => (DictAdd(m, k, v))[k] = v
           /\ \A k : [x \in DOMAIN m \ {k} |-> m[x]] \in MapsOver(ks, vs)
<1>1. PICK s \in SUBSET ks : m \in [s -> vs]
  BY DEF MapsOver
<1>2. m \in [DOMAIN m -> vs] /\ DOMAIN m \subseteq ks
  BY <1>1
<1>3. ASSUME NEW k \in ks, NEW v \in vs
      PROVE  /\ DictAdd(m, k, v) \in MapsOver(ks, vs)
             /\ DOMAIN (DictAdd(m, k, v)) = DOMAIN m \cup {k}
             /\ \A x \in DOMAIN m : (DictAdd(m, k, v))[x] = m[x]
             /\ k \notin DOMAIN m => (DictAdd(m, k, v))[k] = v
  <2> DEFINE n == DictAdd(m, k, v)
  <2>1. CASE k \in DOMAIN m
    BY <2>1 DEF DictAdd
  <2>2. CASE k \notin DOMAIN m
    <3>1. n = [x \in DOMAIN m \cup {k} |-> IF x = k THEN v ELSE m[x]]
      BY <2>2 DEF DictAdd
    <3> HIDE DEF n
    <3>2. n \in [DOMAIN m \cup {k} -> vs] /\ DOMAIN m \cup {k} \in SUBSET ks
      BY <1>2, <3>1
    <3>3. n \in MapsOver(ks, vs)
      BY <3>2 DEF MapsOver
    <3>. QED  BY <2>2, <3>1, <3>3 DEF n
  <2>. QED  BY <2>1, <2>2
<1>4. ASSUME NEW k PROVE [x \in DOMAIN m \ {k} |-> m[x]] \in MapsOver(ks, vs)
  <2>1. /\ [x \in DOMAIN m \ {k} |-> m[x]] \in [DOMAIN m \ {k} -> vs]
        /\ DOMAIN m \ {k} \in SUBSET ks
    BY <1>2
  <2>. QED  BY <2>1 DEF MapsOver
<1>. QED  BY <1>2, <1>3, <1>4

\* The databases of a server that has loaded nothing but whole pairs.
Clean == dbs \in [DB -> MapsOver(Key, Value)]

\* The maps of the server are maps over its keys and values.
LEMMA MapKinds ==
    /\ PartialMap = MapsOver(Key \cup {Garbage}, Value \cup {Garbage})
    /\ MapsOver(Key, Value) \subseteq PartialMap
    /\ EmptyMap \in MapsOver(Key, Value)
    /\ Nothing \in [DB -> MapsOver(Key, Value)]
<1>1. PartialMap = MapsOver(Key \cup {Garbage}, Value \cup {Garbage})
  BY DEF PartialMap, MapsOver
<1>2. ASSUME NEW m \in MapsOver(Key, Value) PROVE m \in PartialMap
  <2>1. PICK s \in SUBSET Key : m \in [s -> Value]
    BY DEF MapsOver
  <2>2. s \in SUBSET (Key \cup {Garbage}) /\ m \in [s -> Value \cup {Garbage}]
    BY <2>1
  <2>. QED  BY <2>2 DEF PartialMap
<1>3. EmptyMap \in MapsOver(Key, Value)
  <2>1. EmptyMap \in [{} -> Value] /\ {} \in SUBSET Key
    BY DEF EmptyMap
  <2>. QED  BY <2>1 DEF MapsOver
<1>4. Nothing \in [DB -> MapsOver(Key, Value)]
  BY <1>3 DEF Nothing
<1>. QED  BY <1>1, <1>2, <1>3, <1>4

-----------------------------------------------------------------------------
(* The inductive invariant *)

MapsOK == dbs \in [DB -> PartialMap] /\ backed \in [DB -> BOOLEAN]

ClientsOK == selected \in [Client -> DB \cup {NULL}]

FilesOK ==
    /\ disk = [f \in File |-> disk[f]]
    /\ \A f \in File : disk[f] # NULL => Dump(disk[f])
    /\ snap = [f \in File |-> snap[f]]
    /\ \A f \in File : snap[f] = NULL \/ snap[f] \in [DB -> PartialMap]

RegistersOK ==
    /\ file \in File \cup {NULL}
    /\ Dump(stream)
    /\ cursor \in Int /\ cursor <= DBCount
    /\ left \subseteq Key \cup {Garbage}
    /\ pos \in Nat
    /\ type \in TypeBytes
    /\ dbnum \in Int /\ dbnum < DBCount

Saving ==
    /\ file \in File
    /\ cursor >= 0
    /\ left # {} => cursor > 0 /\ left \subseteq DOMAIN dbs[cursor - 1]
    /\ Open(stream)

\* Once a string was cut short, the load never leaves its loop: that is why
\* the bytes fread did not fill in are never saved.
Loading ==
    /\ file \in File
    /\ disk[file] # NULL
    /\ pos <= Readable(disk[file])
    /\ pos < Readable(disk[file]) => disk[file][pos + 1].f = "type"
    /\ type = "EOF" => disk[file] = <<>>
    /\ Clean \/ (pos = Readable(disk[file]) /\ type = "STRING")

IInv ==
    /\ MapsOK
    /\ ClientsOK
    /\ FilesOK
    /\ RegistersOK
    /\ proc \in {"up", "saving", "loading", "killed", "faulted"}
    /\ proc \in {"up", "saving"} => Clean
    /\ proc = "saving" => Saving
    /\ proc = "loading" => Loading

\* The inductive invariant says at least what TypeOK says.
LEMMA IInvTypeOK == IInv => TypeOK
<1>1. \A c : Dump(c) => DumpOK(c)
  BY DumpFacts DEF Dump
<1>. QED
  BY <1>1 DEF IInv, TypeOK, MapsOK, ClientsOK, FilesOK, RegistersOK

\* It holds of a server that was just started.
LEMMA InitIInv == Init => IInv
<1> SUFFICES ASSUME Init PROVE IInv
  OBVIOUS
<1>1. MapsOK /\ Clean
  BY MapKinds DEF Init, MapsOK, Clean
<1>2. ClientsOK
  BY DEF Init, ClientsOK
<1>3. FilesOK
  <2>1. \A c \in Foreign : Dump(c)
    BY ForeignAssumption, DumpFacts DEF Dump
  <2>2. disk \in [File -> {NULL} \cup Foreign] /\ snap = [f \in File |-> NULL]
    BY DEF Init
  <2>. QED  BY <2>1, <2>2 DEF FilesOK
<1>4. RegistersOK
  BY NoFields, DBCountAssumption DEF Init, RegistersOK, TypeBytes
<1>. QED  BY <1>1, <1>2, <1>3, <1>4 DEF Init, IInv

\* A step that touches neither files nor registers, of a server that is up.
Quiet == UNCHANGED <<disk, file, cursor, saveRegs, loadRegs, snap>>

\* It needs a look at the databases and the clients only, then.
LEMMA QuietStep ==
    ASSUME IInv, Quiet, MapsOK', ClientsOK',
           \/ proc' = "up" /\ Clean'
           \/ proc' \in {"killed", "faulted"}
    PROVE  IInv'
<1>1. FilesOK' /\ RegistersOK'
  BY DEF IInv, Quiet, FilesOK, RegistersOK, saveRegs, loadRegs
<1>. QED  BY <1>1 DEF IInv

\* A command that ends in undefined behaviour.
LEMMA FaultStep ==
    ASSUME IInv, Fault, Quiet, MapsOK' PROVE IInv'
<1>1. ClientsOK' /\ proc' = "faulted"
  BY DEF Fault, ClientsOK
<1>. QED  BY <1>1, QuietStep
-----------------------------------------------------------------------------
(* Every step keeps it: commands and connections *)

\* A command that leaves the databases clean and answers.
LEMMA AnsweredStep ==
    ASSUME IInv, NEW c \in Client, Command(c), MapsOK', Clean', ClientsOK',
           NEW text, Answer(text)
    PROVE  IInv'
BY QuietStep DEF Answer, Quiet, Command

\* connection_cb, and on_read at the end of a connection.
LEMMA ConnectionStep ==
    ASSUME IInv, NEW c \in Client, Connect(c) \/ Disconnect(c)
    PROVE  IInv'
<1>1. proc' = "up" /\ UNCHANGED mem /\ Quiet /\ Clean
  BY DEF Connect, Disconnect, Quiet, IInv
<1>2. MapsOK' /\ Clean'
  BY <1>1 DEF IInv, MapsOK, Clean, mem
<1>3. ClientsOK'
  <2>1. 0 \in DB
    BY DBCountAssumption DEF DB
  <2>. QED  BY <2>1 DEF Connect, Disconnect, IInv, ClientsOK
<1>. QED  BY <1>1, <1>2, <1>3, QuietStep

\* What a command may rely on.
LEMMA UpState ==
    ASSUME IInv, NEW c \in Client, Command(c)
    PROVE  Clean /\ MapsOK /\ ClientsOK /\ selected[c] \in DB /\ proc = "up"
BY DEF IInv, Command, ClientsOK

\* selectCommand.
LEMMA SelectStep ==
    ASSUME IInv, NEW c \in Client, NEW d, SelectCommand(c, d)
    PROVE  IInv'
<1>1. Command(c) /\ UNCHANGED mem /\ \E text : Answer(text)
  BY DEF SelectCommand
<1>2. MapsOK' /\ Clean'
  BY <1>1, UpState DEF MapsOK, Clean, mem
<1>3. ClientsOK'
  BY <1>1, UpState DEF SelectCommand, ClientsOK
<1>. QED  BY <1>1, <1>2, <1>3, AnsweredStep

\* setCommand.
LEMMA SetStep ==
    ASSUME IInv, NEW c \in Client, NEW k \in Key, NEW v \in Value, SetCommand(c, k, v)
    PROVE  IInv'
<1> DEFINE d == selected[c]
<1>1. Command(c) /\ UNCHANGED backed /\ d \in DB
  BY UpState DEF SetCommand
<1>2. CASE backed[d]
  <2>1. dbs' = [dbs EXCEPT ![d] = DictAdd(@, k, v)] /\ UNCHANGED selected /\ \E text : Answer(text)
    BY <1>2 DEF SetCommand
  <2>2. Clean'
    <3>1. DictAdd(dbs[d], k, v) \in MapsOver(Key, Value)
      BY <1>1, UpState, MapFacts DEF Clean
    <3> HIDE DEF d
    <3>. QED  BY <2>1, <3>1, <1>1, UpState DEF Clean
  <2>3. MapsOK' /\ ClientsOK'
    <3>1. dbs' \in [DB -> PartialMap]
      BY <2>2, MapKinds DEF Clean
    <3>. QED  BY <2>1, <3>1, <1>1, UpState DEF MapsOK, ClientsOK
  <2>. QED  BY <1>1, <2>1, <2>2, <2>3, AnsweredStep
<1>3. CASE ~backed[d]
  <2>1. Fault /\ Quiet /\ UNCHANGED dbs
    BY <1>3 DEF SetCommand, Quiet
  <2>2. MapsOK'
    BY <2>1, <1>1, UpState DEF MapsOK
  <2>. QED  BY <2>1, <2>2, FaultStep
<1>. QED  BY <1>2, <1>3

\* delCommand.
LEMMA DelStep ==
    ASSUME IInv, NEW c \in Client, NEW k \in Key, DelCommand(c, k)
    PROVE  IInv'
<1> DEFINE d == selected[c]
<1>1. Command(c) /\ UNCHANGED <<backed, selected>> /\ d \in DB /\ \E text : Answer(text)
  BY UpState DEF DelCommand
<1>2. dbs' = [dbs EXCEPT ![d] = [x \in DOMAIN @ \ {k} |-> @[x]]]
  BY DEF DelCommand
<1>3. Clean'
  <2>1. [x \in DOMAIN dbs[d] \ {k} |-> dbs[d][x]] \in MapsOver(Key, Value)
    BY <1>1, UpState, MapFacts DEF Clean
  <2> HIDE DEF d
  <2>. QED  BY <1>2, <2>1, <1>1, UpState DEF Clean
<1>4. MapsOK' /\ ClientsOK'
  <2>1. dbs' \in [DB -> PartialMap]
    BY <1>3, MapKinds DEF Clean
  <2>. QED  BY <1>1, <2>1, UpState DEF MapsOK, ClientsOK
<1>. QED  BY <1>1, <1>3, <1>4, AnsweredStep

\* The commands that change no database.
LEMMA ReadOnlyStep ==
    ASSUME IInv, NEW c \in Client,
           \/ \E k \in Key : GetCommand(c, k)
           \/ ShowAllCommand(c)
           \/ IllegalCommand(c)
           \/ SaveOpenFails(c)
           \/ \E f \in File : LoadOpenFails(c, f)
    PROVE  IInv'
<1>1. Command(c) /\ UNCHANGED mem
  BY DEF GetCommand, ShowAllCommand, IllegalCommand, SaveOpenFails, LoadOpenFails
<1>2. MapsOK' /\ Clean'
  BY <1>1, UpState DEF MapsOK, Clean, mem
<1>3. CASE UNCHANGED selected /\ \E text : Answer(text)
  <2>1. ClientsOK'
    BY <1>3, <1>1, UpState DEF ClientsOK
  <2>. QED  BY <1>1, <1>2, <1>3, <2>1, AnsweredStep
<1>4. CASE Fault /\ UNCHANGED <<disk, file, cursor, saveRegs, loadRegs, snap>>
  BY <1>2, <1>4, FaultStep DEF Quiet
<1>. QED
  BY <1>3, <1>4
  DEF GetCommand, ShowAllCommand, IllegalCommand, SaveOpenFails, LoadOpenFails

-----------------------------------------------------------------------------
(* Every step keeps it: save *)

\* rdbSave up to fopen.
LEMMA SaveStartStep ==
    ASSUME IInv, NEW c \in Client, NEW a \in DOMAIN TempName, SaveStart(c, a)
    PROVE  IInv'
<1> DEFINE f == TempName[a]
<1>1. /\ f \in File /\ Clean /\ MapsOK /\ ClientsOK
      /\ UNCHANGED <<dbs, backed, selected, pos, type, dbnum>>
  BY TempNameAssumption, UpState DEF SaveStart, mem, loadRegs
<1>2. /\ file' = f /\ disk' = [disk EXCEPT ![f] = <<>>] /\ snap' = [snap EXCEPT ![f] = dbs]
      /\ proc' = "saving" /\ stream' = <<>> /\ cursor' = 0 /\ left' = {}
  BY DEF SaveStart
<1> HIDE DEF f
<1>3. MapsOK' /\ Clean' /\ ClientsOK'
  BY <1>1 DEF MapsOK, Clean, ClientsOK
<1>4. FilesOK'
  BY <1>1, <1>2, NoFields DEF IInv, FilesOK, MapsOK
<1>5. RegistersOK'
  BY <1>1, <1>2, NoFields, DBCountAssumption DEF IInv, RegistersOK
<1>6. Saving'
  BY <1>1, <1>2, NoFields DEF Saving, Open
<1>. QED  BY <1>2, <1>3, <1>4, <1>5, <1>6 DEF IInv

\* rdbSave, the next database.
LEMMA SaveSelectStep ==
    ASSUME IInv, SaveSelect
    PROVE  IInv'
<1>1. /\ Saving /\ Clean /\ MapsOK /\ ClientsOK /\ proc' = "saving"
      /\ UNCHANGED <<dbs, backed, selected, disk, file, pos, type, dbnum, snap>>
  BY DEF SaveSelect, IInv, mem, loadRegs
<1>2. PICK d \in DB : /\ left' = DOMAIN dbs[d] /\ cursor' = d + 1
                      /\ stream' = stream \o Header(d)
  BY DEF SaveSelect
<1>3. d \in Int /\ d >= 0 /\ d + 1 <= DBCount /\ (d + 1) - 1 = d
  BY DBCountAssumption DEF DB
<1>4. DOMAIN dbs[d] \subseteq Key
  BY <1>1, MapFacts DEF Clean
<1>5. Dump(stream') /\ Open(stream')
  BY <1>1, <1>2, HeaderAppended DEF IInv, RegistersOK, Saving
<1>6. MapsOK' /\ Clean' /\ ClientsOK' /\ FilesOK'
  BY <1>1 DEF MapsOK, Clean, ClientsOK, IInv, FilesOK
<1>7. RegistersOK'
  BY <1>1, <1>2, <1>3, <1>4, <1>5 DEF IInv, RegistersOK
<1>8. Saving'
  BY <1>1, <1>2, <1>3, <1>5 DEF Saving
<1>. QED  BY <1>1, <1>6, <1>7, <1>8 DEF IInv

\* rdbSave, the next pair.
LEMMA SavePairStep ==
    ASSUME IInv, SavePair
    PROVE  IInv'
<1>1. /\ Saving /\ Clean /\ MapsOK /\ ClientsOK /\ proc' = "saving"
      /\ UNCHANGED <<dbs, backed, selected, disk, file, cursor, pos, type, dbnum, snap>>
  BY DEF SavePair, IInv, mem, loadRegs
<1>2. PICK k \in left : /\ stream' = stream \o PairFields(k, dbs[cursor - 1][k])
                        /\ left' = left \ {k}
  BY DEF SavePair, PairFields
<1>3. cursor - 1 \in DB /\ k \in DOMAIN dbs[cursor - 1]
  BY <1>1, DBCountAssumption DEF IInv, RegistersOK, Saving, DB
<1>4. k \in Key /\ dbs[cursor - 1][k] \in Value
  BY <1>1, <1>3, MapFacts DEF Clean
<1>5. Dump(stream') /\ Open(stream')
  BY <1>1, <1>2, <1>4, PairAppended DEF IInv, RegistersOK, Saving
<1>6. MapsOK' /\ Clean' /\ ClientsOK' /\ FilesOK'
  BY <1>1 DEF MapsOK, Clean, ClientsOK, IInv, FilesOK
<1>7. RegistersOK'
  BY <1>1, <1>2, <1>5 DEF IInv, RegistersOK
<1>8. Saving'
  BY <1>1, <1>2, <1>5 DEF Saving
<1>. QED  BY <1>1, <1>6, <1>7, <1>8 DEF IInv

Whole == Append(stream, TypeByte("EOF"))

\* What rdbSave has written when it closes the file.
LEMMA WholeDump ==
    ASSUME IInv, proc = "saving"
    PROVE  /\ Dump(Whole) /\ Len(Whole) = Len(stream) + 1 /\ Len(stream) \in Nat
           /\ \A i \in 1..Len(stream) : Whole[i] = stream[i]
           /\ Whole[Len(stream) + 1] = TypeByte("EOF")
<1>1. stream \in Seq(Fields) /\ Dump(stream) /\ Open(stream) /\ Len(stream) \in Nat
  BY LenProperties DEF IInv, RegistersOK, Saving, Dump
<1>2. Whole = stream \o <<TypeByte("EOF")>>
  <2>1. TypeByte("EOF") \in Fields
    BY FieldsWritten DEF TypeBytes
  <2>. QED  BY <1>1, <2>1, AppendIsConcat DEF Whole
<1> DEFINE e == <<TypeByte("EOF")>>
<1>3. Dump(e) /\ e # <<>> /\ Len(e) = 1 /\ e[1] = TypeByte("EOF")
  BY EofDump
<1> HIDE DEF e
<1>4. Joins(stream, e, stream \o e)
  BY <1>1, <1>3, Extended
<1>5. 1 \in 1..1
  OBVIOUS
<1>. QED  BY <1>1, <1>2, <1>3, <1>4, <1>5 DEF e, Joins

\* rdbSave, the end.
LEMMA SaveEofStep ==
    ASSUME IInv, SaveEof
    PROVE  IInv'
<1>1. /\ Saving /\ Clean /\ MapsOK /\ ClientsOK /\ proc' = "up"
      /\ UNCHANGED <<dbs, backed, selected, left, pos, type, dbnum, snap>>
      /\ stream' = <<>> /\ file' = NULL /\ cursor' = 0 /\ proc = "saving"
  BY DEF SaveEof, IInv, mem, loadRegs
<1>2. PICK m \in 0..Len(Whole) : disk' = [disk EXCEPT ![file] = SubSeq(Whole, 1, m)]
  <2>1. Len(Whole) \in Nat
    BY <1>1, WholeDump
  <2>2. (IF WriteErrors THEN 0 ELSE Len(Whole))..Len(Whole) \subseteq 0..Len(Whole)
    BY <2>1
  <2>. QED  BY <2>2 DEF SaveEof, Whole
<1>3. Dump(SubSeq(Whole, 1, m))
  BY <1>1, WholeDump, CutShort
<1>4. MapsOK' /\ Clean' /\ ClientsOK'
  BY <1>1 DEF MapsOK, Clean, ClientsOK
<1>5. FilesOK'
  BY <1>1, <1>2, <1>3 DEF IInv, FilesOK
<1>6. RegistersOK'
  BY <1>1, NoFields, DBCountAssumption DEF IInv, RegistersOK
<1>. QED  BY <1>1, <1>4, <1>5, <1>6 DEF IInv
-----------------------------------------------------------------------------
(* Every step keeps it: load *)

\* rdbLoad up to its loop.
LEMMA LoadStartStep ==
    ASSUME IInv, NEW c \in Client, NEW f \in File, LoadStart(c, f)
    PROVE  IInv'
<1>1. /\ disk[f] # NULL /\ proc' = "loading" /\ file' = f /\ dbs' = Nothing
      /\ backed' = [d \in DB |-> backed[d] /\ dbs[d] = EmptyMap]
      /\ cursor' = DBCount - 1 /\ pos' = 0 /\ dbnum' = 0
      /\ type' \in IF disk[f] = <<>> THEN TypeBytes ELSE {"OTHER"}
      /\ UNCHANGED <<selected, disk, stream, left, snap>>
  BY DEF LoadStart, ClearAll, saveRegs
<1>2. MapsOK' /\ Clean'
  BY <1>1, MapKinds DEF MapsOK, Clean
<1>3. ClientsOK' /\ FilesOK'
  BY <1>1 DEF IInv, ClientsOK, FilesOK
<1>4. type' \in TypeBytes /\ (type' = "EOF" => disk[f] = <<>>)
  BY <1>1 DEF TypeBytes
<1>5. RegistersOK'
  BY <1>1, <1>4, DBCountAssumption DEF IInv, RegistersOK
<1>6. Loading'
  <2>1. Dump(disk[f])
    BY <1>1 DEF IInv, FilesOK
  <2>2. Readable(disk[f]) \in 0..Len(disk[f]) /\ Len(disk[f]) \in Nat
    BY <2>1, ReadableBounds, LenProperties DEF Dump
  <2>3. 0 < Readable(disk[f]) => disk[f][0 + 1].f = "type"
    <3>1. 0 < Readable(disk[f]) => disk[f] # <<>>
      BY <2>2, EmptySeq
    <3>. QED  BY <2>1, <3>1 DEF Dump, WellFormed
  <2>4. disk'[file'] = disk[f] /\ file' = f /\ pos' = 0
    BY <1>1
  <2>5. Readable(disk'[file']) = Readable(disk[f])
    BY <2>4
  <2>. QED  BY <1>1, <1>2, <1>4, <2>2, <2>3, <2>4, <2>5 DEF Loading
<1>. QED  BY <1>1, <1>2, <1>3, <1>5, <1>6 DEF IInv

\* What a load finds at the place it has come to.
LEMMA LoadPlace ==
    ASSUME IInv, proc = "loading"
    PROVE  /\ Loading /\ file \in File /\ Dump(disk[file])
           /\ pos \in Nat /\ Len(disk[file]) \in Nat
           /\ Readable(disk[file]) \in 0..Len(disk[file])
           /\ \A i \in Nat : HasField(i) <=> pos + i <= Readable(disk[file])
           /\ \A i \in Nat \ {0} : HasField(i) => pos + i \in 1..Len(disk[file])
           /\ HasField(1) => disk[file][pos + 1].f = "type" /\ ReadType = disk[file][pos + 1].x
           /\ ~HasField(1) => ReadType = type /\ pos = Readable(disk[file])
           /\ ReadType # "STRING" => Clean
<1>1. Loading /\ file \in File /\ Dump(disk[file]) /\ pos \in Nat
  BY DEF IInv, Loading, FilesOK, RegistersOK
<1>2. Readable(disk[file]) \in 0..Len(disk[file]) /\ Len(disk[file]) \in Nat
  BY <1>1, ReadableBounds, LenProperties DEF Dump
<1>3. \A i \in Nat : HasField(i) <=> pos + i <= Readable(disk[file])
  BY DEF HasField
<1>4. \A i \in Nat \ {0} : HasField(i) => pos + i \in 1..Len(disk[file])
  BY <1>1, <1>2, <1>3
<1>5. HasField(1) => disk[file][pos + 1].f = "type" /\ ReadType = disk[file][pos + 1].x
  <2>1. HasField(1) => pos < Readable(disk[file])
    BY <1>1, <1>2, <1>3
  <2>. QED  BY <1>1, <2>1 DEF Loading, ReadType, ReadField
<1>6. ~HasField(1) => ReadType = type /\ pos = Readable(disk[file])
  <2>1. ~HasField(1) => pos >= Readable(disk[file])
    BY <1>1, <1>2, <1>3
  <2>2. pos <= Readable(disk[file])
    BY <1>1 DEF Loading
  <2>. QED  BY <1>1, <1>2, <2>1, <2>2 DEF ReadType, ReadField
<1>7. ReadType # "STRING" => Clean
  <2>1. HasField(1) => pos # Readable(disk[file])
    BY <1>1, <1>2, <1>3
  <2>. QED  BY <1>1, <1>6, <2>1 DEF Loading
<1>. QED  BY <1>1, <1>2, <1>3, <1>4, <1>5, <1>6, <1>7

\* A field that is there stands in the file.
LEMMA FieldPlace ==
    ASSUME IInv, proc = "loading", NEW i \in Nat \ {0}, HasField(i)
    PROVE  pos + i \in 1..Len(disk[file])
BY LoadPlace

\* Reading on from field i of the place leads to the next type byte.
LEMMA Advanced ==
    ASSUME IInv, proc = "loading", NEW i \in Nat \ {0}, Advance(i),
           HasField(i) => Follower(disk[file][pos + i]) = "type"
    PROVE  /\ pos' \in Nat /\ pos' <= Readable(disk[file])
           /\ pos' < Readable(disk[file]) => disk[file][pos' + 1].f = "type"
           /\ HasField(i) => pos' = pos + i
           /\ ~HasField(i) => pos' = Readable(disk[file])
<1> DEFINE c == disk[file]
<1> DEFINE r == Readable(c)
<1>1. Dump(c) /\ pos \in Nat /\ Len(c) \in Nat /\ r \in 0..Len(c)
  BY LoadPlace
<1>2. HasField(i) <=> pos + i <= r
  BY LoadPlace
<1>3. pos' = IF HasField(i) THEN pos + i ELSE r
  BY DEF Advance
<1>4. ASSUME HasField(i), pos + i < r PROVE c[(pos + i) + 1].f = "type"
  <2>1. pos + i \in 1..(Len(c) - 1)
    BY <1>1, <1>4
  <2>2. c[(pos + i) + 1].f = Follower(c[pos + i])
    BY <1>1, <2>1 DEF Dump, WellFormed
  <2>. QED  BY <1>4, <2>2
<1> HIDE DEF r
<1>5. CASE HasField(i)
  BY <1>1, <1>2, <1>3, <1>4, <1>5 DEF r
<1>6. CASE ~HasField(i)
  BY <1>1, <1>3, <1>6 DEF r
<1>. QED  BY <1>5, <1>6

\* One more time around the loop.
LEMMA RoundStep ==
    ASSUME IInv, proc = "loading", proc' = "loading",
           UNCHANGED <<selected, disk, file, stream, left, snap>>,
           MapsOK', cursor' \in Int, cursor' <= DBCount,
           dbnum' \in Int, dbnum' < DBCount,
           type' \in TypeBytes \ {"EOF"},
           pos' \in Nat, pos' <= Readable(disk[file]),
           pos' < Readable(disk[file]) => disk[file][pos' + 1].f = "type",
           Clean' \/ (pos' = Readable(disk[file]) /\ type' = "STRING")
    PROVE  IInv'
<1>1. ClientsOK' /\ FilesOK'
  BY DEF IInv, ClientsOK, FilesOK
<1>2. RegistersOK'
  BY DEF IInv, RegistersOK
<1>3. Loading'
  <2>1. disk'[file'] = disk[file] /\ file' = file
    OBVIOUS
  <2>2. Readable(disk'[file']) = Readable(disk[file])
    BY <2>1
  <2>3. file \in File /\ disk[file] # NULL
    BY DEF IInv, Loading
  <2>. QED  BY <2>1, <2>2, <2>3 DEF Loading
<1>. QED  BY <1>1, <1>2, <1>3 DEF IInv

\* rdbLoad returns.
LEMMA LoadReturnsStep ==
    ASSUME IInv, proc = "loading", Clean, UNCHANGED <<mem, selected, disk, saveRegs, snap>>,
           NEW text, LoadReturns(text)
    PROVE  IInv'
<1>1. MapsOK' /\ Clean' /\ ClientsOK' /\ FilesOK'
  BY DEF IInv, MapsOK, Clean, ClientsOK, FilesOK, mem
<1>2. RegistersOK'
  BY DBCountAssumption DEF IInv, RegistersOK, LoadReturns, saveRegs, TypeBytes
<1>. QED  BY <1>1, <1>2 DEF IInv, LoadReturns

\* rdbLoad, the EOF byte.
LEMMA LoadEofStep ==
    ASSUME IInv, LoadEof
    PROVE  IInv'
<1>1. proc = "loading" /\ Clean
  BY LoadPlace DEF LoadEof
<1>. QED  BY <1>1, LoadReturnsStep DEF LoadEof

\* A number stands where a load looks for the number of a database.
LEMMA SelectPlace ==
    ASSUME IInv, proc = "loading", ReadType = "SELECTDB", HasField(2)
    PROVE  /\ pos + 2 \in 1..Len(disk[file])
           /\ disk[file][pos + 2] \in Fields /\ disk[file][pos + 2].f = "num"
           /\ ReadField(2, dbnum) = disk[file][pos + 2].x
<1> DEFINE c == disk[file]
<1>1. HasField(1) /\ pos + 2 \in 1..Len(c) /\ pos \in Nat /\ Len(c) \in Nat
  BY LoadPlace
<1>2. pos + 1 \in 1..(Len(c) - 1) /\ (pos + 1) + 1 = pos + 2
  BY <1>1
<1>3. c[pos + 1] \in Fields /\ c[pos + 2] \in Fields /\ c \in Seq(Fields)
  BY <1>1, <1>2, LoadPlace, ElementOfSeq DEF Dump
<1>4. c[pos + 1].f = "type" /\ c[pos + 1].x = "SELECTDB"
  BY <1>1, LoadPlace
<1>5. c[pos + 2].f = "num"
  BY <1>2, <1>3, <1>4, FollowerFacts, LoadPlace DEF Dump, WellFormed
<1>. QED  BY <1>1, <1>3, <1>5 DEF ReadField

\* rdbLoad, the number of a database.
LEMMA LoadSelectStep ==
    ASSUME IInv, LoadSelect
    PROVE  IInv'
<1> DEFINE d == ReadField(2, dbnum)
<1> DEFINE c == disk[file]
<1>1. proc = "loading" /\ ReadType = "SELECTDB" /\ Clean
      /\ UNCHANGED <<mem, selected, disk, saveRegs, snap>>
  BY LoadPlace DEF LoadSelect
<1>2. CASE OutOfBoundary(d)
  BY <1>1, <1>2, LoadReturnsStep DEF LoadSelect
<1>3. CASE ~OutOfBoundary(d)
  <2>1. /\ dbnum' = d /\ cursor' = d /\ type' = "SELECTDB" /\ Advance(2)
        /\ UNCHANGED <<proc, reply, file>>
    BY <1>3 DEF LoadSelect
  <2>2. ASSUME HasField(2)
        PROVE  c[pos + 2] \in Fields /\ c[pos + 2].f = "num" /\ d = c[pos + 2].x
    BY <1>1, <2>2, SelectPlace
  <2>3. d \in Int /\ d < DBCount
    <3>1. d \in Int
      BY <2>2, FieldFacts DEF IInv, RegistersOK, ReadField
    <3> HIDE DEF d
    <3>. QED  BY <3>1, <1>3, DBCountAssumption DEF OutOfBoundary
  <2>4. HasField(2) => Follower(c[pos + 2]) = "type"
    BY <2>2, FollowerFacts
  <2>5. /\ pos' \in Nat /\ pos' <= Readable(c)
        /\ pos' < Readable(c) => c[pos' + 1].f = "type"
    BY <1>1, <2>1, <2>4, Advanced
  <2>6. MapsOK' /\ Clean'
    BY <1>1 DEF IInv, MapsOK, Clean, mem
  <2>7. type' \in TypeBytes \ {"EOF"} /\ d <= DBCount
    BY <2>1, <2>3, DBCountAssumption DEF TypeBytes
  <2> HIDE DEF d
  <2>. QED  BY <1>1, <2>1, <2>3, <2>5, <2>6, <2>7, RoundStep DEF saveRegs
<1>. QED  BY <1>2, <1>3

\* The fields of a pair stand where a load looks for them.
LEMMA PairPlace ==
    ASSUME IInv, proc = "loading", ReadType = "STRING"
    PROVE  /\ HasField(2) => /\ disk[file][pos + 2] \in Fields
                             /\ disk[file][pos + 2].f = "key"
           /\ HasField(3) => /\ HasField(2) /\ disk[file][pos + 3] \in Fields
                             /\ disk[file][pos + 3].f = "val"
                             /\ Follower(disk[file][pos + 3]) = "type"
<1> DEFINE c == disk[file]
<1>0. c \in Seq(Fields) /\ WellFormed(c) /\ pos \in Nat /\ Len(c) \in Nat
  BY LoadPlace DEF Dump
<1>1. ASSUME HasField(2) PROVE c[pos + 2] \in Fields /\ c[pos + 2].f = "key"
  <2>1. HasField(1) /\ pos + 2 \in 1..Len(c)
    BY <1>1, LoadPlace
  <2>2. pos + 1 \in 1..(Len(c) - 1) /\ pos + 1 \in 1..Len(c) /\ (pos + 1) + 1 = pos + 2
    BY <1>0, <2>1
  <2>3. c[pos + 1] \in Fields /\ c[pos + 2] \in Fields
    BY <1>0, <2>1, <2>2, ElementOfSeq
  <2>4. c[pos + 1].f = "type" /\ c[pos + 1].x = "STRING"
    BY <2>1, LoadPlace
  <2>. QED  BY <1>0, <2>2, <2>3, <2>4, FollowerFacts DEF WellFormed
<1>2. ASSUME HasField(3)
      PROVE  HasField(2) /\ c[pos + 3] \in Fields /\ c[pos + 3].f = "val"
  <2>1. HasField(2) /\ pos + 3 \in 1..Len(c)
    BY <1>2, LoadPlace
  <2>2. pos + 2 \in 1..(Len(c) - 1) /\ (pos + 2) + 1 = pos + 3
    BY <1>0, <2>1
  <2>3. c[pos + 3] \in Fields
    BY <1>0, <2>1, ElementOfSeq
  <2>. QED  BY <1>0, <1>1, <2>1, <2>2, <2>3, FollowerFacts DEF WellFormed
<1>. QED  BY <1>1, <1>2, FollowerFacts

\* rdbLoad, a pair.
LEMMA LoadPairStep ==
    ASSUME IInv, LoadPair
    PROVE  IInv'
<1> DEFINE k == ReadField(2, Garbage)
<1> DEFINE v == ReadField(3, Garbage)
<1>1. /\ proc = "loading" /\ ReadType = "STRING" /\ type' = "STRING" /\ Advance(3)
      /\ UNCHANGED <<backed, disk, file, cursor, stream, left, dbnum, snap>>
  BY DEF LoadPair, saveRegs
<1>2. k \in Key \cup {Garbage} /\ v \in Value \cup {Garbage} /\ (HasField(3) => k \in Key /\ v \in Value)
  BY <1>1, PairPlace, FieldFacts DEF ReadField
<1>3. /\ pos' \in Nat /\ pos' <= Readable(disk[file])
      /\ pos' < Readable(disk[file]) => disk[file][pos' + 1].f = "type"
      /\ HasField(3) => pos' = pos + 3
      /\ ~HasField(3) => pos' = Readable(disk[file])
  BY <1>1, PairPlace, Advanced
<1>4. CASE cursor \in DB /\ backed[cursor]
  <2>1. dbs' = [dbs EXCEPT ![cursor] = DictAdd(@, k, v)] /\ UNCHANGED <<proc, reply, selected>>
    BY <1>4 DEF LoadPair
  <2> HIDE DEF k, v
  <2>2. MapsOK'
    <3>1. dbs[cursor] \in PartialMap
      BY <1>4 DEF IInv, MapsOK
    <3>2. DictAdd(dbs[cursor], k, v) \in PartialMap
      BY <3>1, <1>2, MapKinds, MapFacts
    <3>. QED  BY <1>1, <2>1, <3>2 DEF IInv, MapsOK
  <2>3. Clean' \/ pos' = Readable(disk[file])
    <3>1. CASE ~HasField(3)
      BY <1>3, <3>1
    <3>2. CASE HasField(3)
      <4>1. HasField(1) /\ Clean
        <5>1. HasField(1)
          BY <1>1, <3>2, LoadPlace
        <5>. QED  BY <1>1, <5>1, LoadPlace DEF Loading
      <4>2. DictAdd(dbs[cursor], k, v) \in MapsOver(Key, Value)
        BY <1>2, <1>4, <3>2, <4>1, MapFacts DEF Clean
      <4>. QED  BY <2>1, <4>1, <4>2 DEF Clean
    <3>. QED  BY <3>1, <3>2
  <2>4. cursor \in Int /\ cursor <= DBCount /\ dbnum \in Int /\ dbnum < DBCount
        /\ "STRING" \in TypeBytes \ {"EOF"}
    BY DEF IInv, RegistersOK, TypeBytes
  <2>. QED  BY <1>1, <1>3, <2>1, <2>2, <2>3, <2>4, RoundStep
<1>5. CASE ~(cursor \in DB /\ backed[cursor])
  <2>1. Fault /\ UNCHANGED dbs
    BY <1>5 DEF LoadPair
  <2>2. MapsOK' /\ ClientsOK' /\ FilesOK'
    BY <1>1, <2>1 DEF IInv, MapsOK, FilesOK, ClientsOK, Fault
  <2>3. RegistersOK'
    BY <1>1, <1>3 DEF IInv, RegistersOK, TypeBytes
  <2>. QED  BY <2>1, <2>2, <2>3 DEF IInv, Fault
<1>. QED  BY <1>4, <1>5

\* rdbLoad, a length nobody wrote.
LEMMA LoadWildLengthStep ==
    ASSUME IInv, LoadWildLength
    PROVE  IInv'
<1>1. Fault /\ Quiet /\ UNCHANGED mem
  BY DEF LoadWildLength, Quiet
<1>2. MapsOK'
  BY <1>1 DEF IInv, MapsOK, mem
<1>. QED  BY <1>1, <1>2, FaultStep

\* rdbLoad, a type byte it does not know.
LEMMA LoadOtherStep ==
    ASSUME IInv, LoadOther
    PROVE  IInv'
<1>1. /\ proc = "loading" /\ ReadType = "OTHER" /\ type' = "OTHER" /\ Advance(1)
      /\ UNCHANGED <<dbs, backed, selected, disk, proc, file, cursor, stream, left, dbnum, snap>>
  BY DEF LoadOther, mem, saveRegs
<1>2. Clean
  BY <1>1, LoadPlace
<1>3. HasField(1) => Follower(disk[file][pos + 1]) = "type"
  <2>1. HasField(1) => pos + 1 \in 1..Len(disk[file])
    BY <1>1, LoadPlace
  <2>2. HasField(1) => disk[file][pos + 1] \in Fields
    BY <1>1, <2>1, LoadPlace, ElementOfSeq DEF Dump
  <2>. QED  BY <1>1, <2>2, LoadPlace, FollowerFacts
<1>4. /\ pos' \in Nat /\ pos' <= Readable(disk[file])
      /\ pos' < Readable(disk[file]) => disk[file][pos' + 1].f = "type"
  BY <1>1, <1>3, Advanced
<1>5. MapsOK' /\ Clean'
  BY <1>1, <1>2 DEF IInv, MapsOK, Clean
<1>6. cursor \in Int /\ cursor <= DBCount /\ dbnum \in Int /\ dbnum < DBCount
      /\ "OTHER" \in TypeBytes \ {"EOF"}
  BY DEF IInv, RegistersOK, TypeBytes
<1>. QED  BY <1>1, <1>4, <1>5, <1>6, RoundStep
-----------------------------------------------------------------------------
(* Every step keeps it: the process dies and is started again *)

\* The process is killed, in the middle of a save or not.
LEMMA KilledStep ==
    ASSUME IInv, Killed
    PROVE  IInv'
<1>1. /\ proc' = "killed" /\ selected' = [c \in Client |-> NULL]
      /\ UNCHANGED <<dbs, backed, file, cursor, stream, left, pos, type, dbnum, snap>>
  BY DEF Killed, mem, saveRegs, loadRegs
<1>2. MapsOK' /\ ClientsOK' /\ RegistersOK'
  BY <1>1 DEF IInv, MapsOK, ClientsOK, RegistersOK
<1>3. FilesOK'
  <2>1. CASE proc = "saving"
    <3>1. PICK m \in 0..Len(stream) : disk' = [disk EXCEPT ![file] = SubSeq(stream, 1, m)]
      BY <2>1 DEF Killed
    <3>2. Dump(SubSeq(stream, 1, m)) /\ file \in File
      BY <2>1, CutShort DEF IInv, RegistersOK, Saving
    <3>. QED  BY <1>1, <3>1, <3>2 DEF IInv, FilesOK
  <2>2. CASE proc # "saving"
    BY <1>1, <2>2 DEF IInv, FilesOK, Killed
  <2>. QED  BY <2>1, <2>2
<1>. QED  BY <1>1, <1>2, <1>3 DEF IInv

\* It is started again.
LEMMA RestartStep ==
    ASSUME IInv, Restart
    PROVE  IInv'
<1>1. MapsOK' /\ Clean'
  BY MapKinds DEF Restart, MapsOK, Clean
<1>2. ClientsOK' /\ FilesOK'
  BY DEF IInv, ClientsOK, FilesOK, Restart
<1>3. RegistersOK'
  BY NoFields, DBCountAssumption DEF RegistersOK, Restart, TypeBytes
<1>. QED  BY <1>1, <1>2, <1>3 DEF IInv, Restart

\* Nothing happens.
LEMMA StutterStep ==
    ASSUME IInv, UNCHANGED vars
    PROVE  IInv'
<1>1. MapsOK' /\ ClientsOK' /\ FilesOK' /\ RegistersOK' /\ (Clean => Clean')
  BY DEF IInv, vars, MapsOK, ClientsOK, FilesOK, RegistersOK, Clean
<1>2. Saving => Saving'
  BY DEF Saving, vars
<1>3. Loading => Loading'
  <2>1. disk'[file'] = disk[file] /\ Readable(disk'[file']) = Readable(disk[file])
    BY DEF vars
  <2>. QED  BY <1>1, <2>1 DEF Loading, vars
<1>. QED  BY <1>1, <1>2, <1>3 DEF IInv, vars

\* Every step keeps the invariant.
LEMMA NextIInv ==
    ASSUME IInv, [Next]_vars
    PROVE  IInv'
<1>1. ASSUME NEW c \in Client, ClientStep(c) PROVE IInv'
  BY <1>1, ConnectionStep, SelectStep, SetStep, DelStep, ReadOnlyStep, SaveStartStep,
     LoadStartStep
  DEF ClientStep
<1>2. CASE SaveStep
  BY <1>2, SaveSelectStep, SavePairStep, SaveEofStep DEF SaveStep
<1>3. CASE LoadStep
  BY <1>3, LoadEofStep, LoadSelectStep, LoadPairStep, LoadWildLengthStep, LoadOtherStep
  DEF LoadStep
<1>4. CASE Killed \/ Restart
  BY <1>4, KilledStep, RestartStep
<1>5. CASE UNCHANGED vars
  BY <1>5, StutterStep
<1>. QED  BY <1>1, <1>2, <1>3, <1>4, <1>5 DEF Next

\* The inductive invariant holds in every reachable state.
LEMMA Invariant == Spec => []IInv
<1>1. Init => IInv
  BY InitIInv
<1>2. IInv /\ [Next]_vars => IInv'
  BY NextIInv
<1>. QED  BY <1>1, <1>2, PTL DEF Spec

\* Every variable keeps to its type, whatever is in the dump files the server
\* finds, with whatever order of commands, kills and restarts.  The part of it
\* that says most is what rdbLoad relies on: it never reads a field of the
\* wrong kind, and a dump with bytes in it that fread did not write is never
\* saved (Server.cpp:469-523).
THEOREM TypeCorrect == Spec => []TypeOK
<1>1. IInv => TypeOK
  BY IInvTypeOK
<1>. QED  BY <1>1, Invariant, PTL

-----------------------------------------------------------------------------
(* A dump that was cut off *)

\* Nothing stands behind the EOF byte.
LEMMA EofIsLast ==
    ASSUME NEW content, Dump(content), NEW i \in 1..Len(content), IsType(content[i], "EOF")
    PROVE  i = Len(content) /\ content # <<>> /\ Last(content) = content[i]
<1>1. Len(content) \in Nat
  BY LenProperties DEF Dump
<1>2. i = Len(content)
  BY <1>1 DEF Dump, WellFormed
<1>3. content # <<>>
  BY <1>1, <1>2, EmptySeq
<1>. QED  BY <1>2, <1>3 DEF Last

\* The byte a load stops at is the last of the file, or was never read.
LEMMA EofRead ==
    ASSUME IInv, LoadEof
    PROVE  \/ disk[file] = <<>>
           \/ /\ HasField(1) /\ pos + 1 = Len(disk[file])
              /\ IsType(disk[file][pos + 1], "EOF") /\ IsType(Last(disk[file]), "EOF")
<1>1. proc = "loading" /\ ReadType = "EOF"
  BY DEF LoadEof
<1>2. CASE HasField(1)
  <2>1. IsType(disk[file][pos + 1], "EOF") /\ pos + 1 \in 1..Len(disk[file])
    BY <1>1, <1>2, LoadPlace DEF IsType
  <2>. QED  BY <1>1, <1>2, <2>1, LoadPlace, EofIsLast
<1>3. CASE ~HasField(1)
  BY <1>1, <1>3, LoadPlace DEF Loading
<1>. QED  BY <1>2, <1>3

\* The only steps by which a load returns.
LEMMA LoadReturnsBy ==
    ASSUME IInv, Next, proc = "loading", proc' = "up"
    PROVE  \/ LoadEof
           \/ LoadSelect /\ reply' = "load data fail,please retry!"
<1>1. ~ \E c \in Client : ClientStep(c)
  BY DEF ClientStep, Connect, Disconnect, SelectCommand, SetCommand, DelCommand, GetCommand,
     ShowAllCommand, IllegalCommand, SaveStart, SaveOpenFails, LoadOpenFails, LoadStart, Command
<1>2. ~SaveStep /\ ~Killed /\ ~Restart
  BY DEF SaveStep, SaveSelect, SavePair, SaveEof, Killed, Restart
<1>3. ~LoadPair /\ ~LoadWildLength /\ ~LoadOther
  BY DEF LoadPair, LoadWildLength, LoadOther, Fault
<1>4. LoadSelect => reply' = "load data fail,please retry!"
  BY DEF LoadSelect, LoadReturns
<1>. QED  BY <1>1, <1>2, <1>3, <1>4 DEF Next, LoadStep

\* A dump that was cut off is never reported as loaded, except for an empty
\* file (rdbLoad, Server.cpp:491-492): the variable type holds the EOF byte only
\* when it was read, and rdbSave writes nothing behind it.
THEOREM CutDumpRefused == Spec => CutDumpNeverSucceeds
<1>1. ASSUME IInv, [Next]_vars, proc = "loading", proc' = "up",
             reply' = "load data success!"
      PROVE  disk[file] = <<>> \/ IsType(Last(disk[file]), "EOF")
  <2>1. Next
    BY <1>1 DEF vars
  <2>2. LoadEof
    BY <1>1, <2>1, LoadReturnsBy
  <2>. QED  BY <1>1, <2>2, EofRead
<1>2. IInv /\ [Next]_vars => CutDumpNeverSucceeds!1
  BY <1>1
<1>. QED  BY <1>2, Invariant, PTL DEF Spec, CutDumpNeverSucceeds
-----------------------------------------------------------------------------
(* How a load takes the server down *)

\* A negative number in a file.
Negative(content) ==
    \E i \in 1..Len(content) : content[i].f = "num" /\ content[i].x < 0

\* Only such a file takes db out of the array of the databases.
CursorInv ==
    proc = "loading" => (cursor \in DB /\ dbnum \in DB) \/ Negative(disk[file])

\* The number a load finds is that of a database, or the file has a negative
\* one.
LEMMA SelectKeepsCursor ==
    ASSUME IInv, IInv', CursorInv, LoadSelect
    PROVE  CursorInv'
<1> DEFINE d == ReadField(2, dbnum)
<1>1. proc = "loading" /\ ReadType = "SELECTDB" /\ disk' = disk
  BY DEF LoadSelect
<1>2. CASE OutOfBoundary(d)
  BY <1>2 DEF LoadSelect, LoadReturns, CursorInv
<1>3. CASE ~OutOfBoundary(d)
  <2>1. dbnum' = d /\ cursor' = d /\ file' = file
    BY <1>3 DEF LoadSelect
  <2>2. d \in Int /\ d < DBCount
    <3>1. dbnum' \in Int /\ dbnum' < DBCount
      BY DEF IInv, RegistersOK
    <3>. QED  BY <2>1, <3>1
  <2>3. CASE HasField(2) /\ d < 0
    <3>1. /\ pos + 2 \in 1..Len(disk[file]) /\ disk[file][pos + 2].f = "num"
          /\ disk[file][pos + 2].x < 0
      BY <1>1, <2>3, SelectPlace
    <3>2. Negative(disk[file])
      BY <3>1, Zenon DEF Negative
    <3>. QED  BY <1>1, <2>1, <3>2 DEF CursorInv
  <2>4. CASE ~(d < 0)
    <3>1. d \in DB
      BY <2>2, <2>4, DBCountAssumption DEF DB
    <3>. QED  BY <2>1, <3>1 DEF CursorInv
  <2>5. CASE ~HasField(2) /\ d < 0
    <3>1. d = dbnum /\ dbnum \notin DB
      BY <2>5 DEF ReadField, DB
    <3>2. Negative(disk[file])
      BY <1>1, <3>1 DEF CursorInv
    <3>. QED  BY <1>1, <2>1, <3>2 DEF CursorInv
  <2>. QED  BY <2>3, <2>4, <2>5
<1>. QED  BY <1>2, <1>3

\* Every step keeps db where it should be.
LEMMA NextCursorInv ==
    ASSUME IInv, IInv', CursorInv, [Next]_vars
    PROVE  CursorInv'
<1>1. ASSUME NEW c \in Client, NEW f \in File, LoadStart(c, f) PROVE CursorInv'
  BY <1>1, DBCountAssumption DEF LoadStart, CursorInv, DB
<1>2. ASSUME NEW c \in Client, ClientStep(c), ~ \E f \in File : LoadStart(c, f)
      PROVE  CursorInv'
  <2>1. proc' # "loading"
    BY <1>2
    DEF ClientStep, Connect, Disconnect, SelectCommand, SetCommand, DelCommand, GetCommand,
        ShowAllCommand, IllegalCommand, SaveStart, SaveOpenFails, LoadOpenFails, Answer,
        Command, Fault
  <2>. QED  BY <2>1 DEF CursorInv
<1>3. CASE LoadSelect
  BY <1>3, SelectKeepsCursor
<1>4. CASE LoadPair \/ LoadOther
  BY <1>4 DEF LoadPair, LoadOther, CursorInv, Fault
<1>5. CASE SaveStep \/ LoadEof \/ LoadWildLength \/ Killed \/ Restart
  <2>1. proc' # "loading"
    BY <1>5
    DEF SaveStep, SaveSelect, SavePair, SaveEof, LoadEof, LoadReturns, LoadWildLength, Fault,
        Killed, Restart
  <2>. QED  BY <2>1 DEF CursorInv
<1>6. CASE UNCHANGED vars
  BY <1>6 DEF vars, CursorInv
<1>. QED  BY <1>1, <1>2, <1>3, <1>4, <1>5, <1>6 DEF Next, LoadStep

\* Where a load faults, and why.
LEMMA FaultHasCause ==
    ASSUME IInv, CursorInv, [Next]_vars, proc = "loading", proc' = "faulted"
    PROVE  \/ Negative(disk[file])
           \/ cursor \in DB /\ ~backed[cursor]
           \/ NoLengthRead
<1>1. ~ \E c \in Client : ClientStep(c)
  BY DEF ClientStep, Connect, Disconnect, SelectCommand, SetCommand, DelCommand, GetCommand,
     ShowAllCommand, IllegalCommand, SaveStart, SaveOpenFails, LoadOpenFails, LoadStart, Command
<1>2. ~SaveStep /\ ~Killed /\ ~Restart /\ ~UNCHANGED vars
  BY DEF SaveStep, SaveSelect, SavePair, SaveEof, Killed, Restart, vars
<1>3. ~LoadEof /\ ~LoadSelect /\ ~LoadOther
  BY DEF LoadEof, LoadSelect, LoadOther, LoadReturns
<1>4. CASE LoadPair
  <2>1. ~(cursor \in DB /\ backed[cursor])
    BY <1>4 DEF LoadPair
  <2>. QED  BY <2>1 DEF CursorInv
<1>5. CASE LoadWildLength
  BY <1>5 DEF LoadWildLength
<1>. QED  BY <1>1, <1>2, <1>3, <1>4, <1>5 DEF Next, LoadStep

\* A load takes the server down only by what rdbLoad does not check: a
\* negative database number in the file, a dictionary without an array, or a
\* string in front of whose length the stream ends (Server.cpp:490-519).
THEOREM LoadFaultsKnown == Spec => LoadFaultsHaveCause
<1>1. Init => CursorInv
  BY DEF Init, CursorInv
<1>2. IInv /\ IInv' /\ CursorInv /\ [Next]_vars => CursorInv'
  BY NextCursorInv
<1>3. IInv /\ CursorInv /\ [Next]_vars
      => ((proc = "loading" /\ proc' = "faulted")
          => \/ \E i \in 1..Len(disk[file]) :
                   disk[file][i].f = "num" /\ disk[file][i].x < 0
             \/ cursor \in DB /\ ~backed[cursor]
             \/ NoLengthRead)
  BY FaultHasCause, Zenon DEF Negative
<1>. QED  BY <1>1, <1>2, <1>3, Invariant, PTL DEF Spec, LoadFaultsHaveCause

-----------------------------------------------------------------------------
(* The pairs in a dump *)

\* Field h is the last database number in the first n fields.
LastNumber(content, h, n) ==
    /\ h \in 1..n
    /\ content[h].f = "num"
    /\ \A j \in (h + 1)..n : content[j].f # "num"

\* Pair p stands in fields i and i + 1 and belongs to the number in field h.
Tells(content, p, h, i) ==
    /\ LastNumber(content, h, i)
    /\ content[h].x = p[1]
    /\ content[i].f = "key"
    /\ content[i].x = p[2]
    /\ content[i + 1].x = p[3]

\* The pairs in the first n fields.
Told(content, n) ==
    {p \in Pairs : \E h, i \in 1..(n - 1) : Tells(content, p, h, i)}

\* A dump tells the pairs of its property.
LEMMA ToldAll ==
    ASSUME NEW content, Dump(content)
    PROVE  PairsIn(content) = Told(content, Len(content))
<1>0. Len(content) \in Nat
  BY LenProperties DEF Dump
<1>1. ASSUME NEW p \in PairsIn(content) PROVE p \in Told(content, Len(content))
  <2>1. PICK h, i \in 1..Len(content) :
            /\ h < i /\ i < Len(content)
            /\ content[h].f = "num" /\ content[h].x = p[1]
            /\ \A j \in (h + 1)..i : content[j].f # "num"
            /\ content[i].f = "key" /\ content[i].x = p[2]
            /\ content[i + 1].x = p[3]
    BY DEF PairsIn
  <2>2. h \in 1..(Len(content) - 1) /\ i \in 1..(Len(content) - 1) /\ h \in 1..i
    BY <1>0, <2>1
  <2>3. Tells(content, p, h, i)
    BY <2>1, <2>2 DEF Tells, LastNumber
  <2>. QED  BY <2>2, <2>3 DEF Told, PairsIn
<1>2. ASSUME NEW p \in Told(content, Len(content)) PROVE p \in PairsIn(content)
  <2>1. PICK h, i \in 1..(Len(content) - 1) : Tells(content, p, h, i)
    BY DEF Told
  <2>2. h \in 1..Len(content) /\ i \in 1..Len(content) /\ i < Len(content) /\ h <= i
    BY <1>0, <2>1 DEF Tells, LastNumber
  <2>3. h # i
    BY <2>1 DEF Tells, LastNumber
  <2>4. h < i
    BY <1>0, <2>2, <2>3
  <2>. QED  BY <2>1, <2>2, <2>4 DEF Told, PairsIn, Tells, LastNumber
<1>. QED  BY <1>1, <1>2

\* Only the fields that are read count.
LEMMA ToldSame ==
    ASSUME NEW a, NEW b, NEW n \in Nat, \A i \in 1..n : a[i] = b[i]
    PROVE  Told(a, n) = Told(b, n)
<1>1. ASSUME NEW c, NEW d, \A i \in 1..n : c[i] = d[i], NEW p \in Told(c, n)
      PROVE  p \in Told(d, n)
  <2>1. PICK h, i \in 1..(n - 1) : Tells(c, p, h, i)
    BY DEF Told
  <2>2. i \in 1..n /\ h \in 1..n /\ i + 1 \in 1..n /\ \A j \in (h + 1)..i : j \in 1..n
    OBVIOUS
  <2>3. c[i] = d[i] /\ c[h] = d[h] /\ c[i + 1] = d[i + 1] /\ \A j \in (h + 1)..i : c[j] = d[j]
    BY <1>1, <2>2
  <2>4. Tells(d, p, h, i)
    BY <2>1, <2>3 DEF Tells, LastNumber
  <2>. QED  BY <2>1, <2>4 DEF Told
<1>2. Told(a, n) \subseteq Told(b, n)
  BY <1>1
<1>3. Told(b, n) \subseteq Told(a, n)
  BY <1>1
<1>. QED  BY <1>2, <1>3

\* More fields tell more pairs, or the same if no key is among them.
LEMMA ToldMore ==
    ASSUME NEW content, NEW n \in Nat, NEW m \in Nat, n <= m
    PROVE  /\ Told(content, n) \subseteq Told(content, m)
           /\ (\A i \in 1..(m - 1) : i >= n => content[i].f # "key")
                 => Told(content, m) = Told(content, n)
<1>1. Told(content, n) \subseteq Told(content, m)
  <2>1. ASSUME NEW p \in Told(content, n) PROVE p \in Told(content, m)
    <3>1. PICK h, i \in 1..(n - 1) : Tells(content, p, h, i)
      BY DEF Told
    <3>2. h \in 1..(m - 1) /\ i \in 1..(m - 1)
      OBVIOUS
    <3>. QED  BY <3>1, <3>2 DEF Told
  <2>. QED  BY <2>1
<1>2. ASSUME \A i \in 1..(m - 1) : i >= n => content[i].f # "key",
             NEW p \in Told(content, m)
      PROVE  p \in Told(content, n)
  <2>1. PICK h, i \in 1..(m - 1) : Tells(content, p, h, i)
    BY DEF Told
  <2>2. i < n /\ h <= i
    BY <1>2, <2>1 DEF Tells, LastNumber
  <2>3. i \in 1..(n - 1) /\ h \in 1..(n - 1)
    BY <2>2
  <2>. QED  BY <2>1, <2>3 DEF Told
<1>. QED  BY <1>1, <1>2

\* Behind n fields, the last number of which is h, the pair p.
PairAt(content, n, h, p) ==
    /\ LastNumber(content, h, n)
    /\ content[h].x = p[1]
    /\ content[n].f # "key"
    /\ content[n + 1].f = "type"
    /\ content[n + 2].f = "key" /\ content[n + 2].x = p[2]
    /\ content[n + 3].f = "val" /\ content[n + 3].x = p[3]

\* Then the fields up to the pair tell one pair more, and the number stays.
LEMMA ToldPair ==
    ASSUME NEW content, NEW n \in Nat, NEW h, NEW p \in Pairs, PairAt(content, n, h, p)
    PROVE  /\ Told(content, n + 3) = Told(content, n) \cup {p}
           /\ LastNumber(content, h, n + 3)
<1>. USE DEF PairAt
<1>0. h \in 1..n
  BY DEF LastNumber
<1>1. LastNumber(content, h, n + 2)
  <2>1. h \in 1..(n + 2)
    BY <1>0
  <2>2. ASSUME NEW j \in (h + 1)..(n + 2) PROVE content[j].f # "num"
    <3>1. j \in (h + 1)..n \/ j = n + 1 \/ j = n + 2
      BY <1>0
    <3>. QED  BY <3>1 DEF LastNumber
  <2>. QED  BY <2>1, <2>2 DEF LastNumber
<1>9. LastNumber(content, h, n + 3)
  <2>1. h \in 1..(n + 3)
    BY <1>0
  <2>2. ASSUME NEW j \in (h + 1)..(n + 3) PROVE content[j].f # "num"
    <3>1. j \in (h + 1)..(n + 2) \/ j = n + 3
      BY <1>0
    <3>. QED  BY <1>1, <3>1 DEF LastNumber
  <2>. QED  BY <1>1, <2>1, <2>2 DEF LastNumber
<1>2. p \in Told(content, n + 3)
  <2>1. Tells(content, p, h, n + 2)
    <3>1. (n + 2) + 1 = n + 3
      OBVIOUS
    <3>. QED  BY <1>1, <3>1 DEF Tells
  <2>2. h \in 1..((n + 3) - 1) /\ n + 2 \in 1..((n + 3) - 1)
    BY <1>0
  <2>. QED  BY <2>1, <2>2 DEF Told
<1>3. Told(content, n) \subseteq Told(content, n + 3)
  BY ToldMore
<1>4. ASSUME NEW q \in Told(content, n + 3) PROVE q \in Told(content, n) \cup {p}
  <2>1. PICK g, i \in 1..((n + 3) - 1) : Tells(content, q, g, i)
    BY DEF Told
  <2>2. q \in Pairs /\ g <= i /\ content[i].f = "key"
    BY <2>1 DEF Told, Tells, LastNumber
  <2>3. CASE i < n
    <3>1. i \in 1..(n - 1) /\ g \in 1..(n - 1)
      BY <2>2, <2>3
    <3>. QED  BY <2>1, <2>2, <3>1 DEF Told
  <2>4. CASE i >= n
    <3>1. i \in {n, n + 1, n + 2}
      BY <2>4
    <3>2. i # n + 1
      BY <2>2
    <3>3. CASE i = n + 2
      <4>1. g = h
        <5>1. g \in 1..i /\ content[g].f = "num" /\ \A j \in (g + 1)..i : content[j].f # "num"
          BY <2>1 DEF Tells, LastNumber
        <5>2. content[h].f = "num" /\ \A j \in (h + 1)..i : content[j].f # "num"
          BY <1>1, <3>3 DEF LastNumber
        <5>3. ~(g < h)
          <6>1. g < h => h \in (g + 1)..i
            BY <1>0, <3>3
          <6>. QED  BY <5>1, <5>2, <6>1
        <5>4. ~(h < g)
          <6>1. h < g => g \in (h + 1)..i
            BY <1>0, <2>2
          <6>. QED  BY <5>1, <5>2, <6>1
        <5>. QED  BY <1>0, <5>3, <5>4
      <4>2. i + 1 = n + 3
        BY <3>3
      <4>3. q[1] = p[1] /\ q[2] = p[2] /\ q[3] = p[3]
        BY <2>1, <3>3, <4>1, <4>2 DEF Tells
      <4>4. q = p
        BY <2>2, <4>3 DEF Pairs
      <4>. QED  BY <4>4
    <3>4. CASE i = n
      BY <2>2, <3>4
    <3>. QED  BY <3>1, <3>2, <3>3, <3>4
  <2>. QED  BY <2>3, <2>4
<1>. QED  BY <1>2, <1>3, <1>4, <1>9

\* A type byte stands behind no key.
LEMMA NotAKeyBefore ==
    ASSUME NEW content, Dump(content), NEW n \in 1..(Len(content) - 1),
           content[n + 1].f = "type"
    PROVE  content[n].f # "key"
<1>1. content \in Seq(Fields) /\ Len(content) \in Nat
  BY LenProperties DEF Dump
<1>2. content[n] \in Fields
  BY <1>1, ElementOfSeq
<1>3. content[n + 1].f = Follower(content[n])
  BY DEF Dump, WellFormed
<1>4. content[n].f = "key" => Follower(content[n]) = "val"
  BY <1>2, FollowerFacts
<1>. QED  BY <1>3, <1>4

\* A dump to be written on does not end in a key.
LEMMA NoKeyAtEnd ==
    ASSUME NEW content, Dump(content), Open(content), content # <<>>
    PROVE  Len(content) \in Nat \ {0} /\ content[Len(content)].f # "key"
<1>1. content \in Seq(Fields) /\ Len(content) \in Nat \ {0}
  BY EmptySeq DEF Dump
<1>2. content[Len(content)] \in Fields
  BY <1>1, ElementOfSeq
<1>. QED  BY <1>1, <1>2, FollowerFacts DEF Open

\* The same databases have the same pairs, and different ones have not.
LEMMA PairsDetermine ==
    ASSUME NEW a \in [DB -> PartialMap], NEW b \in [DB -> PartialMap],
           PairsOf(a) = PairsOf(b)
    PROVE  a = b
<1>1. ASSUME NEW x \in [DB -> PartialMap], NEW y \in [DB -> PartialMap],
             PairsOf(x) = PairsOf(y), NEW d \in DB, NEW k \in DOMAIN x[d]
      PROVE  k \in DOMAIN y[d] /\ y[d][k] = x[d][k]
  <2>1. x[d] \in MapsOver(Key \cup {Garbage}, Value \cup {Garbage})
    BY MapKinds
  <2>2. k \in Key \cup {Garbage} /\ x[d][k] \in Value \cup {Garbage}
    BY <2>1, MapFacts
  <2>3. <<d, k, x[d][k]>> \in PairsOf(x)
    BY <2>2 DEF PairsOf, Pairs
  <2>4. <<d, k, x[d][k]>> \in PairsOf(y)
    BY <1>1, <2>3
  <2>. QED  BY <2>4 DEF PairsOf
<1>2. ASSUME NEW d \in DB PROVE a[d] = b[d]
  <2>1. /\ a[d] \in MapsOver(Key \cup {Garbage}, Value \cup {Garbage})
        /\ b[d] \in MapsOver(Key \cup {Garbage}, Value \cup {Garbage})
    BY MapKinds
  <2>2. /\ a[d] \in [DOMAIN a[d] -> Value \cup {Garbage}]
        /\ b[d] \in [DOMAIN b[d] -> Value \cup {Garbage}]
    BY <2>1, MapFacts
  <2>3. DOMAIN a[d] = DOMAIN b[d] /\ \A k \in DOMAIN a[d] : a[d][k] = b[d][k]
    BY <1>1
  <2>. QED  BY <2>2, <2>3
<1>. QED  BY <1>2

\* dictAdd adds the pair, unless the key has a value.
Added(a, d, k, v) == [a EXCEPT ![d] = DictAdd(@, k, v)]

\* It adds the pair, unless the key has another value.
LEMMA PairsAdded ==
    ASSUME NEW a \in [DB -> PartialMap], NEW d \in DB,
           NEW k \in Key \cup {Garbage}, NEW v \in Value \cup {Garbage},
           k \in DOMAIN a[d] => a[d][k] = v
    PROVE  PairsOf(Added(a, d, k, v)) = PairsOf(a) \cup {<<d, k, v>>}
<1> DEFINE b == Added(a, d, k, v)
<1> DEFINE m == DictAdd(a[d], k, v)
<1>1. a[d] \in MapsOver(Key \cup {Garbage}, Value \cup {Garbage})
  BY MapKinds
<1>2. /\ DOMAIN m = DOMAIN a[d] \cup {k}
      /\ \A x \in DOMAIN a[d] : m[x] = a[d][x]
      /\ m[k] = v
  BY <1>1, MapFacts
<1>3. /\ b[d] = m /\ \A e \in DB : e # d => b[e] = a[e]
  BY DEF Added
<1> HIDE DEF b, m
<1>4. ASSUME NEW p \in Pairs
      PROVE  p \in PairsOf(b) <=> p \in PairsOf(a) \cup {<<d, k, v>>}
  <2>1. PICK e \in DB, x \in Key \cup {Garbage}, w \in Value \cup {Garbage} : p = <<e, x, w>>
    BY DEF Pairs
  <2>2. p \in PairsOf(b) <=> x \in DOMAIN b[e] /\ b[e][x] = w
    BY <2>1 DEF PairsOf, Pairs
  <2>3. p \in PairsOf(a) <=> x \in DOMAIN a[e] /\ a[e][x] = w
    BY <2>1 DEF PairsOf, Pairs
  <2>4. CASE e # d
    BY <2>1, <2>2, <2>3, <2>4, <1>3
  <2>5. CASE e = d /\ x # k
    BY <2>1, <2>2, <2>3, <2>5, <1>2, <1>3
  <2>6. CASE e = d /\ x = k
    BY <2>1, <2>2, <2>3, <2>6, <1>2, <1>3
  <2>. QED  BY <2>4, <2>5, <2>6
<1>5. <<d, k, v>> \in Pairs
  BY DEF Pairs
<1>6. PairsOf(a) \subseteq Pairs /\ PairsOf(b) \subseteq Pairs
  BY DEF PairsOf
<1>7. PairsOf(b) = PairsOf(a) \cup {<<d, k, v>>}
  BY <1>4, <1>5, <1>6
<1>. QED  BY <1>7 DEF b

-----------------------------------------------------------------------------
(* The invariant about pairs *)

\* What only a dump of this server has.
Ours(content) ==
    /\ content # <<>> => content[1].x \in {"SELECTDB", "EOF"}
    /\ \A i \in 1..Len(content) : content[i].f = "num" => content[i].x \in DB

Matches(content, databases) ==
    /\ PairsIn(content) \subseteq PairsOf(databases)
    /\ Complete(content) => PairsIn(content) = PairsOf(databases)

\* The pairs a save has written: those of the databases before the one it is
\* at, and of that one the pairs of the keys that are not left.
Written ==
    {p \in PairsOf(dbs) : p[1] < cursor - 1 \/ (p[1] = cursor - 1 /\ p[2] \notin left)}

SavingPairs ==
    /\ snap[file] = dbs
    /\ disk[file] = <<>>
    /\ Ours(stream)
    /\ PairsIn(stream) = Written
    /\ cursor > 0 => \E h \in Nat :
          LastNumber(stream, h, Len(stream)) /\ stream[h].x = cursor - 1

LoadingPairs ==
    /\ PairsOf(dbs) = Told(disk[file], pos)
    /\ pos > 0 => \E h \in Nat :
          LastNumber(disk[file], h, pos) /\ disk[file][h].x = cursor

\* A complete dump of this server of which there is more to be read.
ReadingOn ==
    /\ proc = "loading" /\ snap[file] # NULL /\ Complete(disk[file])
    /\ pos < Readable(disk[file])

SavedOK ==
    \A f \in File : snap[f] # NULL =>
        Dump(disk[f]) /\ Ours(disk[f]) /\ Matches(disk[f], snap[f])

PairInv ==
    /\ SavedOK
    /\ proc = "saving" => SavingPairs
    /\ ReadingOn => LoadingPairs

\* What is left of a dump of this server when it is cut off.
LEMMA OursCut ==
    ASSUME NEW content, Dump(content), Ours(content), NEW m \in 0..Len(content)
    PROVE  /\ Ours(SubSeq(content, 1, m))
           /\ PairsIn(SubSeq(content, 1, m)) \subseteq PairsIn(content)
           /\ m < Len(content) => ~Complete(SubSeq(content, 1, m))
           /\ Complete(SubSeq(content, 1, m)) => SubSeq(content, 1, m) = content
<1> DEFINE s == SubSeq(content, 1, m)
<1>0. content \in Seq(Fields) /\ Len(content) \in Nat /\ m \in Nat /\ m <= Len(content)
  BY LenProperties DEF Dump
<1>1. Dump(s) /\ Len(s) = m /\ \A i \in 1..m : s[i] = content[i]
  BY CutShort
<1>2. m = Len(content) => s = content
  BY <1>0, SubSeqFull
<1> HIDE DEF s
<1>3. s # <<>> => m > 0 /\ content # <<>>
  <2>1. s # <<>> => m > 0
    BY <1>0, <1>1, EmptySeq DEF Dump
  <2>. QED  BY <1>0, <2>1, EmptySeq
<1>4. Ours(s)
  BY <1>0, <1>1, <1>3 DEF Ours
<1>5. PairsIn(s) \subseteq PairsIn(content)
  <2>1. PairsIn(s) = Told(s, m) /\ PairsIn(content) = Told(content, Len(content))
    BY <1>1, ToldAll
  <2>2. Told(s, m) = Told(content, m)
    BY <1>0, <1>1, ToldSame
  <2>. QED  BY <1>0, <2>1, <2>2, ToldMore
<1>6. ASSUME m < Len(content) PROVE ~Complete(s)
  <2>1. SUFFICES ASSUME Complete(s) PROVE FALSE
    OBVIOUS
  <2>2. m > 0 /\ IsType(s[m], "EOF")
    BY <1>1, <1>3, <2>1 DEF Complete, Last
  <2>3. m \in 1..(Len(content) - 1) /\ s[m] = content[m]
    BY <1>0, <1>1, <1>6, <2>2
  <2>. QED  BY <2>2, <2>3 DEF Dump, WellFormed
<1>7. Complete(s) => s = content
  BY <1>0, <1>2, <1>6
<1>. QED  BY <1>4, <1>5, <1>6, <1>7 DEF s

\* An empty file has no pairs, and is not complete.
LEMMA NothingTold ==
    /\ Ours(<<>>) /\ PairsIn(<<>>) = {} /\ ~Complete(<<>>)
<1>1. Len(<<>>) = 0
  BY EmptySeq
<1>. QED  BY <1>1 DEF Ours, PairsIn, Complete
-----------------------------------------------------------------------------
(* Every step keeps the invariant about pairs *)

\* No dump was saved at the start.
LEMMA InitPairInv == Init => PairInv
BY DEF Init, PairInv, SavedOK, ReadingOn

\* A step that leaves the files alone, and no save or load going on.
LEMMA CalmStep ==
    ASSUME PairInv, UNCHANGED <<disk, snap>>, proc' \notin {"saving", "loading"}
    PROVE  PairInv'
BY DEF PairInv, SavedOK, ReadingOn

\* rdbSave up to fopen: the file is empty, and so is the stream.
LEMMA StartPairs ==
    ASSUME IInv, PairInv, NEW c \in Client, NEW a \in DOMAIN TempName, SaveStart(c, a)
    PROVE  PairInv'
<1> DEFINE f == TempName[a]
<1>1. /\ f \in File /\ UNCHANGED dbs
      /\ file' = f /\ disk' = [disk EXCEPT ![f] = <<>>] /\ snap' = [snap EXCEPT ![f] = dbs]
      /\ proc' = "saving" /\ stream' = <<>> /\ cursor' = 0 /\ left' = {}
  BY TempNameAssumption DEF SaveStart, mem
<1> HIDE DEF f
<1>2. /\ disk'[f] = <<>> /\ snap'[f] = dbs
      /\ \A g \in File : g # f => disk'[g] = disk[g] /\ snap'[g] = snap[g]
  BY <1>1 DEF IInv, FilesOK
<1>3. Dump(<<>>) /\ Ours(<<>>) /\ Matches(<<>>, dbs)
  BY NoFields, NothingTold DEF Matches
<1>4. SavedOK'
  BY <1>2, <1>3 DEF PairInv, SavedOK
<1>5. Written' = {}
  <2>1. \A p \in Pairs : p[1] \in Nat
    BY DBCountAssumption DEF Pairs, DB
  <2>. QED  BY <1>1, <2>1 DEF Written, PairsOf
<1>6. SavingPairs'
  BY <1>1, <1>2, <1>3, <1>5, NothingTold DEF SavingPairs
<1>. QED  BY <1>1, <1>4, <1>6 DEF PairInv, ReadingOn

\* The databases are numbered from 0.
LEMMA NumbersOfDatabases == DB \subseteq Nat /\ \A p \in Pairs : p[1] \in DB
BY DBCountAssumption DEF DB, Pairs

\* rdbSave, the next database: the databases it skips have no pairs.
LEMMA SelectPairs ==
    ASSUME IInv, PairInv, SaveSelect
    PROVE  PairInv'
<1>1. /\ Saving /\ SavingPairs /\ SavedOK /\ proc = "saving" /\ proc' = "saving" /\ left = {}
      /\ UNCHANGED <<dbs, disk, file, snap>>
  BY DEF SaveSelect, IInv, PairInv, mem
<1>2. PICK d \in DB : /\ d >= cursor
                      /\ \A e \in DB : cursor <= e /\ e < d => dbs[e] = EmptyMap
                      /\ left' = DOMAIN dbs[d] /\ cursor' = d + 1
                      /\ stream' = stream \o Header(d)
  BY DEF SaveSelect
<1> DEFINE n == Len(stream)
<1> DEFINE s == stream'
<1>3. Dump(stream) /\ Open(stream) /\ n \in Nat /\ cursor \in Nat /\ d \in Nat
  BY <1>1, LenProperties, NumbersOfDatabases DEF IInv, RegistersOK, Saving, Dump
<1>4. /\ Dump(s) /\ Len(s) = n + 2
      /\ \A i \in 1..n : s[i] = stream[i]
      /\ s[n + 1] = TypeByte("SELECTDB") /\ s[n + 2] = Field("num", d)
  BY <1>2, <1>3, HeaderAppended
<1>5. /\ s[n + 1].f = "type" /\ s[n + 1].x = "SELECTDB"
      /\ s[n + 2].f = "num" /\ s[n + 2].x = d
  BY <1>4, FieldsWritten DEF TypeBytes
<1> HIDE DEF n, s
<1>6. PairsIn(s) = Written
  <2>1. PairsIn(s) = Told(s, n + 2) /\ PairsIn(stream) = Told(stream, n)
    BY <1>3, <1>4, ToldAll DEF n
  <2>2. ASSUME NEW i \in 1..((n + 2) - 1), i >= n PROVE s[i].f # "key"
    <3>1. i = n + 1 \/ (i = n /\ n \in 1..n)
      BY <1>3, <2>2
    <3>2. n \in 1..n => s[n].f # "key"
      <4>1. n \in 1..n => stream # <<>>
        BY EmptySeq DEF n
      <4>. QED  BY <1>3, <1>4, <4>1, NoKeyAtEnd DEF n
    <3>. QED  BY <1>5, <3>1, <3>2
  <2>3. Told(s, n + 2) = Told(s, n)
    BY <1>3, <2>2, ToldMore
  <2>4. Told(s, n) = Told(stream, n)
    BY <1>3, <1>4, ToldSame
  <2>. QED  BY <1>1, <2>1, <2>3, <2>4 DEF SavingPairs
<1>7. Written' = Written
  <2>1. ASSUME NEW p \in PairsOf(dbs)
        PROVE  (p[1] < d \/ (p[1] = d /\ p[2] \notin DOMAIN dbs[d]))
                  <=> (p[1] < cursor - 1 \/ (p[1] = cursor - 1 /\ p[2] \notin left))
    <3>1. p[1] \in DB /\ p[1] \in Nat /\ p[2] \in DOMAIN dbs[p[1]]
      BY NumbersOfDatabases DEF PairsOf
    <3>2. ~(cursor <= p[1] /\ p[1] < d)
      BY <1>2, <3>1 DEF EmptyMap
    <3>. QED  BY <1>1, <1>2, <1>3, <3>1, <3>2
  <2>2. (d + 1) - 1 = d
    BY <1>3
  <2>3. Written' = {p \in PairsOf(dbs') : p[1] < cursor' - 1 \/ (p[1] = cursor' - 1 /\ p[2] \notin left')}
    BY DEF Written, PairsOf
  <2>. QED  BY <1>1, <1>2, <2>1, <2>2, <2>3 DEF Written
<1>8. Ours(s)
  <2>1. s[1].x \in {"SELECTDB", "EOF"}
    <3>1. CASE n = 0
      BY <1>5, <3>1
    <3>2. CASE n > 0
      <4>1. stream # <<>> /\ s[1] = stream[1]
        BY <1>3, <1>4, <3>2, EmptySeq DEF n
      <4>. QED  BY <1>1, <4>1 DEF SavingPairs, Ours
    <3>. QED  BY <1>3, <3>1, <3>2
  <2>2. ASSUME NEW i \in 1..Len(s), s[i].f = "num" PROVE s[i].x \in DB
    <3>1. i \in 1..n \/ i = n + 1 \/ i = n + 2
      BY <1>3, <1>4
    <3>2. i \in 1..n => s[i] = stream[i]
      BY <1>4
    <3>. QED  BY <1>1, <1>5, <2>2, <3>1, <3>2 DEF SavingPairs, Ours, n
  <2>. QED  BY <2>1, <2>2 DEF Ours
<1>9. LastNumber(s, n + 2, n + 2) /\ s[n + 2].x = (d + 1) - 1 /\ n + 2 \in Nat
  BY <1>3, <1>5 DEF LastNumber
<1>10. SavingPairs'
  <2>1. Len(s) = n + 2
    BY <1>4
  <2>2. PairsIn(stream') = Written'
    BY <1>6, <1>7 DEF s
  <2>3. Ours(stream') /\ LastNumber(stream', n + 2, Len(stream')) /\ stream'[n + 2].x = cursor' - 1
    BY <1>2, <1>8, <1>9, <2>1 DEF s
  <2>. QED  BY <1>1, <1>9, <2>2, <2>3 DEF SavingPairs
<1>. QED  BY <1>1, <1>10 DEF PairInv, SavedOK, ReadingOn

\* rdbSave, the next pair.
LEMMA PairPairs ==
    ASSUME IInv, PairInv, SavePair
    PROVE  PairInv'
<1>1. /\ Saving /\ SavingPairs /\ SavedOK /\ proc = "saving" /\ proc' = "saving" /\ Clean
      /\ UNCHANGED <<dbs, disk, file, cursor, snap>>
  BY DEF SavePair, IInv, PairInv, mem
<1> DEFINE d == cursor - 1
<1>2. PICK k \in left : /\ stream' = stream \o PairFields(k, dbs[d][k])
                        /\ left' = left \ {k}
  BY DEF SavePair, PairFields
<1> DEFINE v == dbs[d][k]
<1> DEFINE n == Len(stream)
<1> DEFINE s == stream'
<1>3. d \in DB /\ k \in DOMAIN dbs[d] /\ cursor > 0 /\ cursor \in Nat
  BY <1>1, DBCountAssumption DEF IInv, RegistersOK, Saving, DB
<1>4. k \in Key /\ v \in Value
  BY <1>1, <1>3, MapFacts DEF Clean
<1> DEFINE p == <<d, k, v>>
<1>5. p \in Pairs /\ p \in PairsOf(dbs) /\ p[1] = d /\ p[2] = k /\ p[3] = v
  BY <1>3, <1>4 DEF Pairs, PairsOf
<1>6. Dump(stream) /\ Open(stream) /\ n \in Nat
  BY <1>1, LenProperties DEF IInv, RegistersOK, Saving, Dump
<1>7. /\ Dump(s) /\ Len(s) = n + 3
      /\ \A i \in 1..n : s[i] = stream[i]
      /\ s[n + 1] = TypeByte("STRING") /\ s[n + 2] = Field("key", k) /\ s[n + 3] = Field("val", v)
  <2>1. s = stream \o PairFields(k, v)
    BY <1>2
  <2> HIDE DEF v
  <2>. QED  BY <1>4, <1>6, <2>1, PairAppended
<1>8. /\ s[n + 1].f = "type" /\ s[n + 2].f = "key" /\ s[n + 2].x = k
      /\ s[n + 3].f = "val" /\ s[n + 3].x = v
  BY <1>7, FieldsWritten DEF TypeBytes
<1>9. PICK h \in Nat : LastNumber(stream, h, n) /\ stream[h].x = d
  BY <1>1, <1>3 DEF SavingPairs
<1>10. LastNumber(s, h, n) /\ s[h].x = d /\ h \in 1..n
  BY <1>7, <1>9 DEF LastNumber
<1> HIDE DEF n, s, d, v, p
<1>11. s[n].f # "key" /\ n \in 1..n
  <2>1. n \in 1..n
    BY <1>6, <1>10
  <2>2. stream # <<>>
    BY <2>1, EmptySeq DEF n
  <2>. QED  BY <1>6, <1>7, <2>1, <2>2, NoKeyAtEnd DEF n
<1>12. PairsIn(s) = Written \cup {p} /\ LastNumber(s, h, n + 3)
  <2>1. PairsIn(s) = Told(s, n + 3) /\ PairsIn(stream) = Told(stream, n)
    BY <1>6, <1>7, ToldAll DEF n
  <2>2. PairAt(s, n, h, p)
    BY <1>5, <1>8, <1>10, <1>11 DEF PairAt
  <2>3. Told(s, n + 3) = Told(s, n) \cup {p} /\ LastNumber(s, h, n + 3)
    BY <1>5, <1>6, <2>2, ToldPair
  <2>4. Told(s, n) = Told(stream, n)
    BY <1>6, <1>7, ToldSame
  <2>. QED  BY <1>1, <2>1, <2>3, <2>4 DEF SavingPairs
<1>13. Written' = Written \cup {p}
  <2>1. Written' = {q \in PairsOf(dbs) : q[1] < d \/ (q[1] = d /\ q[2] \notin left \ {k})}
    BY <1>1, <1>2 DEF Written, PairsOf, d
  <2>2. Written = {q \in PairsOf(dbs) : q[1] < d \/ (q[1] = d /\ q[2] \notin left)}
    BY DEF Written, d
  <2>3. ASSUME NEW q \in PairsOf(dbs), q[1] = d, q[2] = k PROVE q = p
    BY <2>3, <1>5 DEF PairsOf, Pairs, p, v
  <2>4. d \in Nat
    BY <1>3, NumbersOfDatabases
  <2>. QED  BY <1>5, <2>1, <2>2, <2>3, <2>4
<1>14. Ours(s)
  <2>1. s[1].x \in {"SELECTDB", "EOF"}
    <3>1. stream # <<>> /\ s[1] = stream[1]
      BY <1>7, <1>10, EmptySeq DEF n
    <3>. QED  BY <1>1, <3>1 DEF SavingPairs, Ours
  <2>2. ASSUME NEW i \in 1..Len(s), s[i].f = "num" PROVE s[i].x \in DB
    <3>1. i \in 1..n \/ i = n + 1 \/ i = n + 2 \/ i = n + 3
      BY <1>6, <1>7
    <3>2. i \in 1..n => s[i] = stream[i]
      BY <1>7
    <3>. QED  BY <1>1, <1>8, <2>2, <3>1, <3>2 DEF SavingPairs, Ours, n
  <2>. QED  BY <2>1, <2>2 DEF Ours
<1>15. SavingPairs'
  <2>1. PairsIn(stream') = Written' /\ Ours(stream')
    BY <1>12, <1>13, <1>14 DEF s
  <2>2. LastNumber(stream', h, Len(stream')) /\ stream'[h].x = cursor' - 1
    BY <1>1, <1>7, <1>10, <1>12 DEF s, d
  <2>. QED  BY <1>1, <1>9, <2>1, <2>2 DEF SavingPairs
<1>. QED  BY <1>1, <1>15 DEF PairInv, SavedOK, ReadingOn

\* rdbSave, the end: every pair is written, and the file has a part of it.
LEMMA EofPairs ==
    ASSUME IInv, PairInv, SaveEof
    PROVE  PairInv'
<1>1. /\ Saving /\ SavingPairs /\ SavedOK /\ proc = "saving" /\ proc' = "up" /\ left = {}
      /\ UNCHANGED snap /\ \A d \in DB : d >= cursor => dbs[d] = EmptyMap
  BY DEF SaveEof, IInv, PairInv
<1> DEFINE n == Len(stream)
<1>2. /\ Dump(Whole) /\ Len(Whole) = n + 1 /\ n \in Nat
      /\ \A i \in 1..n : Whole[i] = stream[i]
      /\ Whole[n + 1] = TypeByte("EOF")
  BY <1>1, WholeDump
<1>3. PICK m \in 0..Len(Whole) : disk' = [disk EXCEPT ![file] = SubSeq(Whole, 1, m)]
  <2>1. (IF WriteErrors THEN 0 ELSE Len(Whole))..Len(Whole) \subseteq 0..Len(Whole)
    BY <1>2
  <2>. QED  BY <2>1 DEF SaveEof, Whole
<1>4. Dump(stream) /\ Open(stream)
  BY <1>1 DEF IInv, RegistersOK, Saving
<1>5. Whole[n + 1].f = "type" /\ Whole[n + 1].x = "EOF"
  BY <1>2, FieldsWritten DEF TypeBytes
<1> HIDE DEF n
<1>6. PairsIn(Whole) = Written
  <2>1. PairsIn(Whole) = Told(Whole, n + 1) /\ PairsIn(stream) = Told(stream, n)
    BY <1>2, <1>4, ToldAll DEF n
  <2>2. ASSUME NEW i \in 1..((n + 1) - 1), i >= n PROVE Whole[i].f # "key"
    <3>1. i = n /\ n \in 1..n
      BY <1>2, <2>2
    <3>2. stream # <<>>
      BY <3>1, EmptySeq DEF n
    <3>. QED  BY <1>2, <1>4, <3>1, <3>2, NoKeyAtEnd DEF n
  <2>3. Told(Whole, n + 1) = Told(Whole, n)
    BY <1>2, <2>2, ToldMore
  <2>4. Told(Whole, n) = Told(stream, n)
    BY <1>2, ToldSame
  <2>. QED  BY <1>1, <2>1, <2>3, <2>4 DEF SavingPairs
<1>7. Written = PairsOf(dbs)
  <2>1. ASSUME NEW p \in PairsOf(dbs) PROVE p[1] < cursor - 1 \/ (p[1] = cursor - 1 /\ p[2] \notin left)
    <3>1. p[1] \in DB /\ p[1] \in Nat /\ p[2] \in DOMAIN dbs[p[1]]
      BY NumbersOfDatabases DEF PairsOf
    <3>2. ~(p[1] >= cursor)
      BY <1>1, <3>1 DEF EmptyMap
    <3>3. cursor \in Int
      BY DEF IInv, RegistersOK
    <3>. QED  BY <1>1, <3>1, <3>2, <3>3
  <2>. QED  BY <2>1 DEF Written
<1>8. Ours(Whole)
  <2>1. Whole[1].x \in {"SELECTDB", "EOF"}
    <3>1. CASE n = 0
      BY <1>5, <3>1
    <3>2. CASE n > 0
      <4>1. stream # <<>> /\ Whole[1] = stream[1]
        BY <1>2, <3>2, EmptySeq DEF n
      <4>. QED  BY <1>1, <4>1 DEF SavingPairs, Ours
    <3>. QED  BY <1>2, <3>1, <3>2
  <2>2. ASSUME NEW i \in 1..Len(Whole), Whole[i].f = "num" PROVE Whole[i].x \in DB
    <3>1. i \in 1..n \/ i = n + 1
      BY <1>2
    <3>2. i \in 1..n => Whole[i] = stream[i]
      BY <1>2
    <3>. QED  BY <1>1, <1>5, <2>2, <3>1, <3>2 DEF SavingPairs, Ours, n
  <2>. QED  BY <2>1, <2>2 DEF Ours
<1> DEFINE w == SubSeq(Whole, 1, m)
<1>9. Dump(w) /\ Ours(w) /\ Matches(w, dbs)
  <2>1. Dump(w)
    BY <1>2, CutShort
  <2>2. Ours(w) /\ PairsIn(w) \subseteq PairsIn(Whole) /\ (Complete(w) => w = Whole)
    BY <1>2, <1>8, OursCut
  <2>. QED  BY <1>6, <1>7, <2>1, <2>2 DEF Matches
<1> HIDE DEF w
<1>10. /\ disk'[file] = w
       /\ \A g \in File : g # file => disk'[g] = disk[g]
  BY <1>1, <1>3 DEF IInv, FilesOK, Saving, w
<1>11. SavedOK'
  BY <1>1, <1>9, <1>10 DEF SavedOK, SavingPairs
<1>. QED  BY <1>1, <1>11 DEF PairInv, ReadingOn

\* A kill leaves a part of what a save has written.
LEMMA KilledPairs ==
    ASSUME IInv, PairInv, Killed
    PROVE  PairInv'
<1>1. proc' = "killed" /\ UNCHANGED snap
  BY DEF Killed
<1>2. CASE proc # "saving"
  <2>1. UNCHANGED disk
    BY <1>2 DEF Killed
  <2>. QED  BY <1>1, <2>1, CalmStep
<1>3. CASE proc = "saving"
  <2>1. PICK m \in 0..Len(stream) : disk' = [disk EXCEPT ![file] = SubSeq(stream, 1, m)]
    BY <1>3 DEF Killed
  <2>2. Saving /\ SavingPairs /\ SavedOK /\ Dump(stream) /\ Open(stream)
    BY <1>3 DEF IInv, PairInv, RegistersOK, Saving
  <2> DEFINE w == SubSeq(stream, 1, m)
  <2>3. Dump(w)
    BY <2>2, CutShort
  <2>4. Ours(w) /\ PairsIn(w) \subseteq PairsIn(stream) /\ (Complete(w) => w = stream)
    BY <2>2, OursCut DEF SavingPairs
  <2>5. ~Complete(stream)
    <3>1. stream # <<>> => Len(stream) \in 1..Len(stream)
      BY <2>2, EmptySeq DEF Dump
    <3>. QED  BY <2>2, <3>1 DEF Complete, Open, Last
  <2>6. PairsIn(stream) \subseteq PairsOf(dbs)
    BY <2>2 DEF SavingPairs, Written
  <2>7. Matches(w, dbs)
    BY <2>4, <2>5, <2>6 DEF Matches
  <2> HIDE DEF w
  <2>8. /\ disk'[file] = w
        /\ \A g \in File : g # file => disk'[g] = disk[g]
    BY <2>1, <2>2 DEF IInv, FilesOK, Saving, w
  <2>9. SavedOK'
    BY <1>1, <2>2, <2>3, <2>4, <2>7, <2>8 DEF SavedOK, SavingPairs
  <2>. QED  BY <1>1, <2>9 DEF PairInv, ReadingOn
<1>. QED  BY <1>2, <1>3

\* rdbLoad up to its loop: nothing is read, the databases are empty.
LEMMA LoadStartPairs ==
    ASSUME IInv, PairInv, NEW c \in Client, NEW f \in File, LoadStart(c, f)
    PROVE  PairInv'
<1>1. /\ proc' = "loading" /\ dbs' = Nothing /\ pos' = 0 /\ UNCHANGED <<disk, snap>>
  BY DEF LoadStart, ClearAll
<1>2. PairsOf(dbs') = {}
  BY <1>1 DEF PairsOf, Nothing, EmptyMap, Pairs
<1>3. \A content : Told(content, 0) = {}
  BY DEF Told
<1>4. LoadingPairs'
  BY <1>1, <1>2, <1>3 DEF LoadingPairs
<1>. QED  BY <1>1, <1>4 DEF PairInv, SavedOK

\* What a load of a complete dump of this server finds there.
LEMMA ReadingPlace ==
    ASSUME IInv, PairInv, ReadingOn
    PROVE  /\ SavedOK /\ LoadingPairs /\ Ours(disk[file]) /\ Matches(disk[file], snap[file])
           /\ PairsIn(disk[file]) = PairsOf(snap[file])
           /\ HasField(1) /\ disk[file][pos + 1].f = "type"
           /\ pos > 0 => pos \in 1..(Len(disk[file]) - 1) /\ disk[file][pos].f # "key"
           /\ pos = 0 => disk[file][pos + 1].x \in {"SELECTDB", "EOF"}
<1>1. SavedOK /\ LoadingPairs /\ proc = "loading"
  BY DEF PairInv, ReadingOn
<1>2. /\ Ours(disk[file]) /\ Matches(disk[file], snap[file]) /\ file \in File /\ Dump(disk[file])
      /\ pos \in Nat /\ Len(disk[file]) \in Nat /\ Readable(disk[file]) \in 0..Len(disk[file])
  BY <1>1, LoadPlace DEF SavedOK, ReadingOn
<1>3. PairsIn(disk[file]) = PairsOf(snap[file])
  BY <1>2 DEF Matches, ReadingOn
<1>4. HasField(1) /\ disk[file][pos + 1].f = "type"
  <2>1. HasField(1) <=> pos + 1 <= Readable(disk[file])
    BY <1>1, LoadPlace
  <2>2. HasField(1)
    BY <1>2, <2>1 DEF ReadingOn
  <2>. QED  BY <1>1, <2>2, LoadPlace
<1>5. pos > 0 => pos \in 1..(Len(disk[file]) - 1)
  BY <1>2 DEF ReadingOn
<1>6. pos > 0 => disk[file][pos].f # "key"
  BY <1>2, <1>4, <1>5, NotAKeyBefore
<1>7. pos = 0 => disk[file][pos + 1].x \in {"SELECTDB", "EOF"}
  BY <1>2 DEF Ours, ReadingOn, Complete
<1>. QED  BY <1>1, <1>2, <1>3, <1>4, <1>5, <1>6, <1>7

\* A load that goes on after a round of i fields was not at the end before.
LEMMA RoundPairs ==
    ASSUME IInv, PairInv, proc = "loading", UNCHANGED <<disk, snap, file>>,
           NEW i \in Nat \ {0}, Advance(i),
           ReadingOn /\ HasField(i) /\ pos' = pos + i /\ proc' = "loading" => LoadingPairs'
    PROVE  proc' = "loading" => PairInv'
<1>1. ASSUME ReadingOn' PROVE LoadingPairs'
  <2>1. disk'[file'] = disk[file] /\ Readable(disk'[file']) = Readable(disk[file])
    OBVIOUS
  <2>2. pos' < Readable(disk[file]) /\ snap[file] # NULL /\ Complete(disk[file]) /\ proc' = "loading"
    BY <1>1, <2>1 DEF ReadingOn
  <2>3. pos \in Nat /\ Readable(disk[file]) \in Nat
    BY LoadPlace
  <2>4. pos' = IF HasField(i) THEN pos + i ELSE Readable(disk[file])
    BY DEF Advance
  <2>5. HasField(i) /\ pos' = pos + i
    BY <2>2, <2>3, <2>4
  <2>6. ReadingOn
    BY <2>2, <2>3, <2>5 DEF ReadingOn
  <2>. QED  BY <2>2, <2>5, <2>6
<1>. QED  BY <1>1 DEF PairInv, SavedOK

\* rdbLoad, the number of a database.
LEMMA LoadSelectPairs ==
    ASSUME IInv, PairInv, LoadSelect
    PROVE  PairInv'
<1> DEFINE d == ReadField(2, dbnum)
<1> DEFINE c == disk[file]
<1>1. proc = "loading" /\ ReadType = "SELECTDB" /\ UNCHANGED <<dbs, disk, snap>>
  BY DEF LoadSelect, mem
<1>2. CASE OutOfBoundary(d)
  <2>1. proc' = "up"
    BY <1>2 DEF LoadSelect, LoadReturns
  <2>. QED  BY <1>1, <2>1, CalmStep
<1>3. CASE ~OutOfBoundary(d)
  <2>1. cursor' = d /\ Advance(2) /\ proc' = "loading" /\ UNCHANGED file
    BY <1>1, <1>3 DEF LoadSelect
  <2>2. ASSUME ReadingOn, HasField(2), pos' = pos + 2 PROVE LoadingPairs'
    <3>1. /\ LoadingPairs /\ HasField(1) /\ c[pos + 1].f = "type" /\ pos \in Nat
          /\ pos > 0 => c[pos].f # "key"
          /\ Dump(c) /\ Len(c) \in Nat
      BY <1>1, <2>2, ReadingPlace, LoadPlace
    <3>2. pos + 2 \in 1..Len(c) /\ c[pos + 1].x = "SELECTDB" /\ d = c[pos + 2].x
      <4>1. pos + 2 \in 1..Len(c)
        BY <1>1, <2>2, FieldPlace
      <4>2. c[pos + 1].x = "SELECTDB"
        BY <1>1, <3>1, LoadPlace
      <4>. QED  BY <2>2, <4>1, <4>2 DEF ReadField
    <3>3. c[pos + 2].f = "num"
      <4>1. pos + 1 \in 1..(Len(c) - 1) /\ (pos + 1) + 1 = pos + 2 /\ pos + 1 \in 1..Len(c)
        BY <3>1, <3>2
      <4>2. c[pos + 1] \in Fields
        BY <3>1, <4>1, ElementOfSeq DEF Dump
      <4>. QED  BY <3>1, <3>2, <4>1, <4>2, FollowerFacts DEF Dump, WellFormed
    <3> HIDE DEF c, d
    <3>4. Told(c, pos + 2) = Told(c, pos)
      <4>1. ASSUME NEW i \in 1..((pos + 2) - 1), i >= pos PROVE c[i].f # "key"
        <5>1. i = pos + 1 \/ (i = pos /\ pos > 0)
          BY <3>1, <4>1
        <5>. QED  BY <3>1, <5>1
      <4>. QED  BY <3>1, <4>1, ToldMore
    <3>5. LastNumber(c, pos + 2, pos + 2) /\ c[pos + 2].x = d
      BY <3>1, <3>2, <3>3 DEF LastNumber
    <3>6. disk'[file'] = c /\ PairsOf(dbs') = Told(c, pos) /\ pos + 2 \in Nat
      BY <1>1, <2>1, <3>1 DEF LoadingPairs, c
    <3>. QED  BY <2>1, <2>2, <3>4, <3>5, <3>6 DEF LoadingPairs
  <2>. QED  BY <1>1, <2>1, <2>2, RoundPairs
<1>. QED  BY <1>2, <1>3

\* rdbLoad, a pair: a key comes once for each database, as it was a key of a map.
LEMMA LoadPairPairs ==
    ASSUME IInv, PairInv, LoadPair
    PROVE  PairInv'
<1> DEFINE k == ReadField(2, Garbage)
<1> DEFINE v == ReadField(3, Garbage)
<1> DEFINE c == disk[file]
<1>1. /\ proc = "loading" /\ ReadType = "STRING" /\ Advance(3)
      /\ UNCHANGED <<disk, file, cursor, snap>>
  BY DEF LoadPair
<1>2. CASE ~(cursor \in DB /\ backed[cursor])
  <2>1. proc' = "faulted"
    BY <1>2 DEF LoadPair, Fault
  <2>. QED  BY <1>1, <2>1, CalmStep
<1>3. CASE cursor \in DB /\ backed[cursor]
  <2>1. dbs' = [dbs EXCEPT ![cursor] = DictAdd(@, k, v)] /\ proc' = "loading"
    BY <1>1, <1>3 DEF LoadPair
  <2>2. ASSUME ReadingOn, HasField(3), pos' = pos + 3 PROVE LoadingPairs'
    <3>1. /\ LoadingPairs /\ HasField(1) /\ c[pos + 1].f = "type" /\ pos \in Nat
          /\ pos > 0 => c[pos].f # "key"
          /\ Dump(c) /\ Len(c) \in Nat /\ pos + 3 \in 1..Len(c)
          /\ PairsIn(c) = PairsOf(snap[file])
      <4>1. pos \in Nat /\ Dump(c) /\ Len(c) \in Nat
        BY <1>1, LoadPlace
      <4>2. pos + 3 \in 1..Len(c)
        BY <1>1, <2>2, FieldPlace
      <4>. QED  BY <2>2, <4>1, <4>2, ReadingPlace
    <3>2. pos > 0
      <4>1. c[pos + 1].x = "STRING"
        BY <1>1, <3>1, LoadPlace
      <4>2. pos = 0 => c[pos + 1].x \in {"SELECTDB", "EOF"}
        BY <2>2, ReadingPlace
      <4>. QED  BY <3>1, <4>1, <4>2
    <3>3. /\ HasField(2) /\ c[pos + 2] \in Fields /\ c[pos + 2].f = "key"
          /\ c[pos + 3] \in Fields /\ c[pos + 3].f = "val"
          /\ k = c[pos + 2].x /\ v = c[pos + 3].x
      BY <1>1, <2>2, PairPlace DEF ReadField
    <3>4. k \in Key /\ v \in Value
      BY <3>3, FieldFacts
    <3>5. PICK h \in Nat : LastNumber(c, h, pos) /\ c[h].x = cursor
      BY <3>1, <3>2 DEF LoadingPairs
    <3> DEFINE p == <<cursor, k, v>>
    <3>6. p \in Pairs /\ p[1] = cursor /\ p[2] = k /\ p[3] = v
      BY <1>3, <3>4 DEF Pairs
    <3> HIDE DEF c, k, v, p
    <3>7. Told(c, pos + 3) = Told(c, pos) \cup {p} /\ LastNumber(c, h, pos + 3)
      <4>1. PairAt(c, pos, h, p)
        BY <3>1, <3>2, <3>3, <3>5, <3>6 DEF PairAt, c, k, v
      <4>. QED  BY <3>1, <3>6, <4>1, ToldPair
    <3>8. Told(c, pos + 3) \subseteq PairsOf(snap[file])
      <4>1. PairsIn(c) = Told(c, Len(c))
        BY <3>1, ToldAll
      <4>2. pos + 3 \in Nat /\ pos + 3 <= Len(c)
        BY <3>1
      <4>. QED  BY <3>1, <4>1, <4>2, ToldMore
    <3>9. PairsOf(dbs) = Told(c, pos)
      BY <3>1 DEF LoadingPairs, c
    <3>10. dbs \in [DB -> PartialMap]
      BY DEF IInv, MapsOK
    <3>11. ASSUME k \in DOMAIN dbs[cursor] PROVE dbs[cursor][k] = v
      <4>1. dbs[cursor] \in MapsOver(Key \cup {Garbage}, Value \cup {Garbage})
        BY <1>3, <3>10, MapKinds
      <4>2. dbs[cursor][k] \in Value \cup {Garbage}
        BY <3>11, <4>1, MapFacts
      <4>3. <<cursor, k, dbs[cursor][k]>> \in PairsOf(dbs)
        BY <1>3, <3>4, <3>11, <4>2 DEF PairsOf, Pairs
      <4>4. <<cursor, k, dbs[cursor][k]>> \in PairsOf(snap[file]) /\ p \in PairsOf(snap[file])
        BY <4>3, <3>7, <3>8, <3>9
      <4>. QED  BY <4>4, <3>6 DEF PairsOf
    <3>12. PairsOf(dbs') = PairsOf(dbs) \cup {p}
      <4>1. k \in Key \cup {Garbage} /\ v \in Value \cup {Garbage}
        BY <3>4
      <4>2. PairsOf(Added(dbs, cursor, k, v)) = PairsOf(dbs) \cup {<<cursor, k, v>>}
        BY <1>3, <3>10, <3>11, <4>1, PairsAdded
      <4>3. dbs' = Added(dbs, cursor, k, v)
        BY <2>1 DEF k, v, Added
      <4>. QED  BY <4>2, <4>3, Zenon DEF p
    <3>13. disk'[file'] = c
      BY <1>1 DEF c
    <3>. QED  BY <1>1, <2>2, <3>5, <3>7, <3>9, <3>12, <3>13 DEF LoadingPairs
  <2>. QED  BY <1>1, <2>1, <2>2, RoundPairs
<1>. QED  BY <1>2, <1>3

\* rdbLoad, a type byte it does not know.
LEMMA LoadOtherPairs ==
    ASSUME IInv, PairInv, LoadOther
    PROVE  PairInv'
<1> DEFINE c == disk[file]
<1>1. /\ proc = "loading" /\ proc' = "loading" /\ ReadType = "OTHER" /\ Advance(1)
      /\ UNCHANGED <<dbs, disk, file, cursor, snap>>
  BY DEF LoadOther, mem
<1>2. ASSUME ReadingOn, HasField(1), pos' = pos + 1 PROVE LoadingPairs'
  <2>1. /\ LoadingPairs /\ c[pos + 1].f = "type" /\ pos \in Nat
        /\ pos > 0 => c[pos].f # "key"
        /\ c[pos + 1].x = "OTHER"
    BY <1>1, <1>2, ReadingPlace, LoadPlace
  <2>2. pos > 0
    <3>1. pos = 0 => c[pos + 1].x \in {"SELECTDB", "EOF"}
      BY <1>2, ReadingPlace
    <3>. QED  BY <2>1, <3>1
  <2>3. PICK h \in Nat : LastNumber(c, h, pos) /\ c[h].x = cursor
    BY <2>1, <2>2 DEF LoadingPairs
  <2> HIDE DEF c
  <2>4. Told(c, pos + 1) = Told(c, pos)
    <3>1. ASSUME NEW i \in 1..((pos + 1) - 1), i >= pos PROVE c[i].f # "key"
      <4>1. i = pos
        BY <2>1, <3>1
      <4>. QED  BY <2>1, <2>2, <4>1
    <3>. QED  BY <2>1, <3>1, ToldMore
  <2>5. LastNumber(c, h, pos + 1)
    <3>1. ASSUME NEW j \in (h + 1)..(pos + 1) PROVE c[j].f # "num"
      <4>1. j \in (h + 1)..pos \/ j = pos + 1
        BY <2>1
      <4>. QED  BY <2>1, <2>3, <4>1 DEF LastNumber
    <3>2. h \in 1..(pos + 1)
      BY <2>1, <2>3 DEF LastNumber
    <3>. QED  BY <2>3, <3>1, <3>2 DEF LastNumber
  <2>6. disk'[file'] = c /\ PairsOf(dbs') = Told(c, pos)
    BY <1>1, <2>1 DEF LoadingPairs, c
  <2>. QED  BY <1>1, <1>2, <2>3, <2>4, <2>5, <2>6 DEF LoadingPairs
<1>. QED  BY <1>1, <1>2, RoundPairs

\* A client can only start a save or a load.
LEMMA ClientPairs ==
    ASSUME IInv, PairInv, NEW c \in Client, ClientStep(c)
    PROVE  PairInv'
<1>1. CASE \E a \in DOMAIN TempName : SaveStart(c, a)
  BY <1>1, StartPairs
<1>2. CASE \E f \in File : LoadStart(c, f)
  BY <1>2, LoadStartPairs
<1>3. CASE /\ ~ \E a \in DOMAIN TempName : SaveStart(c, a)
           /\ ~ \E f \in File : LoadStart(c, f)
  <2>1. UNCHANGED <<disk, snap>> /\ proc' \notin {"saving", "loading"}
    BY <1>3
    DEF ClientStep, Connect, Disconnect, SelectCommand, SetCommand, DelCommand, GetCommand,
        ShowAllCommand, IllegalCommand, SaveOpenFails, LoadOpenFails, Answer, Command, Fault
  <2>. QED  BY <2>1, CalmStep
<1>. QED  BY <1>1, <1>2, <1>3

\* Nothing happens.
LEMMA StutterPairs ==
    ASSUME PairInv, UNCHANGED vars
    PROVE  PairInv'
<1>1. SavedOK => SavedOK'
  BY DEF SavedOK, vars
<1>2. SavingPairs => SavingPairs'
  <2>1. stream' = stream /\ PairsIn(stream') = PairsIn(stream) /\ Written' = Written
    BY DEF vars, Written, PairsOf
  <2>. QED  BY <2>1 DEF SavingPairs, vars
<1>3. LoadingPairs => LoadingPairs'
  <2>1. disk'[file'] = disk[file] /\ PairsOf(dbs') = PairsOf(dbs) /\ pos' = pos
    BY DEF vars
  <2>. QED  BY <2>1 DEF LoadingPairs, vars
<1>4. ReadingOn' => ReadingOn
  <2>1. disk'[file'] = disk[file] /\ Readable(disk'[file']) = Readable(disk[file])
    BY DEF vars
  <2>. QED  BY <2>1 DEF ReadingOn, vars
<1>. QED  BY <1>1, <1>2, <1>3, <1>4 DEF PairInv, vars

\* Every step keeps the invariant about pairs.
LEMMA NextPairInv ==
    ASSUME IInv, PairInv, [Next]_vars
    PROVE  PairInv'
<1>1. ASSUME NEW c \in Client, ClientStep(c) PROVE PairInv'
  BY <1>1, ClientPairs
<1>2. CASE SaveStep
  BY <1>2, SelectPairs, PairPairs, EofPairs DEF SaveStep
<1>3. CASE LoadEof \/ LoadWildLength \/ Restart
  <2>1. UNCHANGED <<disk, snap>> /\ proc' \notin {"saving", "loading"}
    BY <1>3 DEF LoadEof, LoadWildLength, Restart, LoadReturns, Fault
  <2>. QED  BY <2>1, CalmStep
<1>4. CASE LoadSelect \/ LoadPair \/ LoadOther
  BY <1>4, LoadSelectPairs, LoadPairPairs, LoadOtherPairs
<1>5. CASE Killed
  BY <1>5, KilledPairs
<1>6. CASE UNCHANGED vars
  BY <1>6, StutterPairs
<1>. QED  BY <1>1, <1>2, <1>3, <1>4, <1>5, <1>6 DEF Next, LoadStep

\* Both invariants hold in every reachable state.
LEMMA PairInvariant == Spec => [](IInv /\ PairInv)
<1>1. Init => IInv /\ PairInv
  BY InitIInv, InitPairInv
<1>2. IInv /\ PairInv /\ [Next]_vars => (IInv /\ PairInv)'
  BY NextIInv, NextPairInv
<1>. QED  BY <1>1, <1>2, PTL DEF Spec

\* Whatever a kill leaves of a dump, its pairs are pairs the databases held
\* when the save began, each under its database, and a dump that ends with the
\* EOF byte has all of them (rdbSave, Server.cpp:411-467): for any number of
\* databases, of pairs and of clients, and with a disk that may be full.
THEOREM DumpsMatch == Spec => []DumpMatchesSnapshot
<1>1. PairInv => DumpMatchesSnapshot
  BY DEF PairInv, SavedOK, Matches, DumpMatchesSnapshot
<1>. QED  BY <1>1, PairInvariant, PTL

\* A load of a complete dump that returns has restored exactly the databases
\* of the moment of the save and says so (rdbLoad, Server.cpp:469-523),
\* whatever was done to the databases in between.
THEOREM LoadRestores == Spec => RestoreExact
<1>1. ASSUME IInv, PairInv, Next, proc = "loading", proc' = "up",
             Complete(disk[file]), snap[file] # NULL
      PROVE  dbs' = snap[file] /\ reply' = "load data success!"
  <2> DEFINE c == disk[file]
  <2>1. c # <<>> /\ file \in File /\ Dump(c) /\ Ours(c) /\ Matches(c, snap[file])
    BY <1>1, LoadPlace DEF Complete, PairInv, SavedOK
  <2>2. CASE LoadEof
    <3>1. /\ HasField(1) /\ pos + 1 = Len(c) /\ IsType(c[pos + 1], "EOF")
          /\ pos \in Nat
      BY <1>1, <2>1, <2>2, EofRead, LoadPlace
    <3>2. ReadingOn
      BY <1>1, <3>1, LoadPlace DEF ReadingOn
    <3>3. PairsOf(dbs) = Told(c, pos) /\ (pos > 0 => c[pos].f # "key")
      BY <1>1, <3>2, ReadingPlace DEF LoadingPairs
    <3> HIDE DEF c
    <3>4. Told(c, pos + 1) = Told(c, pos)
      <4>1. ASSUME NEW i \in 1..((pos + 1) - 1), i >= pos PROVE c[i].f # "key"
        <5>1. i = pos /\ pos > 0
          BY <3>1, <4>1
        <5>. QED  BY <3>3, <5>1
      <4>. QED  BY <3>1, <4>1, ToldMore
    <3>5. PairsOf(dbs) = PairsOf(snap[file])
      <4>1. PairsIn(c) = Told(c, pos + 1)
        BY <2>1, <3>1, ToldAll
      <4>2. PairsIn(c) = PairsOf(snap[file])
        BY <1>1, <2>1 DEF Matches, c
      <4>. QED  BY <3>3, <3>4, <4>1, <4>2
    <3>6. dbs = snap[file]
      <4>1. dbs \in [DB -> PartialMap] /\ snap[file] \in [DB -> PartialMap]
        BY <1>1, <2>1 DEF IInv, MapsOK, FilesOK
      <4>. QED  BY <3>5, <4>1, PairsDetermine
    <3>. QED  BY <2>2, <3>6 DEF LoadEof, LoadReturns, mem
  <2>3. CASE ~LoadEof
    <3> DEFINE d == ReadField(2, dbnum)
    <3>1. LoadSelect /\ ReadType = "SELECTDB"
      BY <1>1, <2>3, LoadReturnsBy DEF LoadSelect
    <3>2. OutOfBoundary(d)
      BY <1>1, <3>1 DEF LoadSelect
    <3>3. d \in Int /\ d < DBCount
      <4>1. CASE ~HasField(2)
        BY <1>1, <4>1 DEF IInv, RegistersOK, ReadField
      <4>2. CASE HasField(2)
        <5>1. HasField(1) /\ pos + 2 \in 1..Len(c) /\ pos \in Nat /\ Len(c) \in Nat
          BY <1>1, <4>2, LoadPlace
        <5>2. pos + 1 \in 1..(Len(c) - 1) /\ pos + 1 \in 1..Len(c) /\ (pos + 1) + 1 = pos + 2
          BY <5>1
        <5>3. c[pos + 1] \in Fields /\ c[pos + 1].f = "type" /\ c[pos + 1].x = "SELECTDB"
          BY <1>1, <2>1, <3>1, <5>1, <5>2, LoadPlace, ElementOfSeq DEF Dump
        <5>4. c[pos + 2].f = "num"
          BY <2>1, <5>2, <5>3, FollowerFacts DEF Dump, WellFormed
        <5>5. d = c[pos + 2].x /\ d \in DB
          BY <2>1, <4>2, <5>1, <5>4 DEF ReadField, Ours
        <5> HIDE DEF d
        <5>. QED  BY <5>5, DBCountAssumption DEF DB
      <4>. QED  BY <4>1, <4>2
    <3> HIDE DEF d
    <3>4. DBCount \in Int
      BY DBCountAssumption
    <3>5. ~(d >= DBCount)
      BY <3>3, <3>4
    <3>. QED  BY <3>2, <3>5, Zenon DEF OutOfBoundary
  <2>. QED  BY <2>2, <2>3
<1>2. IInv /\ PairInv /\ [Next]_vars => RestoreExact!1
  BY <1>1 DEF vars
<1>. QED  BY <1>2, PairInvariant, PTL DEF Spec, RestoreExact
=============================================================================
