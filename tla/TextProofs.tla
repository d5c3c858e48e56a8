------------------------------ MODULE TextProofs ------------------------------
(***************************************************************************)
(* Proofs about Query and Text, for lines of any length, any table of      *)
(* commands and any alphabet: the scan accepts the grammar of its comment, *)
(* loses nothing of a line, and hands no old argument to a handler; what a *)
(* handler passes to the string library is a call of Sds.                  *)
(***************************************************************************)
EXTENDS Text, SdsProofs, SequenceTheorems, TLAPS

-----------------------------------------------------------------------------
(* The inductive invariant of the scan *)

\* Positions are counted from 0, as in C: no blank from..to - 1 of l.
NoBlank(l, from, to) == \A j \in (from + 1)..to : l[j] # Blank

\* The first word of l ends before p, the second, which follows the delimiter
\* at p, before q; argv holds them.
FirstWord(l, a, p) ==
    /\ p \in 0..Len(l)
    /\ NoBlank(l, 0, p)
    /\ p < Len(l) => l[p + 1] = Blank
    /\ a[0] = SubSeq(l, 1, p)
SecondWord(l, a, p, q) ==
    /\ p < Len(l)
    /\ q \in (p + 1)..Len(l)
    /\ NoBlank(l, p + 1, q)
    /\ q < Len(l) => l[q + 1] = Blank
    /\ a[1] = SubSeq(l, p + 2, q)

\* The scan, in its first word, in its second, and behind the only one.
Scanned ==
    \/ /\ argc = 0 /\ lastindex = 0
       /\ i \in 0..len /\ NoBlank(line, 0, i)
    \/ /\ argc = 1 /\ lastindex \in 1..len /\ FirstWord(line, argv, lastindex - 1)
       /\ i \in lastindex..len /\ NoBlank(line, lastindex, i)
    \/ /\ argc = 1 /\ lastindex = len + 1 /\ FirstWord(line, argv, len)
       /\ i = len + 1

OneWord == argc = 1 /\ FirstWord(line, argv, len)
TwoWords == argc = 2 /\ \E p \in 0..len : FirstWord(line, argv, p) /\ SecondWord(line, argv, p, i)
ThreeWords ==
    /\ argc = 3
    /\ \E p \in 0..len : FirstWord(line, argv, p) /\ SecondWord(line, argv, p, i)
    /\ i < len
    /\ argv[2] = SubSeq(line, i + 2, len)

QInv ==
    /\ line \in Seq(Char)
    /\ pc \in {"idle", "scan", "third", "lookup", "handler", "refused"}
    /\ argv \in [0..2 -> Seq(Char) \cup {NULL, STALE}]
    /\ pc = "idle" => i = 0 /\ lastindex = 0 /\ argc = 0 /\ flag = TRUE
    /\ pc = "scan" => Scanned /\ flag = TRUE
    /\ pc = "third" => (OneWord \/ TwoWords) /\ flag = TRUE
    /\ pc \in {"lookup", "handler"} =>
          /\ flag = TRUE
          /\ OneWord \/ (TwoWords /\ i = len) \/ (ThreeWords /\ Quoted)
    /\ pc = "handler" => argv[0] \in DOMAIN Arity /\ Arity[argv[0]] = argc
    /\ (pc = "refused" /\ ~flag) => ThreeWords /\ ~Quoted

-----------------------------------------------------------------------------
(* The parts of a line *)

\* A piece of a line is made of its characters.
LEMMA Piece ==
    ASSUME NEW l \in Seq(Char), NEW m \in Nat \ {0}, NEW n \in Nat, n <= Len(l)
    PROVE  SubSeq(l, m, n) \in Seq(Char)
<1>1. \A j \in m..n : l[j] \in Char
  BY ElementOfSeq, LenProperties
<1>. QED
  BY <1>1, SubSeqProperties

\* The lines a connection may send are sequences of characters.
LEMMA LinesAreSeqs == Lines \subseteq Seq(Char)
<1>. QED
  BY SeqDef, MaxLineAssumption DEF Lines, BoundedSeq, SeqOf

-----------------------------------------------------------------------------
(* Every step keeps QInv *)

\* A new line is read from its first character.
LEMMA ReceiveKeeps ==
    ASSUME QInv, Receive
    PROVE  QInv'
<1>1. line' \in Seq(Char) /\ Len(line') \in Nat
  BY LinesAreSeqs, LenProperties DEF Receive
<1>2. i' = 0 /\ lastindex' = 0 /\ argc' = 0 /\ flag' = TRUE
  BY DEF Receive, QInv
<1>3. Scanned'
  BY <1>1, <1>2 DEF Scanned, NoBlank, len
<1>. QED
  BY <1>1, <1>2, <1>3 DEF Receive, QInv

\* A character that ends no word lengthens the word that is read.
LEMMA ScanCharacterKeeps ==
    ASSUME QInv, ScanCharacter
    PROVE  QInv'
<1>1. line \in Seq(Char) /\ len \in Nat /\ Scanned /\ flag = TRUE
  BY LenProperties DEF ScanCharacter, QInv, len
<1>2. UNCHANGED <<line, pc, lastindex, argc, argv, flag>> /\ i' = i + 1 /\ pc = "scan"
  BY DEF ScanCharacter
<1>3. i < len /\ line[i + 1] # Blank
  BY <1>1 DEF ScanCharacter, IsDelimiter, At
<1>4. Scanned'
  BY <1>1, <1>2, <1>3 DEF Scanned, NoBlank, FirstWord, len
<1>. QED
  BY <1>1, <1>2, <1>4 DEF QInv

\* A blank or the end of the line ends a word (Query.cpp:16-47).
LEMMA ScanWordKeeps ==
    ASSUME QInv, ScanWord
    PROVE  QInv'
<1>. DEFINE w == Between(lastindex, i)
<1>1. /\ line \in Seq(Char) /\ len \in Nat /\ Scanned /\ flag = TRUE
      /\ argv \in [0..2 -> Seq(Char) \cup {NULL, STALE}]
  BY LenProperties DEF ScanWord, QInv, len
<1>2. /\ UNCHANGED <<line, flag>> /\ pc = "scan" /\ i <= len
      /\ argc' = argc + 1 /\ lastindex' = i + 1
      /\ argv' = [argv EXCEPT ![argc] = w]
      /\ IF argc' = 2 THEN pc' = "third" /\ i' = i ELSE i' = i + 1 /\ pc' = "scan"
  BY DEF ScanWord, NextStart
<1>3. ASSUME i < len PROVE line[i + 1] = Blank
  <2>1. i + 1 \in 1..Len(line)
    BY <1>1, <1>3 DEF Scanned, len
  <2>2. line[i + 1] \in Char
    BY <1>1, <2>1, ElementOfSeq
  <2>. QED
    BY <1>3, <2>2, CharacterAssumption DEF ScanWord, IsDelimiter, At
<1>4. w = SubSeq(line, lastindex + 1, i)
  BY DEF Between
<1>5. w \in Seq(Char)
  BY <1>1, <1>2, <1>4, Piece DEF Scanned, len
<1>. HIDE DEF w
<1>6. CASE argc = 0
  <2>1. argv' \in [0..2 -> Seq(Char) \cup {NULL, STALE}] /\ argv'[0] = w
    BY <1>1, <1>2, <1>5, <1>6
  <2>2. /\ lastindex = 0 /\ i \in 0..len /\ NoBlank(line, 0, i)
        /\ w = SubSeq(line, 1, i)
    BY <1>1, <1>4, <1>6 DEF Scanned
  <2>3. FirstWord(line, argv', i)
    BY <1>3, <2>1, <2>2 DEF FirstWord, len
  <2>4. pc' = "scan" /\ argc' = 1 /\ i' = i + 1 /\ lastindex' = i + 1
    BY <1>2, <1>6
  <2>5. Scanned'
    <3>1. CASE i < len
      <4>1. NoBlank(line, i + 1, i + 1)
        BY <2>2 DEF NoBlank
      <4>2. (i + 1) - 1 = i /\ i + 1 \in 1..len /\ i + 1 \in (i + 1)..len
        BY <1>1, <2>2, <3>1
      <4>. QED
        BY <1>2, <2>3, <2>4, <4>1, <4>2 DEF Scanned, len
    <3>2. CASE i = len
      BY <1>2, <2>3, <2>4, <3>2 DEF Scanned, len
    <3>. QED
      BY <1>1, <2>2, <3>1, <3>2
  <2>. QED
    BY <1>1, <1>2, <2>1, <2>4, <2>5 DEF QInv
<1>7. CASE argc = 1
  <2>1. argv' \in [0..2 -> Seq(Char) \cup {NULL, STALE}] /\ argv'[1] = w /\ argv'[0] = argv[0]
    BY <1>1, <1>2, <1>5, <1>7
  <2>2. /\ lastindex \in 1..len /\ FirstWord(line, argv, lastindex - 1)
        /\ i \in lastindex..len /\ NoBlank(line, lastindex, i)
    BY <1>1, <1>2, <1>7 DEF Scanned
  <2>3. FirstWord(line, argv', lastindex - 1)
    BY <2>1, <2>2 DEF FirstWord
  <2>4. SecondWord(line, argv', lastindex - 1, i)
    <3>1. /\ (lastindex - 1) + 1 = lastindex /\ (lastindex - 1) + 2 = lastindex + 1
          /\ lastindex - 1 < len
      BY <1>1, <2>2
    <3>2. (lastindex - 1) + 2 = lastindex + 1 /\ argv'[1] = SubSeq(line, lastindex + 1, i)
      BY <1>4, <2>1, <3>1
    <3>. QED
      BY <1>3, <2>2, <3>1, <3>2 DEF SecondWord, len
  <2>5. pc' = "third" /\ argc' = 2 /\ i' = i
    BY <1>2, <1>7
  <2>6. lastindex - 1 \in 0..len
    BY <1>1, <2>2
  <2>7. TwoWords'
    BY <1>2, <2>3, <2>4, <2>5, <2>6 DEF TwoWords, len
  <2>. QED
    BY <1>1, <1>2, <2>1, <2>5, <2>7 DEF QInv
<1>. QED
  BY <1>1, <1>6, <1>7 DEF Scanned

\* The loop ends behind a line of one word.
LEMMA ScanEndKeeps ==
    ASSUME QInv, ScanEnd
    PROVE  QInv'
<1>1. len \in Nat /\ Scanned /\ flag = TRUE
  BY LenProperties DEF ScanEnd, QInv, len
<1>2. UNCHANGED <<line, i, lastindex, argc, argv, flag>> /\ pc' = "third" /\ i > len
  BY DEF ScanEnd
<1>3. OneWord
  BY <1>1, <1>2 DEF Scanned, OneWord
<1>4. OneWord'
  BY <1>2, <1>3 DEF OneWord, len
<1>. QED
  BY <1>1, <1>2, <1>4 DEF QInv

\* The rest of the line is the third word, if it is quoted.
LEMMA ThirdKeeps ==
    ASSUME QInv, Third
    PROVE  QInv'
<1>1. /\ line \in Seq(Char) /\ len \in Nat /\ (OneWord \/ TwoWords) /\ flag = TRUE
      /\ argv \in [0..2 -> Seq(Char) \cup {NULL, STALE}]
  BY LenProperties DEF Third, QInv, len
<1>2. UNCHANGED <<line, i, lastindex>> /\ pc' = IF flag' THEN "lookup" ELSE "refused"
  BY DEF Third
<1>3. TwoWords => i \in 0..len
  BY <1>1 DEF TwoWords, SecondWord, len
<1>4. CASE argc = 2 /\ i < len
  <2>1. /\ argc' = 3 /\ flag' = Quoted
        /\ argv' = [argv EXCEPT ![2] = SubSeq(line, i + 2, len)]
    <3>1. TwoWords
      BY <1>1, <1>4 DEF OneWord
    <3>2. (i + 1) + 1 = i + 2
      BY <1>3, <3>1
    <3>. QED
      BY <1>4, <3>2 DEF Third, Between
  <2>2. TwoWords /\ i \in Nat
    BY <1>1, <1>3, <1>4 DEF OneWord
  <2>. DEFINE w == SubSeq(line, i + 2, len)
  <2>3. w \in Seq(Char)
    BY <1>1, <2>2, Piece DEF len
  <2>4. w = SubSeq(line, i + 2, len)
    OBVIOUS
  <2>. HIDE DEF w
  <2>5. /\ argv' \in [0..2 -> Seq(Char) \cup {NULL, STALE}]
        /\ argv'[0] = argv[0] /\ argv'[1] = argv[1] /\ argv'[2] = w
    BY <1>1, <2>1, <2>3, <2>4
  <2>6. PICK p \in 0..len : FirstWord(line, argv, p) /\ SecondWord(line, argv, p, i)
    BY <2>2 DEF TwoWords
  <2>7. FirstWord(line, argv', p) /\ SecondWord(line, argv', p, i)
    BY <2>5, <2>6 DEF FirstWord, SecondWord
  <2>8. ThreeWords' /\ Quoted' = Quoted
    BY <1>2, <1>4, <2>1, <2>4, <2>5, <2>6, <2>7 DEF ThreeWords, Quoted, At, len
  <2>9. Quoted \in BOOLEAN
    BY DEF Quoted
  <2>. QED
    BY <1>1, <1>2, <2>1, <2>5, <2>8, <2>9 DEF QInv
<1>5. CASE ~(argc = 2 /\ i < len)
  <2>1. UNCHANGED <<argc, flag, argv>>
    BY <1>5 DEF Third
  <2>2. OneWord \/ (TwoWords /\ i = len)
    BY <1>1, <1>3, <1>5 DEF TwoWords
  <2>3. OneWord' \/ (TwoWords' /\ i' = len')
    BY <1>2, <2>1, <2>2 DEF OneWord, TwoWords, len
  <2>. QED
    BY <1>1, <1>2, <2>1, <2>3 DEF QInv
<1>. QED
  BY <1>4, <1>5

\* Looking up the command changes none of the words.
LEMMA LookupKeeps ==
    ASSUME QInv, Lookup
    PROVE  QInv'
<1>1. /\ UNCHANGED <<line, i, lastindex, argc, argv, flag>> /\ pc = "lookup"
      /\ pc' = IF KnownCommand THEN "handler" ELSE "refused"
  BY DEF Lookup
<1>2. /\ flag = TRUE /\ line \in Seq(Char)
      /\ argv \in [0..2 -> Seq(Char) \cup {NULL, STALE}]
      /\ OneWord \/ (TwoWords /\ i = len) \/ (ThreeWords /\ Quoted)
  BY <1>1 DEF QInv
<1>3. OneWord' \/ (TwoWords' /\ i' = len') \/ (ThreeWords' /\ Quoted')
  BY <1>1, <1>2 DEF OneWord, TwoWords, ThreeWords, Quoted, At, len
<1>4. pc' = "handler" => argv'[0] \in DOMAIN Arity /\ Arity[argv'[0]] = argc'
  BY <1>1 DEF KnownCommand
<1>. QED
  BY <1>1, <1>2, <1>3, <1>4 DEF QInv

\* A line that has been answered is forgotten.
LEMMA AnsweredKeeps ==
    ASSUME QInv, Answered
    PROVE  QInv'
<1>1. /\ pc' = "idle" /\ line' = <<>> /\ i' = 0 /\ lastindex' = 0
      /\ argc' = 0 /\ flag' = TRUE
      /\ argv' \in [0..2 -> Seq(Char) \cup {NULL, STALE}]
  BY DEF Answered
<1>. QED
  BY <1>1, EmptySeq DEF QInv

\* What QInv says, whatever the string library does.
LEMMA InitQInv == QInit => QInv
<1>. QED
  BY EmptySeq DEF QInit, QInv

\* Every step keeps QInv.
LEMMA NextQInv == QInv /\ [TextNext]_allvars => QInv'
<1>. SUFFICES ASSUME QInv, [TextNext]_allvars PROVE QInv'
  OBVIOUS
<1>1. CASE Receive
  BY <1>1, ReceiveKeeps
<1>2. CASE ScanCharacter
  BY <1>2, ScanCharacterKeeps
<1>3. CASE ScanWord
  BY <1>3, ScanWordKeeps
<1>4. CASE ScanEnd
  BY <1>4, ScanEndKeeps
<1>5. CASE Third
  BY <1>5, ThirdKeeps
<1>6. CASE Lookup
  BY <1>6, LookupKeeps
<1>7. CASE Answered
  BY <1>7, AnsweredKeeps
<1>8. CASE UNCHANGED qvars
  BY <1>8 DEF qvars, QInv, Scanned, OneWord, TwoWords, ThreeWords, Quoted, At, len
<1>. QED
  BY <1>1, <1>2, <1>3, <1>4, <1>5, <1>6, <1>7, <1>8
  DEF TextNext, Parse, Handle, allvars

\* Every state keeps what the scan has found out, which no property says while
\* it runs.
THEOREM ScanInvariant == TextSpec => []QInv
<1>1. TextInit => QInv
  BY InitQInv DEF TextInit
<1>. QED
  BY <1>1, NextQInv, PTL DEF TextSpec

-----------------------------------------------------------------------------
(* What an accepted line means *)

\* The length and the characters of a piece of a line.
LEMMA PieceFacts ==
    ASSUME NEW l \in Seq(Char), NEW m \in Nat \ {0}, NEW n \in Nat, n <= Len(l), m <= n + 1
    PROVE  /\ SubSeq(l, m, n) \in Seq(Char)
           /\ Len(SubSeq(l, m, n)) = n - m + 1
           /\ \A j \in 1..(n - m + 1) : SubSeq(l, m, n)[j] = l[m + j - 1]
<1>1. \A j \in m..n : l[j] \in Char
  BY ElementOfSeq, LenProperties
<1>. QED
  BY <1>1, SubSeqProperties

\* A piece without blanks is a word.
LEMMA PieceIsWord ==
    ASSUME NEW l \in Seq(Char), NEW from \in Nat, NEW to \in from..Len(l)
    PROVE  NoBlank(l, from, to) <=> IsWord(SubSeq(l, from + 1, to))
<1>0. /\ Len(l) \in Nat /\ from + 1 \in Nat \ {0} /\ to \in Nat /\ to <= Len(l)
      /\ from + 1 <= to + 1
  BY LenProperties
<1>. DEFINE w == SubSeq(l, from + 1, to)
<1>1. Len(w) = to - (from + 1) + 1 /\ \A j \in 1..(to - (from + 1) + 1) : w[j] = l[(from + 1) + j - 1]
  BY <1>0, PieceFacts
<1>. HIDE DEF w
<1>2. Len(w) = to - from /\ \A j \in 1..(to - from) : w[j] = l[from + j]
  BY <1>0, <1>1
<1>3. ASSUME NoBlank(l, from, to) PROVE IsWord(w)
  BY <1>0, <1>2, <1>3 DEF NoBlank, IsWord
<1>4. ASSUME IsWord(w) PROVE NoBlank(l, from, to)
  <2>. SUFFICES ASSUME NEW j \in (from + 1)..to PROVE l[j] # Blank
    BY DEF NoBlank
  <2>1. j - from \in 1..(to - from) /\ from + (j - from) = j
    BY <1>0
  <2>2. w[j - from] = l[j] /\ w[j - from] # Blank
    BY <1>2, <1>4, <2>1 DEF IsWord
  <2>. QED
    BY <2>2
<1>. QED
  BY <1>3, <1>4 DEF w

\* The kinds of line by where their blanks are, counted from 0.
TwoByBlanks(l) ==
    \E p \in 0..(Len(l) - 1) :
        l[p + 1] = Blank /\ NoBlank(l, 0, p) /\ NoBlank(l, p + 1, Len(l))
ThreeByBlanks(l) ==
    \E p, q \in 0..(Len(l) - 1) :
        /\ p < q /\ q + 1 < Len(l) /\ l[p + 1] = Blank /\ l[q + 1] = Blank
        /\ NoBlank(l, 0, p) /\ NoBlank(l, p + 1, q)
        /\ l[q + 2] = Quote /\ l[Len(l)] = Quote

\* A name alone is a line without blanks.
LEMMA NameOnlyByBlanks ==
    ASSUME NEW l \in Seq(Char)
    PROVE  NameOnly(l) <=> NoBlank(l, 0, Len(l))
<1>. QED
  BY LenProperties DEF NameOnly, NoBlank, IsWord

\* A name and a key are a line with one blank.
LEMMA NameAndKeyByBlanks ==
    ASSUME NEW l \in Seq(Char)
    PROVE  NameAndKey(l) <=> TwoByBlanks(l)
<1>0. Len(l) \in Nat
  BY LenProperties
<1>1. ASSUME NEW p \in 0..(Len(l) - 1)
      PROVE  /\ NoBlank(l, 0, p) <=> IsWord(SubSeq(l, 1, p))
             /\ NoBlank(l, p + 1, Len(l)) <=> IsWord(SubSeq(l, p + 2, Len(l)))
  <2>1. /\ 0 \in Nat /\ p \in 0..Len(l) /\ 0 + 1 = 1
        /\ p + 1 \in Nat /\ Len(l) \in (p + 1)..Len(l) /\ (p + 1) + 1 = p + 2
    BY <1>0, <1>1
  <2>2. NoBlank(l, 0, p) <=> IsWord(SubSeq(l, 0 + 1, p))
    BY <2>1, PieceIsWord
  <2>3. NoBlank(l, p + 1, Len(l)) <=> IsWord(SubSeq(l, (p + 1) + 1, Len(l)))
    BY <2>1, PieceIsWord
  <2>. QED
    BY <2>1, <2>2, <2>3
<1>2. ASSUME NameAndKey(l) PROVE TwoByBlanks(l)
  <2>1. PICK j \in 1..Len(l) : l[j] = Blank /\ IsWord(SubSeq(l, 1, j - 1))
                                            /\ IsWord(SubSeq(l, j + 1, Len(l)))
    BY <1>2 DEF NameAndKey
  <2>2. j - 1 \in 0..(Len(l) - 1) /\ (j - 1) + 1 = j /\ (j - 1) + 2 = j + 1
    BY <1>0
  <2>3. NoBlank(l, 0, j - 1) /\ NoBlank(l, (j - 1) + 1, Len(l))
    BY <1>1, <2>1, <2>2
  <2>. QED
    BY <2>1, <2>2, <2>3 DEF TwoByBlanks
<1>3. ASSUME TwoByBlanks(l) PROVE NameAndKey(l)
  <2>1. PICK p \in 0..(Len(l) - 1) :
              l[p + 1] = Blank /\ NoBlank(l, 0, p) /\ NoBlank(l, p + 1, Len(l))
    BY <1>3 DEF TwoByBlanks
  <2>2. p + 1 \in 1..Len(l) /\ (p + 1) - 1 = p /\ (p + 1) + 1 = p + 2
    BY <1>0
  <2>3. IsWord(SubSeq(l, 1, (p + 1) - 1)) /\ IsWord(SubSeq(l, (p + 1) + 1, Len(l)))
    BY <1>1, <2>1, <2>2
  <2>. QED
    BY <2>1, <2>2, <2>3 DEF NameAndKey
<1>. QED
  BY <1>2, <1>3

\* A name, a key and a quoted value are a line of two words and a text.
LEMMA NameKeyAndValueByBlanks ==
    ASSUME NEW l \in Seq(Char)
    PROVE  NameKeyAndValue(l) <=> ThreeByBlanks(l)
<1>0. Len(l) \in Nat /\ Last(l) = l[Len(l)]
  BY LenProperties DEF Last
<1>1. ASSUME NEW p \in 0..(Len(l) - 1), NEW q \in 0..(Len(l) - 1), p < q
      PROVE  /\ NoBlank(l, 0, p) <=> IsWord(SubSeq(l, 1, p))
             /\ NoBlank(l, p + 1, q) <=> IsWord(SubSeq(l, p + 2, q))
  <2>1. /\ 0 \in Nat /\ p \in 0..Len(l) /\ 0 + 1 = 1
        /\ p + 1 \in Nat /\ q \in (p + 1)..Len(l) /\ (p + 1) + 1 = p + 2
    BY <1>0, <1>1
  <2>2. NoBlank(l, 0, p) <=> IsWord(SubSeq(l, 0 + 1, p))
    BY <2>1, PieceIsWord
  <2>3. NoBlank(l, p + 1, q) <=> IsWord(SubSeq(l, (p + 1) + 1, q))
    BY <2>1, PieceIsWord
  <2>. QED
    BY <2>1, <2>2, <2>3
<1>2. ASSUME NameKeyAndValue(l) PROVE ThreeByBlanks(l)
  <2>1. PICK j \in 1..Len(l), k \in 1..Len(l) :
              /\ j < k /\ k < Len(l) /\ l[j] = Blank /\ l[k] = Blank
              /\ IsWord(SubSeq(l, 1, j - 1)) /\ IsWord(SubSeq(l, j + 1, k - 1))
              /\ l[k + 1] = Quote /\ Last(l) = Quote
    BY <1>2 DEF NameKeyAndValue
  <2>2. /\ j - 1 \in 0..(Len(l) - 1) /\ (j - 1) + 1 = j /\ (j - 1) + 2 = j + 1
        /\ k - 1 \in 0..(Len(l) - 1) /\ (k - 1) + 1 = k /\ (k - 1) + 2 = k + 1
        /\ j - 1 < k - 1
    BY <1>0, <2>1
  <2>3. NoBlank(l, 0, j - 1) /\ NoBlank(l, (j - 1) + 1, k - 1)
    BY <1>1, <2>1, <2>2
  <2>. QED
    BY <1>0, <2>1, <2>2, <2>3 DEF ThreeByBlanks
<1>3. ASSUME ThreeByBlanks(l) PROVE NameKeyAndValue(l)
  <2>1. PICK p \in 0..(Len(l) - 1), q \in 0..(Len(l) - 1) :
              /\ p < q /\ q + 1 < Len(l) /\ l[p + 1] = Blank /\ l[q + 1] = Blank
              /\ NoBlank(l, 0, p) /\ NoBlank(l, p + 1, q)
              /\ l[q + 2] = Quote /\ l[Len(l)] = Quote
    BY <1>3 DEF ThreeByBlanks
  <2>2. /\ p + 1 \in 1..Len(l) /\ (p + 1) - 1 = p /\ (p + 1) + 1 = p + 2
        /\ q + 1 \in 1..Len(l) /\ (q + 1) - 1 = q /\ (q + 1) + 1 = q + 2
        /\ p + 1 < q + 1
    BY <1>0, <2>1
  <2>3. IsWord(SubSeq(l, 1, (p + 1) - 1)) /\ IsWord(SubSeq(l, (p + 1) + 1, (q + 1) - 1))
    BY <1>1, <2>1, <2>2
  <2>. QED
    BY <1>0, <2>1, <2>2, <2>3 DEF NameKeyAndValue
<1>. QED
  BY <1>2, <1>3

\* What the scan has found, by the blanks of the line.
LEMMA AcceptedByBlanks ==
    ASSUME QInv, pc = "lookup"
    PROVE  \/ argc = 1 /\ NoBlank(line, 0, Len(line))
           \/ argc = 2 /\ TwoByBlanks(line)
           \/ argc = 3 /\ ThreeByBlanks(line)
<1>0. /\ line \in Seq(Char) /\ len \in Nat /\ len = Len(line)
      /\ OneWord \/ (TwoWords /\ i = len) \/ (ThreeWords /\ Quoted)
  BY LenProperties DEF QInv, len
<1>1. CASE OneWord
  BY <1>0, <1>1 DEF OneWord, FirstWord
<1>2. CASE TwoWords /\ i = len
  <2>1. PICK p \in 0..len : FirstWord(line, argv, p) /\ SecondWord(line, argv, p, i)
    BY <1>2 DEF TwoWords
  <2>2. p \in 0..(Len(line) - 1) /\ line[p + 1] = Blank
        /\ NoBlank(line, 0, p) /\ NoBlank(line, p + 1, Len(line))
    BY <1>0, <1>2, <2>1 DEF FirstWord, SecondWord
  <2>. QED
    BY <1>2, <2>2 DEF TwoByBlanks, TwoWords
<1>3. CASE ThreeWords /\ Quoted
  <2>1. PICK p \in 0..len : FirstWord(line, argv, p) /\ SecondWord(line, argv, p, i)
    BY <1>3 DEF ThreeWords
  <2>2. /\ p \in 0..(Len(line) - 1) /\ line[p + 1] = Blank
        /\ i \in 0..(Len(line) - 1) /\ p < i /\ line[i + 1] = Blank
        /\ NoBlank(line, 0, p) /\ NoBlank(line, p + 1, i)
    BY <1>0, <1>3, <2>1 DEF FirstWord, SecondWord, ThreeWords
  <2>3. NUL # Quote
    BY CharacterAssumption DEF Char
  <2>4. i + 1 < Len(line) /\ line[i + 2] = Quote
    BY <1>0, <1>3, <2>2, <2>3 DEF Quoted, At
  <2>5. line[Len(line)] = Quote
    BY <1>0, <1>3, <2>2, <2>3 DEF Quoted, At
  <2>. QED
    BY <1>3, <2>2, <2>4, <2>5 DEF ThreeByBlanks, ThreeWords
<1>. QED
  BY <1>0, <1>1, <1>2, <1>3

\* A line that is refused is none of the three.
LEMMA RefusedByBlanks ==
    ASSUME QInv, pc = "refused", ~flag
    PROVE  ~(NoBlank(line, 0, Len(line)) \/ TwoByBlanks(line) \/ ThreeByBlanks(line))
<1>0. /\ line \in Seq(Char) /\ len \in Nat /\ len = Len(line)
      /\ ThreeWords /\ ~Quoted
  BY LenProperties DEF QInv, len
<1>1. PICK p \in 0..len : FirstWord(line, argv, p) /\ SecondWord(line, argv, p, i)
  BY <1>0 DEF ThreeWords
<1>2. /\ p \in 0..(Len(line) - 1) /\ line[p + 1] = Blank
      /\ i \in 0..(Len(line) - 1) /\ p < i /\ line[i + 1] = Blank
      /\ NoBlank(line, 0, p) /\ NoBlank(line, p + 1, i)
  BY <1>0, <1>1 DEF FirstWord, SecondWord, ThreeWords
<1>3. ~NoBlank(line, 0, Len(line))
  BY <1>0, <1>2 DEF NoBlank
<1>4. ~TwoByBlanks(line)
  BY <1>0, <1>2 DEF NoBlank, TwoByBlanks
<1>5. ~ThreeByBlanks(line)
  <2>. SUFFICES ASSUME NEW a \in 0..(Len(line) - 1), NEW b \in 0..(Len(line) - 1),
                       a < b, b + 1 < Len(line), line[a + 1] = Blank, line[b + 1] = Blank,
                       NoBlank(line, 0, a), NoBlank(line, a + 1, b),
                       line[b + 2] = Quote, line[Len(line)] = Quote
                PROVE  FALSE
    BY DEF ThreeByBlanks
  <2>1. a = p
    BY <1>0, <1>2 DEF NoBlank
  <2>2. b = i
    BY <1>0, <1>2, <2>1 DEF NoBlank
  <2>3. Quoted
    BY <1>0, <1>2, <2>2 DEF Quoted, At
  <2>. QED
    BY <1>0, <2>3
<1>. QED
  BY <1>3, <1>4, <1>5

\* The scan accepts exactly the lines of the grammar and counts their
\* arguments, whatever their length (readQueryFromClient).
THEOREM ScanParses == TextSpec => []ParsesTheGrammar
<1>1. QInv => ParsesTheGrammar
  <2>. SUFFICES ASSUME QInv PROVE ParsesTheGrammar
    OBVIOUS
  <2>1. line \in Seq(Char)
    BY DEF QInv
  <2>2. /\ NameOnly(line) <=> NoBlank(line, 0, Len(line))
        /\ NameAndKey(line) <=> TwoByBlanks(line)
        /\ NameKeyAndValue(line) <=> ThreeByBlanks(line)
    BY <2>1, NameOnlyByBlanks, NameAndKeyByBlanks, NameKeyAndValueByBlanks
  <2>. QED
    BY <2>2, AcceptedByBlanks, RefusedByBlanks DEF ParsesTheGrammar
<1>. QED
  BY <1>1, ScanInvariant, PTL

-----------------------------------------------------------------------------
(* What becomes of an accepted line *)

\* A line cut at a blank is its two parts and the blank.
LEMMA CutAtBlank ==
    ASSUME NEW l \in Seq(Char), NEW q \in 0..Len(l), NEW p \in 0..(q - 1), l[p + 1] = Blank
    PROVE  SubSeq(l, 1, q) = SubSeq(l, 1, p) \o <<Blank>> \o SubSeq(l, p + 2, q)
<1>. DEFINE w == SubSeq(l, 1, q)
            a == SubSeq(l, 1, p)
            b == SubSeq(l, p + 2, q)
            gap == <<Blank>>
            ab == a \o gap
            joined == ab \o b
<1>0. Len(l) \in Nat /\ q \in Nat /\ p \in Nat /\ p < q /\ q <= Len(l)
  BY LenProperties
<1>1. /\ w \in Seq(Char) /\ Len(w) = q /\ \A j \in 1..q : w[j] = l[j]
  <2>1. /\ SubSeq(l, 1, q) \in Seq(Char) /\ Len(SubSeq(l, 1, q)) = q - 1 + 1
        /\ \A j \in 1..(q - 1 + 1) : SubSeq(l, 1, q)[j] = l[1 + j - 1]
    BY <1>0, PieceFacts
  <2>. HIDE DEF w
  <2>. QED
    BY <1>0, <2>1 DEF w
<1>2. /\ a \in Seq(Char) /\ Len(a) = p /\ \A j \in 1..p : a[j] = l[j]
  <2>1. /\ SubSeq(l, 1, p) \in Seq(Char) /\ Len(SubSeq(l, 1, p)) = p - 1 + 1
        /\ \A j \in 1..(p - 1 + 1) : SubSeq(l, 1, p)[j] = l[1 + j - 1]
    BY <1>0, PieceFacts
  <2>. QED
    BY <1>0, <2>1
<1>3. /\ b \in Seq(Char) /\ Len(b) = q - p - 1 /\ \A j \in 1..(q - p - 1) : b[j] = l[p + 1 + j]
  <2>1. p + 2 \in Nat \ {0} /\ p + 2 <= q + 1
    BY <1>0
  <2>2. /\ SubSeq(l, p + 2, q) \in Seq(Char) /\ Len(SubSeq(l, p + 2, q)) = q - (p + 2) + 1
        /\ \A j \in 1..(q - (p + 2) + 1) : SubSeq(l, p + 2, q)[j] = l[(p + 2) + j - 1]
    BY <1>0, <2>1, PieceFacts
  <2>. QED
    BY <1>0, <2>2
<1>4. gap \in Seq(Char) /\ Len(gap) = 1 /\ gap[1] = Blank
  BY DEF Char
<1>. HIDE DEF w, a, b, gap
<1>5. /\ ab \in Seq(Char) /\ Len(ab) = p + 1
      /\ \A j \in 1..(p + 1) : ab[j] = l[j]
  <2>1. /\ ab \in Seq(Char) /\ Len(ab) = Len(a) + Len(gap)
        /\ \A j \in 1..(Len(a) + Len(gap)) :
              ab[j] = IF j <= Len(a) THEN a[j] ELSE gap[j - Len(a)]
    BY <1>2, <1>4, ConcatProperties
  <2>. HIDE DEF ab
  <2>. QED
    BY <1>0, <1>2, <1>4, <2>1
<1>. HIDE DEF ab
<1>6. /\ joined \in Seq(Char) /\ Len(joined) = q
      /\ \A j \in 1..q : joined[j] = l[j]
  <2>1. /\ joined \in Seq(Char) /\ Len(joined) = Len(ab) + Len(b)
        /\ \A j \in 1..(Len(ab) + Len(b)) :
              joined[j] = IF j <= Len(ab) THEN ab[j] ELSE b[j - Len(ab)]
    BY <1>3, <1>5, ConcatProperties
  <2>. HIDE DEF joined
  <2>. QED
    BY <1>0, <1>3, <1>5, <2>1
<1>. HIDE DEF joined
<1>7. w = joined
  BY <1>1, <1>6, SeqEqual
<1>. QED
  BY <1>7 DEF w, joined, ab, a, b, gap

\* Nothing of an accepted line is lost, added or moved (readQueryFromClient).
THEOREM ScanLosesNothing == TextSpec => []JoinedAgain
<1>1. ASSUME QInv, pc = "lookup" PROVE JoinedAgain
  <2>0. /\ line \in Seq(Char) /\ len \in Nat /\ len = Len(line)
        /\ OneWord \/ (TwoWords /\ i = len) \/ ThreeWords
    BY <1>1, LenProperties DEF QInv, len
  <2>1. SubSeq(line, 1, len) = line
    BY <2>0, SubSeqFull
  <2>2. CASE OneWord
    BY <2>1, <2>2 DEF OneWord, FirstWord, JoinedAgain
  <2>3. CASE TwoWords /\ i = len
    <3>1. PICK p \in 0..len : FirstWord(line, argv, p) /\ SecondWord(line, argv, p, i)
      BY <2>3 DEF TwoWords
    <3>2. p \in 0..(len - 1) /\ line[p + 1] = Blank /\ len \in 0..Len(line)
      BY <2>0, <3>1 DEF FirstWord, SecondWord
    <3>3. SubSeq(line, 1, len) = SubSeq(line, 1, p) \o <<Blank>> \o SubSeq(line, p + 2, len)
      BY <2>0, <3>2, CutAtBlank
    <3>4. argv[0] = SubSeq(line, 1, p) /\ argv[1] = SubSeq(line, p + 2, len)
      BY <2>3, <3>1 DEF FirstWord, SecondWord
    <3>5. argc = 2
      BY <2>3 DEF TwoWords
    <3>6. line = argv[0] \o <<Blank>> \o argv[1]
      BY <2>1, <3>3, <3>4, Zenon
    <3>7. argc = 2 /\ argc # 1 /\ argc # 3
      BY <3>5
    <3>. QED
      BY <3>6, <3>7, Zenon DEF JoinedAgain
  <2>4. CASE ThreeWords
    <3>1. PICK p \in 0..len : FirstWord(line, argv, p) /\ SecondWord(line, argv, p, i)
      BY <2>4 DEF ThreeWords
    <3>2. /\ i \in 0..Len(line) /\ i \in 0..(len - 1) /\ line[i + 1] = Blank
          /\ p \in 0..(i - 1) /\ line[p + 1] = Blank /\ len \in 0..Len(line)
      BY <2>0, <2>4, <3>1 DEF FirstWord, SecondWord, ThreeWords
    <3>3. SubSeq(line, 1, i) = SubSeq(line, 1, p) \o <<Blank>> \o SubSeq(line, p + 2, i)
      BY <2>0, <3>2, CutAtBlank
    <3>4. SubSeq(line, 1, len) = SubSeq(line, 1, i) \o <<Blank>> \o SubSeq(line, i + 2, len)
      BY <2>0, <3>2, CutAtBlank
    <3>5. /\ argv[0] = SubSeq(line, 1, p) /\ argv[1] = SubSeq(line, p + 2, i)
          /\ argv[2] = SubSeq(line, i + 2, len) /\ argc = 3
      BY <2>4, <3>1 DEF FirstWord, SecondWord, ThreeWords
    <3>6. line = argv[0] \o <<Blank>> \o argv[1] \o <<Blank>> \o argv[2]
      BY <2>1, <3>3, <3>4, <3>5, Zenon
    <3>7. argc = 3 /\ argc # 1 /\ argc # 2
      BY <3>5
    <3>. QED
      BY <3>6, <3>7, Zenon DEF JoinedAgain
  <2>. QED
    BY <2>0, <2>2, <2>3, <2>4
<1>2. QInv => JoinedAgain
  BY <1>1 DEF JoinedAgain
<1>. QED
  BY <1>2, ScanInvariant, PTL

\* The arguments a handler is called with are texts of the line.
LEMMA ArgumentsAreText ==
    ASSUME QInv, pc = "handler"
    PROVE  argc \in 1..3 /\ \A a \in 0..(argc - 1) : argv[a] \in Seq(Char)
<1>0. /\ line \in Seq(Char) /\ len \in Nat /\ len = Len(line)
      /\ OneWord \/ (TwoWords /\ i = len) \/ ThreeWords
  BY LenProperties DEF QInv, len
<1>1. CASE OneWord
  <2>1. argc = 1 /\ argv[0] = SubSeq(line, 1, len)
    BY <1>1 DEF OneWord, FirstWord
  <2>2. argv[0] \in Seq(Char)
    BY <1>0, <2>1, Piece
  <2>3. \A a \in 0..(argc - 1) : a = 0
    BY <2>1
  <2>4. argc \in 1..3
    BY <2>1
  <2>. QED
    BY <2>2, <2>3, <2>4, Zenon
<1>2. CASE argc \in {2, 3} /\ \E p \in 0..len : FirstWord(line, argv, p) /\ SecondWord(line, argv, p, i)
  <2>1. PICK p \in 0..len : FirstWord(line, argv, p) /\ SecondWord(line, argv, p, i)
    BY <1>2
  <2>2. /\ argv[0] = SubSeq(line, 1, p) /\ argv[1] = SubSeq(line, p + 2, i)
        /\ p \in Nat /\ p <= Len(line) /\ p + 2 \in Nat \ {0} /\ i \in Nat /\ i <= Len(line)
    BY <1>0, <2>1 DEF FirstWord, SecondWord
  <2>3. argv[0] \in Seq(Char) /\ argv[1] \in Seq(Char)
    BY <1>0, <2>2, Piece
  <2>4. argc = 3 => argv[2] = SubSeq(line, i + 2, len)
    BY <1>0 DEF OneWord, TwoWords, ThreeWords
  <2>5. argc = 3 => argv[2] \in Seq(Char)
    <3>1. i + 2 \in Nat \ {0} /\ len <= Len(line)
      BY <1>0, <2>2
    <3>. QED
      BY <1>0, <2>4, <3>1, Piece
  <2>. QED
    BY <1>2, <2>3, <2>5
<1>. QED
  BY <1>0, <1>1, <1>2 DEF TwoWords, ThreeWords

\* No handler reads what an earlier line has left in argv (Server.cpp:207),
\* if it reads as many arguments as the table says.
THEOREM HandlersReadTheirLine == TextSpec => []NoStaleArgument
<1>1. QInv => NoStaleArgument
  <2>. SUFFICES ASSUME QInv, pc = "handler", NEW a \in 0..(Arity[argv[0]] - 1)
                PROVE  argv[a] \notin {STALE, NULL}
    BY DEF NoStaleArgument
  <2>1. Arity[argv[0]] = argc
    BY DEF QInv
  <2>2. argv[a] \in Seq(Char)
    BY <2>1, ArgumentsAreText
  <2>. QED
    BY <2>2, MarkerAssumption
<1>. QED
  BY <1>1, ScanInvariant, PTL

-----------------------------------------------------------------------------
(* The parser in front of the string library *)

\* What the handlers do with the arguments of their lines are calls of the
\* library with C strings, and nothing else touches its strings.
THEOREM HandlersCallSds == TextSpec => Spec
<1>1. TextInit => Init
  BY DEF TextInit
<1>2. QInv /\ [TextNext]_allvars => [\E c \in Seq(Char) : Call(c)]_vars
  <2>. SUFFICES ASSUME QInv, [TextNext]_allvars PROVE [\E c \in Seq(Char) : Call(c)]_vars
    OBVIOUS
  <2>1. CASE Handle
    <3>1. PICK c \in Argument : Call(c)
      BY <2>1 DEF Handle
    <3>2. argc \in 1..3 /\ \A a \in 0..(argc - 1) : argv[a] \in Seq(Char)
      BY <2>1, ArgumentsAreText DEF Handle
    <3>3. PICK a \in 1..(argc - 1) : c = argv[a]
      BY DEF Argument
    <3>4. c \in Seq(Char)
      BY <3>2, <3>3
    <3>. QED
      BY <3>1, <3>4
  <2>2. CASE UNCHANGED vars
    BY <2>2
  <2>. QED
    BY <2>1, <2>2 DEF TextNext, allvars
<1>. QED
  BY <1>1, <1>2, ScanInvariant, PTL DEF TextSpec, Spec

\* So the texts of a line are held whole until a block that realloc has moved is
\* overrun, and a block that stayed in place has the room its header promises.
COROLLARY LinesAreHeld == TextSpec => [](RoomAccounted /\ HoldsText)
<1>. QED
  BY HandlersCallSds, RoomIsThere, TextIsHeld, PTL

\* Nor do the handlers make a header lose count of its block, but by clearing it
\* or by a realloc that moves it.
COROLLARY LinesKeepAccount == TextSpec => AccountKept
<1>. QED
  BY HandlersCallSds, AccountLostOnlyByClearAndMove, PTL
=============================================================================
