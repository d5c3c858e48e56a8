-------------------------------- MODULE Query --------------------------------
(***************************************************************************)
(* What the server makes of a line: the scan of readQueryFromClient and    *)
(* the look-up of processInputBuffer, in src/Server/Server.cpp.            *)
(*                                                                         *)
(* The scan is modelled iteration by iteration on lines of a few kinds of  *)
(* characters.  argv belongs to the connection and is never reset: what an *)
(* earlier line left there is STALE.                                       *)
(*                                                                         *)
(* An operator above another whose name it extends is that operator with a *)
(* bug in it; no formula uses it.                                          *)
(***************************************************************************)
EXTENDS Characters, Integers, Sequences, SequencesExt

CONSTANTS
    STALE,
    Arity,          \* blackCommandTable: name -> arity
    MaxLine         \* bound: length of a line

ASSUME ArityAssumption ==
    \A name \in DOMAIN Arity : name \in Seq(Letter) /\ Arity[name] \in 1..3
ASSUME MaxLineAssumption == MaxLine \in Nat
ASSUME MarkerAssumption == NULL \notin Seq(Char) /\ STALE \notin Seq(Char)

VARIABLES
    line,       \* cmd_str, up to its NUL
    pc,         \* "idle", "scan", "third", "lookup", "handler" or "refused"
    i, lastindex, argc,
    argv,       \* the arguments, NULL before the first, STALE from an old line
    flag        \* the line is legal so far

qvars == <<line, pc, i, lastindex, argc, argv, flag>>

QInit ==
    /\ line = <<>>
    /\ pc = "idle"
    /\ i = 0
    /\ lastindex = 0
    /\ argc = 0
    /\ argv = [a \in 0..2 |-> NULL]
    /\ flag = TRUE

len == Len(line)
At(j) == IF j < len THEN line[j + 1] ELSE NUL

\* The characters from..to - 1, counted from 0 as in C.
Between(from, to) == SubSeq(line, from + 1, to)

-----------------------------------------------------------------------------

Lines == BoundedSeq(Char, MaxLine)

\* on_read: a line has arrived.
Receive ==
    /\ pc = "idle"
    /\ line' \in Lines
    /\ pc' = "scan"
    /\ UNCHANGED <<i, lastindex, argc, argv, flag>>

IsDelimiter(c) == c = Blank \/ c = NUL

ScanCharacter ==
    /\ pc = "scan"
    /\ i <= len
    /\ ~IsDelimiter(At(i))
    /\ i' = i + 1
    /\ UNCHANGED <<line, pc, lastindex, argc, argv, flag>>

NextStartOnDelimiter == i
NextStart == i + 1

\* A delimiter ends a word; the scan stops at the second.
ScanWord ==
    /\ pc = "scan"
    /\ i <= len
    /\ IsDelimiter(At(i))
    /\ argv' = [argv EXCEPT ![argc] = Between(lastindex, i)]
    /\ argc' = argc + 1
    /\ lastindex' = NextStart
    /\ IF argc' = 2 THEN pc' = "third" /\ UNCHANGED i
                    ELSE i' = i + 1 /\ UNCHANGED pc
    /\ UNCHANGED <<line, flag>>

ScanEnd ==
    /\ pc = "scan"
    /\ i > len
    /\ pc' = "third"
    /\ UNCHANGED <<line, i, lastindex, argc, argv, flag>>

QuotedFirstOnly == At(i + 1) = Quote
QuotedLastOffByOne == At(i + 1) = Quote /\ At(len) = Quote
Quoted == At(i + 1) = Quote /\ At(len - 1) = Quote

\* Whatever follows the second delimiter is the third argument, and must
\* begin and end with a quote.
Third ==
    /\ pc = "third"
    /\ IF argc = 2 /\ i < len
       THEN /\ argc' = 3
            /\ flag' = Quoted
            /\ argv' = [argv EXCEPT ![2] = Between(i + 1, len)]
       ELSE UNCHANGED <<argc, flag, argv>>
    /\ pc' = IF flag' THEN "lookup" ELSE "refused"
    /\ UNCHANGED <<line, i, lastindex>>

KnownCommandAnyArity == argv[0] \in DOMAIN Arity
KnownCommand == argv[0] \in DOMAIN Arity /\ Arity[argv[0]] = argc

\* processInputBuffer; a refused line is answered with an error.
Lookup ==
    /\ pc = "lookup"
    /\ pc' = IF KnownCommand THEN "handler" ELSE "refused"
    /\ UNCHANGED <<line, i, lastindex, argc, argv, flag>>

\* The callback returns, and its variables are gone; argv stays.
Answered ==
    /\ pc \in {"handler", "refused"}
    /\ argv' = [a \in 0..2 |-> IF argv[a] = NULL THEN NULL ELSE STALE]
    /\ pc' = "idle"
    /\ line' = <<>>
    /\ i' = 0
    /\ lastindex' = 0
    /\ argc' = 0
    /\ flag' = TRUE

Parse == ScanCharacter \/ ScanWord \/ ScanEnd \/ Third \/ Lookup

-----------------------------------------------------------------------------
(* Properties *)

\* A word without blanks.
IsWord(w) == \A j \in 1..Len(w) : w[j] # Blank

\* What a line should be: a name; a name and a word; or a name, a word and
\* anything at all that begins and ends with a quote.
NameOnly(l) == IsWord(l)
NameAndKey(l) ==
    \E j \in 1..Len(l) : l[j] = Blank /\ IsWord(SubSeq(l, 1, j - 1))
                                      /\ IsWord(SubSeq(l, j + 1, Len(l)))
NameKeyAndValue(l) ==
    \E j, k \in 1..Len(l) :
        /\ j < k /\ k < Len(l) /\ l[j] = Blank /\ l[k] = Blank
        /\ IsWord(SubSeq(l, 1, j - 1)) /\ IsWord(SubSeq(l, j + 1, k - 1))
        /\ l[k + 1] = Quote /\ Last(l) = Quote

\* The scan accepts exactly those lines, and counts their arguments; one quote
\* alone passes for both of a pair (Server.cpp:231-260).
ParsesTheGrammar ==
    /\ pc = "lookup" =>
          \/ argc = 1 /\ NameOnly(line)
          \/ argc = 2 /\ NameAndKey(line)
          \/ argc = 3 /\ NameKeyAndValue(line)
    /\ (pc = "refused" /\ ~flag) =>
          ~(NameOnly(line) \/ NameAndKey(line) \/ NameKeyAndValue(line))

\* Nothing of an accepted line is lost, added or moved: its arguments joined
\* with blanks are the line, so a value comes back as it was typed, quotes
\* and blanks included (Server.cpp:235-239, 257-259).
JoinedAgain ==
    pc = "lookup" =>
        line = CASE argc = 1 -> argv[0]
                 [] argc = 2 -> argv[0] \o <<Blank>> \o argv[1]
                 [] argc = 3 -> argv[0] \o <<Blank>> \o argv[1] \o <<Blank>> \o argv[2]

\* A handler runs only on arguments of the line it answers, never on what an
\* earlier line has left in argv (Server.cpp:207; the handlers read as many
\* arguments as the table says).
NoStaleArgument ==
    pc = "handler" => \A a \in 0..(Arity[argv[0]] - 1) : argv[a] \notin {STALE, NULL}
=============================================================================
