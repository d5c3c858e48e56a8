----------------------------- MODULE SessionProofs -----------------------------
(***************************************************************************)
(* Proofs about Session, for every number of lines and every number of     *)
(* pieces a message may be cut into: every variable keeps its type, the    *)
(* two programs never wait for each other, lines are executed in order and *)
(* at most once, and one message at a time is under way for as long as     *)
(* reads and messages agree.                                               *)
(***************************************************************************)
EXTENDS Session, SequenceTheorems, TLAPS

\* SomethingInFlight is inductive together with the types.
IInv == TypeOK /\ SomethingInFlight

-----------------------------------------------------------------------------
(* Sequences *)

\* No message at all is a stream, and a queue, of any kind.
LEMMA NothingFacts == \A S : <<>> \in Seq(S)
  BY EmptySeq

\* The fragments of a message: at least one.
LEMMA FragmentsFacts ==
    ASSUME NEW P, NEW x \in P
    PROVE  Fragments(x) \in Seq(Fragment(P)) /\ Fragments(x) # <<>>
  BY PartsAssumption, SMT DEF Fragments, Fragment

\* A message put into a stream: the stream is not empty.
LEMMA JoinFacts ==
    ASSUME NEW S, NEW s \in Seq(S), NEW t \in Seq(S)
    PROVE  s \o t \in Seq(S) /\ (t # <<>> => s \o t # <<>>)
  BY ConcatProperties, EmptySeq, SMT

\* What a read takes off a stream, and what it leaves.
LEMMA ReadFacts ==
    ASSUME NEW S, NEW s \in Seq(S), NEW n \in 1..Len(s)
    PROVE  /\ SubSeq(s, 1, n) \in Seq(S)
           /\ SubSeq(s, 1, n) # <<>>
           /\ SubSeq(s, 1, n)[1] \in S
           /\ SubSeq(s, n + 1, Len(s)) \in Seq(S)
  BY SubSeqProperties, EmptySeq, SMT

\* Lines are appended to a queue and taken off its head.
LEMMA QueueFacts ==
    ASSUME NEW S, NEW q \in Seq(S), NEW x \in S
    PROVE  /\ Append(q, x) \in Seq(S) /\ Append(q, x) # <<>>
           /\ q # <<>> => Head(q) \in S /\ Tail(q) \in Seq(S)
<1>1. Append(q, x) \in Seq(S) /\ Append(q, x) # <<>>
  BY AppendProperties, EmptySeq, SMT
<1>2. q # <<>> => Head(q) \in S /\ Tail(q) \in Seq(S)
  BY HeadTailProperties, SMT
<1>. QED
  BY <1>1, <1>2

-----------------------------------------------------------------------------
(* The steps *)

\* uv_close and the death of the client.
LEMMA CloseKeeps ==
    ASSUME TypeOK, NEW end \in {"fin", "rst"},
           NEW late \in Seq(Fragment(Line)), ClientCloses(end, late), UNCHANGED asked
    PROVE  IInv'
<1>1. toServer' = <<>> \/ toServer' = toServer \o late
  BY DEF ClientCloses
<1>2. toServer' \in Seq(Fragment(Line))
  <2>1. toServer \o late \in Seq(Fragment(Line))
    BY JoinFacts, Zenon DEF TypeOK
  <2>. QED
    BY <1>1, <2>1, NothingFacts, Zenon
<1>. QED
  BY <1>2, NothingFacts DEF ClientCloses, TypeOK, IInv, SomethingInFlight, clientVars, history

\* The server reads a command and queues a reply.
LEMMA OnReadDataKeeps ==
    ASSUME TypeOK, OnReadData
    PROVE  IInv'
<1>1. PICK n \in 1..Len(toServer), buf \in {"stack", "kept"} :
          LET chunk == SubSeq(toServer, 1, n)
              line == IF Whole(chunk) THEN chunk[1].of ELSE MANGLED
          IN  /\ executed' = Append(executed, line)
              /\ AddReply(line, buf)
              /\ Consume(n)
              /\ Disturb(chunk)
  BY DEF OnReadData
<1>. DEFINE chunk == SubSeq(toServer, 1, n)
            line == IF Whole(chunk) THEN chunk[1].of ELSE MANGLED
            reply == [re |-> line, buf |-> buf]
<1>2. /\ chunk[1] \in Fragment(Line)
      /\ SubSeq(toServer, n + 1, Len(toServer)) \in Seq(Fragment(Line))
  BY ReadFacts DEF TypeOK
<1>3. line \in Line \cup {MANGLED}
  <2>1. chunk[1].of \in Line
    BY <1>2 DEF Fragment
  <2>. QED
    BY <2>1
<1>4. /\ executed' = Append(executed, line)
      /\ pending' = Append(pending, reply)
      /\ toServer' = SubSeq(toServer, n + 1, Len(toServer))
      /\ disturbed' \in BOOLEAN
  BY <1>1, Zenon DEF AddReply, Consume, Disturb
<1>5. reply \in [re : Line \cup {MANGLED}, buf : {"stack", "kept"}]
  BY <1>3
<1>. HIDE DEF line, reply
<1>6. /\ executed' \in Seq(Line \cup {MANGLED})
      /\ pending' \in Seq([re : Line \cup {MANGLED}, buf : {"stack", "kept"}])
      /\ pending' # <<>>
  BY <1>3, <1>4, <1>5, QueueFacts, Zenon DEF TypeOK
<1>. QED
  BY <1>2, <1>4, <1>6, Zenon DEF OnReadData, TypeOK, IInv, SomethingInFlight, clientVars

\* libuv sends a reply: it goes from the queue to the stream.
LEMMA SendKeeps ==
    ASSUME TypeOK, Send
    PROVE  IInv'
<1>1. Tail(pending) \in Seq([re : Line \cup {MANGLED}, buf : {"stack", "kept"}])
  <2>1. pending # <<>> /\ pending \in Seq([re : Line \cup {MANGLED}, buf : {"stack", "kept"}])
    BY DEF Send, TypeOK
  <2>. QED
    BY <2>1, HeadTailProperties, Zenon
<1>2. Head(pending).re \in Line \cup {MANGLED}
  <2>1. Head(pending) \in [re : Line \cup {MANGLED}, buf : {"stack", "kept"}]
    BY HeadTailProperties, EmptySeq DEF Send, TypeOK
  <2>. QED
    BY <2>1
<1>3. CASE client = "closed"
  BY <1>1, <1>3 DEF Send, TypeOK, IInv, SomethingInFlight, clientVars, history
<1>4. CASE client # "closed"
  <2>1. PICK text \in {"intact", "garbled"} :
            toClient' = toClient \o Fragments([re |-> Head(pending).re, text |-> text])
    BY <1>4, Zenon DEF Send
  <2>2. [re |-> Head(pending).re, text |-> text] \in Reply
    BY <1>2 DEF Reply
  <2>3. toClient' \in Seq(Fragment(Reply)) /\ toClient' # <<>>
    BY <2>1, <2>2, FragmentsFacts, JoinFacts, Zenon DEF TypeOK
  <2>. QED
    BY <1>1, <1>4, <2>3 DEF Send, TypeOK, IInv, SomethingInFlight, clientVars, history
<1>. QED
  BY <1>3, <1>4

\* libuv sends a line: it goes from the queue to the stream.
LEMMA TransmitKeeps ==
    ASSUME TypeOK, Transmit
    PROVE  IInv'
<1>1. Head(outgoing) \in Line /\ Tail(outgoing) \in Seq(Line)
  BY HeadTailProperties, EmptySeq DEF Transmit, TypeOK
<1>2. CASE handle = "open"
  <2>1. toServer' = toServer \o Fragments(Head(outgoing))
    BY <1>2 DEF Transmit
  <2>2. toServer' \in Seq(Fragment(Line)) /\ toServer' # <<>>
    BY <1>1, <2>1, FragmentsFacts, JoinFacts, Zenon DEF TypeOK
  <2>. QED
    BY <1>1, <1>2, <2>2 DEF Transmit, StartReading, TypeOK, IInv, SomethingInFlight, history
<1>3. CASE handle # "open"
  BY <1>1, <1>3 DEF Transmit, StartReading, TypeOK, IInv, SomethingInFlight, history
<1>. QED
  BY <1>2, <1>3

\* A line is typed: it is queued, or the client ends.
LEMMA TypeKeeps ==
    ASSUME TypeOK, Type
    PROVE  IInv'
<1>1. asked + 1 \in Line /\ asked + 1 \in 0..MaxLines
  BY MaxLinesAssumption DEF Type, TypeOK, Line
<1>2. Append(outgoing, asked + 1) \in Seq(Line) /\ Append(outgoing, asked + 1) # <<>>
  BY <1>1, QueueFacts, Zenon DEF TypeOK
<1>. QED
  BY <1>1, <1>2 DEF Type, TypeOK, IInv, SomethingInFlight, streams, history

\* The client reads an answer, or a part of one, and prompts.
LEMMA EchoReadKeeps ==
    ASSUME TypeOK, EchoRead
    PROVE  IInv'
<1>1. PICK n \in 1..Len(toClient) :
          LET chunk == SubSeq(toClient, 1, n)
          IN  /\ answer' = IF Whole(chunk) THEN chunk[1].of
                           ELSE [re |-> MANGLED, text |-> "intact"]
              /\ toClient' = SubSeq(toClient, n + 1, Len(toClient))
              /\ Prompt(chunk)
              /\ Disturb(chunk)
  BY DEF EchoRead
<1>2. /\ SubSeq(toClient, 1, n)[1] \in Fragment(Reply)
      /\ SubSeq(toClient, n + 1, Len(toClient)) \in Seq(Fragment(Reply))
  BY ReadFacts DEF TypeOK
<1>3. /\ SubSeq(toClient, 1, n)[1].of \in Reply
      /\ [re |-> MANGLED, text |-> "intact"] \in Reply
  BY <1>2 DEF Fragment, Reply
<1>4. /\ answer' \in Reply
      /\ toClient' \in Seq(Fragment(Reply))
      /\ client' = "prompt"
      /\ disturbed' \in BOOLEAN
  BY <1>1, <1>2, <1>3, Zenon DEF Prompt, Disturb
<1>. QED
  BY <1>4 DEF EchoRead, TypeOK, IInv, SomethingInFlight

-----------------------------------------------------------------------------

\* Init makes IInv true and every action keeps it.
THEOREM Invariant == Spec => []IInv
<1>1. Init => IInv
  <2>. SUFFICES ASSUME Init PROVE IInv
    OBVIOUS
  <2>1. 0 \in 0..MaxLines
    BY MaxLinesAssumption
  <2>2. TypeOK
    BY <2>1, NothingFacts, Zenon DEF Init, TypeOK
  <2>3. SomethingInFlight
    BY DEF Init, SomethingInFlight
  <2>. QED
    BY <2>2, <2>3 DEF IInv
<1>2. IInv /\ [Next]_vars => IInv'
  <2>. SUFFICES ASSUME IInv, [Next]_vars PROVE IInv'
    OBVIOUS
  <2>. USE DEF IInv
  <2>1. CASE Connect
    BY <2>1 DEF Connect, TypeOK, SomethingInFlight, streams, history
  <2>2. CASE AcceptFails
    BY <2>2 DEF AcceptFails, TypeOK, SomethingInFlight, history
  <2>3. CASE ConnectFails
    BY <2>3 DEF ConnectFails, TypeOK, SomethingInFlight, streams, history
  <2>4. CASE OnReadData
    BY <2>4, OnReadDataKeeps
  <2>5. CASE OnReadEof
    BY <2>5, NothingFacts DEF OnReadEof, TypeOK, SomethingInFlight, clientVars, history
  <2>6. CASE OnReadError
    BY <2>6, NothingFacts DEF OnReadError, TypeOK, SomethingInFlight, clientVars, streams, history
  <2>7. CASE Send
    BY <2>7, SendKeeps
  <2>8. CASE ServerKilled
    BY <2>8, NothingFacts DEF ServerKilled, TypeOK, SomethingInFlight, clientVars, history
  <2>9. CASE Type
    BY <2>9, TypeKeeps
  <2>10. CASE Quit
    <3>1. asked + 1 \in Line
      BY MaxLinesAssumption DEF TypeOK, Line
    <3>2. Fragments(asked + 1) \in Seq(Fragment(Line)) /\ <<>> \in Seq(Fragment(Line))
      BY <3>1, FragmentsFacts
    <3>. QED
      BY <2>10, <3>2, CloseKeeps DEF Quit
  <2>11. CASE ClientKilled
    BY <2>11, NothingFacts, CloseKeeps DEF ClientKilled
  <2>12. CASE Transmit
    BY <2>12, TransmitKeeps
  <2>13. CASE WriteFails
    BY <2>13, NothingFacts, CloseKeeps DEF WriteFails
  <2>14. CASE EchoRead
    BY <2>14, EchoReadKeeps
  <2>15. CASE EchoReadEnd
    BY <2>15, NothingFacts, CloseKeeps DEF EchoReadEnd
  <2>16. CASE UNCHANGED vars
    BY <2>16 DEF vars, clientVars, streams, history, TypeOK, SomethingInFlight
  <2>. QED
    BY <2>1, <2>2, <2>3, <2>4, <2>5, <2>6, <2>7, <2>8, <2>9, <2>10, <2>11, <2>12,
       <2>13, <2>14, <2>15, <2>16 DEF Next, OnRead, User, ClientLoop
<1>. QED
  BY <1>1, <1>2, PTL DEF Spec

\* Every variable of both programs and of the streams keeps its type.
THEOREM TypeCorrect == Spec => []TypeOK
  BY Invariant, PTL DEF IInv

\* When the client waits on an open connection, there is something for one of
\* the two programs to send or to read, however often messages are split or
\* joined and however many lines are typed.
THEOREM NeverStuck == Spec => []SomethingInFlight
  BY Invariant, PTL DEF IInv

-----------------------------------------------------------------------------
(* The order of lines *)

\* The lines of a stream whose first fragment is in it, of a queue, and those
\* the server has understood.
Begun(s) == {s[j].of : j \in {k \in 1..Len(s) : s[k].part = 1}}
Queued(q) == {q[k] : k \in 1..Len(q)}
Understood(e) == {e[k] : k \in 1..Len(e)} \ {MANGLED}

Below(A, B) == \A a \in A, b \in B : a < b

BegunRising(s) ==
    \A j, k \in 1..Len(s) :
        (j < k /\ s[j].part = 1 /\ s[k].part = 1) => s[j].of < s[k].of
QueuedRising(q) == \A j, k \in 1..Len(q) : j < k => q[j] < q[k]
UnderstoodRising(e) ==
    \A j, k \in 1..Len(e) : (j < k /\ e[j] # MANGLED /\ e[k] # MANGLED) => e[j] < e[k]

\* Lines are executed before those that have begun to arrive, which were
\* typed before those that wait to be sent.
LinesOrdered ==
    /\ UnderstoodRising(executed) /\ BegunRising(toServer) /\ QueuedRising(outgoing)
    /\ Below(Understood(executed), Begun(toServer))
    /\ Below(Understood(executed), Queued(outgoing))
    /\ Below(Begun(toServer), Queued(outgoing))
    /\ Queued(outgoing) \subseteq 1..asked
    /\ client # "closed" =>
          Understood(executed) \subseteq 1..asked /\ Begun(toServer) \subseteq 1..asked

\* An empty stream or queue has nothing out of order.
LEMMA NothingBegun ==
    Begun(<<>>) = {} /\ BegunRising(<<>>) /\ Queued(<<>>) = {} /\ QueuedRising(<<>>)
  BY DEF Begun, BegunRising, Queued, QueuedRising

\* A message that is sent behind all the others.
LEMMA BegunJoin ==
    ASSUME NEW s \in Seq(Fragment(Line)), NEW x \in Line
    PROVE  /\ Begun(s \o Fragments(x)) = Begun(s) \cup {x}
           /\ (BegunRising(s) /\ Below(Begun(s), {x})) => BegunRising(s \o Fragments(x))
<1>. DEFINE t == s \o Fragments(x)
<1>1. /\ Len(s) \in Nat /\ Len(Fragments(x)) = Parts
      /\ \A j \in 1..Parts : Fragments(x)[j].part = j /\ Fragments(x)[j].of = x
  BY PartsAssumption, SMT DEF Fragments
<1>2. /\ Len(t) = Len(s) + Parts
      /\ \A j \in 1..Len(s) : t[j] = s[j]
      /\ \A j \in (Len(s) + 1)..(Len(s) + Parts) : t[j] = Fragments(x)[j - Len(s)]
  <2>1. Fragments(x) \in Seq(Fragment(Line))
    BY FragmentsFacts
  <2>. QED
    BY <1>1, <2>1, ConcatProperties
<1>. HIDE DEF t
<1>3. ASSUME NEW j \in 1..Len(t), t[j].part = 1
      PROVE  (j \in 1..Len(s) /\ t[j] = s[j]) \/ (j = Len(s) + 1 /\ t[j].of = x)
  <2>1. CASE j \in 1..Len(s)
    BY <1>2, <2>1
  <2>2. CASE j \notin 1..Len(s)
    <3>1. j \in (Len(s) + 1)..(Len(s) + Parts) /\ j - Len(s) \in 1..Parts
      BY <1>1, <1>2, <2>2, PartsAssumption
    <3>2. t[j] = Fragments(x)[j - Len(s)]
      BY <1>2, <3>1
    <3>3. t[j].part = j - Len(s) /\ t[j].of = x
      BY <1>1, <3>1, <3>2
    <3>. QED
      BY <1>1, <1>3, <3>3
  <2>. QED
    BY <2>1, <2>2
<1>4. Len(s) + 1 \in 1..Len(t) /\ t[Len(s) + 1].part = 1 /\ t[Len(s) + 1].of = x
  <2>1. /\ Len(s) + 1 \in (Len(s) + 1)..(Len(s) + Parts) /\ (Len(s) + 1) - Len(s) = 1
        /\ Len(s) + 1 \in 1..Len(t) /\ 1 \in 1..Parts
    BY <1>1, <1>2, PartsAssumption
  <2>. QED
    BY <1>1, <1>2, <2>1
<1>5. Begun(t) = Begun(s) \cup {x}
  <2>1. \A j \in 1..Len(s) : j \in 1..Len(t)
    BY <1>1, <1>2, PartsAssumption
  <2>2. Begun(t) \subseteq Begun(s) \cup {x}
    BY <1>3 DEF Begun
  <2>3. Begun(s) \subseteq Begun(t)
    BY <1>2, <2>1 DEF Begun
  <2>4. x \in Begun(t)
    BY <1>4 DEF Begun
  <2>. QED
    BY <2>2, <2>3, <2>4
<1>6. ASSUME BegunRising(s), Below(Begun(s), {x})
      PROVE  BegunRising(t)
  <2>. SUFFICES ASSUME NEW j \in 1..Len(t), NEW k \in 1..Len(t),
                       j < k, t[j].part = 1, t[k].part = 1
                PROVE  t[j].of < t[k].of
    BY DEF BegunRising
  <2>1. CASE k \in 1..Len(s)
    <3>1. j \in 1..Len(s)
      BY <1>1, <1>2, <2>1
    <3>. QED
      BY <1>2, <1>6, <2>1, <3>1 DEF BegunRising
  <2>2. CASE k = Len(s) + 1 /\ t[k].of = x
    <3>1. j \in 1..Len(s) /\ t[j] = s[j]
      BY <1>1, <1>2, <1>3, <2>2
    <3>2. s[j].of \in Begun(s)
      BY <3>1 DEF Begun
    <3>. QED
      BY <1>6, <2>2, <3>1, <3>2 DEF Below
  <2>. QED
    BY <1>3, <2>1, <2>2
<1>. QED
  BY <1>5, <1>6 DEF t

\* A read: what it leaves began after its own first fragment.
LEMMA BegunRead ==
    ASSUME NEW s \in Seq(Fragment(Line)), NEW n \in 1..Len(s), BegunRising(s)
    PROVE  /\ Begun(SubSeq(s, n + 1, Len(s))) \subseteq Begun(s)
           /\ BegunRising(SubSeq(s, n + 1, Len(s)))
           /\ SubSeq(s, 1, n)[1] = s[1] /\ Len(SubSeq(s, 1, n)) = n
           /\ Len(SubSeq(s, n + 1, Len(s))) = Len(s) - n
           /\ s[1].part = 1 =>
                 /\ s[1].of \in Begun(s)
                 /\ Below({s[1].of}, Begun(SubSeq(s, n + 1, Len(s))))
<1>. DEFINE r == SubSeq(s, n + 1, Len(s))
<1>0. Len(s) \in Nat
  BY LenProperties
<1>1. Len(r) = Len(s) - n /\ \A j \in 1..Len(r) : r[j] = s[j + n]
  BY <1>0, SMT
<1>2. SubSeq(s, 1, n)[1] = s[1] /\ Len(SubSeq(s, 1, n)) = n
  BY <1>0, SMT
<1>. HIDE DEF r
<1>3. \A j \in 1..Len(r) : j + n \in 1..Len(s) /\ 1 < j + n
  BY <1>0, <1>1
<1>4. Begun(r) \subseteq Begun(s)
  BY <1>1, <1>3 DEF Begun
<1>5. BegunRising(r)
  <2>. SUFFICES ASSUME NEW j \in 1..Len(r), NEW k \in 1..Len(r),
                       j < k, r[j].part = 1, r[k].part = 1
                PROVE  r[j].of < r[k].of
    BY DEF BegunRising
  <2>1. j + n \in 1..Len(s) /\ k + n \in 1..Len(s) /\ j + n < k + n
    BY <1>0, <1>1
  <2>. QED
    BY <1>1, <2>1 DEF BegunRising
<1>6. 1 \in 1..Len(s)
  BY <1>0
<1>7. ASSUME s[1].part = 1 PROVE s[1].of \in Begun(s) /\ Below({s[1].of}, Begun(r))
  <2>1. s[1].of \in Begun(s)
    BY <1>6, <1>7 DEF Begun
  <2>2. ASSUME NEW j \in 1..Len(r), r[j].part = 1 PROVE s[1].of < r[j].of
    BY <1>1, <1>3, <1>6, <1>7, <2>2 DEF BegunRising
  <2>. QED
    BY <2>1, <2>2 DEF Below, Begun
<1>. QED
  BY <1>1, <1>2, <1>4, <1>5, <1>7 DEF r

\* A line is typed behind all the others.
LEMMA QueuedAppend ==
    ASSUME NEW q \in Seq(Line), NEW x \in Line
    PROVE  /\ Queued(Append(q, x)) = Queued(q) \cup {x}
           /\ (QueuedRising(q) /\ Below(Queued(q), {x})) => QueuedRising(Append(q, x))
<1>. DEFINE t == Append(q, x)
<1>1. /\ Len(q) \in Nat /\ Len(t) = Len(q) + 1
      /\ \A j \in 1..Len(q) : t[j] = q[j]
      /\ t[Len(q) + 1] = x
  BY SMT
<1>. HIDE DEF t
<1>2. \A j \in 1..Len(t) : j \in 1..Len(q) \/ j = Len(q) + 1
  BY <1>1
<1>3. Len(q) + 1 \in 1..Len(t) /\ \A j \in 1..Len(q) : j \in 1..Len(t)
  BY <1>1
<1>4. Queued(t) = Queued(q) \cup {x}
  <2>1. Queued(t) \subseteq Queued(q) \cup {x}
    BY <1>1, <1>2 DEF Queued
  <2>2. Queued(q) \subseteq Queued(t)
    BY <1>1, <1>3 DEF Queued
  <2>3. x \in Queued(t)
    BY <1>1, <1>3 DEF Queued
  <2>. QED
    BY <2>1, <2>2, <2>3
<1>5. ASSUME QueuedRising(q), Below(Queued(q), {x}) PROVE QueuedRising(t)
  <2>. SUFFICES ASSUME NEW j \in 1..Len(t), NEW k \in 1..Len(t), j < k
                PROVE  t[j] < t[k]
    BY DEF QueuedRising
  <2>1. j \in 1..Len(q) /\ q[j] \in Queued(q)
    BY <1>1 DEF Queued
  <2>2. CASE k \in 1..Len(q)
    BY <1>1, <1>5, <2>1, <2>2 DEF QueuedRising
  <2>3. CASE k = Len(q) + 1
    BY <1>1, <1>5, <2>1, <2>3 DEF Below
  <2>. QED
    BY <1>2, <2>2, <2>3
<1>. QED
  BY <1>4, <1>5 DEF t

\* The first line of the queue is sent.
LEMMA QueuedTail ==
    ASSUME NEW q \in Seq(Line), q # <<>>, QueuedRising(q)
    PROVE  /\ Head(q) \in Queued(q)
           /\ Queued(Tail(q)) \subseteq Queued(q)
           /\ Below({Head(q)}, Queued(Tail(q)))
           /\ QueuedRising(Tail(q))
<1>. DEFINE t == Tail(q)
<1>1. /\ Len(q) \in Nat /\ Len(q) # 0 /\ Len(t) = Len(q) - 1
      /\ \A j \in 1..Len(t) : t[j] = q[j + 1]
      /\ Head(q) = q[1]
  BY HeadTailProperties, EmptySeq, SMT
<1>. HIDE DEF t
<1>2. 1 \in 1..Len(q) /\ \A j \in 1..Len(t) : j + 1 \in 1..Len(q) /\ 1 < j + 1
  BY <1>1
<1>3. Head(q) \in Queued(q) /\ Queued(t) \subseteq Queued(q)
  BY <1>1, <1>2 DEF Queued
<1>4. Below({Head(q)}, Queued(t))
  BY <1>1, <1>2 DEF Below, Queued, QueuedRising
<1>5. QueuedRising(t)
  <2>. SUFFICES ASSUME NEW j \in 1..Len(t), NEW k \in 1..Len(t), j < k
                PROVE  t[j] < t[k]
    BY DEF QueuedRising
  <2>1. j + 1 \in 1..Len(q) /\ k + 1 \in 1..Len(q) /\ j + 1 < k + 1
    BY <1>1
  <2>. QED
    BY <1>1, <2>1 DEF QueuedRising
<1>. QED
  BY <1>3, <1>4, <1>5 DEF t

\* The server executes a line later than any before.
LEMMA UnderstoodAppend ==
    ASSUME NEW e \in Seq(Line \cup {MANGLED}), NEW x \in Line \cup {MANGLED},
           UnderstoodRising(e), x # MANGLED => Below(Understood(e), {x})
    PROVE  /\ Understood(Append(e, x)) \subseteq Understood(e) \cup ({x} \ {MANGLED})
           /\ UnderstoodRising(Append(e, x))
<1>. DEFINE t == Append(e, x)
<1>1. /\ Len(e) \in Nat /\ Len(t) = Len(e) + 1
      /\ \A j \in 1..Len(e) : t[j] = e[j]
      /\ t[Len(e) + 1] = x
  BY SMT
<1>. HIDE DEF t
<1>2. \A j \in 1..Len(t) : j \in 1..Len(e) \/ j = Len(e) + 1
  BY <1>1
<1>3. Understood(t) \subseteq Understood(e) \cup ({x} \ {MANGLED})
  BY <1>1, <1>2 DEF Understood
<1>4. UnderstoodRising(t)
  <2>. SUFFICES ASSUME NEW j \in 1..Len(t), NEW k \in 1..Len(t), j < k,
                       t[j] # MANGLED, t[k] # MANGLED
                PROVE  t[j] < t[k]
    BY DEF UnderstoodRising
  <2>1. j \in 1..Len(e) /\ e[j] \in Understood(e) /\ t[j] = e[j]
    <3>1. j \in 1..Len(e)
      BY <1>1
    <3>. QED
      BY <1>1, <3>1 DEF Understood
  <2>2. CASE k \in 1..Len(e)
    BY <1>1, <2>1, <2>2 DEF UnderstoodRising
  <2>3. CASE k = Len(e) + 1
    BY <1>1, <2>1, <2>3 DEF Below
  <2>. QED
    BY <1>2, <2>2, <2>3
<1>. QED
  BY <1>3, <1>4 DEF t
\* What LinesOrdered speaks of is left alone.
LEMMA OrderKept ==
    ASSUME LinesOrdered, UNCHANGED <<executed, outgoing, asked, toServer>>,
           client' # "closed" => client # "closed"
    PROVE  LinesOrdered'
  BY Zenon DEF LinesOrdered

\* Nothing is lost or added but what is under way to the server.
LEMMA OrderLost ==
    ASSUME LinesOrdered, UNCHANGED <<executed, outgoing, asked>>, toServer' = <<>>,
           client' # "closed" => client # "closed"
    PROVE  LinesOrdered'
<1>1. Begun(toServer') = {} /\ BegunRising(toServer')
  BY NothingBegun
<1>. QED
  BY <1>1 DEF LinesOrdered, Below

\* The client is gone: it has sent no more than "quit" behind the rest.
LEMMA OrderClosed ==
    ASSUME TypeOK, LinesOrdered, client # "closed", UNCHANGED <<executed, asked>>,
           client' = "closed", outgoing' = <<>>,
           \/ toServer' \in {<<>>, toServer}
           \/ toServer' = toServer \o Fragments(asked + 1)
    PROVE  LinesOrdered'
<1>0. asked \in Nat
  BY MaxLinesAssumption DEF TypeOK
<1>1. Queued(outgoing') = {} /\ QueuedRising(outgoing')
  BY NothingBegun
<1>2. CASE toServer' = <<>>
  <2>1. Begun(toServer') = {} /\ BegunRising(toServer')
    BY <1>2, NothingBegun
  <2>. QED
    BY <1>1, <2>1 DEF LinesOrdered, Below
<1>3. CASE toServer' = toServer
  BY <1>1, <1>3 DEF LinesOrdered, Below
<1>4. CASE toServer' = toServer \o Fragments(asked + 1)
  <2>1. asked + 1 \in Line
    BY MaxLinesAssumption DEF Line, TypeOK
  <2>2. /\ Below(Begun(toServer), {asked + 1})
        /\ Below(Understood(executed), {asked + 1})
    BY <1>0 DEF LinesOrdered, Below
  <2>3. Begun(toServer') = Begun(toServer) \cup {asked + 1} /\ BegunRising(toServer')
    BY <1>4, <2>1, <2>2, BegunJoin DEF TypeOK, LinesOrdered
  <2>4. Below(Understood(executed), Begun(toServer'))
    BY <2>2, <2>3 DEF LinesOrdered, Below
  <2>. QED
    BY <1>1, <2>3, <2>4 DEF LinesOrdered, Below
<1>. QED
  BY <1>2, <1>3, <1>4

\* The server executes what a read begins with, if it is all there.
LEMMA OnReadDataOrder ==
    ASSUME TypeOK, LinesOrdered, OnReadData
    PROVE  LinesOrdered'
<1>1. PICK n \in 1..Len(toServer) :
          /\ executed' = Append(executed, IF Whole(SubSeq(toServer, 1, n))
                                          THEN SubSeq(toServer, 1, n)[1].of ELSE MANGLED)
          /\ toServer' = SubSeq(toServer, n + 1, Len(toServer))
  BY DEF OnReadData, Consume
<1>. DEFINE line == IF Whole(SubSeq(toServer, 1, n)) THEN toServer[1].of ELSE MANGLED
            rest == SubSeq(toServer, n + 1, Len(toServer))
<1>2. /\ Begun(rest) \subseteq Begun(toServer) /\ BegunRising(rest)
      /\ SubSeq(toServer, 1, n)[1] = toServer[1]
      /\ toServer[1].part = 1 =>
            toServer[1].of \in Begun(toServer) /\ Below({toServer[1].of}, Begun(rest))
  BY BegunRead DEF TypeOK, LinesOrdered
<1>3. toServer[1] \in Fragment(Line)
  BY <1>2, ReadFacts DEF TypeOK
<1>4. /\ line \in Line \cup {MANGLED}
      /\ line # MANGLED => line \in Begun(toServer) /\ Below({line}, Begun(rest))
  <2>1. toServer[1].of \in Line
    BY <1>3 DEF Fragment
  <2>2. Whole(SubSeq(toServer, 1, n)) => toServer[1].part = 1
    BY <1>2 DEF Whole
  <2>. QED
    BY <1>2, <2>1, <2>2
<1>5. executed' = Append(executed, line) /\ toServer' = rest
  BY <1>1, <1>2, Zenon
<1>. HIDE DEF line, rest
<1>6. line # MANGLED => Below(Understood(executed), {line})
  BY <1>4 DEF LinesOrdered, Below
<1>7. /\ Understood(executed') \subseteq Understood(executed) \cup ({line} \ {MANGLED})
      /\ UnderstoodRising(executed')
  BY <1>4, <1>5, <1>6, UnderstoodAppend DEF TypeOK, LinesOrdered
<1>8. Below(Understood(executed'), Begun(toServer'))
  BY <1>2, <1>4, <1>5, <1>7 DEF LinesOrdered, Below
<1>9. Below(Understood(executed'), Queued(outgoing))
  BY <1>4, <1>7 DEF LinesOrdered, Below
<1>10. client # "closed" => /\ Understood(executed') \subseteq 1..asked
                            /\ Begun(toServer') \subseteq 1..asked
  BY <1>2, <1>4, <1>5, <1>7 DEF LinesOrdered
<1>11. Below(Begun(toServer'), Queued(outgoing)) /\ BegunRising(toServer')
  BY <1>2, <1>5 DEF LinesOrdered, Below
<1>12. UNCHANGED <<client, asked, outgoing>>
  BY DEF OnReadData, clientVars
<1>. QED
  BY <1>7, <1>8, <1>9, <1>10, <1>11, <1>12 DEF LinesOrdered

\* libuv sends the line that waits first.
LEMMA TransmitOrder ==
    ASSUME TypeOK, LinesOrdered, client # "closed", Transmit
    PROVE  LinesOrdered'
<1>. DEFINE x == Head(outgoing)
<1>0. /\ outgoing \in Seq(Line) /\ outgoing # <<>> /\ outgoing' = Tail(outgoing)
      /\ UNCHANGED <<client, asked, executed>>
      /\ toServer' = toServer \/ toServer' = toServer \o Fragments(x)
  BY DEF Transmit, TypeOK, history
<1>1. /\ x \in Queued(outgoing)
      /\ Queued(outgoing') \subseteq Queued(outgoing)
      /\ Below({x}, Queued(outgoing'))
      /\ QueuedRising(outgoing')
  BY <1>0, QueuedTail DEF LinesOrdered
<1>2. x \in Line /\ x \in 1..asked
  BY <1>0, <1>1, QueueFacts DEF LinesOrdered
<1>. HIDE DEF x
<1>3. /\ Below(Begun(toServer), {x}) /\ Below(Understood(executed), {x})
  BY <1>1 DEF LinesOrdered, Below
<1>4. /\ BegunRising(toServer') /\ Begun(toServer') \subseteq Begun(toServer) \cup {x}
  <2>1. CASE toServer' = toServer
    BY <2>1 DEF LinesOrdered
  <2>2. CASE toServer' = toServer \o Fragments(x)
    BY <1>2, <1>3, <2>2, BegunJoin DEF TypeOK, LinesOrdered
  <2>. QED
    BY <1>0, <2>1, <2>2
<1>5. Below(Understood(executed), Begun(toServer'))
  BY <1>3, <1>4 DEF LinesOrdered, Below
<1>6. Below(Begun(toServer'), Queued(outgoing'))
  BY <1>1, <1>4 DEF LinesOrdered, Below
<1>7. Below(Understood(executed), Queued(outgoing')) /\ Queued(outgoing') \subseteq 1..asked
  BY <1>1 DEF LinesOrdered, Below
<1>8. Understood(executed) \subseteq 1..asked /\ Begun(toServer') \subseteq 1..asked
  BY <1>2, <1>4 DEF LinesOrdered
<1>. QED
  BY <1>0, <1>1, <1>4, <1>5, <1>6, <1>7, <1>8 DEF LinesOrdered

\* A line is typed.
LEMMA TypeOrder ==
    ASSUME TypeOK, LinesOrdered, Type
    PROVE  LinesOrdered'
<1>. DEFINE x == asked + 1
<1>0. /\ asked \in Nat /\ asked' = x /\ outgoing \in Seq(Line) /\ x \in Line
      /\ client # "closed" /\ UNCHANGED <<toServer, executed>>
      /\ outgoing' = outgoing \/ outgoing' = Append(outgoing, x)
  BY MaxLinesAssumption DEF Type, TypeOK, Line, streams, history
<1>1. 1..asked \subseteq 1..x /\ x \in 1..x /\ Below(1..asked, {x})
  BY <1>0 DEF Below
<1>. HIDE DEF x
<1>2. /\ Below(Queued(outgoing), {x}) /\ Below(Begun(toServer), {x})
      /\ Below(Understood(executed), {x})
  BY <1>0, <1>1 DEF LinesOrdered, Below
<1>3. QueuedRising(outgoing') /\ Queued(outgoing') \subseteq Queued(outgoing) \cup {x}
  <2>1. CASE outgoing' = outgoing
    BY <2>1 DEF LinesOrdered
  <2>2. CASE outgoing' = Append(outgoing, x)
    BY <1>0, <1>2, <2>2, QueuedAppend DEF LinesOrdered
  <2>. QED
    BY <1>0, <2>1, <2>2
<1>4. /\ Below(Understood(executed), Queued(outgoing'))
      /\ Below(Begun(toServer), Queued(outgoing'))
  BY <1>2, <1>3 DEF LinesOrdered, Below
<1>5. /\ Queued(outgoing') \subseteq 1..x
      /\ Understood(executed) \subseteq 1..x /\ Begun(toServer) \subseteq 1..x
  BY <1>0, <1>1, <1>3 DEF LinesOrdered
<1>. QED
  BY <1>0, <1>3, <1>4, <1>5 DEF LinesOrdered

\* Who is connected, and which ends of the streams are closed.
EndsMeanClosed ==
    /\ client = "connecting" => handle = "none"
    /\ toServerEnd # "open" => client = "closed"
    /\ (client = "closed" \/ handle = "none") => outgoing = <<>>

\* Every step keeps the lines in order, and the ends of the streams.
LEMMA OrderKeeps ==
    ASSUME TypeOK, LinesOrdered, EndsMeanClosed, [Next]_vars
    PROVE  LinesOrdered' /\ EndsMeanClosed'
<1>1. ASSUME NEW end, NEW late \in {<<>>, Fragments(asked + 1)}, end \in {"fin", "rst"},
             ClientCloses(end, late), UNCHANGED asked, client # "closed"
      PROVE  LinesOrdered' /\ EndsMeanClosed'
  <2>1. toServer \o <<>> = toServer
    BY ConcatEmptySeq DEF TypeOK
  <2>2. \/ toServer' \in {<<>>, toServer}
        \/ toServer' = toServer \o Fragments(asked + 1)
    BY <1>1, <2>1, Zenon DEF ClientCloses
  <2>3. LinesOrdered'
    BY <1>1, <2>2, OrderClosed DEF ClientCloses, history
  <2>. QED
    BY <1>1, <2>3 DEF EndsMeanClosed, ClientCloses
<1>2. CASE Connect
  BY <1>2, OrderKept DEF Connect, streams, history, EndsMeanClosed
<1>3. CASE AcceptFails
  BY <1>3, OrderKept DEF AcceptFails, history, EndsMeanClosed
<1>4. CASE ConnectFails
  BY <1>4, OrderKept DEF ConnectFails, streams, history, EndsMeanClosed
<1>5. CASE OnReadData
  BY <1>5, OnReadDataOrder DEF OnReadData, clientVars, EndsMeanClosed
<1>6. CASE OnReadEof
  BY <1>6, OrderKept DEF OnReadEof, clientVars, history, EndsMeanClosed
<1>7. CASE OnReadError
  BY <1>7, OrderKept DEF OnReadError, clientVars, streams, history, EndsMeanClosed
<1>8. CASE Send
  <2>1. UNCHANGED <<clientVars, handle, history>> /\ (toServer' = <<>> \/ toServer' = toServer)
        /\ (toServerEnd' = toServerEnd \/ client = "closed")
    BY <1>8 DEF Send
  <2>. QED
    BY <1>8, <2>1, OrderKept, OrderLost DEF clientVars, history, EndsMeanClosed, Send
<1>9. CASE ServerKilled
  BY <1>9, OrderLost DEF ServerKilled, clientVars, history, EndsMeanClosed
<1>10. CASE Type
  BY <1>10, TypeOrder DEF Type, streams, EndsMeanClosed
<1>11. CASE Quit
  BY <1>1, <1>11 DEF Quit
<1>12. CASE ClientKilled
  BY <1>1, <1>12 DEF ClientKilled
<1>13. CASE Transmit
  <2>1. client # "closed"
    BY <1>13 DEF Transmit, EndsMeanClosed
  <2>. QED
    BY <1>13, <2>1, TransmitOrder DEF Transmit, EndsMeanClosed
<1>14. CASE WriteFails
  BY <1>1, <1>14 DEF WriteFails
<1>15. CASE EchoRead
  BY <1>15, OrderKept DEF EchoRead, EndsMeanClosed, Prompt
<1>16. CASE EchoReadEnd
  BY <1>1, <1>16 DEF EchoReadEnd
<1>17. CASE UNCHANGED vars
  BY <1>17, OrderKept DEF vars, clientVars, streams, history, EndsMeanClosed
<1>. QED
  BY <1>2, <1>3, <1>4, <1>5, <1>6, <1>7, <1>8, <1>9, <1>10, <1>11, <1>12, <1>13,
     <1>14, <1>15, <1>16, <1>17 DEF Next, OnRead, User, ClientLoop
-----------------------------------------------------------------------------
(* One message at a time *)

Nothing == outgoing = <<>> /\ toServer = <<>> /\ pending = <<>> /\ toClient = <<>>
Executed(n) == executed = [k \in 1..n |-> k]

\* The stages of a conversation in which every read was one message.
Prompted == Nothing /\ Executed(asked) /\ answer.re = asked
LineQueued ==
    /\ outgoing = <<asked>> /\ toServer = <<>> /\ pending = <<>> /\ toClient = <<>>
    /\ asked # 0 /\ Executed(asked - 1)
LineArrives ==
    /\ outgoing = <<>> /\ toServer = Fragments(asked) /\ pending = <<>> /\ toClient = <<>>
    /\ asked # 0 /\ Executed(asked - 1)
ReplyQueued ==
    /\ outgoing = <<>> /\ toServer = <<>> /\ toClient = <<>>
    /\ \E buf \in {"stack", "kept"} : pending = <<[re |-> asked, buf |-> buf]>>
    /\ Executed(asked)
ReplyArrives ==
    /\ outgoing = <<>> /\ toServer = <<>> /\ pending = <<>>
    /\ \E text \in {"intact", "garbled"} :
          toClient = Fragments([re |-> asked, text |-> text])
    /\ Executed(asked)
Closed ==
    /\ outgoing = <<>> /\ toClient = <<>>
    /\ \/ pending = <<>> /\ Len(toServer) \in {0, Parts}
       \/ Len(pending) = 1 /\ toServer = <<>>

OneAtATime ==
    ~disturbed =>
        /\ client \in {"connecting", "prompt"} => Prompted
        /\ client = "loop" =>
              Nothing \/ LineQueued \/ LineArrives \/ ReplyQueued \/ ReplyArrives
        /\ client = "closed" => Closed

\* A message is never empty.
LEMMA OneFragmentsFacts ==
    ASSUME NEW x
    PROVE  /\ Len(Fragments(x)) = Parts /\ Fragments(x) # <<>>
           /\ Fragments(x)[1] = [of |-> x, part |-> 1]
<1>1. Parts \in Nat /\ 1 \in 1..Parts
  BY PartsAssumption
<1>. QED
  BY <1>1, EmptySeq, SMT DEF Fragments

\* A read of a whole stream leaves nothing.
LEMMA ReadAll ==
    ASSUME NEW S, NEW s \in Seq(S), NEW n \in 1..Len(s)
    PROVE  /\ SubSeq(s, 1, n)[1] = s[1] /\ Len(SubSeq(s, 1, n)) = n
           /\ n = Len(s) => SubSeq(s, n + 1, Len(s)) = <<>>
  BY SubSeqProperties, EmptySeq, SMT

\* A queue of one.
LEMMA OneFacts ==
    ASSUME NEW x
    PROVE  /\ <<x>> # <<>> /\ Head(<<x>>) = x /\ Tail(<<x>>) = <<>> /\ Len(<<x>>) = 1
           /\ Append(<<>>, x) = <<x>>
  BY SMT

\* The client closes.
LEMMA CloseInStep ==
    ASSUME TypeOK, OneAtATime, client # "closed",
           NEW end, NEW late \in {<<>>, Fragments(asked + 1)}, ClientCloses(end, late),
           late # <<>> => client = "prompt"
    PROVE  OneAtATime'
<1>. SUFFICES ASSUME ~disturbed PROVE Closed'
  BY DEF OneAtATime, ClientCloses, history
<1>0. /\ client' = "closed" /\ outgoing' = <<>> /\ toClient' = <<>> /\ pending' = pending
      /\ toServer' = <<>> \/ toServer' = toServer \o late
  BY DEF ClientCloses
<1>1. toServer \in Seq(Fragment(Line)) /\ toServer \o <<>> = toServer
  BY ConcatEmptySeq DEF TypeOK
<1>2. Len(<<>>) = 0
  OBVIOUS
<1>3. CASE client = "loop"
  <2>1. toServer' = <<>> \/ toServer' = toServer
    BY <1>0, <1>1, <1>3
  <2>2. \/ pending = <<>> /\ (toServer = <<>> \/ toServer = Fragments(asked))
        \/ toServer = <<>> /\ \E buf \in {"stack", "kept"} : pending = <<[re |-> asked, buf |-> buf]>>
    BY <1>3 DEF OneAtATime, Nothing, LineQueued, LineArrives, ReplyQueued, ReplyArrives
  <2>3. CASE pending = <<>> /\ (toServer = <<>> \/ toServer = Fragments(asked))
    BY <1>0, <1>2, <2>1, <2>3, OneFragmentsFacts DEF Closed
  <2>4. CASE toServer = <<>> /\ \E buf \in {"stack", "kept"} : pending = <<[re |-> asked, buf |-> buf]>>
    BY <1>0, <2>1, <2>4, OneFacts DEF Closed
  <2>. QED
    BY <2>2, <2>3, <2>4
<1>4. CASE client \in {"connecting", "prompt"}
  <2>1. toServer = <<>> /\ pending = <<>>
    BY <1>4 DEF OneAtATime, Prompted, Nothing
  <2>2. toServer' = <<>> \/ toServer' = <<>> \o Fragments(asked + 1)
    BY <1>0, <1>1, <2>1
  <2>3. <<>> \o Fragments(asked + 1) = Fragments(asked + 1)
    <3>1. Fragments(asked + 1) \in Seq(Fragment(Line \cup {asked + 1}))
      BY FragmentsFacts
    <3>. QED
      BY <3>1, ConcatEmptySeq
  <2>. QED
    BY <1>0, <1>2, <2>1, <2>2, <2>3, OneFragmentsFacts DEF Closed
<1>. QED
  BY <1>3, <1>4 DEF TypeOK

\* The server reads one line.
LEMMA OnReadDataInStep ==
    ASSUME TypeOK, OneAtATime, OnReadData
    PROVE  OneAtATime'
<1>. SUFFICES ASSUME ~disturbed' PROVE OneAtATime'
  BY DEF OneAtATime
<1>1. PICK n \in 1..Len(toServer) : \E buf \in {"stack", "kept"} :
          LET chunk == SubSeq(toServer, 1, n)
              line == IF Whole(chunk) THEN chunk[1].of ELSE MANGLED
          IN  /\ executed' = Append(executed, line)
              /\ AddReply(line, buf)
              /\ Consume(n)
              /\ Disturb(chunk)
  BY DEF OnReadData
<1>2. PICK buf \in {"stack", "kept"} :
          LET chunk == SubSeq(toServer, 1, n)
              line == IF Whole(chunk) THEN chunk[1].of ELSE MANGLED
          IN  /\ executed' = Append(executed, line)
              /\ AddReply(line, buf)
              /\ Consume(n)
              /\ Disturb(chunk)
  BY <1>1
<1>. DEFINE chunk == SubSeq(toServer, 1, n)
<1>3. /\ chunk[1] = toServer[1] /\ Len(chunk) = n
      /\ n = Len(toServer) => SubSeq(toServer, n + 1, Len(toServer)) = <<>>
  BY ReadAll DEF TypeOK
<1>4. ~disturbed /\ OneMessage(chunk)
  BY <1>2, Zenon DEF Disturb
<1>5. Whole(chunk) /\ n = Parts
  BY <1>3, <1>4, PartsAssumption DEF Whole, OneMessage
<1>6. /\ executed' = Append(executed, toServer[1].of)
      /\ pending' = Append(pending, [re |-> toServer[1].of, buf |-> buf])
      /\ toServer' = SubSeq(toServer, n + 1, Len(toServer))
  BY <1>2, <1>3, <1>5, Zenon DEF AddReply, Consume
<1>. HIDE DEF chunk
<1>7. toServer # <<>> /\ UNCHANGED <<client, asked, outgoing, toClient, answer>>
  BY DEF OnReadData, clientVars
<1>8. CASE client \in {"connecting", "prompt"}
  BY <1>4, <1>7, <1>8 DEF OneAtATime, Prompted, Nothing
<1>9. CASE client = "loop"
  <2>1. LineArrives
    BY <1>4, <1>7, <1>9 DEF OneAtATime, Nothing, LineQueued, LineArrives, ReplyQueued, ReplyArrives
  <2>2. toServer[1].of = asked /\ n = Len(toServer)
    <3>1. Len(toServer) = Parts /\ toServer[1] = [of |-> asked, part |-> 1]
      BY <2>1, OneFragmentsFacts, Zenon DEF LineArrives
    <3>. QED
      BY <1>5, <3>1
  <2>3. toServer' = <<>>
    BY <1>3, <1>6, <2>2
  <2>4. pending' = <<[re |-> asked, buf |-> buf]>>
    BY <1>6, <2>1, <2>2, OneFacts DEF LineArrives
  <2>5. executed' = [k \in 1..asked |-> k]
    <3>1. asked \in Nat \ {0} /\ executed = [k \in 1..(asked - 1) |-> k]
      BY <2>1, MaxLinesAssumption DEF LineArrives, Executed, TypeOK
    <3>2. Append([k \in 1..(asked - 1) |-> k], asked) = [k \in 1..asked |-> k]
      BY <3>1, SMT
    <3>. QED
      BY <1>6, <2>2, <3>1, <3>2
  <2>6. ReplyQueued'
    BY <1>7, <2>1, <2>3, <2>4, <2>5 DEF ReplyQueued, LineArrives, Executed
  <2>. QED
    BY <1>7, <1>9, <2>6 DEF OneAtATime
<1>10. CASE client = "closed"
  <2>1. pending = <<>> /\ Len(toServer) = Parts /\ outgoing = <<>> /\ toClient = <<>>
    <3>1. Len(toServer) # 0
      BY <1>7, EmptySeq DEF TypeOK
    <3>. QED
      BY <1>4, <1>7, <1>10, <3>1 DEF OneAtATime, Closed
  <2>2. toServer' = <<>> /\ Len(pending') = 1
    BY <1>3, <1>5, <1>6, <2>1, OneFacts
  <2>. QED
    BY <1>7, <1>10, <2>1, <2>2 DEF OneAtATime, Closed
<1>. QED
  BY <1>8, <1>9, <1>10 DEF TypeOK

\* The reply is sent.
LEMMA SendInStep ==
    ASSUME TypeOK, OneAtATime, Send
    PROVE  OneAtATime'
<1>. SUFFICES ASSUME ~disturbed PROVE OneAtATime'
  BY DEF OneAtATime, Send, history
<1>0. /\ pending # <<>> /\ pending' = Tail(pending)
      /\ UNCHANGED <<client, asked, outgoing, executed, answer, disturbed>>
  BY DEF Send, clientVars, history
<1>1. CASE client \in {"connecting", "prompt"}
  BY <1>0, <1>1 DEF OneAtATime, Prompted, Nothing
<1>2. CASE client = "closed"
  <2>1. toServer' = <<>> /\ toClient' = toClient
    BY <1>2 DEF Send
  <2>2. Len(pending) = 1 /\ outgoing = <<>> /\ toClient = <<>>
    BY <1>0, <1>2 DEF OneAtATime, Closed
  <2>3. Tail(pending) = <<>>
    <3>1. Len(Tail(pending)) = 0 /\ Tail(pending) \in Seq([re : Line \cup {MANGLED}, buf : {"stack", "kept"}])
      BY <1>0, <2>2, HeadTailProperties DEF TypeOK
    <3>. QED
      BY <3>1, EmptySeq
  <2>4. Len(<<>>) = 0
    OBVIOUS
  <2>. QED
    BY <1>0, <1>2, <2>1, <2>2, <2>3, <2>4 DEF OneAtATime, Closed
<1>3. CASE client = "loop"
  <2>1. ReplyQueued
    BY <1>0, <1>3 DEF OneAtATime, Nothing, LineQueued, LineArrives, ReplyQueued, ReplyArrives
  <2>2. PICK buf \in {"stack", "kept"} : pending = <<[re |-> asked, buf |-> buf]>>
    BY <2>1 DEF ReplyQueued
  <2>3. pending' = <<>> /\ Head(pending).re = asked
    BY <1>0, <2>2, OneFacts
  <2>4. PICK text \in {"intact", "garbled"} :
            toClient' = toClient \o Fragments([re |-> asked, text |-> text])
    BY <1>3, <2>3, Zenon DEF Send
  <2>5. toClient' = Fragments([re |-> asked, text |-> text])
    <3>1. Fragments([re |-> asked, text |-> text]) \in
              Seq(Fragment({[re |-> asked, text |-> text]}))
      BY FragmentsFacts
    <3>. QED
      BY <2>1, <2>4, <3>1, ConcatEmptySeq DEF ReplyQueued
  <2>6. toServer' = toServer
    BY <1>3 DEF Send
  <2>7. ReplyArrives'
    BY <1>0, <2>1, <2>3, <2>5, <2>6 DEF ReplyArrives, ReplyQueued, Executed
  <2>. QED
    BY <1>0, <1>3, <2>7 DEF OneAtATime
<1>. QED
  BY <1>1, <1>2, <1>3 DEF TypeOK

\* The line typed last is queued.
LEMMA TypeInStep ==
    ASSUME TypeOK, OneAtATime, Type
    PROVE  OneAtATime'
<1>. SUFFICES ASSUME ~disturbed PROVE OneAtATime'
  BY DEF OneAtATime, Type, history
<1>0. /\ Prompted /\ asked' = asked + 1 /\ asked \in Nat
      /\ UNCHANGED <<toServer, toClient, pending, executed, disturbed>>
  BY MaxLinesAssumption DEF Type, streams, history, OneAtATime, TypeOK
<1>1. CASE handle = "none"
  BY <1>0, <1>1 DEF Type, OneAtATime, Closed, Prompted, Nothing
<1>2. CASE handle # "none"
  <2>1. client' = "loop" /\ outgoing' = <<asked + 1>>
    BY <1>0, <1>2, OneFacts DEF Type, Prompted, Nothing
  <2>2. executed' = [k \in 1..(asked' - 1) |-> k]
    BY <1>0 DEF Prompted, Executed
  <2>3. LineQueued'
    BY <1>0, <2>1, <2>2 DEF LineQueued, Prompted, Nothing, Executed
  <2>. QED
    BY <2>1, <2>3 DEF OneAtATime
<1>. QED
  BY <1>1, <1>2

\* The line is sent.
LEMMA TransmitInStep ==
    ASSUME TypeOK, OneAtATime, Transmit
    PROVE  OneAtATime'
<1>. SUFFICES ASSUME ~disturbed PROVE OneAtATime'
  BY DEF OneAtATime, Transmit, history
<1>0. /\ outgoing # <<>> /\ outgoing' = Tail(outgoing)
      /\ UNCHANGED <<client, asked, pending, executed, answer, disturbed>>
  BY DEF Transmit, history
<1>1. client = "loop"
  BY <1>0 DEF OneAtATime, Prompted, Nothing, Closed, TypeOK
<1>2. LineQueued
  BY <1>0, <1>1 DEF OneAtATime, Nothing, LineQueued, LineArrives, ReplyQueued, ReplyArrives
<1>3. outgoing' = <<>> /\ Head(outgoing) = asked
  BY <1>0, <1>2, OneFacts DEF LineQueued
<1>4. CASE handle = "open"
  <2>1. toServer' = Fragments(asked) /\ toClient' = toClient
    <3>1. Fragments(asked) \in Seq(Fragment({asked}))
      BY FragmentsFacts
    <3>2. toServer' = <<>> \o Fragments(asked) /\ toClient' = toClient
      BY <1>2, <1>3, <1>4 DEF Transmit, LineQueued
    <3>. QED
      BY <3>1, <3>2, ConcatEmptySeq
  <2>2. LineArrives'
    BY <1>0, <1>2, <1>3, <2>1 DEF LineArrives, LineQueued, Executed
  <2>. QED
    BY <1>0, <1>1, <2>2 DEF OneAtATime
<1>5. CASE handle # "open"
  <2>1. Nothing'
    BY <1>0, <1>2, <1>3, <1>5 DEF Transmit, LineQueued, Nothing
  <2>. QED
    BY <1>0, <1>1, <2>1 DEF OneAtATime
<1>. QED
  BY <1>4, <1>5

\* The client reads one answer, and prompts.
LEMMA EchoReadInStep ==
    ASSUME TypeOK, OneAtATime, EchoRead
    PROVE  OneAtATime'
<1>. SUFFICES ASSUME ~disturbed' PROVE OneAtATime'
  BY DEF OneAtATime
<1>1. PICK n \in 1..Len(toClient) :
          LET chunk == SubSeq(toClient, 1, n)
          IN  /\ answer' = IF Whole(chunk) THEN chunk[1].of
                           ELSE [re |-> MANGLED, text |-> "intact"]
              /\ toClient' = SubSeq(toClient, n + 1, Len(toClient))
              /\ Prompt(chunk)
              /\ Disturb(chunk)
  BY DEF EchoRead
<1>. DEFINE chunk == SubSeq(toClient, 1, n)
<1>2. /\ chunk[1] = toClient[1] /\ Len(chunk) = n
      /\ n = Len(toClient) => SubSeq(toClient, n + 1, Len(toClient)) = <<>>
  BY ReadAll DEF TypeOK
<1>3. ~disturbed /\ OneMessage(chunk)
  BY <1>1, Zenon DEF Disturb
<1>4. Whole(chunk) /\ n = Parts
  BY <1>2, <1>3, PartsAssumption DEF Whole, OneMessage
<1>5. answer' = toClient[1].of /\ toClient' = SubSeq(toClient, n + 1, Len(toClient))
      /\ client' = "prompt"
  BY <1>1, <1>2, <1>4, Zenon DEF Prompt
<1>. HIDE DEF chunk
<1>6. /\ toClient # <<>> /\ client = "loop"
      /\ UNCHANGED <<asked, outgoing, toServer, pending, executed>>
  BY DEF EchoRead
<1>7. ReplyArrives
  BY <1>3, <1>6 DEF OneAtATime, Nothing, LineQueued, LineArrives, ReplyQueued, ReplyArrives
<1>8. PICK text \in {"intact", "garbled"} : toClient = Fragments([re |-> asked, text |-> text])
  BY <1>7 DEF ReplyArrives
<1>9. toClient[1].of = [re |-> asked, text |-> text] /\ Len(toClient) = Parts
  <2>1. /\ Len(toClient) = Parts
        /\ toClient[1] = [of |-> [re |-> asked, text |-> text], part |-> 1]
    BY <1>8, OneFragmentsFacts, Zenon
  <2>. QED
    BY <2>1
<1>10. answer'.re = asked /\ toClient' = <<>>
  BY <1>2, <1>4, <1>5, <1>9
<1>11. Prompted'
  BY <1>6, <1>7, <1>10 DEF Prompted, Nothing, ReplyArrives, Executed
<1>. QED
  BY <1>5, <1>11 DEF OneAtATime

\* Every step keeps the stages in their order.
LEMMA InStepKeeps ==
    ASSUME TypeOK, OneAtATime, EndsMeanClosed, [Next]_vars
    PROVE  OneAtATime'
<1>. DEFINE seen == <<client, asked, outgoing, toServer, pending, toClient, executed, answer,
                      disturbed>>
<1>1. ASSUME UNCHANGED seen PROVE OneAtATime'
  BY <1>1 DEF OneAtATime, Prompted, Nothing, LineQueued, LineArrives, ReplyQueued,
              ReplyArrives, Closed, Executed
<1>2. ASSUME UNCHANGED <<asked, outgoing, toServer, pending, toClient, executed, answer, disturbed>>,
             client = "connecting", client' = "prompt"
      PROVE  OneAtATime'
  BY <1>2 DEF OneAtATime, Prompted, Nothing, Executed
<1>3. CASE Connect \/ AcceptFails \/ ConnectFails
  BY <1>2, <1>3 DEF Connect, AcceptFails, ConnectFails, streams, history
<1>4. CASE OnReadData
  BY <1>4, OnReadDataInStep
<1>5. ASSUME UNCHANGED <<client, asked, outgoing, executed, answer, disturbed>>,
             pending' = <<>>, toServer' \in {<<>>, toServer}, toClient' \in {<<>>, toClient}
      PROVE  OneAtATime'
  <2>. SUFFICES ASSUME ~disturbed PROVE OneAtATime'
    BY <1>5 DEF OneAtATime
  <2>1. CASE client \in {"connecting", "prompt"}
    BY <1>5, <2>1 DEF OneAtATime, Prompted, Nothing, Executed
  <2>2. CASE client = "closed"
    <3>1. Len(<<>>) = 0
      OBVIOUS
    <3>. QED
      BY <1>5, <2>2, <3>1 DEF OneAtATime, Closed
  <2>3. CASE client = "loop"
    <3>1. CASE Nothing
      BY <1>5, <2>3, <3>1 DEF OneAtATime, Nothing
    <3>2. CASE LineQueued
      BY <1>5, <2>3, <3>2 DEF OneAtATime, LineQueued, Executed
    <3>3. CASE LineArrives
      BY <1>5, <2>3, <3>3 DEF OneAtATime, LineArrives, Nothing, Executed
    <3>4. CASE ReplyQueued
      BY <1>5, <2>3, <3>4 DEF OneAtATime, ReplyQueued, Nothing
    <3>5. CASE ReplyArrives
      BY <1>5, <2>3, <3>5 DEF OneAtATime, ReplyArrives, Nothing, Executed
    <3>. QED
      BY <2>3, <3>1, <3>2, <3>3, <3>4, <3>5 DEF OneAtATime
  <2>. QED
    BY <2>1, <2>2, <2>3 DEF TypeOK
<1>6. CASE OnReadEof
  BY <1>5, <1>6 DEF OnReadEof, clientVars, history
<1>7. CASE OnReadError
  BY <1>5, <1>7 DEF OnReadError, clientVars, streams, history
<1>8. CASE Send
  BY <1>8, SendInStep
<1>9. CASE ServerKilled
  BY <1>5, <1>9 DEF ServerKilled, clientVars, history
<1>10. CASE Type
  BY <1>10, TypeInStep
<1>11. CASE Quit
  BY <1>11, CloseInStep DEF Quit
<1>12. CASE ClientKilled
  BY <1>12, CloseInStep DEF ClientKilled
<1>13. CASE Transmit
  BY <1>13, TransmitInStep
<1>14. CASE WriteFails
  BY <1>14, CloseInStep DEF WriteFails
<1>15. CASE EchoRead
  BY <1>15, EchoReadInStep
<1>16. CASE EchoReadEnd
  BY <1>16, CloseInStep DEF EchoReadEnd
<1>17. CASE UNCHANGED vars
  BY <1>1, <1>17 DEF vars, clientVars, streams, history
<1>. QED
  BY <1>3, <1>4, <1>6, <1>7, <1>8, <1>9, <1>10, <1>11, <1>12, <1>13, <1>14, <1>15,
     <1>16, <1>17 DEF Next, OnRead, User, ClientLoop

-----------------------------------------------------------------------------

\* The order of lines and the stages of a conversation are inductive with the
\* types.
OrderInv == LinesOrdered /\ EndsMeanClosed /\ OneAtATime

\* Init makes OrderInv true and every action keeps it.
THEOREM OrderInvariant == Spec => []OrderInv
<1>1. Init => OrderInv
  <2>. SUFFICES ASSUME Init PROVE OrderInv
    OBVIOUS
  <2>1. Understood(<<>>) = {} /\ UnderstoodRising(<<>>)
    BY DEF Understood, UnderstoodRising
  <2>2. LinesOrdered
    BY <2>1, NothingBegun DEF Init, LinesOrdered, Below
  <2>3. EndsMeanClosed
    BY DEF Init, EndsMeanClosed
  <2>4. <<>> = [k \in 1..0 |-> k]
    BY SMT
  <2>5. OneAtATime
    BY <2>4 DEF Init, OneAtATime, Prompted, Nothing, Executed, NoAnswer
  <2>. QED
    BY <2>2, <2>3, <2>5 DEF OrderInv
<1>2. IInv /\ OrderInv /\ [Next]_vars => OrderInv'
  BY OrderKeeps, InStepKeeps DEF IInv, OrderInv
<1>. QED
  BY <1>1, <1>2, Invariant, PTL DEF Spec

\* However the reads fall, the commands the server executes as typed are
\* executed at most once and in the order they were typed.
THEOREM ExecutedInOrder == Spec => []InOrder
<1>1. OrderInv => InOrder
  BY DEF OrderInv, LinesOrdered, UnderstoodRising, InOrder
<1>. QED
  BY <1>1, OrderInvariant, PTL

\* As long as every read was exactly one message, at most one is under way,
\* and at a prompt every line was executed once, in order, and the answer
\* shown is that of the line typed last.
THEOREM InLockstep == Spec => []Lockstep
<1>1. ASSUME TypeOK, OneAtATime, ~disturbed
      PROVE  /\ InFlight <= Parts
             /\ client = "prompt" =>
                   executed = [i \in 1..asked |-> i] /\ answer.re = asked
  <2>1. /\ Len(<<>>) = 0 /\ Parts \in Nat
        /\ Parts * (0 + 0) = 0 /\ Parts * (1 + 0) = Parts /\ Parts * (0 + 1) = Parts
    BY PartsAssumption, SMT
  <2>2. /\ client = "prompt" =>
              executed = [i \in 1..asked |-> i] /\ answer.re = asked
    BY <1>1 DEF OneAtATime, Prompted, Executed
  <2>3. ASSUME Nothing PROVE InFlight <= Parts
    BY <2>1, <2>3 DEF Nothing, InFlight
  <2>4. ASSUME LineQueued PROVE InFlight <= Parts
    BY <2>1, <2>4, OneFacts DEF LineQueued, InFlight
  <2>5. ASSUME LineArrives PROVE InFlight <= Parts
    <3>1. Len(toServer) = Parts
      BY <2>5, OneFragmentsFacts, Zenon DEF LineArrives
    <3>. QED
      BY <2>1, <2>5, <3>1 DEF LineArrives, InFlight
  <2>6. ASSUME ReplyQueued PROVE InFlight <= Parts
    BY <2>1, <2>6, OneFacts DEF ReplyQueued, InFlight
  <2>7. ASSUME ReplyArrives PROVE InFlight <= Parts
    <3>1. Len(toClient) = Parts
      <4>1. PICK text \in {"intact", "garbled"} :
                toClient = Fragments([re |-> asked, text |-> text])
        BY <2>7 DEF ReplyArrives
      <4>. QED
        BY <4>1, OneFragmentsFacts, Zenon
    <3>. QED
      BY <2>1, <2>7, <3>1 DEF ReplyArrives, InFlight
  <2>8. ASSUME Closed PROVE InFlight <= Parts
    BY <2>1, <2>8 DEF Closed, InFlight
  <2>. QED
    BY <1>1, <2>2, <2>3, <2>4, <2>5, <2>6, <2>7, <2>8 DEF OneAtATime, Prompted, TypeOK
<1>2. IInv /\ OrderInv => Lockstep
  BY <1>1 DEF IInv, OrderInv, Lockstep
<1>. QED
  BY <1>2, Invariant, OrderInvariant, PTL

\* The uv_close of on_read cancels replies only of a client that is gone.
THEOREM CloseLosesNoReply == Spec => NoReplyLost
<1>1. ASSUME EndsMeanClosed, [Next]_vars, handle = "open", handle' = "closed", pending # <<>>
      PROVE  client = "closed"
  <2>1. OnReadEof
    BY <1>1 DEF Next, OnRead, User, ClientLoop, Connect, AcceptFails, ConnectFails,
        OnReadData, OnReadError, Send, ServerKilled, Type, Quit, ClientKilled, Transmit,
        WriteFails, EchoRead, EchoReadEnd, ClientCloses, EndsMeanClosed, vars
  <2>. QED
    BY <1>1, <2>1 DEF OnReadEof, EndsMeanClosed
<1>2. OrderInv /\ [Next]_vars => NoReplyLost!1
  BY <1>1 DEF OrderInv
<1>. QED
  BY <1>2, OrderInvariant, PTL DEF Spec, NoReplyLost
=============================================================================
