------------------------------- MODULE Session -------------------------------
(***************************************************************************)
(* One connection of the client of src/Client/Client.cpp to the server of  *)
(* src/Server/Server.cpp: the callbacks of both event loops, the streams   *)
(* between them and the ways either side goes away.                        *)
(*                                                                         *)
(* TCP carries bytes, not messages.  A line or an answer is sent as Parts  *)
(* fragments, the last of which holds its NUL, and a read returns any      *)
(* number of the fragments that have arrived: it may get a part of a       *)
(* message, or several at once.  Neither program looks for the end of a    *)
(* message: the first NUL ends what a read is taken for.                   *)
(*                                                                         *)
(* Connections share nothing but the databases, which module Server        *)
(* models; here a line is known by its number.  Commands are assumed to    *)
(* return (see SaveAndLoadEnd there).                                      *)
(*                                                                         *)
(* An operator above another whose name it extends is that operator with a *)
(* bug in it; no formula uses it.                                          *)
(***************************************************************************)
EXTENDS Naturals, Sequences, SequencesExt

CONSTANTS
    MaxLines,   \* bound: lines typed in one behaviour
    Parts,      \* pieces a message may be cut into
    MANGLED     \* what a read is taken for that does not begin with a message

ASSUME MaxLinesAssumption == MaxLines \in Nat \ {0}
ASSUME PartsAssumption == Parts \in Nat \ {0}
ASSUME MangledAssumption == MANGLED \notin Nat

VARIABLES
    client,     \* "connecting", "prompt" (in getline), "loop" or "closed"
    asked,      \* number of lines typed
    reading,    \* the client has called uv_read_start
    outgoing,   \* lines in the client's uv_write queue
    toServer,   \* fragments sent to the server and not read
    toServerEnd,\* "open", or "fin" or "rst" behind the fragments
    handle,     \* the server's: "none", "open", "closed", "leaked" or "dead"
    pending,    \* replies in the server's uv_write queue
    toClient, toClientEnd,
    executed,   \* history: what the server took each read for
    answer,     \* history: what the client took its last read for
    disturbed   \* history: some read was not exactly one message

clientVars == <<client, asked, reading, outgoing>>
streams == <<toServer, toServerEnd, toClient, toClientEnd>>
history == <<executed, answer, disturbed>>
vars == <<clientVars, streams, handle, pending, history>>

NoAnswer == [re |-> 0, text |-> "intact"]
Line == 1..(MaxLines + 1)       \* the lines typed, and "quit"

Init ==
    /\ client = "connecting"
    /\ asked = 0
    /\ reading = FALSE
    /\ outgoing = <<>>
    /\ toServer = <<>> /\ toServerEnd = "open"
    /\ toClient = <<>> /\ toClientEnd = "open"
    /\ handle = "none"
    /\ pending = <<>>
    /\ executed = <<>>
    /\ answer = NoAnswer
    /\ disturbed = FALSE

-----------------------------------------------------------------------------
(* The streams *)

Fragments(x) == [i \in 1..Parts |-> [of |-> x, part |-> i]]

\* A message is understood if the read begins with it and reaches its NUL.
Whole(chunk) == chunk[1].part = 1 /\ Len(chunk) >= Parts
OneMessage(chunk) == chunk[1].part = 1 /\ Len(chunk) = Parts

Disturb(chunk) == disturbed' = (disturbed \/ ~OneMessage(chunk))

\* uv_close, or the death of the process: queued writes are cancelled, except
\* for those that are late enough to be sent all the same.  A socket that is
\* closed with fragments it has not read is reset.
ClientCloses(end, late) ==
    /\ client' = "closed"
    /\ outgoing' = <<>>
    /\ toClient' = <<>>
    /\ toServerEnd' = IF toClient # <<>> THEN "rst" ELSE end
    /\ toServer' = IF toServerEnd' = "rst" THEN <<>> ELSE toServer \o late
    /\ UNCHANGED <<reading, toClientEnd, handle, pending, history>>

-----------------------------------------------------------------------------
(* The server *)

\* connection_cb, CreateClient and uv_read_start; and on_connect.
Connect ==
    /\ client = "connecting"
    /\ client' = "prompt"
    /\ handle' = "open"
    /\ UNCHANGED <<asked, reading, outgoing, streams, pending, history>>

\* uv_accept fails: connection_cb closes the handle.
AcceptFails ==
    /\ client = "connecting"
    /\ client' = "prompt"
    /\ handle' = "closed"
    /\ toClientEnd' = "fin"
    /\ UNCHANGED <<asked, reading, outgoing, toServer, toServerEnd, toClient,
                   pending, history>>

\* addReplyString: the text of set and select is an array on the stack of the
\* handler, all others are literals or on the heap and never freed.
AddReplyOnlyIfWhole(re, buf) ==
    pending' = IF re = MANGLED THEN pending
               ELSE Append(pending, [re |-> re, buf |-> buf])
AddReply(re, buf) == pending' = Append(pending, [re |-> re, buf |-> buf])

ConsumeForgets(n) == UNCHANGED toServer
ConsumeKeepsJoined(n) ==
    toServer' = IF n > Parts THEN toServer
                ELSE SubSeq(toServer, n + 1, Len(toServer))
Consume(n) == toServer' = SubSeq(toServer, n + 1, Len(toServer))

\* on_read with nread > 0: one read is one command, and gets one reply,
\* whatever is in it.  What follows the first NUL is dropped.
OnReadData ==
    /\ handle = "open"
    /\ \E n \in 1..Len(toServer), buf \in {"stack", "kept"} :
          LET chunk == SubSeq(toServer, 1, n)
              line == IF Whole(chunk) THEN chunk[1].of ELSE MANGLED
          IN  /\ executed' = Append(executed, line)
              /\ AddReply(line, buf)
              /\ Consume(n)
              /\ Disturb(chunk)
    /\ UNCHANGED <<clientVars, toServerEnd, toClient, toClientEnd, handle, answer>>

OnReadEofForgets ==
    /\ handle = "open" /\ toServer = <<>> /\ toServerEnd = "fin"
    /\ UNCHANGED vars

\* on_read with UV_EOF: uv_close cancels the replies that are still queued.
OnReadEof ==
    /\ handle = "open"
    /\ toServer = <<>>
    /\ toServerEnd = "fin"
    /\ handle' = "closed"
    /\ pending' = <<>>
    /\ toClientEnd' = "fin"
    /\ UNCHANGED <<clientVars, toServer, toServerEnd, toClient, history>>

\* on_read with any other error: no branch is taken.
OnReadError ==
    /\ handle = "open"
    /\ toServerEnd = "rst"
    /\ handle' = "leaked"
    /\ pending' = <<>>
    /\ UNCHANGED <<clientVars, streams, history>>

\* libuv sends the first reply of the queue.  If that is after the handler
\* has returned, an array on its stack may hold something else.  A socket
\* that the client has closed answers with a reset.
Send ==
    /\ handle = "open"
    /\ pending # <<>>
    /\ pending' = Tail(pending)
    /\ IF client = "closed"
       THEN /\ toServer' = <<>>
            /\ toServerEnd' = "rst"
            /\ UNCHANGED toClient
       ELSE /\ \E text \in {"intact", "garbled"} :
                  /\ text = "garbled" => Head(pending).buf = "stack"
                  /\ toClient' = toClient \o
                         Fragments([re |-> Head(pending).re, text |-> text])
            /\ UNCHANGED <<toServer, toServerEnd>>
    /\ UNCHANGED <<clientVars, toClientEnd, handle, history>>

\* The server dies with the connection open, before or after what it has
\* sent is received.
ServerKilled ==
    /\ handle = "open"
    /\ handle' = "dead"
    /\ pending' = <<>>
    /\ toServer' = <<>>
    /\ \/ toClientEnd' = "fin" /\ UNCHANGED toClient
       \/ toClientEnd' = "rst" /\ toClient' = <<>>
    /\ UNCHANGED <<clientVars, toServerEnd, history>>

-----------------------------------------------------------------------------
(* The client *)

\* on_connect tests for -1 only, and no error of libuv is -1: it prompts
\* although there is no connection.
ConnectFails ==
    /\ client = "connecting"
    /\ client' = "prompt"
    /\ UNCHANGED <<asked, reading, outgoing, streams, handle, pending, history>>

\* receiveData.  Without a connection uv_write fails at once, its result is
\* not looked at, and the event loop has nothing left to wait for.
Type ==
    /\ client = "prompt"
    /\ asked < MaxLines
    /\ asked' = asked + 1
    /\ IF handle = "none"
       THEN client' = "closed" /\ UNCHANGED outgoing
       ELSE client' = "loop" /\ outgoing' = Append(outgoing, asked + 1)
    /\ UNCHANGED <<reading, streams, handle, pending, history>>

QuitShutsDown ==
    /\ client = "prompt"
    /\ client' = "loop"
    /\ toServerEnd' = "fin"
    /\ UNCHANGED <<asked, reading, outgoing, toServer, toClient, toClientEnd,
                   handle, pending, history>>

\* receiveData of "quit": uv_close, and then uv_write on the closed handle,
\* which libuv refuses or, in some builds, still sends.
Quit ==
    /\ client = "prompt"
    /\ \E late \in {<<>>, Fragments(asked + 1)} : ClientCloses("fin", late)
    /\ UNCHANGED asked

ClientKilled ==
    /\ client \in {"prompt", "loop"}
    /\ \E end \in {"fin", "rst"} : ClientCloses(end, <<>>)
    /\ UNCHANGED asked

StartReadingNever == UNCHANGED reading
StartReading == reading' = TRUE

\* libuv sends a line and calls after_write, which starts reading.  A server
\* that is gone answers with a reset.
Transmit ==
    /\ outgoing # <<>>
    /\ outgoing' = Tail(outgoing)
    /\ StartReading
    /\ IF handle = "open"
       THEN /\ toServer' = toServer \o Fragments(Head(outgoing))
            /\ UNCHANGED <<toClient, toClientEnd>>
       ELSE /\ toClient' = <<>>
            /\ toClientEnd' = "rst"
            /\ UNCHANGED toServer
    /\ UNCHANGED <<client, asked, toServerEnd, handle, pending, history>>

\* after_write with an error closes the handle.
WriteFails ==
    /\ client = "loop"
    /\ outgoing # <<>>
    /\ toClientEnd = "rst"
    /\ ClientCloses("fin", <<>>)
    /\ UNCHANGED asked

Prompt(chunk) == client' = "prompt"

\* echo_read: every read is printed up to its first NUL as the answer to the
\* line typed last, and the next line is asked for.
EchoRead ==
    /\ client = "loop"
    /\ reading
    /\ \E n \in 1..Len(toClient) :
          LET chunk == SubSeq(toClient, 1, n)
          IN  /\ answer' = IF Whole(chunk) THEN chunk[1].of
                           ELSE [re |-> MANGLED, text |-> "intact"]
              /\ toClient' = SubSeq(toClient, n + 1, Len(toClient))
              /\ Prompt(chunk)
              /\ Disturb(chunk)
    /\ UNCHANGED <<asked, reading, outgoing, toServer, toServerEnd, toClientEnd,
                   handle, pending, executed>>

\* echo_read with a negative nread: the end of the stream or an error.
EchoReadEnd ==
    /\ client = "loop"
    /\ reading
    /\ toClient = <<>>
    /\ toClientEnd # "open"
    /\ ClientCloses("fin", <<>>)
    /\ UNCHANGED asked

-----------------------------------------------------------------------------

OnRead == OnReadData \/ OnReadEof \/ OnReadError
ClientLoop == WriteFails \/ EchoRead \/ EchoReadEnd
User == Type \/ Quit \/ ClientKilled

Next ==
    \/ Connect \/ AcceptFails \/ ConnectFails
    \/ OnRead \/ Send \/ ServerKilled
    \/ User \/ Transmit \/ ClientLoop

Spec == Init /\ [][Next]_vars

\* Neither event loop blocks for ever while it is not at the prompt, and TCP
\* delivers what it is given.  Nothing is assumed of the user, nor that either
\* process dies.
FairSpec ==
    Spec /\ WF_vars(OnRead) /\ WF_vars(Send) /\ WF_vars(Transmit) /\ WF_vars(ClientLoop)

-----------------------------------------------------------------------------
(* Properties *)

Fragment(payload) == [of : payload, part : 1..Parts]

Reply == [re : Line \cup {MANGLED}, text : {"intact", "garbled"}]

TypeOK ==
    /\ client \in {"connecting", "prompt", "loop", "closed"}
    /\ asked \in 0..MaxLines
    /\ reading \in BOOLEAN
    /\ outgoing \in Seq(Line)
    /\ toServer \in Seq(Fragment(Line)) /\ toClient \in Seq(Fragment(Reply))
    /\ toServerEnd \in {"open", "fin", "rst"} /\ toClientEnd \in {"open", "fin", "rst"}
    /\ handle \in {"none", "open", "closed", "leaked", "dead"}
    /\ pending \in Seq([re : Line \cup {MANGLED}, buf : {"stack", "kept"}])
    /\ executed \in Seq(Line \cup {MANGLED})
    /\ answer \in Reply \cup {NoAnswer}
    /\ disturbed \in BOOLEAN

InFlight ==
    Parts * (Len(outgoing) + Len(pending)) + Len(toServer) + Len(toClient)

\* As long as every read was exactly one message, the conversation is in
\* lockstep although no program looks for the end of a message: at most one
\* message is under way, and at a prompt every line typed was executed once,
\* in order, and the answer shown is that of the line typed last
\* (Client.cpp:70-72, Server.cpp:318-338).
Lockstep ==
    ~disturbed =>
        /\ InFlight <= Parts
        /\ client = "prompt" =>
              executed = [i \in 1..asked |-> i] /\ answer.re = asked

\* However the reads fall, the two programs never wait for each other: when
\* the client waits on an open connection, there is something for one of them
\* to send or to read.
SomethingInFlight ==
    (client = "loop" /\ handle = "open" /\ toServerEnd = "open")
        => outgoing # <<>> \/ toServer # <<>> \/ pending # <<>> \/ toClient # <<>>

\* However the reads fall, the commands the server executes as typed are
\* executed at most once and in the order they were typed.
InOrder ==
    \A i, j \in 1..Len(executed) :
        (i < j /\ executed[i] # MANGLED /\ executed[j] # MANGLED)
            => executed[i] < executed[j]

\* The uv_close of Server.cpp:312 cancels replies, as the comment above it
\* warns, but none that a client still waits for: this client never closes
\* one direction only (Client.cpp:106).
NoReplyLost ==
    [][handle = "open" /\ handle' = "closed" /\ pending # <<>>
       => client = "closed"]_vars

\* Whatever is lost or mixed up, a user who has typed a line is prompted again,
\* or the client ends.
PromptReturns == (client = "loop") ~> (client # "loop")

\* The server closes its handle once the client is gone, unless the
\* connection was reset: then nothing ever closes it (Server.cpp:305-318).
HandleReleased ==
    (client = "closed" /\ handle = "open")
        ~> (handle \in {"closed", "dead"} \/ toServerEnd = "rst")
=============================================================================
