--------------------------- MODULE TcpConnection ---------------------------
(***************************************************************************)
(* Two programs that talk through a TcpConnection each, over one socket:   *)
(* server/common/net/TcpConnection.cpp, with the bytes of the packets as   *)
(* PacketSerializer writes and reads them.                                 *)
(*                                                                         *)
(* A program runs one completion handler at a time.  An operation of a     *)
(* socket is pending until the kernel is through with it, and then done:   *)
(* its handler waits in the queue of the io_context, and nothing can take  *)
(* it back, not even close().  Operations pending when the socket is       *)
(* closed are aborted: their handlers run later, with an error.            *)
(***************************************************************************)
EXTENDS PacketSerializer, FiniteSets

CONSTANTS
    Conversations,  \* what the programs may have to say, see Conversation
    MaxPayload,     \* kMaxPayloadSize
    Cuts            \* how many bytes of what is under way may survive a break

ASSUME CutsAssumption == Cuts \subseteq Nat

Ends == {"near", "far"}

Peer(e) == IF e = "near" THEN "far" ELSE "near"

\* A packet to be sent: its kind, its fields, the layout it is written with, which
\* is that of an older version when older is set, and whether its payload is longer
\* than a reader allows.
\* A conversation: the packets each end sends, the space of their numbers, the
\* protocol version of each end, and whether the network may break the connection.

\* The layout of a version that did not have the later fields yet.
FirstFields(layout) == SelectSeq(layout, LAMBDA f : f.kind = "list" \/ f.part = "always")

OlderLayout(layout) ==
    [i \in DOMAIN FirstFields(layout) |->
        LET f == FirstFields(layout)[i]
        IN  IF f.kind = "list" THEN [f EXCEPT !.entry = FirstFields(@)] ELSE f]

LayoutOf(space, p) ==
    IF p.older THEN OlderLayout(Reads(space)[p.kind]) ELSE Writes(space)[p.kind]

Payload(space, p) == Serialize(LayoutOf(space, p), p.fields)

\* A packet is a vector of bytes whose length fits the four bytes it is written in.
ASSUME ConversationsAssumption ==
    /\ MaxPayload \in Nat
    /\ \A c \in Conversations :
           /\ c.version \in [Ends -> Nat]
           /\ \A e \in Ends :
                  /\ c.packets[e] \in Seq(Range(c.packets[e]))
                  /\ \A i \in DOMAIN c.packets[e] :
                         LET payload == Payload(c.space, c.packets[e][i])
                         IN  /\ payload \in Seq(0 .. Base - 1)
                             /\ Len(payload) < Base * Base * Base * Base
                             /\ TypeNumber(c.space)[c.packets[e][i].kind] \in Nat

ASSUME LengthsAssumption ==
    \A c \in Conversations : \A e \in Ends : \A i \in DOMAIN c.packets[e] :
        c.packets[e][i].tooLong <=> Len(Payload(c.space, c.packets[e][i])) > MaxPayload

VARIABLES
    talk,           \* the conversation
    payloads,       \* what serialize makes of each packet of the conversation
    sent,           \* how many packets each end has sent
    writeQueue,     \* encoded packets, the one being written in front
    writing,        \* writing_
    closed,         \* closed_
    write,          \* the asynchronous write: none, pending, done, aborted
    read,           \* the asynchronous read: none, pending, done, aborted
    expects,        \* what is being read: the header or the payload
    readHeader,     \* readHeader_, once it has been read
    readBuffer,     \* what a read that is done has read
    stream,         \* bytes on their way to an end
    broken,         \* the connection does not exist any more
    handled,        \* what the packet handler of an end was given
    undefined       \* an end popped the front of an empty queue

vars == <<talk, payloads, sent, writeQueue, writing, closed, write, read, expects, readHeader,
          readBuffer, stream, broken, handled, undefined>>

writeVars == <<sent, writeQueue, writing, write>>
readVars == <<read, expects, readHeader, readBuffer, handled>>

NoHeader == [payloadLength |-> 0]

TypeOK ==
    /\ \A e \in Ends :
        /\ sent[e] \in 0 .. Len(talk.packets[e])
        /\ \A i \in DOMAIN writeQueue[e] : \A j \in DOMAIN writeQueue[e][i] :
               writeQueue[e][i][j] \in 0 .. Base - 1
        /\ write[e] \in {"none", "pending", "done", "aborted"}
        /\ read[e] \in {"none", "pending", "done", "aborted"}
        /\ expects[e] \in {"header", "payload"}
        /\ {writing[e], closed[e], undefined[e]} \subseteq BOOLEAN
    /\ broken \in BOOLEAN

Init ==
    /\ talk \in Conversations
    /\ payloads = [e \in Ends |-> [i \in DOMAIN talk.packets[e] |->
                       Payload(talk.space, talk.packets[e][i])]]
    /\ sent = [e \in Ends |-> 0]
    /\ writeQueue = [e \in Ends |-> <<>>]
    /\ writing = [e \in Ends |-> FALSE]
    /\ closed = [e \in Ends |-> FALSE]
    /\ write = [e \in Ends |-> "none"]
    /\ read = [e \in Ends |-> "pending"]
    /\ expects = [e \in Ends |-> "header"]
    /\ readHeader = [e \in Ends |-> NoHeader]
    /\ readBuffer = [e \in Ends |-> <<>>]
    /\ stream = [e \in Ends |-> <<>>]
    /\ broken = FALSE
    /\ handled = [e \in Ends |-> <<>>]
    /\ undefined = [e \in Ends |-> FALSE]
-----------------------------------------------------------------------------
(* Writing *)

\* Slip: writing_ is not lowered when the queue is empty.
DoWrite_StaysBusy(e, queue, operation) ==
    /\ writeQueue' = [writeQueue EXCEPT ![e] = queue]
    /\ writing' = [writing EXCEPT ![e] = TRUE]
    /\ write' = [write EXCEPT ![e] = IF closed[e] \/ queue = <<>> THEN operation ELSE "pending"]

\* doWrite, for the queue it finds.  No write is under way when it is called, except
\* that of a connection closed meanwhile: then it starts none, and the other goes on.
DoWrite(e, queue, operation) ==
    /\ writeQueue' = [writeQueue EXCEPT ![e] = queue]
    /\ IF closed[e] \/ queue = <<>>
       THEN /\ writing' = [writing EXCEPT ![e] = FALSE]
            /\ write' = [write EXCEPT ![e] = operation]
       ELSE /\ writing' = [writing EXCEPT ![e] = TRUE]
            /\ write' = [write EXCEPT ![e] = "pending"]

\* The next packet, as encodePacket makes it.
Encoded(e) ==
    LET i == sent[e] + 1
    IN  EncodePacket(TypeNumber(talk.space)[talk.packets[e][i].kind], i, talk.version[e],
                     payloads[e][i])

\* send does not ask whether the connection is closed.
Send(e) ==
    /\ ~ undefined[e]
    /\ sent[e] < Len(talk.packets[e])
    /\ LET queue == Append(writeQueue[e], Encoded(e))
       IN  IF writing[e]
           THEN writeQueue' = [writeQueue EXCEPT ![e] = queue] /\ UNCHANGED <<writing, write>>
           ELSE DoWrite(e, queue, write[e])
    /\ sent' = [sent EXCEPT ![e] = @ + 1]
    /\ UNCHANGED <<talk, payloads, closed, stream, broken, undefined, readVars>>

\* The kernel takes the packet in front.  A socket whose peer has gone takes it
\* as well, and nobody will read it.
Transmit(e) ==
    /\ write[e] = "pending"
    /\ write' = [write EXCEPT ![e] = "done"]
    /\ stream' = IF broken THEN stream
                 ELSE [stream EXCEPT ![Peer(e)] = @ \o Head(writeQueue[e])]
    /\ UNCHANGED <<talk, payloads, sent, writeQueue, writing, closed, broken, undefined, readVars>>

\* close() called by a handler of end e: operations that are pending will be
\* aborted, those that are done stay as they are.  The peer sees the end of file
\* behind the bytes that are under way.
Aborted(op) == IF op = "pending" THEN "aborted" ELSE op

Close(e, itsRead, itsWrite) ==
    /\ closed' = [closed EXCEPT ![e] = TRUE]
    /\ writing' = [writing EXCEPT ![e] = FALSE]
    /\ writeQueue' = [writeQueue EXCEPT ![e] = <<>>]
    /\ read' = [read EXCEPT ![e] = Aborted(itsRead)]
    /\ write' = [write EXCEPT ![e] = Aborted(itsWrite)]
    /\ broken' = TRUE
    /\ UNCHANGED <<talk, payloads, sent, expects, readHeader, readBuffer, stream, handled, undefined>>

\* Slip: the next packet is left for the next call of send.
WriteDone_NoChain(e) ==
    /\ ~ undefined[e]
    /\ write[e] = "done"
    /\ writeQueue[e] # <<>>
    /\ writeQueue' = [writeQueue EXCEPT ![e] = Tail(@)]
    /\ write' = [write EXCEPT ![e] = "none"]
    /\ writing' = [writing EXCEPT ![e] = FALSE]
    /\ UNCHANGED <<talk, payloads, sent, closed, stream, broken, undefined, readVars>>

\* The completion handler of a write, without error.  It pops the front of the
\* queue without a look at whether there is one: close() may have cleared it.
\* What an empty deque does then is undefined, and taken for the end of the program.
WriteDone(e) ==
    /\ ~ undefined[e]
    /\ write[e] = "done"
    /\ IF writeQueue[e] = <<>>
       THEN /\ undefined' = [undefined EXCEPT ![e] = TRUE]
            /\ broken' = TRUE
            /\ write' = [write EXCEPT ![e] = "none"]
            /\ UNCHANGED <<writing, writeQueue>>
       ELSE /\ DoWrite(e, Tail(writeQueue[e]), "none")
            /\ UNCHANGED <<undefined, broken>>
    /\ UNCHANGED <<talk, payloads, sent, closed, stream, readVars>>

\* The same with an error, by handleError.
WriteFails(e) ==
    /\ ~ undefined[e]
    /\ write[e] = "pending"
    /\ broken
    /\ Close(e, read[e], "none")

\* handleError for an operation that close() has aborted: it clears the queue of
\* what was sent since, and finds the connection closed.
OperationAborted(e) ==
    /\ ~ undefined[e]
    /\ \/ write[e] = "aborted" /\ write' = [write EXCEPT ![e] = "none"] /\ UNCHANGED read
       \/ read[e] = "aborted" /\ read' = [read EXCEPT ![e] = "none"] /\ UNCHANGED write
    /\ writing' = [writing EXCEPT ![e] = FALSE]
    /\ writeQueue' = [writeQueue EXCEPT ![e] = <<>>]
    /\ UNCHANGED <<talk, payloads, sent, closed, expects, readHeader, readBuffer, stream, broken,
                   handled, undefined>>
-----------------------------------------------------------------------------
(* Reading *)

Wanted(e) == IF expects[e] = "header" THEN HeaderSize ELSE readHeader[e].payloadLength

\* The kernel has as many bytes as the read asks for.
Receive(e) ==
    /\ read[e] = "pending"
    /\ Len(stream[e]) >= Wanted(e)
    /\ readBuffer' = [readBuffer EXCEPT ![e] = SubSeq(stream[e], 1, Wanted(e))]
    /\ stream' = [stream EXCEPT ![e] = Drop(@, Wanted(e))]
    /\ read' = [read EXCEPT ![e] = "done"]
    /\ UNCHANGED <<talk, payloads, writeVars, closed, expects, readHeader, broken, handled, undefined>>

\* End of file or reset in the middle of a read: handleError.
ReadFails(e) ==
    /\ ~ undefined[e]
    /\ read[e] = "pending"
    /\ broken
    /\ Len(stream[e]) < Wanted(e)
    /\ Close(e, "none", write[e])

\* readHeader or readPayload starts the next read.  On a closed socket it fails at once.
StartRead(e, what) ==
    /\ expects' = [expects EXCEPT ![e] = what]
    /\ readBuffer' = [readBuffer EXCEPT ![e] = <<>>]
    /\ read' = [read EXCEPT ![e] = IF closed[e] THEN "aborted" ELSE "pending"]

\* The packet handler of the program is called, and the next header awaited.
Handle(e, header, payload) ==
    /\ handled' = [handled EXCEPT ![e] = Append(@, [header |-> header, payload |-> payload])]
    /\ StartRead(e, "header")

HeaderDone(e) ==
    LET header == DecodeHeader(readBuffer[e])
    IN  /\ ~ undefined[e]
        /\ read[e] = "done" /\ expects[e] = "header"
        /\ IsValid(header, talk.version[e], MaxPayload)
        /\ readHeader' = [readHeader EXCEPT ![e] = header]
        /\ IF header.payloadLength = 0
           THEN Handle(e, header, <<>>)
           ELSE StartRead(e, "payload") /\ UNCHANGED handled
        /\ UNCHANGED <<talk, payloads, writeVars, closed, stream, broken, undefined>>

\* A header that is not valid closes the connection, and no further read is started.
HeaderInvalid(e) ==
    /\ ~ undefined[e]
    /\ read[e] = "done" /\ expects[e] = "header"
    /\ ~ IsValid(DecodeHeader(readBuffer[e]), talk.version[e], MaxPayload)
    /\ IF closed[e]
       THEN /\ read' = [read EXCEPT ![e] = "none"]
            /\ UNCHANGED <<talk, payloads, writeVars, closed, expects, readHeader, readBuffer, stream,
                           broken, handled, undefined>>
       ELSE Close(e, "none", write[e])

PayloadDone(e) ==
    /\ ~ undefined[e]
    /\ read[e] = "done" /\ expects[e] = "payload"
    /\ Handle(e, readHeader[e], readBuffer[e])
    /\ UNCHANGED <<talk, payloads, writeVars, closed, readHeader, stream, broken, undefined>>
-----------------------------------------------------------------------------
(* The network, and the fate of the programs *)

\* The connection breaks, with no more than some bytes of what is under way left.
Break ==
    /\ talk.breakable
    /\ ~ broken
    /\ broken' = TRUE
    /\ \E n \in Cuts : stream' = [e \in Ends |-> SubSeq(stream[e], 1, Min({n, Len(stream[e])}))]
    /\ UNCHANGED <<talk, payloads, writeVars, closed, readVars, undefined>>

Program(e) ==
    \/ WriteDone(e) \/ WriteFails(e) \/ OperationAborted(e)
    \/ ReadFails(e) \/ HeaderDone(e) \/ HeaderInvalid(e) \/ PayloadDone(e)

Kernel(e) == Transmit(e) \/ Receive(e)

Next == Break \/ \E e \in Ends : Send(e) \/ Program(e) \/ Kernel(e)

Spec == Init /\ [][Next]_vars

\* asio runs the handlers that are due, and the kernel does its work.  Nobody has
\* to send, but a program that has something to say says it some time.
FairSpec ==
    Spec /\ \A e \in Ends : WF_vars(Send(e)) /\ WF_vars(Program(e)) /\ WF_vars(Kernel(e))
-----------------------------------------------------------------------------
(* Properties *)

\* The fields a program should get to see: those that were sent, and the defaults
\* where an older version has sent none.
FieldsSeen(layout, fields) ==
    [n \in { layout[i].name : i \in DOMAIN layout } |->
        LET f == CHOOSE g \in { layout[i] : i \in DOMAIN layout } : g.name = n
        IN  IF n \in DOMAIN fields THEN fields[n] ELSE Default(f)]

Expected(space, p) ==
    LET layout == Reads(space)[p.kind]
        Seen(n) ==
            LET f == CHOOSE g \in { layout[i] : i \in DOMAIN layout } : g.name = n
            IN  CASE n \notin DOMAIN p.fields -> Default(f)
                  [] n \in DOMAIN p.fields /\ f.kind # "list" -> p.fields[n]
                  [] n \in DOMAIN p.fields /\ f.kind = "list" ->
                       [i \in DOMAIN p.fields[n] |-> FieldsSeen(f.entry, p.fields[n][i])]
    IN  [kind |-> p.kind, fields |-> [n \in { layout[i].name : i \in DOMAIN layout } |-> Seen(n)]]

\* What a program is given is what the other one has sent, packet by packet and
\* in order, to the last field: nothing is lost in between, written twice, cut,
\* mixed up with another packet, or taken for a packet of another kind.  This
\* holds for packets of all kinds, for those of a version without the later
\* fields, and when the connection breaks.  (writeQueue_, readHeader,
\* serialize and deserialize)
PacketsArriveAsSent ==
    \A e \in Ends :
        LET p == talk.packets[Peer(e)]
        IN  /\ Len(handled[e]) <= sent[Peer(e)]
            /\ \A i \in DOMAIN handled[e] :
                   Understood(talk.space, handled[e][i].header, handled[e][i].payload)
                       = {Expected(talk.space, p[i])}

\* Every variable has its type.  While the connection stands, what is written is the
\* front of the queue, and there is one write at most: writing_ and the operation tell
\* the same story.  The queue is popped when it is empty only by a connection that was
\* closed while a write was done and its handler waited.  (doWrite, handleError, close)
OneWriteAtATime ==
    /\ TypeOK
    /\ \A e \in Ends :
           IF undefined[e] THEN closed[e]
           ELSE ~ closed[e] =>
                    /\ writing[e] <=> write[e] \in {"pending", "done"}
                    /\ writing[e] <=> writeQueue[e] # <<>>

Undisturbed ==
    /\ ~ talk.breakable
    /\ talk.version["near"] = talk.version["far"]
    /\ \A e \in Ends : \A i \in DOMAIN talk.packets[e] : ~ talk.packets[e][i].tooLong

\* Everything that is sent arrives, if nothing breaks the connection, both ends
\* are of one version and no payload is too long.  (send, doWrite, readHeader)
EverythingArrives ==
    Undisturbed => <>(\A e \in Ends : Len(handled[e]) = Len(talk.packets[Peer(e)]))

=============================================================================
