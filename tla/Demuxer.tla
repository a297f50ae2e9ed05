------------------------------ MODULE Demuxer ------------------------------
(***************************************************************************)
(* From the server's byte sink to the client's three inboxes               *)
(* (packages/frontend/src/lib/editor/codec/demuxer.ts and map.ts), with    *)
(* the client's requests, which wait for their answer in the PromiseMap    *)
(* (client.ts).                                                            *)
(*                                                                         *)
(* Bytes are abstracted to tokens: a framed message is the name of the     *)
(* Content-Length header, its value and that many body tokens.  The queue  *)
(* of chunks between the sink and the demuxer is the FIFO channel that     *)
(* AsyncQueue is shown to implement; the two queues the demuxer feeds are  *)
(* represented by everything ever put in them.                             *)
(*                                                                         *)
(* The server's side of the stream is external code (tower-lsp): it        *)
(* answers the requests it has read in any order, and its framed sink      *)
(* writes what has accumulated since the last write as one chunk.          *)
(***************************************************************************)
EXTENDS Integers, Sequences, SequencesExt, FiniteSets

CONSTANTS
    Requests,       \* the requests the client makes, each under its own id
    Notes,          \* the notifications the server sends
    Calls,          \* the requests the server sends
    BodyLength,     \* the number of body tokens of a message
    MaxFrames,      \* how many frames one chunk of the sink can touch
    NoLength,       \* contentLength is null
    MaxChunks       \* bound: chunks written and not yet read

Message ==
    [kind : {"response"}, id : Requests]
      \cup [kind : {"notification"}, id : Notes]
      \cup [kind : {"request"}, id : Calls]

ASSUME BodyLengthAssumption == BodyLength \in Nat \ {0}
ASSUME MaxFramesAssumption == MaxFrames \in Nat \ {0}
ASSUME MaxChunksAssumption == MaxChunks \in Nat \ {0}
ASSUME NoLengthAssumption == NoLength \notin Nat

VARIABLES
    client,         \* the state of each request in the client
    intoServer,     \* requests written and not yet read by the server
    handling,       \* requests the server has read and not yet answered
    emitted,        \* history: every message the server gave its sink
    sink,           \* tokens the sink has framed and not yet written
    chunks,         \* chunks written and not yet read by the demuxer
    buffer,         \* the local `buffer' of start()
    contentLength,  \* the local `contentLength' of start()
    failed,         \* start() has thrown: its promise is rejected
    responses,      \* the entries of the PromiseMap, "absent" if there is none
    notifications,  \* what was put in the queue of notifications
    requests,       \* what was put in the queue of requests
    batched         \* history: a chunk held tokens of two frames

serverVars == <<handling, emitted, sink, batched>>
demuxVars == <<buffer, contentLength, failed, notifications, requests>>
vars == <<client, intoServer, handling, emitted, sink, chunks, buffer,
          contentLength, failed, responses, notifications, requests, batched>>

(* Token 1 of a frame is the header's name, token 2 its value with the     *)
(* blank line behind it: chunks that end inside the digits, of which the   *)
(* loop would read a shorter length, are not modelled.                     *)
Token == [of : Message, at : 1 .. BodyLength + 2]

Frame(m) == [k \in 1 .. BodyLength + 2 |-> [of |-> m, at |-> k]]
Header(m) == SubSeq(Frame(m), 1, 2)
Body(m) == SubSeq(Frame(m), 3, BodyLength + 2)

(* The regular expression of the loop matches the start of the bytes.      *)
HasHeader(bytes) == IsPrefix(Header(bytes[1].of), bytes)

TypeOK ==
    /\ client \in [Requests -> {"idle", "waiting", "answered", "null"}]
    /\ intoServer \in Seq(Requests)
    /\ handling \subseteq Requests
    /\ emitted \in Seq(Message)
    /\ sink \in Seq(Token)
    /\ chunks \in Seq(Seq(Token))
    /\ buffer \in Seq(Token)
    /\ contentLength \in {BodyLength, NoLength}
    /\ failed \in BOOLEAN
    /\ responses \in [Requests -> {"absent", "pending", "resolved"}]
    /\ notifications \in Seq(Notes)
    /\ requests \in Seq(Calls)
    /\ batched \in BOOLEAN

Init ==
    /\ client = [r \in Requests |-> "idle"]
    /\ intoServer = <<>>
    /\ handling = {}
    /\ emitted = <<>>
    /\ sink = <<>>
    /\ chunks = <<>>
    /\ buffer = <<>>
    /\ contentLength = NoLength
    /\ failed = FALSE
    /\ responses = [r \in Requests |-> "absent"]
    /\ notifications = <<>>
    /\ requests = <<>>
    /\ batched = FALSE

-----------------------------------------------------------------------------
(* Mutant of Get: the pending entry is not kept in the map.                *)
Get_Forgets(r) ==
    /\ client' = [client EXCEPT ![r] = "waiting"]
    /\ UNCHANGED responses

(* PromiseMap.get(): creates a pending entry if there is none; a caller    *)
(* that finds the entry resolved gets null instead of a promise.           *)
Get(r) ==
    /\ responses' = [responses EXCEPT ![r] =
                        IF @ = "absent" THEN "pending" ELSE @]
    /\ client' = [client EXCEPT ![r] =
                        IF responses[r] = "resolved" THEN "null" ELSE "waiting"]

(* Mutant of Put: always a new entry, never the one that is waited for.    *)
Put_AlwaysNew(r) ==
    /\ responses' = [responses EXCEPT ![r] = "resolved"]
    /\ UNCHANGED client

(* PromiseMap.set(): resolves the promise of a pending entry; an entry it  *)
(* has to create is resolved before anyone can ask for its promise.        *)
Put(r) ==
    /\ responses' = [responses EXCEPT ![r] = "resolved"]
    /\ client' = [client EXCEPT ![r] =
                        IF responses[r] = "pending" THEN "answered" ELSE @]

(* The send function given to JSONRPCClient: up to its await it writes the *)
(* request and asks for the promise of its answer in one turn.             *)
Request(r) ==
    /\ client[r] = "idle"
    /\ intoServer' = Append(intoServer, r)
    /\ Get(r)
    /\ UNCHANGED <<serverVars, chunks, demuxVars>>

-----------------------------------------------------------------------------
ServerReads ==
    /\ intoServer # <<>>
    /\ handling' = handling \cup {Head(intoServer)}
    /\ intoServer' = Tail(intoServer)
    /\ UNCHANGED <<client, emitted, sink, batched, chunks, demuxVars, responses>>

Emit(m) ==
    /\ emitted' = Append(emitted, m)
    /\ sink' = sink \o Frame(m)

ServerAnswers(r) ==
    /\ r \in handling
    /\ handling' = handling \ {r}
    /\ Emit([kind |-> "response", id |-> r])
    /\ UNCHANGED <<client, intoServer, batched, chunks, demuxVars, responses>>

Emitted(m) == \E i \in 1 .. Len(emitted) : emitted[i] = m

ServerSends(m) ==
    /\ m.kind # "response"
    /\ ~Emitted(m)
    /\ Emit(m)
    /\ UNCHANGED <<client, intoServer, handling, batched, chunks, demuxVars,
                   responses>>

Touched(tokens) == {tokens[i].of : i \in 1 .. Len(tokens)}

(* The sink writes the first n tokens it holds as one chunk.               *)
SinkWrites ==
    /\ Len(chunks) < MaxChunks
    /\ \E n \in 1 .. Len(sink) :
         LET chunk == SubSeq(sink, 1, n) IN
         /\ Cardinality(Touched(chunk)) <= MaxFrames
         /\ chunks' = Append(chunks, chunk)
         /\ sink' = SubSeq(sink, n + 1, Len(sink))
         /\ batched' = (batched \/ Cardinality(Touched(chunk)) > 1)
    /\ UNCHANGED <<client, intoServer, handling, emitted, demuxVars, responses>>

-----------------------------------------------------------------------------
(* JSON.parse of the decoded text: it must be the body of one message.     *)
Parsed(text) == text[1].of
Parses(text) == text = Body(Parsed(text))

Route(m) ==
    \/ /\ m.kind = "response"
       /\ Put(m.id)
       /\ UNCHANGED <<notifications, requests>>
    \/ /\ m.kind = "notification"
       /\ notifications' = Append(notifications, m.id)
       /\ UNCHANGED <<client, responses, requests>>
    \/ /\ m.kind = "request"
       /\ requests' = Append(requests, m.id)
       /\ UNCHANGED <<client, responses, notifications>>

(* Mutant of Rest: the last byte of the message is kept as well.           *)
Rest_OffByOne(bytes, length) == SubSeq(bytes, length, Len(bytes))

(* What is kept when a message of the given length has been decoded.       *)
Rest(bytes, length) == SubSeq(bytes, length + 1, Len(bytes))

(* There are enough bytes: it is the whole of the buffer that is decoded,  *)
(* whatever its length.                                                    *)
Take(bytes, length) ==
    /\ buffer' = Rest(bytes, length)
    /\ contentLength' = NoLength
    /\ \/ /\ Parses(bytes)
          /\ Route(Parsed(bytes))
          /\ UNCHANGED failed
       \/ /\ ~Parses(bytes)
          /\ failed' = TRUE
          /\ UNCHANGED <<client, responses, notifications, requests>>

(* There are not: the loop awaits the next chunk.                          *)
Keep(bytes, length) ==
    /\ buffer' = bytes
    /\ contentLength' = length
    /\ UNCHANGED <<client, failed, responses, notifications, requests>>

(* Mutant of Decode: it decodes one byte early.                            *)
Decode_Early(bytes, length) ==
    IF Len(bytes) + 1 < length THEN Keep(bytes, length) ELSE Take(bytes, length)

(* Mutant of Decode: it waits for one byte too many.                       *)
Decode_Late(bytes, length) ==
    IF Len(bytes) <= length THEN Keep(bytes, length) ELSE Take(bytes, length)

(* Mutant of Decode: what cannot be parsed is dropped and the loop goes on.*)
Decode_Skip(bytes, length) ==
    IF Len(bytes) >= length /\ ~Parses(bytes)
    THEN /\ buffer' = <<>>
         /\ contentLength' = NoLength
         /\ UNCHANGED <<client, failed, responses, notifications, requests>>
    ELSE IF Len(bytes) < length THEN Keep(bytes, length) ELSE Take(bytes, length)

(* The tail of the loop's body, once the length of the message is known.   *)
Decode(bytes, length) ==
    \/ Len(bytes) < length /\ Keep(bytes, length)
    \/ Len(bytes) >= length /\ Take(bytes, length)

(* One turn of the loop of start(): it takes one chunk and parses at most  *)
(* one message.                                                            *)
Demux ==
    /\ ~failed
    /\ chunks # <<>>
    /\ chunks' = Tail(chunks)
    /\ LET bytes == buffer \o Head(chunks) IN
       \/ /\ contentLength # NoLength
          /\ Decode(bytes, contentLength)
       \/ /\ contentLength = NoLength
          /\ HasHeader(bytes)
          /\ Decode(SubSeq(bytes, 3, Len(bytes)), BodyLength)
       \/ /\ contentLength = NoLength
          /\ ~HasHeader(bytes)
          /\ buffer' = bytes
          /\ UNCHANGED <<client, contentLength, failed, responses,
                         notifications, requests>>
    /\ UNCHANGED <<intoServer, serverVars>>

Next ==
    \/ \E r \in Requests : Request(r) \/ ServerAnswers(r)
    \/ ServerReads
    \/ \E m \in Message : ServerSends(m)
    \/ SinkWrites
    \/ Demux

Spec == Init /\ [][Next]_vars

(* The loop resumes when its queue has a chunk; the server's tasks run on  *)
(* the same microtask queue and the sink is flushed when they are idle.    *)
Fairness ==
    /\ WF_vars(ServerReads)
    /\ \A r \in Requests : WF_vars(ServerAnswers(r))
    /\ WF_vars(SinkWrites)
    /\ WF_vars(Demux)

FairSpec == Spec /\ Fairness

-----------------------------------------------------------------------------
(* The ids of the messages of a kind among the first n of those sent.      *)
Ids(sent, kind) ==
    LET First[n \in 0 .. Len(sent)] ==
            IF n = 0 THEN <<>>
            ELSE IF sent[n].kind = kind THEN Append(First[n - 1], sent[n].id)
            ELSE First[n - 1]
    IN  First

OfKind(kind) == Ids(emitted, kind)[Len(emitted)]

(* Each inbox holds the messages of its kind in the order the server sent  *)
(* them, with none missing in between, repeated or of another kind.        *)
RoutedInOrder ==
    /\ IsPrefix(notifications, OfKind("notification"))
    /\ IsPrefix(requests, OfKind("request"))

(* A request is resolved by its own answer and never with null, and the    *)
(* PromiseMap has the entry the client waits for from the turn the request *)
(* is written.                                                             *)
AnswersMatch ==
    \A r \in Requests :
        /\ client[r] # "null"
        /\ client[r] = "waiting" <=> responses[r] = "pending"
        /\ client[r] = "answered" => Emitted([kind |-> "response", id |-> r])

(* How many messages the loop has routed.                                  *)
Done == Len(notifications) + Len(requests)
          + Cardinality({r \in Requests : responses[r] = "resolved"})

(* The demuxer never loses the frame boundary: what it has not parsed yet  *)
(* is a whole number of messages once the length it has read is given back.*)
InStep ==
    LET behind == IF contentLength = NoLength THEN <<>>
                                              ELSE Header(emitted[Done + 1])
    IN  ~failed =>
            FlattenSeq(<<behind, buffer>> \o chunks \o <<sink>>) =
                FlattenSeq([i \in 1 .. Len(emitted) - Done |->
                                                Frame(emitted[Done + i])])

(* "If the buffer doesn't contain a full message; await another iteration" *)
(* and what lies behind a message is kept: start() should never throw.     *)
NeverFails == ~failed

(* The loop is thrown out of only by a chunk with tokens of two messages:  *)
(* wherever else the stream is cut, what it decodes is one message.        *)
FailsOnlyOnBatches == failed => batched

(* Nothing stays behind in a loop that takes one message a chunk: when all *)
(* the server wrote has been read, the buffer is empty, each inbox holds   *)
(* everything of its kind, and who still waits for an answer waits for the *)
(* server.                                                                 *)
NothingStaysBehind ==
    ~failed /\ sink = <<>> /\ chunks = <<>> =>
        /\ buffer = <<>> /\ contentLength = NoLength
        /\ notifications = OfKind("notification")
        /\ requests = OfKind("request")
        /\ \A r \in Requests : client[r] = "waiting" =>
              r \in handling \/ Contains(intoServer, r)

(* Every request is answered, unless the loop was thrown out of.           *)
EveryRequestAnswered ==
    \A r \in Requests : client[r] = "waiting" ~> client[r] = "answered" \/ failed

=============================================================================
