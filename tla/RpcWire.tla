------------------------------- MODULE RpcWire -------------------------------
(***************************************************************************)
(* One connection between a client and a server, down to the bytes: the    *)
(* client's login calls are serialised, framed and sent up; the server     *)
(* takes them off its buffer, parses the header, finds the method, parses  *)
(* the request and lets the service fill in a response; the response goes  *)
(* down the same way and is parsed into the object the client gave.        *)
(*                                                                         *)
(* Composes Framing (two pipes, "up" and "down") with Messages.  The map   *)
(* of outstanding calls, the worker threads and the life of the objects    *)
(* are those of RpcChannel and appear here only as sets of calls.          *)
(***************************************************************************)
EXTENDS Messages, Framing

CONSTANTS
    Cuts,       \* bound: places inside a frame at which a piece may end
    MaxCalls,   \* bound: calls the client makes
    MaxForeign  \* bound: frames of a peer that is built from other sources

ASSUME WireAssumption == Pipes = {"up", "down"}

\* id_ is a signed number of 64 bits.
ASSUME CallsAssumption == MaxCalls \in Nat /\ Above(Above(Above(MaxCalls))) < 32768

(* Strings are single bytes: what they say does not matter, only that they
   differ. *)
UserServiceRpc == <<85>>
Login          == <<76>>
Register       == <<82>>
Name           == <<110>>
Password       == <<112>>
Rejected       == <<114>>   \* the error message of a rejected login

VARIABLES
    peer,         \* who is built from other sources: "nobody", "client", "server"
    lastId,       \* id_ of the client's channel
    outstandings, \* ids in the client's outstandings_
    tasks,        \* ids of the requests the service works on
    built,        \* history: [call, response] the service filled in
    results,      \* history: [call, response, parsed] the closures saw
    counted,      \* calls counted in g_successCount
    foreign,      \* frames sent by the foreign peer
    crashed       \* the processes that are gone

callVars == <<peer, lastId, outstandings, tasks, built, results, counted, foreign, crashed>>
wireVars == <<frameVars, callVars>>

-----------------------------------------------------------------------------
(* What the programs write. *)

Request(call, svc, method, args) ==
    LET h == set_id(set_type(New(RpcHeader), REQUEST), call)
    IN  set_payload(set_method_name(set_service_name(h, svc), method), args)

\* Mutant of Response: the id of the request is not carried over.
ResponseWithoutId(call, result_bytes) ==
    set_payload(set_type(New(RpcHeader), RESPONSE), result_bytes)

Response(call, result_bytes) ==
    set_payload(set_id(set_type(New(RpcHeader), RESPONSE), call), result_bytes)

Framed(h) == SerializeToString(RpcHeader, h)

LoginArgs == SerializeToString(LoginRequest,
                 set_pwd(set_name(New(LoginRequest), Name), Password))

\* The calls of this client, and one of a foreign client.
CallIds == 1..MaxCalls \cup {100}

LoginCall == [call \in CallIds |-> Framed(Request(call, UserServiceRpc, Login, LoginArgs))]

\* What the services write into the response of a login; the inline one accepts
\* every login.
LoginResult(ok) ==
    LET new  == New(LoginResponse)
        code == set_errmsg(set_errcode(result(new), IF ok THEN 0 ELSE 1),
                           IF ok THEN <<>> ELSE Rejected)
    IN  set_success(mutable_result(new, code), IF ok THEN 1 ELSE 0)

(* What a peer built from other sources may write besides: a header that does
   not parse, an empty one, one with a field this version does not know, a
   request for another service or method, a payload that does not parse or is
   too long for the reader. *)
Garbled       == <<26, 9, 1>>
LaterField    == <<56, 1>>
LongPassword  == [i \in 1..40 |-> 120]
ForeignCalls  == {Garbled, <<>>, LoginCall[100] \o LaterField,
                  Framed(Request(101, <<1>>, Login, LoginArgs)),
                  Framed(Request(102, UserServiceRpc, <<1>>, LoginArgs)),
                  Framed(Request(103, UserServiceRpc, Login, Garbled)),
                  Framed(Request(104, UserServiceRpc, Register, <<8, 1>>)),
                  Framed(Request(105, UserServiceRpc, Login,
                      SerializeToString(LoginRequest, set_pwd(New(LoginRequest), LongPassword))))}
UpBodies == {LoginCall[c] : c \in CallIds} \cup ForeignCalls

(* onRPCMessage of the server, for a REQUEST: each of the first three finds
   nothing to call and returns without an answer. *)
UnknownService(h) == service_name(h) # UserServiceRpc
UnknownMethod(h)  == method_name(h) \notin {Login, Register}

GetRequestPrototype(method) == IF method = Login THEN LoginRequest ELSE RegisterRequest

BadArguments(h) ==
    LET t == GetRequestPrototype(method_name(h))
    IN  ~ParseFromString(t, New(t), payload(h)).ok

(* The method that is called for a request, or "none". *)
Callee(h) ==
    CASE UnknownService(h) \/ UnknownMethod(h) \/ BadArguments(h) -> "none"
      [] method_name(h) = Login -> "Login"
      [] OTHER -> "Register"

\* Every header is parsed into a new message.
ParsedHeader(b) == ParseFromString(RpcHeader, New(RpcHeader), b)

\* The ids the service has to answer.
AnswerIds == {id(h) : h \in {g \in {ParsedHeader(b).m : b \in UpBodies} : Callee(g) = "Login"}}

LoginReply(call, ok) ==
    Framed(Response(call, SerializeToString(LoginResponse, LoginResult(ok))))

\* An answer without result, one that breaks off behind it, one with a field more.
ForeignResults == {<<16, 1>>, <<10, 2, 8, 1, 26, 9>>,
                   SerializeToString(LoginResponse, LoginResult(FALSE)) \o LaterField}
ForeignReplies(call) == {Framed(Response(call, r)) : r \in ForeignResults}

Replies == [call \in AnswerIds |-> [own     |-> [ok \in BOOLEAN |-> LoginReply(call, ok)],
                                    foreign |-> ForeignReplies(call)]]

AllBodies ==
    UpBodies \cup UNION {{r.own[ok] : ok \in BOOLEAN} \cup r.foreign : r \in Range(Replies)}

-----------------------------------------------------------------------------
\* The results of parsing, one for each of the bodies there can be.
Parsed == [b \in AllBodies |-> ParsedHeader(b)]

HeaderParses(b) == Parsed[b].ok

Header(b) == Parsed[b].m

CalleeOf == [b \in AllBodies |-> Callee(Header(b))]

\* What framing leaves open: the bodies, and which of them parse.
ASSUME BodiesAssumption == Bodies = AllBodies /\ \A b \in Bodies : Parses(b) = HeaderParses(b)

WireInit ==
    /\ FrameInit
    /\ peer \in {"nobody", "client", "server"}
    /\ lastId = 0
    /\ outstandings = {} /\ tasks = {}
    /\ built = {} /\ results = {} /\ counted = {}
    /\ foreign = 0
    /\ crashed = {}

(* The client calls: the entry is made before the bytes are sent.  After its
   own shutdown the connection drops what is sent. *)
CallLogin ==
    /\ "client" \notin crashed
    /\ lastId < MaxCalls
    /\ lastId' = lastId + 1
    /\ outstandings' = outstandings \cup {lastId + 1}
    /\ IF refused["down"] THEN UNCHANGED frameVars ELSE Send("up", LoginCall[lastId + 1])
    /\ UNCHANGED <<peer, tasks, built, results, counted, foreign, crashed>>

(* CallMethod of the service: Login is implemented, Register is the generated
   one, which calls SetFailed on the controller, a null pointer here. *)
Call(h, callee) ==
    \/ /\ type(h) # REQUEST \/ callee = "none"  \* no call of its own is outstanding
       /\ UNCHANGED <<tasks, crashed>>
    \/ /\ type(h) = REQUEST /\ callee = "Login"
       /\ tasks' = tasks \cup {id(h)}
       /\ UNCHANGED crashed
    \/ /\ type(h) = REQUEST /\ callee = "Register"
       /\ crashed' = crashed \cup {"server"}
       /\ UNCHANGED tasks

Serve(b) == Call(Header(b), CalleeOf[b])

ServerTakes ==
    /\ "server" \notin crashed
    /\ \E f \in Frames("up") : TakeMessage("up", f) /\ Serve(f.body)
    /\ UNCHANGED <<peer, lastId, outstandings, built, results, counted, foreign>>

(* The login method runs, at once or in a thread of the pool, and its closure
   sends the response, unless the server has shut its half of the connection
   down for a bad length: then send drops it. *)
RunLogin ==
    /\ "server" \notin crashed
    /\ \E call \in tasks, ok \in BOOLEAN :
          /\ tasks' = tasks \ {call}
          /\ built' = built \cup {[call |-> call, response |-> LoginResult(ok)]}
          /\ IF refused["up"] THEN UNCHANGED frameVars
             ELSE Send("down", Replies[call].own[ok])
    /\ UNCHANGED <<peer, lastId, outstandings, results, counted, foreign, crashed>>

(* onRPCMessage of the client.  A response that answers nothing is ignored.
   Otherwise its entry is erased, the payload is parsed into the response
   object, a failure is only logged, and the closure runs: it counts a
   success when errcode is 0, the value it also has by default. *)
ParsedResult ==
    [b \in AllBodies |-> ParseFromString(LoginResponse, New(LoginResponse), payload(Header(b)))]

\* Mutant of Answer: responses are taken to come in the order of the calls.
AnswerOldest(b) ==
    LET call     == CHOOSE c \in outstandings : \A d \in outstandings : c <= d
        response == ParsedResult[b].m
    IN  /\ outstandings' = outstandings \ {call}
        /\ results' = results \cup {[call |-> call, response |-> response,
                                     parsed |-> ParsedResult[b].ok]}
        /\ counted' = IF errcode(result(response)) = 0 THEN counted \cup {call} ELSE counted
        /\ UNCHANGED crashed

\* Mutant of Answer: the closure runs before the payload is parsed.
AnswerUnparsed(b) ==
    LET call     == id(Header(b))
        response == New(LoginResponse)
    IN  /\ outstandings' = outstandings \ {call}
        /\ results' = results \cup {[call |-> call, response |-> ParsedResult[b].m,
                                     parsed |-> ParsedResult[b].ok]}
        /\ counted' = IF errcode(result(response)) = 0 THEN counted \cup {call} ELSE counted
        /\ UNCHANGED crashed

Answer(b) ==
    LET call     == id(Header(b))
        response == ParsedResult[b].m
    IN  /\ outstandings' = outstandings \ {call}
        /\ results' = results \cup {[call |-> call, response |-> response,
                                     parsed |-> ParsedResult[b].ok]}
        /\ counted' = IF errcode(result(response)) = 0 THEN counted \cup {call} ELSE counted
        /\ UNCHANGED crashed

(* A request reaches a channel without services: services_ was never set, so
   that anything may happen, to the process or to the request alone. *)
Misdirected ==
    /\ UNCHANGED <<outstandings, results, counted>>
    /\ crashed' \in {crashed, crashed \cup {"client"}}

ClientTakes ==
    /\ "client" \notin crashed
    /\ \E f \in Frames("down") :
          LET h == Header(f.body)
          IN  /\ TakeMessage("down", f)
              /\ IF type(h) = RESPONSE
                 THEN IF id(h) \in outstandings THEN Answer(f.body)
                      ELSE UNCHANGED <<outstandings, results, counted, crashed>>
                 ELSE Misdirected
    /\ UNCHANGED <<peer, lastId, tasks, built, foreign>>

\* The other ways through the loop of onMessage.
LoopEnds(p) == HalfPacket(p) \/ InvalidLength(p) \/ ParseFails(p)

Reader(p) == IF p = "up" THEN "server" ELSE "client"

(* Where a piece of the stream may end: behind a frame, or at one of the Cuts
   inside of it.  All that onMessage can tell is whether the length field and
   whether the message are there, so that a cut in each is enough. *)
PieceEnds(p) ==
    UNION {{f.start + k : k \in (Cuts \cap 1..Size(f)) \cup {Size(f)}} : f \in Frames(p)}

Receive(p) ==
    /\ Reader(p) \notin crashed
    /\ (\E to \in PieceEnds(p) : Arrive(p, to)) \/ LoopEnds(p)
    /\ UNCHANGED callVars

\* A client or a server built from other sources.
ForeignFrame(p) ==
    /\ foreign < MaxForeign
    /\ foreign' = foreign + 1
    /\ \/ \E n \in BadLengths : SendBadLength(p, n)
       \/ p = "up" /\ \E b \in ForeignCalls : Send(p, b)
       \/ p = "down" /\ \E b \in {Garbled, <<>>} \cup UNION {Replies[c].foreign : c \in tasks} :
             Send(p, b)
    /\ UNCHANGED <<peer, lastId, outstandings, tasks, built, results, counted, crashed>>

ForeignClient == peer = "client" /\ "client" \notin crashed /\ ForeignFrame("up")
ForeignServer == peer = "server" /\ "server" \notin crashed /\ ForeignFrame("down")

WireNext ==
    \/ CallLogin \/ ServerTakes \/ RunLogin \/ ClientTakes
    \/ \E p \in Pipes : Receive(p)
    \/ ForeignClient \/ ForeignServer

WireSpec == WireInit /\ [][WireNext]_wireVars

(* The loops of both ends run whenever there is something to read, and the
   threads of the service are scheduled.  Nobody has to call. *)
WireFairSpec ==
    /\ WireSpec
    /\ WF_wireVars(ServerTakes) /\ WF_wireVars(ClientTakes) /\ WF_wireVars(RunLogin)
    /\ \A p \in Pipes : WF_wireVars(Receive(p))

-----------------------------------------------------------------------------
(* The response the closure of a call sees is the one the service filled in
   for this very call, field by field, after two encodings and a stream cut
   anywhere, as long as the server is built from this code. *)
ResponseIntact ==
    \A r \in results :
        /\ r.call \in 1..lastId
        /\ peer # "server" =>
             r.parsed /\ [call |-> r.call, response |-> r.response] \in built

(* g_successCount counts a call only if the service accepted the login, or if
   the answer is a foreign one: there a missing result and a payload that does
   not parse count as success too. *)
SuccessMeansAccepted ==
    \A c \in counted :
        \/ [call |-> c, response |-> LoginResult(TRUE)] \in built
        \/ peer = "server" /\ \E r \in results : r.call = c

(* What the generated code must satisfy, on every header in a stream, every
   request and every response in play: the size computed before writing is the number of
   bytes written, parsing gives back what was written, and parsing one message
   behind another is merging them. *)
RoundTrip(t, m) ==
    LET b == SerializeToString(t, m)
    IN  /\ Len(b) = ByteSizeLong(t, m)
        /\ ParseFromString(t, New(t), b) = [m |-> m, ok |-> TRUE]
        /\ CopyFrom(t, New(t), m) = m

MergeLaw(t, m, n) ==
    ParseFromString(t, m, SerializeToString(t, m) \o SerializeToString(t, n))
        = [m |-> MergeFrom(t, m, n), ok |-> TRUE]

\* Those of the messages that keep the laws, alone and with any other.
Lawful(t, messages) ==
    {m \in messages : RoundTrip(t, m) /\ \A n \in messages : MergeLaw(t, m, n)}

AllHeaders   == {Header(b) : b \in AllBodies}
AllResponses == {LoginResult(ok) : ok \in BOOLEAN} \cup {ParsedResult[b].m : b \in AllBodies}

LawfulHeaders   == Lawful(RpcHeader, AllHeaders)
LawfulResponses == Lawful(LoginResponse, AllResponses)

(* The bodies whose arguments, whatever of them could be parsed, keep them. *)
LawfulArguments ==
    {b \in AllBodies :
        UnknownMethod(Header(b)) \/
        LET t == GetRequestPrototype(method_name(Header(b)))
        IN  RoundTrip(t, ParseFromString(t, New(t), payload(Header(b))).m)}

Headers(p) == {Header(stream[p][i].body) : i \in DOMAIN stream[p]}

Responses == {r.response : r \in results \cup built}

CodecLaws ==
    /\ \A p \in Pipes : Headers(p) \subseteq LawfulHeaders
    /\ \A f \in Frames("up") : f.body \in LawfulArguments
    /\ Responses \subseteq LawfulResponses

(* A call is answered, unless a process is gone, one end has refused to read
   on, or something waits behind a header that did not parse and no byte
   comes behind it. *)
Lingers(p) ==
    /\ consumed[p] < received[p] /\ received[p] = Written(p) /\ ~reading[p]
    /\ taken[p] > 0 /\ ~Parses(stream[p][taken[p]].body)

Answered ==
    \A c \in 1..MaxCalls :
        c \in outstandings ~>
            \/ c \notin outstandings
            \/ crashed # {}
            \/ \E p \in Pipes : refused[p] \/ Lingers(p)
=============================================================================
