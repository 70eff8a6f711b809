---------------------------- MODULE RpcWireProofs ----------------------------
(***************************************************************************)
(* Client and server do nothing to the pipes that a pipe does not allow:   *)
(* what is proved about framing in general holds of this connection, for   *)
(* any number of calls, any bound on foreign frames and any cuts.          *)
(*                                                                         *)
(* The messages the programs build are well-formed and short, so that the  *)
(* laws of MessagesProofs hold of them, and an answer is parsed into what  *)
(* was filled in.  WireInv carries this through the streams: what is going *)
(* up are calls, and what is going down are answers to calls the service   *)
(* has worked on, as long as the server is built from this code.           *)
(***************************************************************************)
EXTENDS RpcWire, FramingProofs, MessagesProofs

\* The ends of the pieces are positions in the stream.
LEMMA PieceTypes ==
    ASSUME TypeOK, NEW p \in Pipes, NEW to \in PieceEnds(p), Arrive(p, to)
    PROVE  to \in 1..Written(p)
<1>1. PICK f \in Frames(p), k \in Nat : to = f.start + k
  <2>1. PICK f \in Frames(p) :
           to \in {f.start + k : k \in (Cuts \cap 1..Size(f)) \cup {Size(f)}}
    BY DEF PieceEnds
  <2>2. f \in Frame
    BY PipeTypes DEF Frames
  <2>3. Size(f) \in Nat
    BY <2>2, SizeFacts
  <2>. QED
    BY <2>1, <2>3
<1>2. f.start \in Nat
  BY PipeTypes DEF Frames, Frame
<1>3. to \in Nat
  BY <1>1, <1>2
<1>4. to > received[p] /\ to <= Written(p) /\ received[p] \in Nat /\ Written(p) \in Nat
  BY PipeTypes DEF Arrive
<1>. QED
  BY <1>3, <1>4

LEMMA WireStep == TypeOK /\ WireNext => [FrameNext]_frameVars
<1>. SUFFICES ASSUME TypeOK, WireNext PROVE [FrameNext]_frameVars
  OBVIOUS
<1>. USE WireAssumption
<1>1. ASSUME NEW p \in Pipes, NEW b, Send(p, b) PROVE FrameNext
  BY <1>1 DEF FrameNext, Send
<1>2. ASSUME NEW p \in Pipes, NEW f \in Frames(p), TakeMessage(p, f) PROVE FrameNext
  BY <1>2 DEF FrameNext
<1>3. CASE CallLogin
  <2>1. CASE Send("up", LoginCall[lastId + 1])
    BY <1>1, <2>1
  <2>2. CASE UNCHANGED frameVars
    BY <2>2
  <2>. QED
    BY <1>3, <2>1, <2>2 DEF CallLogin
<1>4. CASE ServerTakes
  BY <1>2, <1>4 DEF ServerTakes
<1>5. CASE RunLogin
  <2>1. (\E b : Send("down", b)) \/ UNCHANGED frameVars
    BY <1>5, Zenon DEF RunLogin
  <2>. QED
    BY <1>1, <2>1
<1>6. CASE ClientTakes
  <2>1. \E f \in Frames("down") : TakeMessage("down", f)
    BY <1>6, Zenon DEF ClientTakes
  <2>. QED
    BY <1>2, <2>1
<1>7. CASE \E p \in Pipes : Receive(p)
  <2>1. PICK p \in Pipes : Receive(p)
    BY <1>7
  <2>2. CASE \E to \in PieceEnds(p) : Arrive(p, to)
    BY <2>2, PieceTypes DEF FrameNext
  <2>3. CASE LoopEnds(p)
    BY <2>3 DEF LoopEnds, FrameNext
  <2>. QED
    BY <2>1, <2>2, <2>3 DEF Receive
<1>8. ASSUME NEW p \in Pipes, ForeignFrame(p) PROVE FrameNext
  <2>1. \/ \E n \in BadLengths : SendBadLength(p, n)
        \/ \E b \in Bodies : Send(p, b)
    BY <1>8, Zenon DEF ForeignFrame, Send
  <2>. QED
    BY <2>1 DEF FrameNext
<1>9. CASE ForeignClient \/ ForeignServer
  BY <1>8, <1>9 DEF ForeignClient, ForeignServer
<1>. QED
  BY <1>3, <1>4, <1>5, <1>6, <1>7, <1>9 DEF WireNext

LEMMA WireInvariance == WireSpec => []IInv
<1>1. WireInit => IInv
  BY InitInv DEF WireInit
<1>2. IInv /\ [WireNext]_wireVars => IInv'
  <2>1. CASE WireNext
    BY <2>1, WireStep, NextInv DEF IInv
  <2>2. CASE UNCHANGED wireVars
    BY <2>2, NextInv DEF wireVars
  <2>. QED
    BY <2>1, <2>2
<1>. QED
  BY <1>1, <1>2, PTL DEF WireSpec

(* The login calls and answers of the example programs, the worker threads of
   the service and peers built from other sources move the pipes only as
   framing does: so the boundaries of the messages are kept, nothing that
   could be handled lingers, and both directions are ordered channels. *)
THEOREM WireImplementsFraming == WireSpec => FrameSpec
<1>1. WireInit => FrameInit
  BY DEF WireInit
<1>2. IInv /\ [WireNext]_wireVars => [FrameNext]_frameVars
  <2>1. CASE WireNext
    BY <2>1, WireStep DEF IInv
  <2>2. CASE UNCHANGED wireVars
    BY <2>2 DEF wireVars
  <2>. QED
    BY <2>1, <2>2
<1>. QED
  BY <1>1, <1>2, WireInvariance, PTL DEF WireSpec, FrameSpec

-----------------------------------------------------------------------------
(* The messages of this connection are well-formed. *)

LEMMA Types ==
    /\ MessageType(RpcHeader) /\ DOMAIN RpcHeader = 1..5
    /\ RpcHeader[1] = "enum" /\ RpcHeader[2] = "fixed64"
    /\ \A k \in 3..5 : RpcHeader[k] = "bytes"
    /\ MessageType(LoginRequest) /\ DOMAIN LoginRequest = 1..2
    /\ LoginRequest[1] = "bytes" /\ LoginRequest[2] = "bytes" /\ Len(LoginRequest) = 2
    /\ MessageType(LoginResponse) /\ DOMAIN LoginResponse = 1..2
    /\ LoginResponse[1] = "message" /\ LoginResponse[2] = "bool" /\ Len(LoginResponse) = 2
    /\ MessageType(RegisterRequest) /\ DOMAIN RegisterRequest = 1..3
    /\ RegisterRequest[1] = "uint32" /\ RegisterRequest[2] = "bytes" /\ RegisterRequest[3] = "bytes"
    /\ MessageType(Embedded) /\ DOMAIN Embedded = 1..2
    /\ Embedded[1] = "int32" /\ Embedded[2] = "bytes"
<1>1. MessageType(RpcHeader) /\ DOMAIN RpcHeader = 1..5
  BY DEF RpcHeader, MessageType, Kinds
<1>2. RpcHeader[1] = "enum" /\ RpcHeader[2] = "fixed64" /\ \A k \in 3..5 : RpcHeader[k] = "bytes"
  BY DEF RpcHeader
<1>3. MessageType(LoginRequest) /\ DOMAIN LoginRequest = 1..2 /\ Len(LoginRequest) = 2
  BY DEF LoginRequest, MessageType, Kinds
<1>4. LoginRequest[1] = "bytes" /\ LoginRequest[2] = "bytes"
  BY DEF LoginRequest
<1>5. MessageType(LoginResponse) /\ DOMAIN LoginResponse = 1..2 /\ Len(LoginResponse) = 2
  BY DEF LoginResponse, MessageType, Kinds
<1>6. LoginResponse[1] = "message" /\ LoginResponse[2] = "bool"
  BY DEF LoginResponse
<1>7. MessageType(RegisterRequest) /\ DOMAIN RegisterRequest = 1..3
  BY DEF RegisterRequest, MessageType, Kinds
<1>8. /\ RegisterRequest[1] = "uint32" /\ RegisterRequest[2] = "bytes"
      /\ RegisterRequest[3] = "bytes"
  BY DEF RegisterRequest
<1>9. Embedded[1] = "int32" /\ Embedded[2] = "bytes"
  BY DEF Embedded, ResultCode
<1>. QED
  BY <1>1, <1>2, <1>3, <1>4, <1>5, <1>6, <1>7, <1>8, <1>9, EmbeddedFacts

\* What a field of bytes can hold.
Short(b) == b \in Seq(Byte) /\ Len(b) < Limit

LEMMA FewBytes ==
    ASSUME NEW b \in Seq(Byte), Len(b) <= 100
    PROVE  Short(b)
<1>1. 100 < Limit
  BY SMT DEF Limit
<1>. QED
  BY <1>1, LimitNat DEF Short

LEMMA AboveGrows ==
    ASSUME NEW m \in Nat, NEW n \in Nat, m <= n
    PROVE  Above(m) \in Nat /\ Above(n) \in Nat /\ Above(m) <= Above(n)
BY SMT DEF Above

\* id_ is positive in all its 64 bits, and so are the ids of the foreign calls.
LEMMA IdsFit == \A c \in CallIds \cup 100..105 : IsFixed64(c)
<1>1. ASSUME NEW c \in 1..MaxCalls
      PROVE  IsFixed64(c)
  <2>. DEFINE a == Above(Above(Above(c)))
              b == Above(Above(Above(MaxCalls)))
  <2>1. c \in Nat /\ MaxCalls \in Nat /\ c <= MaxCalls
    BY <1>1, CallsAssumption
  <2>2. a \in Nat /\ b \in Nat /\ a <= b
    <3>1. Above(c) \in Nat /\ Above(MaxCalls) \in Nat /\ Above(c) <= Above(MaxCalls)
      BY <2>1, AboveGrows
    <3>2. /\ Above(Above(c)) \in Nat /\ Above(Above(MaxCalls)) \in Nat
          /\ Above(Above(c)) <= Above(Above(MaxCalls))
      BY <3>1, AboveGrows
    <3>. QED
      BY <3>2, AboveGrows
  <2>3. b < 32768
    BY CallsAssumption
  <2>. HIDE DEF a, b
  <2>4. IsWord(a)
    BY <2>2, <2>3 DEF IsWord
  <2>5. Above(a) = 0
    BY <2>4, AboveWord
  <2>. QED
    BY <2>1, <2>5 DEF IsFixed64, a
<1>2. ASSUME NEW c \in 100..105
      PROVE  IsFixed64(c)
  <2>1. Above(c) = 0 /\ Above(0) = 0
    BY SMT DEF Above
  <2>. QED
    BY <2>1 DEF IsFixed64
<1>. QED
  BY <1>1, <1>2 DEF CallIds

LEMMA Strings ==
    /\ Short(UserServiceRpc) /\ Short(Login) /\ Short(Register) /\ Short(<<1>>)
    /\ Short(Garbled) /\ Short(LaterField) /\ Short(<<8, 1>>) /\ Short(<<>>)
    /\ LongPassword \in Seq(Byte) /\ Len(LongPassword) = 40
    /\ Name \in Seq(Byte) /\ Len(Name) = 1 /\ Password \in Seq(Byte) /\ Len(Password) = 1
    /\ Rejected \in Seq(Byte) /\ Len(Rejected) = 1
<1>1. \A x \in 0..255, y \in 0..255 : /\ <<x>> \in Seq(Byte) /\ Len(<<x>>) = 1
                                      /\ <<x, y>> \in Seq(Byte) /\ Len(<<x, y>>) = 2
  BY DEF Byte
<1>2. ASSUME NEW x \in 0..255, NEW y \in 0..255
      PROVE  Short(<<x>>) /\ Short(<<x, y>>)
  <2>. DEFINE p == <<x>>
              q == <<x, y>>
  <2>1. p \in Seq(Byte) /\ Len(p) <= 100 /\ q \in Seq(Byte) /\ Len(q) <= 100
    <3>1. p \in Seq(Byte) /\ Len(p) = 1 /\ q \in Seq(Byte) /\ Len(q) = 2
      BY <1>1, Zenon
    <3>. HIDE DEF p, q
    <3>. QED
      BY <3>1
  <2>. HIDE DEF p, q
  <2>2. Short(p) /\ Short(q)
    BY <2>1, FewBytes
  <2>. QED
    BY <2>2 DEF p, q
<1>3. /\ Short(UserServiceRpc) /\ Short(Login) /\ Short(Register) /\ Short(<<1>>)
      /\ Short(LaterField) /\ Short(<<8, 1>>)
  <2>1. \A x \in {1, 8, 56, 76, 82, 85} : x \in 0..255
    OBVIOUS
  <2>2. Short(<<85>>) /\ Short(<<76>>) /\ Short(<<82>>) /\ Short(<<1>>)
    BY <1>2, <2>1, Zenon
  <2>3. Short(<<56, 1>>) /\ Short(<<8, 1>>)
    BY <1>2, <2>1, Zenon
  <2>. QED
    BY <2>2, <2>3 DEF UserServiceRpc, Login, Register, LaterField
<1>4. Short(Garbled)
  <2>1. Garbled \in Seq(Byte) /\ Len(Garbled) = 3
    BY DEF Garbled, Byte
  <2>. QED
    BY <2>1, FewBytes
<1>5. Short(<<>>)
  <2>. DEFINE e == <<>>
  <2>1. e \in Seq(Byte) /\ Len(e) <= 100
    OBVIOUS
  <2>. HIDE DEF e
  <2>2. Short(e)
    BY <2>1, FewBytes
  <2>. QED
    BY <2>2 DEF e
<1>6. LongPassword \in Seq(Byte) /\ Len(LongPassword) = 40
  <2>1. \A i \in 1..40 : 120 \in Byte
    BY DEF Byte
  <2>. QED
    BY <2>1 DEF LongPassword
<1>7. /\ Name \in Seq(Byte) /\ Len(Name) = 1 /\ Password \in Seq(Byte) /\ Len(Password) = 1
      /\ Rejected \in Seq(Byte) /\ Len(Rejected) = 1
  <2>1. 110 \in 0..255 /\ 112 \in 0..255 /\ 114 \in 0..255
    OBVIOUS
  <2>2. Name \in Seq(Byte) /\ Len(Name) = 1
    BY <1>1, <2>1 DEF Name
  <2>3. Password \in Seq(Byte) /\ Len(Password) = 1
    BY <1>1, <2>1 DEF Password
  <2>4. Rejected \in Seq(Byte) /\ Len(Rejected) = 1
    BY <1>1, <2>1 DEF Rejected
  <2>. QED
    BY <2>2, <2>3, <2>4
<1>. QED
  BY <1>3, <1>4, <1>5, <1>6, <1>7

LEMMA Fillings ==
    /\ \A v : Short(v) => IsValue("bytes", v)
    /\ \A v : IsFixed64(v) => IsValue("fixed64", v)
    /\ \A v \in {0, 1} : IsValue("bool", v) /\ IsValue("enum", v) /\ IsPlain("int32", v)
    /\ \A s : IsFlat(s) => IsValue("message", {s})
<1>1. \A v : Short(v) => IsValue("bytes", v)
  BY DEF Short, IsValue, IsPlain
<1>2. \A v : IsFixed64(v) => IsValue("fixed64", v)
  BY DEF IsValue, IsPlain
<1>3. ASSUME NEW v \in {0, 1}
      PROVE  IsValue("bool", v) /\ IsValue("enum", v) /\ IsPlain("int32", v)
  <2>1. v \in Nat /\ v < Limit
    BY LimitNat, SMT DEF Limit
  <2>2. IsPlain("bool", v) /\ IsPlain("enum", v) /\ IsPlain("int32", v)
    BY <2>1 DEF IsPlain
  <2>. QED
    BY <2>2 DEF IsValue
<1>4. ASSUME NEW s, IsFlat(s)
      PROVE  IsValue("message", {s})
  BY <1>4, OnlyFacts DEF IsValue
<1>. QED
  BY <1>1, <1>2, <1>3, <1>4

LEMMA RequestFacts ==
    ASSUME NEW call, IsFixed64(call), NEW svc, Short(svc), NEW method, Short(method),
           NEW args, Short(args)
    PROVE  WellFormed(RpcHeader, Request(call, svc, method, args))
<1>. DEFINE h0 == New(RpcHeader)
            h1 == set_type(h0, REQUEST)
            h2 == set_id(h1, call)
            h3 == set_service_name(h2, svc)
            h4 == set_method_name(h3, method)
            h5 == set_payload(h4, args)
<1>0. /\ h1 = Set(h0, 1, REQUEST) /\ h2 = Set(h1, 2, call) /\ h3 = Set(h2, 3, svc)
      /\ h4 = Set(h3, 4, method) /\ h5 = Set(h4, 5, args)
      /\ Request(call, svc, method, args) = h5
  BY DEF set_type, set_id, set_service_name, set_method_name, set_payload, Request
<1>1. /\ IsValue(RpcHeader[1], REQUEST) /\ IsValue(RpcHeader[2], call)
      /\ IsValue(RpcHeader[3], svc) /\ IsValue(RpcHeader[4], method) /\ IsValue(RpcHeader[5], args)
      /\ \A k \in 1..5 : k \in DOMAIN RpcHeader
      /\ 1 \in 1..5 /\ 2 \in 1..5 /\ 3 \in 1..5 /\ 4 \in 1..5 /\ 5 \in 1..5
  <2>1. REQUEST \in {0, 1} /\ 3 \in 3..5 /\ 4 \in 3..5 /\ 5 \in 3..5
    BY DEF REQUEST
  <2>. QED
    BY <2>1, Types, Fillings
<1>2. WellFormed(RpcHeader, h0)
  BY Types, NewFacts
<1>. HIDE DEF h0, h1, h2, h3, h4, h5
<1>3. WellFormed(RpcHeader, h1)
  BY <1>0, <1>1, <1>2, SetWellFormed
<1>4. WellFormed(RpcHeader, h2)
  BY <1>0, <1>1, <1>3, SetWellFormed
<1>5. WellFormed(RpcHeader, h3)
  BY <1>0, <1>1, <1>4, SetWellFormed
<1>6. WellFormed(RpcHeader, h4)
  BY <1>0, <1>1, <1>5, SetWellFormed
<1>7. WellFormed(RpcHeader, h5)
  BY <1>0, <1>1, <1>6, SetWellFormed
<1>. QED
  BY <1>0, <1>7

LEMMA ResponseFacts ==
    ASSUME NEW call, IsFixed64(call), NEW bytes, Short(bytes), NEW h, h = Response(call, bytes)
    PROVE  WellFormed(RpcHeader, h) /\ type(h) = RESPONSE /\ id(h) = call /\ payload(h) = bytes
<1>. DEFINE h0 == New(RpcHeader)
            h1 == set_type(h0, RESPONSE)
            h2 == set_id(h1, call)
            h3 == set_payload(h2, bytes)
<1>0. /\ h1 = Set(h0, 1, RESPONSE) /\ h2 = Set(h1, 2, call) /\ h3 = Set(h2, 5, bytes)
      /\ h = h3
  BY DEF set_type, set_id, set_payload, Response
<1>1. /\ IsValue(RpcHeader[1], RESPONSE) /\ IsValue(RpcHeader[2], call)
      /\ IsValue(RpcHeader[5], bytes)
      /\ 1 \in DOMAIN RpcHeader /\ 2 \in DOMAIN RpcHeader /\ 5 \in DOMAIN RpcHeader
  <2>1. RESPONSE \in {0, 1} /\ 5 \in 3..5 /\ 1 \in 1..5 /\ 2 \in 1..5 /\ 5 \in 1..5
    BY DEF RESPONSE
  <2>. QED
    BY <2>1, Types, Fillings
<1>2. WellFormed(RpcHeader, h0)
  BY Types, NewFacts
<1>. HIDE DEF h0, h1, h2, h3
<1>3. WellFormed(RpcHeader, h1) /\ h1.f[1] = RESPONSE
  BY <1>0, <1>1, <1>2, SetWellFormed
<1>4. WellFormed(RpcHeader, h2) /\ h2.f[1] = RESPONSE /\ h2.f[2] = call
  <2>1. 1 # 2
    OBVIOUS
  <2>. QED
    BY <1>0, <1>1, <1>3, <2>1, SetWellFormed
<1>5. WellFormed(RpcHeader, h3) /\ h3.f[1] = RESPONSE /\ h3.f[2] = call /\ h3.f[5] = bytes
  <2>1. 1 # 5 /\ 2 # 5
    OBVIOUS
  <2>. QED
    BY <1>0, <1>1, <1>4, <2>1, SetWellFormed
<1>. QED
  BY <1>0, <1>5 DEF type, id, payload

\* A request of a few bytes is short enough for a payload.
LEMMA LoginRequestFacts ==
    ASSUME NEW m, WellFormed(LoginRequest, m), m.unknown = <<>>,
           Len(m.f[1]) \in 0..40, Len(m.f[2]) \in 0..40
    PROVE  Short(SerializeToString(LoginRequest, m))
<1>. DEFINE b == SerializeToString(LoginRequest, m)
            s1 == FieldSize(LoginRequest[1], m.f[1])
            s2 == FieldSize(LoginRequest[2], m.f[2])
<1>1. b \in Seq(Byte) /\ Len(b) = ByteSizeLong(LoginRequest, m)
  BY Types, SizeIsLength
<1>2. ByteSizeLong(LoginRequest, m) = s1 + s2
  BY Types, TwoFields
<1>3. s1 \in 0..49 /\ s2 \in 0..49
  <2>. DEFINE v1 == m.f[1]
              v2 == m.f[2]
  <2>1. s1 = FieldSize("bytes", v1) /\ s2 = FieldSize("bytes", v2)
    BY Types
  <2>2. Len(v1) \in 0..40 /\ Len(v2) \in 0..40
    OBVIOUS
  <2>. HIDE DEF v1, v2, s1, s2
  <2>. DEFINE kind == "bytes"
  <2>3. kind # "message"
    OBVIOUS
  <2>. HIDE DEF kind
  <2>4. FieldSize(kind, v1) \in 0..49 /\ FieldSize(kind, v2) \in 0..49
    BY <2>2, <2>3, SmallSize
  <2>. QED
    BY <2>1, <2>4 DEF kind
<1>. HIDE DEF b, s1, s2
<1>4. Len(b) <= 100
  BY <1>1, <1>2, <1>3
<1>. QED
  BY <1>1, <1>4, FewBytes DEF b

LEMMA ArgsShort ==
    /\ Short(LoginArgs)
    /\ Short(SerializeToString(LoginRequest, set_pwd(New(LoginRequest), LongPassword)))
<1>. DEFINE q0 == New(LoginRequest)
            q1 == set_name(q0, Name)
            q2 == set_pwd(q1, Password)
            q3 == set_pwd(q0, LongPassword)
<1>0. q1 = Set(q0, 1, Name) /\ q2 = Set(q1, 2, Password) /\ q3 = Set(q0, 2, LongPassword)
      /\ LoginArgs = SerializeToString(LoginRequest, q2)
  BY DEF set_name, set_pwd, LoginArgs
<1>1. Short(Name) /\ Short(Password) /\ Short(LongPassword)
  <2>1. Len(Name) <= 100 /\ Len(Password) <= 100 /\ Len(LongPassword) <= 100
    BY Strings
  <2>. QED
    BY <2>1, Strings, FewBytes
<1>2. /\ IsValue(LoginRequest[1], Name) /\ IsValue(LoginRequest[2], Password)
      /\ IsValue(LoginRequest[2], LongPassword)
      /\ 1 \in DOMAIN LoginRequest /\ 2 \in DOMAIN LoginRequest /\ 1 # 2
  BY <1>1, Types, Fillings
<1>3. WellFormed(LoginRequest, q0) /\ q0.unknown = <<>> /\ q0.f[1] = <<>>
  <2>1. Default("bytes") = <<>>
    BY DEF Default
  <2>2. 1 \in DOMAIN LoginRequest /\ LoginRequest[1] = "bytes" /\ MessageType(LoginRequest)
    BY Types
  <2>3. q0.f[1] = Default(LoginRequest[1]) /\ WellFormed(LoginRequest, q0) /\ q0.unknown = <<>>
    BY <2>2, NewFacts
  <2>. QED
    BY <2>1, <2>2, <2>3
<1>. HIDE DEF q0, q1, q2, q3
<1>4. WellFormed(LoginRequest, q1) /\ q1.unknown = <<>> /\ q1.f[1] = Name
  BY <1>0, <1>2, <1>3, SetWellFormed
<1>5. WellFormed(LoginRequest, q2) /\ q2.unknown = <<>> /\ q2.f[1] = Name /\ q2.f[2] = Password
  BY <1>0, <1>2, <1>4, SetWellFormed
<1>6. /\ WellFormed(LoginRequest, q3) /\ q3.unknown = <<>> /\ q3.f[1] = <<>>
      /\ q3.f[2] = LongPassword
  BY <1>0, <1>2, <1>3, SetWellFormed
<1>7. Len(q2.f[1]) \in 0..40 /\ Len(q2.f[2]) \in 0..40
  BY <1>5, Strings
<1>8. Len(q3.f[1]) \in 0..40 /\ Len(q3.f[2]) \in 0..40
  BY <1>6, Strings
<1>9. Short(SerializeToString(LoginRequest, q2))
  BY <1>5, <1>7, LoginRequestFacts
<1>10. Short(SerializeToString(LoginRequest, q3))
  BY <1>6, <1>8, LoginRequestFacts
<1>. QED
  BY <1>0, <1>9, <1>10 DEF q0, q3

\* What the service writes into the result.
LoginCode(ok) ==
    set_errmsg(set_errcode(result(New(LoginResponse)), IF ok THEN 0 ELSE 1),
               IF ok THEN <<>> ELSE Rejected)

LEMMA LoginCodeFacts ==
    ASSUME NEW ok \in BOOLEAN, NEW c, c = LoginCode(ok)
    PROVE  /\ IsFlat(c) /\ EmbeddedSize(c) \in 0..98
           /\ errcode(c) = IF ok THEN 0 ELSE 1
<1>. DEFINE v == IF ok THEN 0 ELSE 1
            e == IF ok THEN <<>> ELSE Rejected
            r == New(LoginResponse)
            c0 == New(Embedded)
            c1 == Set(c0, 1, v)
            c2 == Set(c1, 2, e)
            a == FlatSize(Embedded[1], c2.f[1])
            z == FlatSize(Embedded[2], c2.f[2])
<1>1. r.f[1] = {}
  <2>1. Default("message") = {}
    BY DEF Default
  <2>2. 1 \in DOMAIN LoginResponse /\ LoginResponse[1] = "message" /\ MessageType(LoginResponse)
    BY Types
  <2>3. r.f[1] = Default(LoginResponse[1])
    BY <2>2, NewFacts
  <2>. QED
    BY <2>1, <2>2, <2>3
<1>2. result(r) = c0
  BY <1>1, OnlyFacts DEF result
<1>. HIDE DEF r
<1>3. c = c2
  BY <1>2 DEF LoginCode, set_errcode, set_errmsg, r
<1>4. /\ v \in {0, 1} /\ Short(e) /\ Len(e) \in 0..40
  <2>1. Len(Rejected) <= 100
    BY Strings
  <2>2. Short(Rejected) /\ Short(<<>>) /\ Len(Rejected) = 1
    BY <2>1, Strings, FewBytes
  <2>. QED
    BY <2>2
<1>5. IsValue(Embedded[1], v) /\ IsValue(Embedded[2], e)
  BY <1>4, Types, Fillings DEF IsValue
<1>6. 1 \in DOMAIN Embedded /\ 2 \in DOMAIN Embedded /\ 1 # 2 /\ MessageType(Embedded)
  BY Types
<1>7. WellFormed(Embedded, c0) /\ c0.unknown = <<>>
  BY <1>6, NewFacts
<1>. HIDE DEF v, e, c0, c1, c2
<1>8. WellFormed(Embedded, c1) /\ c1.unknown = <<>> /\ c1.f[1] = v
  BY <1>5, <1>6, <1>7, SetWellFormed DEF c1
<1>9. WellFormed(Embedded, c2) /\ c2.unknown = <<>> /\ c2.f[1] = v /\ c2.f[2] = e
  BY <1>5, <1>6, <1>8, SetWellFormed DEF c2
<1>10. \A k \in DOMAIN Embedded : IsPlain(Embedded[k], c2.f[k])
  BY <1>9, EmbeddedFacts DEF WellFormed, IsValue
<1>11. c2.unknown \in Seq(Byte) /\ Len(c2.unknown) = 0
  BY <1>9 DEF WellFormed, HasShape
<1>12. EmbeddedSize(c2) = (Len(c2.unknown) + a) + z /\ Len(SerializeFlat(c2)) = EmbeddedSize(c2)
  BY <1>10, <1>11, EmbeddedSum, FlatLength
<1>13. a \in 0..49 /\ z \in 0..49
  <2>. DEFINE p == c2.f[1]
              q == c2.f[2]
              kind == Embedded[1]
              word == Embedded[2]
  <2>1. kind # "message" /\ word # "message" /\ kind # "bytes" /\ Len(q) \in 0..40
    BY <1>4, <1>9, Types
  <2>. HIDE DEF p, q, kind, word
  <2>2. FlatSize(kind, p) \in 0..49 /\ FlatSize(word, q) \in 0..49
    BY <2>1, SmallSize
  <2>. QED
    BY <2>2 DEF p, q, kind, word
<1>. HIDE DEF a, z
<1>14. EmbeddedSize(c2) \in 0..98
  BY ONLY <1>11, <1>12, <1>13, SMT
<1>15. EmbeddedSize(c2) < Limit
  BY <1>14, SMT DEF Limit
<1>16. IsFlat(c2)
  BY <1>9, <1>10, <1>12, <1>15 DEF WellFormed, IsFlat
<1>. QED
  BY <1>3, <1>9, <1>14, <1>16 DEF errcode, v

(* A login result is well-formed and short, and its errcode says what success
   says. *)
LEMMA LoginResultFacts ==
    ASSUME NEW ok \in BOOLEAN, NEW r, r = LoginResult(ok)
    PROVE  /\ WellFormed(LoginResponse, r)
           /\ errcode(result(r)) = IF ok THEN 0 ELSE 1
           /\ SerializeToString(LoginResponse, r) \in Seq(Byte)
           /\ Len(SerializeToString(LoginResponse, r)) <= 200
<1>. DEFINE c == LoginCode(ok)
            v == IF ok THEN 1 ELSE 0
            r0 == New(LoginResponse)
            r1 == Set(r0, 1, {c})
            r2 == Set(r1, 2, v)
            b == SerializeToString(LoginResponse, r2)
            s1 == FieldSize(LoginResponse[1], r2.f[1])
            s2 == FieldSize(LoginResponse[2], r2.f[2])
            e == EmbeddedSize(c)
            w == VarintSize(e)
<1>1. r = r2
  BY DEF LoginResult, LoginCode, set_success, mutable_result
<1>2. IsFlat(c) /\ e \in 0..98 /\ errcode(c) = IF ok THEN 0 ELSE 1
  BY LoginCodeFacts
<1>. HIDE DEF c
<1>3. /\ IsValue(LoginResponse[1], {c}) /\ IsValue(LoginResponse[2], v)
      /\ 1 \in DOMAIN LoginResponse /\ 2 \in DOMAIN LoginResponse /\ 1 # 2
      /\ MessageType(LoginResponse) /\ Len(LoginResponse) = 2
  BY <1>2, Types, Fillings
<1>4. WellFormed(LoginResponse, r0) /\ r0.unknown = <<>>
  BY <1>3, NewFacts
<1>. HIDE DEF v, r0, r1, r2
<1>5. WellFormed(LoginResponse, r1) /\ r1.unknown = <<>> /\ r1.f[1] = {c}
  <2>. DEFINE s == {c}
  <2>1. r1 = Set(r0, 1, s) /\ IsValue(LoginResponse[1], s)
    BY <1>3 DEF r1
  <2>. HIDE DEF s
  <2>2. WellFormed(LoginResponse, r1) /\ r1.unknown = r0.unknown /\ r1.f[1] = s
    BY <1>3, <1>4, <2>1, SetWellFormed
  <2>. QED
    BY <1>4, <2>2 DEF s
<1>6. WellFormed(LoginResponse, r2) /\ r2.unknown = <<>> /\ r2.f[1] = {c} /\ r2.f[2] = v
  BY <1>3, <1>5, SetWellFormed DEF r2
<1>7. b \in Seq(Byte) /\ Len(b) = ByteSizeLong(LoginResponse, r2)
  BY <1>3, <1>6, SizeIsLength
<1>8. ByteSizeLong(LoginResponse, r2) = s1 + s2
  BY <1>3, <1>6, TwoFields
<1>9. s1 = 1 + (w + e) /\ w \in 1..4
  <2>1. LoginResponse[1] = "message" /\ {c} # {} /\ Only({c}) = c
    BY Types, OnlyFacts
  <2>. QED
    BY <1>6, <2>1 DEF FieldSize, LengthSize, VarintSize
<1>10. s2 \in 0..49
  <2>. DEFINE kind == LoginResponse[2]
              p == r2.f[2]
  <2>1. kind # "message" /\ kind # "bytes"
    BY Types
  <2>. HIDE DEF kind, p
  <2>2. FieldSize(kind, p) \in 0..49
    BY <2>1, SmallSize
  <2>. QED
    BY <2>2 DEF kind, p
<1>11. errcode(result(r2)) = IF ok THEN 0 ELSE 1
  BY <1>2, <1>6, OnlyFacts DEF result
<1>. HIDE DEF b, s1, s2, e, w
<1>12. Len(b) <= 200
  <2>. DEFINE n == Len(b)
  <2>1. n = s1 + s2
    BY <1>7, <1>8
  <2>. HIDE DEF n
  <2>2. n <= 200
    BY ONLY <1>2, <1>9, <1>10, <2>1, SMT
  <2>. QED
    BY <2>2 DEF n
<1>. QED
  BY <1>1, <1>6, <1>7, <1>11, <1>12 DEF b

\* A header written and parsed.
LEMMA FramedFacts ==
    ASSUME NEW h, WellFormed(RpcHeader, h)
    PROVE  /\ Framed(h) \in Seq(Byte)
           /\ ParsedHeader(Framed(h)) = [m |-> h, ok |-> TRUE]
<1>. DEFINE z == New(RpcHeader)
<1>1. MessageType(RpcHeader) /\ HasShape(RpcHeader, z)
  BY Types, NewFacts DEF WellFormed
<1>. HIDE DEF z
<1>2. ParseFromString(RpcHeader, z, SerializeToString(RpcHeader, h)) = [m |-> h, ok |-> TRUE]
  BY <1>1, ReadsBack
<1>. QED
  BY <1>1, <1>2, SizeIsLength DEF ParsedHeader, Framed, z

LEMMA ParsedHeaderFacts ==
    ASSUME NEW b \in Seq(Byte), NEW h, h = ParsedHeader(b).m
    PROVE  WellFormed(RpcHeader, h) /\ IsFixed64(id(h)) /\ Short(payload(h))
<1>. DEFINE z == New(RpcHeader)
<1>1. MessageType(RpcHeader) /\ HasShape(RpcHeader, z)
  BY Types, NewFacts DEF WellFormed
<1>2. \A k \in DOMAIN RpcHeader : RpcHeader[k] # "message"
  BY Types
<1>. HIDE DEF z
<1>3. WellFormed(RpcHeader, ParseFromString(RpcHeader, z, b).m)
  BY <1>1, <1>2, ParsedIsWellFormed
<1>4. WellFormed(RpcHeader, h)
  BY <1>3 DEF ParsedHeader, z
<1>5. IsValue("fixed64", h.f[2]) /\ IsValue("bytes", h.f[5])
  <2>1. 2 \in 1..5 /\ 5 \in 1..5 /\ 5 \in 3..5
    OBVIOUS
  <2>. QED
    BY <1>4, <2>1, Types DEF WellFormed
<1>6. IsPlain("fixed64", h.f[2]) /\ IsPlain("bytes", h.f[5])
  BY <1>5 DEF IsValue
<1>. QED
  BY <1>4, <1>6 DEF IsPlain, id, payload, Short

LEMMA Joins ==
    ASSUME NEW a \in Seq(Byte), NEW b \in Seq(Byte)
    PROVE  a \o b \in Seq(Byte) /\ Len(a \o b) = Len(a) + Len(b)
OBVIOUS

LEMMA CallBytes == \A c \in CallIds : LoginCall[c] \in Seq(Byte)
<1>. TAKE c \in CallIds
<1>1. WellFormed(RpcHeader, Request(c, UserServiceRpc, Login, LoginArgs))
  BY IdsFit, Strings, ArgsShort, RequestFacts
<1>2. LoginCall[c] = Framed(Request(c, UserServiceRpc, Login, LoginArgs))
  BY DEF LoginCall
<1>. QED
  BY <1>1, <1>2, FramedFacts

LEMMA RequestBytes ==
    ASSUME NEW c, IsFixed64(c), NEW svc, Short(svc), NEW method, Short(method),
           NEW args, Short(args)
    PROVE  Framed(Request(c, svc, method, args)) \in Seq(Byte)
BY RequestFacts, FramedFacts

LEMMA UpBytes == \A b \in UpBodies : b \in Seq(Byte)
<1>1. \A b \in {LoginCall[c] : c \in CallIds} : b \in Seq(Byte)
  BY CallBytes
<1>2. LoginCall[100] \o LaterField \in Seq(Byte)
  <2>1. 100 \in CallIds
    BY DEF CallIds
  <2>2. LoginCall[100] \in Seq(Byte) /\ LaterField \in Seq(Byte)
    BY <2>1, CallBytes, Strings DEF Short
  <2>. QED
    BY <2>2, Joins
<1>3. /\ IsFixed64(101) /\ IsFixed64(102) /\ IsFixed64(103) /\ IsFixed64(104)
      /\ IsFixed64(105)
  <2>1. \A c \in {101, 102, 103, 104, 105} : c \in 100..105
    OBVIOUS
  <2>. QED
    BY <2>1, IdsFit
<1>4. /\ Short(UserServiceRpc) /\ Short(Login) /\ Short(Register) /\ Short(<<1>>)
      /\ Short(Garbled) /\ Short(<<8, 1>>) /\ Short(LoginArgs)
      /\ Short(SerializeToString(LoginRequest, set_pwd(New(LoginRequest), LongPassword)))
  BY Strings, ArgsShort
<1>5. /\ Framed(Request(101, <<1>>, Login, LoginArgs)) \in Seq(Byte)
      /\ Framed(Request(102, UserServiceRpc, <<1>>, LoginArgs)) \in Seq(Byte)
  BY <1>3, <1>4, RequestBytes
<1>6. /\ Framed(Request(103, UserServiceRpc, Login, Garbled)) \in Seq(Byte)
      /\ Framed(Request(104, UserServiceRpc, Register, <<8, 1>>)) \in Seq(Byte)
  BY <1>3, <1>4, RequestBytes
<1>7. Framed(Request(105, UserServiceRpc, Login,
          SerializeToString(LoginRequest, set_pwd(New(LoginRequest), LongPassword)))) \in Seq(Byte)
  BY <1>3, <1>4, RequestBytes
<1>8. Garbled \in Seq(Byte) /\ <<>> \in Seq(Byte)
  BY Strings, Zenon DEF Short
<1>9. \A b \in ForeignCalls : b \in Seq(Byte)
  BY <1>2, <1>5, <1>6, <1>7, <1>8, Zenon DEF ForeignCalls
<1>. QED
  BY <1>1, <1>9, Zenon DEF UpBodies

LEMMA AnswerIdsFit == \A c \in AnswerIds : IsFixed64(c)
<1>. TAKE c \in AnswerIds
<1>1. PICK b \in UpBodies : c = id(ParsedHeader(b).m)
  BY Zenon DEF AnswerIds
<1>. QED
  BY <1>1, UpBytes, ParsedHeaderFacts

LEMMA LoginResultShort ==
    \A ok \in BOOLEAN : Short(SerializeToString(LoginResponse, LoginResult(ok)))
<1>. TAKE ok \in BOOLEAN
<1>. DEFINE b == SerializeToString(LoginResponse, LoginResult(ok))
<1>1. b \in Seq(Byte) /\ Len(b) <= 200
  BY LoginResultFacts
<1>. HIDE DEF b
<1>2. Len(b) < Limit
  BY <1>1, SMT DEF Limit
<1>. QED
  BY <1>1, <1>2 DEF Short, b

LEMMA ForeignResultShort == \A r \in ForeignResults : Short(r)
<1>1. Short(<<16, 1>>)
  <2>. DEFINE b == <<16, 1>>
  <2>1. b \in Seq(Byte) /\ Len(b) <= 100
    BY DEF Byte
  <2>. HIDE DEF b
  <2>. QED
    BY <2>1, FewBytes DEF b
<1>2. Short(<<10, 2, 8, 1, 26, 9>>)
  <2>. DEFINE b == <<10, 2, 8, 1, 26, 9>>
  <2>1. b \in Seq(Byte) /\ Len(b) <= 100
    BY DEF Byte
  <2>. HIDE DEF b
  <2>2. Short(b)
    BY <2>1, FewBytes
  <2>. QED
    BY <2>2 DEF b
<1>3. Short(SerializeToString(LoginResponse, LoginResult(FALSE)) \o LaterField)
  <2>. DEFINE a == SerializeToString(LoginResponse, LoginResult(FALSE))
              l == LaterField
              n == Len(a \o l)
  <2>1. a \in Seq(Byte) /\ Len(a) <= 200
    BY LoginResultFacts
  <2>2. l \in Seq(Byte) /\ Len(l) = 2
    BY Strings DEF Short, LaterField
  <2>. HIDE DEF a, l
  <2>3. a \o l \in Seq(Byte) /\ n = Len(a) + Len(l) /\ Len(a) \in Nat
    <3>1. a \in Seq(Byte) /\ l \in Seq(Byte)
      BY <2>1, <2>2
    <3>. QED
      BY ONLY <3>1 DEF n
  <2>. HIDE DEF n
  <2>4. n < Limit
    BY <2>1, <2>2, <2>3, SMT DEF Limit
  <2>. QED
    BY <2>3, <2>4 DEF Short, a, l, n
<1>. QED
  BY <1>1, <1>2, <1>3, Zenon DEF ForeignResults

(* Every answer, of this service or of a foreign one, is parsed into the header
   it was made from. *)
LEMMA ReplyFacts ==
    ASSUME NEW c \in AnswerIds, NEW r, Short(r), NEW b, b = Framed(Response(c, r))
    PROVE  /\ b \in Seq(Byte) /\ ParsedHeader(b) = [m |-> Response(c, r), ok |-> TRUE]
           /\ type(Response(c, r)) = RESPONSE /\ id(Response(c, r)) = c
           /\ payload(Response(c, r)) = r
<1>. DEFINE h == Response(c, r)
<1>1. IsFixed64(c)
  BY AnswerIdsFit
<1>2. WellFormed(RpcHeader, h) /\ type(h) = RESPONSE /\ id(h) = c /\ payload(h) = r
  BY <1>1, ResponseFacts
<1>. QED
  BY <1>2, FramedFacts

LEMMA RepliesFacts ==
    ASSUME NEW c \in AnswerIds
    PROVE  /\ \A ok \in BOOLEAN : Replies[c].own[ok] = LoginReply(c, ok)
           /\ Replies[c].foreign = ForeignReplies(c)
BY DEF Replies

\* A body goes up, or comes down as a reply.
LEMMA BodyCases ==
    ASSUME NEW b
    PROVE  b \in AllBodies <=>
             \/ b \in UpBodies
             \/ \E c \in AnswerIds, ok \in BOOLEAN : b = LoginReply(c, ok)
             \/ \E c \in AnswerIds : b \in ForeignReplies(c)
<1>1. Range(Replies) = {Replies[c] : c \in AnswerIds}
  BY DEF Range, Replies
<1>2. b \in AllBodies <=>
        \/ b \in UpBodies
        \/ \E c \in AnswerIds : b \in {Replies[c].own[ok] : ok \in BOOLEAN}
        \/ \E c \in AnswerIds : b \in Replies[c].foreign
  BY <1>1, SMT DEF AllBodies
<1>3. \A c \in AnswerIds :
        /\ b \in {Replies[c].own[ok] : ok \in BOOLEAN}
             <=> \E ok \in BOOLEAN : b = LoginReply(c, ok)
        /\ b \in Replies[c].foreign <=> b \in ForeignReplies(c)
  BY RepliesFacts
<1>. QED
  BY <1>2, <1>3

LEMMA AllBytes == \A b \in AllBodies : b \in Seq(Byte)
<1>1. ASSUME NEW c \in AnswerIds, NEW ok \in BOOLEAN
      PROVE  LoginReply(c, ok) \in Seq(Byte)
  <2>1. LoginReply(c, ok)
          = Framed(Response(c, SerializeToString(LoginResponse, LoginResult(ok))))
    BY DEF LoginReply
  <2>. QED
    BY <2>1, LoginResultShort, ReplyFacts
<1>2. ASSUME NEW c \in AnswerIds, NEW b \in ForeignReplies(c)
      PROVE  b \in Seq(Byte)
  <2>1. PICK r \in ForeignResults : b = Framed(Response(c, r))
    BY DEF ForeignReplies
  <2>. QED
    BY <2>1, ForeignResultShort, ReplyFacts
<1>. SUFFICES ASSUME NEW b \in AllBodies PROVE b \in Seq(Byte)
  OBVIOUS
<1>3. \/ b \in UpBodies
      \/ \E c \in AnswerIds, ok \in BOOLEAN : b = LoginReply(c, ok)
      \/ \E c \in AnswerIds : b \in ForeignReplies(c)
  BY BodyCases
<1>. QED
  BY <1>1, <1>2, <1>3, UpBytes

-----------------------------------------------------------------------------
(* What is parsed out of the bodies. *)

LEMMA BodyFacts ==
    ASSUME NEW b \in AllBodies
    PROVE  /\ b \in Seq(Byte) /\ Header(b) = ParsedHeader(b).m
           /\ WellFormed(RpcHeader, Header(b)) /\ Short(payload(Header(b)))
           /\ CalleeOf[b] = Callee(Header(b))
           /\ ParsedResult[b]
                = ParseFromString(LoginResponse, New(LoginResponse), payload(Header(b)))
<1>1. b \in Seq(Byte)
  BY AllBytes
<1>2. Header(b) = ParsedHeader(b).m
  BY DEF Header, Parsed
<1>3. CalleeOf[b] = Callee(Header(b))
  BY DEF CalleeOf
<1>4. ParsedResult[b] = ParseFromString(LoginResponse, New(LoginResponse), payload(Header(b)))
  BY DEF ParsedResult
<1>. QED
  BY <1>1, <1>2, <1>3, <1>4, ParsedHeaderFacts

LEMMA NewShape ==
    /\ HasShape(LoginRequest, New(LoginRequest))
    /\ HasShape(RegisterRequest, New(RegisterRequest))
    /\ HasShape(LoginResponse, New(LoginResponse))
BY Types, NewFacts DEF WellFormed

LEMMA ResultFacts ==
    ASSUME NEW b \in AllBodies
    PROVE  WellFormed(LoginResponse, ParsedResult[b].m)
<1>. DEFINE z == New(LoginResponse)
            p == payload(Header(b))
<1>1. HasShape(LoginResponse, z) /\ MessageType(LoginResponse)
  BY Types, NewShape
<1>2. p \in Seq(Byte) /\ Len(p) < Limit
  BY BodyFacts DEF Short
<1>3. ParsedResult[b] = ParseFromString(LoginResponse, z, p)
  BY BodyFacts
<1>. HIDE DEF z, p
<1>4. WellFormed(LoginResponse, ParseFromString(LoginResponse, z, p).m)
  BY <1>1, <1>2, ParsedIsWellFormed
<1>. QED
  BY <1>3, <1>4

LEMMA LoginReplyFacts ==
    ASSUME NEW c \in AnswerIds, NEW ok \in BOOLEAN, NEW b, b = LoginReply(c, ok)
    PROVE  /\ b \in AllBodies /\ type(Header(b)) = RESPONSE /\ id(Header(b)) = c
           /\ ParsedResult[b] = [m |-> LoginResult(ok), ok |-> TRUE]
<1>. DEFINE z == New(LoginResponse)
            m == LoginResult(ok)
            r == SerializeToString(LoginResponse, m)
            h == Response(c, r)
<1>1. b \in AllBodies
  BY BodyCases
<1>2. b = Framed(h)
  BY DEF LoginReply
<1>3. Short(r)
  BY LoginResultShort
<1>4. WellFormed(LoginResponse, m) /\ HasShape(LoginResponse, z) /\ MessageType(LoginResponse)
  BY Types, NewShape, LoginResultFacts
<1>. HIDE DEF m, z
<1>5. ParseFromString(LoginResponse, z, r) = [m |-> m, ok |-> TRUE]
  BY <1>4, ReadsBack
<1>. HIDE DEF r
<1>6. /\ ParsedHeader(b) = [m |-> h, ok |-> TRUE]
      /\ type(h) = RESPONSE /\ id(h) = c /\ payload(h) = r
  BY <1>2, <1>3, ReplyFacts
<1>. HIDE DEF h
<1>7. Header(b) = h
  BY <1>1, <1>6, BodyFacts
<1>8. ParsedResult[b] = ParseFromString(LoginResponse, z, r)
  BY <1>1, <1>6, <1>7, BodyFacts DEF z
<1>. QED
  BY <1>1, <1>5, <1>6, <1>7, <1>8 DEF m

\* The laws of the codec hold of well-formed messages.
LEMMA RoundTrips ==
    ASSUME NEW T, MessageType(T), NEW m, WellFormed(T, m)
    PROVE  RoundTrip(T, m)
<1>. DEFINE z == New(T)
            b == SerializeToString(T, m)
<1>1. HasShape(T, z)
  BY NewFacts DEF WellFormed
<1>2. Len(b) = ByteSizeLong(T, m)
  BY SizeIsLength
<1>. HIDE DEF z
<1>3. ParseFromString(T, z, b) = [m |-> m, ok |-> TRUE]
  BY <1>1, ReadsBack
<1>4. CopyFrom(T, z, m) = m
  BY <1>1, CopiesAll
<1>. QED
  BY <1>2, <1>3, <1>4 DEF RoundTrip, z

LEMMA AllLawful ==
    ASSUME NEW T, MessageType(T), NEW S, \A m \in S : WellFormed(T, m)
    PROVE  Lawful(T, S) = S
<1>1. \A m \in S : RoundTrip(T, m)
  BY RoundTrips
<1>2. ASSUME NEW m \in S, NEW n \in S
      PROVE  MergeLaw(T, m, n)
  <2>1. HasShape(T, m) /\ WellFormed(T, m) /\ WellFormed(T, n)
    BY DEF WellFormed
  <2>2. ParseFromString(T, m, SerializeToString(T, m) \o SerializeToString(T, n))
          = [m |-> MergeFrom(T, m, n), ok |-> TRUE]
    BY <2>1, ConcatenationMerges
  <2>. QED
    BY <2>2 DEF MergeLaw
<1>. QED
  BY <1>1, <1>2 DEF Lawful

LEMMA HeadersLawful == LawfulHeaders = AllHeaders
<1>1. \A h \in AllHeaders : WellFormed(RpcHeader, h)
  BY BodyFacts DEF AllHeaders
<1>. QED
  BY <1>1, Types, AllLawful DEF LawfulHeaders

LEMMA ResponsesLawful == LawfulResponses = AllResponses
<1>1. \A m \in AllResponses : WellFormed(LoginResponse, m)
  BY ResultFacts, LoginResultFacts DEF AllResponses
<1>. QED
  BY <1>1, Types, AllLawful DEF LawfulResponses

LEMMA ArgumentsLawful == \A b \in AllBodies : b \in LawfulArguments
<1>. TAKE b \in AllBodies
<1>. DEFINE T == GetRequestPrototype(method_name(Header(b)))
            z == New(T)
            p == payload(Header(b))
<1>1. MessageType(T) /\ HasShape(T, z) /\ \A k \in DOMAIN T : T[k] # "message"
  <2>1. T = LoginRequest \/ T = RegisterRequest
    BY DEF GetRequestPrototype
  <2>2. CASE T = LoginRequest
    <3>1. \A k \in 1..2 : k = 1 \/ k = 2
      OBVIOUS
    <3>. QED
      BY <2>2, <3>1, Types, NewShape
  <2>3. CASE T = RegisterRequest
    <3>1. \A k \in 1..3 : k = 1 \/ k = 2 \/ k = 3
      OBVIOUS
    <3>. QED
      BY <2>3, <3>1, Types, NewShape
  <2>. QED
    BY <2>1, <2>2, <2>3
<1>2. p \in Seq(Byte)
  BY BodyFacts DEF Short
<1>. HIDE DEF T, z, p
<1>3. WellFormed(T, ParseFromString(T, z, p).m)
  BY <1>1, <1>2, ParsedIsWellFormed
<1>4. RoundTrip(T, ParseFromString(T, z, p).m)
  BY <1>1, <1>3, RoundTrips
<1>. QED
  BY <1>4 DEF LawfulArguments, T, z, p

-----------------------------------------------------------------------------
(* The calls. *)

\* A response of the service to a call it has worked on.
IsReply(b, filled) ==
    \E c \in AnswerIds, ok \in BOOLEAN :
        b = LoginReply(c, ok) /\ [call |-> c, response |-> LoginResult(ok)] \in filled

RepliesAreBuilt ==
    peer # "server" => \A f \in Frames("down") : IsReply(f.body, built)

\* What is on its way, and what was made of it.
WireInv ==
    /\ lastId \in 0..MaxCalls /\ outstandings \subseteq 1..lastId
    /\ tasks \subseteq AnswerIds
    /\ \A f \in Frames("up") : f.body \in UpBodies
    /\ RepliesAreBuilt
    /\ Responses \subseteq AllResponses
    /\ ResponseIntact
    /\ SuccessMeansAccepted

LEMMA WriteFrames ==
    ASSUME TypeOK, NEW p \in Pipes, NEW n, NEW b, Write(p, n, b),
           NEW q \in Pipes, NEW f \in Frames(q)'
    PROVE  f \in Frames(q) \/ (q = p /\ f.body = b)
<1>. DEFINE g == [start |-> Written(p), len |-> n, body |-> b]
            s == stream[q]
<1>1. s \in Seq(Frame)
  BY DEF TypeOK
<1>2. stream'[q] = IF q = p THEN Append(s, g) ELSE s
  BY DEF Write, TypeOK
<1>3. PICK i \in DOMAIN stream'[q] : f = stream'[q][i]
  BY DEF Frames
<1>4. g.body = b
  OBVIOUS
<1>. HIDE DEF g
<1>5. CASE q # p
  BY <1>2, <1>3, <1>5 DEF Frames
<1>6. CASE q = p
  <2>1. i \in 1..(Len(s) + 1) /\ f = Append(s, g)[i]
    BY <1>1, <1>2, <1>3, <1>6
  <2>2. CASE i = Len(s) + 1
    <3>1. f = g
      BY <1>1, <2>1, <2>2
    <3>. QED
      BY <1>4, <1>6, <3>1
  <2>3. CASE i # Len(s) + 1
    <3>1. i \in 1..Len(s) /\ f = s[i]
      BY <1>1, <2>1, <2>3
    <3>. QED
      BY <1>1, <3>1 DEF Frames
  <2>. QED
    BY <2>2, <2>3
<1>. QED
  BY <1>5, <1>6

LEMMA SameFrames ==
    ASSUME UNCHANGED stream, NEW q
    PROVE  Frames(q)' = Frames(q)
BY DEF Frames

\* The bodies in the stream are those there can be.
LEMMA BodiesInStream ==
    ASSUME TypeOK, NEW p \in Pipes, NEW f \in Frames(p)
    PROVE  f.body \in AllBodies
<1>1. f \in Frame
  BY DEF TypeOK, Frames
<1>2. f.body \in Bodies \cup {<<>>}
  BY <1>1 DEF Frame
<1>3. <<>> \in AllBodies
  <2>1. <<>> \in UpBodies
    BY DEF UpBodies, ForeignCalls
  <2>. QED
    BY <2>1 DEF AllBodies
<1>. QED
  BY <1>2, <1>3, BodiesAssumption

LEMMA WireInitInv == WireInit => WireInv
<1>. SUFFICES ASSUME WireInit PROVE WireInv
  OBVIOUS
<1>1. \A p \in Pipes : Frames(p) = {}
  BY DEF WireInit, FrameInit, Frames
<1>2. "up" \in Pipes /\ "down" \in Pipes
  BY WireAssumption
<1>3. lastId \in 0..MaxCalls
  BY CallsAssumption DEF WireInit
<1>. QED
  BY <1>1, <1>2, <1>3
     DEF WireInit, WireInv, RepliesAreBuilt, Responses, ResponseIntact, SuccessMeansAccepted

\* What a step of the pipes alone leaves alone.
LEMMA CallsKept ==
    ASSUME WireInv, UNCHANGED callVars,
           \A f \in Frames("up")' : f.body \in UpBodies,
           peer # "server" => Frames("down")' = Frames("down")
    PROVE  WireInv'
<1>1. /\ lastId' = lastId /\ outstandings' = outstandings /\ tasks' = tasks /\ peer' = peer
      /\ built' = built /\ results' = results /\ counted' = counted
  BY DEF callVars
<1>2. RepliesAreBuilt'
  BY <1>1 DEF WireInv, RepliesAreBuilt
<1>3. Responses' \subseteq AllResponses /\ ResponseIntact' /\ SuccessMeansAccepted'
  BY <1>1 DEF WireInv, Responses, ResponseIntact, SuccessMeansAccepted
<1>. QED
  BY <1>1, <1>2, <1>3 DEF WireInv

LEMMA CallLoginKeeps == TypeOK /\ WireInv /\ CallLogin => WireInv'
<1>. SUFFICES ASSUME TypeOK, WireInv, CallLogin PROVE WireInv'
  OBVIOUS
<1>. USE WireAssumption
<1>. DEFINE n == lastId + 1
<1>1. lastId \in 0..MaxCalls /\ lastId < MaxCalls /\ MaxCalls \in Nat
  BY CallsAssumption DEF WireInv, CallLogin
<1>2. n \in 0..MaxCalls /\ n \in CallIds /\ lastId' = n /\ n \in Nat
  BY <1>1 DEF CallLogin, CallIds
<1>3. outstandings' \subseteq 1..lastId'
  <2>1. outstandings \subseteq 1..lastId /\ outstandings' = outstandings \cup {n}
    BY DEF CallLogin, WireInv
  <2>2. \A i \in 1..lastId : i \in 1..n
    BY <1>1
  <2>3. n \in 1..n
    BY <1>1
  <2>. QED
    BY <1>2, <2>1, <2>2, <2>3
<1>4. /\ tasks' = tasks /\ peer' = peer /\ built' = built /\ results' = results
      /\ counted' = counted
  BY DEF CallLogin
<1>5. LoginCall[n] \in UpBodies
  BY <1>2 DEF UpBodies
<1>6. /\ \A f \in Frames("up")' : f.body \in UpBodies
      /\ \A f \in Frames("down")' : f \in Frames("down")
  <2>1. \A f \in Frames("up") : f.body \in UpBodies
    BY DEF WireInv
  <2>2. CASE UNCHANGED frameVars
    <3>1. UNCHANGED stream
      BY <2>2 DEF frameVars
    <3>. QED
      BY <2>1, <3>1, SameFrames
  <2>3. CASE Send("up", LoginCall[n])
    <3>1. Write("up", LenField + Len(LoginCall[n]), LoginCall[n])
      BY <2>3 DEF Send
    <3>. QED
      BY <1>5, <2>1, <3>1, WriteFrames
  <2>. QED
    BY <2>2, <2>3 DEF CallLogin
<1>7. RepliesAreBuilt'
  BY <1>4, <1>6 DEF WireInv, RepliesAreBuilt
<1>8. Responses' \subseteq AllResponses /\ SuccessMeansAccepted'
  BY <1>4 DEF WireInv, Responses, SuccessMeansAccepted
<1>9. ResponseIntact'
  <2>1. \A i \in 1..lastId : i \in 1..lastId'
    BY <1>1, <1>2
  <2>. QED
    BY <1>4, <2>1 DEF WireInv, ResponseIntact
<1>. QED
  BY <1>2, <1>3, <1>4, <1>6, <1>7, <1>8, <1>9 DEF WireInv

LEMMA ServerTakesKeeps == TypeOK /\ WireInv /\ ServerTakes => WireInv'
<1>. SUFFICES ASSUME TypeOK, WireInv, ServerTakes PROVE WireInv'
  OBVIOUS
<1>. USE WireAssumption
<1>1. PICK f \in Frames("up") : TakeMessage("up", f) /\ Serve(f.body)
  BY Zenon DEF ServerTakes
<1>. DEFINE b == f.body
<1>2. /\ lastId' = lastId /\ outstandings' = outstandings /\ peer' = peer
      /\ built' = built /\ results' = results /\ counted' = counted
  BY DEF ServerTakes
<1>3. UNCHANGED stream
  BY <1>1 DEF TakeMessage, Retrieve
<1>4. Frames("up")' = Frames("up") /\ Frames("down")' = Frames("down")
  BY <1>3, SameFrames
<1>5. b \in UpBodies /\ b \in AllBodies
  BY BodyCases DEF WireInv
<1>. HIDE DEF b
<1>6. tasks' \subseteq AnswerIds
  <2>1. tasks \subseteq AnswerIds
    BY DEF WireInv
  <2>2. CASE tasks' = tasks
    BY <2>1, <2>2
  <2>3. CASE tasks' = tasks \cup {id(Header(b))} /\ CalleeOf[b] = "Login"
    <3>1. Header(b) = ParsedHeader(b).m /\ Callee(ParsedHeader(b).m) = "Login"
      BY <1>5, <2>3, BodyFacts
    <3>2. id(Header(b)) \in AnswerIds
      BY <1>5, <3>1 DEF AnswerIds
    <3>. QED
      BY <2>1, <2>3, <3>2
  <2>. QED
    BY <1>1, <2>2, <2>3 DEF Serve, Call, b
<1>7. RepliesAreBuilt'
  BY <1>2, <1>4 DEF WireInv, RepliesAreBuilt
<1>8. Responses' \subseteq AllResponses /\ ResponseIntact' /\ SuccessMeansAccepted'
  BY <1>2 DEF WireInv, Responses, ResponseIntact, SuccessMeansAccepted
<1>. QED
  BY <1>2, <1>4, <1>6, <1>7, <1>8 DEF WireInv

LEMMA RunLoginKeeps == TypeOK /\ WireInv /\ RunLogin => WireInv'
<1>. SUFFICES ASSUME TypeOK, WireInv, RunLogin PROVE WireInv'
  OBVIOUS
<1>. USE WireAssumption
<1>1. PICK call \in tasks, ok \in BOOLEAN :
          /\ tasks' = tasks \ {call}
          /\ built' = built \cup {[call |-> call, response |-> LoginResult(ok)]}
          /\ IF refused["up"] THEN UNCHANGED frameVars
             ELSE Send("down", Replies[call].own[ok])
  BY Zenon DEF RunLogin
<1>2. /\ lastId' = lastId /\ outstandings' = outstandings /\ peer' = peer
      /\ results' = results /\ counted' = counted
  BY DEF RunLogin
<1>3. call \in AnswerIds /\ tasks' \subseteq AnswerIds
  BY <1>1 DEF WireInv
<1>. DEFINE b == LoginReply(call, ok)
            r == [call |-> call, response |-> LoginResult(ok)]
<1>4. built' = built \cup {r} /\ r.response \in AllResponses
  BY <1>1 DEF AllResponses
<1>5. IsReply(b, built')
  BY <1>1, <1>3 DEF IsReply
<1>6. \A c : IsReply(c, built) => IsReply(c, built')
  BY <1>4 DEF IsReply
<1>. HIDE DEF r
<1>7. /\ \A f \in Frames("up")' : f \in Frames("up")
      /\ \A f \in Frames("down")' : f \in Frames("down") \/ f.body = b
  <2>1. CASE UNCHANGED frameVars
    <3>1. UNCHANGED stream
      BY <2>1 DEF frameVars
    <3>. QED
      BY <3>1, SameFrames
  <2>2. CASE Send("down", b)
    <3>1. Write("down", LenField + Len(b), b)
      BY <2>2 DEF Send
    <3>. HIDE DEF b
    <3>. QED
      BY <3>1, WriteFrames
  <2>3. Replies[call].own[ok] = b
    BY <1>3, RepliesFacts
  <2>. HIDE DEF b
  <2>. QED
    BY <1>1, <2>1, <2>2, <2>3
<1>. HIDE DEF b
<1>8. RepliesAreBuilt'
  BY <1>2, <1>5, <1>6, <1>7 DEF WireInv, RepliesAreBuilt
<1>9. Responses' \subseteq AllResponses
  BY <1>2, <1>4 DEF WireInv, Responses
<1>10. ResponseIntact'
  BY <1>2, <1>4 DEF WireInv, ResponseIntact
<1>11. SuccessMeansAccepted'
  BY <1>2, <1>4 DEF WireInv, SuccessMeansAccepted
<1>. QED
  BY <1>2, <1>3, <1>7, <1>8, <1>9, <1>10, <1>11 DEF WireInv

\* What the closure of a call sees.
LEMMA AnswerKeeps ==
    ASSUME WireInv, NEW b \in AllBodies, type(Header(b)) = RESPONSE,
           id(Header(b)) \in outstandings, Answer(b),
           peer # "server" => IsReply(b, built),
           UNCHANGED <<peer, lastId, tasks, built>>
    PROVE  /\ outstandings' \subseteq 1..lastId /\ Responses' \subseteq AllResponses
           /\ ResponseIntact' /\ SuccessMeansAccepted'
<1>. DEFINE call == id(Header(b))
            response == ParsedResult[b].m
            parsed == ParsedResult[b].ok
            r == [call |-> call, response |-> response, parsed |-> parsed]
<1>1. /\ outstandings' = outstandings \ {call} /\ results' = results \cup {r}
      /\ counted' = IF errcode(result(response)) = 0 THEN counted \cup {call} ELSE counted
      /\ peer' = peer /\ lastId' = lastId /\ built' = built
  BY DEF Answer
<1>2. call \in 1..lastId /\ response \in AllResponses
  BY DEF WireInv, AllResponses
<1>3. /\ r.call = call /\ r.response = response /\ r.parsed = parsed
      /\ [call |-> r.call, response |-> r.response] = [call |-> call, response |-> response]
  OBVIOUS
<1>. HIDE DEF r
<1>4. ASSUME peer # "server"
      PROVE  /\ parsed /\ [call |-> call, response |-> response] \in built
             /\ errcode(result(response)) = 0 =>
                  [call |-> call, response |-> LoginResult(TRUE)] \in built
  <2>1. PICK c \in AnswerIds, ok \in BOOLEAN :
          b = LoginReply(c, ok) /\ [call |-> c, response |-> LoginResult(ok)] \in built
    BY <1>4 DEF IsReply
  <2>2. id(Header(b)) = c /\ ParsedResult[b] = [m |-> LoginResult(ok), ok |-> TRUE]
    BY <2>1, LoginReplyFacts
  <2>3. call = c /\ response = LoginResult(ok) /\ parsed
    BY <2>2
  <2>4. errcode(result(LoginResult(ok))) = IF ok THEN 0 ELSE 1
    BY LoginResultFacts
  <2>5. CASE ok
    <3>1. ok = TRUE
      BY <2>5
    <3>. QED
      BY <2>1, <2>3, <3>1
  <2>6. CASE ~ok
    <3>1. errcode(result(response)) = 1
      BY <2>3, <2>4, <2>6
    <3>. QED
      BY <2>1, <2>3, <3>1
  <2>. QED
    BY <2>5, <2>6
<1>. HIDE DEF call, response, parsed
<1>5. outstandings' \subseteq 1..lastId
  BY <1>1 DEF WireInv
<1>6. Responses' \subseteq AllResponses
  BY <1>1, <1>2, <1>3 DEF WireInv, Responses
<1>7. ResponseIntact'
  <2>1. SUFFICES ASSUME NEW s \in results'
                 PROVE  /\ s.call \in 1..lastId
                        /\ peer # "server" =>
                             s.parsed /\ [call |-> s.call, response |-> s.response] \in built
    BY <1>1 DEF ResponseIntact
  <2>2. CASE s \in results
    BY <2>2 DEF WireInv, ResponseIntact
  <2>3. CASE s = r
    BY <1>2, <1>3, <1>4, <2>3
  <2>. QED
    BY <1>1, <2>1, <2>2, <2>3
<1>8. SuccessMeansAccepted'
  <2>1. SUFFICES ASSUME NEW c \in counted'
                 PROVE  \/ [call |-> c, response |-> LoginResult(TRUE)] \in built
                        \/ peer = "server" /\ \E s \in results' : s.call = c
    BY <1>1 DEF SuccessMeansAccepted
  <2>2. CASE c \in counted
    BY <1>1, <2>2 DEF WireInv, SuccessMeansAccepted
  <2>3. CASE c = call /\ errcode(result(response)) = 0
    <3>1. r \in results' /\ r.call = c
      BY <1>1, <1>3, <2>3
    <3>. QED
      BY <1>4, <2>3, <3>1
  <2>. QED
    BY <1>1, <2>1, <2>2, <2>3
<1>. QED
  BY <1>5, <1>6, <1>7, <1>8

LEMMA ClientTakesKeeps == TypeOK /\ WireInv /\ ClientTakes => WireInv'
<1>. SUFFICES ASSUME TypeOK, WireInv, ClientTakes PROVE WireInv'
  OBVIOUS
<1>. USE WireAssumption
<1>1. /\ lastId' = lastId /\ tasks' = tasks /\ peer' = peer /\ built' = built
  BY DEF ClientTakes
<1>2. PICK f \in Frames("down") :
        /\ TakeMessage("down", f)
        /\ IF type(Header(f.body)) = RESPONSE
           THEN IF id(Header(f.body)) \in outstandings THEN Answer(f.body)
                ELSE UNCHANGED <<outstandings, results, counted, crashed>>
           ELSE Misdirected
  BY Zenon DEF ClientTakes
<1>. DEFINE b == f.body
<1>3. UNCHANGED stream
  BY <1>2 DEF TakeMessage, Retrieve
<1>4. Frames("up")' = Frames("up") /\ Frames("down")' = Frames("down")
  BY <1>3, SameFrames
<1>5. b \in AllBodies /\ (peer # "server" => IsReply(b, built))
  BY BodiesInStream DEF WireInv, RepliesAreBuilt
<1>. HIDE DEF b
<1>6. RepliesAreBuilt'
  BY <1>1, <1>4 DEF WireInv, RepliesAreBuilt
<1>7. /\ outstandings' \subseteq 1..lastId /\ Responses' \subseteq AllResponses
      /\ ResponseIntact' /\ SuccessMeansAccepted'
  <2>1. CASE UNCHANGED <<outstandings, results, counted>>
    BY <1>1, <2>1 DEF WireInv, Responses, ResponseIntact, SuccessMeansAccepted
  <2>2. CASE type(Header(b)) = RESPONSE /\ id(Header(b)) \in outstandings /\ Answer(b)
    <3>1. UNCHANGED <<peer, lastId, tasks, built>>
      BY <1>1
    <3>. QED
      BY <1>5, <2>2, <3>1, AnswerKeeps
  <2>. QED
    BY <1>2, <2>1, <2>2 DEF Misdirected, b
<1>. QED
  BY <1>1, <1>4, <1>6, <1>7 DEF WireInv

LEMMA ReceiveKeeps ==
    ASSUME WireInv, NEW p \in Pipes, Receive(p)
    PROVE  WireInv'
<1>1. UNCHANGED stream
  BY DEF Receive, LoopEnds, Arrive, HalfPacket, InvalidLength, ParseFails, Retrieve
<1>2. UNCHANGED callVars
  BY DEF Receive
<1>3. Frames("up")' = Frames("up") /\ Frames("down")' = Frames("down")
  BY <1>1, SameFrames
<1>. QED
  BY <1>2, <1>3, CallsKept DEF WireInv

LEMMA ForeignFrames ==
    ASSUME TypeOK, NEW p \in Pipes, ForeignFrame(p), NEW q \in Pipes, NEW f \in Frames(q)'
    PROVE  \/ f \in Frames(q)
           \/ q = p /\ (p = "up" => f.body \in UpBodies)
<1>1. PICK n, b : Write(p, n, b) /\ (p = "up" => b \in UpBodies)
  <2>1. CASE \E n \in BadLengths : SendBadLength(p, n)
    <3>1. PICK n \in BadLengths : Write(p, n, <<>>)
      BY <2>1 DEF SendBadLength
    <3>2. <<>> \in UpBodies
      BY DEF UpBodies, ForeignCalls
    <3>. QED
      BY <3>1, <3>2
  <2>2. CASE p = "up" /\ \E b \in ForeignCalls : Send(p, b)
    BY <2>2, Zenon DEF Send, UpBodies
  <2>3. CASE p = "down" /\ \E b : Send(p, b)
    BY <2>3, Zenon DEF Send
  <2>. QED
    BY <2>1, <2>2, <2>3, Zenon DEF ForeignFrame
<1>. QED
  BY <1>1, WriteFrames

LEMMA ForeignKeeps ==
    ASSUME TypeOK, WireInv, NEW p \in Pipes, ForeignFrame(p),
           p = "down" => peer = "server"
    PROVE  WireInv'
<1>. USE WireAssumption
<1>1. /\ lastId' = lastId /\ outstandings' = outstandings /\ tasks' = tasks /\ peer' = peer
      /\ built' = built /\ results' = results /\ counted' = counted
  BY DEF ForeignFrame
<1>2. \A f \in Frames("up")' : f.body \in UpBodies
  BY ForeignFrames DEF WireInv
<1>3. peer # "server" => \A f \in Frames("down")' : f \in Frames("down")
  BY ForeignFrames
<1>4. RepliesAreBuilt'
  BY <1>1, <1>3 DEF WireInv, RepliesAreBuilt
<1>5. Responses' \subseteq AllResponses /\ ResponseIntact' /\ SuccessMeansAccepted'
  BY <1>1 DEF WireInv, Responses, ResponseIntact, SuccessMeansAccepted
<1>. QED
  BY <1>1, <1>2, <1>4, <1>5 DEF WireInv

LEMMA WireKeeps == TypeOK /\ WireInv /\ [WireNext]_wireVars => WireInv'
<1>. SUFFICES ASSUME TypeOK, WireInv, [WireNext]_wireVars PROVE WireInv'
  OBVIOUS
<1>1. CASE CallLogin
  BY <1>1, CallLoginKeeps
<1>2. CASE ServerTakes
  BY <1>2, ServerTakesKeeps
<1>3. CASE RunLogin
  BY <1>3, RunLoginKeeps
<1>4. CASE ClientTakes
  BY <1>4, ClientTakesKeeps
<1>5. CASE \E p \in Pipes : Receive(p)
  BY <1>5, ReceiveKeeps
<1>6. CASE ForeignClient
  <2>1. "up" \in Pipes /\ ForeignFrame("up")
    BY <1>6, WireAssumption DEF ForeignClient
  <2>. QED
    BY <2>1, ForeignKeeps
<1>7. CASE ForeignServer
  <2>1. "down" \in Pipes /\ ForeignFrame("down") /\ peer = "server"
    BY <1>7, WireAssumption DEF ForeignServer
  <2>. QED
    BY <2>1, ForeignKeeps
<1>8. CASE UNCHANGED wireVars
  <2>1. UNCHANGED stream /\ UNCHANGED callVars
    BY <1>8 DEF wireVars, frameVars
  <2>2. Frames("up")' = Frames("up") /\ Frames("down")' = Frames("down")
    BY <2>1, SameFrames
  <2>. QED
    BY <2>1, <2>2, CallsKept DEF WireInv
<1>. QED
  BY <1>1, <1>2, <1>3, <1>4, <1>5, <1>6, <1>7, <1>8 DEF WireNext

LEMMA WireAlways == WireSpec => [](TypeOK /\ WireInv)
<1>1. WireInit => WireInv
  BY WireInitInv
<1>2. IInv => TypeOK
  BY DEF IInv
<1>3. TypeOK /\ WireInv /\ [WireNext]_wireVars => WireInv'
  BY WireKeeps
<1>. QED
  BY <1>1, <1>2, <1>3, WireInvariance, PTL DEF WireSpec

(* Every response a closure sees has been parsed, belongs to a call this client
   has made, and is the one the service filled in for this very call, field by
   field, unless the server is a foreign one: for any number of calls and any
   cuts of the streams, whatever a foreign client has sent before. *)
THEOREM ResponseIntactHolds == WireSpec => []ResponseIntact
<1>1. WireInv => ResponseIntact
  BY DEF WireInv
<1>. QED
  BY <1>1, WireAlways, PTL

(* g_successCount counts a call only if the service accepted the login, or if
   the server is a foreign one and has answered. *)
THEOREM SuccessMeansAcceptedHolds == WireSpec => []SuccessMeansAccepted
<1>1. WireInv => SuccessMeansAccepted
  BY DEF WireInv
<1>. QED
  BY <1>1, WireAlways, PTL

(* All that is in the streams, and what it is parsed into, keeps the laws of the
   generated code: sizes, round trips and merging. *)
THEOREM CodecLawsHold == WireSpec => []CodecLaws
<1>1. TypeOK /\ WireInv => CodecLaws
  <2>. SUFFICES ASSUME TypeOK, WireInv PROVE CodecLaws
    OBVIOUS
  <2>1. ASSUME NEW p \in Pipes
        PROVE  Headers(p) \subseteq LawfulHeaders
    <3>1. \A i \in DOMAIN stream[p] : stream[p][i].body \in AllBodies
      BY BodiesInStream DEF Frames
    <3>. QED
      BY <3>1, HeadersLawful DEF Headers, AllHeaders
  <2>2. ASSUME NEW f \in Frames("up")
        PROVE  f.body \in LawfulArguments
    BY ArgumentsLawful, BodiesInStream, WireAssumption
  <2>3. Responses \subseteq LawfulResponses
    BY ResponsesLawful DEF WireInv
  <2>. QED
    BY <2>1, <2>2, <2>3 DEF CodecLaws
<1>. QED
  BY <1>1, WireAlways, PTL
=============================================================================
