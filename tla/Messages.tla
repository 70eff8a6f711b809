------------------------------ MODULE Messages ------------------------------
(***************************************************************************)
(* The protobuf messages of the system as the generated code treats them:  *)
(* what New, Clear, the accessors, SerializeToString, ParseFromString,     *)
(* ByteSizeLong and MergeFrom do to a message, on the bytes of the proto3  *)
(* wire format.                                                            *)
(*                                                                         *)
(* A message type is the sequence of the kinds of its fields, in the order *)
(* of their field numbers 1, 2, ... A message is a record: f[k] the value  *)
(* of field k, unknown the bytes of the fields its type does not have.     *)
(* Absent scalars have their default, an embedded message is a set of at   *)
(* most one message.  Bytes are numbers 0..255.  Numbers are not negative  *)
(* (errcode is 0 or 1, ids count from 1); a varint, which is also a length,*)
(* is exact for values below Limit, a fixed64 for all its 64 bits.         *)
(***************************************************************************)
EXTENDS Naturals, SequencesExt

(* The message types: each generated class is the instance, for its fields,
   of the functions below.  RegisterResponse, which nobody fills in, is laid out
   like LoginResponse. *)
RpcHeader        == <<"enum", "fixed64", "bytes", "bytes", "bytes">>
ResultCode       == <<"int32", "bytes">>
LoginRequest     == <<"bytes", "bytes">>
LoginResponse    == <<"message", "bool">>
RegisterRequest  == <<"uint32", "bytes", "bytes">>

REQUEST  == 0    \* enum MessageType
RESPONSE == 1

\* The only type of the system that other messages embed; it embeds none.
Embedded == ResultCode

Wire(kind) == CASE kind = "fixed64"             -> 1
                [] kind \in {"bytes", "message"} -> 2
                [] OTHER                         -> 0

Default(kind) == CASE kind = "bytes"   -> <<>>
                   [] kind = "message" -> {}
                   [] OTHER            -> 0

New(type) == [f       |-> [k \in DOMAIN type |-> Default(type[k])],
              unknown |-> <<>>]

\* Mutant of Clear: the unknown fields stay.
ClearKnown(type, m) == [m EXCEPT !.f = New(type).f]

Clear(type, m) == [m EXCEPT !.f = New(type).f, !.unknown = <<>>]

-----------------------------------------------------------------------------
(* Writing. *)

Byte  == 0..255
Limit == 268435456    \* bound: varints have at most four bytes

Low(v) == 128 + (v % 128)

Varint(v) ==
    IF v < 128 THEN <<v>>
    ELSE IF v < 16384 THEN <<Low(v), v \div 128>>
    ELSE IF v < 2097152 THEN <<Low(v), Low(v \div 128), v \div 16384>>
    ELSE <<Low(v), Low(v \div 128), Low(v \div 16384), v \div 2097152>>

\* The lower two bytes of a number, and the number without them.
Word(v)  == <<v % 256, (v \div 256) % 256>>
Above(v) == v \div 65536

Fixed64(v) ==
    Word(v) \o Word(Above(v)) \o Word(Above(Above(v))) \o Word(Above(Above(Above(v))))

Prefixed(b) == Varint(Len(b)) \o b

\* The message in a field that has one.
Only(v) == CHOOSE s \in v : TRUE

(* One field: nothing for a default, otherwise the tag and the value. An
   embedded message is written whenever it is there, even when empty. *)
FlatField(k, kind, v) ==
    LET tag == <<8 * k + Wire(kind)>>
    IN  IF v = Default(kind) THEN <<>>
        ELSE CASE kind = "bytes"   -> tag \o Prefixed(v)
               [] kind = "fixed64" -> tag \o Fixed64(v)
               [] OTHER            -> tag \o Varint(v)

SerializeFlat(s) ==
    FlattenSeq([k \in DOMAIN Embedded |-> FlatField(k, Embedded[k], s.f[k])]) \o s.unknown

Field(k, kind, v) ==
    IF kind = "message" /\ v # {}
    THEN <<8 * k + Wire(kind)>> \o Prefixed(SerializeFlat(Only(v)))
    ELSE FlatField(k, kind, v)

SerializeToString(type, m) ==
    FlattenSeq([k \in DOMAIN type |-> Field(k, type[k], m.f[k])]) \o m.unknown

(* The size the code computes before it writes. *)
VarintSize(v) == IF v < 128 THEN 1 ELSE IF v < 16384 THEN 2
                 ELSE IF v < 2097152 THEN 3 ELSE 4

LengthSize(n) == VarintSize(n) + n

FlatSize(kind, v) ==
    IF v = Default(kind) THEN 0
    ELSE CASE kind = "bytes"   -> 1 + LengthSize(Len(v))
           [] kind = "fixed64" -> 1 + 8
           [] kind = "bool"    -> 1 + 1
           [] OTHER            -> 1 + VarintSize(v)

\* The fields from the first to the last, on top of the unknown ones.
EmbeddedSize(s) ==
    LET total[k \in 0..Len(Embedded)] ==
            IF k = 0 THEN Len(s.unknown) ELSE total[k - 1] + FlatSize(Embedded[k], s.f[k])
    IN  total[Len(Embedded)]

FieldSize(kind, v) ==
    IF kind = "message" /\ v # {} THEN 1 + LengthSize(EmbeddedSize(Only(v)))
    ELSE FlatSize(kind, v)

ByteSizeLong(type, m) ==
    LET total[k \in 0..Len(type)] ==
            IF k = 0 THEN Len(m.unknown) ELSE total[k - 1] + FieldSize(type[k], m.f[k])
    IN  total[Len(type)]

-----------------------------------------------------------------------------
(* Reading.  What the code reads through a pointer is here what is left of the
   bytes: a reader looks at the front of b. *)

UpTo(b, n)  == SubSeq(b, 1, n)
Behind(b, n) == SubSeq(b, n + 1, Len(b))

(* A varint of n bytes, at most ten; one of 2^28 or more is read as the
   greatest number below: a length that large runs over the end just so. *)
EndsAfter(b, n) ==
    /\ n <= Len(b) /\ b[n] < 128
    /\ \A k \in 1..(n - 1) : b[k] >= 128

Group(b, k, n) == IF k <= n THEN b[k] % 128 ELSE 0

Joined(p, q, r, s) == p + 128 * q + 16384 * r + 2097152 * s

Overflows(b, n) == \E k \in 5..n : b[k] % 128 # 0

VarintOf(b, n) ==
    [ok |-> TRUE, size |-> n,
     val |-> IF Overflows(b, n) THEN Limit - 1
             ELSE Joined(Group(b, 1, n), Group(b, 2, n), Group(b, 3, n), Group(b, 4, n))]

ReadVarint(b) ==
    IF \E n \in 1..10 : EndsAfter(b, n)
    THEN VarintOf(b, CHOOSE n \in 1..10 : EndsAfter(b, n))
    ELSE [ok |-> FALSE, size |-> 0, val |-> 0]

WordAt(b, i) == b[i] + 256 * b[i + 1]

Below(low, high) == low + 65536 * high

ReadFixed64(b) ==
    Below(WordAt(b, 1), Below(WordAt(b, 3), Below(WordAt(b, 5), WordAt(b, 7))))

(* The field at the front of b: its number, its wire type, its value, its
   bytes.  Tag 0, an end of group, and a field that runs over the end of the
   bytes fail; groups, which no message here has, too. *)
Failure == [ok |-> FALSE, num |-> 0, wire |-> 0, val |-> 0, bytes |-> <<>>, raw |-> <<>>]

Token(b, tag, val, bytes, size) ==
    [ok |-> TRUE, num |-> tag.val \div 8, wire |-> tag.val % 8, val |-> val,
     bytes |-> bytes, raw |-> UpTo(b, size)]

\* n is the size of tag and varint v, or of the tag alone.
ReadBytes(b, tag, v, n) ==
    IF n + v.val > Len(b) THEN Failure
    ELSE Token(b, tag, 0, SubSeq(b, n + 1, n + v.val), n + v.val)

ReadFixed(b, tag, n, width) ==
    IF n + width > Len(b) THEN Failure
    ELSE Token(b, tag, IF width = 8 THEN ReadFixed64(Behind(b, n)) ELSE 0, <<>>, n + width)

ReadValue(b, tag, v) ==
    CASE tag.val % 8 = 0 /\ v.ok -> Token(b, tag, v.val, <<>>, tag.size + v.size)
      [] tag.val % 8 = 1         -> ReadFixed(b, tag, tag.size, 8)
      [] tag.val % 8 = 2 /\ v.ok -> ReadBytes(b, tag, v, tag.size + v.size)
      [] tag.val % 8 = 5         -> ReadFixed(b, tag, tag.size, 4)
      [] OTHER                   -> Failure

ReadTagged(b, tag) ==
    IF ~tag.ok \/ tag.val < 8 THEN Failure
    ELSE ReadValue(b, tag, ReadVarint(Behind(b, tag.size)))

ReadField(b) == ReadTagged(b, ReadVarint(b))

(* All fields in order; the last one may be a failure. *)
Fields[b \in Seq(Byte)] ==
    IF b = <<>> THEN <<>>
    ELSE LET t == ReadField(b)
         IN  <<t>> \o (IF t.ok THEN Fields[Behind(b, Len(t.raw))] ELSE <<>>)

(* What a field does to a message: the last value wins, and a field whose
   number or wire type the type does not have is kept as unknown bytes.  What
   was read before a failure stays in the message. *)
Set(m, k, v) == [m EXCEPT !.f[k] = v]

Skips(type, t) == t.num \notin DOMAIN type \/ Wire(type[t.num]) # t.wire

Value(kind, t) ==
    CASE kind = "bytes" -> t.bytes
      [] kind = "bool"  -> IF t.val = 0 THEN 0 ELSE 1
      [] OTHER          -> t.val

AbsorbFlat(type, acc, t) ==
    IF ~acc.ok \/ ~t.ok THEN [acc EXCEPT !.ok = FALSE]
    ELSE IF Skips(type, t) THEN [acc EXCEPT !.m.unknown = @ \o t.raw]
    ELSE [acc EXCEPT !.m = Set(@, t.num, Value(type[t.num], t))]

\* The embedded message, created when it is not there.
Existing(opt) == IF opt = {} THEN New(Embedded) ELSE Only(opt)

MergeFields(m, ts) ==
    LET acc[n \in 0..Len(ts)] ==
            IF n = 0 THEN [m |-> m, ok |-> TRUE] ELSE AbsorbFlat(Embedded, acc[n - 1], ts[n])
    IN  acc[Len(ts)]

ParseEmbedded(opt, b) == MergeFields(Existing(opt), Fields[b])

(* An embedded message is merged into the one that is there. *)
IsMessage(type, t) == t.ok /\ ~Skips(type, t) /\ type[t.num] = "message"

PutMessage(acc, k, e) == [m |-> Set(acc.m, k, {e.m}), ok |-> e.ok]

Absorb(type, acc, t) ==
    IF acc.ok /\ IsMessage(type, t)
    THEN PutMessage(acc, t.num, ParseEmbedded(acc.m.f[t.num], t.bytes))
    ELSE AbsorbFlat(type, acc, t)

MergeAll(type, m, ts) ==
    LET acc[n \in 0..Len(ts)] ==
            IF n = 0 THEN [m |-> m, ok |-> TRUE] ELSE Absorb(type, acc[n - 1], ts[n])
    IN  acc[Len(ts)]

(* [m, ok]: the message is cleared first. *)
ParseFromString(type, m, b) == MergeAll(type, Clear(type, m), Fields[b])

-----------------------------------------------------------------------------
(* Merging two messages of one type: what is set in from replaces or is
   merged into what is in to. *)
MergeEmbedded(to, from) ==
    [f |-> [k \in DOMAIN Embedded |->
              IF from.f[k] = Default(Embedded[k]) THEN to.f[k] ELSE from.f[k]],
     unknown |-> to.unknown \o from.unknown]

MergeFrom(type, to, from) ==
    [f |-> [k \in DOMAIN type |->
              IF from.f[k] = Default(type[k]) THEN to.f[k]
              ELSE IF type[k] = "message"
                   THEN {MergeEmbedded(Existing(to.f[k]), Only(from.f[k]))}
                   ELSE from.f[k]],
     unknown |-> to.unknown \o from.unknown]

CopyFrom(type, to, from) == MergeFrom(type, Clear(type, to), from)

-----------------------------------------------------------------------------
(* The accessors the system uses. *)

type(h)                == h.f[1]            \* RpcHeader
id(h)                  == h.f[2]
service_name(h)        == h.f[3]
method_name(h)         == h.f[4]
payload(h)             == h.f[5]
set_type(h, v)         == Set(h, 1, v)
set_id(h, v)           == Set(h, 2, v)
set_service_name(h, v) == Set(h, 3, v)
set_method_name(h, v)  == Set(h, 4, v)
set_payload(h, v)      == Set(h, 5, v)

errcode(c)             == c.f[1]            \* ResultCode
set_errcode(c, v)      == Set(c, 1, v)
set_errmsg(c, v)       == Set(c, 2, v)

set_name(q, v)         == Set(q, 1, v)      \* LoginRequest
set_pwd(q, v)          == Set(q, 2, v)

\* LoginResponse.  result() of a message without result is the default one;
\* mutable_result() creates it, and what is written through it ends up as c.
result(r)            == Existing(r.f[1])
mutable_result(r, c) == Set(r, 1, {c})
set_success(r, v)    == Set(r, 2, v)
=============================================================================
