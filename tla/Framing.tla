------------------------------- MODULE Framing -------------------------------
(***************************************************************************)
(* The byte streams under the RPC messages.  CallMethod and doneCallback   *)
(* put a length in front of a serialised header and hand both to the       *)
(* connection; TCP delivers the bytes in pieces of any size; and onMessage,*)
(* called with each piece, takes the complete messages off the buffer.     *)
(*                                                                         *)
(* A pipe is one direction of one connection.  Bytes are counted, not      *)
(* stored: stream[p] holds what was written to pipe p, each frame with the *)
(* position of its first byte; the input buffer of the reader holds the    *)
(* bytes from consumed[p] to received[p].                                  *)
(***************************************************************************)
EXTENDS Naturals, Sequences

CONSTANTS
    Pipes,      \* the directions of the connections
    Bodies,     \* the serialised headers that may be sent
    BadLengths, \* length fields no correct sender writes
    MaxLen,     \* kMaxMessageLen
    Parses(_)   \* Parses(b): RpcHeader::ParseFromString accepts body b

LenField == 4   \* kLenField, the length field counts itself

Valid(n) == n >= LenField /\ n <= MaxLen

ASSUME FramingAssumption ==
    /\ Bodies \subseteq Seq(Nat)
    /\ BadLengths \subseteq Nat
    /\ \A n \in BadLengths : ~Valid(n)
    /\ \A b \in Bodies : Parses(b) \in BOOLEAN
    /\ MaxLen \in Nat

VARIABLES
    stream,   \* stream[p]: the frames written, in order
    received, \* received[p]: bytes that have arrived in the reader's buffer, ever
    consumed, \* consumed[p]: bytes the reader has retrieved from its buffer, ever
    reading,  \* reading[p]: the reader is inside the loop of onMessage
    handled,  \* handled[p]: the headers given to onRPCMessage, in order
    refused,  \* refused[p]: the reader has called shutdown for a bad length
    taken     \* history: taken[p] messages were retrieved

frameVars == <<stream, received, consumed, reading, handled, refused, taken>>

Frame == [start : Nat, len : Nat, body : Bodies \cup {<<>>}]

\* The bytes a frame has on the wire, and the position behind the last one.
Size(f) == LenField + Len(f.body)

Written(p) == IF stream[p] = <<>> THEN 0
              ELSE LET f == stream[p][Len(stream[p])] IN f.start + Size(f)

TypeOK ==
    /\ stream \in [Pipes -> Seq(Frame)]
    /\ received \in [Pipes -> Nat]
    /\ consumed \in [Pipes -> Nat]
    /\ reading \in [Pipes -> BOOLEAN]
    /\ handled \in [Pipes -> Seq(Bodies)]
    /\ refused \in [Pipes -> BOOLEAN]
    /\ taken \in [Pipes -> Nat]

FrameInit ==
    /\ stream = [p \in Pipes |-> <<>>]
    /\ received = [p \in Pipes |-> 0]
    /\ consumed = [p \in Pipes |-> 0]
    /\ reading = [p \in Pipes |-> FALSE]
    /\ handled = [p \in Pipes |-> <<>>]
    /\ refused = [p \in Pipes |-> FALSE]
    /\ taken = [p \in Pipes |-> 0]

(* Writing. *)

Write(p, n, b) ==
    /\ stream' = [stream EXCEPT ![p] = Append(@, [start |-> Written(p), len |-> n, body |-> b])]
    /\ UNCHANGED <<received, consumed, reading, handled, refused, taken>>

(* The length is not checked against the limit of the reader.  It is a
   uint32, and a body of 4 GB cannot be serialised, so that it never wraps. *)
Send(p, b) ==
    /\ b \in Bodies
    /\ Write(p, LenField + Len(b), b)

\* A peer that is not built from this code writes a bad length.
SendBadLength(p, n) ==
    /\ n \in BadLengths
    /\ Write(p, n, <<>>)

(* Reading.  The connection appends what has arrived to the buffer and calls
   onMessage; its loop is taken one iteration at a time. *)

Arrive(p, to) ==
    /\ ~reading[p]
    /\ to > received[p] /\ to <= Written(p)
    /\ received' = [received EXCEPT ![p] = to]
    /\ reading' = [reading EXCEPT ![p] = TRUE]
    /\ UNCHANGED <<stream, consumed, handled, refused, taken>>

readableBytes(p) == received[p] - consumed[p]

Frames(p) == {stream[p][i] : i \in DOMAIN stream[p]}

\* Frame f begins where the reader is, and its length field is in the buffer.
Peeked(p, f) ==
    /\ f.start = consumed[p]
    /\ readableBytes(p) >= LenField

Complete(p, f) == Peeked(p, f) /\ Valid(f.len) /\ readableBytes(p) >= f.len

\* Mutant of Retrieve: the length field stays in the buffer.
RetrieveBody(p, f) ==
    /\ consumed' = [consumed EXCEPT ![p] = @ + (f.len - LenField)]
    /\ taken' = [taken EXCEPT ![p] = @ + 1]
    /\ UNCHANGED <<stream, received, refused>>

\* Frame f leaves the buffer: its length field, then len - kLenField bytes.
Retrieve(p, f) ==
    /\ consumed' = [consumed EXCEPT ![p] = @ + LenField + (f.len - LenField)]
    /\ taken' = [taken EXCEPT ![p] = @ + 1]
    /\ UNCHANGED <<stream, received, refused>>

Leave(p) == reading' = [reading EXCEPT ![p] = FALSE]

\* Fewer bytes than a length field, or than the message: wait for more.
HalfPacket(p) ==
    /\ reading[p]
    /\ \/ readableBytes(p) < LenField
       \/ \E f \in Frames(p) : Peeked(p, f) /\ Valid(f.len) /\ readableBytes(p) < f.len
    /\ Leave(p)
    /\ UNCHANGED <<stream, received, consumed, handled, refused, taken>>

\* conn->shutdown() closes the sending half only: the bytes stay where they are.
InvalidLength(p) ==
    /\ reading[p]
    /\ \E f \in Frames(p) : Peeked(p, f) /\ ~Valid(f.len)
    /\ refused' = [refused EXCEPT ![p] = TRUE]
    /\ Leave(p)
    /\ UNCHANGED <<stream, received, consumed, handled, taken>>

\* Mutant of ParseFails: the return is missing, and what did not parse is handled.
HandleUnparsed(p) ==
    /\ reading[p]
    /\ \E f \in Frames(p) :
          /\ Complete(p, f) /\ ~Parses(f.body) /\ Retrieve(p, f)
          /\ handled' = [handled EXCEPT ![p] = Append(@, f.body)]
    /\ UNCHANGED reading

\* The message is dropped and the loop is left, whatever is behind it.
ParseFails(p) ==
    /\ reading[p]
    /\ \E f \in Frames(p) : Complete(p, f) /\ ~Parses(f.body) /\ Retrieve(p, f)
    /\ Leave(p)
    /\ UNCHANGED handled

\* Mutant of TakeMessage: the length field is taken for part of the message.
TakeWithLength(p, f) ==
    /\ reading[p]
    /\ Complete(p, f) /\ Parses(f.body)
    /\ Retrieve(p, f)
    /\ handled' = [handled EXCEPT ![p] = Append(@, <<f.len>> \o f.body)]
    /\ UNCHANGED reading

\* Mutant of TakeMessage: an if where the loop is.
TakeOnlyOne(p, f) ==
    /\ reading[p]
    /\ Complete(p, f) /\ Parses(f.body)
    /\ Retrieve(p, f)
    /\ handled' = [handled EXCEPT ![p] = Append(@, f.body)]
    /\ Leave(p)

\* The message goes to onRPCMessage, and the loop goes on.
TakeMessage(p, f) ==
    /\ reading[p]
    /\ Complete(p, f) /\ Parses(f.body)
    /\ Retrieve(p, f)
    /\ handled' = [handled EXCEPT ![p] = Append(@, f.body)]
    /\ UNCHANGED reading

FrameNext ==
    \E p \in Pipes :
        \/ \E b \in Bodies : Send(p, b)
        \/ \E n \in BadLengths : SendBadLength(p, n)
        \/ \E to \in 1..Written(p) : Arrive(p, to)
        \/ HalfPacket(p) \/ InvalidLength(p) \/ ParseFails(p)
        \/ \E f \in Frames(p) : TakeMessage(p, f)

FrameSpec == FrameInit /\ [][FrameNext]_frameVars

-----------------------------------------------------------------------------
(* The position up to which the reader has come is the first byte of a
   frame, the one after the taken ones: losing it once, the reader would take
   four bytes out of the middle of a message for a length. *)
AlignedAt(p) ==
    /\ taken[p] <= Len(stream[p])
    /\ consumed[p] = IF taken[p] = Len(stream[p]) THEN Written(p)
                     ELSE stream[p][taken[p] + 1].start

Aligned == \A p \in Pipes : AlignedAt(p)

(* onMessage goes back to wait for bytes only when there is nothing it could
   handle: a complete message with an acceptable length stays behind in the
   buffer only when the message before it did not parse. *)
QuietAt(p) ==
    ~reading[p] /\ (\E f \in Frames(p) : Complete(p, f))
        => taken[p] > 0 /\ ~Parses(stream[p][taken[p]].body)

NothingLingers == \A p \in Pipes : QuietAt(p)

(* The pipe is an ordered channel that hands over every message once. *)
Ordered == INSTANCE OrderedPipe
    WITH sent <- [p \in Pipes |->
                    [i \in 1..Len(stream[p]) |->
                        [body |-> stream[p][i].body, sound |-> Valid(stream[p][i].len)]]],
         next <- taken, delivered <- handled, closed <- refused

ImplementsOrderedPipe == Ordered!PipeSpec
=============================================================================
