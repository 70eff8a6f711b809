----------------------------- MODULE OrderedPipe -----------------------------
(***************************************************************************)
(* What a byte stream with length prefixes promises to the two ends of a   *)
(* pipe: the messages that parse are delivered in the order in which they  *)
(* were sent, each one once; a message that does not parse is skipped; and *)
(* a message whose length is not sound closes the pipe at its place for    *)
(* good.                                                                   *)
(***************************************************************************)
EXTENDS Naturals, Sequences

CONSTANTS Pipes, Bodies, Parses(_)

VARIABLES sent,      \* sent[p]: the messages written, never changed
          next,      \* next[p]: how many of them have left the pipe
          delivered, \* delivered[p]: those handed to the reader's handler
          closed     \* closed[p]: the reader refuses to read on

pipeVars == <<sent, next, delivered, closed>>

PipeInit ==
    /\ sent = [p \in Pipes |-> <<>>]
    /\ next = [p \in Pipes |-> 0]
    /\ delivered = [p \in Pipes |-> <<>>]
    /\ closed = [p \in Pipes |-> FALSE]

Put(p) ==
    /\ UNCHANGED <<next, delivered, closed>>
    /\ \E b \in Bodies \cup {<<>>}, sound \in BOOLEAN :
          sent' = [sent EXCEPT ![p] = Append(@, [body |-> b, sound |-> sound])]

Pending(p) == next[p] < Len(sent[p])

Step(p) == next' = [next EXCEPT ![p] = @ + 1]

Deliver(p) ==
    /\ Pending(p) /\ ~closed[p]
    /\ LET m == sent[p][next[p] + 1]
       IN  /\ m.sound /\ Parses(m.body)
           /\ delivered' = [delivered EXCEPT ![p] = Append(@, m.body)]
    /\ Step(p)
    /\ UNCHANGED <<sent, closed>>

Skip(p) ==
    /\ Pending(p) /\ ~closed[p]
    /\ LET m == sent[p][next[p] + 1] IN m.sound /\ ~Parses(m.body)
    /\ Step(p)
    /\ UNCHANGED <<sent, delivered, closed>>

Close(p) ==
    /\ Pending(p)
    /\ ~sent[p][next[p] + 1].sound
    /\ closed' = [closed EXCEPT ![p] = TRUE]
    /\ UNCHANGED <<sent, next, delivered>>

PipeNext == \E p \in Pipes : Put(p) \/ Deliver(p) \/ Skip(p) \/ Close(p)

PipeSpec == PipeInit /\ [][PipeNext]_pipeVars
=============================================================================
