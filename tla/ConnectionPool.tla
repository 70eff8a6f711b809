--------------------------- MODULE ConnectionPool ---------------------------
(***************************************************************************)
(* MySQLConnectionPool (example/MySQLServer/ConnectionPool.h): a bounded   *)
(* pool of database connections behind one mutex and one condition         *)
(* variable, used by the pool threads of UserServiceImpl::Login and by the *)
(* threads of the stress test, each of which takes a connection, queries   *)
(* and gives it back a number of times.                                    *)
(*                                                                         *)
(* The body of getConnection between two waits and the body of             *)
(* releaseConnection run under mutex_, so each is one action.  A thread in *)
(* cond_.wait is "waiting" until it is notified or wakes up spuriously;    *)
(* then it is "woken" and must win the mutex against everybody else.       *)
(* Connections are numbered in the order createConnection opened them.     *)
(***************************************************************************)
EXTENDS Integers, Sequences, FiniteSets

CONSTANTS Threads,      \* the threads that use the pool
          InitialSize,  \* initialSize of the constructor
          MaxSize,      \* maxSize of the constructor
          Rounds        \* bound: times each thread uses a connection

ASSUME ThreadsAssumption == IsFiniteSet(Threads)
ASSUME SizeAssumption ==
    InitialSize \in Nat /\ MaxSize \in Nat \ {0} /\ InitialSize <= MaxSize
ASSUME RoundsAssumption == Rounds \in Nat

Connections == 1..MaxSize
NoConnection == 0

VARIABLES pool_,          \* the queue of idle connections
          currentCount_,  \* connections opened so far
          pc,             \* where each thread is
          conn,           \* the connection each thread uses
          round,          \* rounds each thread has finished
          closed          \* connections mysql_close was called on

vars == <<pool_, currentCount_, pc, conn, round, closed>>

\* The constructor opens up to InitialSize connections; any may fail.
Init ==
    /\ currentCount_ \in 0..InitialSize
    /\ pool_ = [i \in 1..currentCount_ |-> i]
    /\ pc = [t \in Threads |-> "idle"]
    /\ conn = [t \in Threads |-> NoConnection]
    /\ round = [t \in Threads |-> 0]
    /\ closed = {}

Finished(t) == pc[t] = "idle" /\ round[t] = Rounds

-----------------------------------------------------------------------------
(* getConnection.                                                          *)

\* Mutant of TakeFront: the front is read but not popped.
FrontNotPopped(t) ==
    /\ pool_ # <<>>
    /\ conn' = [conn EXCEPT ![t] = Head(pool_)]
    /\ pc' = [pc EXCEPT ![t] = "using"]
    /\ UNCHANGED <<pool_, currentCount_, round, closed>>

\* pool_.front(), pool_.pop(): the longest idle connection goes to t.
TakeFront(t) ==
    /\ pool_ # <<>>
    /\ conn' = [conn EXCEPT ![t] = Head(pool_)]
    /\ pool_' = Tail(pool_)
    /\ pc' = [pc EXCEPT ![t] = "using"]
    /\ UNCHANGED <<currentCount_, round, closed>>

\* Mutant of Grow: an off-by-one in the comparison with maxSize_.
GrowPastMax(t) ==
    /\ pc[t] = "idle"
    /\ round[t] < Rounds
    /\ pool_ = <<>>
    /\ currentCount_ <= MaxSize
    /\ currentCount_' = currentCount_ + 1
    /\ conn' = [conn EXCEPT ![t] = currentCount_ + 1]
    /\ pc' = [pc EXCEPT ![t] = "using"]
    /\ UNCHANGED <<pool_, round, closed>>

\* The pool is empty and may grow: a new connection, for t at once.
Grow(t) ==
    /\ pc[t] = "idle"
    /\ round[t] < Rounds
    /\ pool_ = <<>>
    /\ currentCount_ < MaxSize
    /\ currentCount_' = currentCount_ + 1
    /\ conn' = [conn EXCEPT ![t] = currentCount_ + 1]
    /\ pc' = [pc EXCEPT ![t] = "using"]
    /\ UNCHANGED <<pool_, round, closed>>

\* Mutant of GrowFails: counted although it was not opened.
CountFailure(t) ==
    /\ pc[t] = "idle"
    /\ round[t] < Rounds
    /\ pool_ = <<>>
    /\ currentCount_ < MaxSize
    /\ currentCount_' = currentCount_ + 1
    /\ round' = [round EXCEPT ![t] = @ + 1]
    /\ UNCHANGED <<pool_, pc, conn, closed>>

\* The same, but the database refuses: nullptr, and the caller goes on.
GrowFails(t) ==
    /\ pc[t] = "idle"
    /\ round[t] < Rounds
    /\ pool_ = <<>>
    /\ currentCount_ < MaxSize
    /\ round' = [round EXCEPT ![t] = @ + 1]
    /\ UNCHANGED <<pool_, currentCount_, pc, conn, closed>>

\* The pool is not empty: no wait.
Take(t) ==
    /\ pc[t] = "idle"
    /\ round[t] < Rounds
    /\ TakeFront(t)

\* Mutant of Wait: a thread sleeps although the pool may still grow.
WaitTooEarly(t) ==
    /\ pc[t] = "idle"
    /\ round[t] < Rounds
    /\ pool_ = <<>>
    /\ pc' = [pc EXCEPT ![t] = "waiting"]
    /\ UNCHANGED <<pool_, currentCount_, conn, round, closed>>

\* The pool is empty and may not grow: cond_.wait gives up the mutex.
Wait(t) ==
    /\ pc[t] = "idle"
    /\ round[t] < Rounds
    /\ pool_ = <<>>
    /\ currentCount_ >= MaxSize
    /\ pc' = [pc EXCEPT ![t] = "waiting"]
    /\ UNCHANGED <<pool_, currentCount_, conn, round, closed>>

\* A woken thread has the mutex again and evaluates the loop's condition.
Recheck(t) ==
    /\ pc[t] = "woken"
    /\ \/ TakeFront(t)
       \/ /\ pool_ = <<>>
          /\ pc' = [pc EXCEPT ![t] = "waiting"]
          /\ UNCHANGED <<pool_, currentCount_, conn, round, closed>>

\* A condition variable may wake a thread without a notification.
SpuriousWakeup(t) ==
    /\ pc[t] = "waiting"
    /\ pc' = [pc EXCEPT ![t] = "woken"]
    /\ UNCHANGED <<pool_, currentCount_, conn, round, closed>>

-----------------------------------------------------------------------------
(* releaseConnection.                                                      *)

\* Mutant of NotifyOne: notify only when the pool was empty before.
NotifyIfWasEmpty(t) ==
    LET waiting == {w \in Threads : pc[w] = "waiting"} IN
    IF waiting = {} \/ pool_ # <<>> THEN pc' = [pc EXCEPT ![t] = "idle"]
    ELSE \E w \in waiting : pc' = [pc EXCEPT ![t] = "idle", ![w] = "woken"]

\* cond_.notify_one(), in the step in which t stops using its connection.
NotifyOne(t) ==
    LET waiting == {w \in Threads : pc[w] = "waiting"} IN
    IF waiting = {} THEN pc' = [pc EXCEPT ![t] = "idle"]
    ELSE \E w \in waiting : pc' = [pc EXCEPT ![t] = "idle", ![w] = "woken"]

\* Whatever became of the query, the connection goes back to the queue.
Release(t) ==
    /\ pc[t] = "using"
    /\ pool_' = Append(pool_, conn[t])
    /\ conn' = [conn EXCEPT ![t] = NoConnection]
    /\ round' = [round EXCEPT ![t] = @ + 1]
    /\ NotifyOne(t)
    /\ UNCHANGED <<currentCount_, closed>>

\* ~MySQLConnectionPool, after main has joined the threads.
Destroy ==
    /\ \A t \in Threads : Finished(t)
    /\ pool_ # <<>>
    /\ closed' = closed \cup {pool_[i] : i \in DOMAIN pool_}
    /\ pool_' = <<>>
    /\ UNCHANGED <<currentCount_, pc, conn, round>>

-----------------------------------------------------------------------------
GetConnection(t) ==
    Grow(t) \/ GrowFails(t) \/ Take(t) \/ Wait(t) \/ Recheck(t)

Next ==
    \/ \E t \in Threads : GetConnection(t) \/ SpuriousWakeup(t) \/ Release(t)
    \/ Destroy

Spec == Init /\ [][Next]_vars

\* A thread that can take the mutex eventually does: nobody keeps it.
\* Nothing makes a waiting thread wake up on its own.
Fairness ==
    /\ \A t \in Threads : WF_vars(GetConnection(t)) /\ WF_vars(Release(t))
    /\ WF_vars(Destroy)

FairSpec == Spec /\ Fairness

-----------------------------------------------------------------------------
(* Properties.                                                             *)

\* Every variable has its type.
TypeOK ==
    /\ pool_ \in Seq(Connections)
    /\ currentCount_ \in 0..MaxSize
    /\ pc \in [Threads -> {"idle", "waiting", "woken", "using"}]
    /\ conn \in [Threads -> Connections \cup {NoConnection}]
    /\ round \in [Threads -> 0..Rounds]
    /\ closed \in SUBSET Connections

\* No connection is used by two threads, queued twice, queued while used,
\* or touched after mysql_close.
NoSharing ==
    /\ \A t, u \in Threads : conn[t] = conn[u] /\ conn[t] # NoConnection => t = u
    /\ \A i, j \in DOMAIN pool_ : pool_[i] = pool_[j] => i = j
    /\ \A t \in Threads, i \in DOMAIN pool_ : conn[t] # pool_[i]
    /\ \A c \in closed : /\ \A t \in Threads : conn[t] # c
                         /\ \A i \in DOMAIN pool_ : pool_[i] # c

\* Every connection ever opened is queued, in use or closed: none leaks on
\* a path of getConnection or of its callers.
NoLeak ==
    \A c \in 1..currentCount_ :
        \/ \E i \in DOMAIN pool_ : pool_[i] = c
        \/ \E t \in Threads : conn[t] = c
        \/ c \in closed

\* While threads sleep in cond_.wait, every idle connection has a woken
\* thread that is on its way to it: one notify_one per release is enough,
\* although a thread that never waited may overtake the woken one.
NoLostWakeup ==
    (\E t \in Threads : pc[t] = "waiting")
    => Len(pool_) <= Cardinality({t \in Threads : pc[t] = "woken"})

\* A thread sleeps only once the pool has all the connections it may have.
WaitersMeanFullPool ==
    (\E t \in Threads : pc[t] \in {"waiting", "woken"}) => currentCount_ = MaxSize

\* Each thread of the stress test gets through its iterations, main joins
\* them all and the pool is closed.
AllServed ==
    <>(pool_ = <<>> /\ \A t \in Threads : Finished(t))

-----------------------------------------------------------------------------
(* The inductive invariant.                                                *)

\* A thread has a connection exactly while it uses one; only opened
\* connections are around; a destroyed pool stays unused.
Bookkeeping ==
    /\ \A t \in Threads : pc[t] = "using" <=> conn[t] # NoConnection
    /\ \A t \in Threads : conn[t] <= currentCount_
    /\ \A i \in DOMAIN pool_ : pool_[i] <= currentCount_
    /\ \A c \in closed : c <= currentCount_
    /\ \A t \in Threads : pc[t] # "idle" => round[t] < Rounds

IInv ==
    /\ TypeOK
    /\ Bookkeeping
    /\ NoSharing
    /\ NoLeak
    /\ NoLostWakeup
    /\ WaitersMeanFullPool
=============================================================================
