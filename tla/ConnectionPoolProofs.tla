------------------------ MODULE ConnectionPoolProofs ------------------------
(***************************************************************************)
(* The safety of the connection pool for any number of threads, rounds and *)
(* connections.  NoSharing and NoLeak need to know where a connection may  *)
(* be (Bookkeeping); NoLostWakeup is inductive because a release adds one  *)
(* connection and, if anyone sleeps, one woken thread, because a thread    *)
(* goes to sleep only on an empty queue, and because a woken thread stops  *)
(* being woken only by taking a connection or on an empty queue.           *)
(***************************************************************************)
EXTENDS ConnectionPool, FiniteSetTheorems, TLAPS

(* The queues, position by position. *)

\* Head and Tail of a non-empty queue.
LEMMA FrontFacts ==
    ASSUME NEW S, NEW q \in Seq(S), q # <<>>
    PROVE  /\ Head(q) = q[1] /\ 1 \in DOMAIN q /\ Head(q) \in S
           /\ Tail(q) \in Seq(S)
           /\ Len(Tail(q)) = Len(q) - 1
           /\ \A i \in DOMAIN Tail(q) : i + 1 \in DOMAIN q /\ Tail(q)[i] = q[i + 1]
           /\ \A i \in DOMAIN q : i # 1 => i - 1 \in DOMAIN Tail(q)
                                           /\ Tail(q)[i - 1] = q[i]
OBVIOUS

\* Append to a queue.
LEMMA BackFacts ==
    ASSUME NEW S, NEW q \in Seq(S), NEW e \in S
    PROVE  /\ Append(q, e) \in Seq(S)
           /\ Len(Append(q, e)) = Len(q) + 1
           /\ DOMAIN Append(q, e) = DOMAIN q \cup {Len(q) + 1}
           /\ Len(q) + 1 \notin DOMAIN q
           /\ \A i \in DOMAIN q : Append(q, e)[i] = q[i]
           /\ Append(q, e)[Len(q) + 1] = e
OBVIOUS

Woken == {t \in Threads : pc[t] = "woken"}

\* How the number of woken threads changes when one thread's state does.
LEMMA WokenCount ==
    ASSUME NEW P \in SUBSET Threads, NEW t \in Threads
    PROVE  /\ Cardinality(P) \in Nat
           /\ t \notin P => Cardinality(P \cup {t}) = Cardinality(P) + 1
           /\ t \in P => Cardinality(P \ {t}) = Cardinality(P) - 1
<1>1. IsFiniteSet(P)
  BY ThreadsAssumption, FS_Subset
<1>. QED
  BY <1>1, FS_CardinalityType, FS_AddElement, FS_RemoveElement

\* The constructor establishes the invariant.
LEMMA InitIInv == Init => IInv
<1>. SUFFICES ASSUME Init PROVE IInv
  OBVIOUS
<1>. USE SizeAssumption, RoundsAssumption DEF Init, Connections, NoConnection
<1>1. pool_ \in Seq(Connections) /\ DOMAIN pool_ = 1..currentCount_
  OBVIOUS
<1>2. TypeOK
  BY <1>1 DEF TypeOK
<1>3. Bookkeeping /\ NoSharing
  BY <1>1 DEF Bookkeeping, NoSharing
<1>4. NoLeak
  BY <1>1 DEF NoLeak
<1>5. NoLostWakeup /\ WaitersMeanFullPool
  BY DEF NoLostWakeup, WaitersMeanFullPool
<1>. QED
  BY <1>2, <1>3, <1>4, <1>5 DEF IInv

\* Handing the front of the queue to a thread that is not using one.
LEMMA TakeFrontIInv ==
    ASSUME IInv, NEW t \in Threads, TakeFront(t), pc[t] # "using",
           round[t] < Rounds
    PROVE  IInv'
<1>. USE SizeAssumption DEF TakeFront, Connections, NoConnection
<1>1. TypeOK /\ Bookkeeping /\ NoSharing
  BY DEF IInv
<1>2. pool_ \in Seq(Connections)
  BY <1>1 DEF TypeOK
<1>. DEFINE c == Head(pool_)
<1>3. /\ c = pool_[1] /\ 1 \in DOMAIN pool_ /\ c \in Connections
      /\ pool_' \in Seq(Connections) /\ Len(pool_') = Len(pool_) - 1
      /\ \A i \in DOMAIN pool_' : i + 1 \in DOMAIN pool_ /\ pool_'[i] = pool_[i + 1]
      /\ \A i \in DOMAIN pool_ : i # 1 => i - 1 \in DOMAIN pool_'
                                          /\ pool_'[i - 1] = pool_[i]
  BY <1>2, FrontFacts
<1>4. /\ conn'[t] = c /\ conn[t] = NoConnection
      /\ pc'[t] = "using"
      /\ \A u \in Threads : u # t => conn'[u] = conn[u] /\ pc'[u] = pc[u]
  BY <1>1 DEF TypeOK, Bookkeeping
<1>5. TypeOK'
  <2>1. pc' \in [Threads -> {"idle", "waiting", "woken", "using"}]
        /\ conn' \in [Threads -> Connections \cup {NoConnection}]
    BY <1>1, <1>3 DEF TypeOK
  <2>2. pool_' \in Seq(Connections)
    BY <1>3
  <2>. QED
    BY <1>1, <2>1, <2>2 DEF TypeOK
<1>6. Bookkeeping'
  <2>1. c <= currentCount_ /\ c # NoConnection
    BY <1>1, <1>3 DEF Bookkeeping
  <2>2. \A u \in Threads : /\ pc'[u] = "using" <=> conn'[u] # NoConnection
                           /\ conn'[u] <= currentCount_
                           /\ pc'[u] # "idle" => round[u] < Rounds
    BY <1>1, <1>4, <2>1 DEF Bookkeeping
  <2>3. \A i \in DOMAIN pool_' : pool_'[i] <= currentCount_
    BY <1>1, <1>3 DEF Bookkeeping
  <2>. QED
    BY <1>1, <2>2, <2>3 DEF Bookkeeping
<1>7. NoSharing'
  <2>1. \A u \in Threads : conn[u] # c
    BY <1>1, <1>3 DEF NoSharing
  <2>2. \A i \in DOMAIN pool_' : pool_'[i] # c
    <3>. SUFFICES ASSUME NEW i \in DOMAIN pool_' PROVE pool_'[i] # c
      OBVIOUS
    <3>1. i + 1 \in DOMAIN pool_ /\ i + 1 # 1 /\ pool_'[i] = pool_[i + 1]
      BY <1>3
    <3>. QED
      BY <3>1, <1>1, <1>3 DEF NoSharing
  <2>3. \A i, j \in DOMAIN pool_' : pool_'[i] = pool_'[j] => i = j
    <3>. SUFFICES ASSUME NEW i \in DOMAIN pool_', NEW j \in DOMAIN pool_',
                         pool_'[i] = pool_'[j]
                  PROVE  i = j
      OBVIOUS
    <3>1. i + 1 = j + 1
      BY <1>1, <1>3 DEF NoSharing
    <3>. QED
      BY <3>1, <1>3
  <2>4. \A u \in Threads, i \in DOMAIN pool_' : conn'[u] # pool_'[i]
    BY <1>1, <1>3, <1>4, <2>2 DEF NoSharing
  <2>5. \A u, v \in Threads : conn'[u] = conn'[v] /\ conn'[u] # NoConnection => u = v
    BY <1>1, <1>4, <2>1 DEF NoSharing
  <2>6. \A d \in closed : /\ \A u \in Threads : conn'[u] # d
                          /\ \A i \in DOMAIN pool_' : pool_'[i] # d
    BY <1>1, <1>3, <1>4 DEF NoSharing
  <2>. QED
    BY <2>3, <2>4, <2>5, <2>6 DEF NoSharing
<1>8. NoLeak'
  <2>. SUFFICES ASSUME NEW d \in 1..currentCount_
                PROVE  \/ \E i \in DOMAIN pool_' : pool_'[i] = d
                       \/ \E u \in Threads : conn'[u] = d
                       \/ d \in closed
    BY DEF NoLeak
  <2>1. CASE \E i \in DOMAIN pool_ : pool_[i] = d
    <3>1. PICK i \in DOMAIN pool_ : pool_[i] = d
      BY <2>1
    <3>. QED
      BY <3>1, <1>3, <1>4
  <2>2. CASE \E u \in Threads : conn[u] = d
    <3>1. PICK u \in Threads : conn[u] = d
      BY <2>2
    <3>2. u # t
      BY <3>1, <1>4
    <3>. QED
      BY <3>1, <3>2, <1>4
  <2>. QED
    BY <2>1, <2>2 DEF IInv, NoLeak
<1>9. NoLostWakeup'
  <2>. DEFINE W == Woken
  <2>1. Woken' = Woken \ {t}
    BY <1>4 DEF Woken
  <2>2. /\ Cardinality(Woken) \in Nat
        /\ t \in Woken => Cardinality(Woken \ {t}) = Cardinality(Woken) - 1
    BY WokenCount DEF Woken
  <2>3. Cardinality(Woken') >= Cardinality(Woken) - 1
    <3>1. CASE t \in Woken
      BY <2>1, <2>2, <3>1
    <3>2. CASE t \notin Woken
      <4>1. Woken' = Woken
        BY <2>1, <3>2
      <4>. QED
        BY <4>1, <2>2
    <3>. QED
      BY <3>1, <3>2
  <2>4. ASSUME NEW u \in Threads, pc'[u] = "waiting"
        PROVE  Len(pool_') <= Cardinality(Woken')
    <3>1. pc[u] = "waiting"
      BY <1>4, <2>4
    <3>2. Len(pool_) <= Cardinality(Woken)
      BY <3>1 DEF IInv, NoLostWakeup, Woken
    <3>3. Cardinality(Woken') \in Nat
      <4>1. Woken' \in SUBSET Threads
        BY DEF Woken
      <4>. QED
        BY <4>1, WokenCount
    <3>. QED
      BY <1>2, <1>3, <2>2, <2>3, <3>2, <3>3
  <2>. QED
    BY <2>4 DEF NoLostWakeup, Woken
<1>10. WaitersMeanFullPool'
  BY <1>4 DEF IInv, WaitersMeanFullPool
<1>. QED
  BY <1>5, <1>6, <1>7, <1>8, <1>9, <1>10 DEF IInv

\* A freshly opened connection has the next number and one holder.
LEMMA GrowIInv ==
    ASSUME IInv, NEW t \in Threads, Grow(t)
    PROVE  IInv'
<1>. USE SizeAssumption DEF Grow, Connections, NoConnection
<1>1. TypeOK /\ Bookkeeping /\ NoSharing
  BY DEF IInv
<1>. DEFINE c == currentCount_ + 1
<1>2. c \in Connections /\ currentCount_ \in Nat /\ DOMAIN pool_ = {}
  BY <1>1 DEF TypeOK
<1>3. /\ conn'[t] = c /\ conn[t] = NoConnection /\ pc'[t] = "using" /\ pc[t] = "idle"
      /\ \A u \in Threads : u # t => conn'[u] = conn[u] /\ pc'[u] = pc[u]
  BY <1>1 DEF TypeOK, Bookkeeping
<1>4. TypeOK'
  BY <1>1, <1>2 DEF TypeOK
<1>5. Bookkeeping'
  BY <1>1, <1>2, <1>3 DEF TypeOK, Bookkeeping
<1>6. NoSharing'
  <2>1. \A u \in Threads : conn[u] # c /\ conn[u] <= currentCount_
    BY <1>1, <1>2 DEF Bookkeeping, TypeOK
  <2>2. \A d \in closed : d # c
    BY <1>1, <1>2 DEF Bookkeeping
  <2>. QED
    BY <1>1, <1>2, <1>3, <2>1, <2>2 DEF NoSharing
<1>7. NoLeak'
  <2>. SUFFICES ASSUME NEW d \in 1..c
                PROVE  (\E u \in Threads : conn'[u] = d) \/ d \in closed
    BY <1>2 DEF NoLeak
  <2>1. CASE d = c
    BY <1>3, <2>1
  <2>2. CASE d # c
    <3>1. (\E u \in Threads : conn[u] = d) \/ d \in closed
      BY <1>2, <2>2 DEF IInv, NoLeak
    <3>. QED
      BY <1>3, <2>2, <3>1, <1>2
  <2>. QED
    BY <2>1, <2>2
<1>8. NoLostWakeup'
  <2>1. Len(pool_') = 0 /\ Cardinality(Woken') \in Nat
    <3>1. Woken' \in SUBSET Threads
      BY DEF Woken
    <3>. QED
      BY <3>1, WokenCount
  <2>. QED
    BY <2>1 DEF NoLostWakeup, Woken
<1>9. WaitersMeanFullPool'
  BY <1>1, <1>3 DEF IInv, TypeOK, WaitersMeanFullPool
<1>. QED
  BY <1>4, <1>5, <1>6, <1>7, <1>8, <1>9 DEF IInv

\* A refused connection changes only the caller's round.
LEMMA GrowFailsIInv ==
    ASSUME IInv, NEW t \in Threads, GrowFails(t)
    PROVE  IInv'
<1>. USE SizeAssumption, RoundsAssumption DEF IInv, GrowFails
<1>1. TypeOK'
  BY DEF TypeOK
<1>2. Bookkeeping'
  BY DEF TypeOK, Bookkeeping
<1>3. (NoSharing /\ NoLeak /\ NoLostWakeup /\ WaitersMeanFullPool)'
  BY DEF NoSharing, NoLeak, NoLostWakeup, WaitersMeanFullPool
<1>. QED
  BY <1>1, <1>2, <1>3

\* A thread goes to sleep only when nothing is queued.
LEMMA SleepIInv ==
    ASSUME IInv, NEW t \in Threads, pc[t] \in {"idle", "woken"},
           pool_ = <<>>, currentCount_ = MaxSize, round[t] < Rounds,
           pc' = [pc EXCEPT ![t] = "waiting"],
           UNCHANGED <<pool_, currentCount_, conn, round, closed>>
    PROVE  IInv'
<1>. USE DEF IInv, NoConnection
<1>1. /\ pc'[t] = "waiting" /\ \A u \in Threads : u # t => pc'[u] = pc[u]
  BY DEF TypeOK
<1>2. TypeOK'
  BY DEF TypeOK
<1>3. Bookkeeping'
  BY <1>1 DEF TypeOK, Bookkeeping
<1>4. (NoSharing /\ NoLeak)'
  BY DEF NoSharing, NoLeak
<1>5. NoLostWakeup'
  <2>1. Len(pool_') = 0 /\ Cardinality(Woken') \in Nat
    <3>1. Woken' \in SUBSET Threads
      BY DEF Woken
    <3>. QED
      BY <3>1, WokenCount
  <2>. QED
    BY <2>1 DEF NoLostWakeup, Woken
<1>6. WaitersMeanFullPool'
  BY DEF WaitersMeanFullPool
<1>. QED
  BY <1>2, <1>3, <1>4, <1>5, <1>6

\* A spurious wakeup adds a woken thread.
LEMMA SpuriousWakeupIInv ==
    ASSUME IInv, NEW t \in Threads, SpuriousWakeup(t)
    PROVE  IInv'
<1>. USE DEF IInv, SpuriousWakeup, NoConnection
<1>1. /\ pc'[t] = "woken" /\ \A u \in Threads : u # t => pc'[u] = pc[u]
  BY DEF TypeOK
<1>2. TypeOK'
  BY DEF TypeOK
<1>3. Bookkeeping'
  BY <1>1 DEF TypeOK, Bookkeeping
<1>4. (NoSharing /\ NoLeak)'
  BY DEF NoSharing, NoLeak
<1>5. NoLostWakeup'
  <2>1. Woken' = Woken \cup {t} /\ t \notin Woken
    BY <1>1 DEF Woken
  <2>2. Cardinality(Woken') = Cardinality(Woken) + 1 /\ Cardinality(Woken) \in Nat
    BY <2>1, WokenCount DEF Woken
  <2>3. Len(pool_) <= Cardinality(Woken)
    BY DEF NoLostWakeup, Woken
  <2>4. Len(pool_) \in Nat
    BY DEF TypeOK
  <2>. QED
    BY <2>2, <2>3, <2>4 DEF NoLostWakeup, Woken
<1>6. WaitersMeanFullPool'
  BY <1>1 DEF WaitersMeanFullPool
<1>. QED
  BY <1>2, <1>3, <1>4, <1>5, <1>6

\* A release queues one connection and, if anyone sleeps, wakes one thread.
LEMMA ReleaseIInv ==
    ASSUME IInv, NEW t \in Threads, Release(t)
    PROVE  IInv'
<1>. USE SizeAssumption, RoundsAssumption DEF Release, Connections, NoConnection
<1>1. TypeOK /\ Bookkeeping /\ NoSharing
  BY DEF IInv
<1>. DEFINE c == conn[t]
            n == Len(pool_) + 1
            Waiting == {w \in Threads : pc[w] = "waiting"}
<1>2. pool_ \in Seq(Connections) /\ c \in Connections /\ Len(pool_) \in Nat
  BY <1>1 DEF TypeOK, Bookkeeping
<1>3. /\ pool_' \in Seq(Connections) /\ Len(pool_') = n
      /\ DOMAIN pool_' = DOMAIN pool_ \cup {n} /\ n \notin DOMAIN pool_
      /\ \A i \in DOMAIN pool_ : pool_'[i] = pool_[i]
      /\ pool_'[n] = c
  BY <1>2, BackFacts
<1>4. /\ conn'[t] = NoConnection
      /\ \A u \in Threads : u # t => conn'[u] = conn[u]
      /\ conn' \in [Threads -> Connections \cup {NoConnection}]
  BY <1>1 DEF TypeOK
<1>5. /\ pc' \in [Threads -> {"idle", "waiting", "woken", "using"}]
      /\ pc'[t] = "idle"
      /\ \A u \in Threads : u # t => \/ pc'[u] = pc[u]
                                     \/ pc[u] = "waiting" /\ pc'[u] = "woken"
  <2>1. CASE Waiting = {}
    <3>1. pc' = [pc EXCEPT ![t] = "idle"]
      BY <2>1 DEF NotifyOne
    <3>. QED
      BY <1>1, <3>1 DEF TypeOK
  <2>2. CASE Waiting # {}
    <3>1. PICK w \in Waiting : pc' = [pc EXCEPT ![t] = "idle", ![w] = "woken"]
      BY <2>2 DEF NotifyOne
    <3>2. w \in Threads /\ pc[w] = "waiting" /\ w # t
      OBVIOUS
    <3>3. /\ pc'[t] = "idle" /\ pc'[w] = "woken"
          /\ \A u \in Threads : u # t /\ u # w => pc'[u] = pc[u]
      BY <1>1, <3>1, <3>2 DEF TypeOK
    <3>4. pc' \in [Threads -> {"idle", "waiting", "woken", "using"}]
      BY <1>1, <3>1, <3>2 DEF TypeOK
    <3>. QED
      BY <3>2, <3>3, <3>4
  <2>. QED
    BY <2>1, <2>2
<1>6. TypeOK'
  <2>1. round[t] < Rounds /\ round \in [Threads -> 0..Rounds]
    BY <1>1 DEF TypeOK, Bookkeeping
  <2>2. round[t] + 1 \in 0..Rounds
    BY <2>1
  <2>3. round' \in [Threads -> 0..Rounds]
    BY <2>1, <2>2
  <2>. QED
    BY <1>1, <1>3, <1>4, <1>5, <2>3 DEF TypeOK
<1>7. Bookkeeping'
  <2>1. \A i \in DOMAIN pool_' : pool_'[i] <= currentCount_
    BY <1>1, <1>3 DEF Bookkeeping
  <2>2. \A u \in Threads : /\ pc'[u] = "using" <=> conn'[u] # NoConnection
                           /\ conn'[u] <= currentCount_
    BY <1>1, <1>4, <1>5 DEF Bookkeeping, TypeOK
  <2>3. \A u \in Threads : pc'[u] # "idle" => round'[u] < Rounds
    BY <1>1, <1>5 DEF Bookkeeping, TypeOK
  <2>. QED
    BY <1>1, <2>1, <2>2, <2>3 DEF Bookkeeping
<1>8. NoSharing'
  <2>1. \A i \in DOMAIN pool_ : pool_[i] # c
    BY <1>1 DEF NoSharing
  <2>2. \A i, j \in DOMAIN pool_' : pool_'[i] = pool_'[j] => i = j
    BY <1>1, <1>3, <2>1 DEF NoSharing
  <2>3. \A u \in Threads, i \in DOMAIN pool_' : conn'[u] # pool_'[i]
    <3>. SUFFICES ASSUME NEW u \in Threads, NEW i \in DOMAIN pool_'
                  PROVE  conn'[u] # pool_'[i]
      OBVIOUS
    <3>1. pool_'[i] \in Connections
      BY <1>3
    <3>2. CASE u = t
      BY <1>4, <3>1, <3>2
    <3>3. CASE u # t
      <4>1. conn'[u] = conn[u] /\ conn[u] # c
        BY <1>1, <1>2, <1>4, <3>3 DEF NoSharing
      <4>. QED
        BY <1>1, <1>3, <4>1 DEF NoSharing
    <3>. QED
      BY <3>2, <3>3
  <2>4. \A u, v \in Threads : conn'[u] = conn'[v] /\ conn'[u] # NoConnection => u = v
    BY <1>1, <1>4 DEF NoSharing
  <2>5. \A d \in closed : /\ \A u \in Threads : conn'[u] # d
                          /\ \A i \in DOMAIN pool_' : pool_'[i] # d
    <3>. SUFFICES ASSUME NEW d \in closed
                  PROVE  /\ \A u \in Threads : conn'[u] # d
                         /\ \A i \in DOMAIN pool_' : pool_'[i] # d
      OBVIOUS
    <3>1. d \in Connections /\ d # c
      BY <1>1 DEF TypeOK, NoSharing
    <3>2. \A u \in Threads : conn'[u] # d
      BY <1>1, <1>4, <3>1 DEF NoSharing
    <3>3. \A i \in DOMAIN pool_' : pool_'[i] # d
      BY <1>1, <1>3, <3>1 DEF NoSharing
    <3>. QED
      BY <3>2, <3>3
  <2>. QED
    BY <2>2, <2>3, <2>4, <2>5 DEF NoSharing
<1>9. NoLeak'
  <2>. SUFFICES ASSUME NEW d \in 1..currentCount_
                PROVE  \/ \E i \in DOMAIN pool_' : pool_'[i] = d
                       \/ \E u \in Threads : conn'[u] = d
                       \/ d \in closed
    BY DEF NoLeak
  <2>1. CASE \E i \in DOMAIN pool_ : pool_[i] = d
    BY <1>3, <2>1
  <2>2. CASE \E u \in Threads : conn[u] = d
    <3>1. PICK u \in Threads : conn[u] = d
      BY <2>2
    <3>2. CASE u = t
      BY <3>1, <3>2, <1>3
    <3>3. CASE u # t
      BY <3>1, <3>3, <1>4
    <3>. QED
      BY <3>2, <3>3
  <2>. QED
    BY <2>1, <2>2 DEF IInv, NoLeak
<1>10. NoLostWakeup'
  <2>1. CASE Waiting = {}
    <3>1. \A u \in Threads : pc'[u] # "waiting"
      BY <1>5, <2>1
    <3>. QED
      BY <3>1 DEF NoLostWakeup
  <2>2. CASE Waiting # {}
    <3>1. PICK w \in Waiting : pc' = [pc EXCEPT ![t] = "idle", ![w] = "woken"]
      BY <2>2 DEF NotifyOne
    <3>2. Woken' = Woken \cup {w} /\ w \notin Woken
      BY <1>1, <3>1 DEF Woken, TypeOK
    <3>3. Cardinality(Woken') = Cardinality(Woken) + 1 /\ Cardinality(Woken) \in Nat
      BY <3>2, WokenCount DEF Woken
    <3>4. Len(pool_) <= Cardinality(Woken)
      BY <2>2 DEF IInv, NoLostWakeup, Woken
    <3>5. Len(pool_') <= Cardinality(Woken')
      BY <1>2, <1>3, <3>3, <3>4
    <3>. QED
      BY <3>5 DEF NoLostWakeup, Woken
  <2>. QED
    BY <2>1, <2>2
<1>11. WaitersMeanFullPool'
  BY <1>5 DEF IInv, WaitersMeanFullPool
<1>. QED
  BY <1>6, <1>7, <1>8, <1>9, <1>10, <1>11 DEF IInv

\* Closing the queued connections when nobody uses the pool any more.
LEMMA DestroyIInv ==
    ASSUME IInv, Destroy
    PROVE  IInv'
<1>. USE SizeAssumption DEF IInv, Destroy, Finished, NoConnection
<1>1. /\ \A t \in Threads : conn[t] = NoConnection /\ pc[t] = "idle"
      /\ pool_' = <<>> /\ DOMAIN pool_' = {}
      /\ pool_ \in Seq(Connections)
  BY DEF TypeOK, Bookkeeping
<1>2. \A d \in closed' : d \in closed \/ \E i \in DOMAIN pool_ : d = pool_[i]
  OBVIOUS
<1>3. closed' \in SUBSET Connections
  BY <1>1 DEF TypeOK
<1>4. TypeOK'
  BY <1>1, <1>3 DEF TypeOK
<1>5. Bookkeeping'
  BY <1>1, <1>2 DEF Bookkeeping
<1>6. NoSharing'
  <2>1. 0 \notin closed'
    BY <1>3 DEF Connections
  <2>. QED
    BY <1>1, <2>1 DEF NoSharing
<1>7. NoLeak'
  <2>1. \A d \in 1..currentCount_ : d # NoConnection
    BY DEF TypeOK
  <2>. QED
    BY <1>1, <2>1 DEF NoLeak
<1>8. (NoLostWakeup /\ WaitersMeanFullPool)'
  BY <1>1 DEF NoLostWakeup, WaitersMeanFullPool
<1>. QED
  BY <1>4, <1>5, <1>6, <1>7, <1>8

\* Every step keeps the invariant.
LEMMA NextIInv == IInv /\ [Next]_vars => IInv'
<1>. SUFFICES ASSUME IInv, [Next]_vars PROVE IInv'
  OBVIOUS
<1>1. ASSUME NEW t \in Threads, Grow(t) \/ GrowFails(t) PROVE IInv'
  BY <1>1, GrowIInv, GrowFailsIInv
<1>2. ASSUME NEW t \in Threads, Take(t) PROVE IInv'
  BY <1>2, TakeFrontIInv DEF Take
<1>3. ASSUME NEW t \in Threads, Wait(t) PROVE IInv'
  <2>1. currentCount_ = MaxSize
    BY <1>3, SizeAssumption DEF Wait, IInv, TypeOK
  <2>. QED
    BY <1>3, <2>1, SleepIInv DEF Wait
<1>4. ASSUME NEW t \in Threads, Recheck(t) PROVE IInv'
  <2>1. round[t] < Rounds /\ currentCount_ = MaxSize /\ pc[t] = "woken"
    BY <1>4 DEF Recheck, IInv, Bookkeeping, WaitersMeanFullPool
  <2>2. CASE TakeFront(t)
    BY <2>1, <2>2, TakeFrontIInv
  <2>3. CASE /\ pool_ = <<>> /\ pc' = [pc EXCEPT ![t] = "waiting"]
             /\ UNCHANGED <<pool_, currentCount_, conn, round, closed>>
    BY <2>1, <2>3, SleepIInv
  <2>. QED
    BY <1>4, <2>2, <2>3 DEF Recheck
<1>5. ASSUME NEW t \in Threads, SpuriousWakeup(t) \/ Release(t) PROVE IInv'
  BY <1>5, SpuriousWakeupIInv, ReleaseIInv
<1>6. CASE Destroy
  BY <1>6, DestroyIInv
<1>7. CASE UNCHANGED vars
  BY <1>7 DEF vars, IInv, TypeOK, Bookkeeping, NoSharing, NoLeak, NoLostWakeup,
      WaitersMeanFullPool
<1>. QED
  BY <1>1, <1>2, <1>3, <1>4, <1>5, <1>6, <1>7 DEF Next, GetConnection

\* The inductive invariant holds for any number of threads and connections.
THEOREM Invariance == Spec => []IInv
<1>. QED
  BY InitIInv, NextIInv, PTL DEF Spec

\* Type correctness; in particular never more than maxSize_ connections are
\* open (ConnectionPool.h:55).
THEOREM TypeCorrect == Spec => []TypeOK
<1>1. IInv => TypeOK
  BY DEF IInv
<1>. QED
  BY <1>1, Invariance, PTL

\* getConnection never hands one connection to two threads.
THEOREM NoSharingHolds == Spec => []NoSharing
<1>1. IInv => NoSharing
  BY DEF IInv
<1>. QED
  BY <1>1, Invariance, PTL

\* Every opened connection stays accounted for.
THEOREM NoLeakHolds == Spec => []NoLeak
<1>1. IInv => NoLeak
  BY DEF IInv
<1>. QED
  BY <1>1, Invariance, PTL

\* One notify_one per releaseConnection (ConnectionPool.h:84) is enough: no
\* idle connection is left to a sleeping thread nobody has woken.
THEOREM NoLostWakeupHolds == Spec => []NoLostWakeup
<1>1. IInv => NoLostWakeup
  BY DEF IInv
<1>. QED
  BY <1>1, Invariance, PTL

\* A thread waits only when maxSize_ connections are open.
THEOREM WaitersMeanFullPoolHolds == Spec => []WaitersMeanFullPool
<1>1. IInv => WaitersMeanFullPool
  BY DEF IInv
<1>. QED
  BY <1>1, Invariance, PTL
=============================================================================
