----------------------- MODULE ServiceDiscoveryProofs -----------------------
(***************************************************************************)
(* For any number of methods, instances, changes and failed calls: a       *)
(* change of the registered instances goes unnoticed only behind a failed  *)
(* list of that method or the end of the session, and a list the worker    *)
(* stored last is right unless a newer notification is under way or one of *)
(* its own calls failed.                                                   *)
(*                                                                         *)
(* The argument: GetChildrenW, when it works, reads the list and leaves    *)
(* the watch in one step, and the watch turns into a pending notification  *)
(* in the step that changes the list (WatchCovered); so what the worker    *)
(* has read of a list since then is still true while nothing is pending    *)
(* (WorkerReadsFresh), and stays true when it is stored                    *)
(* (WorkerCacheFresh).  A failed call is remembered with what it spoils:   *)
(* the watch of its method (blind), the reading it belongs to (failed) and *)
(* the hosts stored from that (broken).                                    *)
(***************************************************************************)
EXTENDS ServiceDiscovery, TLAPS

(* The queues, position by position. *)

\* Head and Tail of a non-empty queue.
LEMMA FrontFacts ==
    ASSUME NEW S, NEW q \in Seq(S), q # <<>>
    PROVE  /\ Head(q) = q[1] /\ 1 \in DOMAIN q /\ Head(q) \in S
           /\ Tail(q) \in Seq(S)
           /\ Len(Tail(q)) = Len(q) - 1
           /\ \A i \in DOMAIN Tail(q) : i + 1 \in DOMAIN q /\ Tail(q)[i] = q[i + 1]
           /\ \A i \in DOMAIN q : i # 1 => i - 1 \in DOMAIN Tail(q)
                                           /\ Tail(q)[i - 1] = q[i]
OBVIOUS

\* Append to a queue.
LEMMA BackFacts ==
    ASSUME NEW S, NEW q \in Seq(S), NEW e \in S
    PROVE  /\ Append(q, e) \in Seq(S)
           /\ Len(Append(q, e)) = Len(q) + 1
           /\ DOMAIN Append(q, e) = DOMAIN q \cup {Len(q) + 1}
           /\ Len(q) + 1 \notin DOMAIN q
           /\ \A i \in DOMAIN q : Append(q, e)[i] = q[i]
           /\ Append(q, e)[Len(q) + 1] = e
OBVIOUS

\* What a queue contains after Append.
LEMMA ContentOfAppend ==
    ASSUME NEW S, NEW q \in Seq(S), NEW e \in S, NEW x
    PROVE  (\E i \in DOMAIN Append(q, e) : Append(q, e)[i] = x)
              <=> (\E i \in DOMAIN q : q[i] = x) \/ e = x
BY BackFacts

\* What a non-empty queue contains: its head and what its tail contains.
LEMMA ContentOfTail ==
    ASSUME NEW S, NEW q \in Seq(S), q # <<>>, NEW x
    PROVE  (\E i \in DOMAIN q : q[i] = x)
              <=> (\E i \in DOMAIN Tail(q) : Tail(q)[i] = x) \/ Head(q) = x
<1>1. ASSUME NEW i \in DOMAIN q, q[i] = x
      PROVE  (\E j \in DOMAIN Tail(q) : Tail(q)[j] = x) \/ Head(q) = x
  <2>1. CASE i = 1
    BY <1>1, <2>1, FrontFacts
  <2>2. CASE i # 1
    <3>1. i - 1 \in DOMAIN Tail(q) /\ Tail(q)[i - 1] = x
      BY <1>1, <2>2, FrontFacts
    <3>. QED
      BY <3>1
  <2>. QED
    BY <2>1, <2>2
<1>2. ASSUME NEW i \in DOMAIN Tail(q), Tail(q)[i] = x
      PROVE  \E j \in DOMAIN q : q[j] = x
  <2>1. i + 1 \in DOMAIN q /\ q[i + 1] = x
    BY <1>2, FrontFacts
  <2>. QED
    BY <2>1
<1>3. Head(q) = x => \E j \in DOMAIN q : q[j] = x
  <2>1. 1 \in DOMAIN q /\ Head(q) = q[1]
    BY FrontFacts
  <2>. QED
    BY <2>1
<1>. QED
  BY <1>1, <1>2, <1>3

\* Paths of different nodes differ, and a path names its method first.
LEMMA PathFacts ==
    /\ \A m, n \in Methods : MethodPath(m) = MethodPath(n) => m = n
    /\ \A m \in Methods : MethodPath(m) \in Paths /\ MethodPath(m) # NoPath
                          /\ MethodPath(m)[1] = m
    /\ \A m \in Methods, i \in Instances :
          /\ InstancePath(m, i) \in Paths
          /\ InstancePath(m, i) # NoPath
          /\ InstancePath(m, i)[1] = m
          /\ \A n \in Methods : InstancePath(m, i) # MethodPath(n)
    /\ \A p \in Paths : p[1] \in Methods /\ p # NoPath
BY DEF MethodPath, InstancePath, NoPath, Paths

\* A notification stays pending when another is queued behind it.
LEMMA PendingAfterFire ==
    ASSUME NEW p \in Paths, fired \in Seq(Paths), fired' = Append(fired, p),
           UNCHANGED events_
    PROVE  \A n \in Methods : Pending(n)' <=> Pending(n) \/ p = MethodPath(n)
BY ContentOfAppend DEF Pending

\* zkWatcher keeps every notification pending.
LEMMA PendingAfterWatcher ==
    ASSUME fired \in Seq(Paths), events_ \in Seq(Paths), fired # <<>>,
           fired' = Tail(fired), events_' = Append(events_, Head(fired))
    PROVE  \A n \in Methods : Pending(n)' <=> Pending(n)
<1>. SUFFICES ASSUME NEW n \in Methods PROVE Pending(n)' <=> Pending(n)
  OBVIOUS
<1>1. Head(fired) \in Paths
  BY FrontFacts
<1>. DEFINE x == MethodPath(n)
            t == Tail(fired)
            e == Append(events_, Head(fired))
<1>2. (\E i \in DOMAIN fired : fired[i] = x)
         <=> (\E i \in DOMAIN t : t[i] = x) \/ Head(fired) = x
  <2>. HIDE DEF x
  <2>. QED
    BY ContentOfTail
<1>3. (\E i \in DOMAIN e : e[i] = x)
         <=> (\E i \in DOMAIN events_ : events_[i] = x) \/ Head(fired) = x
  <2>1. /\ DOMAIN e = DOMAIN events_ \cup {Len(events_) + 1}
        /\ \A i \in DOMAIN events_ : e[i] = events_[i]
        /\ e[Len(events_) + 1] = Head(fired)
    BY <1>1, BackFacts
  <2>. HIDE DEF e, x
  <2>. QED
    BY <2>1
<1>4. Pending(n)' <=> \/ \E i \in DOMAIN t : t[i] = x
                      \/ \E i \in DOMAIN e : e[i] = x
  BY DEF Pending
<1>. QED
  BY <1>2, <1>3, <1>4 DEF Pending

\* The worker takes one notification, and no other is lost.
LEMMA PendingAfterPop ==
    ASSUME events_ \in Seq(Paths), events_ # <<>>, events_' = Tail(events_),
           UNCHANGED fired
    PROVE  \A n \in Methods :
              Pending(n) <=> Pending(n)' \/ Head(events_) = MethodPath(n)
BY ContentOfTail DEF Pending

\* Nothing is pending or lost when the queues stay.
LEMMA PendingUnchanged ==
    ASSUME UNCHANGED <<fired, events_>>
    PROVE  \A n : Pending(n)' <=> Pending(n)
BY DEF Pending

\* init has not read anything, the worker has nothing to do.
LEMMA InitIInv == Init => IInv
<1>. SUFFICES ASSUME Init PROVE IInv
  OBVIOUS
<1>. USE DEF Init
<1>1. IdleFetch \in FetchState
  BY DEF IdleFetch, FetchState
<1>2. TypeOK
  <2>1. version \in [Methods -> [Instances -> 0..MaxWrites]]
        /\ changes \in 0..MaxChanges /\ writes \in 0..MaxWrites
        /\ faults \in 0..MaxFaults
    BY BoundsAssumption
  <2>0. children \in [Methods -> SUBSET Instances]
    BY AtFirstAssumption
  <2>2. fired \in Seq(Paths) /\ events_ \in Seq(Paths)
    OBVIOUS
  <2>3. fetch \in [Fetchers -> FetchState]
    BY <1>1
  <2>4. /\ cache_ \in [Methods -> SUBSET Hosts]
        /\ lastWriter \in [Methods -> {"none"} \cup Fetchers]
    OBVIOUS
  <2>. QED
    BY <2>0, <2>1, <2>2, <2>3, <2>4 DEF TypeOK
<1>3. FetchInv /\ NoWritesInv /\ VersionInv
  BY DEF FetchInv, NoWritesInv, VersionInv, IdleFetch, Fetchers
<1>4. WatchCovered /\ WorkerWatched /\ WorkerReadsFresh /\ DataInv
      /\ WorkerCacheFresh
  BY PathFacts DEF WatchCovered, Listed, WorkerWatched, WorkerReadsFresh,
     DataInv, InstanceListed, WorkerCacheFresh, IdleFetch, Fetchers
<1>. QED
  BY <1>2, <1>3, <1>4 DEF IInv

\* A change of m's instances: m's watch, if any, becomes a notification, and
\* if m is neither watched nor pending no thread knows its list.
LEMMA TreeChange ==
    ASSUME IInv, NEW m \in Methods, NotifyChildren(m),
           children' \in [Methods -> SUBSET Instances],
           \A n \in Methods : n # m => children'[n] = children[n],
           version' \in [Methods -> [Instances -> 0..MaxWrites]],
           \A n \in Methods, j \in Instances : version'[n][j] <= version[n][j],
           changes' \in 0..MaxChanges, dataWatch' \subseteq dataWatch,
           UNCHANGED <<writes, lossVars, cacheVars, events_, fetch, crashed>>
    PROVE  IInv'
<1>. USE DEF cacheVars, lossVars
<1>1. TypeOK /\ WatchCovered /\ FetchInv /\ NoWritesInv
      /\ WorkerWatched /\ WorkerReadsFresh /\ WorkerCacheFresh /\ VersionInv
      /\ DataInv
  BY DEF IInv
<1>2. MethodPath(m) \in Paths /\ fired \in Seq(Paths)
  BY <1>1, PathFacts DEF TypeOK
<1>3. /\ fired' \in Seq(Paths)
      /\ \A n \in Methods : Pending(n)' <=> Pending(n) \/ (m \in childWatch /\ n = m)
  <2>1. CASE m \in childWatch
    <3>1. fired' = Append(fired, MethodPath(m))
      BY <2>1 DEF NotifyChildren
    <3>2. \A n \in Methods : Pending(n)' <=> Pending(n) \/ MethodPath(m) = MethodPath(n)
      BY <1>2, <3>1, PendingAfterFire
    <3>3. fired' \in Seq(Paths)
      BY <1>2, <3>1
    <3>. QED
      BY <2>1, <3>2, <3>3, PathFacts
  <2>2. CASE m \notin childWatch
    <3>1. fired' = fired
      BY <2>2 DEF NotifyChildren
    <3>. QED
      BY <1>2, <2>2, <3>1, PendingUnchanged
  <2>. QED
    BY <2>1, <2>2
<1>4. childWatch' = childWatch \ {m}
  BY DEF NotifyChildren
<1>5. TypeOK'
  BY <1>1, <1>3, <1>4 DEF TypeOK
<1>6. NoWritesInv'
  <2>1. writes = 0 => \A k \in DOMAIN fired' :
                         \E n \in Methods : fired'[k] = MethodPath(n)
    <3>1. CASE m \in childWatch
      <4>1. fired' = Append(fired, MethodPath(m))
        BY <3>1 DEF NotifyChildren
      <4>. QED
        BY <4>1, <1>1, <1>2, BackFacts DEF NoWritesInv
    <3>2. CASE m \notin childWatch
      BY <3>2, <1>1 DEF NotifyChildren, NoWritesInv
    <3>. QED
      BY <3>1, <3>2
  <2>. QED
    BY <1>1, <2>1 DEF NoWritesInv
<1>7. WatchCovered'
  BY <1>1, <1>3, <1>4 DEF WatchCovered, Listed
<1>8. \A n \in Methods : ~Pending(n)' =>
         /\ ~Pending(n)
         /\ n = m => m \notin childWatch
  BY <1>3
<1>9. ASSUME writes = 0, ~Pending(m)', ~expired
      PROVE  IF fetch["worker"].path = MethodPath(m) THEN fetch["worker"].failed
             ELSE lastWriter[m] # "worker" \/ m \in broken \/ crashed
  BY <1>1, <1>8, <1>9 DEF WorkerWatched
<1>10. WorkerReadsFresh'
  <2>. SUFFICES ASSUME NEW n \in Methods, writes = 0, ~Pending(n)', ~expired,
                       fetch["worker"].path = MethodPath(n), ~fetch["worker"].failed
                PROVE  children'[n] = children[n] /\ ~Pending(n)
    BY <1>1 DEF WorkerReadsFresh
  <2>. QED
    BY <1>8, <1>9
<1>11. WorkerCacheFresh'
  <2>. SUFFICES ASSUME NEW n \in Methods, writes = 0, lastWriter[n] = "worker",
                       ~Pending(n)', fetch["worker"].path # MethodPath(n),
                       n \notin broken, ~expired, ~crashed
                PROVE  cache_[n] = HostsNow(n)'
    BY DEF WorkerCacheFresh
  <2>1. n # m /\ ~Pending(n)
    BY <1>8, <1>9
  <2>2. \A j \in Instances : version'[n][j] = version[n][j]
    BY <1>1, <1>5 DEF VersionInv, TypeOK
  <2>3. children'[n] = children[n] /\ children[n] \subseteq Instances
    BY <1>1, <2>1 DEF TypeOK
  <2>4. HostsNow(n)' = HostsNow(n)
    BY <2>2, <2>3 DEF HostsNow, Host
  <2>. QED
    BY <1>1, <2>1, <2>4 DEF WorkerCacheFresh
<1>12. VersionInv'
  BY <1>1, <1>5 DEF VersionInv, TypeOK
<1>13. FetchInv'
  BY <1>1 DEF FetchInv
<1>15. WorkerWatched'
  BY <1>1, <1>3, <1>4 DEF WorkerWatched
<1>14. DataInv'
  <2>1. \A p : InstanceListed(p) => InstanceListed(p)'
    BY DEF InstanceListed, Listed
  <2>2. \A k \in DOMAIN fired' : InstanceListed(fired'[k])
    <3>1. CASE m \in childWatch
      <4>1. fired' = Append(fired, MethodPath(m))
        BY <3>1 DEF NotifyChildren
      <4>2. InstanceListed(MethodPath(m))
        BY PathFacts DEF InstanceListed
      <4>. QED
        BY <4>1, <4>2, <1>1, <1>2, BackFacts DEF DataInv
    <3>2. CASE m \notin childWatch
      BY <3>2, <1>1 DEF NotifyChildren, DataInv
    <3>. QED
      BY <3>1, <3>2
  <2>. QED
    BY <1>1, <2>1, <2>2 DEF DataInv
<1>. QED
  BY <1>5, <1>6, <1>7, <1>10, <1>11, <1>12, <1>13, <1>14, <1>15 DEF IInv

\* A registration is a change of the tree.
LEMMA RegisterIInv ==
    ASSUME IInv, NEW m \in Methods, NEW i \in Instances, Register(m, i)
    PROVE  IInv'
<1>. USE BoundsAssumption DEF IInv, TypeOK, Register
<1>1. version' \in [Methods -> [Instances -> 0..MaxWrites]]
  OBVIOUS
<1>2. \A n \in Methods, j \in Instances : version'[n][j] <= version[n][j]
  OBVIOUS
<1>3. children' \in [Methods -> SUBSET Instances]
      /\ \A n \in Methods : n # m => children'[n] = children[n]
  OBVIOUS
<1>4. changes' \in 0..MaxChanges
  OBVIOUS
<1>5. dataWatch' \subseteq dataWatch
  OBVIOUS
<1>. HIDE DEF IInv, TypeOK
<1>. QED
  BY <1>1, <1>2, <1>3, <1>4, <1>5, TreeChange

\* So is a removal.
LEMMA UnregisterIInv ==
    ASSUME IInv, NEW m \in Methods, NEW i \in Instances, Unregister(m, i)
    PROVE  IInv'
<1>. USE BoundsAssumption DEF IInv, TypeOK, Unregister
<1>1. version' \in [Methods -> [Instances -> 0..MaxWrites]]
  OBVIOUS
<1>2. children' \in [Methods -> SUBSET Instances]
      /\ \A n \in Methods : n # m => children'[n] = children[n]
  OBVIOUS
<1>5. \A n \in Methods, j \in Instances : version'[n][j] <= version[n][j]
  OBVIOUS
<1>3. changes' \in 0..MaxChanges
  OBVIOUS
<1>4. dataWatch' \subseteq dataWatch
  OBVIOUS
<1>. HIDE DEF IInv, TypeOK
<1>. QED
  BY <1>1, <1>2, <1>3, <1>4, <1>5, TreeChange
\* An overwrite ends what is claimed about data, and loses no notification.
LEMMA WriteDataIInv ==
    ASSUME IInv, NEW m \in Methods, NEW i \in Instances, WriteData(m, i)
    PROVE  IInv'
<1>. USE BoundsAssumption DEF WriteData, cacheVars, lossVars
<1>1. TypeOK /\ WatchCovered /\ FetchInv /\ DataInv
  BY DEF IInv
<1>2. InstancePath(m, i) \in Paths /\ fired \in Seq(Paths)
  BY <1>1, PathFacts DEF TypeOK
<1>3. writes' # 0 /\ writes' \in 0..MaxWrites
  BY <1>1 DEF TypeOK
<1>4. /\ fired' \in Seq(Paths)
      /\ \A n \in Methods : Pending(n)' <=> Pending(n)
  <2>1. CASE InstancePath(m, i) \in dataWatch
    <3>1. fired' = Append(fired, InstancePath(m, i))
      BY <2>1
    <3>2. \A n \in Methods : Pending(n)' <=> Pending(n)
      BY <1>2, <3>1, PendingAfterFire, PathFacts
    <3>3. fired' \in Seq(Paths)
      BY <1>2, <3>1
    <3>. QED
      BY <3>2, <3>3
  <2>2. CASE InstancePath(m, i) \notin dataWatch
    BY <1>2, <2>2, PendingUnchanged
  <2>. QED
    BY <2>1, <2>2
<1>5. version' \in [Methods -> [Instances -> 0..MaxWrites]]
  <2>1. version[m][i] + 1 \in 0..MaxWrites
    BY <1>1 DEF IInv, TypeOK, VersionInv
  <2>. QED
    BY <1>1, <2>1 DEF TypeOK
<1>6. TypeOK'
  BY <1>1, <1>3, <1>4, <1>5 DEF TypeOK
<1>7. (NoWritesInv /\ WorkerWatched /\ WorkerReadsFresh /\ WorkerCacheFresh)'
  BY <1>3 DEF NoWritesInv, WorkerWatched, WorkerReadsFresh, WorkerCacheFresh
<1>8. WatchCovered'
  BY <1>1, <1>4 DEF WatchCovered, Listed
<1>9. VersionInv'
  BY <1>1 DEF IInv, VersionInv, TypeOK
<1>10. FetchInv'
  BY <1>1 DEF FetchInv
<1>11. DataInv'
  <2>1. \A p : InstanceListed(p) => InstanceListed(p)'
    BY DEF InstanceListed, Listed
  <2>2. \A k \in DOMAIN fired' : InstanceListed(fired'[k])
    <3>1. CASE InstancePath(m, i) \in dataWatch
      <4>1. fired' = Append(fired, InstancePath(m, i))
        BY <3>1
      <4>2. InstanceListed(InstancePath(m, i))
        BY <1>1, <3>1 DEF DataInv
      <4>. QED
        BY <4>1, <4>2, <1>1, <1>2, BackFacts DEF DataInv
    <3>2. CASE InstancePath(m, i) \notin dataWatch
      BY <3>2, <1>1 DEF DataInv
    <3>. QED
      BY <3>1, <3>2
  <2>. QED
    BY <1>1, <2>1, <2>2 DEF DataInv
<1>. QED
  BY <1>6, <1>7, <1>8, <1>9, <1>10, <1>11 DEF IInv
\* zkWatcher moves a notification; nothing else changes.
LEMMA ZkWatcherIInv ==
    ASSUME IInv, ZkWatcher
    PROVE  IInv'
<1>. USE DEF ZkWatcher, zkVars, lossVars, cacheVars
<1>1. TypeOK /\ FetchInv /\ VersionInv /\ NoWritesInv /\ WatchCovered
      /\ WorkerWatched /\ WorkerReadsFresh /\ DataInv /\ WorkerCacheFresh
  BY DEF IInv
<1>2. fired \in Seq(Paths) /\ events_ \in Seq(Paths) /\ fired # <<>>
  BY <1>1 DEF TypeOK
<1>3. Head(fired) \in Paths /\ fired' \in Seq(Paths) /\ events_' \in Seq(Paths)
  BY <1>2, FrontFacts
<1>4. \A n \in Methods : Pending(n)' <=> Pending(n)
  BY <1>2, PendingAfterWatcher
<1>5. /\ \A k \in DOMAIN fired' : \E l \in DOMAIN fired : fired'[k] = fired[l]
      /\ 1 \in DOMAIN fired /\ Head(fired) = fired[1]
      /\ \A k \in DOMAIN events_' : \/ events_'[k] = fired[1]
                                    \/ k \in DOMAIN events_ /\ events_'[k] = events_[k]
  <2>1. /\ \A k \in DOMAIN fired' : k + 1 \in DOMAIN fired /\ fired'[k] = fired[k + 1]
        /\ 1 \in DOMAIN fired /\ Head(fired) = fired[1]
    BY <1>2, FrontFacts
  <2>2. /\ DOMAIN events_' = DOMAIN events_ \cup {Len(events_) + 1}
        /\ \A k \in DOMAIN events_ : events_'[k] = events_[k]
        /\ events_'[Len(events_) + 1] = Head(fired)
    BY <1>2, <1>3, BackFacts
  <2>. QED
    BY <2>1, <2>2
<1>6. TypeOK'
  BY <1>1, <1>3 DEF TypeOK
<1>7. NoWritesInv'
  BY <1>1, <1>5 DEF NoWritesInv
<1>8. (WatchCovered /\ WorkerWatched /\ WorkerReadsFresh)'
  BY <1>1, <1>4 DEF WatchCovered, Listed, WorkerWatched, WorkerReadsFresh
<1>9. WorkerCacheFresh'
  BY <1>1, <1>4 DEF WorkerCacheFresh, HostsNow, Host
<1>10. DataInv'
  <2>1. \A p : InstanceListed(p) => InstanceListed(p)'
    BY DEF InstanceListed, Listed
  <2>. QED
    BY <1>1, <1>5, <2>1 DEF DataInv
<1>11. (FetchInv /\ VersionInv)'
  BY <1>1 DEF FetchInv, VersionInv
<1>. QED
  BY <1>6, <1>7, <1>8, <1>9, <1>10, <1>11 DEF IInv

\* The session expires: nothing is claimed any more, and no path is heard of
\* that was not under way before.
LEMMA LoseSessionIInv ==
    ASSUME IInv, LoseSession
    PROVE  IInv'
<1>. USE BoundsAssumption DEF LoseSession, zkVars, cacheVars
<1>1. TypeOK /\ FetchInv /\ VersionInv /\ NoWritesInv /\ DataInv
  BY DEF IInv
<1>2. PICK l \in 0..Len(fired) : fired' = SubSeq(fired, 1, l)
  OBVIOUS
<1>3. /\ fired' \in Seq(Paths)
      /\ \A k \in DOMAIN fired' : k \in DOMAIN fired /\ fired'[k] = fired[k]
  BY <1>1, <1>2 DEF TypeOK
<1>4. TypeOK'
  BY <1>1, <1>3 DEF TypeOK
<1>5. (FetchInv /\ VersionInv)'
  BY <1>1 DEF FetchInv, VersionInv
<1>6. NoWritesInv'
  BY <1>1, <1>3 DEF NoWritesInv
<1>7. (WatchCovered /\ WorkerWatched /\ WorkerReadsFresh /\ WorkerCacheFresh)'
  BY DEF WatchCovered, WorkerWatched, WorkerReadsFresh, WorkerCacheFresh
<1>8. DataInv'
  <2>1. \A p : InstanceListed(p) => InstanceListed(p)'
    BY DEF InstanceListed, Listed
  <2>. QED
    BY <1>1, <1>3, <2>1 DEF DataInv
<1>. QED
  BY <1>4, <1>5, <1>6, <1>7, <1>8 DEF IInv

\* init passes over methods: only what it still has to do changes.
LEMMA InitSkipsIInv ==
    ASSUME IInv, NEW S \in SUBSET todo, InitSkips(S)
    PROVE  IInv'
<1>. USE DEF InitSkips, zkVars, watchVars
<1>1. TypeOK /\ FetchInv /\ VersionInv /\ NoWritesInv /\ WatchCovered
      /\ WorkerWatched /\ WorkerReadsFresh /\ DataInv /\ WorkerCacheFresh
  BY DEF IInv
<1>2. faults' \in 0..MaxFaults
  BY <1>1, BoundsAssumption DEF CallFails, TypeOK
<1>3. TypeOK'
  BY <1>1, <1>2 DEF TypeOK
<1>4. (FetchInv /\ VersionInv /\ NoWritesInv)'
  BY <1>1 DEF FetchInv, VersionInv, NoWritesInv
<1>5. (WatchCovered /\ WorkerWatched /\ WorkerReadsFresh)'
  BY <1>1, PendingUnchanged DEF WatchCovered, Listed, WorkerWatched, WorkerReadsFresh
<1>6. DataInv'
  <2>1. \A p : InstanceListed(p) => InstanceListed(p)'
    BY DEF InstanceListed, Listed
  <2>. QED
    BY <1>1, <2>1 DEF DataInv
<1>7. WorkerCacheFresh'
  <2>1. \A n \in Methods : HostsNow(n)' = HostsNow(n)
    BY DEF HostsNow, Host
  <2>. QED
    BY <1>1, <2>1, PendingUnchanged DEF WorkerCacheFresh
<1>. QED
  BY <1>3, <1>4, <1>5, <1>6, <1>7 DEF IInv

\* A call that fails keeps the faults within their bound.
LEMMA CallFailsFacts ==
    ASSUME TypeOK, CallFails
    PROVE  faults' \in 0..MaxFaults
<1>1. faults \in 0..MaxFaults /\ MaxFaults \in Nat
  BY BoundsAssumption DEF TypeOK
<1>2. faults' = faults \/ (faults < MaxFaults /\ faults' = faults + 1)
  BY DEF CallFails
<1>. QED
  BY <1>1, <1>2

\* The next thing a thread reads: its own record changes and no other.
LEMMA StartFetchFacts ==
    ASSUME NEW f \in Fetchers, NEW r \in FetchState,
           TypeOK, fetch' = [fetch EXCEPT ![f] = r]
    PROVE  /\ fetch' \in [Fetchers -> FetchState]
           /\ fetch'[f] = r
           /\ \A g \in Fetchers : g # f => fetch'[g] = fetch[g]
BY DEF TypeOK

\* Asking for a list.  When the call works the method is watched now, and
\* what is left to read is the list as it is; when it fails (b) the method is
\* blind, and the reading, if the process survives, is a failed one.
LEMMA ListIInv ==
    ASSUME IInv, NEW f \in Fetchers, NEW m \in Methods, fetch[f] = IdleFetch,
           NEW left \in SUBSET Reads, NEW b \in BOOLEAN,
           StartFetch(f, MethodPath(m), left, b) \/ (b /\ crashed' /\ UNCHANGED fetch),
           crashed => crashed',
           ~b => /\ left = (IF children[m] = {} THEN {Own} ELSE children[m])
                 /\ childWatch' = childWatch \cup {m}
                 /\ blind' = blind \ {m},
           b => UNCHANGED childWatch /\ blind' = blind \cup {m},
           faults' \in 0..MaxFaults, crashed' \in BOOLEAN,
           events_' \in Seq(Paths),
           \A k \in DOMAIN events_' : \E l \in DOMAIN events_ : events_'[k] = events_[l],
           \A n \in Methods : n # m \/ f # "worker"
                              => (Pending(n)' <=> Pending(n)),
           UNCHANGED <<zkVars, dataWatch, fired, expired, cacheVars>>
    PROVE  IInv'
<1>. USE DEF zkVars, cacheVars
<1>1. TypeOK /\ FetchInv /\ VersionInv /\ NoWritesInv /\ WatchCovered
      /\ WorkerWatched /\ WorkerReadsFresh /\ DataInv /\ WorkerCacheFresh
  BY DEF IInv
<1>2. /\ fetch[f].path = NoPath /\ MethodPath(m) # NoPath /\ MethodPath(m) \in Paths
      /\ IdleFetch.path = NoPath
  BY PathFacts DEF IdleFetch
<1>3. /\ fetch' \in [Fetchers -> FetchState]
      /\ \A g \in Fetchers : g # f => fetch'[g] = fetch[g]
      /\ \/ b /\ crashed' /\ fetch'[f] = IdleFetch
         \/ fetch'[f].path = MethodPath(m) /\ fetch'[f].left = left
            /\ fetch'[f].got = {} /\ fetch'[f].failed = b
  <2>1. CASE StartFetch(f, MethodPath(m), left, b)
    <3>. DEFINE r == [path |-> MethodPath(m), left |-> left, got |-> {}, failed |-> b]
    <3>1. /\ r \in FetchState /\ fetch' = [fetch EXCEPT ![f] = r]
          /\ r.path = MethodPath(m) /\ r.left = left /\ r.got = {} /\ r.failed = b
      BY <2>1, <1>2 DEF StartFetch, FetchState
    <3>. HIDE DEF r
    <3>. QED
      BY <1>1, <3>1, StartFetchFacts
  <2>2. CASE b /\ crashed' /\ UNCHANGED fetch
    BY <2>2, <1>1 DEF TypeOK
  <2>. QED
    BY <2>1, <2>2
<1>4. /\ \A n \in Methods : n # m => (n \in blind' <=> n \in blind)
      /\ \A n \in Methods : n # m => (n \in childWatch' <=> n \in childWatch)
      /\ m \in childWatch' \/ m \in blind'
      /\ ~b => m \in childWatch'
      /\ childWatch \subseteq childWatch'
      /\ blind' \in SUBSET Methods /\ childWatch' \in SUBSET Methods
  BY <1>1 DEF TypeOK
<1>6. TypeOK'
  BY <1>1, <1>3, <1>4 DEF TypeOK
<1>7. FetchInv'
  <2>1. fetch'["init"].path \in {NoPath} \cup {MethodPath(n) : n \in Methods}
    BY <1>1, <1>2, <1>3 DEF FetchInv, Fetchers
  <2>2. \A g \in Fetchers : fetch'[g].path = NoPath <=> fetch'[g] = IdleFetch
    BY <1>1, <1>2, <1>3 DEF FetchInv
  <2>. QED
    BY <2>1, <2>2 DEF FetchInv
<1>8. VersionInv'
  BY <1>1 DEF VersionInv
<1>9. NoWritesInv'
  BY <1>1, <1>2, <1>3 DEF NoWritesInv, Fetchers
<1>10. \A n \in Methods : n # m => (Listed(n)' <=> Listed(n))
  BY <1>2, <1>3, PathFacts DEF Listed
<1>11. WatchCovered'
  BY <1>1, <1>4, <1>10 DEF WatchCovered
<1>12. \A n \in Methods : n # m \/ f # "worker" =>
          (fetch'["worker"].path = MethodPath(n) <=> fetch["worker"].path = MethodPath(n))
          /\ (fetch'["worker"].path = MethodPath(n) => fetch'["worker"] = fetch["worker"])
  BY <1>2, <1>3, PathFacts DEF Fetchers
<1>13. f = "worker" => \/ crashed' /\ fetch'["worker"].path = NoPath /\ b
                       \/ fetch'["worker"].path = MethodPath(m)
                          /\ fetch'["worker"].failed = b
                          /\ fetch'["worker"].left = left
                          /\ fetch'["worker"].got = {}
  BY <1>2, <1>3
<1>14. WorkerWatched'
  <2>. SUFFICES ASSUME NEW n \in Methods, writes = 0, ~expired,
                       IF fetch'["worker"].path = MethodPath(n)
                       THEN ~fetch'["worker"].failed
                       ELSE lastWriter[n] = "worker" /\ n \notin broken /\ ~crashed'
                PROVE  n \in childWatch' \/ Pending(n)'
    BY DEF WorkerWatched
  <2>1. CASE n # m \/ f # "worker"
    <3>1. n \in childWatch \/ Pending(n)
      BY <2>1, <1>1, <1>12 DEF WorkerWatched
    <3>. QED
      BY <2>1, <3>1, <1>4
  <2>2. CASE n = m /\ f = "worker"
    BY <2>2, <1>2, <1>4, <1>13
  <2>. QED
    BY <2>1, <2>2
<1>15. WorkerReadsFresh'
  <2>. SUFFICES ASSUME NEW n \in Methods, writes = 0,
                       fetch'["worker"].path = MethodPath(n), ~Pending(n)',
                       ~expired, ~fetch'["worker"].failed
                PROVE  IF children[n] = {}
                       THEN \/ fetch'["worker"].left = {Own} /\ fetch'["worker"].got = {}
                            \/ /\ fetch'["worker"].left = {}
                               /\ fetch'["worker"].got = {EmptyHost}
                       ELSE /\ fetch'["worker"].left \subseteq children[n]
                            /\ fetch'["worker"].got =
                                 {<<i, 0>> : i \in children[n] \ fetch'["worker"].left}
    BY DEF WorkerReadsFresh
  <2>1. CASE n = m /\ f = "worker"
    <3>1. ~b /\ fetch'["worker"].left = left /\ fetch'["worker"].got = {}
      BY <2>1, <1>2, <1>13
    <3>2. left = (IF children[m] = {} THEN {Own} ELSE children[m])
      BY <3>1
    <3>3. {<<i, 0>> : i \in children[m] \ children[m]} = {}
      OBVIOUS
    <3>. QED
      BY <2>1, <3>1, <3>2, <3>3
  <2>2. CASE n # m \/ f # "worker"
    <3>1. fetch'["worker"] = fetch["worker"] /\ ~Pending(n)
      BY <2>2, <1>12
    <3>. QED
      BY <3>1, <1>1 DEF WorkerReadsFresh
  <2>. QED
    BY <2>1, <2>2
<1>16. WorkerCacheFresh'
  <2>. SUFFICES ASSUME NEW n \in Methods, writes = 0, lastWriter[n] = "worker",
                       ~Pending(n)', fetch'["worker"].path # MethodPath(n),
                       n \notin broken, ~expired, ~crashed'
                PROVE  cache_[n] = HostsNow(n)'
    BY DEF WorkerCacheFresh
  <2>1. HostsNow(n)' = HostsNow(n)
    BY DEF HostsNow, Host
  <2>2. n # m \/ f # "worker"
    BY <1>13
  <2>3. fetch["worker"].path # MethodPath(n) /\ ~Pending(n) /\ ~crashed
    BY <2>2, <1>12
  <2>. QED
    BY <1>1, <2>1, <2>3 DEF WorkerCacheFresh
<1>17. DataInv'
  <2>1. \A n \in Methods : Listed(n) => Listed(n)'
    <3>1. Listed(m) => Listed(m)'
      <4>1. \A g \in Fetchers : fetch[g].path = MethodPath(m) => fetch'[g] = fetch[g]
        BY <1>2, <1>3
      <4>. QED
        BY <4>1 DEF Listed
    <3>. QED
      BY <3>1, <1>10
  <2>2. \A p : InstanceListed(p) => InstanceListed(p)'
    BY <2>1 DEF InstanceListed
  <2>3. InstanceListed(fetch'["worker"].path)
    <3>1. InstanceListed(MethodPath(m)) /\ InstanceListed(NoPath)
      BY PathFacts DEF InstanceListed
    <3>2. CASE f = "worker"
      BY <3>1, <3>2, <1>13
    <3>3. CASE f # "worker"
      BY <3>3, <1>1, <1>3 DEF DataInv, Fetchers
    <3>. QED
      BY <3>2, <3>3
  <2>4. PICK p : p = fetch'["worker"].path
    OBVIOUS
  <2>5. InstanceListed(p)'
    BY <2>2, <2>3, <2>4
  <2>. QED
    BY <1>1, <2>2, <2>4, <2>5 DEF DataInv
<1>. QED
  BY <1>6, <1>7, <1>8, <1>9, <1>11, <1>14, <1>15, <1>16, <1>17 DEF IInv

\* Both ways GetChildrenW on a method node may go.
LEMMA ListOrFailIInv ==
    ASSUME IInv, NEW f \in Fetchers, NEW m \in Methods, fetch[f] = IdleFetch,
           ListInstances(f, m) \/ ListFails(f, m), ~crashed,
           events_' \in Seq(Paths),
           \A k \in DOMAIN events_' : \E l \in DOMAIN events_ : events_'[k] = events_[l],
           \A n \in Methods : n # m \/ f # "worker"
                              => (Pending(n)' <=> Pending(n)),
           UNCHANGED <<zkVars, dataWatch, fired, expired, cacheVars>>
    PROVE  IInv'
<1>1. TypeOK
  BY DEF IInv
<1>. DEFINE now == IF children[m] = {} THEN {Own} ELSE children[m]
<1>2. now \in SUBSET Reads /\ {} \in SUBSET Reads /\ {Own} \in SUBSET Reads
  BY <1>1 DEF TypeOK, Reads
<1>3. CASE ListInstances(f, m)
  <2>1. /\ StartFetch(f, MethodPath(m), now, FALSE)
        /\ childWatch' = childWatch \cup {m} /\ blind' = blind \ {m}
        /\ faults' \in 0..MaxFaults /\ crashed' \in BOOLEAN
    BY <1>1, <1>3 DEF ListInstances, Works, TypeOK
  <2>2. now = (IF children[m] = {} THEN {Own} ELSE children[m])
    OBVIOUS
  <2>. HIDE DEF now
  <2>. QED
    BY <1>2, <2>1, <2>2, ListIInv
<1>4. CASE ListFails(f, m)
  <2>1. /\ UNCHANGED childWatch /\ blind' = blind \cup {m}
        /\ faults' \in 0..MaxFaults /\ crashed' \in BOOLEAN
    BY <1>1, <1>4, CallFailsFacts DEF ListFails, ListFailed, TypeOK
  <2>2. PICK left \in SUBSET Reads :
           StartFetch(f, MethodPath(m), left, TRUE) \/ (crashed' /\ UNCHANGED fetch)
    BY <1>2, <1>4 DEF ListFails, ListFailed
  <2>. QED
    BY <2>1, <2>2, ListIInv
<1>. QED
  BY <1>3, <1>4

\* init lists its next method.
LEMMA InitMethodIInv ==
    ASSUME IInv, NEW m \in Methods, InitMethod(m)
    PROVE  IInv'
<1>1. /\ "init" \in Fetchers /\ "init" # "worker" /\ fetch["init"] = IdleFetch
      /\ ListInstances("init", m) \/ ListFails("init", m)
      /\ ~crashed
      /\ UNCHANGED <<zkVars, dataWatch, fired, expired, cacheVars, events_>>
  BY DEF InitMethod, Fetchers
<1>2. events_' \in Seq(Paths)
  BY <1>1 DEF IInv, TypeOK
<1>3. \A n \in Methods : Pending(n)' <=> Pending(n)
  BY <1>1, PendingUnchanged
<1>. QED
  BY <1>1, <1>2, <1>3, ListOrFailIInv

\* The worker starts on an instance node: only after an overwrite, when
\* nothing is claimed about data any more.
LEMMA InstanceEventIInv ==
    ASSUME IInv, NEW m \in Methods, NEW i \in Instances,
           events_ # <<>>, Head(events_) = InstancePath(m, i),
           events_' = Tail(events_), fetch["worker"] = IdleFetch,
           ListInstanceNode(m, i) \/ ListInstanceNodeFails(m, i),
           UNCHANGED <<zkVars, dataWatch, fired, expired, cacheVars>>
    PROVE  IInv'
<1>. USE DEF zkVars, cacheVars
<1>1. TypeOK /\ FetchInv /\ VersionInv /\ NoWritesInv /\ WatchCovered /\ DataInv
  BY DEF IInv
<1>2. events_ \in Seq(Paths) /\ events_' \in Seq(Paths)
      /\ 1 \in DOMAIN events_ /\ events_[1] = InstancePath(m, i)
      /\ \A k \in DOMAIN events_' : k + 1 \in DOMAIN events_
                                    /\ events_'[k] = events_[k + 1]
  BY <1>1, FrontFacts DEF TypeOK
<1>3. writes # 0
  BY <1>1, <1>2, PathFacts DEF NoWritesInv
<1>4. Listed(m)
  BY <1>1, <1>2 DEF DataInv, InstanceListed
<1>5. \A n \in Methods : Pending(n)' <=> Pending(n)
  BY <1>2, PendingAfterPop, PathFacts
<1>6. /\ fetch' \in [Fetchers -> FetchState]
      /\ fetch'["init"] = fetch["init"]
      /\ \/ fetch'["worker"] = fetch["worker"]
         \/ fetch'["worker"].path = InstancePath(m, i)
  <2>0. InstancePath(m, i) \in Paths /\ "worker" \in Fetchers /\ "init" \in Fetchers
        /\ {} \in SUBSET Reads /\ {Own} \in SUBSET Reads
    BY PathFacts DEF Fetchers, Reads
  <2>1. CASE UNCHANGED fetch
    BY <2>1, <1>1 DEF TypeOK
  <2>2. ASSUME NEW left \in SUBSET Reads, NEW b \in BOOLEAN,
               StartFetch("worker", InstancePath(m, i), left, b)
        PROVE  /\ fetch' \in [Fetchers -> FetchState]
               /\ fetch'["init"] = fetch["init"]
               /\ fetch'["worker"].path = InstancePath(m, i)
    <3>. DEFINE r == [path |-> InstancePath(m, i), left |-> left, got |-> {},
                      failed |-> b]
    <3>1. /\ r \in FetchState /\ fetch' = [fetch EXCEPT !["worker"] = r]
          /\ r.path = InstancePath(m, i)
      BY <2>0, <2>2 DEF StartFetch, FetchState
    <3>. HIDE DEF r
    <3>2. "init" # "worker"
      OBVIOUS
    <3>. QED
      BY <1>1, <2>0, <3>1, <3>2, StartFetchFacts
  <2>3. ListInstanceNode(m, i) =>
           StartFetch("worker", InstancePath(m, i), {Own}, FALSE)
    BY DEF ListInstanceNode
  <2>4. ListInstanceNodeFails(m, i) =>
           \/ UNCHANGED fetch
           \/ StartFetch("worker", InstancePath(m, i), {}, TRUE)
           \/ StartFetch("worker", InstancePath(m, i), {Own}, TRUE)
    BY DEF ListInstanceNodeFails, ListFailed
  <2>. QED
    BY <2>0, <2>1, <2>2, <2>3, <2>4
<1>7. /\ UNCHANGED <<childWatch, blind>>
      /\ crashed' \in BOOLEAN /\ faults' \in 0..MaxFaults
  <2>1. CASE ListInstanceNode(m, i)
    BY <2>1, <1>1 DEF ListInstanceNode, Works, TypeOK
  <2>2. CASE ListInstanceNodeFails(m, i)
    <3>1. faults' \in 0..MaxFaults
      BY <2>2, <1>1, CallFailsFacts DEF ListInstanceNodeFails, TypeOK
    <3>. QED
      BY <2>2, <3>1, <1>1 DEF ListInstanceNodeFails, ListFailed, TypeOK
  <2>. QED
    BY <2>1, <2>2
<1>8. TypeOK'
  BY <1>1, <1>2, <1>6, <1>7 DEF TypeOK
<1>9. FetchInv'
  <2>1. InstancePath(m, i) # NoPath /\ IdleFetch.path = NoPath
    BY PathFacts DEF IdleFetch
  <2>. QED
    BY <2>1, <1>1, <1>6 DEF FetchInv, Fetchers
<1>10. VersionInv'
  BY <1>1, <1>7 DEF VersionInv
<1>11. (NoWritesInv /\ WorkerWatched /\ WorkerReadsFresh /\ WorkerCacheFresh)'
  BY <1>3 DEF NoWritesInv, WorkerWatched, WorkerReadsFresh, WorkerCacheFresh
<1>12. \A n \in Methods : Listed(n)' <=> Listed(n)
  <2>1. fetch["worker"].path = NoPath
    BY DEF IdleFetch
  <2>2. \A n \in Methods : fetch'["worker"].path # MethodPath(n)
                           /\ fetch["worker"].path # MethodPath(n)
    BY <1>6, <2>1, PathFacts
  <2>. QED
    BY <1>6, <1>7, <2>2 DEF Listed, Fetchers
<1>13. WatchCovered'
  BY <1>1, <1>5, <1>7, <1>12 DEF WatchCovered
<1>15. DataInv'
  <2>1. \A p : InstanceListed(p) => InstanceListed(p)'
    BY <1>12 DEF InstanceListed
  <2>2. InstanceListed(InstancePath(m, i))
    BY <1>1, <1>2 DEF DataInv
  <2>3. InstanceListed(fetch'["worker"].path)
    BY <1>1, <1>6, <2>2 DEF DataInv
  <2>4. PICK p : p = fetch'["worker"].path
    OBVIOUS
  <2>5. InstanceListed(p)'
    BY <2>1, <2>3, <2>4
  <2>. QED
    BY <1>1, <1>2, <1>7, <2>1, <2>4, <2>5 DEF DataInv
<1>. QED
  BY <1>8, <1>9, <1>10, <1>11, <1>13, <1>15 DEF IInv

\* The worker takes an event, of a method or of an instance node.
LEMMA HandleEventIInv ==
    ASSUME IInv, HandleEvent
    PROVE  IInv'
<1>1. /\ events_ # <<>> /\ fetch["worker"] = IdleFetch /\ events_' = Tail(events_)
      /\ UNCHANGED <<zkVars, dataWatch, fired, expired, cacheVars>>
      /\ "worker" \in Fetchers /\ ~crashed
  BY DEF HandleEvent, Fetchers
<1>2. events_ \in Seq(Paths)
  BY DEF IInv, TypeOK
<1>3. ASSUME NEW m \in Methods, Head(events_) = MethodPath(m),
             ListInstances("worker", m) \/ ListFails("worker", m)
      PROVE  IInv'
  <2>1. events_' \in Seq(Paths)
        /\ \A k \in DOMAIN events_' : k + 1 \in DOMAIN events_
                                      /\ events_'[k] = events_[k + 1]
    BY <1>1, <1>2, FrontFacts
  <2>2. \A n \in Methods : n # m => (Pending(n)' <=> Pending(n))
    BY <1>1, <1>2, <1>3, PendingAfterPop, PathFacts
  <2>. QED
    BY <1>1, <1>3, <2>1, <2>2, ListOrFailIInv
<1>4. ASSUME NEW m \in Methods, NEW i \in Instances,
             Head(events_) = InstancePath(m, i),
             ListInstanceNode(m, i) \/ ListInstanceNodeFails(m, i)
      PROVE  IInv'
  BY <1>1, <1>4, InstanceEventIInv
<1>. QED
  BY <1>3, <1>4 DEF HandleEvent

\* One more host h is read, by a call that failed (b) or not: of a child that
\* is still there while nothing about the list is pending.
LEMMA GotIInv ==
    ASSUME IInv, NEW f \in Fetchers, NEW x \in fetch[f].left,
           NEW h \in Hosts, NEW b \in BOOLEAN, Got(f, x, h, b),
           fetch[f].path # NoPath,
           \A n \in Methods : writes = 0 /\ fetch[f].path = MethodPath(n) /\ ~b =>
               /\ x = Own => h = EmptyHost
               /\ x \in children[n] => h = <<x, 0>>,
           \A p \in dataWatch' : p \in dataWatch \/ (p \in Paths /\ InstanceListed(p)),
           faults' \in 0..MaxFaults,
           UNCHANGED <<zkVars, childWatch, fired, expired, blind, cacheVars, events_,
                       crashed>>
    PROVE  IInv'
<1>. USE DEF zkVars, cacheVars
<1>1. TypeOK /\ FetchInv /\ VersionInv /\ NoWritesInv /\ WatchCovered
      /\ WorkerWatched /\ WorkerReadsFresh /\ DataInv /\ WorkerCacheFresh
  BY DEF IInv
<1>2. /\ fetch[f] \in FetchState /\ fetch[f].left \in SUBSET Reads
      /\ fetch[f].got \in SUBSET Hosts /\ fetch[f].failed \in BOOLEAN
  BY <1>1 DEF TypeOK, FetchState
<1>6. /\ fetch'[f].path = fetch[f].path
      /\ fetch'[f].left = fetch[f].left \ {x}
      /\ fetch'[f].got = fetch[f].got \cup {h}
      /\ fetch'[f].failed = (fetch[f].failed \/ b)
      /\ \A g \in Fetchers : g # f => fetch'[g] = fetch[g]
      /\ fetch' \in [Fetchers -> FetchState]
  <2>1. fetch \in [Fetchers -> FetchState]
    BY <1>1 DEF TypeOK
  <2>. DEFINE r == [fetch[f] EXCEPT !.left = @ \ {x}, !.got = @ \cup {h},
                                    !.failed = @ \/ b]
  <2>2. r \in FetchState /\ r.path = fetch[f].path
        /\ r.left = fetch[f].left \ {x} /\ r.got = fetch[f].got \cup {h}
        /\ r.failed = (fetch[f].failed \/ b)
    BY <1>2 DEF FetchState
  <2>3. fetch' = [fetch EXCEPT ![f] = r]
    BY <2>1 DEF Got
  <2>. HIDE DEF r
  <2>. QED
    BY <2>1, <2>2, <2>3
<1>7. \A n \in Methods : Pending(n)' <=> Pending(n)
  BY PendingUnchanged
<1>8. \A n \in Methods : Listed(n)' <=> Listed(n)
  BY <1>6 DEF Listed
<1>9. TypeOK'
  <2>1. dataWatch' \in SUBSET Paths
    BY <1>1 DEF TypeOK
  <2>. QED
    BY <1>1, <1>6, <2>1 DEF TypeOK
<1>10. FetchInv'
  <2>1. fetch'[f] # IdleFetch
    BY <1>6 DEF IdleFetch
  <2>2. fetch'["init"].path = fetch["init"].path
    BY <1>6 DEF Fetchers
  <2>3. \A g \in Fetchers : fetch'[g].path = NoPath <=> fetch'[g] = IdleFetch
    BY <1>1, <1>6, <2>1 DEF FetchInv
  <2>. QED
    BY <1>1, <2>2, <2>3 DEF FetchInv
<1>11. VersionInv'
  BY <1>1 DEF VersionInv
<1>12. NoWritesInv'
  BY <1>1, <1>6 DEF NoWritesInv, Fetchers
<1>13. WatchCovered'
  BY <1>1, <1>7, <1>8 DEF WatchCovered
<1>14. /\ fetch'["worker"].path = fetch["worker"].path
       /\ ~fetch'["worker"].failed => ~fetch["worker"].failed
  <2>1. CASE f = "worker"
    BY <2>1, <1>2, <1>6
  <2>2. CASE f # "worker"
    BY <2>2, <1>6 DEF Fetchers
  <2>. QED
    BY <2>1, <2>2
<1>15. WorkerWatched'
  BY <1>1, <1>7, <1>14 DEF WorkerWatched
<1>16. WorkerReadsFresh'
  <2>. SUFFICES ASSUME NEW n \in Methods, writes = 0,
                       fetch'["worker"].path = MethodPath(n), ~Pending(n),
                       ~expired, ~fetch'["worker"].failed
                PROVE  IF children[n] = {}
                       THEN \/ fetch'["worker"].left = {Own} /\ fetch'["worker"].got = {}
                            \/ /\ fetch'["worker"].left = {}
                               /\ fetch'["worker"].got = {EmptyHost}
                       ELSE /\ fetch'["worker"].left \subseteq children[n]
                            /\ fetch'["worker"].got =
                                 {<<j, 0>> : j \in children[n] \ fetch'["worker"].left}
    BY <1>7 DEF WorkerReadsFresh
  <2>1. IF children[n] = {}
        THEN \/ fetch["worker"].left = {Own} /\ fetch["worker"].got = {}
             \/ fetch["worker"].left = {} /\ fetch["worker"].got = {EmptyHost}
        ELSE /\ fetch["worker"].left \subseteq children[n]
             /\ fetch["worker"].got =
                  {<<j, 0>> : j \in children[n] \ fetch["worker"].left}
    BY <1>1, <1>14 DEF WorkerReadsFresh
  <2>2. CASE f = "worker"
    <3>1. ~b /\ fetch["worker"].path = MethodPath(n)
      BY <2>2, <1>2, <1>6
    <3>2. CASE children[n] = {}
      <4>1. fetch[f].left = {Own} /\ fetch[f].got = {} /\ x = Own
        BY <2>1, <2>2, <3>2
      <4>2. h = EmptyHost
        BY <2>2, <3>1, <4>1
      <4>. QED
        BY <2>2, <3>2, <4>1, <4>2, <1>6
    <3>3. CASE children[n] # {}
      <4>1. x \in children[n] /\ h = <<x, 0>>
        BY <2>1, <2>2, <3>1, <3>3
      <4>2. {<<j, 0>> : j \in children[n] \ (fetch[f].left \ {x})}
               = {<<j, 0>> : j \in children[n] \ fetch[f].left} \cup {<<x, 0>>}
        BY <4>1
      <4>. QED
        BY <2>1, <2>2, <3>3, <4>1, <4>2, <1>6
    <3>. QED
      BY <3>2, <3>3
  <2>3. CASE f # "worker"
    <3>1. fetch'["worker"] = fetch["worker"]
      BY <2>3, <1>6 DEF Fetchers
    <3>. QED
      BY <2>1, <3>1
  <2>. QED
    BY <2>2, <2>3
<1>17. DataInv'
  <2>1. \A p : InstanceListed(p) => InstanceListed(p)'
    BY <1>8 DEF InstanceListed
  <2>. QED
    BY <1>1, <1>14, <2>1 DEF DataInv
<1>18. WorkerCacheFresh'
  <2>2. \A n \in Methods : HostsNow(n)' = HostsNow(n)
    BY DEF HostsNow, Host
  <2>. QED
    BY <1>1, <1>7, <1>14, <2>2 DEF WorkerCacheFresh
<1>. QED
  BY <1>9, <1>10, <1>11, <1>12, <1>13, <1>15, <1>16, <1>17, <1>18 DEF IInv

\* An instance node is read by a thread that has asked for its method's list.
LEMMA InstanceReadListed ==
    ASSUME IInv, NEW f \in Fetchers, NEW m \in Methods, NEW i \in Instances, NEW x,
           IsInstance(f, x, m, i)
    PROVE  Listed(m)
<1>1. FetchInv /\ DataInv
  BY DEF IInv
<1>2. CASE fetch[f].path = MethodPath(m)
  BY <1>2 DEF Listed
<1>3. CASE fetch[f].path = InstancePath(m, i)
  <2>1. fetch["init"].path # InstancePath(m, i)
    BY <1>1, PathFacts DEF FetchInv
  <2>2. f = "worker"
    BY <1>3, <2>1 DEF Fetchers
  <2>. QED
    BY <1>1, <1>3, <2>2 DEF DataInv, InstanceListed
<1>. QED
  BY <1>2, <1>3 DEF IsInstance

\* Reading the data of a node.
LEMMA ReadHostIInv ==
    ASSUME IInv, NEW f \in Fetchers, NEW x \in Reads, ReadHost(f, x)
    PROVE  IInv'
<1>1. TypeOK /\ FetchInv /\ VersionInv
  BY DEF IInv
<1>2. /\ x \in fetch[f].left /\ fetch[f].path # NoPath /\ faults' \in 0..MaxFaults
      /\ UNCHANGED <<zkVars, childWatch, fired, expired, blind, cacheVars, events_,
                     crashed>>
  <2>1. x \in fetch[f].left
    BY DEF ReadHost
  <2>2. fetch[f] # IdleFetch
    BY <2>1 DEF IdleFetch
  <2>. QED
    BY <1>1, <2>1, <2>2 DEF ReadHost, Works, FetchInv, TypeOK
<1>3. CASE /\ x = Own
           /\ \E m \in Methods : fetch[f].path = MethodPath(m)
           /\ Got(f, x, EmptyHost, FALSE)
           /\ UNCHANGED dataWatch
  <2>1. EmptyHost \in Hosts /\ \A n \in Methods : x \notin children[n]
    BY <1>1, <1>3, OwnAssumption DEF Hosts, TypeOK
  <2>. QED
    BY <1>2, <1>3, <2>1, GotIInv
<1>4. ASSUME NEW m \in Methods, NEW i \in Instances, IsInstance(f, x, m, i),
             \/ /\ i \in children[m]
                /\ Got(f, x, Host(m, i), FALSE)
                /\ dataWatch' = dataWatch \cup {InstancePath(m, i)}
             \/ /\ i \notin children[m]
                /\ Got(f, x, Garbage, FALSE)
                /\ UNCHANGED dataWatch
      PROVE  IInv'
  <2>1. PICK h \in Hosts : /\ Got(f, x, h, FALSE)
                           /\ i \in children[m] => h = <<i, version[m][i]>>
    <3>1. <<i, version[m][i]>> \in Hosts /\ Garbage \in Hosts
      BY <1>1 DEF Hosts, TypeOK
    <3>. QED
      BY <1>4, <3>1 DEF Host
  <2>2. InstancePath(m, i) \in Paths /\ InstanceListed(InstancePath(m, i))
    <3>1. Listed(m)
      BY <1>4, InstanceReadListed
    <3>2. \A n \in Methods, j \in Instances :
             InstancePath(m, i) = InstancePath(n, j) => n = m
      BY PathFacts
    <3>. QED
      BY <3>1, <3>2, PathFacts DEF InstanceListed
  <2>3. \A p \in dataWatch' : p \in dataWatch \/ (p \in Paths /\ InstanceListed(p))
    BY <1>4, <2>2
  <2>4. \A n \in Methods : writes = 0 /\ fetch[f].path = MethodPath(n) =>
           /\ x = Own => h = EmptyHost
           /\ x \in children[n] => h = <<x, 0>>
    <3>. SUFFICES ASSUME NEW n \in Methods, writes = 0, fetch[f].path = MethodPath(n)
                  PROVE  x # Own /\ (x \in children[n] => h = <<x, 0>>)
      OBVIOUS
    <3>1. m = n /\ x = i
      BY <1>4, PathFacts DEF IsInstance
    <3>2. version[m][i] = 0
      BY <1>1 DEF VersionInv, TypeOK
    <3>. QED
      BY <2>1, <3>1, <3>2, OwnAssumption
  <2>. QED
    BY <1>2, <2>1, <2>3, <2>4, GotIInv
<1>. QED
  BY <1>3, <1>4 DEF ReadHost

\* A read that fails spoils the reading.
LEMMA ReadFailsIInv ==
    ASSUME IInv, NEW f \in Fetchers, NEW x \in Reads, ReadFails(f, x)
    PROVE  IInv'
<1>1. TypeOK /\ FetchInv
  BY DEF IInv
<1>2. x \in fetch[f].left /\ fetch[f] # IdleFetch /\ Garbage \in Hosts
  BY DEF ReadFails, IdleFetch, Hosts
<1>3. fetch[f].path # NoPath /\ faults' \in 0..MaxFaults
  BY <1>1, <1>2, CallFailsFacts DEF ReadFails, FetchInv
<1>4. /\ UNCHANGED <<zkVars, dataWatch, childWatch, fired, expired, blind, cacheVars,
                     events_, crashed>>
      /\ Got(f, x, Garbage, TRUE)
  BY DEF ReadFails, watchVars
<1>. QED
  BY <1>2, <1>3, <1>4, GotIInv

\* A list that was read to its end is stored: the worker's is the tree's
\* unless something newer is pending.
LEMMA StoreHostsIInv ==
    ASSUME IInv, NEW f \in Fetchers, StoreHosts(f)
    PROVE  IInv'
<1>. USE DEF zkVars, watchVars, lossVars
<1>1. TypeOK /\ FetchInv /\ VersionInv /\ NoWritesInv /\ WatchCovered
      /\ WorkerWatched /\ WorkerReadsFresh /\ DataInv /\ WorkerCacheFresh
  BY DEF IInv
<1>2. /\ fetch[f] \in FetchState /\ fetch[f].left = {}
      /\ fetch[f].got \in SUBSET Hosts /\ fetch[f].path \in Paths \cup {NoPath}
  BY <1>1 DEF TypeOK, FetchState, StoreHosts
<1>3. PICK m \in Methods : fetch[f].path \in Paths /\ m = fetch[f].path[1]
  <2>1. fetch[f].path # NoPath
    BY <1>1 DEF FetchInv, StoreHosts
  <2>. QED
    BY <1>2, <2>1, PathFacts
<1>5. /\ cache_' = [cache_ EXCEPT ![m] = fetch[f].got]
      /\ lastWriter' = [lastWriter EXCEPT ![m] = f]
      /\ fetch' = [fetch EXCEPT ![f] = IdleFetch]
      /\ todo' \in SUBSET Methods
      /\ UNCHANGED <<zkVars, watchVars, lossVars, events_, crashed>>
  BY <1>1, <1>3 DEF StoreHosts, TypeOK
<1>6. IdleFetch \in FetchState /\ IdleFetch.path = NoPath
  BY DEF IdleFetch, FetchState
<1>7. /\ fetch'[f] = IdleFetch
      /\ \A g \in Fetchers : g # f => fetch'[g] = fetch[g]
      /\ fetch' \in [Fetchers -> FetchState]
  BY <1>1, <1>5, <1>6 DEF TypeOK
<1>8. /\ cache_'[m] = fetch[f].got /\ lastWriter'[m] = f
      /\ \A n \in Methods : n # m => cache_'[n] = cache_[n]
                                     /\ lastWriter'[n] = lastWriter[n]
      /\ cache_' \in [Methods -> SUBSET Hosts]
      /\ lastWriter' \in [Methods -> {"none"} \cup Fetchers]
  BY <1>1, <1>2, <1>5 DEF TypeOK
<1>4. /\ m \in broken' <=> fetch[f].failed
      /\ \A n \in Methods : n # m => (n \in broken' <=> n \in broken)
      /\ broken' \in SUBSET Methods
  BY <1>1, <1>3 DEF StoreHosts, TypeOK
<1>9. \A n \in Methods : Pending(n)' <=> Pending(n)
  BY <1>5, PendingUnchanged
<1>10. Listed(m)
  <2>1. fetch[f].path = MethodPath(m) => Listed(m)
    BY DEF Listed
  <2>2. ASSUME fetch[f].path # MethodPath(m) PROVE Listed(m)
    <3>1. PICK j \in Instances : fetch[f].path = InstancePath(m, j)
      BY <2>2, <1>3, PathFacts DEF Paths
    <3>2. f = "worker"
      <4>1. fetch["init"].path # InstancePath(m, j)
        BY <1>1, PathFacts DEF FetchInv
      <4>. QED
        BY <3>1, <4>1 DEF Fetchers
    <3>. QED
      BY <1>1, <3>1, <3>2 DEF DataInv, InstanceListed
  <2>. QED
    BY <2>1, <2>2
<1>11. \A n \in Methods : Listed(n)' <=> Listed(n)
  <2>1. Listed(m)'
    BY <1>8 DEF Listed, Fetchers
  <2>2. ASSUME NEW n \in Methods, n # m PROVE Listed(n)' <=> Listed(n)
    <3>1. fetch[f].path # MethodPath(n)
      BY <1>3, <2>2, PathFacts
    <3>2. fetch'[f].path # MethodPath(n)
      BY <1>6, <1>7, PathFacts
    <3>. QED
      BY <1>7, <1>8, <2>2, <3>1, <3>2 DEF Listed
  <2>. QED
    BY <1>10, <2>1, <2>2
<1>12. TypeOK'
  BY <1>1, <1>4, <1>5, <1>7, <1>8 DEF TypeOK
<1>13. FetchInv'
  <2>1. fetch'["init"].path \in {NoPath} \cup {MethodPath(n) : n \in Methods}
    BY <1>1, <1>6, <1>7 DEF FetchInv, Fetchers
  <2>2. \A g \in Fetchers : fetch'[g].path = NoPath <=> fetch'[g] = IdleFetch
    BY <1>1, <1>6, <1>7 DEF FetchInv
  <2>. QED
    BY <2>1, <2>2 DEF FetchInv
<1>14. VersionInv'
  BY <1>1, <1>5 DEF VersionInv
<1>15. NoWritesInv'
  BY <1>1, <1>5, <1>6, <1>7 DEF NoWritesInv, Fetchers
<1>16. WatchCovered'
  BY <1>1, <1>5, <1>9, <1>11 DEF WatchCovered
<1>17. WorkerReadsFresh'
  BY <1>1, <1>5, <1>6, <1>7, <1>9, PathFacts DEF WorkerReadsFresh, Fetchers
<1>18. f = "worker" /\ writes = 0 => fetch["worker"].path = MethodPath(m)
  <2>. SUFFICES ASSUME f = "worker", writes = 0
                PROVE  fetch["worker"].path = MethodPath(m)
    OBVIOUS
  <2>1. fetch["worker"].path \in {MethodPath(k) : k \in Methods}
    BY <1>1, <1>3, PathFacts DEF NoWritesInv
  <2>. QED
    BY <2>1, <1>3, PathFacts
<1>19. WorkerWatched'
  <2>. SUFFICES ASSUME NEW n \in Methods, writes = 0, ~expired,
                       IF fetch'["worker"].path = MethodPath(n)
                       THEN ~fetch'["worker"].failed
                       ELSE lastWriter'[n] = "worker" /\ n \notin broken' /\ ~crashed
                PROVE  n \in childWatch \/ Pending(n)
    BY <1>5, <1>9 DEF WorkerWatched
  <2>1. CASE f = "worker"
    <3>1. fetch'["worker"].path # MethodPath(n)
      BY <2>1, <1>6, <1>7, PathFacts
    <3>2. CASE n = m
      <4>1. ~fetch["worker"].failed
        BY <2>1, <3>1, <3>2, <1>4
      <4>. QED
        BY <2>1, <3>2, <4>1, <1>1, <1>18 DEF WorkerWatched
    <3>3. CASE n # m
      <4>1. fetch["worker"].path # MethodPath(n)
        BY <2>1, <3>3, <1>18, PathFacts
      <4>. QED
        BY <3>1, <3>3, <4>1, <1>1, <1>4, <1>8 DEF WorkerWatched
    <3>. QED
      BY <3>2, <3>3
  <2>2. CASE f # "worker"
    <3>1. fetch'["worker"] = fetch["worker"]
      BY <2>2, <1>7 DEF Fetchers
    <3>2. lastWriter'[n] = "worker" => n # m
      BY <2>2, <1>8
    <3>. QED
      BY <3>1, <3>2, <1>1, <1>4, <1>8 DEF WorkerWatched
  <2>. QED
    BY <2>1, <2>2
<1>20. DataInv'
  <2>1. \A p : InstanceListed(p) => InstanceListed(p)'
    BY <1>11 DEF InstanceListed
  <2>2. InstanceListed(fetch'["worker"].path)
    <3>1. InstanceListed(NoPath)
      BY PathFacts DEF InstanceListed
    <3>. QED
      BY <1>1, <1>6, <1>7, <3>1 DEF DataInv, Fetchers
  <2>. QED
    BY <1>1, <1>5, <2>1, <2>2 DEF DataInv
<1>21. WorkerCacheFresh'
  <2>0. \A n \in Methods : HostsNow(n)' = HostsNow(n)
    BY <1>5 DEF HostsNow, Host
  <2>. SUFFICES ASSUME NEW n \in Methods, writes = 0, lastWriter'[n] = "worker",
                       ~Pending(n), fetch'["worker"].path # MethodPath(n),
                       n \notin broken', ~expired, ~crashed
                PROVE  cache_'[n] = HostsNow(n)
    BY <1>5, <1>9, <2>0 DEF WorkerCacheFresh
  <2>1. CASE n = m
    <3>1. f = "worker"
      BY <2>1, <1>8
    <3>2. fetch["worker"].path = MethodPath(m) /\ ~fetch["worker"].failed
      BY <2>1, <3>1, <1>4, <1>18
    <3>3. fetch["worker"].got =
            IF children[m] = {} THEN {EmptyHost} ELSE {<<j, 0>> : j \in children[m]}
      <4>1. fetch["worker"].left = {} /\ fetch["worker"].left # {Own}
        BY <1>2, <3>1
      <4>2. children[m] \ {} = children[m]
        OBVIOUS
      <4>3. IF children[m] = {}
            THEN fetch["worker"].got = {EmptyHost}
            ELSE fetch["worker"].got = {<<j, 0>> : j \in children[m] \ {}}
        BY <1>1, <2>1, <3>2, <4>1 DEF WorkerReadsFresh
      <4>. QED
        BY <4>2, <4>3
    <3>4. \A j \in children[m] : Host(m, j) = <<j, 0>>
      <4>. SUFFICES ASSUME NEW j \in children[m] PROVE version[m][j] = 0
        BY DEF Host
      <4>1. j \in Instances
        BY <1>1 DEF TypeOK
      <4>. QED
        BY <1>1, <4>1 DEF VersionInv, TypeOK
    <3>5. {Host(m, j) : j \in children[m]} = {<<j, 0>> : j \in children[m]}
      BY <3>4
    <3>6. HostsNow(m) = fetch["worker"].got
      BY <3>3, <3>5 DEF HostsNow
    <3>. QED
      BY <2>1, <1>8, <3>1, <3>6
  <2>2. CASE n # m
    <3>1. fetch["worker"].path # MethodPath(n)
      <4>1. CASE f = "worker"
        BY <4>1, <1>3, <2>2, PathFacts
      <4>2. CASE f # "worker"
        BY <4>2, <1>7 DEF Fetchers
      <4>. QED
        BY <4>1, <4>2
    <3>. QED
      BY <1>1, <1>4, <1>8, <2>2, <3>1 DEF WorkerCacheFresh
  <2>. QED
    BY <2>1, <2>2
<1>. QED
  BY <1>12, <1>13, <1>14, <1>15, <1>16, <1>17, <1>18, <1>19, <1>20, <1>21 DEF IInv

\* A step that changes no variable keeps the invariant.
LEMMA StutterIInv == IInv /\ UNCHANGED vars => IInv'
<1>. SUFFICES ASSUME IInv, UNCHANGED vars PROVE IInv'
  OBVIOUS
<1>. USE DEF IInv, vars, zkVars, watchVars, lossVars, cacheVars
<1>1. (TypeOK /\ FetchInv /\ VersionInv /\ NoWritesInv)'
  BY DEF TypeOK, FetchInv, VersionInv, NoWritesInv
<1>2. (WatchCovered /\ WorkerWatched /\ WorkerReadsFresh)'
  BY DEF WatchCovered, Listed, Pending, WorkerWatched, WorkerReadsFresh
<1>3. DataInv'
  <2>1. \A p : InstanceListed(p)' <=> InstanceListed(p)
    BY DEF InstanceListed, Listed
  <2>. QED
    BY <2>1 DEF DataInv
<1>4. WorkerCacheFresh'
  <2>1. \A m \in Methods : (HostsNow(m)' = HostsNow(m)) /\ (Pending(m)' <=> Pending(m))
    BY DEF HostsNow, Host, Pending
  <2>. QED
    BY <2>1 DEF WorkerCacheFresh
<1>. QED
  BY <1>1, <1>2, <1>3, <1>4

\* Every step keeps the invariant.
LEMMA NextIInv == IInv /\ [Next]_vars => IInv'
<1>. SUFFICES ASSUME IInv, [Next]_vars PROVE IInv'
  OBVIOUS
<1>1. ASSUME NEW m \in Methods, NEW i \in Instances,
             Register(m, i) \/ Unregister(m, i) \/ WriteData(m, i)
      PROVE  IInv'
  BY <1>1, RegisterIInv, UnregisterIInv, WriteDataIInv
<1>2. CASE LoseSession \/ ZkWatcher \/ HandleEvent
  BY <1>2, LoseSessionIInv, ZkWatcherIInv, HandleEventIInv
<1>3. ASSUME NEW m \in Methods, InitMethod(m) PROVE IInv'
  BY <1>3, InitMethodIInv
<1>4. ASSUME NEW S \in SUBSET todo, InitSkips(S) PROVE IInv'
  BY <1>4, InitSkipsIInv
<1>5. ASSUME NEW f \in Fetchers, Fetching(f) PROVE IInv'
  BY <1>5, ReadHostIInv, ReadFailsIInv, StoreHostsIInv DEF Fetching
<1>6. CASE UNCHANGED vars
  BY <1>6, StutterIInv
<1>. QED
  BY <1>1, <1>2, <1>3, <1>4, <1>5, <1>6 DEF Next

\* The inductive invariant holds for any methods, instances, changes and
\* failed calls.
THEOREM Invariance == Spec => []IInv
<1>. QED
  BY InitIInv, NextIInv, PTL DEF Spec

\* Type correctness of the tree, the queues, the lists and the cache.
THEOREM TypeCorrect == Spec => []TypeOK
<1>1. IInv => TypeOK
  BY DEF IInv
<1>. QED
  BY <1>1, Invariance, PTL

\* Once init or handleEvent has asked for a method's instances
\* (ServiceDiscovery.cc:104, 203), every later change of them is either
\* still watched for or already notified, unless the last such call failed or
\* the session is over: the one-shot watches leave no other gap.
THEOREM WatchCoveredHolds == Spec => []WatchCovered
<1>1. IInv => WatchCovered
  BY DEF IInv
<1>. QED
  BY <1>1, Invariance, PTL

\* The list the worker stored last (ServiceDiscovery.cc:221) is the list in
\* ZooKeeper whenever no newer notification is on its way, unless one of the
\* calls it was read with failed or the session or the process is over.
THEOREM WorkerCacheFreshHolds == Spec => []WorkerCacheFresh
<1>1. IInv => WorkerCacheFresh
  BY DEF IInv
<1>. QED
  BY <1>1, Invariance, PTL
=============================================================================
