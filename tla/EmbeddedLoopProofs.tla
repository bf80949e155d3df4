------------------------- MODULE EmbeddedLoopProofs -------------------------
(***************************************************************************)
(* Dispatch and EmbeddedLoop for any set of descriptor numbers and any     *)
(* bounds.  First the dispatch: its types are respected, fd_map and the    *)
(* arrays of watches agree, and no callback ever receives an event of an   *)
(* earlier incarnation of its descriptor.  Then when the change log can be *)
(* trusted: a program that closes in order keeps the log indexed, and      *)
(* never runs into the wild read of deallocate_change_index or the         *)
(* assertion of clear_changes; if moreover its callbacks leave the watches *)
(* alone, the loop's interest set stays in step with the dispatch.         *)
(***************************************************************************)
EXTENDS EmbeddedLoop, TLAPS

-----------------------------------------------------------------------------
(* The dispatch.                                                           *)

\* The array written by s[i] = e, with i inside it or just past its end.
LEMMA PutType ==
  ASSUME NEW S, NEW s \in Seq(S), NEW i \in 1 .. Len(s) + 1, NEW e \in S
  PROVE  /\ Put(s, i, e) \in Seq(S)
         /\ Len(Put(s, i, e)) = IF i > Len(s) THEN i ELSE Len(s)
<1> DEFINE m == IF i > Len(s) THEN i ELSE Len(s)
<1>1. m \in Nat /\ Len(s) \in Nat
  OBVIOUS
<1>2. \A j \in 1 .. m : (IF j = i THEN e ELSE s[j]) \in S
  OBVIOUS
<1>3. Put(s, i, e) = [j \in 1 .. m |-> IF j = i THEN e ELSE s[j]]
  BY DEF Put
<1> HIDE DEF m
<1>4. Put(s, i, e) \in Seq(S) /\ Len(Put(s, i, e)) = m
  BY <1>1, <1>2, <1>3
<1> QED
  BY <1>3, <1>4 DEF m

\* The array after its last element was moved over element i.
LEMMA MoveLastToType ==
  ASSUME NEW S, NEW s \in Seq(S), NEW i \in 1 .. Len(s)
  PROVE  /\ MoveLastTo(s, i) \in Seq(S)
         /\ Len(MoveLastTo(s, i)) = Len(s) - 1
         /\ \A j \in 1 .. Len(s) - 1 :
              MoveLastTo(s, i)[j] = IF j = i THEN s[Len(s)] ELSE s[j]
<1> DEFINE m == Len(s) - 1
<1>1. m \in Nat
  OBVIOUS
<1>2. \A j \in 1 .. m : (IF j = i THEN s[Len(s)] ELSE s[j]) \in S
  OBVIOUS
<1>3. MoveLastTo(s, i) = [j \in 1 .. m |-> IF j = i THEN s[Len(s)] ELSE s[j]]
  BY DEF MoveLastTo
<1> HIDE DEF m
<1>4. MoveLastTo(s, i) \in Seq(S) /\ Len(MoveLastTo(s, i)) = m
  BY <1>1, <1>2, <1>3
<1> QED
  BY <1>3, <1>4 DEF m
-----------------------------------------------------------------------------
(* Types, by the group of variables an operation changes.                  *)

DesiredTypeOK ==
  /\ notifies_desired \in Seq(FDNotify)
  /\ callbacks \in Seq(Callback)
  /\ notify_desired_index \in [Fds -> Nat]

ChangeTypeOK ==
  /\ changes \in Seq(FDNotifyChange)
  /\ n_changes \in 0 .. Len(changes)
  /\ change_index \in [Fds -> 0 .. Len(changes)]

LoopTypeOK ==
  /\ pc \in PcStates
  /\ notifies \in Seq(Notification)
  /\ next \in Nat \ {0}
  /\ call \in Invocation \cup {NoCall}

KernelTypeOK ==
  /\ open \in [Fds -> BOOLEAN]
  /\ incarnation \in [Fds -> 0 .. MaxIncarnation]

\* A notification of the pass in progress whose descriptor has not been closed
\* since the pass began is one of the descriptor's present incarnation.
PendingFresh ==
  \A j \in 1 .. Len(notifies) :
    LET n == notifies[j]
    IN  ~closed_since_notify_started[n.fd] =>
          open[n.fd] /\ n.incarnation = incarnation[n.fd]

\* The inductive invariant.  A removal is only well defined, and a delivery only
\* well typed, when the indices are consistent, so the three parts need each
\* other.
IInv == TypeOK /\ DesiredConsistent /\ PendingFresh

LEMMA TypeSplit ==
  TypeOK <=> /\ DesiredTypeOK /\ ChangeTypeOK /\ LoopTypeOK /\ KernelTypeOK
             /\ closed_since_notify_started \in [Fds -> BOOLEAN]
             /\ ops \in 0 .. MaxOps
BY DEF TypeOK, DesiredTypeOK, ChangeTypeOK, LoopTypeOK, KernelTypeOK

\* The events watched for a descriptor are a set of events.
LEMMA DesiredEventsType ==
  ASSUME TypeOK, DesiredConsistent, NEW f \in Fds
  PROVE  DesiredEvents(f) \in Events
<1>1. notify_desired_index[f] = None => DesiredEvents(f) \in Events
  BY DEF DesiredEvents, Events
<1>2. ASSUME notify_desired_index[f] # None
      PROVE  DesiredEvents(f) \in Events
  <2>1. notify_desired_index[f] \in 1 .. Len(notifies_desired)
    BY <1>2 DEF DesiredConsistent
  <2>2. notifies_desired[notify_desired_index[f]] \in FDNotify
    BY <2>1 DEF TypeOK
  <2> QED
    BY <1>2, <2>2 DEF DesiredEvents, FDNotify
<1> QED
  BY <1>1, <1>2

\* Logging a change keeps the log well typed, even through a stale index.
LEMMA RecordChangeType ==
  ASSUME ChangeTypeOK, NEW f \in Fds, NEW old \in Events, NEW ev \in Events,
         record_change(f, old, ev)
  PROVE  ChangeTypeOK'
<1> DEFINE k == IF change_index[f] = None THEN n_changes + 1 ELSE change_index[f]
           o == IF change_index[f] = None THEN old ELSE changes[k].old_events
           e == [fd |-> f, old_events |-> o, events |-> ev]
<1>1. k \in 1 .. Len(changes) + 1 /\ Len(changes) \in Nat
  BY DEF ChangeTypeOK, None
<1>2. e \in FDNotifyChange
  <2>1. change_index[f] # None => changes[k] \in FDNotifyChange
    BY <1>1 DEF ChangeTypeOK, None
  <2>2. o \in Events
    BY <2>1 DEF FDNotifyChange
  <2> QED
    BY <2>2 DEF FDNotifyChange
<1>3. /\ changes' = Put(changes, k, e)
      /\ change_index' = [change_index EXCEPT ![f] = k]
      /\ n_changes' = IF change_index[f] = None THEN n_changes + 1 ELSE n_changes
  BY DEF record_change
<1> HIDE DEF e
<1>4. /\ changes' \in Seq(FDNotifyChange)
      /\ Len(changes') = IF k > Len(changes) THEN k ELSE Len(changes)
  BY <1>1, <1>2, <1>3, PutType DEF ChangeTypeOK
<1> QED
  BY <1>1, <1>3, <1>4 DEF ChangeTypeOK

\* So does removing one, unless the removal reads outside the log.
LEMMA DeallocateChangeType ==
  ASSUME ChangeTypeOK, NEW f \in Fds, change_index[f] # None, n_changes # 0,
         deallocate_change_index(f)
  PROVE  ChangeTypeOK'
<1>1. /\ change_index[f] \in 1 .. Len(changes)
      /\ n_changes \in 1 .. Len(changes)
  BY DEF ChangeTypeOK, None
<1>2. changes[change_index[f]] \in FDNotifyChange /\ changes[n_changes] \in FDNotifyChange
  BY <1>1 DEF ChangeTypeOK
<1>3. CASE change_index[f] = n_changes
  BY <1>1, <1>3 DEF ChangeTypeOK, deallocate_change_index, None
<1>4. CASE change_index[f] # n_changes
  <2>1. changes' \in Seq(FDNotifyChange) /\ Len(changes') = Len(changes)
    BY <1>1, <1>2, <1>4, SMTT(30) DEF ChangeTypeOK, deallocate_change_index
  <2>2. n_changes' \in 0 .. Len(changes')
    BY <1>1, <2>1 DEF ChangeTypeOK, deallocate_change_index
  <2>3. changes[change_index[f]].fd \in Fds
    BY <1>2 DEF FDNotifyChange
  <2>4. change_index' = [[change_index EXCEPT ![f] = None]
                           EXCEPT ![changes[change_index[f]].fd] = change_index[f]]
    BY <1>4 DEF deallocate_change_index
  <2>5. None \in 0 .. Len(changes) /\ change_index[f] \in 0 .. Len(changes)
    BY <1>1 DEF ChangeTypeOK, None
  <2>6. change_index' \in [Fds -> 0 .. Len(changes)]
    BY <2>3, <2>4, <2>5 DEF ChangeTypeOK
  <2> QED
    BY <2>1, <2>2, <2>6 DEF ChangeTypeOK
<1> QED
  BY <1>3, <1>4

\* Forgetting all changes.
LEMMA ClearType ==
  ASSUME ChangeTypeOK, n_changes' = 0, changes' = changes,
         change_index' = [f \in Fds |->
           IF \E i \in 1 .. n_changes : changes[i].fd = f THEN None
           ELSE change_index[f]]
  PROVE  ChangeTypeOK'
BY DEF ChangeTypeOK, None
-----------------------------------------------------------------------------
(* The watches.                                                            *)

LEMMA DesiredTypes ==
  ASSUME TypeOK, DesiredConsistent
  PROVE  /\ notifies_desired \in Seq(FDNotify) /\ callbacks \in Seq(Callback)
         /\ notify_desired_index \in [Fds -> Nat]
         /\ Len(notifies_desired) \in Nat
         /\ Len(callbacks) = Len(notifies_desired)
<1>1. /\ notifies_desired \in Seq(FDNotify) /\ callbacks \in Seq(Callback)
      /\ notify_desired_index \in [Fds -> Nat]
  BY DEF TypeOK
<1>2. Len(callbacks) = Len(notifies_desired)
  BY DEF DesiredConsistent
<1> QED
  BY <1>1, <1>2

\* What consistency says of the entry at i.
LEMMA EntryConsistent ==
  ASSUME TypeOK, DesiredConsistent, NEW i \in 1 .. Len(notifies_desired)
  PROVE  /\ notifies_desired[i] \in FDNotify
         /\ notifies_desired[i].fd \in Fds
         /\ notify_desired_index[notifies_desired[i].fd] = i
         /\ notifies_desired[i].events # {}
         /\ callbacks[i] = [fd |-> notifies_desired[i].fd,
                           incarnation |-> incarnation[notifies_desired[i].fd]]
         /\ open[notifies_desired[i].fd]
<1>1. notifies_desired[i] \in FDNotify
  BY DesiredTypes
<1>2. notifies_desired[i].fd \in Fds
  BY <1>1 DEF FDNotify
<1> QED
  BY <1>1, <1>2 DEF DesiredConsistent

\* watch_fd adds the entry of an open descriptor, or overwrites it in place.
LEMMA WatchKeepsDesired ==
  ASSUME TypeOK, DesiredConsistent, NEW f \in Fds, NEW ev \in Interests,
         WatchFd(f, ev)
  PROVE  DesiredTypeOK' /\ DesiredConsistent'
<1> DEFINE nd == allocate_notifies_desired_index(f)
           e  == [fd |-> f, events |-> ev]
           c  == [fd |-> f, incarnation |-> incarnation[f]]
<1>0. /\ notifies_desired \in Seq(FDNotify) /\ callbacks \in Seq(Callback)
      /\ notify_desired_index \in [Fds -> Nat]
      /\ Len(notifies_desired) \in Nat /\ Len(callbacks) = Len(notifies_desired)
  BY DesiredTypes
<1>1. /\ notifies_desired' = Put(notifies_desired, nd, e)
      /\ callbacks' = Put(callbacks, nd, c)
      /\ notify_desired_index' = [notify_desired_index EXCEPT ![f] = nd]
      /\ open[f] /\ UNCHANGED <<open, incarnation>>
  BY DEF WatchFd, kernelVars
<1>2. /\ nd \in 1 .. Len(notifies_desired) + 1
      /\ Len(notifies_desired) \in Nat /\ Len(callbacks) = Len(notifies_desired)
      /\ nd <= Len(notifies_desired) => notifies_desired[nd].fd = f
  <2>1. CASE notify_desired_index[f] = None
    BY <1>0, <2>1 DEF allocate_notifies_desired_index
  <2>2. CASE notify_desired_index[f] # None
    <3>1. nd = notify_desired_index[f]
      BY <2>2 DEF allocate_notifies_desired_index
    <3> QED
      BY <1>0, <2>2, <3>1 DEF DesiredConsistent
  <2> QED
    BY <2>1, <2>2
<1>3. e \in FDNotify /\ c \in Callback /\ ev # {}
  BY InterestsAssumption DEF TypeOK, FDNotify, Callback, Events
<1>4. /\ notifies_desired' \in Seq(FDNotify)
      /\ Len(notifies_desired') =
           IF nd > Len(notifies_desired) THEN nd ELSE Len(notifies_desired)
      /\ \A j \in 1 .. Len(notifies_desired') :
           notifies_desired'[j] = IF j = nd THEN e ELSE notifies_desired[j]
  <2> HIDE DEF nd, e
  <2>1. /\ Put(notifies_desired, nd, e) \in Seq(FDNotify)
        /\ Len(Put(notifies_desired, nd, e)) =
             IF nd > Len(notifies_desired) THEN nd ELSE Len(notifies_desired)
    <3>1. notifies_desired \in Seq(FDNotify)
      BY <1>0
    <3>2. nd \in 1 .. Len(notifies_desired) + 1
      BY <1>2
    <3>3. e \in FDNotify
      BY <1>3
    <3> QED
      BY <3>1, <3>2, <3>3, PutType
  <2>2. \A j \in 1 .. Len(Put(notifies_desired, nd, e)) :
          Put(notifies_desired, nd, e)[j] = IF j = nd THEN e ELSE notifies_desired[j]
    BY <2>1 DEF Put
  <2> QED
    BY <1>1, <2>1, <2>2
<1>5. /\ callbacks' \in Seq(Callback)
      /\ Len(callbacks') = Len(notifies_desired')
      /\ \A j \in 1 .. Len(notifies_desired') :
           callbacks'[j] = IF j = nd THEN c ELSE callbacks[j]
  <2> HIDE DEF nd, c
  <2>1. nd \in 1 .. Len(callbacks) + 1
    BY <1>0, <1>2
  <2>2. /\ Put(callbacks, nd, c) \in Seq(Callback)
        /\ Len(Put(callbacks, nd, c)) =
             IF nd > Len(callbacks) THEN nd ELSE Len(callbacks)
    <3>1. callbacks \in Seq(Callback)
      BY <1>0
    <3>2. c \in Callback
      BY <1>3
    <3> QED
      BY <2>1, <3>1, <3>2, PutType
  <2>3. \A j \in 1 .. Len(Put(callbacks, nd, c)) :
          Put(callbacks, nd, c)[j] = IF j = nd THEN c ELSE callbacks[j]
    BY <2>2 DEF Put
  <2> QED
    BY <1>0, <1>1, <1>4, <2>2, <2>3
<1>6. DesiredTypeOK'
  BY <1>1, <1>2, <1>4, <1>5 DEF DesiredTypeOK, TypeOK
<1>7. ASSUME NEW g \in Fds, notify_desired_index'[g] # None
      PROVE  /\ notify_desired_index'[g] \in 1 .. Len(notifies_desired')
             /\ notifies_desired'[notify_desired_index'[g]].fd = g
  <2>1. CASE g = f
    BY <1>1, <1>2, <1>4, <2>1 DEF TypeOK
  <2>2. CASE g # f
    <3>1. notify_desired_index'[g] = notify_desired_index[g]
      BY <1>1, <2>2 DEF TypeOK
    <3>2. /\ notify_desired_index[g] \in 1 .. Len(notifies_desired)
          /\ notifies_desired[notify_desired_index[g]].fd = g
      BY <1>7, <3>1 DEF DesiredConsistent
    <3>3. notify_desired_index[g] # nd
      BY <1>2, <2>2, <3>2
    <3> QED
      BY <1>2, <1>4, <3>1, <3>2, <3>3
  <2> QED
    BY <2>1, <2>2
<1>8. ASSUME NEW i \in 1 .. Len(notifies_desired')
      PROVE  LET g == notifies_desired'[i].fd
             IN  /\ notify_desired_index'[g] = i
                 /\ notifies_desired'[i].events # {}
                 /\ callbacks'[i] = [fd |-> g, incarnation |-> incarnation'[g]]
                 /\ open'[g]
  <2>1. CASE i = nd
    BY <1>1, <1>3, <1>4, <1>5, <2>1, SMTT(30) DEF TypeOK
  <2>2. CASE i # nd
    <3>1. i \in 1 .. Len(notifies_desired)
      BY <1>2, <1>4, <2>2
    <3>2. notifies_desired'[i] = notifies_desired[i] /\ callbacks'[i] = callbacks[i]
      BY <1>4, <1>5, <2>2
    <3>3. /\ notifies_desired[i] \in FDNotify
          /\ notify_desired_index[notifies_desired[i].fd] = i
      BY <3>1, EntryConsistent
    <3>4. notifies_desired[i].fd # f
      <4>1. notify_desired_index[f] = i => nd = i
        BY <3>1 DEF allocate_notifies_desired_index, None
      <4> QED
        BY <2>2, <3>3, <4>1
    <3> DEFINE g == notifies_desired[i].fd
    <3>5. /\ notifies_desired[i].events # {}
          /\ callbacks[i] = [fd |-> g, incarnation |-> incarnation[g]]
          /\ open[g]
      BY <3>1 DEF DesiredConsistent
    <3>6. notify_desired_index'[g] = i
      <4>1. g \in Fds
        BY <3>3 DEF FDNotify
      <4> QED
        BY <1>1, <3>3, <3>4, <4>1 DEF TypeOK
    <3> QED
      BY <1>1, <3>2, <3>5, <3>6
  <2> QED
    BY <2>1, <2>2
<1> QED
  BY <1>5, <1>6, <1>7, <1>8 DEF DesiredConsistent

\* Moving the last entry over the removed one keeps the rest intact, also when
\* the descriptor is closed in the same step.
LEMMA DeallocateKeepsDesired ==
  ASSUME TypeOK, DesiredConsistent, NEW f \in Fds,
         notify_desired_index[f] # None, deallocate_notify_desired_index(f),
         open' \in {open, [open EXCEPT ![f] = FALSE]}, incarnation' = incarnation
  PROVE  DesiredTypeOK' /\ DesiredConsistent' /\ notify_desired_index'[f] = None
<1> DEFINE nd   == notify_desired_index[f]
           last == Len(notifies_desired)
           moved == notifies_desired[last].fd
<1>0. /\ notifies_desired \in Seq(FDNotify) /\ callbacks \in Seq(Callback)
      /\ notify_desired_index \in [Fds -> Nat]
      /\ Len(notifies_desired) \in Nat /\ Len(callbacks) = Len(notifies_desired)
  BY DesiredTypes
<1>1. /\ nd \in 1 .. last /\ last \in Nat \ {0} /\ Len(callbacks) = last
      /\ notifies_desired[nd].fd = f
  BY DEF TypeOK, DesiredConsistent
<1>2. /\ notifies_desired' = MoveLastTo(notifies_desired, nd)
      /\ callbacks' = MoveLastTo(callbacks, nd)
      /\ notify_desired_index' =
           IF nd = last THEN [notify_desired_index EXCEPT ![f] = None]
           ELSE [[notify_desired_index EXCEPT ![f] = None] EXCEPT ![moved] = nd]
  BY DEF deallocate_notify_desired_index
<1>3. /\ notifies_desired' \in Seq(FDNotify)
      /\ Len(notifies_desired') = last - 1
      /\ \A j \in 1 .. last - 1 :
           notifies_desired'[j] =
             IF j = nd THEN notifies_desired[last] ELSE notifies_desired[j]
  <2> HIDE DEF nd
  <2>0. notifies_desired \in Seq(FDNotify) /\ nd \in 1 .. Len(notifies_desired)
    BY <1>0, <1>1
  <2>1. /\ MoveLastTo(notifies_desired, nd) \in Seq(FDNotify)
        /\ Len(MoveLastTo(notifies_desired, nd)) = Len(notifies_desired) - 1
        /\ \A j \in 1 .. Len(notifies_desired) - 1 :
             MoveLastTo(notifies_desired, nd)[j] =
               IF j = nd THEN notifies_desired[Len(notifies_desired)]
               ELSE notifies_desired[j]
    BY <2>0, MoveLastToType, ZenonT(30)
  <2> QED
    BY <1>2, <2>1
<1>4. /\ callbacks' \in Seq(Callback)
      /\ Len(callbacks') = last - 1
      /\ \A j \in 1 .. last - 1 :
           callbacks'[j] = IF j = nd THEN callbacks[last] ELSE callbacks[j]
  <2> HIDE DEF nd
  <2>1. nd \in 1 .. Len(callbacks)
    BY <1>1
  <2>2. /\ MoveLastTo(callbacks, nd) \in Seq(Callback)
        /\ Len(MoveLastTo(callbacks, nd)) = Len(callbacks) - 1
        /\ \A j \in 1 .. Len(callbacks) - 1 :
             MoveLastTo(callbacks, nd)[j] =
               IF j = nd THEN callbacks[Len(callbacks)] ELSE callbacks[j]
    BY <1>0, <2>1, MoveLastToType
  <2> QED
    BY <1>0, <1>2, <2>2
<1>5. /\ moved \in Fds /\ notify_desired_index[moved] = last
      /\ (moved = f) <=> (nd = last)
  <2>1. notifies_desired[last] \in FDNotify
    BY <1>0, <1>1
  <2>2. notify_desired_index[moved] = last
    <3>1. last \in 1 .. Len(notifies_desired)
      BY <1>1
    <3> QED
      BY <3>1, EntryConsistent
  <2> QED
    BY <1>1, <2>1, <2>2 DEF FDNotify
<1>6. \A g \in Fds : notify_desired_index'[g] =
        IF g = f THEN None ELSE IF g = moved THEN nd ELSE notify_desired_index[g]
  BY <1>2, <1>5 DEF TypeOK
<1>7. DesiredTypeOK'
  <2>1. notify_desired_index' \in [Fds -> Nat]
    BY <1>1, <1>2, <1>5 DEF TypeOK, None
  <2> QED
    BY <1>3, <1>4, <2>1 DEF DesiredTypeOK
<1>8. ASSUME NEW g \in Fds, notify_desired_index'[g] # None
      PROVE  /\ notify_desired_index'[g] \in 1 .. Len(notifies_desired')
             /\ notifies_desired'[notify_desired_index'[g]].fd = g
  <2>0. g # f
    BY <1>6, <1>8
  <2>1. CASE g = moved
    <3>1. notify_desired_index'[g] = nd /\ nd \in 1 .. last - 1
      BY <1>1, <1>5, <1>6, <2>0, <2>1
    <3> QED
      BY <1>3, <2>1, <3>1
  <2>2. CASE g # moved
    <3>1. notify_desired_index'[g] = notify_desired_index[g]
      BY <1>6, <2>0, <2>2
    <3>2. /\ notify_desired_index[g] \in 1 .. last
          /\ notifies_desired[notify_desired_index[g]].fd = g
      BY <1>8, <3>1 DEF DesiredConsistent
    <3>3. notify_desired_index[g] # nd /\ notify_desired_index[g] # last
      BY <1>1, <2>0, <2>2, <3>2
    <3>4. notify_desired_index[g] \in 1 .. last - 1
      BY <1>1, <3>2, <3>3
    <3> QED
      BY <1>3, <3>1, <3>2, <3>3, <3>4
  <2> QED
    BY <2>1, <2>2
<1>9. ASSUME NEW i \in 1 .. Len(notifies_desired')
      PROVE  LET g == notifies_desired'[i].fd
             IN  /\ notify_desired_index'[g] = i
                 /\ notifies_desired'[i].events # {}
                 /\ callbacks'[i] = [fd |-> g, incarnation |-> incarnation'[g]]
                 /\ open'[g]
  <2> DEFINE old == IF i = nd THEN last ELSE i
             g   == notifies_desired[old].fd
  <2>1. i \in 1 .. last - 1 /\ old \in 1 .. last /\ old # nd
    BY <1>1, <1>3
  <2>2. notifies_desired'[i] = notifies_desired[old] /\ callbacks'[i] = callbacks[old]
    BY <1>3, <1>4, <2>1
  <2>3. /\ notify_desired_index[g] = old /\ notifies_desired[old].events # {}
        /\ callbacks[old] = [fd |-> g, incarnation |-> incarnation[g]]
        /\ open[g]
    BY <2>1 DEF DesiredConsistent
  <2>4. notifies_desired[old] \in FDNotify
    BY <2>1 DEF TypeOK
  <2>5. g \in Fds /\ g # f
    BY <2>1, <2>3, <2>4 DEF FDNotify
  <2>6. open'[g]
    BY <2>3, <2>5 DEF TypeOK
  <2>7. notify_desired_index'[g] = i
    <3>1. CASE i = nd
      BY <1>5, <1>6, <2>5, <3>1
    <3>2. CASE i # nd
      <4>1. g # moved
        BY <1>5, <2>1, <2>3, <3>2
      <4> QED
        BY <1>6, <2>3, <2>5, <3>2, <4>1
    <3> QED
      BY <3>1, <3>2
  <2> QED
    BY <2>2, <2>3, <2>6, <2>7
<1>10. notify_desired_index'[f] = None
  BY <1>6
<1> QED
  BY <1>3, <1>4, <1>7, <1>8, <1>9, <1>10 DEF DesiredConsistent
-----------------------------------------------------------------------------
(* The steps.                                                              *)

LEMMA InitIInv == Init => IInv
<1> SUFFICES ASSUME Init PROVE IInv
  OBVIOUS
<1>1. TypeOK
  <2>1. <<>> \in Seq(FDNotify) /\ <<>> \in Seq(Callback) /\ <<>> \in Seq(FDNotifyChange)
        /\ <<>> \in Seq(Notification) /\ Len(<<>>) = 0
    OBVIOUS
  <2> QED
    BY <2>1, BoundsAssumption DEF Init, TypeOK, None, PcStates
<1>2. DesiredConsistent /\ PendingFresh
  BY DEF Init, DesiredConsistent, PendingFresh, None
<1> QED
  BY <1>1, <1>2 DEF IInv

LEMMA UserActsType ==
  ASSUME ops \in 0 .. MaxOps, UserActs
  PROVE  ops' \in 0 .. MaxOps
BY BoundsAssumption DEF UserActs, InCallback

\* What a step may not touch for DesiredConsistent and PendingFresh to carry over.
LEMMA DesiredFrame ==
  ASSUME DesiredConsistent, UNCHANGED <<desiredVars, kernelVars>>
  PROVE  DesiredConsistent'
BY DEF DesiredConsistent, desiredVars, kernelVars

LEMMA PendingFrame ==
  ASSUME PendingFresh,
         UNCHANGED <<notifies, closed_since_notify_started, kernelVars>>
  PROVE  PendingFresh'
BY DEF PendingFresh, kernelVars

LEMMA NotificationType ==
  ASSUME TypeOK, NEW j \in 1 .. Len(notifies)
  PROVE  /\ notifies[j] \in Notification
         /\ notifies[j].fd \in Fds /\ notifies[j].events \in Events
<1>1. notifies \in Seq(Notification)
  BY TypeSplit DEF LoopTypeOK
<1>2. notifies[j] \in Notification
  BY <1>1
<1> QED
  BY <1>2 DEF Notification

LEMMA OpenStep ==
  ASSUME IInv, NEW f \in Fds, OpenFd(f)
  PROVE  IInv'
<1>0. /\ UNCHANGED <<desiredVars, changeVars, closed_since_notify_started, loopVars>>
      /\ ~open[f] /\ incarnation[f] < MaxIncarnation
      /\ open' = [open EXCEPT ![f] = TRUE]
      /\ incarnation' = [incarnation EXCEPT ![f] = @ + 1]
      /\ open \in [Fds -> BOOLEAN]
      /\ incarnation \in [Fds -> 0 .. MaxIncarnation]
  BY TypeSplit DEF OpenFd, IInv, KernelTypeOK
<1>1. TypeOK'
  <2>1. open' \in [Fds -> BOOLEAN]
    BY <1>0
  <2>2. incarnation' \in [Fds -> 0 .. MaxIncarnation]
    <3>1. incarnation[f] + 1 \in 0 .. MaxIncarnation
      BY <1>0, BoundsAssumption
    <3> QED
      BY <1>0, <3>1
  <2>3. ops' \in 0 .. MaxOps
    BY UserActsType DEF IInv, TypeOK, OpenFd
  <2> QED
    BY <1>0, <2>1, <2>2, <2>3 DEF IInv, TypeOK, desiredVars, changeVars, loopVars
<1>2. DesiredConsistent'
  <2>1. ASSUME NEW i \in 1 .. Len(notifies_desired)
        PROVE  /\ open'[notifies_desired[i].fd]
               /\ incarnation'[notifies_desired[i].fd]
                    = incarnation[notifies_desired[i].fd]
    <3>1. notifies_desired[i].fd \in Fds /\ open[notifies_desired[i].fd]
      BY EntryConsistent DEF IInv
    <3> QED
      BY <1>0, <3>1
  <2> QED
    BY <1>0, <2>1 DEF IInv, DesiredConsistent, desiredVars
<1>3. PendingFresh'
  <2>1. ASSUME NEW j \in 1 .. Len(notifies),
               ~closed_since_notify_started[notifies[j].fd]
        PROVE  /\ open'[notifies[j].fd]
               /\ notifies[j].incarnation = incarnation'[notifies[j].fd]
    <3>1. /\ notifies[j].fd \in Fds /\ open[notifies[j].fd]
          /\ notifies[j].incarnation = incarnation[notifies[j].fd]
      BY <2>1, NotificationType DEF IInv, PendingFresh
    <3> QED
      BY <1>0, <3>1
  <2> QED
    BY <1>0, <2>1 DEF PendingFresh, loopVars
<1> QED
  BY <1>1, <1>2, <1>3 DEF IInv

LEMMA WatchStep ==
  ASSUME IInv, NEW f \in Fds, NEW ev \in Interests, WatchFd(f, ev)
  PROVE  IInv'
<1>1. DesiredTypeOK' /\ DesiredConsistent'
  BY WatchKeepsDesired DEF IInv
<1>2. ChangeTypeOK'
  <2>1. ev \in Events /\ DesiredEvents(f) \in Events
    BY InterestsAssumption, DesiredEventsType DEF IInv
  <2> QED
    BY <2>1, RecordChangeType, TypeSplit DEF IInv, WatchFd
<1>3. TypeOK'
  <2>1. /\ LoopTypeOK' /\ KernelTypeOK'
        /\ closed_since_notify_started' \in [Fds -> BOOLEAN]
    BY DEF IInv, TypeOK, WatchFd, loopVars, kernelVars, LoopTypeOK, KernelTypeOK
  <2>2. ops' \in 0 .. MaxOps
    BY UserActsType DEF IInv, TypeOK, WatchFd
  <2> QED
    BY <1>1, <1>2, <2>1, <2>2, TypeSplit DEF TypeOK, DesiredTypeOK, ChangeTypeOK,
       LoopTypeOK, KernelTypeOK
<1>4. PendingFresh'
  BY PendingFrame DEF IInv, WatchFd, loopVars
<1> QED
  BY <1>1, <1>3, <1>4 DEF IInv

LEMMA UnwatchStep ==
  ASSUME IInv, NEW f \in Fds, UnwatchFd(f)
  PROVE  IInv'
<1>1. DesiredTypeOK' /\ DesiredConsistent'
  <2>1. CASE notify_desired_index[f] = None
    BY <2>1, DesiredFrame, TypeSplit DEF IInv, UnwatchFd, desiredVars, kernelVars,
       DesiredTypeOK
  <2>2. CASE notify_desired_index[f] # None
    BY <2>2, DeallocateKeepsDesired DEF IInv, UnwatchFd, kernelVars
  <2> QED
    BY <2>1, <2>2
<1>2. ChangeTypeOK'
  <2>1. {} \in Events /\ DesiredEvents(f) \in Events
    BY DesiredEventsType DEF IInv, Events
  <2> QED
    BY <2>1, RecordChangeType, TypeSplit DEF IInv, UnwatchFd
<1>3. TypeOK'
  <2>1. /\ LoopTypeOK' /\ KernelTypeOK'
        /\ closed_since_notify_started' \in [Fds -> BOOLEAN]
    BY DEF IInv, TypeOK, UnwatchFd, loopVars, kernelVars, LoopTypeOK, KernelTypeOK
  <2>2. ops' \in 0 .. MaxOps
    BY UserActsType DEF IInv, TypeOK, UnwatchFd
  <2> QED
    BY <1>1, <1>2, <2>1, <2>2, TypeSplit DEF TypeOK, DesiredTypeOK, ChangeTypeOK,
       LoopTypeOK, KernelTypeOK
<1>4. PendingFresh'
  BY PendingFrame DEF IInv, UnwatchFd, loopVars
<1> QED
  BY <1>1, <1>3, <1>4 DEF IInv

\* After closing f, nothing of f is left to deliver and all else is as before.
LEMMA CloseStep ==
  ASSUME IInv, NEW f \in Fds, CloseFd(f)
  PROVE  IInv'
<1>0. ops' \in 0 .. MaxOps
  BY UserActsType DEF IInv, TypeOK, CloseFd
<1>1. CASE WildRead(f)
  <2>1. Crash
    BY <1>1 DEF CloseFd
  <2>2. TypeOK'
    BY <1>0, <2>1 DEF IInv, TypeOK, Crash, desiredVars, changeVars, kernelVars,
       PcStates
  <2>3. DesiredConsistent' /\ PendingFresh'
    BY <2>1, DesiredFrame, PendingFrame DEF IInv, Crash, desiredVars, kernelVars
  <2> QED
    BY <2>2, <2>3 DEF IInv
<1>2. CASE ~WildRead(f)
  <2>0. /\ fd_closed(f) /\ open' = [open EXCEPT ![f] = FALSE]
        /\ UNCHANGED <<loopVars, incarnation>>
        /\ closed_since_notify_started' =
             [closed_since_notify_started EXCEPT ![f] = TRUE]
        /\ open \in [Fds -> BOOLEAN]
        /\ closed_since_notify_started \in [Fds -> BOOLEAN]
    BY <1>2, TypeSplit DEF CloseFd, fd_closed, IInv, KernelTypeOK
  <2>1. ChangeTypeOK'
    <3>1. CASE change_index[f] = None
      BY <2>0, <3>1, TypeSplit DEF IInv, fd_closed, changeVars, ChangeTypeOK
    <3>2. CASE change_index[f] # None
      BY <1>2, <2>0, <3>2, DeallocateChangeType, TypeSplit
         DEF IInv, fd_closed, WildRead
    <3> QED
      BY <3>1, <3>2
  <2>2. DesiredTypeOK' /\ DesiredConsistent'
    <3>1. CASE notify_desired_index[f] = None
      <4>1. UNCHANGED desiredVars
        BY <2>0, <3>1 DEF fd_closed
      <4>2. ASSUME NEW i \in 1 .. Len(notifies_desired)
            PROVE  open'[notifies_desired[i].fd]
        <5>1. /\ notifies_desired[i].fd \in Fds /\ open[notifies_desired[i].fd]
              /\ notify_desired_index[notifies_desired[i].fd] = i
          BY EntryConsistent DEF IInv
        <5>2. notifies_desired[i].fd # f
          BY <3>1, <5>1 DEF None
        <5> QED
          BY <2>0, <5>1, <5>2
      <4>3. DesiredConsistent'
        BY <2>0, <4>1, <4>2 DEF IInv, DesiredConsistent, desiredVars
      <4> QED
        BY <4>1, <4>3, TypeSplit DEF IInv, DesiredTypeOK, desiredVars
    <3>2. CASE notify_desired_index[f] # None
      BY <2>0, <3>2, DeallocateKeepsDesired DEF IInv, fd_closed
    <3> QED
      BY <3>1, <3>2
  <2>3. TypeOK'
    <3>1. /\ LoopTypeOK' /\ KernelTypeOK'
          /\ closed_since_notify_started' \in [Fds -> BOOLEAN]
      BY <2>0, TypeSplit DEF IInv, loopVars, LoopTypeOK, KernelTypeOK
    <3> QED
      BY <1>0, <2>1, <2>2, <3>1 DEF TypeOK, DesiredTypeOK, ChangeTypeOK, LoopTypeOK,
         KernelTypeOK
  <2>4. PendingFresh'
    <3>1. ASSUME NEW j \in 1 .. Len(notifies),
                 ~closed_since_notify_started'[notifies[j].fd]
          PROVE  open'[notifies[j].fd]
                   /\ notifies[j].incarnation = incarnation[notifies[j].fd]
      <4>1. notifies[j].fd \in Fds
        BY NotificationType DEF IInv
      <4>2. notifies[j].fd # f /\ ~closed_since_notify_started[notifies[j].fd]
        BY <2>0, <3>1, <4>1
      <4>3. open[notifies[j].fd]
              /\ notifies[j].incarnation = incarnation[notifies[j].fd]
        BY <4>2 DEF IInv, PendingFresh
      <4> QED
        BY <2>0, <4>1, <4>2, <4>3
    <3> QED
      BY <2>0, <3>1 DEF PendingFresh, loopVars
  <2> QED
    BY <2>2, <2>3, <2>4 DEF IInv
<1> QED
  BY <1>1, <1>2

LEMMA ClearStep ==
  ASSUME IInv, ClearChanges
  PROVE  IInv'
<1>1. CASE \E i \in 1 .. n_changes : change_index[changes[i].fd] # i
  <2>1. Crash /\ UNCHANGED ops
    BY <1>1 DEF ClearChanges
  <2>2. TypeOK'
    BY <2>1 DEF IInv, TypeOK, Crash, desiredVars, changeVars, kernelVars, PcStates
  <2>3. DesiredConsistent' /\ PendingFresh'
    BY <2>1, DesiredFrame, PendingFrame DEF IInv, Crash, desiredVars, kernelVars
  <2> QED
    BY <2>2, <2>3 DEF IInv
<1>2. CASE ~(\E i \in 1 .. n_changes : change_index[changes[i].fd] # i)
  <2>1. ChangeTypeOK'
    BY <1>2, ClearType, TypeSplit DEF ClearChanges, IInv
  <2>2. UNCHANGED <<desiredVars, closed_since_notify_started, loopVars, ops,
                    kernelVars>>
    BY <1>2 DEF ClearChanges
  <2>3. TypeOK'
    BY <2>1, <2>2 DEF IInv, TypeOK, ChangeTypeOK, desiredVars, loopVars, kernelVars
  <2>4. DesiredConsistent' /\ PendingFresh'
    BY <2>2, DesiredFrame, PendingFrame DEF IInv, desiredVars, loopVars, kernelVars
  <2> QED
    BY <2>3, <2>4 DEF IInv
<1> QED
  BY <1>1, <1>2

\* A pass begins with notifications of descriptors that are open.
LEMMA DispatchStep ==
  ASSUME IInv, NEW k \in Nat, NEW fd \in [1 .. k -> Fds],
         NEW ev \in [1 .. k -> Events], \A j \in 1 .. k : open[fd[j]],
         Dispatch([j \in 1 .. k |-> Notice(fd[j], ev[j])])
  PROVE  IInv'
<1> DEFINE ns == [j \in 1 .. k |-> Notice(fd[j], ev[j])]
<1>1. /\ notifies' = ns /\ next' = 1 /\ pc' = "notify"
      /\ UNCHANGED <<desiredVars, changeVars, call, ops, kernelVars>>
      /\ closed_since_notify_started' \in [Fds -> BOOLEAN]
  <2>1. closed_since_notify_started \in [Fds -> BOOLEAN]
    BY TypeSplit DEF IInv
  <2> QED
    BY <2>1 DEF Dispatch
<1>2. \A j \in 1 .. k : ns[j] \in Notification
  <2>1. \A f \in Fds : incarnation[f] \in Nat
    BY TypeSplit, BoundsAssumption DEF IInv, KernelTypeOK
  <2> QED
    BY <2>1 DEF Notice, Notification
<1>3. ns \in Seq(Notification) /\ Len(ns) = k
  <2> HIDE DEF Notice
  <2> QED
    BY <1>2
<1>4. TypeOK'
  BY <1>1, <1>3 DEF IInv, TypeOK, PcStates, desiredVars, changeVars, kernelVars
<1>5. DesiredConsistent'
  BY <1>1, DesiredFrame DEF IInv
<1>6. PendingFresh'
  <2>1. \A j \in 1 .. k : /\ ns[j].fd = fd[j]
                          /\ ns[j].incarnation = incarnation[fd[j]]
    BY DEF Notice
  <2> HIDE DEF ns
  <2> QED
    BY <1>1, <1>3, <2>1 DEF PendingFresh, kernelVars
<1> QED
  BY <1>4, <1>5, <1>6 DEF IInv

LEMMA EmbeddedStep ==
  ASSUME IInv, EmbeddedDispatch
  PROVE  IInv'
<1>1. PICK k \in 0 .. MaxNotifies : \E fd \in [1 .. k -> Fds],
                                        ev \in [1 .. k -> Interests] :
        /\ \A j \in 1 .. k : open[fd[j]]
        /\ Dispatch([j \in 1 .. k |-> Notice(fd[j], ev[j])])
  BY DEF EmbeddedDispatch
<1>2. PICK fd \in [1 .. k -> Fds], ev \in [1 .. k -> Interests] :
        /\ \A j \in 1 .. k : open[fd[j]]
        /\ Dispatch([j \in 1 .. k |-> Notice(fd[j], ev[j])])
  BY <1>1
<1>3. k \in Nat /\ ev \in [1 .. k -> Events]
  BY InterestsAssumption, BoundsAssumption
<1> QED
  BY <1>2, <1>3, DispatchStep

LEMMA RunStep ==
  ASSUME IInv, Run
  PROVE  IInv'
<1>0. Len(notifies_desired) \in Nat
  BY DesiredTypes DEF IInv
<1>1. PICK k \in 0 .. Len(notifies_desired) :
        \E p \in [1 .. k -> 1 .. Len(notifies_desired)], ev \in [1 .. k -> Events] :
          Dispatch([a \in 1 .. k |-> Notice(notifies_desired[p[a]].fd, ev[a])])
  BY DEF Run
<1>2. PICK p \in [1 .. k -> 1 .. Len(notifies_desired)], ev \in [1 .. k -> Events] :
          Dispatch([a \in 1 .. k |-> Notice(notifies_desired[p[a]].fd, ev[a])])
  BY <1>1
<1> DEFINE fd == [a \in 1 .. k |-> notifies_desired[p[a]].fd]
<1>3. \A a \in 1 .. k : notifies_desired[p[a]].fd \in Fds
                           /\ open[notifies_desired[p[a]].fd]
  BY EntryConsistent DEF IInv
<1>4. fd \in [1 .. k -> Fds] /\ \A a \in 1 .. k : open[fd[a]]
  BY <1>3
<1>5. [a \in 1 .. k |-> Notice(notifies_desired[p[a]].fd, ev[a])]
        = [a \in 1 .. k |-> Notice(fd[a], ev[a])]
  OBVIOUS
<1>6. Dispatch([a \in 1 .. k |-> Notice(fd[a], ev[a])])
  BY <1>2, <1>5
<1>7. k \in Nat
  BY <1>0
<1> HIDE DEF fd
<1> QED
  BY <1>4, <1>6, <1>7, DispatchStep

\* What a delivery hands to whom.
LEMMA DeliveryFacts ==
  ASSUME IInv, Deliver
  PROVE  /\ call' \in Invocation
         /\ call'.of = notifies[next]
         /\ open[notifies[next].fd]
         /\ notifies[next].incarnation = incarnation[notifies[next].fd]
         /\ call'.callback = [fd |-> notifies[next].fd,
                              incarnation |-> incarnation[notifies[next].fd]]
<1> DEFINE n == notifies[next]
           nd == notify_desired_index[n.fd]
<1>1. next \in 1 .. Len(notifies)
  BY TypeSplit DEF IInv, LoopTypeOK, Deliver
<1>2. n \in Notification /\ n.fd \in Fds /\ n.events \in Events
  BY <1>1, NotificationType DEF IInv
<1>3. ~closed_since_notify_started[n.fd] /\ DesiredEvents(n.fd) \cap n.events # {}
  BY DEF Deliver, Deliverable
<1>4. nd # None
  BY <1>3 DEF DesiredEvents
<1>5. nd \in 1 .. Len(notifies_desired) /\ notifies_desired[nd].fd = n.fd
  BY <1>2, <1>4 DEF IInv, DesiredConsistent
<1>6. callbacks[nd] = [fd |-> n.fd, incarnation |-> incarnation[n.fd]]
  BY <1>5, EntryConsistent DEF IInv
<1>7. call' = [callback |-> callbacks[nd],
               events |-> DesiredEvents(n.fd) \cap n.events, of |-> n]
  BY <1>3 DEF Deliver, Deliverable
<1>8. open[n.fd] /\ n.incarnation = incarnation[n.fd]
  BY <1>1, <1>3 DEF IInv, PendingFresh
<1>9. call' \in Invocation
  <2>1. callbacks[nd] \in Callback
    <3>1. callbacks \in Seq(Callback) /\ nd \in 1 .. Len(callbacks)
      BY <1>5, DesiredTypes DEF IInv
    <3> QED
      BY <3>1
  <2>2. DesiredEvents(n.fd) \cap n.events \in Events
    BY <1>2 DEF Events
  <2> QED
    BY <1>2, <1>7, <2>1, <2>2 DEF Invocation
<1> QED
  BY <1>6, <1>7, <1>8, <1>9

LEMMA LoopStep ==
  ASSUME IInv, Loop
  PROVE  IInv'
<1>1. CASE Skip
  <2>1. TypeOK'
    BY <1>1 DEF IInv, TypeOK, Skip, desiredVars, changeVars, kernelVars
  <2>2. DesiredConsistent' /\ PendingFresh'
    BY <1>1, DesiredFrame, PendingFrame DEF IInv, Skip, desiredVars, kernelVars
  <2> QED
    BY <2>1, <2>2 DEF IInv
<1>2. CASE Deliver
  <2>1. TypeOK'
    BY <1>2, DeliveryFacts, BoundsAssumption, SMTT(30)
       DEF IInv, TypeOK, Deliver, desiredVars, changeVars, kernelVars, PcStates
  <2>2. DesiredConsistent' /\ PendingFresh'
    BY <1>2, DesiredFrame, PendingFrame DEF IInv, Deliver, desiredVars, kernelVars
  <2> QED
    BY <2>1, <2>2 DEF IInv
<1>3. CASE CallbackReturns
  <2>1. TypeOK'
    BY <1>3, BoundsAssumption
       DEF IInv, TypeOK, CallbackReturns, desiredVars, changeVars, kernelVars, PcStates
  <2>2. DesiredConsistent' /\ PendingFresh'
    BY <1>3, DesiredFrame, PendingFrame
       DEF IInv, CallbackReturns, desiredVars, kernelVars
  <2> QED
    BY <2>1, <2>2 DEF IInv
<1>4. CASE DiscardChanges
  <2>1. ChangeTypeOK'
    BY <1>4, ClearType, TypeSplit DEF DiscardChanges, IInv
  <2>2. TypeOK'
    BY <1>4, <2>1, BoundsAssumption
       DEF IInv, TypeOK, ChangeTypeOK, DiscardChanges, desiredVars, kernelVars, PcStates
  <2>3. DesiredConsistent' /\ PendingFresh'
    BY <1>4, DesiredFrame, PendingFrame
       DEF IInv, DiscardChanges, desiredVars, kernelVars
  <2> QED
    BY <2>2, <2>3 DEF IInv
<1>5. CASE Finish
  <2>1. <<>> \in Seq(Notification) /\ Len(<<>>) = 0
    OBVIOUS
  <2>2. TypeOK'
    BY <1>5, <2>1, BoundsAssumption
       DEF IInv, TypeOK, Finish, desiredVars, changeVars, kernelVars, PcStates
  <2>3. DesiredConsistent'
    BY <1>5, DesiredFrame DEF IInv, Finish
  <2>4. PendingFresh'
    BY <1>5, <2>1 DEF Finish, PendingFresh
  <2> QED
    BY <2>2, <2>3, <2>4 DEF IInv
<1> QED
  BY <1>1, <1>2, <1>3, <1>4, <1>5 DEF Loop

LEMMA StutterStep ==
  ASSUME IInv, UNCHANGED vars
  PROVE  IInv'
<1>1. TypeOK'
  BY DEF IInv, TypeOK, vars, desiredVars, changeVars, loopVars, kernelVars
<1>2. DesiredConsistent' /\ PendingFresh'
  BY DesiredFrame, PendingFrame
     DEF IInv, vars, desiredVars, loopVars, kernelVars
<1> QED
  BY <1>1, <1>2 DEF IInv

LEMMA NextIInv == IInv /\ [Next]_vars => IInv'
<1> SUFFICES ASSUME IInv, [Next]_vars PROVE IInv'
  OBVIOUS
<1>1. CASE User
  <2>1. PICK f \in Fds : \/ OpenFd(f)
                         \/ \E ev \in Interests : WatchFd(f, ev)
                         \/ UnwatchFd(f)
                         \/ CloseFd(f)
    BY <1>1 DEF User
  <2> QED
    BY <2>1, OpenStep, WatchStep, UnwatchStep, CloseStep
<1>2. CASE ClearChanges
  BY <1>2, ClearStep
<1>3. CASE EmbeddedDispatch
  BY <1>3, EmbeddedStep
<1>4. CASE Run
  BY <1>4, RunStep
<1>5. CASE Loop
  BY <1>5, LoopStep
<1>6. CASE Dead \/ UNCHANGED vars
  BY <1>6, StutterStep DEF Dead
<1> QED
  BY <1>1, <1>2, <1>3, <1>4, <1>5, <1>6 DEF Next
-----------------------------------------------------------------------------
\* The inductive invariant holds in every reachable state.
THEOREM Invariance == Spec => []IInv
<1> QED
  BY InitIInv, NextIInv, PTL DEF Spec

\* Every variable of the dispatch keeps its type: no index leaves its array,
\* other than through the wild read that deallocate_change_index can make.
THEOREM TypeCorrect == Spec => []TypeOK
<1>1. IInv => TypeOK
  BY DEF IInv
<1> QED
  BY <1>1, Invariance, PTL

\* fd_map, notifies_desired and callbacks always describe the same watches,
\* whatever order descriptors are watched, unwatched, closed and reused in, by
\* the program or by callbacks in the middle of a pass.
THEOREM WatchesConsistent == Spec => []DesiredConsistent
<1>1. IInv => DesiredConsistent
  BY DEF IInv
<1> QED
  BY <1>1, Invariance, PTL

\* No callback is invoked with an event that was reported for an earlier
\* incarnation of its descriptor number.
THEOREM DeliveryFresh == Spec => NoStaleDelivery
<1>1. ASSUME IInv, [Next]_vars
      PROVE  [(pc = "notify" /\ pc' = "callback") =>
                /\ call'.callback.fd = call'.of.fd
                /\ call'.callback.incarnation = call'.of.incarnation
                /\ open[call'.of.fd]
                /\ call'.of.incarnation = incarnation[call'.of.fd]]_vars
  <2>1. SUFFICES ASSUME Next, pc = "notify", pc' = "callback"
                 PROVE  /\ call'.callback.fd = call'.of.fd
                        /\ call'.callback.incarnation = call'.of.incarnation
                        /\ open[call'.of.fd]
                        /\ call'.of.incarnation = incarnation[call'.of.fd]
    BY <1>1
  <2>2. Deliver
    <3>1. ~User /\ ~ClearChanges /\ ~EmbeddedDispatch /\ ~Run /\ ~Dead
      BY <2>1 DEF User, OpenFd, WatchFd, UnwatchFd, CloseFd, UserActs, InCallback,
         ClearChanges, EmbeddedDispatch, Run, Dispatch, Dead
    <3>2. ~Skip /\ ~CallbackReturns /\ ~DiscardChanges /\ ~Finish
      BY <2>1 DEF Skip, CallbackReturns, DiscardChanges, Finish
    <3> QED
      BY <2>1, <3>1, <3>2 DEF Next, Loop
  <2> QED
    BY <1>1, <2>2, DeliveryFacts
<1> QED
  BY <1>1, Invariance, PTL DEF Spec, NoStaleDelivery
-----------------------------------------------------------------------------
(* The change log.                                                         *)

\* The log and fd_map describe the same changes.
LogOK ==
  /\ ChangesIndexed
  /\ \A f \in Fds : change_index[f] # None =>
       /\ change_index[f] \in 1 .. n_changes
       /\ changes[change_index[f]].fd = f

\* Only open descriptors are waited for, or will be once the log is applied.
OpenOK ==
  /\ interest \in [Fds -> Events]
  /\ \A f \in Fds : interest[f] # {} => open[f]
  /\ \A i \in 1 .. n_changes : changes[i].events # {} => open[changes[i].fd]

LogInv == LogOK /\ OpenOK /\ pc # "crashed"

\* The interest in f once the log has been applied, by the index of f.
Wanted(f) ==
  IF change_index[f] = None THEN interest[f] ELSE changes[change_index[f]].events

\* No change is logged during a pass over the notifications, at the end of which
\* dispatch_dispatch throws the log away.
SyncInv ==
  /\ pc \in {"notify", "callback"} => n_changes = 0
  /\ OldEventsExact
  /\ \A f \in Fds : Wanted(f) = DesiredEvents(f)
-----------------------------------------------------------------------------
(* The log.                                                                *)

LEMMA LogTypes ==
  ASSUME IInv
  PROVE  /\ ChangeTypeOK /\ changes \in Seq(FDNotifyChange) /\ Len(changes) \in Nat
         /\ n_changes \in Nat /\ n_changes <= Len(changes)
         /\ change_index \in [Fds -> 0 .. Len(changes)]
         /\ \A i \in 1 .. n_changes : /\ i \in 1 .. Len(changes)
                                      /\ changes[i] \in FDNotifyChange
                                      /\ changes[i].fd \in Fds
                                      /\ changes[i].events \in Events
<1>1. ChangeTypeOK
  BY TypeSplit DEF IInv
<1>2. /\ changes \in Seq(FDNotifyChange) /\ Len(changes) \in Nat
      /\ n_changes \in Nat /\ n_changes <= Len(changes)
      /\ change_index \in [Fds -> 0 .. Len(changes)]
  BY <1>1 DEF ChangeTypeOK
<1>3. \A i \in 1 .. n_changes : i \in 1 .. Len(changes) /\ changes[i] \in FDNotifyChange
  BY <1>2
<1> QED
  BY <1>1, <1>2, <1>3 DEF FDNotifyChange

\* The entry that takes a change of f.
Entry(f) == IF change_index[f] = None THEN n_changes + 1 ELSE change_index[f]

LEMMA RecordIs ==
  ASSUME IInv, LogOK, NEW f \in Fds, NEW old, NEW ev, record_change(f, old, ev)
  PROVE  /\ Entry(f) \in 1 .. n_changes + 1
         /\ Entry(f) \in 1 .. n_changes'
         /\ n_changes' = IF change_index[f] = None THEN n_changes + 1 ELSE n_changes
         /\ change_index' = [change_index EXCEPT ![f] = Entry(f)]
         /\ changes'[Entry(f)] =
              [fd |-> f, events |-> ev,
               old_events |-> IF change_index[f] = None THEN old
                              ELSE changes[Entry(f)].old_events]
         /\ \A i \in 1 .. n_changes' : i # Entry(f) => i \in 1 .. n_changes /\ changes'[i] = changes[i]
<1> DEFINE e == [fd |-> f, events |-> ev,
                 old_events |-> IF change_index[f] = None THEN old
                                ELSE changes[Entry(f)].old_events]
<1>1. /\ changes' = Put(changes, Entry(f), e)
      /\ n_changes' = IF change_index[f] = None THEN n_changes + 1 ELSE n_changes
      /\ change_index' = [change_index EXCEPT ![f] = Entry(f)]
  BY DEF record_change, Entry
<1> HIDE DEF e
<1>2. /\ n_changes \in Nat /\ n_changes <= Len(changes) /\ Len(changes) \in Nat
      /\ change_index[f] \in Nat
  BY LogTypes
<1>3. Entry(f) \in 1 .. n_changes + 1 /\ Entry(f) \in 1 .. n_changes'
  BY <1>1, <1>2 DEF Entry, LogOK
<1>4. \A i \in 1 .. n_changes' : i # Entry(f) => i \in 1 .. n_changes
  BY <1>1, <1>2, <1>3 DEF Entry
<1>5. \A i \in 1 .. n_changes' : changes'[i] = IF i = Entry(f) THEN e ELSE changes[i]
  <2> SUFFICES ASSUME NEW i \in 1 .. n_changes'
               PROVE  i \in 1 .. (IF Entry(f) > Len(changes) THEN Entry(f) ELSE Len(changes))
    BY <1>1 DEF Put
  <2> QED
    BY <1>2, <1>3, <1>4
<1>6. changes'[Entry(f)] = e /\ \A i \in 1 .. n_changes' : i # Entry(f) => changes'[i] = changes[i]
  BY <1>3, <1>5
<1> QED
  BY <1>1, <1>3, <1>4, <1>6 DEF e

LEMMA RecordLog ==
  ASSUME IInv, LogOK, OpenOK, NEW f \in Fds, NEW old, NEW ev, record_change(f, old, ev),
         open[f], UNCHANGED <<open, interest>>
  PROVE  LogOK' /\ OpenOK'
<1>1. /\ Entry(f) \in 1 .. n_changes'
      /\ n_changes' = IF change_index[f] = None THEN n_changes + 1 ELSE n_changes
      /\ change_index' = [change_index EXCEPT ![f] = Entry(f)]
      /\ changes'[Entry(f)].fd = f
      /\ \A i \in 1 .. n_changes' : i # Entry(f) => i \in 1 .. n_changes /\ changes'[i] = changes[i]
  <2>1. changes'[Entry(f)] =
              [fd |-> f, events |-> ev,
               old_events |-> IF change_index[f] = None THEN old
                              ELSE changes[Entry(f)].old_events]
    BY RecordIs
  <2>2. changes'[Entry(f)].fd = f
    BY <2>1
  <2> QED
    BY <2>2, RecordIs
<1>2. /\ change_index \in [Fds -> 0 .. Len(changes)] /\ n_changes \in Nat
      /\ \A i \in 1 .. n_changes : changes[i].fd \in Fds
  BY LogTypes
<1>3. /\ \A i \in 1 .. n_changes : change_index[changes[i].fd] = i
      /\ \A g \in Fds : change_index[g] # None =>
           change_index[g] \in 1 .. n_changes /\ changes[change_index[g]].fd = g
  BY DEF LogOK, ChangesIndexed
<1>4. ASSUME NEW i \in 1 .. n_changes', i # Entry(f)
      PROVE  changes[i].fd # f
  <2>1. i \in 1 .. n_changes /\ change_index[changes[i].fd] = i
    BY <1>1, <1>3, <1>4
  <2>2. i # None
    BY <1>2, <2>1 DEF None
  <2> QED
    BY <1>4, <2>1, <2>2 DEF Entry
<1>5. ChangesIndexed'
  <2> SUFFICES ASSUME NEW i \in 1 .. n_changes'
               PROVE  change_index'[changes'[i].fd] = i
    BY DEF ChangesIndexed
  <2>1. CASE i = Entry(f)
    BY <1>1, <1>2, <2>1
  <2>2. CASE i # Entry(f)
    BY <1>1, <1>2, <1>3, <1>4, <2>2
  <2> QED
    BY <2>1, <2>2
<1>6. ASSUME NEW g \in Fds, change_index'[g] # None
      PROVE  change_index'[g] \in 1 .. n_changes' /\ changes'[change_index'[g]].fd = g
  <2>1. CASE g = f
    BY <1>1, <1>2, <2>1
  <2>2. CASE g # f
    <3>1. change_index'[g] = change_index[g]
      BY <1>1, <1>2, <2>2
    <3>2. change_index[g] \in 1 .. n_changes /\ changes[change_index[g]].fd = g
      BY <1>3, <1>6, <3>1
    <3>3. change_index[g] \in 1 .. n_changes'
      BY <1>1, <1>2, <3>2
    <3>4. change_index[g] # Entry(f)
      <4>1. CASE change_index[f] = None
        BY <1>2, <3>2, <4>1 DEF Entry
      <4>2. CASE change_index[f] # None
        BY <1>3, <2>2, <3>2, <4>2 DEF Entry
      <4> QED
        BY <4>1, <4>2
    <3> QED
      BY <1>1, <3>1, <3>2, <3>3, <3>4
  <2> QED
    BY <2>1, <2>2
<1>7. OpenOK'
  BY <1>1 DEF OpenOK
<1> QED
  BY <1>5, <1>6, <1>7 DEF LogOK

\* A step that leaves the log alone.
LEMMA SameLog ==
  ASSUME LogOK, OpenOK, UNCHANGED <<changeVars, interest>>,
         \A f \in Fds : open[f] => open'[f], IInv
  PROVE  LogOK' /\ OpenOK'
<1>1. UNCHANGED <<changes, n_changes, change_index, interest>>
  BY DEF changeVars
<1>2. \A i \in 1 .. n_changes : changes[i].fd \in Fds
  BY LogTypes
<1> QED
  BY <1>1, <1>2 DEF LogOK, OpenOK, ChangesIndexed

\* The log is emptied, by clear_changes or by dispatch_dispatch.
LEMMA ClearLog ==
  ASSUME IInv, LogOK, n_changes' = 0,
         change_index' = [f \in Fds |->
           IF \E i \in 1 .. n_changes : changes[i].fd = f THEN None
           ELSE change_index[f]]
  PROVE  LogOK' /\ \A f \in Fds : change_index'[f] = None
<1>1. ASSUME NEW f \in Fds
      PROVE  change_index'[f] = None
  BY DEF LogOK
<1> QED
  BY <1>1 DEF LogOK, ChangesIndexed

\* Closing a descriptor whose change, if it has one, is the latest.
LEMMA CloseLog ==
  ASSUME IInv, LogOK, OpenOK, NEW f \in Fds, change_index[f] \in {None, n_changes}, CloseFd(f),
         interest' = [interest EXCEPT ![f] = {}]
  PROVE  /\ LogOK' /\ OpenOK' /\ fd_closed(f) /\ UNCHANGED <<loopVars, incarnation, changes>>
         /\ open' = [open EXCEPT ![f] = FALSE]
         /\ change_index' = [change_index EXCEPT ![f] = None]
         /\ n_changes' \in Nat /\ n_changes' <= n_changes
         /\ \A i \in 1 .. n_changes' : i \in 1 .. n_changes /\ changes[i].fd # f
<1>1. /\ n_changes \in Nat /\ change_index \in [Fds -> 0 .. Len(changes)]
      /\ \A i \in 1 .. n_changes : changes[i].fd \in Fds
  BY LogTypes
<1>2. /\ \A i \in 1 .. n_changes : change_index[changes[i].fd] = i
      /\ \A g \in Fds : change_index[g] # None =>
           change_index[g] \in 1 .. n_changes /\ changes[change_index[g]].fd = g
  BY DEF LogOK, ChangesIndexed
<1>3. ~WildRead(f)
  BY <1>1, <1>2 DEF WildRead
<1>4. fd_closed(f) /\ UNCHANGED <<loopVars, incarnation>> /\ open' = [open EXCEPT ![f] = FALSE]
  BY <1>3 DEF CloseFd
<1>5. /\ change_index' = [change_index EXCEPT ![f] = None] /\ changes' = changes
      /\ n_changes' = IF change_index[f] = None THEN n_changes ELSE n_changes - 1
  <2>1. CASE change_index[f] = None
    <3>1. UNCHANGED <<changes, n_changes, change_index>>
      BY <1>4, <2>1 DEF fd_closed, changeVars
    <3>2. change_index = [change_index EXCEPT ![f] = None]
      BY <1>1, <2>1
    <3> QED
      BY <2>1, <3>1, <3>2
  <2>2. CASE change_index[f] # None
    BY <1>4, <2>2 DEF fd_closed, deallocate_change_index
  <2> QED
    BY <2>1, <2>2
<1>6. /\ n_changes' \in Nat /\ n_changes' <= n_changes
      /\ \A i \in 1 .. n_changes' : i \in 1 .. n_changes /\ i # change_index[f]
  BY <1>1, <1>2, <1>5 DEF None
<1>7. \A i \in 1 .. n_changes' : i \in 1 .. n_changes /\ changes[i].fd # f
  BY <1>2, <1>6
<1>8. ChangesIndexed'
  BY <1>1, <1>2, <1>5, <1>7 DEF ChangesIndexed
<1>9. ASSUME NEW g \in Fds, change_index'[g] # None
      PROVE  change_index'[g] \in 1 .. n_changes' /\ changes'[change_index'[g]].fd = g
  <2>1. g # f /\ change_index'[g] = change_index[g]
    BY <1>1, <1>5, <1>9
  <2>2. change_index[g] \in 1 .. n_changes /\ changes[change_index[g]].fd = g
    BY <1>2, <1>9, <2>1
  <2>3. change_index[f] # None => change_index[g] # n_changes
    BY <1>2, <2>1, <2>2
  <2>4. change_index[g] \in 1 .. n_changes'
    BY <1>1, <1>5, <2>2, <2>3
  <2> QED
    BY <1>5, <2>1, <2>2, <2>4
<1>10. OpenOK'
  <2>1. open \in [Fds -> BOOLEAN] /\ {} \in Events
    BY TypeSplit DEF IInv, KernelTypeOK, Events
  <2>2. interest' \in [Fds -> Events]
    BY <2>1 DEF OpenOK
  <2>3. \A g \in Fds : interest'[g] # {} => g # f /\ interest[g] # {}
    BY DEF OpenOK
  <2>4. \A g \in Fds : g # f => open'[g] = open[g]
    BY <1>4, <2>1
  <2>5. \A g \in Fds : interest'[g] # {} => open'[g]
    BY <2>3, <2>4 DEF OpenOK
  <2>6. \A i \in 1 .. n_changes' : changes'[i].events # {} => open'[changes'[i].fd]
    BY <1>1, <1>5, <1>7, <2>4 DEF OpenOK
  <2> QED
    BY <2>2, <2>5, <2>6 DEF OpenOK
<1> QED
  BY <1>4, <1>5, <1>6, <1>7, <1>8, <1>9, <1>10 DEF LogOK

\* With one entry for a descriptor at most, the log says what its index says.
LEMMA PendingIsWanted ==
  ASSUME IInv, LogOK, NEW f \in Fds
  PROVE  Pending(f) = Wanted(f)
<1>1. n_changes \in Nat /\ change_index[f] \in Nat
  BY LogTypes
<1>2. CASE change_index[f] = None
  <2>1. Logged(f) = {}
    BY <1>1, <1>2 DEF Logged, LogOK, ChangesIndexed, None
  <2> QED
    BY <1>2, <2>1 DEF Pending, Wanted
<1>3. CASE change_index[f] # None
  <2>1. Logged(f) = {change_index[f]}
    BY <1>1, <1>3 DEF Logged, LogOK, ChangesIndexed
  <2>2. (CHOOSE i \in Logged(f) : \A j \in Logged(f) : j <= i) = change_index[f]
    BY <1>1, <2>1
  <2>3. Logged(f) # {}
    BY <2>1
  <2>4. Pending(f) = changes[CHOOSE i \in Logged(f) : \A j \in Logged(f) : j <= i].events
    BY <2>3, Zenon DEF Pending
  <2>5. Pending(f) = changes[change_index[f]].events
    BY <2>2, <2>4, Zenon
  <2> QED
    BY <1>3, <2>5 DEF Wanted
<1> QED
  BY <1>2, <1>3

LEMMA SynchroniseLog ==
  ASSUME IInv, LogOK, OpenOK, Synchronise
  PROVE  /\ LogOK' /\ OpenOK' /\ n_changes' = 0 /\ \A f \in Fds : change_index'[f] = None
         /\ \A f \in Fds : interest'[f] = Wanted(f)
         /\ UNCHANGED <<desiredVars, pc, open>>
<1>1. ~ \E i \in 1 .. n_changes : change_index[changes[i].fd] # i
  BY DEF LogOK, ChangesIndexed
<1>2. /\ n_changes' = 0 /\ UNCHANGED <<desiredVars, pc, open>>
      /\ change_index' = [f \in Fds |->
           IF \E i \in 1 .. n_changes : changes[i].fd = f THEN None ELSE change_index[f]]
  BY <1>1 DEF Synchronise, ClearChanges, loopVars, kernelVars
<1>3. LogOK' /\ \A f \in Fds : change_index'[f] = None
  BY <1>2, ClearLog
<1>4. \A f \in Fds : interest'[f] = Wanted(f)
  BY PendingIsWanted DEF Synchronise
<1>5. ASSUME NEW f \in Fds
      PROVE  Wanted(f) \in Events /\ (Wanted(f) # {} => open[f])
  <2>1. CASE change_index[f] = None
    BY <2>1 DEF Wanted, OpenOK
  <2>2. CASE change_index[f] # None
    <3>1. change_index[f] \in 1 .. n_changes /\ changes[change_index[f]].fd = f
      BY <2>2 DEF LogOK
    <3> QED
      BY <2>2, <3>1, LogTypes DEF Wanted, OpenOK
  <2> QED
    BY <2>1, <2>2
<1>6. interest' = [f \in Fds |-> Pending(f)]
  BY DEF Synchronise
<1>7. OpenOK'
  BY <1>2, <1>4, <1>5, <1>6 DEF OpenOK
<1> QED
  BY <1>2, <1>3, <1>4, <1>7

\* The steps of dispatch_dispatch that deliver events leave log and watches alone.
LEMMA LoopLog ==
  ASSUME Loop
  PROVE  /\ UNCHANGED <<desiredVars, kernelVars>> /\ pc # "crashed" /\ pc' # "crashed"
         /\ \/ DiscardChanges
            \/ /\ UNCHANGED changeVars
               /\ pc' \in {"notify", "callback"} => pc \in {"notify", "callback"}
BY DEF Loop, Skip, Deliver, CallbackReturns, DiscardChanges, Finish

LEMMA LogStep ==
  ASSUME CloseInOrder, IInv, LogInv, [ENext]_evars
  PROVE  LogInv'
<1> USE DEF LogInv
<1>1. ASSUME NEW f \in Fds, ProgramActs(f)
      PROVE  LogInv'
  <2>1. CASE OpenFd(f) /\ UNCHANGED interest
    <3>1. UNCHANGED <<changeVars, interest, pc>> /\ open' = [open EXCEPT ![f] = TRUE]
      BY <2>1 DEF OpenFd, loopVars
    <3>2. \A g \in Fds : open[g] => open'[g]
      BY <3>1 DEF IInv, TypeOK
    <3> QED
      BY <3>1, <3>2, SameLog
  <2>2. ASSUME NEW ev \in Interests, WatchFd(f, ev), UNCHANGED interest
        PROVE  LogInv'
    <3>1. open[f] /\ record_change(f, DesiredEvents(f), ev) /\ UNCHANGED <<open, pc>>
      BY <2>2 DEF WatchFd, kernelVars, loopVars
    <3> QED
      BY <2>2, <3>1, RecordLog
  <2>3. CASE UnwatchFd(f) /\ UNCHANGED interest
    <3>1. open[f] /\ record_change(f, DesiredEvents(f), {}) /\ UNCHANGED <<open, pc>>
      BY <2>3 DEF UnwatchFd, kernelVars, loopVars
    <3> QED
      BY <2>3, <3>1, RecordLog
  <2>4. CASE Close(f)
    <3>1. /\ change_index[f] \in {None, n_changes} /\ CloseFd(f)
          /\ interest' = [interest EXCEPT ![f] = {}]
      BY <2>4 DEF Close
    <3>2. LogOK' /\ OpenOK' /\ UNCHANGED loopVars
      BY <3>1, CloseLog
    <3> QED
      BY <3>2 DEF loopVars
  <2> QED
    BY <1>1, <2>1, <2>2, <2>3, <2>4 DEF ProgramActs
<1>2. CASE Synchronise
  BY <1>2, SynchroniseLog
<1>3. CASE WaitAndDispatch
  <2>1. UNCHANGED <<changeVars, interest, open>> /\ pc' = "notify"
    BY <1>3 DEF WaitAndDispatch, Dispatch, kernelVars
  <2> QED
    BY <2>1, SameLog
<1>4. CASE Loop /\ UNCHANGED interest
  <2>1. UNCHANGED open /\ pc' # "crashed"
    BY <1>4, LoopLog DEF kernelVars
  <2>2. CASE UNCHANGED changeVars
    BY <1>4, <2>1, <2>2, SameLog
  <2>3. CASE DiscardChanges
    <3>1. LogOK' /\ n_changes' = 0
      BY <2>3, ClearLog DEF DiscardChanges
    <3>2. OpenOK'
      BY <1>4, <2>1, <3>1 DEF OpenOK
    <3> QED
      BY <2>1, <3>1, <3>2
  <2> QED
    BY <1>4, <2>2, <2>3, LoopLog
<1>5. CASE Dead \/ UNCHANGED evars
  <2>1. UNCHANGED <<changeVars, interest, open, pc>>
    BY <1>5 DEF Dead, evars, vars, kernelVars, loopVars
  <2> QED
    BY <2>1, SameLog
<1> QED
  BY <1>1, <1>2, <1>3, <1>4, <1>5 DEF ENext

\* The invariant of Dispatch also holds of a dispatch embedded in this loop.
LEMMA EmbeddedIInv ==
  ASSUME IInv, LogInv, [ENext]_evars
  PROVE  IInv'
<1>1. ASSUME NEW f \in Fds, ProgramActs(f)
      PROVE  IInv'
  BY <1>1, OpenStep, WatchStep, UnwatchStep, CloseStep DEF ProgramActs, Close
<1>2. CASE WaitAndDispatch
  <2>1. PICK k \in 0 .. MaxNotifies :
          \E fd \in [1 .. k -> Fds], ev \in [1 .. k -> Events \ {{}}] :
            /\ \A j \in 1 .. k : interest[fd[j]] # {}
            /\ Dispatch([j \in 1 .. k |-> Notice(fd[j], ev[j])])
    BY <1>2 DEF WaitAndDispatch
  <2>2. PICK fd \in [1 .. k -> Fds], ev \in [1 .. k -> Events \ {{}}] :
          /\ \A j \in 1 .. k : interest[fd[j]] # {}
          /\ Dispatch([j \in 1 .. k |-> Notice(fd[j], ev[j])])
    BY <2>1
  <2>3. k \in Nat /\ ev \in [1 .. k -> Events]
    BY BoundsAssumption
  <2>4. \A j \in 1 .. k : open[fd[j]]
    BY <2>2 DEF LogInv, OpenOK
  <2> QED
    BY <2>2, <2>3, <2>4, DispatchStep
<1>3. CASE Synchronise
  BY <1>3, ClearStep DEF Synchronise
<1>4. CASE Loop
  BY <1>4, LoopStep
<1>5. CASE Dead \/ UNCHANGED evars
  BY <1>5, StutterStep DEF Dead, evars
<1> QED
  BY <1>1, <1>2, <1>3, <1>4, <1>5 DEF ENext

LEMMA LogInit == EInit => IInv /\ LogInv
<1> SUFFICES ASSUME EInit PROVE IInv /\ LogInv
  OBVIOUS
<1>1. IInv
  BY InitIInv DEF EInit
<1>2. /\ n_changes = 0 /\ pc = "outside" /\ \A f \in Fds : change_index[f] = None
      /\ interest = [f \in Fds |-> {}] /\ {} \in Events
  BY DEF EInit, Init, Events
<1>3. LogInv
  BY <1>2 DEF LogInv, LogOK, OpenOK, ChangesIndexed
<1> QED
  BY <1>1, <1>3

LEMMA LogAlways ==
  ASSUME CloseInOrder
  PROVE  ESpec => [](IInv /\ LogInv)
<1>1. IInv /\ LogInv /\ [ENext]_evars => (IInv /\ LogInv)'
  BY EmbeddedIInv, LogStep
<1> QED
  BY LogInit, <1>1, PTL DEF ESpec

\* Entry i of the change log is the one its descriptor's change_index names, which
\* clear_changes asserts, through any number of watches, unwatches, closes and
\* reuses of a number, as long as a descriptor is not closed while its change
\* waits in the log before another one: deallocate_change_index would then look
\* up the moved entry at the removed one's place.
THEOREM LogIndexed == CloseInOrder => (ESpec => []ChangesIndexed)
<1> SUFFICES ASSUME CloseInOrder PROVE ESpec => []ChangesIndexed
  OBVIOUS
<1>1. IInv /\ LogInv => ChangesIndexed
  BY DEF LogInv, LogOK
<1> QED
  BY <1>1, LogAlways, PTL

\* Such a program meets neither the wild read of deallocate_change_index nor the
\* failed assertion of clear_changes, and its dispatch keeps every type and
\* keeps fd_map and the arrays of watches consistent.
THEOREM ClosingInOrderIsSafe ==
  CloseInOrder => (ESpec => [](TypeOK /\ DesiredConsistent /\ pc # "crashed"))
<1> SUFFICES ASSUME CloseInOrder
             PROVE  ESpec => [](TypeOK /\ DesiredConsistent /\ pc # "crashed")
  OBVIOUS
<1>1. IInv /\ LogInv => TypeOK /\ DesiredConsistent /\ pc # "crashed"
  BY DEF IInv, LogInv
<1> QED
  BY <1>1, LogAlways, PTL
-----------------------------------------------------------------------------
(* The interest set.                                                       *)

\* The events watched for, after watch_fd.
LEMMA WatchDesired ==
  ASSUME IInv, NEW f \in Fds, NEW ev \in Interests, WatchFd(f, ev)
  PROVE  /\ DesiredEvents(f)' = ev
         /\ \A g \in Fds : g # f => DesiredEvents(g)' = DesiredEvents(g)
<1> DEFINE nd == allocate_notifies_desired_index(f)
           e  == [fd |-> f, events |-> ev]
           m  == IF nd > Len(notifies_desired) THEN nd ELSE Len(notifies_desired)
<1>1. /\ notifies_desired' = Put(notifies_desired, nd, e)
      /\ notify_desired_index' = [notify_desired_index EXCEPT ![f] = nd]
  BY DEF WatchFd
<1>2. /\ notify_desired_index \in [Fds -> Nat] /\ Len(notifies_desired) \in Nat
      /\ \A g \in Fds : notify_desired_index[g] # None =>
           /\ notify_desired_index[g] \in 1 .. Len(notifies_desired)
           /\ notifies_desired[notify_desired_index[g]].fd = g
  BY DesiredTypes DEF IInv, DesiredConsistent
<1>3. nd \in 1 .. Len(notifies_desired) + 1 /\ nd # None
  BY <1>2 DEF allocate_notifies_desired_index, None
<1>4. /\ nd \in 1 .. m /\ \A i \in 1 .. Len(notifies_desired) : i \in 1 .. m
      /\ \A i \in 1 .. m : Put(notifies_desired, nd, e)[i] = IF i = nd THEN e ELSE notifies_desired[i]
  BY <1>2, <1>3 DEF Put
<1>5. e.events = ev
  OBVIOUS
<1>6. \A g \in Fds : g # f /\ notify_desired_index[g] # None => notify_desired_index[g] # nd
  BY <1>2 DEF allocate_notifies_desired_index
<1> HIDE DEF nd, e, m
<1>7. DesiredEvents(f)' = ev
  BY <1>1, <1>2, <1>3, <1>4, <1>5 DEF DesiredEvents
<1>8. ASSUME NEW g \in Fds, g # f
      PROVE  DesiredEvents(g)' = DesiredEvents(g)
  <2>1. notify_desired_index'[g] = notify_desired_index[g]
    BY <1>1, <1>2, <1>8
  <2>2. notify_desired_index[g] # None =>
          notifies_desired'[notify_desired_index[g]] = notifies_desired[notify_desired_index[g]]
    BY <1>1, <1>2, <1>4, <1>6, <1>8
  <2> QED
    BY <2>1, <2>2 DEF DesiredEvents
<1> QED
  BY <1>7, <1>8

\* And after its entry was removed.
LEMMA DeallocateDesired ==
  ASSUME IInv, NEW f \in Fds, notify_desired_index[f] # None, deallocate_notify_desired_index(f)
  PROVE  /\ DesiredEvents(f)' = {}
         /\ \A g \in Fds : g # f => DesiredEvents(g)' = DesiredEvents(g)
<1> DEFINE nd   == notify_desired_index[f]
           last == Len(notifies_desired)
           lfd  == notifies_desired[last].fd
<1>1. /\ notify_desired_index \in [Fds -> Nat] /\ last \in Nat
      /\ \A g \in Fds : notify_desired_index[g] # None =>
           /\ notify_desired_index[g] \in 1 .. last
           /\ notifies_desired[notify_desired_index[g]].fd = g
      /\ notifies_desired \in Seq(FDNotify)
  BY DesiredTypes DEF IInv, DesiredConsistent
<1>2. nd \in 1 .. last /\ notifies_desired[nd].fd = f /\ last \in 1 .. last
  BY <1>1
<1>3. lfd \in Fds /\ notify_desired_index[lfd] = last
  BY <1>2, EntryConsistent DEF IInv
<1>4. \A j \in 1 .. last - 1 :
        notifies_desired'[j] = IF j = nd THEN notifies_desired[last] ELSE notifies_desired[j]
  BY <1>1, <1>2, MoveLastToType DEF deallocate_notify_desired_index
<1>5. notify_desired_index' =
        IF nd = last THEN [notify_desired_index EXCEPT ![f] = None]
        ELSE [[notify_desired_index EXCEPT ![f] = None] EXCEPT ![lfd] = nd]
  BY DEF deallocate_notify_desired_index
<1>6. nd # last => lfd # f
  BY <1>3
<1> HIDE DEF nd, last, lfd
<1>7. notify_desired_index'[f] = None
  BY <1>1, <1>3, <1>5, <1>6
<1>8. ASSUME NEW g \in Fds, g # f
      PROVE  DesiredEvents(g)' = DesiredEvents(g)
  <2>1. CASE notify_desired_index[g] = None
    <3>1. g # lfd
      BY <1>2, <1>3, <2>1 DEF None
    <3>2. notify_desired_index'[g] = None
      BY <1>1, <1>5, <1>8, <2>1, <3>1
    <3> QED
      BY <2>1, <3>2 DEF DesiredEvents
  <2>2. CASE notify_desired_index[g] # None /\ g # lfd
    <3>1. notify_desired_index'[g] = notify_desired_index[g]
      BY <1>1, <1>5, <1>8, <2>2
    <3>2. /\ notify_desired_index[g] \in 1 .. last
          /\ notifies_desired[notify_desired_index[g]].fd = g
      BY <1>1, <2>2
    <3>3. notify_desired_index[g] # last /\ notify_desired_index[g] # nd
      BY <1>2, <1>8, <2>2, <3>2 DEF lfd
    <3>4. notify_desired_index[g] \in 1 .. last - 1
      BY <1>1, <3>2, <3>3
    <3>5. notifies_desired'[notify_desired_index[g]] = notifies_desired[notify_desired_index[g]]
      BY <1>4, <3>3, <3>4
    <3> QED
      BY <3>1, <3>5 DEF DesiredEvents
  <2>3. CASE notify_desired_index[g] # None /\ g = lfd
    <3>1. nd # last
      BY <1>2, <1>8, <2>3 DEF lfd
    <3>2. notify_desired_index'[g] = nd /\ nd # None
      BY <1>1, <1>2, <1>3, <1>5, <2>3, <3>1 DEF None
    <3>3. nd \in 1 .. last - 1
      BY <1>1, <1>2, <3>1
    <3>4. notifies_desired'[nd] = notifies_desired[last]
      BY <1>4, <3>3
    <3> QED
      BY <1>3, <2>3, <3>2, <3>4 DEF DesiredEvents
  <2> QED
    BY <2>1, <2>2, <2>3
<1> QED
  BY <1>7, <1>8 DEF DesiredEvents

\* A change of the watch of f that is logged.
LEMMA RecordSync ==
  ASSUME IInv, LogInv, SyncInv, NEW f \in Fds, NEW ev,
         record_change(f, DesiredEvents(f), ev), pc \notin {"notify", "callback"},
         UNCHANGED <<interest, pc>>, DesiredEvents(f)' = ev,
         \A g \in Fds : g # f => DesiredEvents(g)' = DesiredEvents(g)
  PROVE  SyncInv'
<1> DEFINE old == IF change_index[f] = None THEN DesiredEvents(f)
                  ELSE changes[Entry(f)].old_events
<1>1. /\ Entry(f) \in 1 .. n_changes + 1 /\ Entry(f) \in 1 .. n_changes'
      /\ change_index' = [change_index EXCEPT ![f] = Entry(f)]
      /\ changes'[Entry(f)] = [fd |-> f, events |-> ev, old_events |-> old]
      /\ \A i \in 1 .. n_changes' : i # Entry(f) => i \in 1 .. n_changes /\ changes'[i] = changes[i]
  BY RecordIs DEF LogInv
<1>2. /\ changes'[Entry(f)].fd = f /\ changes'[Entry(f)].events = ev
      /\ changes'[Entry(f)].old_events = old
  BY <1>1
<1>3. n_changes \in Nat /\ change_index \in [Fds -> 0 .. Len(changes)]
  BY LogTypes
<1>4. old = interest[f]
  <2>1. CASE change_index[f] = None
    BY <2>1 DEF SyncInv, Wanted
  <2>2. CASE change_index[f] # None
    BY <2>2 DEF SyncInv, OldEventsExact, LogInv, LogOK, Entry
  <2> QED
    BY <2>1, <2>2
<1> HIDE DEF old
<1>5. OldEventsExact'
  BY <1>1, <1>2, <1>4 DEF OldEventsExact, SyncInv
<1>6. ASSUME NEW g \in Fds
      PROVE  Wanted(g)' = DesiredEvents(g)'
  <2>1. CASE g = f
    <3>1. change_index'[f] = Entry(f) /\ Entry(f) # None
      BY <1>1, <1>3 DEF None
    <3> QED
      BY <1>2, <2>1, <3>1 DEF Wanted
  <2>2. CASE g # f
    <3>1. change_index'[g] = change_index[g]
      BY <1>1, <1>3, <2>2
    <3>2. change_index[g] # None => changes'[change_index[g]] = changes[change_index[g]]
      <4> SUFFICES ASSUME change_index[g] # None
                   PROVE  changes'[change_index[g]] = changes[change_index[g]]
        OBVIOUS
      <4>1. change_index[g] \in 1 .. n_changes /\ changes[change_index[g]].fd = g
        BY DEF LogInv, LogOK
      <4>2. change_index[g] # Entry(f)
        BY <1>3, <2>2, <4>1 DEF Entry, LogInv, LogOK
      <4>3. n_changes' \in {n_changes, n_changes + 1}
        BY DEF record_change
      <4> QED
        BY <1>1, <1>3, <4>1, <4>2, <4>3
    <3>3. Wanted(g)' = Wanted(g)
      BY <3>1, <3>2 DEF Wanted
    <3> QED
      BY <2>2, <3>3 DEF SyncInv
  <2> QED
    BY <2>1, <2>2
<1> QED
  BY <1>5, <1>6 DEF SyncInv

LEMMA SameSync ==
  ASSUME SyncInv, UNCHANGED <<changeVars, interest, desiredVars>>,
         pc' \in {"notify", "callback"} => pc \in {"notify", "callback"} \/ n_changes = 0
  PROVE  SyncInv'
<1>1. UNCHANGED <<changes, n_changes, change_index, interest, notifies_desired, notify_desired_index>>
  BY DEF changeVars, desiredVars
<1> QED
  BY <1>1 DEF SyncInv, OldEventsExact, Wanted, DesiredEvents

LEMMA SyncStep ==
  ASSUME CloseInOrder, ~CallbacksWatch, IInv, LogInv, SyncInv, [ENext]_evars
  PROVE  SyncInv'
<1>1. ASSUME NEW f \in Fds, ProgramActs(f)
      PROVE  SyncInv'
  <2>1. CASE OpenFd(f) /\ UNCHANGED interest
    <3>1. UNCHANGED <<changeVars, interest, desiredVars, pc>>
      BY <2>1 DEF OpenFd, loopVars
    <3> QED
      BY <3>1, SameSync
  <2>2. ASSUME NEW ev \in Interests, WatchFd(f, ev), UNCHANGED interest, pc # "callback"
        PROVE  SyncInv'
    <3>1. record_change(f, DesiredEvents(f), ev) /\ UNCHANGED pc /\ pc \notin {"notify", "callback"}
      BY <2>2 DEF WatchFd, loopVars, UserActs, InCallback
    <3>2. /\ DesiredEvents(f)' = ev
          /\ \A g \in Fds : g # f => DesiredEvents(g)' = DesiredEvents(g)
      BY <2>2, WatchDesired
    <3> QED
      BY <2>2, <3>1, <3>2, RecordSync
  <2>3. CASE UnwatchFd(f) /\ UNCHANGED interest /\ pc # "callback"
    <3>1. record_change(f, DesiredEvents(f), {}) /\ UNCHANGED pc /\ pc \notin {"notify", "callback"}
      BY <2>3 DEF UnwatchFd, loopVars, UserActs, InCallback
    <3>2. /\ DesiredEvents(f)' = {}
          /\ \A g \in Fds : g # f => DesiredEvents(g)' = DesiredEvents(g)
      <4>1. CASE notify_desired_index[f] = None
        BY <2>3, <4>1 DEF UnwatchFd, desiredVars, DesiredEvents
      <4>2. CASE notify_desired_index[f] # None
        BY <2>3, <4>2, DeallocateDesired DEF UnwatchFd
      <4> QED
        BY <4>1, <4>2
    <3> QED
      BY <2>3, <3>1, <3>2, RecordSync
  <2>4. CASE Close(f)
    <3>1. /\ change_index[f] \in {None, n_changes} /\ CloseFd(f)
          /\ interest' = [interest EXCEPT ![f] = {}]
      BY <2>4 DEF Close
    <3>2. /\ fd_closed(f) /\ UNCHANGED <<loopVars, changes>>
          /\ change_index' = [change_index EXCEPT ![f] = None]
          /\ n_changes' \in Nat /\ n_changes' <= n_changes
          /\ \A i \in 1 .. n_changes' : i \in 1 .. n_changes /\ changes[i].fd # f
      BY <3>1, CloseLog DEF LogInv
    <3>3. /\ DesiredEvents(f)' = {}
          /\ \A g \in Fds : g # f => DesiredEvents(g)' = DesiredEvents(g)
      <4>1. CASE notify_desired_index[f] = None
        BY <3>2, <4>1 DEF fd_closed, desiredVars, DesiredEvents
      <4>2. CASE notify_desired_index[f] # None
        BY <3>2, <4>2, DeallocateDesired DEF fd_closed
      <4> QED
        BY <4>1, <4>2
    <3>4. /\ change_index \in [Fds -> 0 .. Len(changes)] /\ n_changes \in Nat
          /\ interest \in [Fds -> Events] /\ \A i \in 1 .. n_changes : changes[i].fd \in Fds
      BY LogTypes DEF LogInv, OpenOK
    <3>5. \A g \in Fds : Wanted(g)' = IF g = f THEN {} ELSE Wanted(g)
      BY <3>1, <3>2, <3>4 DEF Wanted
    <3>6. OldEventsExact'
      BY <3>1, <3>2, <3>4 DEF OldEventsExact, SyncInv
    <3>7. pc' \in {"notify", "callback"} => n_changes' = 0
      BY <3>2, <3>4 DEF SyncInv, loopVars
    <3> QED
      BY <3>3, <3>5, <3>6, <3>7 DEF SyncInv
  <2> QED
    BY <1>1, <2>1, <2>2, <2>3, <2>4 DEF ProgramActs
<1>2. CASE Synchronise
  <2>1. /\ n_changes' = 0 /\ \A f \in Fds : change_index'[f] = None
        /\ \A f \in Fds : interest'[f] = Wanted(f) /\ UNCHANGED desiredVars
    BY <1>2, SynchroniseLog DEF LogInv
  <2>2. \A f \in Fds : DesiredEvents(f)' = DesiredEvents(f) /\ Wanted(f)' = Wanted(f)
    BY <2>1 DEF DesiredEvents, Wanted, desiredVars
  <2> QED
    BY <2>1, <2>2 DEF SyncInv, OldEventsExact
<1>3. CASE WaitAndDispatch
  <2>1. UNCHANGED <<changeVars, interest, desiredVars>> /\ n_changes = 0
    BY <1>3 DEF WaitAndDispatch, Dispatch
  <2> QED
    BY <2>1, SameSync
<1>4. CASE Loop /\ UNCHANGED interest
  <2>1. UNCHANGED desiredVars
    BY <1>4, LoopLog
  <2>2. CASE UNCHANGED changeVars /\ (pc' \in {"notify", "callback"} => pc \in {"notify", "callback"})
    BY <1>4, <2>1, <2>2, SameSync
  <2>3. CASE DiscardChanges
    <3>1. pc = "notify" /\ n_changes' = 0 /\ pc' = "after"
      BY <2>3 DEF DiscardChanges
    <3>2. \A f \in Fds : change_index'[f] = None
      BY <2>3, ClearLog DEF DiscardChanges, LogInv
    <3>3. \A f \in Fds : change_index[f] = None
      <4>1. n_changes = 0
        BY <3>1 DEF SyncInv
      <4> QED
        BY <4>1 DEF LogInv, LogOK
    <3>4. \A f \in Fds : DesiredEvents(f)' = DesiredEvents(f) /\ Wanted(f)' = Wanted(f)
      BY <1>4, <2>1, <3>2, <3>3 DEF DesiredEvents, Wanted, desiredVars
    <3> QED
      BY <3>1, <3>4 DEF SyncInv, OldEventsExact
  <2> QED
    BY <1>4, <2>2, <2>3, LoopLog
<1>5. CASE Dead \/ UNCHANGED evars
  <2>1. UNCHANGED <<changeVars, interest, desiredVars, pc>>
    BY <1>5 DEF Dead, evars, vars, loopVars, LogInv
  <2> QED
    BY <2>1, SameSync
<1> QED
  BY <1>1, <1>2, <1>3, <1>4, <1>5 DEF ENext

LEMMA SyncAlways ==
  ASSUME CloseInOrder, ~CallbacksWatch
  PROVE  ESpec => [](IInv /\ LogInv /\ SyncInv)
<1>1. EInit => SyncInv
  <2> SUFFICES ASSUME EInit PROVE SyncInv
    OBVIOUS
  <2>1. /\ n_changes = 0 /\ pc = "outside" /\ \A f \in Fds : change_index[f] = None
        /\ \A f \in Fds : notify_desired_index[f] = None /\ interest[f] = {}
    BY DEF EInit, Init
  <2> QED
    BY <2>1 DEF SyncInv, OldEventsExact, Wanted, DesiredEvents
<1>2. IInv /\ LogInv /\ SyncInv /\ [ENext]_evars => (IInv /\ LogInv /\ SyncInv)'
  BY EmbeddedIInv, LogStep, SyncStep
<1> QED
  BY LogInit, <1>1, <1>2, PTL DEF ESpec

\* The loop's interest set with the logged changes applied is exactly what the
\* dispatch wants to be told of: no watch is lost and none lingers.  It takes a
\* program that closes in order and whose descriptor callbacks leave the watches
\* alone, because dispatch_dispatch throws the log away after the callbacks.
THEOREM LoopInSync == CloseInOrder /\ ~CallbacksWatch => (ESpec => []EmbedderInSync)
<1> SUFFICES ASSUME CloseInOrder, ~CallbacksWatch PROVE ESpec => []EmbedderInSync
  OBVIOUS
<1>1. IInv /\ LogInv /\ SyncInv => EmbedderInSync
  BY PendingIsWanted DEF EmbedderInSync, SyncInv, LogInv
<1> QED
  BY <1>1, SyncAlways, PTL

\* Under the same conditions old_events is what the kernel holds, so that epoll can
\* tell an addition from a modification.
THEOREM LoopKnowsOldEvents == CloseInOrder /\ ~CallbacksWatch => (ESpec => []OldEventsExact)
<1> SUFFICES ASSUME CloseInOrder, ~CallbacksWatch PROVE ESpec => []OldEventsExact
  OBVIOUS
<1>1. IInv /\ LogInv /\ SyncInv => OldEventsExact
  BY DEF SyncInv
<1> QED
  BY <1>1, SyncAlways, PTL

\* Embedded in such a loop as well, no callback is invoked with an event that was
\* reported for an earlier incarnation of its descriptor number.
THEOREM EmbeddedDeliveryFresh == CloseInOrder => (ESpec => NoStaleDelivery)
<1> SUFFICES ASSUME CloseInOrder PROVE ESpec => NoStaleDelivery
  OBVIOUS
<1>1. ASSUME IInv, [ENext]_evars
      PROVE  [(pc = "notify" /\ pc' = "callback") =>
                /\ call'.callback.fd = call'.of.fd
                /\ call'.callback.incarnation = call'.of.incarnation
                /\ open[call'.of.fd]
                /\ call'.of.incarnation = incarnation[call'.of.fd]]_vars
  <2>1. SUFFICES ASSUME ENext, pc = "notify", pc' = "callback"
                 PROVE  /\ call'.callback.fd = call'.of.fd
                        /\ call'.callback.incarnation = call'.of.incarnation
                        /\ open[call'.of.fd]
                        /\ call'.of.incarnation = incarnation[call'.of.fd]
    BY <1>1 DEF evars
  <2>2. Deliver
    <3>1. ~Synchronise /\ ~WaitAndDispatch /\ ~Dead /\ \A f \in Fds : ~ProgramActs(f)
      BY <2>1 DEF ProgramActs, OpenFd, WatchFd, UnwatchFd, Close, CloseFd, UserActs, InCallback,
         Synchronise, ClearChanges, WaitAndDispatch, Dispatch, Dead
    <3>2. ~Skip /\ ~CallbackReturns /\ ~DiscardChanges /\ ~Finish
      BY <2>1 DEF Skip, CallbackReturns, DiscardChanges, Finish
    <3> QED
      BY <2>1, <3>1, <3>2 DEF ENext, Loop
  <2> QED
    BY <1>1, <2>2, DeliveryFacts
<1> QED
  BY <1>1, LogAlways, PTL DEF ESpec, NoStaleDelivery
=============================================================================
