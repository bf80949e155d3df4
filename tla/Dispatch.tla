------------------------------ MODULE Dispatch ------------------------------
(***************************************************************************)
(* The file-descriptor half of the event loop protobuf-c-dispatch.c: which *)
(* descriptors are watched (notifies_desired and its parallel callbacks),  *)
(* the log of changes an embedding main loop reads (changes), the fd_map   *)
(* that indexes both, and one dispatch pass over the notified descriptors. *)
(*                                                                         *)
(* A C index i is i + 1 here, so that the code's -1 is None = 0.           *)
(* Descriptor numbers are reused: "incarnation" counts how often a number  *)
(* has been opened.  It is history of the kernel, not state of the code.   *)
(***************************************************************************)
EXTENDS Naturals, Sequences

CONSTANTS Fds,              \* descriptor numbers
          Interests,        \* the event sets the program watches for
          MaxIncarnation,   \* bound: how often one number is opened
          MaxOps,           \* bound: operations made by one callback
          MaxNotifies       \* bound: notifications an embedder passes at once

ASSUME BoundsAssumption ==
  MaxIncarnation \in Nat /\ MaxOps \in Nat /\ MaxNotifies \in Nat

READABLE == "READABLE"
WRITABLE == "WRITABLE"
Events   == SUBSET {READABLE, WRITABLE}
None     == 0

\* watch_fd asserts that a callback comes with events.
ASSUME InterestsAssumption == Interests \subseteq Events \ {{}}

VARIABLES
  notifies_desired,             \* what is watched: sequence of [fd, events]
  callbacks,                    \* parallel: who registered it
  changes,                      \* the array, entries past n_changes included
  n_changes,
  notify_desired_index,         \* the three fields of FDMap
  change_index,
  closed_since_notify_started,
  pc,                           \* where the dispatching thread is
  notifies, next,               \* arguments and cursor of dispatch_dispatch
  call,                         \* the callback invocation in progress
  ops,                          \* operations it has made so far
  open, incarnation             \* the kernel's descriptor table

desiredVars == <<notifies_desired, callbacks, notify_desired_index>>
changeVars  == <<changes, n_changes, change_index>>
loopVars    == <<pc, notifies, next, call>>
kernelVars  == <<open, incarnation>>
vars == <<desiredVars, changeVars, closed_since_notify_started, loopVars, ops,
          kernelVars>>

FDNotify       == [fd : Fds, events : Events]
FDNotifyChange == [fd : Fds, old_events : Events, events : Events]
\* A callback pointer with its data: the incarnation it was registered for.
Callback       == [fd : Fds, incarnation : Nat]
\* A notification, with the incarnation the kernel reported it for.
Notification   == [fd : Fds, events : Events, incarnation : Nat]
NoCall         == <<>>
Invocation     == [callback : Callback, events : Events, of : Notification]

\* is_dispatching: between the entry and the exit of dispatch_dispatch.
PcStates == {"outside", "notify", "callback", "after", "crashed"}

TypeOK ==
  /\ notifies_desired \in Seq(FDNotify)
  /\ callbacks \in Seq(Callback)
  /\ changes \in Seq(FDNotifyChange)
  /\ n_changes \in 0 .. Len(changes)
  /\ notify_desired_index \in [Fds -> Nat]
  /\ change_index \in [Fds -> 0 .. Len(changes)]
  /\ closed_since_notify_started \in [Fds -> BOOLEAN]
  /\ pc \in PcStates
  /\ notifies \in Seq(Notification)
  /\ next \in Nat \ {0}
  /\ call \in Invocation \cup {NoCall}
  /\ ops \in 0 .. MaxOps
  /\ open \in [Fds -> BOOLEAN]
  /\ incarnation \in [Fds -> 0 .. MaxIncarnation]

-----------------------------------------------------------------------------
\* s[i] = e in C, where i is at most one past the end of the part in use.
Put(s, i, e) ==
  [j \in 1 .. (IF i > Len(s) THEN i ELSE Len(s)) |-> IF j = i THEN e ELSE s[j]]

\* Drop element i of a C array by moving the last one over it.
MoveLastTo(s, i) == [j \in 1 .. Len(s) - 1 |-> IF j = i THEN s[Len(s)] ELSE s[j]]

Init ==
  /\ notifies_desired = <<>> /\ callbacks = <<>>
  /\ changes = <<>> /\ n_changes = 0
  /\ notify_desired_index = [f \in Fds |-> None]
  /\ change_index = [f \in Fds |-> None]
  /\ closed_since_notify_started = [f \in Fds |-> TRUE]  \* memset 255: nonzero
  /\ pc = "outside" /\ notifies = <<>> /\ next = 1 /\ call = NoCall /\ ops = 0
  /\ open = [f \in Fds |-> FALSE]
  /\ incarnation = [f \in Fds |-> 0]

-----------------------------------------------------------------------------
(* Operations of the program, made between two passes or by a callback.    *)

InCallback == pc \in {"callback", "after"}

UserActs ==
  /\ pc = "outside" \/ (InCallback /\ ops < MaxOps)
  /\ ops' = IF InCallback THEN ops + 1 ELSE ops

\* socket(), accept(), pipe(): a number that is not in use.
OpenFd(f) ==
  /\ UserActs
  /\ ~open[f] /\ incarnation[f] < MaxIncarnation
  /\ open' = [open EXCEPT ![f] = TRUE]
  /\ incarnation' = [incarnation EXCEPT ![f] = @ + 1]
  /\ UNCHANGED <<desiredVars, changeVars, closed_since_notify_started, loopVars>>

\* The events watched for f, none when it has no entry.
DesiredEvents(f) ==
  IF notify_desired_index[f] = None THEN {}
  ELSE notifies_desired[notify_desired_index[f]].events

\* Variants of record_change with a mistake: a second entry for a descriptor
\* that has one, and old_events overwritten by every change.
record_change_always_new(f, old_events, events) ==
  /\ changes' = Put(changes, n_changes + 1,
                    [fd |-> f, old_events |-> old_events, events |-> events])
  /\ change_index' = [change_index EXCEPT ![f] = n_changes + 1]
  /\ n_changes' = n_changes + 1
record_change_new_old(f, old_events, events) ==
  LET fresh == change_index[f] = None
      k     == IF fresh THEN n_changes + 1 ELSE change_index[f]
  IN  /\ changes' = Put(changes, k,
                    [fd |-> f, old_events |-> old_events, events |-> events])
      /\ change_index' = [change_index EXCEPT ![f] = k]
      /\ n_changes' = IF fresh THEN n_changes + 1 ELSE n_changes

\* The tail of both branches of watch_fd: log the new interest in f.
record_change(f, old_events, events) ==
  LET fresh == change_index[f] = None
      k     == IF fresh THEN n_changes + 1 ELSE change_index[f]
      old   == IF fresh THEN old_events ELSE changes[k].old_events
  IN  /\ changes' = Put(changes, k,
                        [fd |-> f, old_events |-> old, events |-> events])
      /\ change_index' = [change_index EXCEPT ![f] = k]
      /\ n_changes' = IF fresh THEN n_changes + 1 ELSE n_changes

\* The slot of f's entry: its own, or a new one at the end.
allocate_notifies_desired_index(f) ==
  IF notify_desired_index[f] = None
  THEN Len(notifies_desired) + 1
  ELSE notify_desired_index[f]

\* watch_fd with a callback.
WatchFd(f, events) ==
  LET nd_ind == allocate_notifies_desired_index(f)
  IN  /\ UserActs
      /\ open[f]
      /\ notifies_desired' = Put(notifies_desired, nd_ind,
                                 [fd |-> f, events |-> events])
      /\ callbacks' = Put(callbacks, nd_ind,
                          [fd |-> f, incarnation |-> incarnation[f]])
      /\ notify_desired_index' = [notify_desired_index EXCEPT ![f] = nd_ind]
      /\ record_change(f, DesiredEvents(f), events)
      /\ UNCHANGED <<closed_since_notify_started, loopVars, kernelVars>>

\* Mistake: the moved entry is looked up at the removed one's place.
deallocate_notify_desired_index_wrong_fd(f) ==
  LET nd_ind == notify_desired_index[f]
  IN  /\ notifies_desired' = MoveLastTo(notifies_desired, nd_ind)
      /\ callbacks' = MoveLastTo(callbacks, nd_ind)
      /\ notify_desired_index' =
           IF nd_ind = Len(notifies_desired)
           THEN [notify_desired_index EXCEPT ![f] = None]
           ELSE [notify_desired_index EXCEPT ![notifies_desired[nd_ind].fd] = nd_ind]

deallocate_notify_desired_index(f) ==
  LET nd_ind  == notify_desired_index[f]
      from    == Len(notifies_desired)
      from_fd == notifies_desired[from].fd
      cleared == [notify_desired_index EXCEPT ![f] = None]
  IN  /\ notifies_desired' = MoveLastTo(notifies_desired, nd_ind)
      /\ callbacks' = MoveLastTo(callbacks, nd_ind)
      /\ notify_desired_index' =
           IF nd_ind = from THEN cleared
           ELSE [cleared EXCEPT ![from_fd] = nd_ind]

\* watch_fd with callback NULL and events 0.
UnwatchFd(f) ==
  /\ UserActs
  /\ open[f]
  /\ IF notify_desired_index[f] = None
     THEN UNCHANGED desiredVars
     ELSE deallocate_notify_desired_index(f)
  /\ record_change(f, DesiredEvents(f), {})
  /\ UNCHANGED <<closed_since_notify_started, loopVars, kernelVars>>

\* from_fd is read at the removed entry, not at the moved one.
deallocate_change_index(f) ==
  LET ch_ind  == change_index[f]
      from    == n_changes
      from_fd == changes[ch_ind].fd
      cleared == [change_index EXCEPT ![f] = None]
  IN  /\ n_changes' = n_changes - 1
      /\ IF ch_ind = from
         THEN /\ change_index' = cleared
              /\ UNCHANGED changes
         ELSE /\ change_index' = [cleared EXCEPT ![from_fd] = ch_ind]
              /\ changes' = [changes EXCEPT ![ch_ind] = changes[from]]

\* With no change left, from is UINT_MAX and changes[from] is a wild read.
WildRead(f) == change_index[f] # None /\ n_changes = 0

Crash ==
  /\ pc' = "crashed"
  /\ UNCHANGED <<desiredVars, changeVars, closed_since_notify_started, notifies,
                 next, call, kernelVars>>

\* Mistakes: no test for a logged change; the logged change is kept.
fd_closed_unconditional(f) ==
  /\ closed_since_notify_started' =
       [closed_since_notify_started EXCEPT ![f] = TRUE]
  /\ deallocate_change_index(f)
  /\ IF notify_desired_index[f] = None THEN UNCHANGED desiredVars
     ELSE deallocate_notify_desired_index(f)
fd_closed_keeps_change(f) ==
  /\ closed_since_notify_started' =
       [closed_since_notify_started EXCEPT ![f] = TRUE]
  /\ UNCHANGED changeVars
  /\ IF notify_desired_index[f] = None THEN UNCHANGED desiredVars
     ELSE deallocate_notify_desired_index(f)

fd_closed(f) ==
  /\ closed_since_notify_started' =
       [closed_since_notify_started EXCEPT ![f] = TRUE]
  /\ IF change_index[f] = None THEN UNCHANGED changeVars
     ELSE deallocate_change_index(f)
  /\ IF notify_desired_index[f] = None THEN UNCHANGED desiredVars
     ELSE deallocate_notify_desired_index(f)

\* close_fd; also fd_closed by a program that closes the descriptor itself.
\* The number may be closed already: the RPC client closes a socket twice when
\* connecting fails.
CloseFd(f) ==
  /\ UserActs
  /\ incarnation[f] > 0
  /\ IF WildRead(f) THEN Crash
     ELSE /\ fd_closed(f)
          /\ open' = [open EXCEPT ![f] = FALSE]
          /\ UNCHANGED <<loopVars, incarnation>>

\* clear_changes, with its assertion.
ClearChanges ==
  /\ pc = "outside"
  /\ IF \E i \in 1 .. n_changes : change_index[changes[i].fd] # i
     THEN /\ Crash
          /\ UNCHANGED ops
     ELSE /\ n_changes' = 0
          /\ change_index' = [f \in Fds |->
               IF \E i \in 1 .. n_changes : changes[i].fd = f THEN None
               ELSE change_index[f]]
          /\ UNCHANGED <<changes, desiredVars, closed_since_notify_started,
                         loopVars, ops, kernelVars>>
-----------------------------------------------------------------------------
(* One pass of dispatch_dispatch over the notifications ns.                *)

Dispatch(ns) ==
  /\ pc = "outside"
  /\ pc' = "notify"
  /\ notifies' = ns
  /\ next' = 1
  /\ closed_since_notify_started' = [f \in Fds |->
       IF \E j \in DOMAIN ns : ns[j].fd = f THEN FALSE
       ELSE closed_since_notify_started[f]]
  /\ UNCHANGED <<desiredVars, changeVars, call, ops, kernelVars>>

Notice(f, events) == [fd |-> f, events |-> events, incarnation |-> incarnation[f]]

\* An embedder's main loop passes what its own poll reported: any open
\* descriptors, one of them several times if events are reported one by one.
EmbeddedDispatch ==
  \E k \in 0 .. MaxNotifies :
    \E fd \in [1 .. k -> Fds], ev \in [1 .. k -> Interests] :
      /\ \A j \in 1 .. k : open[fd[j]]
      /\ Dispatch([j \in 1 .. k |-> Notice(fd[j], ev[j])])

events_to_pollfd_events(ev) ==
  (IF READABLE \in ev THEN {"POLLIN"} ELSE {})
    \cup (IF WRITABLE \in ev THEN {"POLLOUT"} ELSE {})

pollfd_events_to_events(ev) ==
  (IF ev \cap {"POLLIN", "POLLHUP"} # {} THEN {READABLE} ELSE {})
    \cup (IF "POLLOUT" \in ev THEN {WRITABLE} ELSE {})

\* What poll() may report for an entry, as the events handed to dispatch.
\* POLLHUP and POLLERR need not be asked for; an entry left without events is
\* dropped.
Reported(i) ==
  { pollfd_events_to_events(ev) :
      ev \in SUBSET (events_to_pollfd_events(notifies_desired[i].events)
                       \cup {"POLLHUP", "POLLERR"}) } \ {{}}

\* dispatch_run: the reported entries, in the order of notifies_desired.
Run ==
  \E k \in 0 .. Len(notifies_desired) :
    \E p \in [1 .. k -> 1 .. Len(notifies_desired)], ev \in [1 .. k -> Events] :
      /\ \A a, b \in 1 .. k : a < b => p[a] < p[b]
      /\ \A a \in 1 .. k : ev[a] \in Reported(p[a])
      /\ Dispatch([a \in 1 .. k |-> Notice(notifies_desired[p[a]].fd, ev[a])])

\* Mistake: closed_since_notify_started is not looked at.
DeliverableUnguarded(n) == DesiredEvents(n.fd) \cap n.events

\* The events notification n delivers now: none once its descriptor was closed
\* during this pass, or is not watched any more.
Deliverable(n) ==
  IF closed_since_notify_started[n.fd] THEN {}
  ELSE DesiredEvents(n.fd) \cap n.events

Skip ==
  /\ pc = "notify" /\ next <= Len(notifies)
  /\ Deliverable(notifies[next]) = {}
  /\ next' = next + 1
  /\ UNCHANGED <<desiredVars, changeVars, closed_since_notify_started, pc,
                 notifies, call, ops, kernelVars>>

Deliver ==
  /\ pc = "notify" /\ next <= Len(notifies)
  /\ Deliverable(notifies[next]) # {}
  /\ pc' = "callback"
  /\ call' = [callback |-> callbacks[notify_desired_index[notifies[next].fd]],
              events |-> Deliverable(notifies[next]),
              of |-> notifies[next]]
  /\ ops' = 0
  /\ UNCHANGED <<desiredVars, changeVars, closed_since_notify_started, notifies,
                 next, kernelVars>>

CallbackReturns ==
  /\ pc = "callback"
  /\ pc' = "notify"
  /\ next' = next + 1
  /\ call' = NoCall
  /\ ops' = 0
  /\ UNCHANGED <<desiredVars, changeVars, closed_since_notify_started, notifies,
                 kernelVars>>

\* All notifications are handled: forget the changes, then run the idle and the
\* timer functions, which may operate on descriptors too (pc = "after").
DiscardChanges ==
  /\ pc = "notify" /\ next > Len(notifies)
  /\ pc' = "after"
  /\ n_changes' = 0
  /\ change_index' = [f \in Fds |->
       IF \E i \in 1 .. n_changes : changes[i].fd = f THEN None
       ELSE change_index[f]]
  /\ ops' = 0
  /\ UNCHANGED <<changes, desiredVars, closed_since_notify_started, notifies,
                 next, call, kernelVars>>

Finish ==
  /\ pc = "after"
  /\ pc' = "outside"
  /\ notifies' = <<>>
  /\ next' = 1
  /\ ops' = 0
  /\ UNCHANGED <<desiredVars, changeVars, closed_since_notify_started, call,
                 kernelVars>>

\* The process has died of a wild read or of a failed assertion.
Dead == pc = "crashed" /\ UNCHANGED vars

User ==
  \E f \in Fds :
    \/ OpenFd(f)
    \/ \E ev \in Interests : WatchFd(f, ev)
    \/ UnwatchFd(f)
    \/ CloseFd(f)

Loop == Skip \/ Deliver \/ CallbackReturns \/ DiscardChanges \/ Finish

Next == User \/ ClearChanges \/ EmbeddedDispatch \/ Run \/ Loop \/ Dead

Spec == Init /\ [][Next]_vars
-----------------------------------------------------------------------------
\* The fd_map and the two parallel arrays describe the same set of watches: an
\* index leads to the descriptor's own entry, every entry is the one its
\* descriptor's index leads to, the callback beside it was registered for the
\* descriptor's present incarnation, and only open descriptors are watched.
\* deallocate_notify_desired_index moves the last entry and must fix all of it.
DesiredConsistent ==
  /\ Len(callbacks) = Len(notifies_desired)
  /\ \A f \in Fds : notify_desired_index[f] # None =>
       /\ notify_desired_index[f] \in 1 .. Len(notifies_desired)
       /\ notifies_desired[notify_desired_index[f]].fd = f
  /\ \A i \in 1 .. Len(notifies_desired) :
       LET f == notifies_desired[i].fd
       IN  /\ notify_desired_index[f] = i
           /\ notifies_desired[i].events # {}
           /\ callbacks[i] = [fd |-> f, incarnation |-> incarnation[f]]
           /\ open[f]

\* A callback is only ever invoked with an event of the descriptor it was
\* registered for: a number that an earlier callback of the same pass closed,
\* and perhaps opened and watched again, does not get the old descriptor's
\* event.  This is what closed_since_notify_started is for.
NoStaleDelivery ==
  [][(pc = "notify" /\ pc' = "callback") =>
       /\ call'.callback.fd = call'.of.fd
       /\ call'.callback.incarnation = call'.of.incarnation
       /\ open[call'.of.fd]
       /\ call'.of.incarnation = incarnation[call'.of.fd]]_vars

\* The assertion of clear_changes: entry i of the log is the one its
\* descriptor's change_index names.
ChangesIndexed ==
  \A i \in 1 .. n_changes : change_index[changes[i].fd] = i
=============================================================================
