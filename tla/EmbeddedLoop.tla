---------------------------- MODULE EmbeddedLoop ----------------------------
(***************************************************************************)
(* A dispatch embedded in a main loop of its own, as the second half of    *)
(* protobuf-c-dispatch.h offers it: the loop keeps a kernel interest set   *)
(* (epoll, kqueue), brings it up to date from dispatch->changes, calls     *)
(* clear_changes, waits, and passes what was reported to dispatch_dispatch.*)
(* The loop and the kernel are external; the dispatch is Dispatch.         *)
(*                                                                         *)
(* Two constants say how the program behaves, so that the cases in which   *)
(* the change log serves its purpose can be told from those in which not.  *)
(***************************************************************************)
EXTENDS Dispatch

CONSTANTS CloseInOrder,    \* a descriptor with a logged change that is not the
                           \* latest is not closed before the loop reads the log
          CallbacksWatch   \* descriptor callbacks watch and unwatch descriptors

ASSUME ProgramAssumption == CloseInOrder \in BOOLEAN /\ CallbacksWatch \in BOOLEAN

VARIABLE interest          \* the kernel's interest set: events per descriptor

evars == <<vars, interest>>

EInit == Init /\ interest = [f \in Fds |-> {}]

\* The entries of the log that concern f.
Logged(f) == {i \in 1 .. n_changes : changes[i].fd = f}

\* The interest in f once the log has been applied, last entry last.
Pending(f) ==
  IF Logged(f) = {} THEN interest[f]
  ELSE changes[CHOOSE i \in Logged(f) : \A j \in Logged(f) : j <= i].events

Synchronise ==
  /\ n_changes > 0
  /\ ClearChanges
  /\ interest' = [f \in Fds |-> Pending(f)]

\* Wait with an up-to-date interest set; a hangup is reported as readable.
WaitAndDispatch ==
  /\ n_changes = 0
  /\ \E k \in 0 .. MaxNotifies :
       \E fd \in [1 .. k -> Fds], ev \in [1 .. k -> Events \ {{}}] :
         /\ \A j \in 1 .. k : /\ interest[fd[j]] # {}
                              /\ ev[j] \subseteq interest[fd[j]] \cup {READABLE}
         /\ Dispatch([j \in 1 .. k |-> Notice(fd[j], ev[j])])
  /\ UNCHANGED interest

\* The kernel forgets a descriptor that is closed.
Close(f) ==
  /\ CloseInOrder => change_index[f] \in {None, n_changes}
  /\ CloseFd(f)
  /\ interest' = [interest EXCEPT ![f] = {}]

ProgramActs(f) ==
  \/ OpenFd(f) /\ UNCHANGED interest
  \/ /\ CallbacksWatch \/ pc # "callback"
     /\ (\E ev \in Interests : WatchFd(f, ev)) \/ UnwatchFd(f)
     /\ UNCHANGED interest
  \/ Close(f)

ENext ==
  \/ \E f \in Fds : ProgramActs(f)
  \/ Synchronise
  \/ WaitAndDispatch
  \/ (Loop \/ Dead) /\ UNCHANGED interest

ESpec == EInit /\ [][ENext]_evars
-----------------------------------------------------------------------------
\* "changes to the events you are interested in": the loop's interest set with
\* the logged changes applied is exactly the set of events the dispatch wants,
\* so no watch is lost and none lingers.
EmbedderInSync ==
  pc # "crashed" => \A f \in Fds : Pending(f) = DesiredEvents(f)

\* old_events is what the kernel holds for the descriptor (epoll needs it to
\* tell an addition from a modification), through any number of watches,
\* unwatches, closes and reuses of the number before the loop reads the log.
OldEventsExact ==
  \A i \in 1 .. n_changes : changes[i].old_events = interest[changes[i].fd]
=============================================================================
