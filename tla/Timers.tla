-------------------------------- MODULE Timers ------------------------------
(***************************************************************************)
(* The timers and idle functions of protobuf-c-dispatch.c, and the part of *)
(* dispatch_run and dispatch_dispatch that serves them.                    *)
(*                                                                         *)
(* A moment is a number of microseconds, in a second of USec of them.      *)
(* Timers and idle functions are known by their addresses.  A timer that   *)
(* is removed is neither freed nor recycled; nothing refers to it, so its  *)
(* address stands for a new one afterwards.                                *)
(*                                                                         *)
(* The program runs outside of a pass, in descriptor callbacks at the      *)
(* beginning of one, and in idle and timer functions.  It uses no handle   *)
(* of a timer or idle function that has run.  Descriptors are in Dispatch. *)
(***************************************************************************)
EXTENDS Integers, Sequences, SequencesExt, FiniteSets, RbTree

CONSTANTS MaxTimers, MaxIdles,   \* bounds: addresses
          MSec, USecPerMSec,     \* milliseconds in a second, microseconds in one
          INT_MAX,               \* the largest int
          Timeouts,              \* the moments timers are set for
          Delays,                \* in milliseconds, for add_timer_millis
          MaxTime,               \* bound: the last moment
          Instants,              \* bound: when poll is called and returns
          MaxOps                 \* bound: what the program does in one pass

USec == MSec * USecPerMSec
MaxWaitSecs == INT_MAX \div MSec
Moments == 0 .. MaxTime

ASSUME TimerAssumption ==
  /\ MaxTimers \in Nat /\ MaxIdles \in Nat /\ MaxTime \in Nat /\ MaxOps \in Nat
  /\ MSec \in Nat \ {0} /\ USecPerMSec \in Nat \ {0}
  /\ INT_MAX \in Nat /\ MSec <= INT_MAX /\ MaxTime \div USec <= INT_MAX
  /\ {0, MaxTime} \subseteq Instants /\ Instants \subseteq Moments
  /\ Timeouts \subseteq Moments /\ Delays \subseteq Nat
  /\ \A t \in Timeouts : t + USecPerMSec - 1 \in Moments

VARIABLES
  timer_tree, timeout, recycled_timeouts,
  idles, recycled_idles, has_idle,
  has_timeout, published,   \* the public members; published is the timeout
  initialised,              \* ghost: the public members have been written
  last_dispatch,            \* when the last pass began
  pc, running,              \* where the pass is; the timer or idle in its function
  woken,                    \* ghost: poll waited as long as it was told to
  ops,
  armed                     \* ghost: timers added, not fired, not removed

timerVars   == <<timer_tree, timeout, recycled_timeouts, armed>>
idleVars    == <<idles, recycled_idles, has_idle>>
publicVars  == <<has_timeout, published, initialised>>
passVars    == <<last_dispatch, pc, running, woken>>
vars == <<timerVars, idleVars, publicVars, passVars, ops>>

Nodes == 1 .. MaxTimers
Idles == 1 .. MaxIdles

\* TIMERS_COMPARE: timers for the same moment go by their addresses.
Earlier(when, a, b) == when[a] < when[b] \/ (when[a] = when[b] /\ a < b)

Places == {"outside", "fds", "idles", "idle", "timers", "timer"}

TypeOK ==
  /\ timer_tree.top \in {0} \cup Nodes
  /\ timeout \in [Nodes -> Moments]
  /\ recycled_timeouts \in Seq(Nodes)
  /\ idles \in Seq(Idles) /\ recycled_idles \in Seq(Idles)
  /\ has_idle \in BOOLEAN /\ has_timeout \in BOOLEAN /\ initialised \in BOOLEAN
  /\ published \in Moments /\ last_dispatch \in Moments /\ armed \subseteq Nodes
  /\ pc \in Places
  /\ running \in 0 .. MaxTimers + MaxIdles
  /\ woken \in BOOLEAN /\ ops \in 0 .. MaxOps

\* dispatch_new, which leaves has_timeout and the timeout as it finds them.
Init ==
  /\ timer_tree = EmptyTree(Nodes) /\ timeout = [n \in Nodes |-> 0]
  /\ recycled_timeouts = <<>> /\ armed = {}
  /\ idles = <<>> /\ recycled_idles = <<>> /\ has_idle = FALSE
  /\ has_timeout \in BOOLEAN /\ published \in Moments /\ initialised = FALSE
  /\ last_dispatch = 0 /\ pc = "outside" /\ running = 0 /\ woken = FALSE
  /\ ops = 0

\* The program is in control.
InProgram == pc \in {"outside", "fds", "idle", "timer"}
Operate ==
  /\ InProgram
  /\ IF pc = "outside" THEN UNCHANGED ops ELSE ops < MaxOps /\ ops' = ops + 1
  /\ UNCHANGED passVars

\* Addresses that are in use: in a list or tree, or in a function that runs.
TimersInUse ==
  armed \cup ToSet(recycled_timeouts) \cup (IF pc = "timer" THEN {running} ELSE {})
IdlesInUse ==
  ToSet(idles) \cup ToSet(recycled_idles) \cup (IF pc = "idle" THEN {running} ELSE {})

Least(S) == CHOOSE a \in S : \A b \in S : a <= b
-----------------------------------------------------------------------------
(* Timers.                                                                 *)

Publish(at) == has_timeout' = TRUE /\ published' = at /\ initialised' = TRUE

\* "is this the first element in the tree": no node on the way up from rv is a
\* right child.
OnLeftEdge(t, rv) ==
  \A n \in PathUp(t, rv) : t.parent[n] # 0 => t.right[t.parent[n]] # n

\* The recycled structure, or a new one.
CanAdd == recycled_timeouts # <<>> \/ Nodes \ TimersInUse # {}
NextTimer ==
  IF recycled_timeouts # <<>> THEN Head(recycled_timeouts)
  ELSE Least(Nodes \ TimersInUse)

add_timer(at) ==
  LET rv   == NextTimer
      when == [timeout EXCEPT ![rv] = at]
      tree == TreeInsert(timer_tree, rv, {n \in armed : Earlier(when, rv, n)})
  IN  /\ timeout' = when
      /\ timer_tree' = tree
      /\ recycled_timeouts' =
           IF recycled_timeouts = <<>> THEN <<>> ELSE Tail(recycled_timeouts)
      /\ armed' = armed \cup {rv}
      /\ IF OnLeftEdge(tree, rv) THEN Publish(at) ELSE UNCHANGED publicVars

AddTimer(at) ==
  /\ Operate /\ CanAdd
  /\ add_timer(at)
  /\ UNCHANGED idleVars

\* The moment so many milliseconds after the last pass began.
millis_later(millis) ==
  LET tusec == (last_dispatch % USec) + USecPerMSec * (millis % MSec)
      tsec  == (last_dispatch \div USec) + (millis \div MSec)
  IN  IF tusec >= USec THEN (tsec + 1) * USec + tusec - USec ELSE tsec * USec + tusec

AddTimerMillis(millis) ==
  /\ Operate /\ CanAdd
  /\ millis_later(millis) \in Timeouts
  /\ add_timer(millis_later(millis))
  /\ UNCHANGED idleVars

\* Out of the tree.  The fields of a timer that is not in the tree are not read
\* again and are given their first values.
unlink_timer(n) ==
  /\ timer_tree' = Set(TreeRemove(timer_tree, n), "red", n, FALSE)
  /\ timeout' = [timeout EXCEPT ![n] = 0]
  /\ armed' = armed \ {n}

\* Mistake: the first timer to go takes the public timeout with it.
remove_publishes_nothing(n) ==
  IF published = timeout[n]
  THEN has_timeout' = FALSE /\ UNCHANGED <<published, initialised>>
  ELSE UNCHANGED publicVars

\* What is published once n is gone: may_be_first goes by the moment only.
remove_publishes(n) ==
  LET min == TreeFirst(timer_tree')
  IN  IF published # timeout[n] THEN UNCHANGED publicVars
      ELSE IF timer_tree'.top = 0
      THEN has_timeout' = FALSE /\ UNCHANGED <<published, initialised>>
      ELSE published' = timeout'[min] /\ UNCHANGED <<has_timeout, initialised>>

\* Mistake: a timer that is removed in its own function is recycled at once.
RemoveTimer_running(n) ==
  /\ Operate
  /\ IF pc = "timer" /\ n = running
     THEN /\ recycled_timeouts' = <<n>> \o recycled_timeouts
          /\ UNCHANGED <<timer_tree, timeout, armed, publicVars>>
     ELSE /\ n \in armed
          /\ unlink_timer(n)
          /\ remove_publishes(n)
          /\ UNCHANGED recycled_timeouts
  /\ UNCHANGED idleVars

\* A timer whose function runs, in which case func is NULL, is left alone.
RemoveTimer(n) ==
  /\ Operate
  /\ IF pc = "timer" /\ n = running
     THEN UNCHANGED <<timerVars, publicVars>>
     ELSE /\ n \in armed
          /\ unlink_timer(n)
          /\ remove_publishes(n)
          /\ UNCHANGED recycled_timeouts
  /\ UNCHANGED idleVars
-----------------------------------------------------------------------------
(* Idle functions.                                                         *)

AddIdle ==
  /\ Operate
  /\ recycled_idles # <<>> \/ Idles \ IdlesInUse # {}
  /\ LET rv == IF recycled_idles # <<>> THEN Head(recycled_idles)
               ELSE Least(Idles \ IdlesInUse)
     IN  idles' = Append(idles, rv)
  /\ recycled_idles' = IF recycled_idles = <<>> THEN <<>> ELSE Tail(recycled_idles)
  /\ has_idle' = TRUE
  /\ UNCHANGED <<timerVars, publicVars>>

\* GSK_LIST_REMOVE.
unlinked(list, i) == RemoveAt(list, CHOOSE k \in DOMAIN list : list[k] = i)

\* remove_idle leaves has_idle alone: the next poll does not wait, for nothing.
\* One whose function runs is left alone; it is in no list.
RemoveIdle(i) ==
  /\ Operate
  /\ IF pc = "idle" /\ i = running
     THEN UNCHANGED idleVars
     ELSE /\ i \in ToSet(idles)
          /\ idles' = unlinked(idles, i)
          /\ recycled_idles' = <<i>> \o recycled_idles
          /\ UNCHANGED has_idle
  /\ UNCHANGED <<timerVars, publicVars>>
-----------------------------------------------------------------------------
(* dispatch_run: how long to wait.                                         *)

Infinite == -1

\* What an int holds after an addition: the build wraps around.
as_int(x) == IF x > INT_MAX THEN x - 2 * (INT_MAX + 1) ELSE x

\* Mistake: rounded down.
millis_until_floor(du, ds) ==
  IF ds > MaxWaitSecs THEN MaxWaitSecs * MSec
  ELSE as_int(ds * MSec + (du \div USecPerMSec))

\* Mistake: cut short a second too late.
millis_until_late(du, ds) ==
  IF ds > MaxWaitSecs + 1 THEN MaxWaitSecs * MSec
  ELSE as_int(ds * MSec + ((du + USecPerMSec - 1) \div USecPerMSec))

\* "Round up, so that we ensure that something can run"
millis_until(du, ds) ==
  IF ds > MaxWaitSecs THEN MaxWaitSecs * MSec
  ELSE as_int(ds * MSec + ((du + USecPerMSec - 1) \div USecPerMSec))

\* Mistake: a moment that has passed is not waited for.
PollTimeout_never(now) ==
  IF has_idle THEN 0
  ELSE IF ~has_timeout \/ published <= now THEN Infinite
  ELSE LET du == (published % USec) - (now % USec)
           ds == (published \div USec) - (now \div USec)
       IN  IF du < 0 THEN millis_until(du + USec, ds - 1) ELSE millis_until(du, ds)

\* The timeout given to poll at the moment now, in milliseconds.
PollTimeout(now) ==
  IF has_idle THEN 0
  ELSE IF ~has_timeout THEN Infinite
  ELSE IF published <= now THEN 0
  ELSE LET du == (published % USec) - (now % USec)
           ds == (published \div USec) - (now \div USec)
       IN  IF du < 0 THEN millis_until(du + USec, ds - 1) ELSE millis_until(du, ds)

\* The wait was cut short because it would have been too long for an int.
Clamped(now) == has_timeout /\ published - now >= (MaxWaitSecs + 1) * USec

\* poll returns at the moment "at" and the pass begins.  When poll is interrupted,
\* it is as if it had not been called.
Poll(at, expired) ==
  /\ pc = "outside" /\ last_dispatch <= at
  /\ last_dispatch' = at
  /\ woken' = expired
  /\ pc' = "fds"
  /\ UNCHANGED <<timerVars, idleVars, publicVars, running, ops>>

\* It was called at the moment now and the time is over: never, if the time is
\* negative.
Expires(now, at) ==
  /\ last_dispatch <= now
  /\ PollTimeout(now) >= 0
  /\ at >= now + PollTimeout(now) * USecPerMSec
  /\ Poll(at, ~has_idle /\ ~Clamped(now))

\* The descriptor callbacks have returned.
FdsDone ==
  /\ pc = "fds"
  /\ pc' = "idles" /\ woken' = FALSE
  /\ UNCHANGED <<timerVars, idleVars, publicVars, last_dispatch, running, ops>>

RunIdle ==
  /\ pc = "idles" /\ idles # <<>>
  /\ running' = Head(idles)
  /\ idles' = Tail(idles)
  /\ pc' = "idle"
  /\ UNCHANGED <<timerVars, recycled_idles, has_idle, publicVars, last_dispatch,
                 woken, ops>>

IdleReturns ==
  /\ pc = "idle"
  /\ recycled_idles' = <<running>> \o recycled_idles
  /\ pc' = "idles" /\ running' = 0
  /\ UNCHANGED <<timerVars, idles, has_idle, publicVars, last_dispatch, woken, ops>>

IdlesDone ==
  /\ pc = "idles" /\ idles = <<>>
  /\ has_idle' = FALSE
  /\ pc' = "timers"
  /\ UNCHANGED <<timerVars, idles, recycled_idles, publicVars, last_dispatch,
                 running, woken, ops>>

\* Mistake: what became due since the pass began is fired as well.
due_soon(n) == timeout[n] <= last_dispatch + 1

due(n) == timeout[n] <= last_dispatch

FireTimer ==
  /\ pc = "timers" /\ timer_tree.top # 0
  /\ LET min == TreeFirst(timer_tree)
     IN  /\ due(min)
         /\ unlink_timer(min)
         /\ running' = min
  /\ pc' = "timer"
  /\ UNCHANGED <<recycled_timeouts, idleVars, publicVars, last_dispatch, woken, ops>>

\* The function returns; free_timer.
TimerReturns ==
  /\ pc = "timer"
  /\ recycled_timeouts' = <<running>> \o recycled_timeouts
  /\ pc' = "timers" /\ running' = 0
  /\ UNCHANGED <<timer_tree, timeout, armed, idleVars, publicVars, last_dispatch,
                 woken, ops>>

\* The earliest timer is not due, or there is none.
EndPass ==
  /\ pc = "timers"
  /\ IF timer_tree.top = 0
     THEN has_timeout' = FALSE /\ initialised' = TRUE /\ UNCHANGED published
     ELSE LET min == TreeFirst(timer_tree)
          IN  ~due(min) /\ Publish(timeout[min])
  /\ pc' = "outside" /\ ops' = 0
  /\ UNCHANGED <<timerVars, idleVars, last_dispatch, running, woken>>

Program ==
  \/ \E at \in Timeouts : AddTimer(at)
  \/ \E millis \in Delays : AddTimerMillis(millis)
  \/ \E n \in Nodes : RemoveTimer(n)
  \/ AddIdle
  \/ \E i \in Idles : RemoveIdle(i)

Expire == \E now, at \in Instants : Expires(now, at)
Pass == FdsDone \/ RunIdle \/ IdleReturns \/ IdlesDone \/ FireTimer \/ TimerReturns
          \/ EndPass

\* A descriptor is ready before.
Ready == \E at \in Instants : Poll(at, FALSE)

Next == Program \/ Expire \/ Ready \/ Pass

Spec == Init /\ [][Next]_vars

\* A pass that has begun goes on: every step of Pass leaves its place, nothing else
\* does, and one of them is always possible.
PassGoesOn == pc # "outside" /\ pc' \in Places

\* The milliseconds are too many for an int, in a second that is not cut short.
TooFar(now) ==
  /\ INT_MAX * USecPerMSec < published - now
  /\ published - now < (MaxWaitSecs + 1) * USec

\* There is a timer, but it is too far away at some moment at which poll may be
\* called now.
MaySleepForEver ==
  /\ pc = "outside" /\ has_timeout /\ ~has_idle
  /\ \E now \in Instants : last_dispatch <= now /\ TooFar(now)

\* The main loop keeps running and callbacks return.  Descriptors are not ready
\* for ever before a timeout is over: poll expires now and then, later each time,
\* if it is sure to be told a time that ends.
FairSpec ==
  /\ Spec /\ WF_pc(PassGoesOn)
  /\ SF_vars(/\ Expire /\ ~MaySleepForEver
             /\ last_dispatch = MaxTime \/ last_dispatch' > last_dispatch)
-----------------------------------------------------------------------------
\* Through every sequence of insertions and removals, by the program or by the
\* pass, the macros keep a red-black tree of exactly the timers that are armed:
\* no timer is lost in a rotation, none stays behind.
TreeSound ==
  SoundTree(timer_tree, armed, LAMBDA a, b : Earlier(timeout, a, b))

\* A timer structure on the list of recycled ones is there once and is not in use:
\* the list is threaded through a link of the tree.
RecycledApart ==
  /\ ToSet(recycled_timeouts) \cap armed = {}
  /\ Cardinality(ToSet(recycled_timeouts)) = Len(recycled_timeouts)
  /\ pc = "timer" => running \notin armed \cup ToSet(recycled_timeouts)

\* The memory of the timers: the tree holds the armed ones, the list of recycled
\* ones is apart from it, whatever timer functions add and remove, their own
\* timer too; the variables keep their types.
TimersSound == TypeOK /\ TreeSound /\ RecycledApart

\* A timer only fires when its moment has come, and before every other timer that
\* is armed then.
FiresInTurn ==
  [][pc = "timers" /\ pc' = "timer" =>
       /\ timeout[running'] <= last_dispatch
       /\ running' \in armed
       /\ \A n \in armed : timeout[running'] <= timeout[n]]_vars

\* Between two passes the public timeout is that of a timer that is armed, and
\* there is one exactly while one is armed.
PublishedIsArmed ==
  pc = "outside" /\ initialised =>
    /\ has_timeout <=> armed # {}
    /\ has_timeout => published \in {timeout[n] : n \in armed}

\* Between two passes the public timeout is that of the first timer, which is
\* what add_timer means to find out; otherwise poll sleeps past a timer.
PublishedIsFirst ==
  pc = "outside" /\ initialised /\ armed # {} =>
    \A n \in armed : published <= timeout[n]

\* When poll waits for as long as it is told to, if that ends, and the program
\* removes nothing, a timer is due in the pass that follows: the wait is rounded
\* up.
NoFutileWait ==
  pc = "fds" /\ woken /\ initialised /\ ops = 0 => \E n \in armed : due(n)

\* "Round up, so that we ensure that something can run if they just wait the full
\* duration": while there is a timer, the time poll is told to wait ends, unless the
\* sum overflows, and it does exactly if the public timeout is that far away: on
\* both sides of this window the conversion, with borrow, cut and rounding, gives a
\* time that is not negative.
WaitEnds ==
  pc = "outside" /\ initialised /\ has_timeout =>
    \A now \in Instants : last_dispatch <= now =>
      (PollTimeout(now) < 0 <=> ~has_idle /\ TooFar(now))

\* The time that poll is told to wait is long enough, for a timer to be due then,
\* and ends, unless it is too long for an int.
WaitsRight == NoFutileWait /\ WaitEnds

\* Poll does not wait while an idle function is to be run.
IdleNotForgotten == pc = "outside" /\ idles # <<>> => has_idle

\* Between two passes the public members, all that a main loop goes by, say that
\* there is a timer when there is one and an idle function when there is one.
PublicMembersRight == PublishedIsArmed /\ IdleNotForgotten

\* A timer that is armed fires or is removed in the end, although the public
\* timeout may be that of a later one, unless poll may have to wait for ever.
EveryTimerFires ==
  \A n \in Nodes : n \in armed ~> n \notin armed \/ MaySleepForEver
=============================================================================
