------------------------------ MODULE RpcClient -----------------------------
(***************************************************************************)
(* The client half of protobuf-c-rpc.c: its connection state machine, the  *)
(* table of closures with the free list threaded through it, the outgoing  *)
(* and incoming buffers, and what it registers with the dispatch.          *)
(*                                                                         *)
(* A buffer is a sequence of whole requests or responses: bytes of one     *)
(* that is partly written or read leave it in its place.  The name         *)
(* resolver is synchronous (no function installs another), so NAME_LOOKUP  *)
(* is left within the handler that enters it.                              *)
(*                                                                         *)
(* The closures of the program run in the middle of the client's own       *)
(* functions; "frame" is the function that is waiting for one to return.   *)
(* Server, network and kernel are external.                                *)
(***************************************************************************)
EXTENDS Naturals, Sequences, FiniteSets

CONSTANTS Calls,           \* the calls the program may make
          MaxTable,        \* bound: size of the closure table
          FaultyServer,    \* the server may send responses nobody asked for
          EarlyInvoke,     \* the program calls before the client is connected
          GrowInClosure    \* a closure makes a call when no slot is free

\* The call of a slot that is not in use, and of a response to nothing.
NoCall  == "none"

ASSUME ClientAssumption ==
  /\ NoCall \notin Calls
  /\ MaxTable \in Nat
  /\ FaultyServer \in BOOLEAN /\ EarlyInvoke \in BOOLEAN
  /\ GrowInClosure \in BOOLEAN

VARIABLES
  state, autoreconnect,
  fd,                       \* a socket is open
  watch,                    \* how the dispatch watches it: handler and events
  idle, timer,              \* handle_init_idle, handle_autoreconnect_timeout
  closures,                 \* info.connected.closures, indexed by request_id
  first_free_request_id,
  outgoing, incoming,
  frame,                    \* the function in progress
  status,                   \* "undefined": the code has read a wild value
  peer, atServer, net,      \* the connection: requests and responses under way
  faulty,                   \* the server sent a response to nothing over it
  asked, answers            \* history of the calls, as in RpcCalls

infoVars   == <<closures, first_free_request_id>>
bufferVars == <<outgoing, incoming>>
netVars    == <<peer, atServer, net, faulty>>
eventVars  == <<fd, watch, idle, timer>>
callVars   == <<asked, answers>>
vars == <<state, autoreconnect, eventVars, infoVars, bufferVars, frame, status,
          netVars, callVars>>

Message == "message"
Null    == "NULL"
READABLE == "READABLE"
WRITABLE == "WRITABLE"

States == {"INIT", "CONNECTING", "CONNECTED", "FAILED_WAITING", "FAILED",
           "DESTROYED"}

\* A Closure: a call in progress (response_type # NULL), or an element of the
\* free list whose closure_data is the next free request id.
Closure == [call : Calls \cup {NoCall}, next : Nat]
FreeSlot(n) == [call |-> NoCall, next |-> n]
UsedSlot(c) == [call |-> c, next |-> 0]

NoWatch          == [handler |-> "none", events |-> {}]
WatchOf(h, evs)  == [handler |-> h, events |-> evs]
Request          == [id : Nat, call : Calls]
\* What a response answers (none if made up), and whether it can be unpacked.
Response         == [id : Nat, call : Calls \cup {NoCall}, ok : BOOLEAN]

NoFrame          == [kind |-> "none"]
LoopFrame        == [kind |-> "loop"]     \* while (incoming.size >= 16)
\* closure->closure (msg, ...): grown is set when the table has moved since.
RespondFrame(r, c) == [kind |-> "respond", resp |-> r, call |-> c, grown |-> FALSE]
\* The loop over the closures of a table that is going away, at slot "at".
NullFrame(t, i)  == [kind |-> "null", table |-> t, at |-> i]

Frames ==
  {NoFrame, LoopFrame}
    \cup [kind : {"respond"}, resp : Response, call : Calls, grown : BOOLEAN]
    \cup [kind : {"null"}, table : Seq(Closure), at : Nat]

TypeOK ==
  /\ state \in States /\ autoreconnect \in BOOLEAN
  /\ fd \in BOOLEAN /\ idle \in BOOLEAN /\ timer \in BOOLEAN
  /\ watch \in [handler : {"none", "connect", "events"},
                events : SUBSET {READABLE, WRITABLE}]
  /\ closures \in Seq(Closure) /\ first_free_request_id \in 0 .. Len(closures)
  /\ outgoing \in Seq(Request) /\ incoming \in Seq(Response)
  /\ frame \in Frames
  /\ status \in {"ok", "undefined"}
  /\ peer \in {"none", "open", "closed"}
  /\ atServer \subseteq Request /\ net \in Seq(Response) /\ faulty \in BOOLEAN
  /\ asked \subseteq Calls
  /\ answers \in [Calls -> Seq({Message, Null})]

Running == status = "ok"
InLoop  == Running /\ frame.kind = "none"     \* the dispatch is in control

\* client_new
Init ==
  /\ state = "INIT" /\ autoreconnect = TRUE
  /\ fd = FALSE /\ watch = NoWatch /\ idle = TRUE /\ timer = FALSE
  /\ closures = <<>> /\ first_free_request_id = 0
  /\ outgoing = <<>> /\ incoming = <<>>
  /\ frame = NoFrame /\ status = "ok"
  /\ peer = "none" /\ atServer = {} /\ net = <<>> /\ faulty = FALSE
  /\ asked = {} /\ answers = [c \in Calls |-> <<>>]
-----------------------------------------------------------------------------
(* Going away: client_failed and destroy_client_rpc.                       *)

Tell(c, a) == answers' = [answers EXCEPT ![c] = Append(@, a)]

UsedAfter(table, i) == {j \in i + 1 .. Len(table) : table[j].call # NoCall}
NextUsed(table, i)  ==
  CHOOSE j \in UsedAfter(table, i) : \A k \in UsedAfter(table, i) : j <= k

\* Invoke the closures of the slots after i with NULL, up to the first that
\* runs; then the table is freed.
null_closures(table, i) ==
  IF UsedAfter(table, i) = {}
  THEN frame' = NoFrame /\ UNCHANGED answers
  ELSE /\ frame' = NullFrame(table, NextUsed(table, i))
       /\ Tell(table[NextUsed(table, i)].call, Null)

\* Close the socket, empty the buffers; info holds no closure table any more.
drop_connection ==
  /\ fd' = FALSE /\ watch' = NoWatch
  /\ outgoing' = <<>> /\ incoming' = <<>>
  /\ closures' = <<>> /\ first_free_request_id' = 0
  /\ peer' = "none" /\ atServer' = {} /\ net' = <<>> /\ faulty' = FALSE

\* Mistake: the closure table is freed, and nobody is told.
client_failed_silently ==
  /\ drop_connection
  /\ state' = IF autoreconnect THEN "FAILED_WAITING" ELSE "FAILED"
  /\ timer' = autoreconnect
  /\ UNCHANGED <<frame, answers>>

client_failed ==
  /\ drop_connection
  /\ state' = IF autoreconnect THEN "FAILED_WAITING" ELSE "FAILED"
  /\ timer' = autoreconnect
  /\ null_closures(closures, 0)

\* Mistake: the reconnection timer is not removed.
DestroyKeepsTimer ==
  /\ InLoop /\ state # "DESTROYED"
  /\ drop_connection
  /\ state' = "DESTROYED"
  /\ idle' = FALSE
  /\ null_closures(closures, 0)
  /\ UNCHANGED <<timer, autoreconnect, status, asked>>

\* destroy, not from within a closure: the code after it uses the client.
Destroy ==
  /\ InLoop /\ state # "DESTROYED"
  /\ drop_connection
  /\ state' = "DESTROYED"
  /\ idle' = FALSE /\ timer' = FALSE
  /\ null_closures(closures, 0)
  /\ UNCHANGED <<autoreconnect, status, asked>>

\* The closure invoked with NULL returns; go on with the next one.
NullClosureReturns ==
  /\ Running /\ frame.kind = "null"
  /\ null_closures(frame.table, frame.at)
  /\ UNCHANGED <<state, autoreconnect, eventVars, infoVars, bufferVars, status,
                 netVars, asked>>
-----------------------------------------------------------------------------
(* Connecting.                                                             *)

set_state_connected ==
  /\ state' = "CONNECTED"
  /\ closures' = <<FreeSlot(0)>>
  /\ first_free_request_id' = 1
  /\ peer' = "open"

\* begin_name_lookup and begin_connecting: the lookup, socket() or connect()
\* fails; connect() is in progress; or it succeeds at once.  A socket that
\* cannot connect is closed here, before client_failed.
begin_name_lookup ==
  \/ /\ client_failed
     /\ UNCHANGED asked
  \/ /\ state' = "CONNECTING"
     /\ fd' = TRUE
     /\ watch' = WatchOf("connect", {READABLE, WRITABLE})
     /\ timer' = FALSE
     /\ UNCHANGED <<infoVars, bufferVars, frame, netVars, callVars>>
  \/ /\ set_state_connected
     /\ fd' = TRUE
     /\ timer' = FALSE
     /\ UNCHANGED <<watch, bufferVars, frame, atServer, net, faulty, callVars>>

HandleInitIdle ==
  /\ InLoop /\ idle
  /\ idle' = FALSE
  /\ begin_name_lookup
  /\ UNCHANGED <<autoreconnect, status>>

HandleAutoreconnectTimeout ==
  /\ InLoop /\ timer
  /\ begin_name_lookup
  /\ UNCHANGED <<idle, autoreconnect, status>>

\* handle_client_fd_connect_events.  On an error the socket is closed twice, by
\* this function and by client_failed.
HandleConnectEvents ==
  /\ InLoop /\ watch.handler = "connect"
  /\ \/ /\ set_state_connected
        /\ watch' = NoWatch
        /\ UNCHANGED <<fd, timer, bufferVars, frame, atServer, net, faulty, callVars>>
     \/ client_failed /\ UNCHANGED asked
  /\ UNCHANGED <<idle, autoreconnect, status>>

SetAutoreconnect(on) ==
  /\ Running /\ frame.kind \in {"none", "respond", "null"}
  /\ state # "DESTROYED"
  /\ autoreconnect' = on
  /\ UNCHANGED <<state, eventVars, infoVars, bufferVars, frame, status, netVars,
                 callVars>>
-----------------------------------------------------------------------------
(* Calls.                                                                  *)

\* Mistake: the last new slot points one past the table.
grow_closure_array_off_by_one ==
  LET n == Len(closures)
  IN  [i \in 1 .. 2 * n |-> IF i <= n THEN closures[i] ELSE FreeSlot(i + 1)]

\* Double the table; the new slots form the new free list, in order.
grow_closure_array ==
  LET n == Len(closures)
  IN  [i \in 1 .. 2 * n |->
         IF i <= n THEN closures[i]
         ELSE FreeSlot(IF i = 2 * n THEN first_free_request_id ELSE i + 1)]

\* Mistake: the slot is not taken off the free list.
enqueue_request_keeps_head(c) ==
  LET full  == first_free_request_id = 0
      table == IF full THEN grow_closure_array ELSE closures
      id    == IF full THEN Len(closures) + 1 ELSE first_free_request_id
  IN  /\ Len(table) <= MaxTable
      /\ closures' = [table EXCEPT ![id] = UsedSlot(c)]
      /\ first_free_request_id' = id
      /\ outgoing' = Append(outgoing, [id |-> id, call |-> c])
      /\ UNCHANGED <<status, frame>>

\* Take a slot, enlarging a full table, and queue the request.  The slot's
\* closure_data is taken for the next free id; if the slot is not a free one
\* that is a pointer of the program's.
enqueue_request(c) ==
  LET full  == first_free_request_id = 0
      table == IF full THEN grow_closure_array ELSE closures
      id    == IF full THEN Len(closures) + 1 ELSE first_free_request_id
  IN  /\ Len(table) <= MaxTable
      /\ closures' = [table EXCEPT ![id] = UsedSlot(c)]
      /\ first_free_request_id' = table[id].next
      /\ status' = IF table[id].call = NoCall THEN status ELSE "undefined"
      /\ outgoing' = Append(outgoing, [id |-> id, call |-> c])
      /\ frame' = IF full /\ frame.kind = "respond"
                  THEN [frame EXCEPT !.grown = TRUE] ELSE frame

\* Mistake: whether the buffer was empty is asked after the request is in it.
update_connected_client_watch_late == UNCHANGED watch

\* What is watched for once a call is queued: nothing new if the buffer was
\* not empty, because then both events are watched already.
update_connected_client_watch ==
  watch' = IF outgoing = <<>> THEN WatchOf("events", {READABLE, WRITABLE})
           ELSE watch

\* invoke_client_rpc, by the program between two passes or by a closure.
Invoke(c) ==
  /\ Running /\ frame.kind \in {"none", "respond", "null"}
  /\ c \notin asked
  /\ asked' = asked \cup {c}
  /\ \/ /\ state = "CONNECTED"
        /\ frame.kind = "respond" /\ first_free_request_id = 0 => GrowInClosure
        /\ enqueue_request(c)
        /\ update_connected_client_watch
        /\ UNCHANGED answers
     \/ /\ \/ state \in {"FAILED_WAITING", "FAILED"}
           \/ state = "DESTROYED" /\ frame.kind = "null"
        /\ Tell(c, Null)
        /\ UNCHANGED <<watch, infoVars, outgoing, frame, status>>
     \/ \* enqueue_request on a union that holds no closure table.
        /\ EarlyInvoke
        /\ state \in {"INIT", "CONNECTING"}
        /\ status' = "undefined"
        /\ UNCHANGED <<watch, infoVars, outgoing, frame, answers>>
  /\ UNCHANGED <<state, autoreconnect, fd, idle, timer, incoming, netVars>>
-----------------------------------------------------------------------------
(* handle_client_fd_events.                                                *)

\* Write a prefix of the outgoing buffer; stop watching for WRITABLE when
\* nothing is left.
Written(n) == SubSeq(outgoing, n + 1, Len(outgoing))
WatchAfterWrite(n) ==
  IF n = Len(outgoing) THEN WatchOf("events", {READABLE}) ELSE watch

Write(n) ==
  /\ WRITABLE \in watch.events
  /\ outgoing' = Written(n)
  /\ watch' = WatchAfterWrite(n)
  /\ atServer' = atServer \cup {outgoing[i] : i \in 1 .. n}

NoWrite == UNCHANGED <<outgoing, watch, atServer>>

\* The part of the handler that reads nothing, or no complete response.
HandleWritable ==
  /\ InLoop /\ watch.handler = "events"
  /\ \E n \in 0 .. Len(outgoing) : Write(n)
  /\ UNCHANGED <<state, autoreconnect, fd, idle, timer, infoVars, incoming, frame,
                 status, peer, net, faulty, callVars>>

\* It reads some responses, after writing if the socket is writable as well,
\* and enters the loop that handles them.
HandleReadable ==
  /\ InLoop /\ watch.handler = "events" /\ READABLE \in watch.events
  /\ NoWrite \/ \E n \in 0 .. Len(outgoing) : Write(n)
  /\ \E n \in 1 .. Len(net) :
       /\ incoming' = incoming \o SubSeq(net, 1, n)
       /\ net' = SubSeq(net, n + 1, Len(net))
  /\ frame' = LoopFrame
  /\ UNCHANGED <<state, autoreconnect, fd, idle, timer, infoVars, status, peer,
                 faulty, callVars>>

\* A write or a read fails, or the end of file is read.
HandleConnectionLost ==
  /\ InLoop /\ watch.handler = "events"
  /\ peer = "closed"
  /\ client_failed
  /\ UNCHANGED <<autoreconnect, idle, status, asked>>

\* The slot a response is for, when it is in use.
ValidRequestId(id) ==
  /\ id # 0 /\ id <= Len(closures)
  /\ closures[id].call # NoCall

\* One turn of the loop, up to the call of the closure.
ProcessResponse ==
  /\ Running /\ frame = LoopFrame /\ incoming # <<>>
  /\ LET r == Head(incoming)
     IN  IF ValidRequestId(r.id) /\ r.ok
         THEN /\ incoming' = Tail(incoming)
              /\ frame' = RespondFrame(r, closures[r.id].call)
              /\ Tell(closures[r.id].call, Message)
              /\ UNCHANGED <<state, fd, watch, timer, infoVars, outgoing, netVars>>
         ELSE client_failed
  /\ UNCHANGED <<autoreconnect, idle, status, asked>>

\* Mistake: the rest of the free list is dropped.
ReleasedSlotUnlinked == FreeSlot(0)

\* A slot put at the head of the free list.
ReleasedSlot == FreeSlot(first_free_request_id)

\* The closure has returned: free its slot, through the pointer taken before
\* the call.  If the table has moved, the writes go to the old one.
ResponseClosureReturns ==
  /\ Running /\ frame.kind = "respond"
  /\ closures' = IF frame.grown THEN closures
                 ELSE [closures EXCEPT ![frame.resp.id] = ReleasedSlot]
  /\ first_free_request_id' = frame.resp.id
  /\ frame' = LoopFrame
  /\ UNCHANGED <<state, autoreconnect, eventVars, bufferVars, status, netVars,
                 callVars>>

LoopEnds ==
  /\ Running /\ frame = LoopFrame /\ incoming = <<>>
  /\ frame' = NoFrame
  /\ UNCHANGED <<state, autoreconnect, eventVars, infoVars, bufferVars, status,
                 netVars, callVars>>
-----------------------------------------------------------------------------
(* The server at the other end.  External.                                 *)

ServerResponds ==
  \E r \in atServer, ok \in BOOLEAN :
    /\ peer = "open"
    /\ atServer' = atServer \ {r}
    /\ net' = Append(net, [id |-> r.id, call |-> r.call, ok |-> ok])
    /\ UNCHANGED <<state, autoreconnect, eventVars, infoVars, bufferVars, frame,
                   status, peer, faulty, callVars>>

\* A response to nothing, once in a connection: any id the table could have, or
\* one it could not.
ServerInvents ==
  \E id \in 0 .. MaxTable + 1 :
    /\ FaultyServer /\ peer = "open" /\ ~faulty
    /\ faulty' = TRUE
    /\ net' = Append(net, [id |-> id, call |-> NoCall, ok |-> TRUE])
    /\ UNCHANGED <<state, autoreconnect, eventVars, infoVars, bufferVars, frame,
                   status, peer, atServer, callVars>>

ServerCloses ==
  /\ peer = "open"
  /\ peer' = "closed"
  /\ UNCHANGED <<state, autoreconnect, eventVars, infoVars, bufferVars, frame,
                 status, atServer, net, faulty, callVars>>

Terminated ==
  /\ status = "undefined" \/ (state = "DESTROYED" /\ frame = NoFrame)
  /\ UNCHANGED vars

\* What the dispatch and returning closures make the client do.
ClientRuns ==
  \/ HandleInitIdle \/ HandleAutoreconnectTimeout \/ HandleConnectEvents
  \/ HandleWritable \/ HandleReadable \/ HandleConnectionLost
  \/ ProcessResponse \/ ResponseClosureReturns \/ LoopEnds
  \/ NullClosureReturns

Program ==
  \/ \E c \in Calls : Invoke(c)
  \/ \E on \in BOOLEAN : SetAutoreconnect(on)
  \/ Destroy

Server == ServerResponds \/ ServerInvents \/ ServerCloses

Next == ClientRuns \/ Program \/ Server \/ Terminated

Spec == Init /\ [][Next]_vars

\* The main loop keeps running and closures return; the server answers every
\* request it gets or drops the connection.  The program is under no obligation.
FairSpec == Spec /\ WF_vars(ClientRuns) /\ WF_vars(ServerResponds)
-----------------------------------------------------------------------------
\* The client keeps the promise of RpcCalls: every closure is invoked exactly
\* once, whatever the order of responses, failures, reconnections and calls
\* made from closures.
Contract == INSTANCE RpcCalls
KeepsContract == Contract!CallsSpec

\* The same without the promise that every call is answered in the end.
CalledOnce == Contract!CallsInit /\ [][Contract!CallsNext]_callVars

\* A call that waits for its answer has exactly one slot, in the table in use or
\* in the one whose closures are being told of the failure, and no slot is kept
\* by a call that has its answer, except while its closure runs.  Otherwise
\* client_failed would lose a call or invoke a closure twice.
Waiting == {c \in asked : answers[c] = <<>>}
Holders(c) == {i \in 1 .. Len(closures) : closures[i].call = c}
ToBeTold(c) ==
  IF frame.kind = "null"
  THEN {i \in UsedAfter(frame.table, frame.at) : frame.table[i].call = c}
  ELSE {}
CallsHaveSlots ==
  Running =>
    \A c \in Calls :
      Cardinality(Holders(c)) + Cardinality(ToBeTold(c)) =
        IF c \in Waiting \/ (frame.kind = "respond" /\ frame.call = c) THEN 1 ELSE 0

\* The ids on the free list, the head and what follows it: those in every set
\* that has the head and, with an id, the one that follows.
Follows(S) == /\ first_free_request_id # 0 => first_free_request_id \in S
              /\ \A i \in S : closures[i].next # 0 => closures[i].next \in S
FreeList ==
  {i \in 1 .. Len(closures) : \A S \in SUBSET (1 .. Len(closures)) : Follows(S) => i \in S}

\* The list threaded through closure_data holds exactly the free slots, so a
\* slot in use is never handed out and none leaks.
FreeListExact ==
  Running => FreeList = {i \in 1 .. Len(closures) : closures[i].call = NoCall}

\* A closure gets the response to its own request, although ids are reused and
\* responses come in any order, as long as the server only answers what it was
\* asked: a response to nothing makes the client free a slot early, and a later
\* call in that slot takes the answer to the earlier one.
RightAnswer ==
  frame.kind = "respond" /\ ~faulty => frame.resp.call = frame.call

\* The dispatch is never left without what the client waits for: with requests
\* queued it watches for WRITABLE, with calls waiting for READABLE.
WatchesWhatItNeeds ==
  Running /\ state = "CONNECTED" =>
    /\ outgoing # <<>> => WRITABLE \in watch.events
    /\ Waiting # {} => READABLE \in watch.events

\* What is registered with the dispatch fits the state, which is what the
\* assertions at the head of the handlers say, and a destroyed client, whose
\* memory is freed, has nothing registered.
HandlersFitState ==
  Running =>
    /\ idle => state = "INIT"
    /\ timer <=> state = "FAILED_WAITING"
    /\ watch.handler = "connect" <=> state = "CONNECTING"
    /\ watch.handler = "events" => state = "CONNECTED"
    /\ fd <=> state \in {"CONNECTING", "CONNECTED"}
=============================================================================
