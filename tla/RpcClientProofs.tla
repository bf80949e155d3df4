--------------------------- MODULE RpcClientProofs --------------------------
(***************************************************************************)
(* RpcClient for any set of calls and any bound on the table: what is      *)
(* registered with the dispatch fits the state of the client; unless a     *)
(* closure makes a call when the table is full, every call under way has   *)
(* one slot of the closure table, the free list holds the other slots, and *)
(* no closure is invoked twice; it watches for the events it needs, and a  *)
(* response reaches the closure of the call it answers.                    *)
(***************************************************************************)
EXTENDS RpcClient, RecursionLemmas, FiniteSetTheorems

-----------------------------------------------------------------------------
(* Types, by the group of variables an operation changes.                  *)

WatchTypes == [handler : {"none", "connect", "events"},
               events : SUBSET {READABLE, WRITABLE}]

ConnTypeOK ==
  /\ state \in States /\ autoreconnect \in BOOLEAN
  /\ fd \in BOOLEAN /\ idle \in BOOLEAN /\ timer \in BOOLEAN
  /\ watch \in WatchTypes
  /\ status \in {"ok", "undefined"}

TableTypeOK ==
  /\ closures \in Seq(Closure) /\ first_free_request_id \in 0 .. Len(closures)
  /\ \A i \in 1 .. Len(closures) : closures[i].next \in 0 .. Len(closures)

NetTypeOK ==
  /\ outgoing \in Seq(Request) /\ incoming \in Seq(Response)
  /\ peer \in {"none", "open", "closed"}
  /\ atServer \subseteq Request /\ net \in Seq(Response) /\ faulty \in BOOLEAN

CallTypeOK ==
  /\ asked \subseteq Calls
  /\ answers \in [Calls -> Seq({Message, Null})]

\* The function in progress, by kind.  A response is only handled while the
\* client is connected, and the slot it is for stays in the table.
FrameOK ==
  \/ frame = NoFrame
  \/ frame = LoopFrame /\ state = "CONNECTED"
  \/ /\ frame \in [kind : {"respond"}, resp : Response, call : Calls, grown : BOOLEAN]
     /\ state = "CONNECTED"
     /\ frame.resp.id \in 1 .. Len(closures)
  \/ /\ frame \in [kind : {"null"}, table : Seq(Closure), at : Nat]
     /\ frame.at \in 1 .. Len(frame.table)
     /\ state \in {"FAILED_WAITING", "FAILED", "DESTROYED"}

\* A connected client has a table.
TableThere == state = "CONNECTED" => Len(closures) > 0

TypeInv ==
  ConnTypeOK /\ TableTypeOK /\ NetTypeOK /\ CallTypeOK /\ FrameOK /\ TableThere

LEMMA TypeInvImplies == TypeInv => TypeOK
<1>1. FrameOK => frame \in Frames
  BY DEF FrameOK, Frames
<1> QED
  BY <1>1 DEF TypeInv, TypeOK, ConnTypeOK, TableTypeOK, NetTypeOK, CallTypeOK, WatchTypes

\* What a slot of the table holds.
LEMMA ClosureFields ==
  /\ \A c \in Closure : c.call \in Calls \cup {NoCall} /\ c.next \in Nat
  /\ \A n \in Nat : /\ FreeSlot(n) \in Closure
                    /\ FreeSlot(n).call = NoCall /\ FreeSlot(n).next = n
  /\ \A c \in Calls : /\ UsedSlot(c) \in Closure
                      /\ UsedSlot(c).call = c /\ UsedSlot(c).next = 0
BY DEF Closure, FreeSlot, UsedSlot

\* The slot whose closure is invoked next is the first used one.
LEMMA NextUsedIs ==
  ASSUME NEW table \in Seq(Closure), NEW i \in Nat, UsedAfter(table, i) # {}
  PROVE  /\ NextUsed(table, i) \in UsedAfter(table, i)
         /\ \A k \in UsedAfter(table, i) : NextUsed(table, i) <= k
         /\ NextUsed(table, i) \in i + 1 .. Len(table)
         /\ table[NextUsed(table, i)].call \in Calls
<1>1. UsedAfter(table, i) \in SUBSET Nat
  BY DEF UsedAfter
<1>2. \E j \in UsedAfter(table, i) : \A k \in UsedAfter(table, i) : j <= k
  BY <1>1, SmallestExists
<1>3. /\ NextUsed(table, i) \in UsedAfter(table, i)
      /\ \A k \in UsedAfter(table, i) : NextUsed(table, i) <= k
  BY <1>2 DEF NextUsed
<1>4. /\ NextUsed(table, i) \in i + 1 .. Len(table)
      /\ table[NextUsed(table, i)].call # NoCall
  BY <1>3 DEF UsedAfter
<1>5. table[NextUsed(table, i)] \in Closure
  BY <1>4
<1> QED
  BY <1>3, <1>4, <1>5, ClosureFields

LEMMA TellType ==
  ASSUME CallTypeOK, NEW c \in Calls, NEW a \in {Message, Null}, Tell(c, a),
         asked' \subseteq Calls
  PROVE  CallTypeOK'
BY DEF CallTypeOK, Tell

\* After an attempt to invoke the closures of a table with NULL.
LEMMA NullClosuresType ==
  ASSUME NEW table \in Seq(Closure), NEW i \in Nat, CallTypeOK,
         null_closures(table, i), asked' \subseteq Calls,
         state' \in {"FAILED_WAITING", "FAILED", "DESTROYED"}
  PROVE  FrameOK' /\ CallTypeOK'
<1>1. CASE UsedAfter(table, i) = {}
  BY <1>1 DEF null_closures, FrameOK, CallTypeOK
<1>2. CASE UsedAfter(table, i) # {}
  <2> DEFINE j == NextUsed(table, i)
  <2>1. j \in 1 .. Len(table) /\ table[j].call \in Calls
    BY <1>2, NextUsedIs
  <2>2. frame' = NullFrame(table, j) /\ Tell(table[j].call, Null)
    BY <1>2 DEF null_closures
  <2>3. CallTypeOK'
    BY <2>1, <2>2, TellType
  <2> HIDE DEF j
  <2>4. FrameOK'
    BY <2>1, <2>2 DEF FrameOK, NullFrame
  <2> QED
    BY <2>3, <2>4
<1> QED
  BY <1>1, <1>2

LEMMA DropType ==
  ASSUME drop_connection
  PROVE  /\ TableTypeOK' /\ NetTypeOK' /\ fd' = FALSE
         /\ watch' = NoWatch
<1>1. TableTypeOK'
  BY DEF drop_connection, TableTypeOK
<1>2. /\ outgoing' \in Seq(Request) /\ incoming' \in Seq(Response)
      /\ net' \in Seq(Response)
  BY DEF drop_connection
<1>3. NetTypeOK'
  BY <1>2 DEF drop_connection, NetTypeOK
<1> QED
  BY <1>1, <1>3 DEF drop_connection

LEMMA WatchType ==
  /\ NoWatch \in WatchTypes
  /\ \A h \in {"none", "connect", "events"}, evs \in SUBSET {READABLE, WRITABLE} :
       WatchOf(h, evs) \in WatchTypes
BY DEF NoWatch, WatchOf, WatchTypes

\* A frame is known by its kind.
LEMMA FrameKinds ==
  ASSUME FrameOK
  PROVE  /\ frame.kind \in {"none", "loop", "respond", "null"}
         /\ frame.kind = "none" <=> frame = NoFrame
         /\ frame.kind = "loop" <=> frame = LoopFrame
         /\ frame.kind \in {"loop", "respond"} => state = "CONNECTED"
         /\ frame.kind = "respond" =>
              /\ frame \in [kind : {"respond"}, resp : Response, call : Calls, grown : BOOLEAN]
              /\ frame.resp \in Response /\ frame.call \in Calls
              /\ frame.grown \in BOOLEAN
              /\ frame.resp.id \in 1 .. Len(closures)
         /\ frame.kind = "null" =>
              /\ frame \in [kind : {"null"}, table : Seq(Closure), at : Nat]
              /\ frame.table \in Seq(Closure) /\ frame.at \in 1 .. Len(frame.table)
              /\ frame.at \in Nat
              /\ state \in {"FAILED_WAITING", "FAILED", "DESTROYED"}
BY DEF FrameOK, NoFrame, LoopFrame

\* client_failed in any state.
LEMMA FailedType ==
  ASSUME TypeInv, client_failed, UNCHANGED <<autoreconnect, status, asked>>,
         idle' \in BOOLEAN
  PROVE  TypeInv'
<1>1. TableTypeOK' /\ NetTypeOK' /\ fd' = FALSE /\ watch' = NoWatch
  BY DropType DEF client_failed
<1>2. state' \in {"FAILED_WAITING", "FAILED"} /\ timer' = autoreconnect
  BY DEF client_failed
<1>3. ConnTypeOK'
  BY <1>1, <1>2, WatchType, Zenon DEF ConnTypeOK, TypeInv, States
<1>4. closures \in Seq(Closure) /\ CallTypeOK /\ asked' \subseteq Calls
  BY DEF TypeInv, TableTypeOK, CallTypeOK
<1>5. null_closures(closures, 0)
  BY DEF client_failed
<1>6. FrameOK' /\ CallTypeOK'
  BY <1>2, <1>4, <1>5, NullClosuresType
<1> QED
  BY <1>1, <1>2, <1>3, <1>6 DEF TypeInv, TableThere

\* set_state_connected: a table of one free slot.
LEMMA ConnectedType ==
  ASSUME set_state_connected
  PROVE  TableTypeOK' /\ state' = "CONNECTED" /\ peer' = "open" /\ Len(closures') = 1
<1>1. /\ closures' = <<FreeSlot(0)>> /\ first_free_request_id' = 1
      /\ FreeSlot(0) \in Closure /\ FreeSlot(0).next = 0
  BY ClosureFields DEF set_state_connected
<1> QED
  BY <1>1 DEF TableTypeOK, set_state_connected

LEMMA LookupType ==
  ASSUME TypeInv, begin_name_lookup, UNCHANGED <<autoreconnect, status>>,
         idle' \in BOOLEAN, frame = NoFrame
  PROVE  TypeInv'
<1>1. CASE client_failed /\ UNCHANGED asked
  BY <1>1, FailedType
<1>2. CASE /\ state' = "CONNECTING" /\ fd' = TRUE
           /\ watch' = WatchOf("connect", {READABLE, WRITABLE}) /\ timer' = FALSE
           /\ UNCHANGED <<infoVars, bufferVars, frame, netVars, callVars>>
  <2>1. ConnTypeOK'
    BY <1>2, WatchType, Zenon DEF ConnTypeOK, TypeInv, States
  <2>2. TableTypeOK' /\ NetTypeOK' /\ CallTypeOK'
    BY <1>2 DEF TableTypeOK, NetTypeOK, CallTypeOK, TypeInv, infoVars, bufferVars, netVars, callVars
  <2> QED
    BY <1>2, <2>1, <2>2 DEF TypeInv, FrameOK, TableThere
<1>3. CASE /\ set_state_connected /\ fd' = TRUE /\ timer' = FALSE
           /\ UNCHANGED <<watch, bufferVars, frame, atServer, net, faulty, callVars>>
  <2>1. TableTypeOK' /\ state' = "CONNECTED" /\ peer' = "open" /\ Len(closures') = 1
    BY <1>3, ConnectedType
  <2>2. ConnTypeOK'
    BY <1>3, <2>1, Zenon DEF ConnTypeOK, TypeInv, States
  <2>3. NetTypeOK' /\ CallTypeOK'
    BY <1>3, <2>1 DEF NetTypeOK, CallTypeOK, TypeInv, bufferVars, callVars
  <2> QED
    BY <1>3, <2>1, <2>2, <2>3 DEF TypeInv, FrameOK, TableThere
<1> QED
  BY <1>1, <1>2, <1>3 DEF begin_name_lookup

\* The enlarged table: the old slots, then the new free ones, each leading to
\* the next and the last one to the old head of the free list.
LEMMA GrowType ==
  ASSUME TableTypeOK
  PROVE  /\ grow_closure_array \in Seq(Closure)
         /\ Len(grow_closure_array) = 2 * Len(closures)
         /\ \A i \in 1 .. Len(closures) : grow_closure_array[i] = closures[i]
         /\ \A i \in Len(closures) + 1 .. 2 * Len(closures) :
              grow_closure_array[i] =
                FreeSlot(IF i = 2 * Len(closures) THEN first_free_request_id ELSE i + 1)
<1> DEFINE n == Len(closures)
           e(i) == IF i <= n THEN closures[i]
                   ELSE FreeSlot(IF i = 2 * n THEN first_free_request_id ELSE i + 1)
<1>1. n \in Nat /\ 2 * n \in Nat /\ first_free_request_id \in Nat
  BY DEF TableTypeOK
<1>2. ASSUME NEW i \in 1 .. 2 * n
      PROVE  e(i) \in Closure
  <2>1. i <= n => closures[i] \in Closure
    BY <1>1 DEF TableTypeOK
  <2>2. (IF i = 2 * n THEN first_free_request_id ELSE i + 1) \in Nat
    BY <1>1
  <2> QED
    BY <2>1, <2>2, ClosureFields
<1>3. grow_closure_array = [i \in 1 .. 2 * n |-> e(i)]
  BY DEF grow_closure_array
<1> HIDE DEF e
<1>4. grow_closure_array \in Seq(Closure) /\ Len(grow_closure_array) = 2 * n
  BY <1>1, <1>2, <1>3
<1>5. \A i \in 1 .. 2 * n : grow_closure_array[i] = e(i)
  BY <1>3
<1> QED
  BY <1>1, <1>4, <1>5 DEF e

\* The table in which a request gets its slot, and the slot.
Roomy == IF first_free_request_id = 0 THEN grow_closure_array ELSE closures
Taken == IF first_free_request_id = 0 THEN Len(closures) + 1 ELSE first_free_request_id

LEMMA RoomyType ==
  ASSUME TableTypeOK, Len(closures) > 0
  PROVE  /\ Roomy \in Seq(Closure) /\ Len(Roomy) >= Len(closures)
         /\ Taken \in 1 .. Len(Roomy)
         /\ \A i \in 1 .. Len(Roomy) : Roomy[i].next \in 0 .. Len(Roomy)
<1>1. CASE first_free_request_id # 0
  BY <1>1 DEF Roomy, Taken, TableTypeOK
<1>2. CASE first_free_request_id = 0
  <2>1. Roomy = grow_closure_array /\ Taken = Len(closures) + 1 /\ Len(closures) \in Nat
    BY <1>2 DEF Roomy, Taken, TableTypeOK
  <2>2. \A i \in 1 .. Len(closures) : Roomy[i].next \in 0 .. Len(closures)
    BY <2>1, GrowType DEF TableTypeOK
  <2>3. ASSUME NEW i \in Len(closures) + 1 .. 2 * Len(closures)
        PROVE  Roomy[i].next \in 0 .. 2 * Len(closures)
    <3>1. Roomy[i] = FreeSlot(IF i = 2 * Len(closures) THEN 0 ELSE i + 1)
      BY <1>2, <2>1, GrowType
    <3>2. (IF i = 2 * Len(closures) THEN 0 ELSE i + 1) \in 0 .. 2 * Len(closures)
      BY <2>1
    <3> QED
      BY <3>1, <3>2, ClosureFields
  <2>4. Len(Roomy) = 2 * Len(closures) /\ Roomy \in Seq(Closure)
    BY <2>1, GrowType
  <2> QED
    BY <2>1, <2>2, <2>3, <2>4
<1> QED
  BY <1>1, <1>2

LEMMA EnqueueIs ==
  ASSUME NEW c, enqueue_request(c)
  PROVE  /\ closures' = [Roomy EXCEPT ![Taken] = UsedSlot(c)]
         /\ first_free_request_id' = Roomy[Taken].next
         /\ status' = IF Roomy[Taken].call = NoCall THEN status ELSE "undefined"
         /\ outgoing' = Append(outgoing, [id |-> Taken, call |-> c])
         /\ frame' = IF first_free_request_id = 0 /\ frame.kind = "respond"
                     THEN [frame EXCEPT !.grown = TRUE] ELSE frame
BY DEF enqueue_request, Roomy, Taken

\* The table after a slot was taken.
LEMMA EnqueueTable ==
  ASSUME TableTypeOK, Len(closures) > 0, NEW c \in Calls, enqueue_request(c)
  PROVE  /\ TableTypeOK' /\ Len(closures') = Len(Roomy)
         /\ \A i \in 1 .. Len(Roomy) :
              closures'[i] = IF i = Taken THEN UsedSlot(c) ELSE Roomy[i]
<1>1. /\ closures' = [Roomy EXCEPT ![Taken] = UsedSlot(c)]
      /\ first_free_request_id' = Roomy[Taken].next
  BY EnqueueIs
<1>2. /\ Roomy \in Seq(Closure) /\ Len(Roomy) \in Nat
      /\ Taken \in 1 .. Len(Roomy)
      /\ \A i \in 1 .. Len(Roomy) : Roomy[i].next \in 0 .. Len(Roomy)
  BY RoomyType
<1>3. UsedSlot(c) \in Closure /\ UsedSlot(c).next = 0
  BY ClosureFields
<1>4. closures' \in Seq(Closure) /\ Len(closures') = Len(Roomy)
  BY <1>1, <1>2, <1>3
<1>5. \A i \in 1 .. Len(Roomy) :
        closures'[i] = IF i = Taken THEN UsedSlot(c) ELSE Roomy[i]
  BY <1>1, <1>2
<1>6. \A i \in 1 .. Len(Roomy) : closures'[i].next \in 0 .. Len(Roomy)
  BY <1>2, <1>3, <1>5
<1> QED
  BY <1>1, <1>2, <1>4, <1>5, <1>6 DEF TableTypeOK

LEMMA RequestType ==
  /\ \A i \in Nat, c \in Calls : [id |-> i, call |-> c] \in Request
  /\ \A i \in Nat, c \in Calls \cup {NoCall}, ok \in BOOLEAN :
       [id |-> i, call |-> c, ok |-> ok] \in Response
  /\ \A r \in Request : r.id \in Nat /\ r.call \in Calls
  /\ \A r \in Response : /\ r.id \in Nat /\ r.call \in Calls \cup {NoCall}
                         /\ r.ok \in BOOLEAN
BY DEF Request, Response

LEMMA InvokeType ==
  ASSUME TypeInv, NEW c \in Calls, Invoke(c)
  PROVE  TypeInv'
<1>1. CASE /\ state = "CONNECTED" /\ enqueue_request(c) /\ update_connected_client_watch
           /\ UNCHANGED answers
  <2>1. /\ TableTypeOK /\ NetTypeOK /\ Len(closures) > 0 /\ FrameOK
        /\ UNCHANGED <<state, autoreconnect, fd, idle, timer, incoming, netVars>>
        /\ asked' = asked \cup {c}
    BY <1>1 DEF TypeInv, TableThere, Invoke
  <2>2. TableTypeOK' /\ Len(closures') = Len(Roomy)
    BY <1>1, <2>1, EnqueueTable
  <2>3. Len(Roomy) >= Len(closures) /\ Taken \in Nat /\ Len(closures) \in Nat /\ Len(Roomy) \in Nat
    BY <2>1, RoomyType DEF TableTypeOK
  <2>4. NetTypeOK'
    <3>1. [id |-> Taken, call |-> c] \in Request
      BY <2>3, RequestType
    <3>2. outgoing' = Append(outgoing, [id |-> Taken, call |-> c])
      BY <1>1, EnqueueIs
    <3>3. outgoing' \in Seq(Request)
      BY <2>1, <3>1, <3>2 DEF NetTypeOK
    <3> QED
      BY <2>1, <3>3 DEF NetTypeOK, netVars
  <2>5. ConnTypeOK'
    <3>1. status' \in {status, "undefined"}
      BY <1>1, EnqueueIs
    <3>2. watch' \in {watch, WatchOf("events", {READABLE, WRITABLE})}
      BY <1>1 DEF update_connected_client_watch
    <3>3. watch' \in WatchTypes /\ status' \in {"ok", "undefined"}
      BY <3>1, <3>2, WatchType DEF ConnTypeOK, TypeInv
    <3> QED
      BY <2>1, <3>3, Zenon DEF ConnTypeOK, TypeInv
  <2>6. CallTypeOK'
    BY <1>1, <2>1 DEF CallTypeOK, TypeInv
  <2>7. FrameOK'
    <3>1. frame' = IF first_free_request_id = 0 /\ frame.kind = "respond"
                   THEN [frame EXCEPT !.grown = TRUE] ELSE frame
      BY <1>1, EnqueueIs
    <3>2. CASE frame.kind = "respond"
      <4>1. /\ frame \in [kind : {"respond"}, resp : Response, call : Calls, grown : BOOLEAN]
            /\ frame.resp.id \in 1 .. Len(closures)
        BY <2>1, <3>2, FrameKinds
      <4>2. /\ frame' \in [kind : {"respond"}, resp : Response, call : Calls, grown : BOOLEAN]
            /\ frame'.resp = frame.resp
        BY <3>1, <4>1
      <4>3. frame'.resp.id \in 1 .. Len(closures') /\ state' = "CONNECTED"
        BY <1>1, <2>1, <2>2, <2>3, <4>1, <4>2
      <4> QED
        BY <4>2, <4>3 DEF FrameOK
    <3>3. CASE frame.kind # "respond"
      BY <1>1, <2>1, <3>1, <3>3 DEF FrameOK
    <3> QED
      BY <3>2, <3>3
  <2> QED
    BY <2>1, <2>2, <2>3, <2>4, <2>5, <2>6, <2>7 DEF TypeInv, TableThere
<1>2. CASE Tell(c, Null) /\ UNCHANGED <<watch, infoVars, outgoing, frame, status>>
  <2>1. CallTypeOK'
    <3>1. asked' \subseteq Calls /\ CallTypeOK
      BY DEF Invoke, TypeInv, CallTypeOK
    <3> QED
      BY <1>2, <3>1, TellType
  <2>2. UNCHANGED <<state, autoreconnect, fd, idle, timer, incoming, netVars>>
    BY DEF Invoke
  <2> QED
    BY <1>2, <2>1, <2>2 DEF TypeInv, ConnTypeOK, TableTypeOK, NetTypeOK, FrameOK,
                            TableThere, infoVars, netVars
<1>3. CASE status' = "undefined" /\ UNCHANGED <<watch, infoVars, outgoing, frame, answers>>
  <2>1. /\ UNCHANGED <<state, autoreconnect, fd, idle, timer, incoming, netVars>>
        /\ asked' = asked \cup {c}
    BY DEF Invoke
  <2>2. ConnTypeOK'
    BY <1>3, <2>1, Zenon DEF ConnTypeOK, TypeInv
  <2>3. CallTypeOK'
    BY <1>3, <2>1 DEF CallTypeOK, TypeInv
  <2> QED
    BY <1>3, <2>1, <2>2, <2>3 DEF TypeInv, TableTypeOK, NetTypeOK, FrameOK,
                            TableThere, infoVars, netVars
<1> QED
  BY <1>1, <1>2, <1>3 DEF Invoke

LEMMA WriteType ==
  ASSUME NetTypeOK, NEW n \in 0 .. Len(outgoing), Write(n)
  PROVE  /\ outgoing' \in Seq(Request) /\ atServer' \subseteq Request
         /\ watch' \in {watch, WatchOf("events", {READABLE})}
<1>1. outgoing' = SubSeq(outgoing, n + 1, Len(outgoing)) /\ outgoing \in Seq(Request)
  BY DEF Write, Written, NetTypeOK
<1>2. outgoing' \in Seq(Request)
  BY <1>1, SubSeqProperties
<1>3. atServer' \subseteq Request
  BY DEF Write, NetTypeOK
<1> QED
  BY <1>2, <1>3 DEF Write, WatchAfterWrite

\* A prefix of a sequence and what is left of it.
LEMMA CutType ==
  ASSUME NEW S, NEW s \in Seq(S), NEW n \in 0 .. Len(s)
  PROVE  /\ SubSeq(s, 1, n) \in Seq(S) /\ Len(SubSeq(s, 1, n)) = n
         /\ \A i \in 1 .. n : SubSeq(s, 1, n)[i] = s[i]
         /\ SubSeq(s, n + 1, Len(s)) \in Seq(S)
         /\ Len(SubSeq(s, n + 1, Len(s))) = Len(s) - n
         /\ \A i \in 1 .. Len(s) - n : SubSeq(s, n + 1, Len(s))[i] = s[n + i]
BY SubSeqProperties

LEMMA ReadableType ==
  ASSUME TypeInv, HandlersFitState, HandleReadable
  PROVE  TypeInv'
<1>1. /\ frame = NoFrame /\ watch.handler = "events" /\ frame' = LoopFrame
      /\ UNCHANGED <<state, autoreconnect, fd, idle, timer, infoVars, status, peer,
                     faulty, callVars>>
  BY FrameKinds DEF HandleReadable, InLoop, TypeInv
<1>2. NetTypeOK /\ ConnTypeOK
  BY DEF TypeInv
<1>3. /\ outgoing' \in Seq(Request) /\ atServer' \subseteq Request
      /\ watch' \in {watch, WatchOf("events", {READABLE})}
  <2>1. CASE NoWrite
    BY <1>2, <2>1 DEF NoWrite, NetTypeOK
  <2>2. CASE \E n \in 0 .. Len(outgoing) : Write(n)
    BY <1>2, <2>2, WriteType
  <2> QED
    BY <2>1, <2>2 DEF HandleReadable
<1>4. incoming' \in Seq(Response) /\ net' \in Seq(Response)
  <2>1. PICK n \in 1 .. Len(net) : /\ incoming' = incoming \o SubSeq(net, 1, n)
                                   /\ net' = SubSeq(net, n + 1, Len(net))
    BY DEF HandleReadable
  <2>2. net \in Seq(Response) /\ n \in 0 .. Len(net) /\ incoming \in Seq(Response)
    BY <1>2 DEF NetTypeOK
  <2>3. SubSeq(net, 1, n) \in Seq(Response) /\ net' \in Seq(Response)
    BY <2>1, <2>2, CutType
  <2> QED
    BY <2>1, <2>2, <2>3, ConcatProperties
<1>5. ConnTypeOK'
  <2>1. watch' \in WatchTypes
    BY <1>2, <1>3, WatchType DEF ConnTypeOK
  <2> QED
    BY <1>1, <1>2, <2>1, Zenon DEF ConnTypeOK
<1>6. NetTypeOK'
  BY <1>1, <1>2, <1>3, <1>4 DEF NetTypeOK
<1>7. TableTypeOK' /\ CallTypeOK' /\ TableThere'
  BY <1>1 DEF TypeInv, TableTypeOK, CallTypeOK, TableThere, infoVars, callVars
<1>8. FrameOK'
  <2>1. state = "CONNECTED"
    BY <1>1 DEF HandlersFitState, HandleReadable, InLoop
  <2> QED
    BY <1>1, <2>1 DEF FrameOK
<1> QED
  BY <1>1, <1>5, <1>6, <1>7, <1>8 DEF TypeInv

\* The remaining handlers of the dispatch, and the loop over responses.
LEMMA HandlerType ==
  ASSUME TypeInv, HandlersFitState,
         \/ HandleConnectEvents \/ HandleWritable \/ ProcessResponse
         \/ ResponseClosureReturns \/ NullClosureReturns
  PROVE  TypeInv'
<1> USE DEF TypeInv
<1>1. CASE HandleConnectEvents
  <2>1. /\ frame = NoFrame /\ UNCHANGED <<idle, autoreconnect, status>> /\ idle' \in BOOLEAN
    BY <1>1, FrameKinds DEF HandleConnectEvents, InLoop, ConnTypeOK
  <2>2. CASE client_failed /\ UNCHANGED asked
    BY <2>1, <2>2, FailedType
  <2>3. CASE /\ set_state_connected /\ watch' = NoWatch
             /\ UNCHANGED <<fd, timer, bufferVars, frame, atServer, net, faulty, callVars>>
    <3>1. TableTypeOK' /\ state' = "CONNECTED" /\ peer' = "open" /\ Len(closures') = 1
      BY <2>3, ConnectedType
    <3>2. ConnTypeOK'
      BY <2>1, <2>3, <3>1, WatchType, Zenon DEF ConnTypeOK, States
    <3>3. NetTypeOK' /\ CallTypeOK'
      BY <2>3, <3>1 DEF NetTypeOK, CallTypeOK, bufferVars, callVars
    <3> QED
      BY <2>1, <2>3, <3>1, <3>2, <3>3 DEF FrameOK, TableThere
  <2> QED
    BY <1>1, <2>2, <2>3 DEF HandleConnectEvents
<1>2. CASE HandleWritable
  <2>1. PICK n \in 0 .. Len(outgoing) : Write(n)
    BY <1>2 DEF HandleWritable
  <2>2. /\ outgoing' \in Seq(Request) /\ atServer' \subseteq Request
        /\ watch' \in {watch, WatchOf("events", {READABLE})}
    BY <2>1, WriteType
  <2>3. watch' \in WatchTypes
    BY <2>2, WatchType DEF ConnTypeOK
  <2>4. UNCHANGED <<state, autoreconnect, fd, idle, timer, infoVars, incoming, frame,
                    status, peer, net, faulty, callVars>>
    BY <1>2 DEF HandleWritable
  <2>5. ConnTypeOK'
    BY <2>3, <2>4, Zenon DEF ConnTypeOK
  <2>6. NetTypeOK'
    BY <2>2, <2>4 DEF NetTypeOK
  <2> QED
    BY <2>4, <2>5, <2>6 DEF TableTypeOK, CallTypeOK, FrameOK, TableThere, infoVars, callVars
<1>3. CASE ProcessResponse
  <2> DEFINE r == Head(incoming)
  <2>1. /\ frame = LoopFrame /\ state = "CONNECTED" /\ incoming # <<>>
        /\ UNCHANGED <<autoreconnect, idle, status, asked>> /\ idle' \in BOOLEAN
    BY <1>3, FrameKinds DEF ProcessResponse, ConnTypeOK, LoopFrame
  <2>2. r \in Response /\ Tail(incoming) \in Seq(Response)
    BY <2>1, HeadTailProperties DEF NetTypeOK
  <2>3. CASE ValidRequestId(r.id) /\ r.ok
    <3>1. /\ incoming' = Tail(incoming)
          /\ frame' = RespondFrame(r, closures[r.id].call)
          /\ Tell(closures[r.id].call, Message)
          /\ UNCHANGED <<state, fd, watch, timer, infoVars, outgoing, netVars>>
      BY <1>3, <2>3 DEF ProcessResponse
    <3>2. r.id \in 1 .. Len(closures)
      BY <2>2, <2>3, RequestType DEF ValidRequestId, TableTypeOK
    <3>3. closures[r.id].call \in Calls
      <4>1. closures[r.id] \in Closure
        BY <3>2 DEF TableTypeOK
      <4> QED
        BY <2>3, <4>1, ClosureFields DEF ValidRequestId
    <3> HIDE DEF r
    <3>4. CallTypeOK'
      BY <2>1, <3>1, <3>3, TellType DEF CallTypeOK
    <3>5. FrameOK'
      BY <2>1, <2>2, <3>1, <3>2, <3>3 DEF FrameOK, RespondFrame, infoVars
    <3>6. ConnTypeOK'
      BY <2>1, <3>1, Zenon DEF ConnTypeOK
    <3>7. NetTypeOK'
      BY <2>2, <3>1 DEF NetTypeOK, netVars
    <3> QED
      BY <2>1, <3>1, <3>4, <3>5, <3>6, <3>7 DEF TableTypeOK, TableThere, infoVars
  <2>4. CASE client_failed
    BY <2>1, <2>4, FailedType
  <2> QED
    BY <1>3, <2>3, <2>4 DEF ProcessResponse
<1>4. CASE ResponseClosureReturns
  <2>1. /\ frame.kind = "respond" /\ frame.resp.id \in 1 .. Len(closures)
        /\ state = "CONNECTED" /\ frame' = LoopFrame
        /\ first_free_request_id' = frame.resp.id
        /\ UNCHANGED <<state, autoreconnect, eventVars, bufferVars, status, netVars,
                       callVars>>
    BY <1>4, FrameKinds DEF ResponseClosureReturns
  <2>2. TableTypeOK' /\ Len(closures') = Len(closures)
    <3>1. ReleasedSlot \in Closure /\ ReleasedSlot.next = first_free_request_id
      BY ClosureFields DEF ReleasedSlot, TableTypeOK
    <3>2. closures' = closures \/ closures' = [closures EXCEPT ![frame.resp.id] = ReleasedSlot]
      BY <1>4 DEF ResponseClosureReturns
    <3>3. /\ closures' \in Seq(Closure) /\ Len(closures') = Len(closures)
          /\ \A i \in 1 .. Len(closures) : closures'[i] \in {closures[i], ReleasedSlot}
      BY <2>1, <3>1, <3>2 DEF TableTypeOK
    <3> QED
      BY <2>1, <3>1, <3>3 DEF TableTypeOK
  <2>3. FrameOK'
    BY <2>1 DEF FrameOK
  <2> QED
    BY <2>1, <2>2, <2>3 DEF ConnTypeOK, NetTypeOK, CallTypeOK, TableThere, eventVars,
                             bufferVars, netVars, callVars
<1>5. CASE NullClosureReturns
  <2>1. /\ frame.kind = "null" /\ frame.table \in Seq(Closure) /\ frame.at \in Nat
        /\ state \in {"FAILED_WAITING", "FAILED", "DESTROYED"}
        /\ null_closures(frame.table, frame.at)
        /\ UNCHANGED <<state, autoreconnect, eventVars, infoVars, bufferVars, status,
                       netVars, asked>>
    BY <1>5, FrameKinds DEF NullClosureReturns
  <2>2. FrameOK' /\ CallTypeOK'
    BY <2>1, NullClosuresType DEF CallTypeOK
  <2> QED
    BY <2>1, <2>2 DEF ConnTypeOK, NetTypeOK, TableTypeOK, TableThere, eventVars,
                      infoVars, bufferVars, netVars
<1> QED
  BY <1>1, <1>2, <1>3, <1>4, <1>5

LEMMA DestroyType ==
  ASSUME TypeInv, Destroy
  PROVE  TypeInv'
<1>1. TableTypeOK' /\ NetTypeOK' /\ fd' = FALSE /\ watch' = NoWatch
  BY DropType DEF Destroy
<1>2. /\ state' = "DESTROYED" /\ idle' = FALSE /\ timer' = FALSE
      /\ UNCHANGED <<autoreconnect, status, asked>> /\ null_closures(closures, 0)
  BY DEF Destroy
<1>3. ConnTypeOK'
  BY <1>1, <1>2, WatchType, Zenon DEF ConnTypeOK, TypeInv, States
<1>4. FrameOK' /\ CallTypeOK'
  BY <1>2, NullClosuresType DEF TypeInv, TableTypeOK, CallTypeOK
<1> QED
  BY <1>1, <1>2, <1>3, <1>4 DEF TypeInv, TableThere

LEMMA ServerType ==
  ASSUME TypeInv, Server
  PROVE  TypeInv'
<1> USE DEF TypeInv
<1>1. CASE ServerResponds
  <2>1. PICK r \in atServer, ok \in BOOLEAN :
          /\ atServer' = atServer \ {r}
          /\ net' = Append(net, [id |-> r.id, call |-> r.call, ok |-> ok])
          /\ UNCHANGED <<state, autoreconnect, eventVars, infoVars, bufferVars, frame,
                         status, peer, faulty, callVars>>
    BY <1>1 DEF ServerResponds
  <2>2. [id |-> r.id, call |-> r.call, ok |-> ok] \in Response
    BY RequestType DEF NetTypeOK
  <2>3. net' \in Seq(Response) /\ atServer' \subseteq Request
    BY <2>1, <2>2 DEF NetTypeOK
  <2>4. NetTypeOK'
    BY <2>1, <2>3 DEF NetTypeOK, bufferVars
  <2> QED
    BY <2>1, <2>4 DEF ConnTypeOK, TableTypeOK, CallTypeOK, FrameOK, TableThere, eventVars,
                      infoVars, callVars
<1>2. CASE ServerInvents
  <2>1. PICK id \in 0 .. MaxTable + 1 :
          /\ faulty' = TRUE
          /\ net' = Append(net, [id |-> id, call |-> NoCall, ok |-> TRUE])
          /\ UNCHANGED <<state, autoreconnect, eventVars, infoVars, bufferVars, frame,
                         status, peer, atServer, callVars>>
    BY <1>2 DEF ServerInvents
  <2>2. [id |-> id, call |-> NoCall, ok |-> TRUE] \in Response
    <3>1. id \in Nat
      BY ClientAssumption
    <3> QED
      BY <3>1, Zenon DEF Response
  <2>3. net' \in Seq(Response)
    BY <2>1, <2>2 DEF NetTypeOK
  <2>4. NetTypeOK'
    BY <2>1, <2>3 DEF NetTypeOK, bufferVars
  <2> QED
    BY <2>1, <2>4 DEF ConnTypeOK, TableTypeOK, CallTypeOK, FrameOK, TableThere, eventVars,
                      infoVars, callVars
<1>3. CASE ServerCloses
  <2>1. /\ peer' = "closed"
        /\ UNCHANGED <<state, autoreconnect, eventVars, infoVars, bufferVars, frame,
                       status, atServer, net, faulty, callVars>>
    BY <1>3 DEF ServerCloses
  <2>2. NetTypeOK'
    BY <2>1 DEF NetTypeOK, bufferVars
  <2> QED
    BY <2>1, <2>2 DEF ConnTypeOK, TableTypeOK, CallTypeOK, FrameOK, TableThere, eventVars,
                      infoVars, callVars
<1> QED
  BY <1>1, <1>2, <1>3 DEF Server
-----------------------------------------------------------------------------
(* What is registered with the dispatch.                                   *)

LEMMA FailedHandlers ==
  ASSUME client_failed, UNCHANGED status, ~idle', autoreconnect \in BOOLEAN
  PROVE  HandlersFitState'
<1>1. /\ state' = (IF autoreconnect THEN "FAILED_WAITING" ELSE "FAILED")
      /\ timer' = autoreconnect /\ fd' = FALSE /\ watch' = NoWatch
  BY DEF client_failed, drop_connection
<1>2. CASE autoreconnect
  BY <1>1, <1>2 DEF HandlersFitState, NoWatch
<1>3. CASE ~autoreconnect
  BY <1>1, <1>3 DEF HandlersFitState, NoWatch
<1> QED
  BY <1>2, <1>3

LEMMA LookupHandlers ==
  ASSUME ConnTypeOK, HandlersFitState, Running, begin_name_lookup, UNCHANGED status, ~idle',
         state \in {"INIT", "FAILED_WAITING"}
  PROVE  HandlersFitState'
<1>1. CASE client_failed
  BY <1>1, FailedHandlers DEF ConnTypeOK
<1>2. CASE /\ state' = "CONNECTING" /\ fd' = TRUE
           /\ watch' = WatchOf("connect", {READABLE, WRITABLE}) /\ timer' = FALSE
  BY <1>2 DEF HandlersFitState, WatchOf
<1>3. CASE /\ set_state_connected /\ fd' = TRUE /\ timer' = FALSE /\ UNCHANGED watch
  BY <1>3 DEF HandlersFitState, set_state_connected, Running
<1> QED
  BY <1>1, <1>2, <1>3 DEF begin_name_lookup

LEMMA HandlersStep ==
  ASSUME TypeInv, HandlersFitState, [Next]_vars
  PROVE  HandlersFitState'
<1> USE DEF TypeInv
<1>1. CASE HandleInitIdle
  <2>1. Running /\ idle /\ ~idle' /\ begin_name_lookup /\ UNCHANGED status
    BY <1>1 DEF HandleInitIdle, InLoop
  <2>2. state = "INIT"
    BY <2>1 DEF HandlersFitState
  <2> QED
    BY <2>1, <2>2, LookupHandlers
<1>2. CASE HandleAutoreconnectTimeout
  <2>1. Running /\ timer /\ begin_name_lookup /\ UNCHANGED <<idle, status>>
    BY <1>2 DEF HandleAutoreconnectTimeout, InLoop
  <2>2. state = "FAILED_WAITING" /\ ~idle
    BY <2>1 DEF HandlersFitState
  <2> QED
    BY <2>1, <2>2, LookupHandlers
<1>3. CASE HandleConnectEvents
  <2>1. Running /\ state = "CONNECTING" /\ ~idle /\ UNCHANGED <<idle, status>>
    BY <1>3 DEF HandleConnectEvents, InLoop, HandlersFitState
  <2>2. CASE client_failed
    BY <2>1, <2>2, FailedHandlers DEF ConnTypeOK
  <2>3. CASE set_state_connected /\ watch' = NoWatch /\ UNCHANGED <<fd, timer>>
    BY <2>1, <2>3 DEF set_state_connected, NoWatch, HandlersFitState
  <2> QED
    BY <1>3, <2>2, <2>3 DEF HandleConnectEvents
<1>4. CASE HandleWritable \/ HandleReadable
  <2>1. /\ Running /\ watch.handler = "events"
        /\ UNCHANGED <<state, fd, idle, timer, status>>
    BY <1>4 DEF HandleWritable, HandleReadable, InLoop
  <2>2. watch' = watch \/ watch' = WatchOf("events", {READABLE})
    BY <1>4 DEF HandleWritable, HandleReadable, Write, NoWrite, WatchAfterWrite
  <2>3. watch'.handler = "events"
    BY <2>1, <2>2 DEF WatchOf
  <2> QED
    BY <2>1, <2>3 DEF HandlersFitState, Running
<1>5. CASE HandleConnectionLost
  <2>1. ~idle /\ UNCHANGED <<idle, status>> /\ client_failed
    BY <1>5 DEF HandleConnectionLost, InLoop, HandlersFitState
  <2> QED
    BY <2>1, FailedHandlers DEF ConnTypeOK
<1>6. CASE ProcessResponse
  <2>1. Running /\ frame.kind = "loop" /\ UNCHANGED <<idle, status>>
    BY <1>6 DEF ProcessResponse, LoopFrame
  <2>2. state = "CONNECTED" /\ ~idle
    BY <2>1, FrameKinds DEF HandlersFitState
  <2>3. CASE UNCHANGED <<state, fd, watch, timer>>
    BY <2>1, <2>3 DEF HandlersFitState, Running
  <2>4. CASE client_failed
    BY <2>1, <2>2, <2>4, FailedHandlers DEF ConnTypeOK
  <2> QED
    BY <1>6, <2>3, <2>4 DEF ProcessResponse
<1>7. CASE ResponseClosureReturns \/ LoopEnds \/ NullClosureReturns
            \/ (\E on \in BOOLEAN : SetAutoreconnect(on)) \/ Server \/ Terminated
            \/ UNCHANGED vars
  <2>1. UNCHANGED <<state, eventVars, status>>
    BY <1>7 DEF ResponseClosureReturns, LoopEnds, NullClosureReturns, SetAutoreconnect,
                Server, ServerResponds, ServerInvents, ServerCloses, Terminated, vars
  <2> QED
    BY <2>1 DEF eventVars, HandlersFitState, Running
<1>8. CASE Destroy
  BY <1>8 DEF Destroy, drop_connection, HandlersFitState, NoWatch
<1>9. ASSUME NEW c \in Calls, Invoke(c)
      PROVE  HandlersFitState'
  <2>1. Running /\ UNCHANGED <<state, fd, idle, timer>>
    BY <1>9 DEF Invoke
  <2>2. CASE state = "CONNECTED" /\ update_connected_client_watch
    <3>1. watch' = watch \/ watch'.handler = "events"
      BY <2>2 DEF update_connected_client_watch, WatchOf
    <3> QED
      BY <2>1, <2>2, <3>1 DEF HandlersFitState, Running
  <2>3. CASE UNCHANGED watch
    BY <2>1, <2>3 DEF HandlersFitState, Running
  <2> QED
    BY <1>9, <2>2, <2>3 DEF Invoke
<1> QED
  BY <1>1, <1>2, <1>3, <1>4, <1>5, <1>6, <1>7, <1>8, <1>9
     DEF Next, ClientRuns, Program

LEMMA TypeStep ==
  ASSUME TypeInv, HandlersFitState, [Next]_vars
  PROVE  TypeInv'
<1>1. CASE HandleInitIdle \/ HandleAutoreconnectTimeout
  <2>1. frame = NoFrame /\ begin_name_lookup /\ UNCHANGED <<autoreconnect, status>>
        /\ idle' \in BOOLEAN
    BY <1>1, FrameKinds
       DEF HandleInitIdle, HandleAutoreconnectTimeout, InLoop, TypeInv, ConnTypeOK
  <2> QED
    BY <2>1, LookupType
<1>2. CASE HandleConnectionLost
  <2>1. client_failed /\ UNCHANGED <<autoreconnect, status, asked>> /\ idle' \in BOOLEAN
    BY <1>2 DEF HandleConnectionLost, TypeInv, ConnTypeOK
  <2> QED
    BY <2>1, FailedType
<1>3. CASE LoopEnds
  BY <1>3 DEF LoopEnds, TypeInv, ConnTypeOK, TableTypeOK, NetTypeOK, CallTypeOK, FrameOK,
              TableThere, eventVars, infoVars, bufferVars, netVars, callVars
<1>4. ASSUME NEW on \in BOOLEAN, SetAutoreconnect(on)
      PROVE  TypeInv'
  <2>1. ConnTypeOK'
    BY <1>4, Zenon DEF SetAutoreconnect, TypeInv, ConnTypeOK, eventVars
  <2> QED
    BY <1>4, <2>1 DEF SetAutoreconnect, TypeInv, TableTypeOK, NetTypeOK, CallTypeOK, FrameOK,
              TableThere, eventVars, infoVars, bufferVars, netVars, callVars
<1>5. CASE Terminated \/ UNCHANGED vars
  BY <1>5 DEF Terminated, vars, TypeInv, ConnTypeOK, TableTypeOK, NetTypeOK, CallTypeOK,
              FrameOK, TableThere, eventVars, infoVars, bufferVars, netVars, callVars
<1> QED
  BY <1>1, <1>2, <1>3, <1>4, <1>5, ReadableType, HandlerType, DestroyType, ServerType,
     InvokeType DEF Next, ClientRuns, Program

LEMMA TypeInit == Init => TypeInv /\ HandlersFitState
<1> SUFFICES ASSUME Init PROVE TypeInv /\ HandlersFitState
  OBVIOUS
<1>1. ConnTypeOK
  BY WatchType, Zenon DEF Init, ConnTypeOK, States
<1>2. TableTypeOK /\ TableThere
  BY DEF Init, TableTypeOK, TableThere
<1>3. NetTypeOK
  <2>1. outgoing \in Seq(Request) /\ incoming \in Seq(Response) /\ net \in Seq(Response)
    BY DEF Init
  <2> QED
    BY <2>1 DEF Init, NetTypeOK
<1>4. CallTypeOK
  BY DEF Init, CallTypeOK
<1>5. FrameOK
  BY DEF Init, FrameOK
<1>6. HandlersFitState
  BY DEF Init, HandlersFitState, NoWatch
<1> QED
  BY <1>1, <1>2, <1>3, <1>4, <1>5, <1>6 DEF TypeInv

LEMMA TypeAlways == Spec => [](TypeInv /\ HandlersFitState)
<1>1. TypeInv /\ HandlersFitState /\ [Next]_vars => (TypeInv /\ HandlersFitState)'
  BY TypeStep, HandlersStep
<1> QED
  BY <1>1, TypeInit, PTL DEF Spec

\* The variables keep their types, whatever the program, the server and the
\* network do: the free list never leads out of the table, and a response being
\* handled keeps its slot, which moves and grows under it.
THEOREM ClientTypeCorrect == Spec => []TypeOK
BY TypeAlways, TypeInvImplies, PTL

\* The assertions at the head of the client's handlers hold, and nothing is
\* registered with the dispatch any more when the client is freed.
THEOREM ClientHandlersFit == Spec => []HandlersFitState
BY TypeAlways, PTL
-----------------------------------------------------------------------------
(* A client without a connection holds nothing of one.                     *)

Quiet ==
  state # "CONNECTED" =>
    /\ closures = <<>> /\ first_free_request_id = 0
    /\ outgoing = <<>> /\ incoming = <<>>
    /\ net = <<>> /\ atServer = {} /\ peer = "none" /\ ~faulty

LEMMA QuietStep ==
  ASSUME TypeInv, HandlersFitState, Quiet, [Next]_vars
  PROVE  Quiet'
<1> USE DEF Quiet
<1>1. CASE drop_connection
  BY <1>1 DEF drop_connection
<1>2. CASE set_state_connected
  BY <1>2 DEF set_state_connected
<1>3. CASE HandleInitIdle \/ HandleAutoreconnectTimeout
  <2>1. state # "CONNECTED" /\ begin_name_lookup
    BY <1>3 DEF HandleInitIdle, HandleAutoreconnectTimeout, InLoop, HandlersFitState
  <2>2. CASE UNCHANGED <<infoVars, bufferVars, frame, netVars, callVars>>
    BY <2>1, <2>2 DEF infoVars, bufferVars, netVars
  <2> QED
    BY <1>1, <1>2, <2>1, <2>2 DEF begin_name_lookup, client_failed
<1>4. CASE HandleConnectEvents \/ HandleConnectionLost \/ Destroy
  BY <1>1, <1>2, <1>4 DEF HandleConnectEvents, HandleConnectionLost, Destroy, client_failed
<1>5. CASE HandleWritable \/ HandleReadable
  <2>1. state = "CONNECTED" /\ UNCHANGED state
    BY <1>5 DEF HandleWritable, HandleReadable, InLoop, HandlersFitState
  <2> QED
    BY <2>1
<1>6. CASE ProcessResponse
  <2>1. state = "CONNECTED"
    BY <1>6, FrameKinds DEF ProcessResponse, LoopFrame, TypeInv
  <2> QED
    BY <1>1, <1>6, <2>1 DEF ProcessResponse, client_failed
<1>7. CASE ResponseClosureReturns
  BY <1>7, FrameKinds DEF ResponseClosureReturns, TypeInv
<1>8. CASE LoopEnds \/ NullClosureReturns \/ (\E on \in BOOLEAN : SetAutoreconnect(on))
            \/ Terminated \/ UNCHANGED vars
  BY <1>8 DEF LoopEnds, NullClosureReturns, SetAutoreconnect, Terminated, vars, infoVars,
              bufferVars, netVars
<1>9. ASSUME NEW c \in Calls, Invoke(c)
      PROVE  Quiet'
  BY <1>9 DEF Invoke, infoVars, netVars
<1>10. CASE Server
  BY <1>10 DEF Server, ServerResponds, ServerInvents, ServerCloses, infoVars, bufferVars
<1> QED
  BY <1>3, <1>4, <1>5, <1>6, <1>7, <1>8, <1>9, <1>10 DEF Next, ClientRuns, Program
-----------------------------------------------------------------------------
(* The slots of calls.                                                     *)

\* The calls in the slots after i, and that none is there twice.
CallsIn(table, i)  == {table[j].call : j \in UsedAfter(table, i)}
Distinct(table, i) ==
  \A j, k \in UsedAfter(table, i) : table[j].call = table[k].call => j = k

\* Calls that are not made yet have no answer.
Unasked == \A c \in Calls : c \notin asked => answers[c] = <<>>

\* The closure that runs has been told, and its slot is still its own.
ReplyOK ==
  frame.kind = "respond" =>
    /\ ~frame.grown
    /\ closures[frame.resp.id].call = frame.call
    /\ frame.call \in asked /\ answers[frame.call] # <<>>

\* The calls that occupy slots of the table in use.
Busy == Waiting \cup (IF frame.kind = "respond" THEN {frame.call} ELSE {})

TableOK ==
  IF frame.kind = "null"
  THEN /\ Distinct(frame.table, frame.at)
       /\ CallsIn(frame.table, frame.at) = Waiting
  ELSE /\ Distinct(closures, 0)
       /\ CallsIn(closures, 0) = Busy

SlotInv == Unasked /\ (Running => ReplyOK /\ TableOK)

LEMMA NoSlots == UsedAfter(<<>>, 0) = {} /\ CallsIn(<<>>, 0) = {} /\ Distinct(<<>>, 0)
BY DEF UsedAfter, CallsIn, Distinct

\* Telling a call that waits.
LEMMA TellWaiting ==
  ASSUME CallTypeOK, Unasked, NEW c \in Waiting, NEW a \in {Message, Null}, Tell(c, a),
         UNCHANGED asked
  PROVE  Unasked' /\ Waiting' = Waiting \ {c} /\ answers'[c] = <<a>>
<1>1. c \in Calls /\ c \in asked /\ answers[c] = <<>> /\ asked \subseteq Calls
  BY DEF Waiting, CallTypeOK
<1>2. answers' = [answers EXCEPT ![c] = <<a>>]
  BY <1>1 DEF Tell
<1>3. answers'[c] = <<a>> /\ \A d \in Calls : d # c => answers'[d] = answers[d]
  BY <1>1, <1>2 DEF CallTypeOK
<1>4. <<a>> # <<>>
  OBVIOUS
<1> QED
  BY <1>1, <1>3, <1>4 DEF Unasked, Waiting

LEMMA NullClosuresSlots ==
  ASSUME NEW table \in Seq(Closure), NEW i \in Nat, CallTypeOK, Unasked,
         Distinct(table, i), CallsIn(table, i) = Waiting,
         null_closures(table, i), UNCHANGED asked, closures' = <<>>
  PROVE  SlotInv'
<1>1. CASE UsedAfter(table, i) = {}
  <2>1. Waiting = {} /\ frame' = NoFrame /\ UNCHANGED answers
    BY <1>1 DEF CallsIn, null_closures
  <2>2. Waiting' = {} /\ frame'.kind = "none"
    BY <2>1 DEF Waiting, NoFrame
  <2>3. Busy' = {} /\ ReplyOK'
    BY <2>2 DEF Busy, ReplyOK
  <2>4. UsedAfter(closures', 0) = {}
    BY NoSlots
  <2>5. TableOK'
    BY <2>2, <2>3, <2>4 DEF TableOK, Distinct, CallsIn
  <2> QED
    BY <2>1, <2>3, <2>5 DEF SlotInv, Unasked
<1>2. CASE UsedAfter(table, i) # {}
  <2> DEFINE j == NextUsed(table, i)
             c == table[j].call
  <2>1. /\ j \in UsedAfter(table, i) /\ \A k \in UsedAfter(table, i) : j <= k
        /\ j \in i + 1 .. Len(table)
    BY <1>2, NextUsedIs
  <2>2. frame' = NullFrame(table, j) /\ Tell(c, Null)
    BY <1>2 DEF null_closures
  <2> HIDE DEF j
  <2>3. UsedAfter(table, j) = UsedAfter(table, i) \ {j}
    BY <2>1 DEF UsedAfter
  <2>4. c \in Waiting
    BY <2>1 DEF CallsIn
  <2>5. CallsIn(table, j) = CallsIn(table, i) \ {c} /\ Distinct(table, j)
    BY <2>1, <2>3 DEF CallsIn, Distinct
  <2>6. Unasked' /\ Waiting' = Waiting \ {c}
    BY <2>2, <2>4, TellWaiting
  <2>7. frame'.kind = "null" /\ frame'.table = table /\ frame'.at = j
    BY <2>2 DEF NullFrame
  <2>8. CallsIn(table, j) = Waiting' /\ Distinct(table, j)
    BY <2>5, <2>6
  <2> HIDE DEF c
  <2>9. ReplyOK'
    BY <2>7 DEF ReplyOK
  <2>10. TableOK'
    BY <2>7, <2>8 DEF TableOK, Distinct, CallsIn, UsedAfter
  <2> QED
    BY <2>6, <2>9, <2>10 DEF SlotInv
<1> QED
  BY <1>1, <1>2
-----------------------------------------------------------------------------
(* The free list.                                                          *)

FreeSlots(table) == {i \in 1 .. Len(table) : table[i].call = NoCall}

\* L lists the m free slots of a table in the order of the links.
Chain(table, head, m, L) ==
  /\ L \in [1 .. m -> 1 .. Len(table)]
  /\ \A i, j \in 1 .. m : L[i] = L[j] => i = j
  /\ FreeSlots(table) = {L[k] : k \in 1 .. m}
  /\ head = IF m = 0 THEN 0 ELSE L[1]
  /\ \A k \in 1 .. m : table[L[k]].next = IF k = m THEN 0 ELSE L[k + 1]

Chained(table, head) == \E m \in Nat : \E L : Chain(table, head, m, L)

\* Taking the head off.
LEMMA ChainPop ==
  ASSUME NEW table \in Seq(Closure), NEW head, Chained(table, head), head # 0,
         NEW c \in Calls, NEW new \in Seq(Closure), Len(new) = Len(table),
         \A i \in 1 .. Len(table) : new[i] = IF i = head THEN UsedSlot(c) ELSE table[i]
  PROVE  /\ head \in 1 .. Len(table) /\ table[head].call = NoCall
         /\ Chained(new, table[head].next)
<1>1. PICK m \in Nat : \E L : Chain(table, head, m, L)
  BY DEF Chained
<1>2. PICK L : Chain(table, head, m, L)
  BY <1>1
<1>3. /\ m # 0 /\ head = L[1]
      /\ L \in [1 .. m -> 1 .. Len(table)]
      /\ \A i, j \in 1 .. m : L[i] = L[j] => i = j
      /\ FreeSlots(table) = {L[k] : k \in 1 .. m}
      /\ \A k \in 1 .. m : table[L[k]].next = IF k = m THEN 0 ELSE L[k + 1]
  BY <1>2 DEF Chain
<1>4. head \in 1 .. Len(table) /\ head \in FreeSlots(table)
  BY <1>3
<1>5. UsedSlot(c).call # NoCall
  BY ClosureFields, ClientAssumption
<1>6. FreeSlots(new) = FreeSlots(table) \ {head}
  BY <1>4, <1>5 DEF FreeSlots
<1> DEFINE M == [k \in 1 .. m - 1 |-> L[k + 1]]
<1>7. M \in [1 .. m - 1 -> 1 .. Len(new)]
  BY <1>3
<1>8. \A i, j \in 1 .. m - 1 : M[i] = M[j] => i = j
  BY <1>3
<1>9. FreeSlots(new) = {M[k] : k \in 1 .. m - 1}
  <2>1. \A x \in FreeSlots(new) : \E k \in 1 .. m - 1 : x = M[k]
    <3> SUFFICES ASSUME NEW x \in FreeSlots(new)
                 PROVE  \E k \in 1 .. m - 1 : x = M[k]
      OBVIOUS
    <3>1. PICK k \in 1 .. m : x = L[k]
      BY <1>3, <1>6
    <3>2. k # 1
      BY <1>3, <1>6, <3>1
    <3>3. k - 1 \in 1 .. m - 1 /\ M[k - 1] = L[k]
      BY <3>2
    <3> QED
      BY <3>1, <3>3
  <2>2. \A k \in 1 .. m - 1 : M[k] \in FreeSlots(new)
    BY <1>3, <1>6
  <2> QED
    BY <2>1, <2>2
<1>10. table[head].next = IF m - 1 = 0 THEN 0 ELSE M[1]
  BY <1>3
<1>11. ASSUME NEW k \in 1 .. m - 1
       PROVE  new[M[k]].next = IF k = m - 1 THEN 0 ELSE M[k + 1]
  <2>1. k + 1 \in 1 .. m /\ M[k] = L[k + 1] /\ L[k + 1] # head /\ L[k + 1] \in 1 .. Len(table)
    BY <1>3
  <2>2. new[M[k]] = table[L[k + 1]]
    BY <2>1
  <2> QED
    BY <1>3, <2>1, <2>2
<1> HIDE DEF M
<1>12. Chain(new, table[head].next, m - 1, M) /\ m - 1 \in Nat
  BY <1>3, <1>7, <1>8, <1>9, <1>10, <1>11 DEF Chain
<1> QED
  BY <1>3, <1>4, <1>12 DEF Chained, FreeSlots

\* Putting a slot that is in use at the head.
LEMMA ChainPush ==
  ASSUME NEW table \in Seq(Closure), NEW head \in Nat, Chained(table, head),
         NEW id \in 1 .. Len(table), table[id].call # NoCall,
         NEW new \in Seq(Closure), Len(new) = Len(table),
         \A i \in 1 .. Len(table) : new[i] = IF i = id THEN FreeSlot(head) ELSE table[i]
  PROVE  Chained(new, id)
<1>1. PICK m \in Nat : \E L : Chain(table, head, m, L)
  BY DEF Chained
<1>2. PICK L : Chain(table, head, m, L)
  BY <1>1
<1>3. /\ head = IF m = 0 THEN 0 ELSE L[1]
      /\ L \in [1 .. m -> 1 .. Len(table)]
      /\ \A i, j \in 1 .. m : L[i] = L[j] => i = j
      /\ FreeSlots(table) = {L[k] : k \in 1 .. m}
      /\ \A k \in 1 .. m : table[L[k]].next = IF k = m THEN 0 ELSE L[k + 1]
  BY <1>2 DEF Chain
<1>4. FreeSlot(head).call = NoCall /\ FreeSlot(head).next = head
  BY ClosureFields
<1>5. FreeSlots(new) = FreeSlots(table) \cup {id} /\ id \notin FreeSlots(table)
  BY <1>4 DEF FreeSlots
<1> DEFINE M == [k \in 1 .. m + 1 |-> IF k = 1 THEN id ELSE L[k - 1]]
<1>6. M \in [1 .. m + 1 -> 1 .. Len(new)]
  BY <1>3
<1>7. \A i, j \in 1 .. m + 1 : M[i] = M[j] => i = j
  <2>1. \A k \in 2 .. m + 1 : M[k] = L[k - 1] /\ M[k] # id
    BY <1>3, <1>5
  <2>2. M[1] = id
    OBVIOUS
  <2> HIDE DEF M
  <2>3. \A i, j \in 2 .. m + 1 : M[i] = M[j] => i = j
    BY <1>3, <2>1
  <2> QED
    BY <2>1, <2>2, <2>3
<1>8. FreeSlots(new) = {M[k] : k \in 1 .. m + 1}
  <2>1. ASSUME NEW x \in FreeSlots(new)
        PROVE  \E k \in 1 .. m + 1 : x = M[k]
    <3>1. CASE x = id
      BY <3>1
    <3>2. CASE x # id
      <4>1. PICK k \in 1 .. m : x = L[k]
        BY <1>3, <1>5, <3>2
      <4>2. k + 1 \in 1 .. m + 1 /\ M[k + 1] = L[k]
        OBVIOUS
      <4> QED
        BY <4>1, <4>2
    <3> QED
      BY <3>1, <3>2
  <2>2. \A k \in 1 .. m + 1 : M[k] \in FreeSlots(new)
    BY <1>3, <1>5
  <2> QED
    BY <2>1, <2>2
<1>9. ASSUME NEW k \in 1 .. m + 1
      PROVE  new[M[k]].next = IF k = m + 1 THEN 0 ELSE M[k + 1]
  <2>1. CASE k = 1
    <3>1. new[M[k]].next = head
      BY <1>4, <2>1
    <3> QED
      BY <1>3, <2>1, <3>1
  <2>2. CASE k # 1
    <3>1. k - 1 \in 1 .. m /\ M[k] = L[k - 1] /\ L[k - 1] # id /\ L[k - 1] \in 1 .. Len(table)
      BY <1>3, <1>5, <2>2
    <3>2. new[M[k]] = table[L[k - 1]]
      BY <3>1
    <3>3. k # m + 1 => M[k + 1] = L[k]
      BY <2>2
    <3> QED
      BY <1>3, <3>1, <3>2, <3>3
  <2> QED
    BY <2>1, <2>2
<1>10. M[1] = id
  OBVIOUS
<1> HIDE DEF M
<1>11. Chain(new, id, m + 1, M) /\ m + 1 \in Nat
  BY <1>6, <1>7, <1>8, <1>9, <1>10 DEF Chain
<1> QED
  BY <1>11 DEF Chained

\* A table without free slots that is enlarged.
LEMMA ChainGrow ==
  ASSUME TableTypeOK, Len(closures) > 0, Chained(closures, 0), first_free_request_id = 0
  PROVE  Chained(grow_closure_array, Len(closures) + 1)
<1> DEFINE n == Len(closures)
           G == grow_closure_array
           M == [k \in 1 .. n |-> n + k]
<1>1. /\ n \in Nat /\ G \in Seq(Closure) /\ Len(G) = 2 * n
      /\ \A i \in 1 .. n : G[i] = closures[i]
      /\ \A i \in n + 1 .. 2 * n : G[i] = FreeSlot(IF i = 2 * n THEN 0 ELSE i + 1)
  BY GrowType DEF TableTypeOK
<1>2. \A i \in 1 .. n : closures[i].call # NoCall
  <2>1. PICK m \in Nat : \E L : Chain(closures, 0, m, L)
    BY DEF Chained
  <2>2. PICK L : Chain(closures, 0, m, L)
    BY <2>1
  <2>3. m = 0
    BY <2>2 DEF Chain
  <2>4. FreeSlots(closures) = {}
    BY <2>2, <2>3 DEF Chain
  <2> QED
    BY <2>4 DEF FreeSlots
<1> HIDE DEF G
<1>3. \A i \in n + 1 .. 2 * n :
        G[i].call = NoCall /\ G[i].next = IF i = 2 * n THEN 0 ELSE i + 1
  BY <1>1, ClosureFields
<1>4. FreeSlots(G) = n + 1 .. 2 * n
  BY <1>1, <1>2, <1>3 DEF FreeSlots
<1>5. FreeSlots(G) = {M[k] : k \in 1 .. n}
  <2>1. ASSUME NEW x \in n + 1 .. 2 * n
        PROVE  \E k \in 1 .. n : x = M[k]
    <3>1. x - n \in 1 .. n /\ M[x - n] = x
      BY <1>1
    <3> QED
      BY <3>1
  <2>2. \A k \in 1 .. n : M[k] \in n + 1 .. 2 * n
    BY <1>1
  <2> QED
    BY <1>4, <2>1, <2>2
<1>6. /\ M \in [1 .. n -> 1 .. Len(G)]
      /\ \A i, j \in 1 .. n : M[i] = M[j] => i = j
      /\ n + 1 = IF n = 0 THEN 0 ELSE M[1]
  BY <1>1
<1>7. \A k \in 1 .. n : G[M[k]].next = IF k = n THEN 0 ELSE M[k + 1]
  BY <1>1, <1>3
<1> HIDE DEF M
<1>8. Chain(G, n + 1, n, M)
  BY <1>5, <1>6, <1>7 DEF Chain
<1>9. Chained(G, n + 1)
  BY <1>1, <1>8 DEF Chained
<1> QED
  BY <1>9 DEF G

\* The head and what follows it are the slots of the chain.
LEMMA ChainIsFreeList ==
  ASSUME TableTypeOK, Chained(closures, first_free_request_id)
  PROVE  FreeList = FreeSlots(closures)
<1>1. PICK m \in Nat : \E L : Chain(closures, first_free_request_id, m, L)
  BY DEF Chained
<1>2. PICK L : Chain(closures, first_free_request_id, m, L)
  BY <1>1
<1>3. /\ first_free_request_id = IF m = 0 THEN 0 ELSE L[1]
      /\ L \in [1 .. m -> 1 .. Len(closures)]
      /\ FreeSlots(closures) = {L[k] : k \in 1 .. m}
      /\ \A k \in 1 .. m : closures[L[k]].next = IF k = m THEN 0 ELSE L[k + 1]
  BY <1>2 DEF Chain
<1>4. FreeSlots(closures) \in SUBSET (1 .. Len(closures))
  BY DEF FreeSlots
<1>5. Follows(FreeSlots(closures))
  <2>1. first_free_request_id # 0 => first_free_request_id \in FreeSlots(closures)
    BY <1>3
  <2>2. ASSUME NEW i \in FreeSlots(closures), closures[i].next # 0
        PROVE  closures[i].next \in FreeSlots(closures)
    <3>1. PICK k \in 1 .. m : i = L[k]
      BY <1>3
    <3>2. k # m /\ closures[i].next = L[k + 1]
      BY <1>3, <2>2, <3>1
    <3>3. k + 1 \in 1 .. m
      BY <3>2
    <3> QED
      BY <1>3, <3>2, <3>3
  <2> QED
    BY <2>1, <2>2 DEF Follows
<1>6. ASSUME NEW S \in SUBSET (1 .. Len(closures)), Follows(S)
      PROVE  \A k \in 1 .. m : L[k] \in S
  <2> DEFINE Bad == {k \in 1 .. m : L[k] \notin S}
  <2>1. SUFFICES ASSUME Bad # {} PROVE FALSE
    OBVIOUS
  <2>2. Bad \in SUBSET Nat
    OBVIOUS
  <2>3. PICK k \in Bad : \A j \in Bad : k <= j
    BY <2>1, <2>2, SmallestExists
  <2>4. k \in 1 .. m /\ L[k] \notin S /\ L[k] # 0
    BY <1>3, <2>3
  <2>5. k # 1
    BY <1>3, <1>6, <2>4 DEF Follows
  <2>6. k - 1 \in 1 .. m /\ k - 1 \notin Bad
    BY <2>3, <2>4, <2>5
  <2>7. L[k - 1] \in S /\ closures[L[k - 1]].next = L[k]
    BY <1>3, <2>4, <2>6
  <2> QED
    BY <1>6, <2>4, <2>7 DEF Follows
<1> QED
  BY <1>3, <1>4, <1>5, <1>6 DEF FreeList
-----------------------------------------------------------------------------
(* Every call has its slot, and the free list has the others.              *)

FreeInv == Running => Chained(closures, first_free_request_id)

LEMMA ChainStart == Chained(<<>>, 0) /\ Chained(<<FreeSlot(0)>>, 1)
<1>1. Chained(<<>>, 0)
  <2>1. Chain(<<>>, 0, 0, <<>>)
    BY DEF Chain, FreeSlots
  <2> QED
    BY <2>1 DEF Chained
<1>2. Chained(<<FreeSlot(0)>>, 1)
  <2> DEFINE t == <<FreeSlot(0)>>
  <2>1. t \in Seq(Closure) /\ Len(t) = 1 /\ t[1].call = NoCall /\ t[1].next = 0
    BY ClosureFields
  <2> HIDE DEF t
  <2>2. FreeSlots(t) = {1}
    BY <2>1 DEF FreeSlots
  <2>3. Chain(t, 1, 1, <<1>>)
    BY <2>1, <2>2 DEF Chain
  <2>4. Chained(t, 1)
    BY <2>3 DEF Chained
  <2> QED
    BY <2>4 DEF t
<1> QED
  BY <1>1, <1>2

\* The connection is given up while no closure runs.
LEMMA DropSlots ==
  ASSUME TypeInv, SlotInv, Running, frame.kind \in {"none", "loop"},
         drop_connection, null_closures(closures, 0), UNCHANGED asked
  PROVE  SlotInv' /\ FreeInv'
<1>1. Distinct(closures, 0) /\ CallsIn(closures, 0) = Waiting /\ Unasked
  BY DEF SlotInv, TableOK, Busy
<1>2. closures' = <<>> /\ first_free_request_id' = 0
  BY DEF drop_connection
<1>3. SlotInv'
  BY <1>1, <1>2, NullClosuresSlots DEF TypeInv, TableTypeOK
<1>4. FreeInv'
  BY <1>2, ChainStart DEF FreeInv
<1> QED
  BY <1>3, <1>4

LEMMA ConnectedSlots ==
  ASSUME SlotInv, Running, frame = NoFrame, closures = <<>>, set_state_connected,
         UNCHANGED <<frame, status, callVars>>
  PROVE  SlotInv' /\ FreeInv'
<1>1. frame.kind = "none" /\ Waiting = {} /\ Unasked
  BY NoSlots DEF SlotInv, TableOK, Busy, NoFrame
<1>2. closures' = <<FreeSlot(0)>> /\ first_free_request_id' = 1 /\ UNCHANGED <<asked, answers>>
  BY DEF set_state_connected, callVars
<1>3. UsedAfter(closures', 0) = {}
  <2>1. FreeSlot(0).call = NoCall
    BY ClosureFields
  <2> QED
    BY <1>2, <2>1 DEF UsedAfter
<1>4. Waiting' = {} /\ Unasked'
  BY <1>1, <1>2 DEF Waiting, Unasked
<1>5. ReplyOK' /\ TableOK'
  BY <1>1, <1>3, <1>4 DEF ReplyOK, TableOK, Busy, Distinct, CallsIn
<1>6. FreeInv'
  BY <1>2, ChainStart DEF FreeInv
<1> QED
  BY <1>4, <1>5, <1>6 DEF SlotInv

\* A step that leaves calls and slots alone, in the same or another function.
LEMMA SameSlots ==
  ASSUME SlotInv, FreeInv, UNCHANGED <<infoVars, status, callVars>>,
         \/ UNCHANGED frame
         \/ frame.kind \in {"none", "loop"} /\ frame'.kind \in {"none", "loop"}
  PROVE  SlotInv' /\ FreeInv'
<1>1. UNCHANGED <<closures, first_free_request_id, status, asked, answers>>
  BY DEF infoVars, callVars
<1>2. Unasked' /\ Waiting' = Waiting /\ FreeInv'
  <2>1. Unasked'
    BY <1>1 DEF SlotInv, Unasked
  <2>2. Waiting' = Waiting
    BY <1>1 DEF Waiting
  <2>3. FreeInv'
    BY <1>1 DEF FreeInv, Running, Chained, Chain, FreeSlots
  <2> QED
    BY <2>1, <2>2, <2>3
<1>3. ASSUME Running
      PROVE  ReplyOK' /\ TableOK'
  <2>1. CASE UNCHANGED frame
    BY <1>1, <1>2, <1>3, <2>1
       DEF SlotInv, ReplyOK, TableOK, Busy, Distinct, CallsIn, UsedAfter
  <2>2. CASE frame.kind \in {"none", "loop"} /\ frame'.kind \in {"none", "loop"}
    BY <1>1, <1>2, <1>3, <2>2
       DEF SlotInv, ReplyOK, TableOK, Busy, Distinct, CallsIn, UsedAfter
  <2> QED
    BY <2>1, <2>2
<1> QED
  BY <1>1, <1>2, <1>3 DEF SlotInv, Running

\* A response is given to the call that holds its slot.
LEMMA RespondSlots ==
  ASSUME TypeInv, SlotInv, FreeInv, Running, frame.kind = "loop",
         NEW r \in Response, ValidRequestId(r.id),
         frame' = RespondFrame(r, closures[r.id].call),
         Tell(closures[r.id].call, Message),
         UNCHANGED <<infoVars, status, asked>>
  PROVE  /\ SlotInv' /\ FreeInv' /\ closures[r.id].call \in Waiting
         /\ r.id \in 1 .. Len(closures)
<1> DEFINE c == closures[r.id].call
<1>1. r.id \in 1 .. Len(closures) /\ c # NoCall
  BY RequestType DEF ValidRequestId, TypeInv, TableTypeOK
<1>2. Distinct(closures, 0) /\ CallsIn(closures, 0) = Waiting /\ Unasked
  BY DEF SlotInv, TableOK, Busy
<1>3. c \in Waiting
  BY <1>1, <1>2 DEF CallsIn, UsedAfter
<1>4. Unasked' /\ Waiting' = Waiting \ {c} /\ answers'[c] = <<Message>>
  BY <1>2, <1>3, TellWaiting DEF TypeInv
<1>5. /\ frame'.kind = "respond" /\ frame'.call = c /\ frame'.grown = FALSE
      /\ frame'.resp = r
  BY DEF RespondFrame
<1>6. UNCHANGED <<closures, first_free_request_id, status, asked>>
  BY DEF infoVars
<1>7. c \in asked
  BY <1>3 DEF Waiting
<1>8. c = closures[r.id].call
  OBVIOUS
<1> HIDE DEF c
<1>9. ReplyOK'
  <2>1. <<Message>> # <<>>
    OBVIOUS
  <2>2. closures'[frame'.resp.id].call = frame'.call
    BY <1>5, <1>6, <1>8
  <2>3. frame'.call \in asked' /\ answers'[frame'.call] # <<>>
    BY <1>4, <1>5, <1>6, <1>7, <2>1
  <2> QED
    BY <1>5, <2>2, <2>3 DEF ReplyOK
<1>10. Busy' = Waiting
  BY <1>3, <1>4, <1>5 DEF Busy
<1>11. TableOK'
  BY <1>2, <1>5, <1>6, <1>10 DEF TableOK, Distinct, CallsIn, UsedAfter
<1>12. FreeInv'
  BY <1>6 DEF FreeInv, Running
<1> QED
  BY <1>1, <1>3, <1>4, <1>8, <1>9, <1>11, <1>12 DEF SlotInv

\* The closure returns and its slot is released.
LEMMA ReleaseSlots ==
  ASSUME TypeInv, SlotInv, FreeInv, ResponseClosureReturns
  PROVE  SlotInv' /\ FreeInv'
<1> DEFINE id == frame.resp.id
           c  == frame.call
<1>1. /\ Running /\ frame.kind = "respond" /\ frame' = LoopFrame
      /\ first_free_request_id' = id
      /\ UNCHANGED <<status, asked, answers>>
  BY DEF ResponseClosureReturns, callVars
<1>2. /\ id \in 1 .. Len(closures) /\ c \in Calls
      /\ closures \in Seq(Closure) /\ first_free_request_id \in Nat
  BY <1>1, FrameKinds DEF TypeInv, TableTypeOK
<1>3. /\ frame.grown = FALSE /\ closures[id].call = c /\ c \in asked /\ answers[c] # <<>>
      /\ Distinct(closures, 0) /\ CallsIn(closures, 0) = Waiting \cup {c} /\ Unasked
      /\ Chained(closures, first_free_request_id)
  BY <1>1, <1>2, FrameKinds DEF SlotInv, ReplyOK, TableOK, Busy, FreeInv, TypeInv
<1>4. closures' = [closures EXCEPT ![id] = FreeSlot(first_free_request_id)]
  BY <1>3 DEF ResponseClosureReturns, ReleasedSlot
<1>5. c \notin Waiting /\ c # NoCall
  BY <1>2, <1>3, ClientAssumption DEF Waiting
<1>6. /\ FreeSlot(first_free_request_id) \in Closure
      /\ FreeSlot(first_free_request_id).call = NoCall
  BY <1>2, ClosureFields
<1> HIDE DEF id, c
<1>7. /\ closures' \in Seq(Closure) /\ Len(closures') = Len(closures)
      /\ \A i \in 1 .. Len(closures) :
           closures'[i] = IF i = id THEN FreeSlot(first_free_request_id) ELSE closures[i]
  BY <1>2, <1>4, <1>6
<1>8. Chained(closures', id)
  BY <1>2, <1>3, <1>5, <1>7, ChainPush
<1>9. UsedAfter(closures', 0) = UsedAfter(closures, 0) \ {id}
  BY <1>2, <1>6, <1>7 DEF UsedAfter
<1>10. id \in UsedAfter(closures, 0)
  BY <1>2, <1>3, <1>5 DEF UsedAfter
<1>11. \A i \in UsedAfter(closures', 0) : closures'[i] = closures[i]
  BY <1>7, <1>9 DEF UsedAfter
<1>12. Distinct(closures', 0) /\ CallsIn(closures', 0) = Waiting
  BY <1>3, <1>5, <1>9, <1>10, <1>11 DEF Distinct, CallsIn
<1>13. Waiting' = Waiting /\ Unasked' /\ frame'.kind = "loop"
  BY <1>1, <1>3 DEF Waiting, Unasked, LoopFrame
<1>14. ReplyOK' /\ Busy' = Waiting
  BY <1>13 DEF ReplyOK, Busy
<1>15. TableOK'
  BY <1>12, <1>13, <1>14 DEF TableOK, Distinct, CallsIn, UsedAfter
<1>16. FreeInv'
  BY <1>1, <1>8 DEF FreeInv, id
<1> QED
  BY <1>13, <1>14, <1>15, <1>16 DEF SlotInv

\* A call takes the head of the free list.
LEMMA EnqueueSlots ==
  ASSUME ~GrowInClosure, TypeInv, SlotInv, FreeInv, Running, state = "CONNECTED",
         NEW c \in Calls, c \notin asked, asked' = asked \cup {c}, UNCHANGED answers,
         enqueue_request(c),
         frame.kind = "respond" /\ first_free_request_id = 0 => GrowInClosure
  PROVE  /\ SlotInv' /\ FreeInv'
         /\ frame' = frame /\ status' = status
         /\ Roomy[Taken].call = NoCall
<1>1. /\ TableTypeOK /\ Len(closures) > 0 /\ closures \in Seq(Closure)
      /\ Len(closures) \in Nat
      /\ Chained(closures, first_free_request_id)
  BY DEF TypeInv, TableTypeOK, TableThere, FreeInv
<1>2. frame.kind # "null"
  BY FrameKinds DEF TypeInv
<1>3. /\ Roomy \in Seq(Closure) /\ Len(Roomy) >= Len(closures) /\ Len(Roomy) \in Nat
      /\ Taken \in 1 .. Len(Roomy)
  BY <1>1, RoomyType
<1>4. Chained(Roomy, Taken)
  <2>1. CASE first_free_request_id = 0
    BY <1>1, <2>1, ChainGrow DEF Roomy, Taken
  <2>2. CASE first_free_request_id # 0
    BY <1>1, <2>2 DEF Roomy, Taken
  <2> QED
    BY <2>1, <2>2
<1>5. /\ closures' \in Seq(Closure) /\ Len(closures') = Len(Roomy)
      /\ \A i \in 1 .. Len(Roomy) :
           closures'[i] = IF i = Taken THEN UsedSlot(c) ELSE Roomy[i]
  BY <1>1, EnqueueTable DEF TableTypeOK
<1>6. Roomy[Taken].call = NoCall /\ Chained(closures', Roomy[Taken].next)
  BY <1>3, <1>4, <1>5, ChainPop
<1>7. /\ first_free_request_id' = Roomy[Taken].next /\ status' = status /\ frame' = frame
  BY <1>6, EnqueueIs
<1>8. FreeInv'
  BY <1>6, <1>7 DEF FreeInv
<1>9. UsedAfter(Roomy, 0) = UsedAfter(closures, 0)
      /\ \A i \in UsedAfter(closures, 0) : Roomy[i] = closures[i]
  <2>1. CASE first_free_request_id # 0
    BY <2>1 DEF Roomy
  <2>2. CASE first_free_request_id = 0
    <3>1. /\ Len(Roomy) = 2 * Len(closures)
          /\ \A i \in 1 .. Len(closures) : Roomy[i] = closures[i]
          /\ \A i \in Len(closures) + 1 .. 2 * Len(closures) :
               Roomy[i] = FreeSlot(IF i = 2 * Len(closures) THEN 0 ELSE i + 1)
      BY <1>1, <2>2, GrowType DEF Roomy
    <3>2. \A i \in Len(closures) + 1 .. 2 * Len(closures) : Roomy[i].call = NoCall
      BY <1>1, <3>1, ClosureFields
    <3> QED
      BY <1>1, <3>1, <3>2 DEF UsedAfter
  <2> QED
    BY <2>1, <2>2
<1>10. UsedSlot(c).call = c /\ c # NoCall
  BY ClosureFields, ClientAssumption
<1>11. UsedAfter(closures', 0) = UsedAfter(closures, 0) \cup {Taken}
       /\ Taken \notin UsedAfter(closures, 0)
  <2>1. UsedAfter(closures', 0) = UsedAfter(Roomy, 0) \cup {Taken}
    BY <1>3, <1>5, <1>10 DEF UsedAfter
  <2>2. Taken \notin UsedAfter(Roomy, 0)
    BY <1>6 DEF UsedAfter
  <2> QED
    BY <1>9, <2>1, <2>2
<1>12. /\ closures'[Taken].call = c
       /\ \A i \in UsedAfter(closures, 0) : closures'[i] = closures[i]
  <2>1. \A i \in UsedAfter(closures, 0) : i \in 1 .. Len(Roomy) /\ i # Taken
    BY <1>1, <1>3, <1>11 DEF UsedAfter
  <2> QED
    BY <1>3, <1>5, <1>9, <1>10, <2>1
<1>13. Distinct(closures, 0) /\ CallsIn(closures, 0) = Busy /\ Unasked /\ ReplyOK
  BY <1>2 DEF SlotInv, TableOK
<1>14. c \notin Busy
  BY <1>13 DEF Busy, Waiting, ReplyOK
<1>15. CallsIn(closures', 0) = Busy \cup {c} /\ Distinct(closures', 0)
  BY <1>11, <1>12, <1>13, <1>14 DEF CallsIn, Distinct
<1>16. Waiting' = Waiting \cup {c}
  BY <1>13 DEF Waiting, Unasked
<1>17. Busy' = Busy \cup {c} /\ Unasked'
  BY <1>7, <1>13, <1>16 DEF Busy, Unasked
<1>18. TableOK'
  BY <1>2, <1>7, <1>15, <1>17 DEF TableOK, Distinct, CallsIn, UsedAfter
<1>19. ReplyOK'
  <2> SUFFICES ASSUME frame.kind = "respond"
               PROVE  ReplyOK'
    BY <1>7 DEF ReplyOK
  <2>1. frame.resp.id \in 1 .. Len(closures) /\ frame.call \in Calls
    BY FrameKinds DEF TypeInv
  <2>2. frame.resp.id \in UsedAfter(closures, 0)
    BY <1>13, <2>1, ClientAssumption DEF ReplyOK, UsedAfter
  <2>3. closures'[frame.resp.id] = closures[frame.resp.id]
    BY <1>12, <2>2
  <2> QED
    BY <1>7, <1>13, <2>3 DEF ReplyOK
<1> QED
  BY <1>6, <1>7, <1>8, <1>17, <1>18, <1>19 DEF SlotInv

LEMMA SlotStep ==
  ASSUME ~GrowInClosure, TypeInv, HandlersFitState, Quiet, SlotInv, FreeInv, [Next]_vars
  PROVE  SlotInv' /\ FreeInv'
<1> USE DEF TypeInv
<1>1. CASE HandleInitIdle \/ HandleAutoreconnectTimeout
  <2>1. /\ Running /\ frame = NoFrame /\ state # "CONNECTED" /\ begin_name_lookup
        /\ UNCHANGED status /\ frame.kind = "none"
    BY <1>1, FrameKinds DEF HandleInitIdle, HandleAutoreconnectTimeout, InLoop, HandlersFitState
  <2>2. CASE client_failed /\ UNCHANGED asked
    BY <2>1, <2>2, DropSlots DEF client_failed
  <2>3. CASE UNCHANGED <<infoVars, bufferVars, frame, netVars, callVars>>
    BY <2>1, <2>3, SameSlots
  <2>4. CASE /\ set_state_connected
             /\ UNCHANGED <<watch, bufferVars, frame, atServer, net, faulty, callVars>>
    BY <2>1, <2>4, ConnectedSlots DEF Quiet
  <2> QED
    BY <2>1, <2>2, <2>3, <2>4 DEF begin_name_lookup
<1>2. CASE HandleConnectEvents
  <2>1. /\ Running /\ frame = NoFrame /\ state # "CONNECTED" /\ UNCHANGED status
        /\ frame.kind = "none"
    BY <1>2, FrameKinds DEF HandleConnectEvents, InLoop, HandlersFitState
  <2>2. CASE client_failed /\ UNCHANGED asked
    BY <2>1, <2>2, DropSlots DEF client_failed
  <2>3. CASE set_state_connected /\ UNCHANGED <<frame, callVars>>
    BY <2>1, <2>3, ConnectedSlots DEF Quiet
  <2> QED
    BY <1>2, <2>2, <2>3 DEF HandleConnectEvents
<1>3. CASE HandleConnectionLost \/ Destroy
  <2>1. Running /\ frame.kind = "none" /\ drop_connection /\ null_closures(closures, 0)
        /\ UNCHANGED asked
    BY <1>3 DEF HandleConnectionLost, Destroy, InLoop, client_failed
  <2> QED
    BY <2>1, DropSlots
<1>4. CASE ProcessResponse
  <2>1. Running /\ frame.kind = "loop" /\ incoming # <<>> /\ UNCHANGED <<status, asked>>
    BY <1>4 DEF ProcessResponse, LoopFrame
  <2>2. Head(incoming) \in Response
    BY <2>1, HeadTailProperties DEF NetTypeOK
  <2>3. CASE client_failed
    BY <2>1, <2>3, DropSlots DEF client_failed
  <2>4. CASE /\ ValidRequestId(Head(incoming).id)
             /\ frame' = RespondFrame(Head(incoming), closures[Head(incoming).id].call)
             /\ Tell(closures[Head(incoming).id].call, Message)
             /\ UNCHANGED infoVars
    BY <2>1, <2>2, <2>4, RespondSlots
  <2> QED
    BY <1>4, <2>3, <2>4 DEF ProcessResponse
<1>5. CASE ResponseClosureReturns
  BY <1>5, ReleaseSlots
<1>6. CASE NullClosureReturns
  <2>1. /\ frame.kind = "null" /\ frame.table \in Seq(Closure) /\ frame.at \in Nat
        /\ state # "CONNECTED" /\ Running
        /\ null_closures(frame.table, frame.at)
        /\ UNCHANGED <<closures, first_free_request_id, status, asked>>
    BY <1>6, FrameKinds DEF NullClosureReturns, infoVars
  <2>2. /\ Distinct(frame.table, frame.at) /\ CallsIn(frame.table, frame.at) = Waiting
        /\ Unasked /\ closures' = <<>>
    BY <2>1 DEF SlotInv, TableOK, Quiet
  <2>3. SlotInv'
    BY <2>1, <2>2, NullClosuresSlots
  <2>4. FreeInv'
    BY <2>1 DEF FreeInv, Running
  <2> QED
    BY <2>3, <2>4
<1>7. CASE HandleReadable \/ LoopEnds
  <2>1. /\ frame.kind \in {"none", "loop"} /\ frame'.kind \in {"none", "loop"}
        /\ UNCHANGED <<infoVars, status, callVars>>
    BY <1>7 DEF HandleReadable, LoopEnds, InLoop, LoopFrame, NoFrame
  <2> QED
    BY <2>1, SameSlots
<1>8. CASE HandleWritable \/ (\E on \in BOOLEAN : SetAutoreconnect(on)) \/ Server
            \/ Terminated \/ UNCHANGED vars
  <2>1. UNCHANGED <<infoVars, status, callVars, frame>>
    BY <1>8 DEF HandleWritable, SetAutoreconnect, Server, ServerResponds, ServerInvents,
                ServerCloses, Terminated, vars
  <2> QED
    BY <2>1, SameSlots
<1>9. ASSUME NEW c \in Calls, Invoke(c)
      PROVE  SlotInv' /\ FreeInv'
  <2>1. Running /\ c \notin asked /\ asked' = asked \cup {c}
    BY <1>9 DEF Invoke
  <2>2. CASE /\ state = "CONNECTED" /\ enqueue_request(c) /\ UNCHANGED answers
             /\ frame.kind = "respond" /\ first_free_request_id = 0 => GrowInClosure
    BY <2>1, <2>2, EnqueueSlots
  <2>3. CASE Tell(c, Null) /\ UNCHANGED <<watch, infoVars, outgoing, frame, status>>
    <3>1. /\ UNCHANGED <<closures, first_free_request_id, frame, status>>
          /\ answers' = [answers EXCEPT ![c] = Append(<<>>, Null)]
      BY <2>1, <2>3 DEF infoVars, Tell, SlotInv, Unasked
    <3>2. Append(<<>>, Null) # <<>>
      OBVIOUS
    <3>3. Waiting' = Waiting /\ Unasked'
      BY <2>1, <3>1, <3>2 DEF Waiting, SlotInv, Unasked, CallTypeOK
    <3>4. ReplyOK /\ TableOK
      BY <2>1 DEF SlotInv
    <3>5. ReplyOK'
      BY <2>1, <3>1, <3>4 DEF ReplyOK, CallTypeOK
    <3>6. TableOK'
      BY <3>1, <3>3, <3>4 DEF TableOK, Busy, Distinct, CallsIn, UsedAfter
    <3>7. FreeInv'
      BY <2>1, <3>1 DEF FreeInv, Running
    <3> QED
      BY <3>3, <3>5, <3>6, <3>7 DEF SlotInv
  <2>4. CASE status' = "undefined" /\ UNCHANGED answers
    BY <2>1, <2>4 DEF SlotInv, FreeInv, Unasked, Running
  <2> QED
    BY <1>9, <2>2, <2>3, <2>4 DEF Invoke
<1> QED
  BY <1>1, <1>2, <1>3, <1>4, <1>5, <1>6, <1>7, <1>8, <1>9 DEF Next, ClientRuns, Program

LEMMA SlotInit == Init => Quiet /\ SlotInv /\ FreeInv
<1> SUFFICES ASSUME Init PROVE Quiet /\ SlotInv /\ FreeInv
  OBVIOUS
<1>1. Quiet
  BY DEF Init, Quiet
<1>2. Unasked /\ Waiting = {} /\ frame.kind = "none"
  BY DEF Init, Unasked, Waiting, NoFrame
<1>3. ReplyOK /\ Busy = {}
  BY <1>2 DEF ReplyOK, Busy
<1>4. TableOK
  BY <1>2, <1>3, NoSlots DEF TableOK, Init
<1>5. FreeInv
  BY ChainStart DEF FreeInv, Init
<1> QED
  BY <1>1, <1>2, <1>3, <1>4, <1>5 DEF SlotInv

\* The inductive invariant of a client whose closures make no call that finds the
\* table full.
SlotsInv == TypeInv /\ HandlersFitState /\ Quiet /\ SlotInv /\ FreeInv

LEMMA SlotsAlways ==
  ASSUME ~GrowInClosure
  PROVE  Spec => []SlotsInv
<1>1. Init => SlotsInv
  BY TypeInit, SlotInit DEF SlotsInv
<1>2. SlotsInv /\ [Next]_vars => SlotsInv'
  BY TypeStep, HandlersStep, QuietStep, SlotStep DEF SlotsInv
<1> QED
  BY <1>1, <1>2, PTL DEF Spec

\* The slots with call c, when no call is in two.
LEMMA SlotsOfCall ==
  ASSUME NEW table \in Seq(Closure), NEW i \in Nat, Distinct(table, i), NEW c \in Calls
  PROVE  LET H == {j \in UsedAfter(table, i) : table[j].call = c}
         IN  Cardinality(H) = IF c \in CallsIn(table, i) THEN 1 ELSE 0
<1> DEFINE H == {j \in UsedAfter(table, i) : table[j].call = c}
<1>1. CASE c \in CallsIn(table, i)
  <2>1. PICK j \in UsedAfter(table, i) : table[j].call = c
    BY <1>1 DEF CallsIn
  <2>2. H = {j}
    BY <2>1 DEF Distinct
  <2> QED
    BY <1>1, <2>2, FS_Singleton
<1>2. CASE c \notin CallsIn(table, i)
  <2>1. H = {}
    BY <1>2 DEF CallsIn
  <2> QED
    BY <1>2, <2>1, FS_EmptySet
<1> QED
  BY <1>1, <1>2

LEMMA SlotsInvImplies == SlotsInv => CallsHaveSlots /\ FreeListExact
<1> SUFFICES ASSUME SlotsInv, Running
             PROVE  CallsHaveSlots /\ FreeListExact
  BY DEF CallsHaveSlots, FreeListExact
<1>1. /\ TypeInv /\ Quiet /\ TableOK /\ ReplyOK /\ TableTypeOK
      /\ Chained(closures, first_free_request_id) /\ closures \in Seq(Closure)
  BY DEF SlotsInv, SlotInv, FreeInv, TypeInv, TableTypeOK
<1>2. FreeListExact
  BY <1>1, ChainIsFreeList DEF FreeListExact, FreeSlots
<1>3. ASSUME NEW c \in Calls
      PROVE  Cardinality(Holders(c)) + Cardinality(ToBeTold(c)) =
               IF c \in Waiting \/ (frame.kind = "respond" /\ frame.call = c) THEN 1 ELSE 0
  <2>1. Holders(c) = {j \in UsedAfter(closures, 0) : closures[j].call = c}
    BY <1>1, ClientAssumption DEF Holders, UsedAfter
  <2>2. CASE frame.kind = "null"
    <3>1. /\ closures = <<>> /\ frame.table \in Seq(Closure) /\ frame.at \in Nat
      BY <1>1, <2>2, FrameKinds DEF Quiet, TypeInv
    <3>2. Holders(c) = {}
      BY <2>1, <3>1, NoSlots
    <3>3. Cardinality(Holders(c)) = 0
      BY <3>2, FS_EmptySet
    <3>4. Cardinality(ToBeTold(c)) = IF c \in Waiting THEN 1 ELSE 0
      BY <1>1, <2>2, <3>1, SlotsOfCall DEF ToBeTold, TableOK
    <3> QED
      BY <2>2, <3>3, <3>4
  <2>3. CASE frame.kind # "null"
    <3>1. Cardinality(ToBeTold(c)) = 0
      BY <2>3, FS_EmptySet DEF ToBeTold
    <3>2. Cardinality(Holders(c)) = IF c \in Busy THEN 1 ELSE 0
      BY <1>1, <2>1, <2>3, SlotsOfCall DEF TableOK
    <3> QED
      BY <3>1, <3>2 DEF Busy
  <2> QED
    BY <2>2, <2>3
<1>4. CallsHaveSlots
  BY <1>3 DEF CallsHaveSlots
<1> QED
  BY <1>2, <1>4

\* A call that waits has exactly one slot, and no slot is kept by a call that was
\* answered: client_failed neither forgets a call nor invokes a closure twice.
\* For any number of calls, any order of responses, failures and reconnections,
\* a faulty server included; not when a closure makes a call that has to enlarge
\* the table (the first finding).
THEOREM EveryCallHasASlot == ~GrowInClosure => (Spec => []CallsHaveSlots)
<1> SUFFICES ASSUME ~GrowInClosure PROVE Spec => []CallsHaveSlots
  OBVIOUS
<1> QED
  BY SlotsAlways, SlotsInvImplies, PTL

\* The free list threaded through closure_data holds exactly the slots that are
\* not in use, through every growth of the table.
THEOREM FreeListHoldsTheRest == ~GrowInClosure => (Spec => []FreeListExact)
<1> SUFFICES ASSUME ~GrowInClosure PROVE Spec => []FreeListExact
  OBVIOUS
<1> QED
  BY SlotsAlways, SlotsInvImplies, PTL
-----------------------------------------------------------------------------
(* The contract, without its liveness.                                     *)

\* Telling a call that waits is an Answer.
LEMMA TellIsAnswer ==
  ASSUME CallTypeOK, NEW c \in Waiting, NEW a \in {Message, Null}, Tell(c, a), UNCHANGED asked
  PROVE  Contract!CallsNext
<1>1. c \in Calls /\ c \in asked /\ answers[c] = <<>>
  BY DEF Waiting, CallTypeOK
<1>2. answers' = [answers EXCEPT ![c] = <<a>>]
  BY <1>1 DEF Tell
<1>3. Contract!Answer(c, a)
  BY <1>1, <1>2 DEF Contract!Answer
<1> QED
  BY <1>1, <1>3 DEF Contract!CallsNext, Contract!Message, Contract!Null, Message, Null

LEMMA NullClosuresContract ==
  ASSUME NEW table \in Seq(Closure), NEW i \in Nat, CallTypeOK,
         CallsIn(table, i) = Waiting, null_closures(table, i), UNCHANGED asked
  PROVE  [Contract!CallsNext]_callVars
<1>1. CASE UsedAfter(table, i) = {}
  BY <1>1 DEF null_closures, callVars
<1>2. CASE UsedAfter(table, i) # {}
  <2>1. NextUsed(table, i) \in UsedAfter(table, i)
    BY <1>2, NextUsedIs
  <2>2. table[NextUsed(table, i)].call \in Waiting
    BY <2>1 DEF CallsIn
  <2>3. Tell(table[NextUsed(table, i)].call, Null)
    BY <1>2 DEF null_closures
  <2> QED
    BY <2>2, <2>3, TellIsAnswer
<1> QED
  BY <1>1, <1>2

LEMMA ContractStep ==
  ASSUME SlotsInv, [Next]_vars
  PROVE  [Contract!CallsNext]_callVars
<1> USE DEF SlotsInv, TypeInv
<1>1. ASSUME Running, frame.kind \in {"none", "loop"}, null_closures(closures, 0), UNCHANGED asked
      PROVE  [Contract!CallsNext]_callVars
  <2>1. CallsIn(closures, 0) = Waiting /\ closures \in Seq(Closure)
    BY <1>1 DEF SlotInv, TableOK, Busy, TableTypeOK
  <2> QED
    BY <1>1, <2>1, NullClosuresContract
<1>2. CASE HandleInitIdle \/ HandleAutoreconnectTimeout \/ HandleConnectEvents
  <2>1. Running /\ frame.kind = "none"
    BY <1>2 DEF HandleInitIdle, HandleAutoreconnectTimeout, HandleConnectEvents, InLoop
  <2>2. (client_failed /\ UNCHANGED asked) \/ UNCHANGED callVars
    BY <1>2 DEF HandleInitIdle, HandleAutoreconnectTimeout, HandleConnectEvents,
                begin_name_lookup
  <2> QED
    BY <1>1, <2>1, <2>2 DEF client_failed
<1>3. CASE HandleConnectionLost \/ Destroy
  <2>1. Running /\ frame.kind = "none" /\ null_closures(closures, 0) /\ UNCHANGED asked
    BY <1>3 DEF HandleConnectionLost, Destroy, InLoop, client_failed
  <2> QED
    BY <1>1, <2>1
<1>4. CASE ProcessResponse
  <2>1. Running /\ frame.kind = "loop" /\ incoming # <<>> /\ UNCHANGED <<status, asked>>
    BY <1>4 DEF ProcessResponse, LoopFrame
  <2>2. Head(incoming) \in Response
    BY <2>1, HeadTailProperties DEF NetTypeOK
  <2>3. CASE client_failed
    BY <1>1, <2>1, <2>3 DEF client_failed
  <2>4. CASE /\ ValidRequestId(Head(incoming).id)
             /\ frame' = RespondFrame(Head(incoming), closures[Head(incoming).id].call)
             /\ Tell(closures[Head(incoming).id].call, Message)
             /\ UNCHANGED infoVars
    <3>1. closures[Head(incoming).id].call \in Waiting
      BY <2>1, <2>2, <2>4, RespondSlots
    <3> QED
      BY <2>1, <2>4, <3>1, TellIsAnswer
  <2> QED
    BY <1>4, <2>3, <2>4 DEF ProcessResponse
<1>5. CASE NullClosureReturns
  <2>1. /\ frame.kind = "null" /\ frame.table \in Seq(Closure) /\ frame.at \in Nat
        /\ Running /\ null_closures(frame.table, frame.at) /\ UNCHANGED asked
    BY <1>5, FrameKinds DEF NullClosureReturns
  <2>2. CallsIn(frame.table, frame.at) = Waiting
    BY <2>1 DEF SlotInv, TableOK
  <2> QED
    BY <2>1, <2>2, NullClosuresContract
<1>6. CASE HandleReadable \/ LoopEnds \/ HandleWritable \/ ResponseClosureReturns
            \/ (\E on \in BOOLEAN : SetAutoreconnect(on)) \/ Server
            \/ Terminated \/ UNCHANGED vars
  BY <1>6 DEF HandleReadable, LoopEnds, HandleWritable, ResponseClosureReturns,
              SetAutoreconnect, Server, ServerResponds, ServerInvents, ServerCloses,
              Terminated, vars
<1>7. ASSUME NEW c \in Calls, Invoke(c)
      PROVE  [Contract!CallsNext]_callVars
  <2>1. c \notin asked /\ asked' = asked \cup {c}
    BY <1>7 DEF Invoke
  <2>2. CASE UNCHANGED answers
    BY <2>1, <2>2 DEF Contract!CallsNext, Contract!Ask
  <2>3. CASE Tell(c, Null)
    <3>1. answers[c] = <<>>
      BY <2>1 DEF SlotInv, Unasked
    <3>2. answers' = [answers EXCEPT ![c] = <<Null>>]
      BY <2>3, <3>1 DEF Tell
    <3>3. Contract!AskInVain(c)
      BY <2>1, <3>2 DEF Contract!AskInVain, Contract!Null, Null
    <3> QED
      BY <3>3 DEF Contract!CallsNext
  <2> QED
    BY <1>7, <2>2, <2>3 DEF Invoke
<1> QED
  BY <1>2, <1>3, <1>4, <1>5, <1>6, <1>7 DEF Next, ClientRuns, Program

\* The client refines the contract RpcCalls but for its liveness: whatever happens
\* to connections, every closure is invoked at most once, and only for a call
\* that was made.
THEOREM ClosuresInvokedOnce == ~GrowInClosure => (Spec => CalledOnce)
<1> SUFFICES ASSUME ~GrowInClosure PROVE Spec => CalledOnce
  OBVIOUS
<1>1. Init => Contract!CallsInit
  BY DEF Init, Contract!CallsInit
<1>2. SlotsInv /\ [Next]_vars => [Contract!CallsNext]_callVars
  BY ContractStep
<1> QED
  BY <1>1, <1>2, SlotsAlways, PTL DEF Spec, CalledOnce

-----------------------------------------------------------------------------
(* What the client watches for, and that a response reaches the closure of *)
(* the call it answers.  Both rest on SlotsInv.                            *)

\* With requests queued both events are watched, which is why
\* update_connected_client_watch may leave the watch alone then.
WatchInv ==
  Running /\ state = "CONNECTED" =>
    /\ outgoing # <<>> => watch = WatchOf("events", {READABLE, WRITABLE})
    /\ Waiting # {} => READABLE \in watch.events

\* A message under way, by the slot it is for and the call it belongs to.
Token(r)  == <<r.id, r.call>>
Tokens(s) == {Token(s[i]) : i \in 1 .. Len(s)}
Unique(s) == \A i, j \in 1 .. Len(s) : Token(s[i]) = Token(s[j]) => i = j
ServerTokens == {Token(r) : r \in atServer}
FrameTokens  ==
  IF frame.kind = "respond" THEN {<<frame.resp.id, frame.call>>} ELSE {}

UnderWay == Tokens(outgoing) \cup ServerTokens \cup Tokens(net) \cup Tokens(incoming)

\* A message under way is for a call that holds the slot.
Held ==
  \A t \in UnderWay : /\ t[1] \in 1 .. Len(closures) /\ t[2] \in Calls
                      /\ closures[t[1]].call = t[2]

\* A call has one message under way: its request or the response to it.
Apart ==
  /\ Unique(outgoing) /\ Unique(net) /\ Unique(incoming)
  /\ Tokens(outgoing) \cap ServerTokens = {}
  /\ Tokens(outgoing) \cap Tokens(net) = {}
  /\ Tokens(outgoing) \cap Tokens(incoming) = {}
  /\ ServerTokens \cap Tokens(net) = {}
  /\ ServerTokens \cap Tokens(incoming) = {}
  /\ Tokens(net) \cap Tokens(incoming) = {}
  /\ UnderWay \cap FrameTokens = {}

AnswerInv == ~faulty => Held /\ Apart /\ RightAnswer
-----------------------------------------------------------------------------
(* What is watched for.                                                    *)

\* A client without a connection, and no closure running, has no call waiting.
LEMMA NoneWaiting ==
  ASSUME SlotsInv, Running, state # "CONNECTED", frame.kind = "none"
  PROVE  Waiting = {} /\ closures = <<>> /\ outgoing = <<>>
BY NoSlots DEF SlotsInv, SlotInv, TableOK, Busy, Quiet

LEMMA WatchOfFields ==
  ASSUME NEW h, NEW evs
  PROVE  WatchOf(h, evs).events = evs /\ WatchOf(h, evs).handler = h
BY DEF WatchOf

LEMMA WriteWatch ==
  ASSUME SlotsInv, WatchInv, Running, state = "CONNECTED", UNCHANGED <<state, status, callVars>>,
         NEW n \in 0 .. Len(outgoing), Write(n)
  PROVE  WatchInv'
<1>1. /\ outgoing' = SubSeq(outgoing, n + 1, Len(outgoing)) /\ outgoing \in Seq(Request)
      /\ WRITABLE \in watch.events
  BY DEF Write, Written, SlotsInv, TypeInv, NetTypeOK
<1>2. Waiting' = Waiting
  BY DEF Waiting, callVars
<1>3. CASE n = Len(outgoing)
  <2>1. outgoing' = <<>> /\ watch' = WatchOf("events", {READABLE})
    BY <1>1, <1>3, CutType DEF Write, WatchAfterWrite
  <2> QED
    BY <2>1, WatchOfFields DEF WatchInv
<1>4. CASE n # Len(outgoing)
  <2>1. outgoing # <<>> /\ watch' = watch
    BY <1>1, <1>4 DEF Write, WatchAfterWrite
  <2> QED
    BY <1>2, <2>1 DEF WatchInv
<1> QED
  BY <1>3, <1>4

LEMMA WatchStep ==
  ASSUME ~GrowInClosure, SlotsInv, WatchInv, [Next]_vars
  PROVE  WatchInv'
<1>1. CASE state' # "CONNECTED" \/ status' # "ok"
  BY <1>1 DEF WatchInv, Running
<1>2. CASE UNCHANGED <<state, status, watch, outgoing, callVars>>
  BY <1>2 DEF WatchInv, Running, Waiting, callVars
<1>3. CASE HandleInitIdle \/ HandleAutoreconnectTimeout \/ HandleConnectEvents
  <2>1. Running /\ state # "CONNECTED" /\ frame.kind = "none"
    BY <1>3 DEF HandleInitIdle, HandleAutoreconnectTimeout, HandleConnectEvents, InLoop,
                SlotsInv, HandlersFitState
  <2>2. Waiting = {} /\ outgoing = <<>>
    BY <2>1, NoneWaiting
  <2>3. CASE UNCHANGED <<bufferVars, callVars>>
    BY <2>2, <2>3 DEF WatchInv, Waiting, bufferVars, callVars
  <2>4. CASE client_failed
    BY <1>1, <2>4 DEF client_failed
  <2> QED
    BY <1>3, <2>3, <2>4 DEF HandleInitIdle, HandleAutoreconnectTimeout, HandleConnectEvents,
       begin_name_lookup
<1>4. CASE HandleConnectionLost \/ Destroy
  BY <1>1, <1>4 DEF HandleConnectionLost, Destroy, client_failed
<1>5. CASE HandleWritable \/ HandleReadable
  <2>1. /\ Running /\ state = "CONNECTED" /\ UNCHANGED <<state, status, callVars>>
    BY <1>5 DEF HandleWritable, HandleReadable, InLoop, SlotsInv, HandlersFitState
  <2>2. CASE NoWrite
    BY <1>2, <2>1, <2>2 DEF NoWrite
  <2>3. CASE \E n \in 0 .. Len(outgoing) : Write(n)
    BY <2>1, <2>3, WriteWatch
  <2> QED
    BY <1>5, <2>2, <2>3 DEF HandleWritable, HandleReadable
<1>6. CASE ProcessResponse
  <2>1. CASE client_failed
    BY <1>1, <2>1 DEF client_failed
  <2>2. CASE /\ ValidRequestId(Head(incoming).id)
             /\ Tell(closures[Head(incoming).id].call, Message)
             /\ UNCHANGED <<state, watch, outgoing>>
    <3>1. UNCHANGED <<asked, status>>
      BY <1>6 DEF ProcessResponse
    <3>2. Waiting' \subseteq Waiting
      <4>1. closures[Head(incoming).id].call \in Calls
        <5>1. Head(incoming).id \in Nat
          BY <1>6, HeadTailProperties, RequestType DEF ProcessResponse, SlotsInv, TypeInv, NetTypeOK
        <5>2. Head(incoming).id \in 1 .. Len(closures)
          BY <2>2, <5>1 DEF ValidRequestId, SlotsInv, TypeInv, TableTypeOK
        <5> QED
          BY <2>2, <5>2, ClosureFields DEF ValidRequestId, SlotsInv, TypeInv, TableTypeOK
      <4>2. ASSUME NEW c \in Waiting'
            PROVE  c \in Waiting
        <5>1. c \in asked /\ c \in Calls /\ answers'[c] = <<>>
          BY <3>1 DEF Waiting, SlotsInv, TypeInv, CallTypeOK
        <5>2. c = closures[Head(incoming).id].call => answers'[c] = Append(answers[c], Message)
          BY <2>2, <4>1 DEF Tell, SlotsInv, TypeInv, CallTypeOK
        <5>3. Append(answers[c], Message) # <<>>
          BY <5>1 DEF SlotsInv, TypeInv, CallTypeOK
        <5>4. c # closures[Head(incoming).id].call => answers'[c] = answers[c]
          BY <2>2, <4>1, <5>1 DEF Tell, SlotsInv, TypeInv, CallTypeOK
        <5> QED
          BY <5>1, <5>2, <5>3, <5>4 DEF Waiting
      <4> QED
        BY <4>2
    <3> QED
      BY <2>2, <3>1, <3>2 DEF WatchInv, Running
  <2> QED
    BY <1>6, <2>1, <2>2 DEF ProcessResponse
<1>7. CASE NullClosureReturns
  <2>1. state' # "CONNECTED"
    BY <1>7, FrameKinds DEF NullClosureReturns, SlotsInv, TypeInv
  <2> QED
    BY <1>1, <2>1
<1>8. CASE ResponseClosureReturns \/ LoopEnds \/ (\E on \in BOOLEAN : SetAutoreconnect(on))
            \/ Server \/ Terminated \/ UNCHANGED vars
  BY <1>2, <1>8 DEF ResponseClosureReturns, LoopEnds, SetAutoreconnect, Server, ServerResponds,
     ServerInvents, ServerCloses, Terminated, vars, eventVars, bufferVars
<1>9. ASSUME NEW c \in Calls, Invoke(c)
      PROVE  WatchInv'
  <2>1. Running /\ UNCHANGED state
    BY <1>9 DEF Invoke
  <2>2. CASE state = "CONNECTED" /\ update_connected_client_watch
    <3>1. watch' = WatchOf("events", {READABLE, WRITABLE})
      BY <2>1, <2>2 DEF update_connected_client_watch, WatchInv
    <3> QED
      BY <3>1, WatchOfFields DEF WatchInv
  <2>3. CASE state # "CONNECTED"
    BY <1>1, <2>1, <2>3
  <2> QED
    BY <1>9, <2>2, <2>3 DEF Invoke
<1> QED
  BY <1>3, <1>4, <1>5, <1>6, <1>7, <1>8, <1>9 DEF Next, ClientRuns, Program

\* The dispatch is never left without what the client waits for: whatever was
\* written in part, answered or called from a closure, WRITABLE is watched for
\* while requests are queued, and READABLE while a call waits.
THEOREM ClientWatchesWhatItNeeds == ~GrowInClosure => (Spec => []WatchesWhatItNeeds)
<1> SUFFICES ASSUME ~GrowInClosure PROVE Spec => []WatchesWhatItNeeds
  OBVIOUS
<1>1. Init => WatchInv
  BY DEF Init, WatchInv
<1>2. SlotsInv /\ WatchInv /\ [Next]_vars => WatchInv'
  BY WatchStep
<1>3. WatchInv => WatchesWhatItNeeds
  BY WatchOfFields DEF WatchInv, WatchesWhatItNeeds
<1> QED
  BY <1>1, <1>2, <1>3, SlotsAlways, PTL DEF Spec
-----------------------------------------------------------------------------
(* The tokens of sequences.                                                *)

LEMMA TokensEmpty == Tokens(<<>>) = {} /\ Unique(<<>>)
BY DEF Tokens, Unique

LEMMA TokensAppend ==
  ASSUME NEW S, NEW s \in Seq(S), NEW r \in S
  PROVE  /\ Tokens(Append(s, r)) = Tokens(s) \cup {Token(r)}
         /\ Unique(s) /\ Token(r) \notin Tokens(s) => Unique(Append(s, r))
<1> DEFINE a == Append(s, r)
<1>1. /\ Len(s) \in Nat /\ Len(a) = Len(s) + 1 /\ a[Len(s) + 1] = r
      /\ \A i \in 1 .. Len(s) : a[i] = s[i]
  OBVIOUS
<1>2. \A i \in 1 .. Len(a) : i \in 1 .. Len(s) \/ i = Len(s) + 1
  BY <1>1
<1>3. 1 .. Len(s) \subseteq 1 .. Len(a) /\ Len(s) + 1 \in 1 .. Len(a)
  BY <1>1
<1> HIDE DEF a
<1>4. Tokens(a) = Tokens(s) \cup {Token(r)}
  BY <1>1, <1>2, <1>3 DEF Tokens
<1>5. ASSUME Unique(s), Token(r) \notin Tokens(s), NEW i \in 1 .. Len(a), NEW j \in 1 .. Len(a),
             Token(a[i]) = Token(a[j])
      PROVE  i = j
  BY <1>1, <1>2, <1>5 DEF Unique, Tokens
<1> QED
  BY <1>4, <1>5 DEF Unique, a

LEMMA TokensConcat ==
  ASSUME NEW S, NEW s \in Seq(S), NEW t \in Seq(S)
  PROVE  /\ Tokens(s \o t) = Tokens(s) \cup Tokens(t)
         /\ Unique(s) /\ Unique(t) /\ Tokens(s) \cap Tokens(t) = {} => Unique(s \o t)
<1> DEFINE u == s \o t
<1>1. /\ Len(s) \in Nat /\ Len(t) \in Nat /\ Len(u) = Len(s) + Len(t)
      /\ \A i \in 1 .. Len(s) : u[i] = s[i]
      /\ \A i \in 1 .. Len(t) : u[Len(s) + i] = t[i]
  BY ConcatProperties
<1>2. ASSUME NEW i \in 1 .. Len(u)
      PROVE  \/ i \in 1 .. Len(s) /\ u[i] = s[i]
             \/ i - Len(s) \in 1 .. Len(t) /\ u[i] = t[i - Len(s)]
  BY <1>1
<1>3. \A i \in 1 .. Len(s) : i \in 1 .. Len(u)
  BY <1>1
<1>4. \A i \in 1 .. Len(t) : Len(s) + i \in 1 .. Len(u)
  BY <1>1
<1> HIDE DEF u
<1>5. Tokens(u) \subseteq Tokens(s) \cup Tokens(t)
  BY <1>2 DEF Tokens
<1>6. Tokens(s) \cup Tokens(t) \subseteq Tokens(u)
  BY <1>1, <1>3, <1>4 DEF Tokens
<1>7. ASSUME Unique(s), Unique(t), Tokens(s) \cap Tokens(t) = {},
             NEW i \in 1 .. Len(u), NEW j \in 1 .. Len(u), Token(u[i]) = Token(u[j])
      PROVE  i = j
  <2>1. CASE i \in 1 .. Len(s) /\ u[i] = s[i] /\ j \in 1 .. Len(s) /\ u[j] = s[j]
    BY <1>7, <2>1 DEF Unique
  <2>2. CASE i \in 1 .. Len(s) /\ u[i] = s[i] /\ j - Len(s) \in 1 .. Len(t) /\ u[j] = t[j - Len(s)]
    BY <1>7, <2>2 DEF Tokens
  <2>3. CASE j \in 1 .. Len(s) /\ u[j] = s[j] /\ i - Len(s) \in 1 .. Len(t) /\ u[i] = t[i - Len(s)]
    BY <1>7, <2>3 DEF Tokens
  <2>4. CASE /\ i - Len(s) \in 1 .. Len(t) /\ u[i] = t[i - Len(s)]
             /\ j - Len(s) \in 1 .. Len(t) /\ u[j] = t[j - Len(s)]
    <3>1. i - Len(s) = j - Len(s)
      BY <1>7, <2>4 DEF Unique
    <3> QED
      BY <1>1, <3>1
  <2> QED
    BY <1>2, <2>1, <2>2, <2>3, <2>4
<1> QED
  BY <1>5, <1>6, <1>7 DEF Unique, u

\* A sequence cut in two.
LEMMA TokensCut ==
  ASSUME NEW S, NEW s \in Seq(S), NEW n \in 0 .. Len(s)
  PROVE  LET front == SubSeq(s, 1, n)
             rest  == SubSeq(s, n + 1, Len(s))
         IN  /\ Tokens(s) = Tokens(front) \cup Tokens(rest)
             /\ Tokens(front) = {Token(s[i]) : i \in 1 .. n}
             /\ Unique(s) => /\ Unique(front) /\ Unique(rest)
                             /\ Tokens(front) \cap Tokens(rest) = {}
<1> DEFINE front == SubSeq(s, 1, n)
           rest  == SubSeq(s, n + 1, Len(s))
<1>1. /\ Len(front) = n /\ \A i \in 1 .. n : front[i] = s[i]
      /\ Len(rest) = Len(s) - n /\ \A i \in 1 .. Len(s) - n : rest[i] = s[n + i]
      /\ n \in Nat /\ Len(s) \in Nat /\ n <= Len(s)
  BY CutType
<1> HIDE DEF front, rest
<1>2. Tokens(front) = {Token(s[i]) : i \in 1 .. n}
  BY <1>1 DEF Tokens
<1>3. ASSUME NEW i \in 1 .. Len(s)
      PROVE  i \in 1 .. n \/ (i - n \in 1 .. Len(rest) /\ rest[i - n] = s[i])
  BY <1>1
<1>4. \A i \in 1 .. n : i \in 1 .. Len(s)
  BY <1>1
<1>5. \A i \in 1 .. Len(rest) : n + i \in 1 .. Len(s) /\ rest[i] = s[n + i]
  BY <1>1
<1>6. Tokens(s) \subseteq Tokens(front) \cup Tokens(rest)
  BY <1>2, <1>3 DEF Tokens
<1>7. Tokens(front) \cup Tokens(rest) \subseteq Tokens(s)
  BY <1>2, <1>4, <1>5 DEF Tokens
<1>8. ASSUME Unique(s)
      PROVE  Unique(front) /\ Unique(rest) /\ Tokens(front) \cap Tokens(rest) = {}
  <2>1. Unique(front)
    BY <1>1, <1>4, <1>8 DEF Unique
  <2>2. Unique(rest)
    <3>1. ASSUME NEW i \in 1 .. Len(rest), NEW j \in 1 .. Len(rest), Token(rest[i]) = Token(rest[j])
          PROVE  i = j
      <4>1. n + i = n + j
        BY <1>5, <1>8, <3>1 DEF Unique
      <4> QED
        BY <1>1, <4>1
    <3> QED
      BY <3>1 DEF Unique
  <2>3. ASSUME NEW t \in Tokens(front), t \in Tokens(rest)
        PROVE  FALSE
    <3>1. PICK i \in 1 .. n : t = Token(s[i])
      BY <1>2
    <3>2. PICK j \in 1 .. Len(rest) : t = Token(s[n + j])
      BY <1>5, <2>3 DEF Tokens
    <3>3. i = n + j
      BY <1>4, <1>5, <1>8, <3>1, <3>2 DEF Unique
    <3> QED
      BY <1>1, <3>3
  <2> QED
    BY <2>1, <2>2, <2>3
<1> QED
  BY <1>2, <1>6, <1>7, <1>8 DEF front, rest

LEMMA TokensTail ==
  ASSUME NEW S, NEW s \in Seq(S), s # <<>>
  PROVE  /\ Tokens(s) = Tokens(Tail(s)) \cup {Token(Head(s))}
         /\ Unique(s) => Unique(Tail(s)) /\ Token(Head(s)) \notin Tokens(Tail(s))
<1>1. Len(s) \in Nat /\ 1 \in 0 .. Len(s) /\ 1 \in 1 .. Len(s)
  OBVIOUS
<1>2. Tail(s) = SubSeq(s, 1 + 1, Len(s)) /\ Head(s) = s[1]
  BY <1>1, HeadTailProperties, CutType
<1>3. {Token(s[i]) : i \in 1 .. 1} = {Token(Head(s))}
  BY <1>2
<1>4. /\ Tokens(s) = Tokens(SubSeq(s, 1, 1)) \cup Tokens(SubSeq(s, 1 + 1, Len(s)))
      /\ Tokens(SubSeq(s, 1, 1)) = {Token(s[i]) : i \in 1 .. 1}
      /\ Unique(s) => /\ Unique(SubSeq(s, 1 + 1, Len(s)))
                      /\ Tokens(SubSeq(s, 1, 1)) \cap Tokens(SubSeq(s, 1 + 1, Len(s))) = {}
  BY <1>1, TokensCut
<1>5. Tokens(s) = {Token(Head(s))} \cup Tokens(Tail(s))
  BY <1>2, <1>3, <1>4
<1>6. Unique(s) => Unique(Tail(s)) /\ {Token(Head(s))} \cap Tokens(Tail(s)) = {}
  BY <1>2, <1>3, <1>4
<1> QED
  BY <1>5, <1>6
-----------------------------------------------------------------------------
(* The right answer.                                                       *)

LEMMA AnswerQuiet ==
  ASSUME outgoing = <<>>, incoming = <<>>, net = <<>>, atServer = {}, frame.kind # "respond"
  PROVE  AnswerInv
<1>1. UnderWay = {} /\ FrameTokens = {} /\ ServerTokens = {}
  BY TokensEmpty DEF UnderWay, FrameTokens, ServerTokens
<1> QED
  BY <1>1, TokensEmpty DEF AnswerInv, Held, Apart, RightAnswer

\* Nothing is under way, and no closure runs with a response, once the
\* connection is dropped or before one is there.
LEMMA DropAnswer ==
  ASSUME drop_connection, frame'.kind # "respond"
  PROVE  AnswerInv'
<1>1. outgoing' = <<>> /\ incoming' = <<>> /\ net' = <<>> /\ atServer' = {}
  BY DEF drop_connection
<1>2. UnderWay' = {} /\ FrameTokens' = {} /\ ServerTokens' = {}
  BY <1>1, TokensEmpty DEF UnderWay, FrameTokens, ServerTokens
<1> QED
  BY <1>1, <1>2, TokensEmpty DEF AnswerInv, Held, Apart, RightAnswer

LEMMA NullFrameKind ==
  ASSUME NEW table, NEW i, null_closures(table, i)
  PROVE  frame'.kind # "respond"
BY DEF null_closures, NoFrame, NullFrame

\* What a call holds does not change while the table does not.
LEMMA MoveAnswer ==
  ASSUME AnswerInv, UNCHANGED closures, faulty' = faulty, RightAnswer',
         ~faulty => UnderWay' \subseteq UnderWay /\ Apart'
  PROVE  AnswerInv'
BY DEF AnswerInv, Held

\* Requests written go from the client to the server.
LEMMA WriteTokens ==
  ASSUME NetTypeOK, NEW n \in 0 .. Len(outgoing), Write(n), Apart
  PROVE  /\ Tokens(outgoing') \cap ServerTokens' = {}
         /\ Tokens(outgoing') \cup ServerTokens' = Tokens(outgoing) \cup ServerTokens
         /\ Unique(outgoing')
<1>1. outgoing \in Seq(Request) /\ outgoing' = SubSeq(outgoing, n + 1, Len(outgoing))
  BY DEF NetTypeOK, Write, Written
<1> DEFINE front == SubSeq(outgoing, 1, n)
<1>2. /\ Tokens(outgoing) = Tokens(front) \cup Tokens(outgoing')
      /\ Tokens(front) = {Token(outgoing[i]) : i \in 1 .. n}
      /\ Unique(outgoing') /\ Tokens(front) \cap Tokens(outgoing') = {}
  BY <1>1, TokensCut DEF Apart
<1> HIDE DEF front
<1>3. atServer' = atServer \cup {outgoing[i] : i \in 1 .. n}
  BY DEF Write
<1>4. ServerTokens' = ServerTokens \cup Tokens(front)
  BY <1>2, <1>3 DEF ServerTokens
<1>5. Tokens(outgoing) \cap ServerTokens = {}
  BY DEF Apart
<1> QED
  BY <1>2, <1>4, <1>5

LEMMA ReadTokens ==
  ASSUME NetTypeOK, Apart, NEW n \in 1 .. Len(net),
         incoming' = incoming \o SubSeq(net, 1, n), net' = SubSeq(net, n + 1, Len(net))
  PROVE  /\ Tokens(net') \cap Tokens(incoming') = {}
         /\ Tokens(net') \cup Tokens(incoming') = Tokens(net) \cup Tokens(incoming)
         /\ Unique(net') /\ Unique(incoming')
<1>1. net \in Seq(Response) /\ incoming \in Seq(Response) /\ n \in 0 .. Len(net)
  BY DEF NetTypeOK
<1> DEFINE front == SubSeq(net, 1, n)
<1>2. /\ Tokens(net) = Tokens(front) \cup Tokens(net')
      /\ Unique(front) /\ Unique(net') /\ Tokens(front) \cap Tokens(net') = {}
  BY <1>1, TokensCut DEF Apart
<1>3. front \in Seq(Response)
  BY <1>1, CutType
<1>4. Tokens(net) \cap Tokens(incoming) = {} /\ Unique(incoming)
  BY DEF Apart
<1>5. incoming' = incoming \o front
  OBVIOUS
<1> HIDE DEF front
<1>6. Tokens(incoming) \cap Tokens(front) = {}
  BY <1>2, <1>4
<1>7. /\ Tokens(incoming \o front) = Tokens(incoming) \cup Tokens(front)
      /\ Unique(incoming) /\ Unique(front) /\ Tokens(incoming) \cap Tokens(front) = {}
           => Unique(incoming \o front)
  BY <1>1, <1>3, TokensConcat
<1>8. Tokens(incoming') = Tokens(incoming) \cup Tokens(front) /\ Unique(incoming')
  BY <1>2, <1>4, <1>5, <1>6, <1>7
<1> QED
  BY <1>2, <1>4, <1>8

LEMMA ReadableAnswer ==
  ASSUME SlotsInv, AnswerInv, HandleWritable \/ HandleReadable
  PROVE  AnswerInv'
<1>1. /\ NetTypeOK /\ UNCHANGED <<closures, faulty>> /\ frame.kind = "none" /\ frame'.kind # "respond"
  BY DEF HandleWritable, HandleReadable, SlotsInv, TypeInv, InLoop, LoopFrame, infoVars
<1>2. RightAnswer' /\ FrameTokens' = {}
  BY <1>1 DEF RightAnswer, FrameTokens
<1> SUFFICES ASSUME ~faulty
             PROVE  UnderWay' \subseteq UnderWay /\ Apart'
  BY <1>1, <1>2, MoveAnswer
<1>3. Apart
  BY DEF AnswerInv
<1>4. /\ Tokens(outgoing') \cap ServerTokens' = {}
      /\ Tokens(outgoing') \cup ServerTokens' = Tokens(outgoing) \cup ServerTokens
      /\ Unique(outgoing')
  <2>1. CASE NoWrite
    BY <1>3, <2>1 DEF NoWrite, Apart, ServerTokens
  <2>2. CASE \E n \in 0 .. Len(outgoing) : Write(n)
    BY <1>1, <1>3, <2>2, WriteTokens
  <2> QED
    BY <2>1, <2>2 DEF HandleWritable, HandleReadable
<1>5. /\ Tokens(net') \cap Tokens(incoming') = {}
      /\ Tokens(net') \cup Tokens(incoming') = Tokens(net) \cup Tokens(incoming)
      /\ Unique(net') /\ Unique(incoming')
  <2>1. CASE HandleWritable
    <3>1. UNCHANGED <<net, incoming>>
      BY <2>1 DEF HandleWritable
    <3> QED
      BY <1>3, <3>1 DEF Apart
  <2>2. CASE HandleReadable
    <3>1. PICK n \in 1 .. Len(net) : /\ incoming' = incoming \o SubSeq(net, 1, n)
                                     /\ net' = SubSeq(net, n + 1, Len(net))
      BY <2>2 DEF HandleReadable
    <3> QED
      BY <1>1, <1>3, <3>1, ReadTokens
  <2> QED
    BY <2>1, <2>2
<1>6. UnderWay' = UnderWay
  BY <1>4, <1>5 DEF UnderWay
<1>7. (Tokens(outgoing) \cup ServerTokens) \cap (Tokens(net) \cup Tokens(incoming)) = {}
  BY <1>3 DEF Apart
<1> QED
  BY <1>2, <1>4, <1>5, <1>6, <1>7 DEF Apart

LEMMA RespondAnswer ==
  ASSUME SlotsInv, AnswerInv, Running, frame.kind = "loop", incoming # <<>>,
         ValidRequestId(Head(incoming).id), incoming' = Tail(incoming),
         frame' = RespondFrame(Head(incoming), closures[Head(incoming).id].call),
         UNCHANGED <<infoVars, outgoing, netVars>>
  PROVE  AnswerInv'
<1> DEFINE r == Head(incoming)
<1>1. /\ incoming \in Seq(Response) /\ UNCHANGED <<closures, outgoing, atServer, net, faulty>>
  BY DEF SlotsInv, TypeInv, NetTypeOK, infoVars, netVars
<1>2. /\ Tokens(incoming) = Tokens(incoming') \cup {Token(r)}
      /\ Unique(incoming) => Unique(incoming') /\ Token(r) \notin Tokens(incoming')
  BY <1>1, TokensTail
<1>3. /\ frame'.kind = "respond" /\ frame'.resp = r /\ frame'.call = closures[r.id].call
  BY DEF RespondFrame
<1> HIDE DEF r
<1> SUFFICES ASSUME ~faulty
             PROVE  AnswerInv'
  BY <1>1 DEF AnswerInv
<1>4. Apart /\ Held
  BY DEF AnswerInv
<1>5. Token(r)[1] = r.id /\ Token(r)[2] = r.call
  BY DEF Token
<1>6. closures[r.id].call = r.call
  BY <1>2, <1>4, <1>5 DEF Held, UnderWay
<1>7. RightAnswer' /\ FrameTokens' = {Token(r)}
  BY <1>3, <1>6 DEF RightAnswer, FrameTokens, Token
<1>8. ServerTokens' = ServerTokens
  BY <1>1 DEF ServerTokens
<1>9. /\ Tokens(incoming') \subseteq Tokens(incoming)
      /\ Unique(incoming') /\ Token(r) \notin Tokens(incoming') /\ Token(r) \in Tokens(incoming)
  BY <1>2, <1>4 DEF Apart
<1>10. Apart'
  BY <1>1, <1>4, <1>7, <1>8, <1>9 DEF Apart, UnderWay
<1>11. UnderWay' \subseteq UnderWay
  BY <1>1, <1>8, <1>9 DEF UnderWay
<1>12. Held'
  BY <1>1, <1>4, <1>11 DEF Held
<1> QED
  BY <1>7, <1>10, <1>12 DEF AnswerInv

LEMMA ReleaseAnswer ==
  ASSUME SlotsInv, AnswerInv, ResponseClosureReturns
  PROVE  AnswerInv'
<1>1. /\ Running /\ frame.kind = "respond" /\ frame'.kind = "loop"
      /\ UNCHANGED <<outgoing, incoming, atServer, net, faulty>>
  BY DEF ResponseClosureReturns, LoopFrame, bufferVars, netVars
<1> SUFFICES ASSUME ~faulty
             PROVE  AnswerInv'
  BY <1>1 DEF AnswerInv
<1>2. Apart /\ Held /\ ReplyOK /\ closures \in Seq(Closure)
  BY <1>1 DEF AnswerInv, SlotsInv, SlotInv, TypeInv, TableTypeOK
<1> DEFINE i == frame.resp.id
<1>3. i \in 1 .. Len(closures) /\ closures[i].call = frame.call
      /\ closures' = [closures EXCEPT ![i] = ReleasedSlot]
  BY <1>1, <1>2, FrameKinds DEF ReplyOK, ResponseClosureReturns, SlotsInv, TypeInv
<1>4. RightAnswer' /\ FrameTokens' = {} /\ ServerTokens' = ServerTokens /\ UnderWay' = UnderWay
  BY <1>1 DEF RightAnswer, FrameTokens, ServerTokens, UnderWay
<1>5. Apart'
  BY <1>1, <1>2, <1>4 DEF Apart
<1>6. FrameTokens = {<<i, frame.call>>}
  BY <1>1 DEF FrameTokens
<1> HIDE DEF i
<1>7. ASSUME NEW t \in UnderWay
      PROVE  /\ t[1] \in 1 .. Len(closures') /\ t[2] \in Calls
             /\ closures'[t[1]].call = t[2]
  <2>1. t[1] \in 1 .. Len(closures) /\ t[2] \in Calls /\ closures[t[1]].call = t[2]
    BY <1>2 DEF Held
  <2>2. t = <<t[1], t[2]>>
    BY DEF UnderWay, Tokens, ServerTokens, Token
  <2>3. t # <<i, frame.call>>
    BY <1>2, <1>6 DEF Apart
  <2>4. t[1] # i
    BY <1>3, <2>1, <2>2, <2>3
  <2> QED
    BY <1>2, <1>3, <2>1, <2>4
<1>8. Held'
  BY <1>4, <1>7 DEF Held
<1> QED
  BY <1>4, <1>5, <1>8 DEF AnswerInv

LEMMA EnqueueAnswer ==
  ASSUME ~GrowInClosure, SlotsInv, AnswerInv, Running, state = "CONNECTED", NEW c \in Calls,
         c \notin asked, asked' = asked \cup {c}, UNCHANGED <<answers, incoming, netVars>>,
         enqueue_request(c),
         frame.kind = "respond" /\ first_free_request_id = 0 => GrowInClosure
  PROVE  AnswerInv'
<1>1. /\ frame' = frame /\ Roomy[Taken].call = NoCall /\ UNCHANGED <<incoming, atServer, net, faulty>>
  BY EnqueueSlots DEF SlotsInv, netVars
<1> SUFFICES ASSUME ~faulty
             PROVE  AnswerInv'
  BY <1>1 DEF AnswerInv
<1>2. Apart /\ Held /\ RightAnswer /\ ReplyOK /\ TableTypeOK /\ Len(closures) > 0
      /\ NetTypeOK /\ closures \in Seq(Closure) /\ Len(closures) \in Nat
  BY DEF AnswerInv, SlotsInv, SlotInv, TypeInv, TableTypeOK, TableThere
<1>3. /\ Roomy \in Seq(Closure) /\ Len(Roomy) >= Len(closures) /\ Taken \in 1 .. Len(Roomy)
      /\ Len(closures') = Len(Roomy) /\ Len(Roomy) \in Nat
      /\ \A i \in 1 .. Len(Roomy) : closures'[i] = IF i = Taken THEN UsedSlot(c) ELSE Roomy[i]
  BY <1>2, RoomyType, EnqueueTable
<1>4. \A i \in 1 .. Len(closures) : Roomy[i] = closures[i]
  BY <1>2, GrowType DEF Roomy
<1>5. outgoing' = Append(outgoing, [id |-> Taken, call |-> c])
  BY EnqueueIs
<1> DEFINE q == [id |-> Taken, call |-> c]
<1>6. q \in Request /\ Token(q) = <<Taken, c>> /\ outgoing \in Seq(Request)
  <2>1. Taken \in Nat
    BY <1>3
  <2>2. q \in Request
    BY <2>1, RequestType
  <2>3. q.id = Taken /\ q.call = c
    OBVIOUS
  <2> QED
    BY <1>2, <2>2, <2>3 DEF Token, NetTypeOK
<1>7. outgoing' = Append(outgoing, q)
  BY <1>5
<1> HIDE DEF q
<1>8. \A t \in UnderWay \cup FrameTokens : t[2] # c
  <2>1. CallsIn(closures, 0) = Busy
    BY FrameKinds DEF SlotsInv, SlotInv, TableOK, TypeInv
  <2>2. Busy \subseteq asked
    BY <1>2 DEF Busy, Waiting, ReplyOK
  <2>3. ASSUME NEW t \in UnderWay
        PROVE  t[2] \in asked
    <3>1. t[1] \in UsedAfter(closures, 0) /\ closures[t[1]].call = t[2]
      BY <1>2, ClientAssumption DEF Held, UsedAfter
    <3> QED
      BY <2>1, <2>2, <3>1 DEF CallsIn
  <2>4. ASSUME NEW t \in FrameTokens
        PROVE  t[2] \in asked
    BY <1>2 DEF FrameTokens, ReplyOK
  <2> QED
    BY <2>3, <2>4
<1>9. Token(q) \notin UnderWay \cup FrameTokens
  BY <1>6, <1>8
<1>10. /\ Tokens(outgoing') = Tokens(outgoing) \cup {Token(q)}
       /\ Unique(outgoing) /\ Token(q) \notin Tokens(outgoing) => Unique(outgoing')
  BY <1>6, <1>7, TokensAppend
<1>11. ServerTokens' = ServerTokens /\ FrameTokens' = FrameTokens /\ RightAnswer'
  BY <1>1, <1>2 DEF ServerTokens, FrameTokens, RightAnswer
<1>12. UnderWay' = UnderWay \cup {Token(q)}
  BY <1>1, <1>10, <1>11 DEF UnderWay
<1>13. Apart'
  <2>1. /\ Token(q) \notin Tokens(outgoing) /\ Token(q) \notin ServerTokens
        /\ Token(q) \notin Tokens(net) /\ Token(q) \notin Tokens(incoming)
        /\ Token(q) \notin FrameTokens
    BY <1>9 DEF UnderWay
  <2> QED
    BY <1>1, <1>2, <1>10, <1>11, <1>12, <2>1 DEF Apart
<1>14. ASSUME NEW t \in UnderWay \cup {Token(q)}
       PROVE  /\ t[1] \in 1 .. Len(closures') /\ t[2] \in Calls
              /\ closures'[t[1]].call = t[2]
  <2>1. CASE t = Token(q)
    <3>1. t[1] = Taken /\ t[2] = c
      BY <1>6, <2>1
    <3> QED
      BY <1>3, <3>1, ClosureFields
  <2>2. CASE t \in UnderWay
    <3>1. t[1] \in 1 .. Len(closures) /\ t[2] \in Calls /\ closures[t[1]].call = t[2]
      BY <1>2, <2>2 DEF Held
    <3>2. t[1] \in 1 .. Len(Roomy) /\ Roomy[t[1]].call = t[2]
      BY <1>2, <1>3, <1>4, <3>1
    <3>3. t[1] # Taken
      BY <1>1, <3>1, <3>2, ClientAssumption
    <3> QED
      BY <1>3, <3>1, <3>2, <3>3
  <2> QED
    BY <2>1, <2>2
<1>15. Held'
  BY <1>12, <1>14 DEF Held
<1> QED
  BY <1>11, <1>13, <1>15 DEF AnswerInv

LEMMA ServerAnswer ==
  ASSUME SlotsInv, AnswerInv, Server
  PROVE  AnswerInv'
<1>1. /\ UNCHANGED <<closures, outgoing, incoming, frame>> /\ NetTypeOK
  BY DEF Server, ServerResponds, ServerInvents, ServerCloses, infoVars, bufferVars, SlotsInv, TypeInv
<1>2. CASE ServerInvents
  BY <1>2 DEF ServerInvents, AnswerInv
<1>3. CASE ServerCloses
  <2>1. UNCHANGED <<atServer, net, faulty>>
    BY <1>3 DEF ServerCloses
  <2>2. ServerTokens' = ServerTokens /\ FrameTokens' = FrameTokens /\ RightAnswer' = RightAnswer
        /\ UnderWay' = UnderWay
    BY <1>1, <2>1 DEF ServerTokens, FrameTokens, RightAnswer, UnderWay
  <2> QED
    BY <1>1, <2>1, <2>2 DEF AnswerInv, Held, Apart
<1>4. CASE ServerResponds
  <2>1. PICK r \in atServer, ok \in BOOLEAN :
          /\ atServer' = atServer \ {r} /\ faulty' = faulty
          /\ net' = Append(net, [id |-> r.id, call |-> r.call, ok |-> ok])
    BY <1>4 DEF ServerResponds
  <2> DEFINE a == [id |-> r.id, call |-> r.call, ok |-> ok]
  <2>2. r \in Request /\ a \in Response /\ Token(a) = Token(r) /\ net \in Seq(Response)
    BY <1>1, RequestType DEF NetTypeOK, Token
  <2>3. net' = Append(net, a)
    BY <2>1
  <2> HIDE DEF a
  <2>4. ServerTokens' = ServerTokens \ {Token(r)} /\ Token(r) \in ServerTokens
    <3>1. ASSUME NEW s \in Request, Token(s) = Token(r)
          PROVE  s = r
      BY <2>2, <3>1 DEF Token, Request
    <3> QED
      BY <1>1, <2>1, <3>1 DEF ServerTokens, NetTypeOK
  <2>5. /\ Tokens(net') = Tokens(net) \cup {Token(r)}
        /\ Unique(net) /\ Token(r) \notin Tokens(net) => Unique(net')
    BY <2>2, <2>3, TokensAppend
  <2>6. FrameTokens' = FrameTokens /\ RightAnswer' = RightAnswer
    BY <1>1, <2>1 DEF FrameTokens, RightAnswer
  <2>7. UnderWay' = UnderWay
    BY <1>1, <2>4, <2>5 DEF UnderWay
  <2> SUFFICES ASSUME ~faulty PROVE AnswerInv'
    BY <2>1 DEF AnswerInv
  <2>8. Apart'
    BY <1>1, <2>4, <2>5, <2>6, <2>7 DEF Apart, AnswerInv
  <2> QED
    BY <1>1, <2>6, <2>7, <2>8 DEF AnswerInv, Held
<1> QED
  BY <1>2, <1>3, <1>4 DEF Server

LEMMA AnswerStep ==
  ASSUME ~GrowInClosure, SlotsInv, AnswerInv, [Next]_vars
  PROVE  AnswerInv'
<1>1. CASE client_failed \/ Destroy
  <2>1. drop_connection /\ null_closures(closures, 0)
    BY <1>1 DEF client_failed, Destroy
  <2> QED
    BY <2>1, NullFrameKind, DropAnswer
<1>2. CASE UNCHANGED <<outgoing, incoming, atServer, net, faulty, frame, closures>>
  <2>1. ServerTokens' = ServerTokens /\ FrameTokens' = FrameTokens /\ RightAnswer' = RightAnswer
        /\ UnderWay' = UnderWay
    BY <1>2 DEF ServerTokens, FrameTokens, RightAnswer, UnderWay
  <2> QED
    BY <1>2, <2>1 DEF AnswerInv, Held, Apart
<1>3. ASSUME state # "CONNECTED", frame'.kind # "respond",
             UNCHANGED <<outgoing, incoming, atServer, net, faulty>>
      PROVE  AnswerInv'
  <2>1. outgoing' = <<>> /\ incoming' = <<>> /\ net' = <<>> /\ atServer' = {}
    BY <1>3 DEF SlotsInv, Quiet
  <2>2. UnderWay' = {} /\ FrameTokens' = {} /\ ServerTokens' = {}
    BY <1>3, <2>1, TokensEmpty DEF UnderWay, FrameTokens, ServerTokens
  <2> QED
    BY <1>3, <2>1, <2>2, TokensEmpty DEF AnswerInv, Held, Apart, RightAnswer
<1>4. CASE HandleInitIdle \/ HandleAutoreconnectTimeout \/ HandleConnectEvents
  <2>1. state # "CONNECTED" /\ frame.kind = "none"
    BY <1>4 DEF HandleInitIdle, HandleAutoreconnectTimeout, HandleConnectEvents, InLoop,
                SlotsInv, HandlersFitState
  <2>2. client_failed \/ UNCHANGED <<outgoing, incoming, frame, atServer, net, faulty>>
    BY <1>4 DEF HandleInitIdle, HandleAutoreconnectTimeout, HandleConnectEvents,
       begin_name_lookup, bufferVars, netVars
  <2> QED
    BY <1>1, <1>3, <2>1, <2>2
<1>5. CASE HandleConnectionLost
  BY <1>1, <1>5 DEF HandleConnectionLost
<1>6. CASE ProcessResponse
  <2>1. Running /\ frame.kind = "loop" /\ incoming # <<>>
    BY <1>6 DEF ProcessResponse, LoopFrame
  <2>2. CASE /\ ValidRequestId(Head(incoming).id) /\ incoming' = Tail(incoming)
             /\ frame' = RespondFrame(Head(incoming), closures[Head(incoming).id].call)
             /\ UNCHANGED <<infoVars, outgoing, netVars>>
    BY <2>1, <2>2, RespondAnswer
  <2> QED
    BY <1>1, <1>6, <2>2 DEF ProcessResponse
<1>7. CASE NullClosureReturns
  <2>1. /\ state # "CONNECTED" /\ UNCHANGED <<outgoing, incoming, atServer, net, faulty>>
        /\ null_closures(frame.table, frame.at)
    BY <1>7, FrameKinds DEF NullClosureReturns, SlotsInv, TypeInv, bufferVars, netVars
  <2> QED
    BY <1>3, <2>1, NullFrameKind
<1>8. CASE LoopEnds
  <2>1. frame.kind # "respond" /\ frame'.kind # "respond"
        /\ UNCHANGED <<outgoing, incoming, atServer, net, faulty, closures>>
    BY <1>8 DEF LoopEnds, LoopFrame, NoFrame, bufferVars, netVars, infoVars
  <2>2. ServerTokens' = ServerTokens /\ FrameTokens' = FrameTokens /\ RightAnswer'
        /\ UnderWay' = UnderWay
    BY <2>1 DEF ServerTokens, FrameTokens, RightAnswer, UnderWay
  <2> QED
    BY <2>1, <2>2 DEF AnswerInv, Held, Apart
<1>9. CASE (\E on \in BOOLEAN : SetAutoreconnect(on)) \/ Terminated \/ UNCHANGED vars
  BY <1>2, <1>9 DEF SetAutoreconnect, Terminated, vars, bufferVars, netVars, infoVars
<1>10. ASSUME NEW c \in Calls, Invoke(c)
       PROVE  AnswerInv'
  <2>1. /\ Running /\ c \notin asked /\ asked' = asked \cup {c}
        /\ UNCHANGED <<incoming, netVars>>
    BY <1>10 DEF Invoke
  <2>2. CASE /\ state = "CONNECTED" /\ enqueue_request(c) /\ UNCHANGED answers
             /\ frame.kind = "respond" /\ first_free_request_id = 0 => GrowInClosure
    BY <2>1, <2>2, EnqueueAnswer
  <2>3. CASE UNCHANGED <<watch, infoVars, outgoing, frame>>
    BY <1>2, <2>1, <2>3 DEF netVars, infoVars
  <2> QED
    BY <1>10, <2>2, <2>3 DEF Invoke
<1> QED
  BY <1>1, <1>4, <1>5, <1>6, <1>7, <1>8, <1>9, <1>10, ReadableAnswer, ReleaseAnswer, ServerAnswer
     DEF Next, ClientRuns, Program

\* Request ids are reused and responses come in any order, and still a closure is
\* given the response to its own request, as long as the server sent no response
\* to nothing over the connection: a call has one message under way, and its
\* slot is not given to another while it has.
THEOREM ClosuresGetTheirAnswer == ~GrowInClosure => (Spec => []RightAnswer)
<1> SUFFICES ASSUME ~GrowInClosure PROVE Spec => []RightAnswer
  OBVIOUS
<1>1. Init => AnswerInv
  <2> SUFFICES ASSUME Init PROVE AnswerInv
    OBVIOUS
  <2>1. frame.kind = "none"
    BY DEF Init, NoFrame
  <2> QED
    BY <2>1, AnswerQuiet DEF Init
<1>2. SlotsInv /\ AnswerInv /\ [Next]_vars => AnswerInv'
  BY AnswerStep
<1>3. AnswerInv => RightAnswer
  BY DEF AnswerInv, RightAnswer
<1> QED
  BY <1>1, <1>2, <1>3, SlotsAlways, PTL DEF Spec
=============================================================================
