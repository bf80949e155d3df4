--------------------------- MODULE RpcServerProofs --------------------------
(***************************************************************************)
(* RpcServer for any set of connections and any bounds: the memory of the  *)
(* requests is sound, a response goes once to the connection its request   *)
(* came from, and WRITABLE is watched for exactly while there is something *)
(* to write.                                                               *)
(***************************************************************************)
EXTENDS RpcServer, RecursionLemmas, FiniteSetTheorems

-----------------------------------------------------------------------------
\* GSK_LIST_REMOVE takes exactly its node off the list.
LEMMA UnlinkedList ==
  ASSUME NEW S, NEW s \in Seq(S), NEW b \in ToSet(s), Inj(s)
  PROVE  /\ unlinked(s, b) \in Seq(S)
         /\ Len(s) \in Nat \ {0} /\ Len(unlinked(s, b)) = Len(s) - 1
         /\ ToSet(unlinked(s, b)) = ToSet(s) \ {b}
         /\ Inj(unlinked(s, b))
  BY RemovedList DEF unlinked
-----------------------------------------------------------------------------
(* The ids of requests or responses that travel in order.                  *)

Ids(s)   == {s[i].id : i \in 1 .. Len(s)}
IdInj(s) == \A i, j \in 1 .. Len(s) : s[i].id = s[j].id => i = j

LEMMA IdsEmpty == Ids(<<>>) = {} /\ IdInj(<<>>)
  BY DEF Ids, IdInj

LEMMA IdsAppend ==
  ASSUME NEW S, NEW s \in Seq(S), NEW x \in S
  PROVE  /\ Ids(Append(s, x)) = Ids(s) \cup {x.id}
         /\ IdInj(s) /\ x.id \notin Ids(s) => IdInj(Append(s, x))
<1> DEFINE t == Append(s, x)
<1>1. /\ Len(t) = Len(s) + 1 /\ Len(s) \in Nat /\ t[Len(s) + 1] = x
      /\ \A i \in 1 .. Len(s) : t[i] = s[i]
  OBVIOUS
<1> HIDE DEF t
<1>2. Ids(t) = Ids(s) \cup {x.id}
  BY <1>1 DEF Ids
<1>3. ASSUME IdInj(s), x.id \notin Ids(s), NEW i \in 1 .. Len(t), NEW j \in 1 .. Len(t),
             t[i].id = t[j].id
      PROVE  i = j
  BY <1>1, <1>3 DEF Ids, IdInj
<1> QED
  BY <1>2, <1>3 DEF IdInj, t

\* What a prefix has, the whole has.
LEMMA IdsPrefix ==
  ASSUME NEW S, NEW s \in Seq(S), NEW t \in Seq(S)
  PROVE  /\ s \o t \in Seq(S)
         /\ Ids(s) \subseteq Ids(s \o t)
         /\ IdInj(s \o t) => IdInj(s)
         /\ \A i \in 1 .. Len(s) : i \in 1 .. Len(s \o t) /\ s[i] = (s \o t)[i]
<1> DEFINE w == s \o t
<1>1. w \in Seq(S) /\ Len(w) = Len(s) + Len(t) /\ Len(s) \in Nat /\ Len(t) \in Nat
  OBVIOUS
<1>2. \A i \in 1 .. Len(s) : i \in 1 .. Len(w) /\ w[i] = s[i]
  BY <1>1, ConcatProperties
<1> HIDE DEF w
<1> QED
  BY <1>1, <1>2 DEF Ids, IdInj, w

LEMMA IdsTail ==
  ASSUME NEW S, NEW s \in Seq(S), NEW t \in Seq(S), s # <<>>
  PROVE  /\ Ids(s \o t) = {Head(s).id} \cup Ids(Tail(s) \o t)
         /\ IdInj(s \o t) => /\ IdInj(Tail(s) \o t)
                             /\ Head(s).id \notin Ids(Tail(s) \o t)
<1> DEFINE w == s \o t
           v == Tail(s) \o t
<1>0. Tail(s) \in Seq(S) /\ Len(Tail(s)) = Len(s) - 1 /\ Len(s) \in Nat \ {0} /\ Len(t) \in Nat
  OBVIOUS
<1>1. Len(w) = Len(s) + Len(t) /\ Len(v) = Len(s) - 1 + Len(t)
  BY <1>0
<1>2. \A i \in 1 .. Len(w) : w[i] = IF i <= Len(s) THEN s[i] ELSE t[i - Len(s)]
  BY <1>1, ConcatProperties
<1>3. \A i \in 1 .. Len(v) : v[i] = IF i <= Len(s) - 1 THEN Tail(s)[i] ELSE t[i - (Len(s) - 1)]
  BY <1>0, <1>1, ConcatProperties
<1>4. \A i \in 1 .. Len(s) - 1 : Tail(s)[i] = s[i + 1]
  OBVIOUS
<1>5. Head(s) = s[1]
  OBVIOUS
<1> HIDE DEF w, v
<1>6. w[1] = Head(s) /\ 1 \in 1 .. Len(w)
  BY <1>0, <1>1, <1>2, <1>5
<1>7. \A i \in 1 .. Len(v) : i + 1 \in 1 .. Len(w) /\ v[i] = w[i + 1]
  BY <1>0, <1>1, <1>2, <1>3, <1>4
<1>8. \A i \in 1 .. Len(w) : i = 1 \/ (i - 1 \in 1 .. Len(v) /\ w[i] = v[i - 1])
  BY <1>0, <1>1, <1>7
<1>9. Ids(w) = {Head(s).id} \cup Ids(v)
  <2>1. \A i \in 1 .. Len(w) : w[i].id \in {Head(s).id} \cup Ids(v)
    BY <1>6, <1>8 DEF Ids
  <2>2. \A i \in 1 .. Len(v) : v[i].id \in Ids(w)
    BY <1>7 DEF Ids
  <2>3. Head(s).id \in Ids(w)
    BY <1>6 DEF Ids
  <2>4. /\ \A x \in Ids(w) : \E i \in 1 .. Len(w) : x = w[i].id
        /\ \A x \in Ids(v) : \E i \in 1 .. Len(v) : x = v[i].id
    BY DEF Ids
  <2> QED BY <2>1, <2>2, <2>3, <2>4
<1>10. ASSUME IdInj(w) PROVE IdInj(v)
  <2> SUFFICES ASSUME NEW i \in 1 .. Len(v), NEW j \in 1 .. Len(v), v[i].id = v[j].id PROVE i = j
    BY DEF IdInj
  <2>1. i + 1 = j + 1
    BY <1>7, <1>10 DEF IdInj
  <2> QED BY <2>1, <1>0, <1>1
<1>11. ASSUME IdInj(w), NEW i \in 1 .. Len(v), v[i].id = Head(s).id PROVE FALSE
  <2>1. i + 1 = 1
    BY <1>6, <1>7, <1>11 DEF IdInj
  <2> QED BY <2>1, <1>0, <1>1
<1> QED
  BY <1>9, <1>10, <1>11 DEF w, v, Ids

\* Moving a prefix from one buffer to the end of another changes no order.
LEMMA Moved ==
  ASSUME NEW S, NEW s \in Seq(S), NEW t \in Seq(S), NEW n \in 0 .. Len(t)
  PROVE  /\ s \o SubSeq(t, 1, n) \in Seq(S)
         /\ (s \o SubSeq(t, 1, n)) \o SubSeq(t, n + 1, Len(t)) = s \o t
<1> DEFINE u == SubSeq(t, 1, n)
           v == SubSeq(t, n + 1, Len(t))
<1>1. Len(t) \in Nat /\ n \in Nat /\ n <= Len(t)
  OBVIOUS
<1>2. u \in Seq(S) /\ Len(u) = n /\ \A i \in 1 .. n : u[i] = t[i]
  BY <1>1
<1>3. v \in Seq(S) /\ Len(v) = Len(t) - n /\ \A i \in 1 .. Len(t) - n : v[i] = t[i + n]
  BY <1>1
<1> HIDE DEF u, v
<1>5. s \o u \in Seq(S) /\ (s \o u) \o v = s \o (u \o v)
  <2>1. u \in Seq(S) /\ v \in Seq(S)
    BY <1>2, <1>3
  <2> QED BY <2>1, ConcatAssociative, ConcatProperties, SMTT(30)
<1>6. u \o v = t
  <2>1. u \o v \in Seq(S) /\ Len(u \o v) = Len(t)
    <3>1. u \in Seq(S) /\ v \in Seq(S)
      BY <1>2, <1>3
    <3>2. u \o v \in Seq(S) /\ Len(u \o v) = Len(u) + Len(v)
      BY <3>1, ConcatProperties, ZenonT(30)
    <3>3. Len(u) = n /\ Len(v) = Len(t) - n
      BY <1>2, <1>3
    <3> DEFINE k == Len(t)
    <3> HIDE DEF k
    <3>4. n + (k - n) = k
      BY <1>1 DEF k
    <3> QED
      BY <3>2, <3>3, <3>4, Zenon DEF k
  <2>2. \A i \in 1 .. Len(u) + Len(v) :
          (u \o v)[i] = IF i <= Len(u) THEN u[i] ELSE v[i - Len(u)]
    <3>1. u \in Seq(S) /\ v \in Seq(S)
      BY <1>2, <1>3
    <3> QED BY <3>1, ConcatProperties
  <2>3. \A i \in 1 .. Len(t) : (u \o v)[i] = t[i]
    BY <2>2, <1>1, <1>2, <1>3
  <2> QED
    BY <2>1, <2>3, SeqEqual
<1> QED
  BY <1>5, <1>6 DEF u, v

\* What is left of a buffer.
LEMMA Cut ==
  ASSUME NEW S, NEW t \in Seq(S), NEW n \in 0 .. Len(t)
  PROVE  /\ SubSeq(t, n + 1, Len(t)) \in Seq(S)
         /\ SubSeq(t, n + 1, Len(t)) = <<>> <=> n = Len(t)
<1> DEFINE v == SubSeq(t, n + 1, Len(t))
<1>1. Len(t) \in Nat /\ n \in Nat /\ n <= Len(t)
  OBVIOUS
<1>2. v \in Seq(S) /\ Len(v) = Len(t) - n
  BY <1>1
<1> HIDE DEF v
<1>3. v = <<>> <=> Len(v) = 0
  BY <1>2, EmptySeq
<1> QED
  BY <1>1, <1>2, <1>3 DEF v
-----------------------------------------------------------------------------
(* The invariant.                                                          *)

TypeConn ==
  /\ connections \subseteq accepted /\ accepted \subseteq Conns
  /\ incoming \in [Conns -> Seq(Request)] /\ outgoing \in [Conns -> Seq(Response)]
  /\ watch \in [Conns -> SUBSET {READABLE, WRITABLE}]
  /\ toServer \in [Conns -> Seq(Request)] /\ written \in [Conns -> Seq(Response)]
TypeReq ==
  /\ pending \in [Conns -> Seq(Blocks)] /\ n_pending_requests \in [Conns -> Nat]
  /\ request \in [Blocks -> ServerRequest] /\ allocated \subseteq Blocks
  /\ recycled_requests \in Seq(Blocks)
TypeFrame ==
  \/ frame = NoFrame
  \/ frame \in [kind : {"loop", "invoke"}, conn : Conns, writable : BOOLEAN]
  \/ frame \in [kind : {"drain"}, responses : Seq(Proxied)]
TypeCtl ==
  /\ server \in {"running", "destroyed"}
  /\ tasks \subseteq Task /\ pipe \in Seq(Proxied) /\ lost \subseteq Blocks
  /\ owed \subseteq Call /\ status \in {"ok", "late_answer", "server_gone", "wild"}
  /\ peer \in [Conns -> {"none", "open", "closed"}]
  /\ sent \in 0 .. MaxRequests
TypeInv == TypeConn /\ TypeReq /\ TypeFrame /\ TypeCtl

\* Responses on their way through the pipe, and the requests that are in use.
Drained == IF frame.kind = "drain" THEN ToSet(frame.responses) ELSE {}
Proxies == ToSet(pipe) \cup Drained
Live    == Held \cup lost

\* What a client has sent and the service has not seen; what it was answered.
Stream(c)  == incoming[c] \o toServer[c]
Replies(c) == written[c] \o outgoing[c]

\* A request in use is held by one task or by one response in the pipe, or is
\* lost.
OneHolder ==
  /\ \A t, u \in tasks : t.request = u.request => t = u
  /\ \A p, q \in Proxies : p.request = q.request => p = q
  /\ \A t \in tasks, p \in Proxies : t.request # p.request
  /\ \A t \in tasks : t.request \notin lost
  /\ \A p \in Proxies : p.request \notin lost
PipeOK ==
  /\ ToSet(pipe) \cap Drained = {} /\ Inj(pipe)
  /\ frame.kind = "drain" => Inj(frame.responses)

\* It belongs to the call its holder thinks, whose connection is still there, or
\* it is defunct.
OwnRequest(b, k) ==
  request[b].request_id = k.number /\ request[b].conn \in {k.conn, NoConn}
HoldersRight ==
  /\ \A t \in tasks : OwnRequest(t.request, t.call)
  /\ \A p \in Proxies : /\ OwnRequest(p.request, p.response.call)
                        /\ p.response.id = p.response.call.number
HoldInv == OneHolder /\ PipeOK /\ HoldersRight

\* The memory: recycled or in use, and in use means pending or defunct.
Memory ==
  /\ server = "running" =>
       /\ Inj(recycled_requests) /\ ToSet(recycled_requests) \cap Live = {}
       /\ allocated = ToSet(recycled_requests) \cup Live
  /\ server = "destroyed" => allocated = Live
Pending(c) ==
  /\ n_pending_requests[c] = Len(pending[c])
  /\ Inj(pending[c])
  /\ ToSet(pending[c]) = {b \in Live : request[b].conn = c}
MemInv ==
  /\ Memory
  /\ \A b \in Live : request[b].conn \in connections \cup {NoConn}
  /\ \A c \in Conns : Pending(c)

\* An id is used once: it is on its way to the service, or belongs to one request
\* in use, or has been answered.
LiveIds == {request[b].request_id : b \in Live}
IdInv ==
  /\ LiveIds \subseteq 1 .. sent
  /\ \A a, b \in Live : request[a].request_id = request[b].request_id => a = b
  /\ \A c \in Conns : /\ IdInj(Stream(c))
                      /\ Ids(Stream(c)) \cup Ids(Replies(c)) \subseteq 1 .. sent
                      /\ LiveIds \cap (Ids(Stream(c)) \cup Ids(Replies(c))) = {}
  /\ \A c, d \in Conns : c # d => Ids(Stream(c)) \cap Ids(Stream(d)) = {}
  /\ \A c, d \in Conns : Ids(Stream(c)) \cap Ids(Replies(d)) = {}

RepliesInv ==
  \A c \in Conns :
    /\ IdInj(Replies(c))
    /\ \A i \in 1 .. Len(Replies(c)) :
         Replies(c)[i].call = [conn |-> c, number |-> Replies(c)[i].id]

FrameInv ==
  /\ frame.kind \in {"loop", "invoke"} => frame.conn \in connections /\ server = "running"
  /\ frame.kind = "drain" => server = "running" /\ frame.responses # <<>>
  /\ server = "destroyed" => connections = {}
  /\ \A c \in Conns : c \notin connections => outgoing[c] = <<>>

Core == HoldInv /\ MemInv /\ IdInv /\ FrameInv

\* A program that misuses the server ends the behaviour, so that the invariant of
\* the memory is needed only while it does not.
IInv == /\ TypeInv /\ status # "wild" /\ RepliesInv /\ WatchFitsOutgoing
        /\ Running => Core

LEMMA TypeParts == TypeOK <=> TypeInv
  BY DEF TypeOK, TypeInv, TypeConn, TypeReq, TypeFrame, TypeCtl

LEMMA FrameKinds ==
  ASSUME TypeFrame
  PROVE  /\ frame.kind \in {"none", "loop", "invoke", "drain"}
         /\ frame.kind = "none" => frame = NoFrame
         /\ frame.kind \in {"loop", "invoke"} => frame.conn \in Conns /\ frame.writable \in BOOLEAN
         /\ frame.kind = "drain" => frame.responses \in Seq(Proxied)
  BY DEF TypeFrame, NoFrame

\* What the frames that the actions set amount to.
LEMMA FrameTypes ==
  /\ NoFrame.kind = "none"
  /\ \A c \in Conns, w \in BOOLEAN :
       /\ LoopFrame(c, w) \in [kind : {"loop", "invoke"}, conn : Conns, writable : BOOLEAN]
       /\ LoopFrame(c, w).kind = "loop" /\ LoopFrame(c, w).conn = c
       /\ InvokeFrame(c, w) \in [kind : {"loop", "invoke"}, conn : Conns, writable : BOOLEAN]
       /\ InvokeFrame(c, w).kind = "invoke" /\ InvokeFrame(c, w).conn = c
  /\ \A rs \in Seq(Proxied) :
       /\ DrainFrame(rs) \in [kind : {"drain"}, responses : Seq(Proxied)]
       /\ DrainFrame(rs).kind = "drain" /\ DrainFrame(rs).responses = rs
  BY DEF NoFrame, LoopFrame, InvokeFrame, DrainFrame

LEMMA LiveIs ==
  Live = {t.request : t \in tasks} \cup {p.request : p \in Proxies} \cup lost
<1>1. CASE frame.kind = "drain"
  BY <1>1 DEF Live, Held, Proxies, Drained
<1>2. CASE frame.kind # "drain"
  BY <1>2 DEF Live, Held, Proxies, Drained
<1> QED BY <1>1, <1>2

LEMMA ProxyTypes ==
  ASSUME TypeInv
  PROVE  Proxies \subseteq Proxied /\ Live \subseteq Blocks
<1>1. ToSet(pipe) \subseteq Proxied
  BY ToSetMember DEF TypeInv, TypeCtl
<1>2. Drained \subseteq Proxied
  BY FrameKinds, ToSetMember DEF TypeInv, Drained
<1>3. Proxies \subseteq Proxied
  BY <1>1, <1>2 DEF Proxies
<1>4. \A p \in Proxied : p.request \in Blocks
  BY DEF Proxied
<1>5. \A t \in Task : t.request \in Blocks
  BY DEF Task
<1> QED
  BY <1>3, <1>4, <1>5, LiveIs DEF TypeInv, TypeCtl

LEMMA LiveIsNext ==
  Live' = {t.request : t \in tasks'} \cup {p.request : p \in Proxies'} \cup lost'
<1>1. CASE frame'.kind = "drain"
  BY <1>1 DEF Live, Held, Proxies, Drained
<1>2. CASE frame'.kind # "drain"
  BY <1>2 DEF Live, Held, Proxies, Drained
<1> QED BY <1>1, <1>2

\* A step that leaves the holders alone leaves alone what they hold.
LEMMA SameHolders ==
  ASSUME tasks' = tasks, pipe' = pipe, lost' = lost, Drained' = Drained
  PROVE  Proxies' = Proxies /\ Live' = Live
<1>1. Proxies' = Proxies
  BY DEF Proxies
<1> QED
  BY <1>1, LiveIs, LiveIsNext

-----------------------------------------------------------------------------
(* Steps that leave requests and answers alone.                            *)

LEMMA QuietHold ==
  ASSUME HoldInv, Proxies' = Proxies, tasks' = tasks, pipe' = pipe, lost' = lost,
         Drained' = Drained, request' = request, frame'.kind = "drain" => frame' = frame
  PROVE  HoldInv'
<1>1. OneHolder'
  BY DEF HoldInv, OneHolder
<1>2. PipeOK'
  BY DEF HoldInv, PipeOK
<1>3. HoldersRight'
  BY DEF HoldInv, HoldersRight, OwnRequest
<1> QED
  BY <1>1, <1>2, <1>3 DEF HoldInv

LEMMA QuietMem ==
  ASSUME MemInv, Live' = Live, UNCHANGED requestVars, server' = server,
         connections \subseteq connections'
  PROVE  MemInv'
<1> USE DEF requestVars
<1>1. Memory'
  BY DEF MemInv, Memory
<1>2. \A b \in Live' : request'[b].conn \in connections' \cup {NoConn}
  BY DEF MemInv
<1>3. \A c \in Conns : Pending(c)'
  BY DEF MemInv, Pending
<1> QED
  BY <1>1, <1>2, <1>3 DEF MemInv

LEMMA QuietIds ==
  ASSUME IdInv, Live' = Live, request' = request, sent' = sent,
         \A c \in Conns : Stream(c)' = Stream(c) /\ Replies(c)' = Replies(c)
  PROVE  IdInv'
<1>1. LiveIds' = LiveIds
  BY DEF LiveIds
<1>2. \A c \in Conns : /\ Ids(Stream(c))' = Ids(Stream(c))
                       /\ Ids(Replies(c))' = Ids(Replies(c))
                       /\ IdInj(Stream(c))' = IdInj(Stream(c))
  BY DEF Ids, IdInj
<1> QED
  BY <1>1, <1>2 DEF IdInv

LEMMA QuietReplies ==
  ASSUME RepliesInv, \A c \in Conns : Replies(c)' = Replies(c)
  PROVE  RepliesInv'
  BY DEF RepliesInv, IdInj

LEMMA QuietCore ==
  ASSUME IInv, tasks' = tasks, pipe' = pipe, lost' = lost,
         Drained' = Drained, frame'.kind = "drain" => frame' = frame,
         UNCHANGED requestVars, server' = server, sent' = sent, status' = status,
         connections \subseteq connections',
         \A c \in Conns : Stream(c)' = Stream(c) /\ Replies(c)' = Replies(c)
  PROVE  /\ Running' => HoldInv' /\ MemInv' /\ IdInv'
         /\ RepliesInv' /\ status' # "wild"
<1>1. Proxies' = Proxies /\ Live' = Live
  BY SameHolders
<1>2. RepliesInv' /\ status' # "wild"
  BY QuietReplies DEF IInv
<1>3. Running' => Core
  BY DEF IInv, Running
<1>4. request' = request
  BY DEF requestVars
<1>5. Running' => HoldInv'
  BY <1>1, <1>3, <1>4, QuietHold DEF Core
<1>6. Running' => MemInv'
  BY <1>1, <1>3, QuietMem DEF Core
<1>7. Running' => IdInv'
  BY <1>1, <1>3, <1>4, QuietIds DEF Core
<1> QED
  BY <1>2, <1>5, <1>6, <1>7

LEMMA AcceptStep ==
  ASSUME IInv, NEW c \in Conns, Accept(c)
  PROVE  IInv'
<1> USE DEF Accept
<1>1. Running /\ Core /\ c \notin connections /\ outgoing[c] = <<>> /\ server = "running"
  BY DEF IInv, InLoop, Core, FrameInv, TypeInv, TypeConn
<1>2. TypeInv'
  <2>1. TypeConn'
    BY DEF IInv, TypeInv, TypeConn
  <2>2. TypeReq'
    BY DEF IInv, TypeInv, TypeReq, requestVars
  <2>3. TypeFrame' /\ TypeCtl'
    BY DEF IInv, TypeInv, TypeFrame, TypeCtl, clientVars
  <2> QED BY <2>1, <2>2, <2>3 DEF TypeInv
<1>3. /\ Running' => HoldInv' /\ MemInv' /\ IdInv'
      /\ RepliesInv' /\ status' # "wild"
  <2>1. Drained' = Drained
    BY DEF Drained
  <2>2. \A d \in Conns : Stream(d)' = Stream(d) /\ Replies(d)' = Replies(d)
    BY DEF Stream, Replies
  <2>3. sent' = sent
    BY DEF clientVars
  <2> QED BY <2>1, <2>2, <2>3, QuietCore
<1>4. WatchFitsOutgoing'
  BY <1>1 DEF IInv, TypeInv, TypeConn, WatchFitsOutgoing
<1>5. FrameInv'
  BY <1>1 DEF Core, FrameInv, TypeInv, TypeConn
<1> QED
  BY <1>2, <1>3, <1>4, <1>5 DEF IInv, Core

LEMMA ReadableStep ==
  ASSUME IInv, NEW c \in Conns, HandleReadable(c)
  PROVE  IInv'
<1> USE DEF HandleReadable
<1>1. Running /\ Core /\ c \in connections /\ frame = NoFrame
  BY DEF IInv, InLoop
<1>2. PICK n \in 1 .. Len(toServer[c]) :
        /\ incoming' = [incoming EXCEPT ![c] = @ \o SubSeq(toServer[c], 1, n)]
        /\ toServer' = [toServer EXCEPT ![c] = SubSeq(@, n + 1, Len(@))]
  OBVIOUS
<1>3. PICK w \in BOOLEAN : frame' = LoopFrame(c, w)
  OBVIOUS
<1>4. /\ incoming \in [Conns -> Seq(Request)] /\ toServer \in [Conns -> Seq(Request)]
      /\ incoming[c] \in Seq(Request) /\ toServer[c] \in Seq(Request)
  BY DEF IInv, TypeInv, TypeConn
<1>5. n \in 0 .. Len(toServer[c])
  BY <1>4
<1>6. /\ SubSeq(toServer[c], n + 1, Len(toServer[c])) \in Seq(Request)
      /\ incoming[c] \o SubSeq(toServer[c], 1, n) \in Seq(Request)
      /\ (incoming[c] \o SubSeq(toServer[c], 1, n))
           \o SubSeq(toServer[c], n + 1, Len(toServer[c])) = incoming[c] \o toServer[c]
  <2> DEFINE in == incoming[c]
             net == toServer[c]
  <2>1. in \in Seq(Request) /\ net \in Seq(Request) /\ n \in 0 .. Len(net)
    BY <1>4, <1>5
  <2> HIDE DEF in, net, HandleReadable
  <2>2. SubSeq(net, n + 1, Len(net)) \in Seq(Request)
    BY <2>1, Cut
  <2>3. in \o SubSeq(net, 1, n) \in Seq(Request)
    BY <2>1, Moved
  <2>4. (in \o SubSeq(net, 1, n)) \o SubSeq(net, n + 1, Len(net)) = in \o net
    BY <2>1, Moved
  <2> QED BY <2>2, <2>3, <2>4 DEF in, net
<1>7. TypeInv'
  <2>1. TypeConn'
    <3>1. incoming' \in [Conns -> Seq(Request)] /\ toServer' \in [Conns -> Seq(Request)]
      BY <1>2, <1>4, <1>6
    <3> QED BY <3>1 DEF IInv, TypeInv, TypeConn
  <2>2. TypeReq'
    BY DEF IInv, TypeInv, TypeReq, requestVars
  <2>3. TypeFrame'
    BY <1>3, FrameTypes DEF TypeFrame
  <2>4. TypeCtl'
    BY DEF IInv, TypeInv, TypeCtl, clientVars
  <2> QED BY <2>1, <2>2, <2>3, <2>4 DEF TypeInv
<1>8. frame'.kind = "loop" /\ frame'.conn = c /\ frame.kind = "none"
  BY <1>1, <1>3, FrameTypes
<1>9. \A d \in Conns : Stream(d)' = Stream(d)
  <2>1. incoming'[c] \o toServer'[c] = incoming[c] \o toServer[c]
    BY <1>2, <1>4, <1>6
  <2>2. \A d \in Conns : d # c => incoming'[d] = incoming[d] /\ toServer'[d] = toServer[d]
    BY <1>2, <1>4
  <2> QED BY <2>1, <2>2 DEF Stream
<1>10. /\ Running' => HoldInv' /\ MemInv' /\ IdInv'
       /\ RepliesInv' /\ status' # "wild"
  <2>1. Drained' = Drained
    BY <1>8 DEF Drained
  <2>2. \A d \in Conns : Stream(d)' = Stream(d) /\ Replies(d)' = Replies(d)
    BY <1>9 DEF Replies
  <2>3. sent' = sent
    BY DEF clientVars
  <2> QED BY <1>8, <2>1, <2>2, <2>3, QuietCore
<1>11. WatchFitsOutgoing'
  BY DEF IInv, WatchFitsOutgoing
<1>12. FrameInv'
  <2>1. server = "running"
    BY <1>1 DEF Core, FrameInv, IInv, TypeInv, TypeCtl
  <2> QED BY <1>1, <1>8, <2>1 DEF Core, FrameInv
<1> QED
  BY <1>7, <1>10, <1>11, <1>12 DEF IInv, Core
-----------------------------------------------------------------------------
(* Writing.                                                                *)

\* A response that is written is still answered, and is watched for no longer
\* than it is there.
LEMMA WriteEffect ==
  ASSUME TypeConn, WatchFitsOutgoing, NEW c \in connections, connections' = connections,
         accepted' = accepted,
         NEW n \in 0 .. Len(outgoing[c]), Write(c, n), incoming' = incoming, toServer' = toServer
  PROVE  /\ TypeConn' /\ WatchFitsOutgoing' /\ owed' \subseteq owed
         /\ \A d \in Conns : Replies(d)' = Replies(d) /\ (d # c => outgoing'[d] = outgoing[d])
<1>1. /\ outgoing \in [Conns -> Seq(Response)] /\ written \in [Conns -> Seq(Response)]
      /\ c \in Conns /\ outgoing[c] \in Seq(Response) /\ written[c] \in Seq(Response)
      /\ watch \in [Conns -> SUBSET {READABLE, WRITABLE}]
  BY DEF TypeConn
<1> DEFINE out == outgoing[c]
           old == written[c]
           left == SubSeq(out, n + 1, Len(out))
           new == old \o SubSeq(out, 1, n)
<1>2. /\ outgoing' = [outgoing EXCEPT ![c] = left]
      /\ written' = [written EXCEPT ![c] = new]
      /\ owed' \subseteq owed
      /\ watch' = WatchAfterWrite(c, n)
  BY DEF Write
<1>3. out \in Seq(Response) /\ old \in Seq(Response) /\ n \in 0 .. Len(out) /\ Len(out) \in Nat
  BY <1>1
<1> HIDE DEF out, old
<1>4. left \in Seq(Response)
  BY <1>3, Cut
<1>5. left = <<>> <=> n = Len(out)
  BY <1>3, Cut
<1>6. new \in Seq(Response)
  BY <1>3, Moved
<1>7. new \o left = old \o out
  BY <1>3, Moved
<1> HIDE DEF left, new
<1>8. /\ outgoing' \in [Conns -> Seq(Response)] /\ written' \in [Conns -> Seq(Response)]
      /\ outgoing'[c] = left /\ written'[c] = new
      /\ \A d \in Conns : d # c => outgoing'[d] = outgoing[d] /\ written'[d] = written[d]
  BY <1>1, <1>2, <1>4, <1>6
<1>9. \A d \in Conns : Replies(d)' = Replies(d)
  <2>1. Replies(c)' = Replies(c)
    BY <1>7, <1>8 DEF Replies, old, out
  <2>2. ASSUME NEW d \in Conns, d # c PROVE Replies(d)' = Replies(d)
    BY <1>8, <2>2 DEF Replies
  <2> QED BY <2>1, <2>2
<1>10. CASE n = Len(out)
  <2>1. watch' = [watch EXCEPT ![c] = {READABLE}]
    BY <1>2, <1>10 DEF WatchAfterWrite, out
  <2>2. WatchFitsOutgoing'
    BY <2>1, <1>1, <1>5, <1>8, <1>10 DEF WatchFitsOutgoing, TypeConn
  <2>3. TypeConn'
    BY <2>1, <1>1, <1>8 DEF TypeConn
  <2> QED BY <2>2, <2>3, <1>2, <1>8, <1>9
<1>11. CASE n # Len(out)
  <2>1. watch' = watch
    BY <1>2, <1>11 DEF WatchAfterWrite, out
  <2>2. out # <<>> /\ left # <<>>
    BY <1>3, <1>5, <1>11
  <2>3. WatchFitsOutgoing'
    BY <2>1, <2>2, <1>1, <1>8 DEF WatchFitsOutgoing, TypeConn, out
  <2>4. TypeConn'
    BY <2>1, <1>1, <1>8 DEF TypeConn
  <2> QED BY <2>3, <2>4, <1>2, <1>8, <1>9
<1> QED
  BY <1>10, <1>11

LEMMA WritableStep ==
  ASSUME IInv, NEW c \in Conns, NEW n \in 0 .. MaxRequests, HandleWritable(c, n)
  PROVE  IInv'
<1> USE DEF HandleWritable
<1>1. Running /\ Core /\ c \in connections /\ n \in 0 .. Len(outgoing[c]) /\ Write(c, n)
  BY DEF IInv, InLoop
<1>2. /\ TypeConn' /\ WatchFitsOutgoing' /\ owed' \subseteq owed
      /\ \A d \in Conns : Replies(d)' = Replies(d) /\ (d # c => outgoing'[d] = outgoing[d])
  BY <1>1, WriteEffect DEF IInv, TypeInv
<1>3. TypeInv'
  <2>1. TypeReq'
    BY DEF IInv, TypeInv, TypeReq, requestVars
  <2>2. TypeFrame'
    BY DEF IInv, TypeInv, TypeFrame
  <2>3. TypeCtl'
    BY <1>2 DEF IInv, TypeInv, TypeCtl, clientVars
  <2> QED BY <1>2, <2>1, <2>2, <2>3 DEF TypeInv
<1>4. /\ Running' => HoldInv' /\ MemInv' /\ IdInv'
      /\ RepliesInv' /\ status' # "wild"
  <2>1. Drained' = Drained
    BY DEF Drained
  <2>2. \A d \in Conns : Stream(d)' = Stream(d) /\ Replies(d)' = Replies(d)
    BY <1>2 DEF Stream
  <2>3. sent' = sent
    BY DEF clientVars
  <2> QED BY <2>1, <2>2, <2>3, QuietCore
<1>5. FrameInv'
  BY <1>1, <1>2 DEF Core, FrameInv
<1> QED
  BY <1>2, <1>3, <1>4, <1>5 DEF IInv, Core

LEMMA InvokeReturnsStep ==
  ASSUME IInv, InvokeReturns
  PROVE  IInv'
<1> USE DEF InvokeReturns
<1>1. Running /\ Core /\ frame.kind = "invoke"
  BY DEF IInv
<1>2. frame.conn \in Conns /\ frame.writable \in BOOLEAN
  BY <1>1, FrameKinds DEF IInv, TypeInv
<1>3. /\ frame' \in [kind : {"loop", "invoke"}, conn : Conns, writable : BOOLEAN]
      /\ frame'.kind = "loop" /\ frame'.conn = frame.conn
  BY <1>2, FrameTypes
<1>4. TypeInv'
  <2>1. TypeReq'
    BY DEF IInv, TypeInv, TypeReq, requestVars
  <2>2. TypeFrame'
    BY <1>3 DEF TypeFrame
  <2>3. TypeCtl'
    BY DEF IInv, TypeInv, TypeCtl, clientVars
  <2>4. TypeConn'
    BY DEF IInv, TypeInv, TypeConn, connVars
  <2> QED BY <2>1, <2>2, <2>3, <2>4 DEF TypeInv
<1>5. /\ Running' => HoldInv' /\ MemInv' /\ IdInv'
      /\ RepliesInv' /\ status' # "wild"
  <2>1. Drained' = Drained
    BY <1>1, <1>3 DEF Drained
  <2>2. \A d \in Conns : Stream(d)' = Stream(d) /\ Replies(d)' = Replies(d)
    BY DEF Stream, Replies, connVars
  <2>3. sent' = sent /\ connections' = connections
    BY DEF clientVars, connVars
  <2> QED BY <1>3, <2>1, <2>2, <2>3, QuietCore
<1>6. FrameInv'
  BY <1>1, <1>3 DEF Core, FrameInv, connVars
<1>7. WatchFitsOutgoing'
  BY DEF IInv, WatchFitsOutgoing, connVars
<1> QED
  BY <1>4, <1>5, <1>6, <1>7 DEF IInv, Core
-----------------------------------------------------------------------------
(* The clients.                                                            *)

LEMMA ConcatAppend ==
  ASSUME NEW S, NEW s \in Seq(S), NEW t \in Seq(S), NEW x \in S
  PROVE  s \o Append(t, x) = Append(s \o t, x)
<1>1. Append(t, x) = t \o <<x>> /\ <<x>> \in Seq(S) /\ s \o t \in Seq(S)
  BY AppendIsConcat
<1>2. s \o (t \o <<x>>) = (s \o t) \o <<x>>
  BY <1>1, ConcatAssociative
<1>3. Append(s \o t, x) = (s \o t) \o <<x>>
  BY <1>1, AppendIsConcat
<1> QED
  BY <1>1, <1>2, <1>3

LEMMA PeerStep ==
  ASSUME IInv, NEW c \in Conns, Connect(c) \/ HangUp(c)
  PROVE  IInv'
<1>1. /\ UNCHANGED <<server, connVars, requestVars, frame, tasks, pipe, lost, status, owed,
                     sent, accepted, toServer, written>>
      /\ peer' \in [Conns -> {"none", "open", "closed"}]
  BY DEF Connect, HangUp, IInv, TypeInv, TypeCtl
<1>2. TypeInv'
  <2>1. TypeReq'
    BY <1>1 DEF IInv, TypeInv, TypeReq, requestVars
  <2>2. TypeFrame'
    BY <1>1 DEF IInv, TypeInv, TypeFrame
  <2>3. TypeCtl'
    BY <1>1 DEF IInv, TypeInv, TypeCtl
  <2>4. TypeConn'
    BY <1>1 DEF IInv, TypeInv, TypeConn, connVars
  <2> QED BY <2>1, <2>2, <2>3, <2>4 DEF TypeInv
<1>3. /\ Running' => HoldInv' /\ MemInv' /\ IdInv'
      /\ RepliesInv' /\ status' # "wild"
  <2>1. Drained' = Drained
    BY <1>1 DEF Drained
  <2>2. \A d \in Conns : Stream(d)' = Stream(d) /\ Replies(d)' = Replies(d)
    BY <1>1 DEF Stream, Replies, connVars
  <2>3. connections' = connections
    BY <1>1 DEF connVars
  <2> QED BY <1>1, <2>1, <2>2, <2>3, QuietCore
<1>4. Running' => FrameInv'
  BY <1>1 DEF IInv, Running, Core, FrameInv, connVars
<1>5. WatchFitsOutgoing'
  BY <1>1 DEF IInv, WatchFitsOutgoing, connVars
<1> QED
  BY <1>2, <1>3, <1>4, <1>5 DEF IInv, Core

\* A request gets an id that was never used.
LEMMA SendStep ==
  ASSUME IInv, Running, NEW c \in Conns, NEW bad \in BOOLEAN, Send(c, bad)
  PROVE  IInv'
<1> DEFINE q == [id |-> sent + 1, bad |-> bad]
<1>1. /\ sent < MaxRequests /\ sent' = sent + 1
      /\ toServer' = [toServer EXCEPT ![c] = Append(@, q)]
      /\ UNCHANGED <<server, connVars, requestVars, frame, tasks, pipe, lost, status, owed,
                     peer, accepted, written>>
  BY DEF Send
<1>2. /\ sent \in Nat /\ sent + 1 \in 1 .. MaxRequests /\ q \in Request /\ q.id = sent + 1
  BY <1>1, ServerAssumption DEF IInv, TypeInv, TypeCtl, Request
<1>3. incoming \in [Conns -> Seq(Request)] /\ toServer \in [Conns -> Seq(Request)]
  BY DEF IInv, TypeInv, TypeConn
<1> HIDE DEF q
<1>4. /\ toServer' \in [Conns -> Seq(Request)] /\ incoming' = incoming
      /\ toServer'[c] = Append(toServer[c], q)
      /\ \A d \in Conns : d # c => toServer'[d] = toServer[d]
  BY <1>1, <1>2, <1>3 DEF connVars
<1>5. TypeInv'
  <2>1. TypeReq'
    BY <1>1 DEF IInv, TypeInv, TypeReq, requestVars
  <2>2. TypeFrame'
    BY <1>1 DEF IInv, TypeInv, TypeFrame
  <2>3. TypeCtl'
    <3>1. sent' \in 0 .. MaxRequests
      BY <1>1, <1>2
    <3> QED BY <1>1, <3>1 DEF IInv, TypeInv, TypeCtl
  <2>4. TypeConn'
    BY <1>1, <1>4 DEF IInv, TypeInv, TypeConn, connVars
  <2> QED BY <2>1, <2>2, <2>3, <2>4 DEF TypeInv
<1>6. Core
  BY DEF IInv
<1>7. Drained' = Drained /\ request' = request /\ connections' = connections
  BY <1>1 DEF Drained, requestVars, connVars
<1>8. Proxies' = Proxies /\ Live' = Live
  BY <1>1, <1>7, SameHolders
<1>9. HoldInv'
  BY <1>1, <1>6, <1>7, <1>8, QuietHold DEF Core
<1>10. MemInv'
  BY <1>1, <1>6, <1>7, <1>8, QuietMem DEF Core
<1>11. \A d \in Conns : Replies(d)' = Replies(d)
  BY <1>1 DEF Replies, connVars
<1>12. /\ Stream(c)' = Append(Stream(c), q) /\ Stream(c) \in Seq(Request)
       /\ \A d \in Conns : d # c => Stream(d)' = Stream(d)
  <2>1. incoming[c] \in Seq(Request) /\ toServer[c] \in Seq(Request) /\ q \in Request
    BY <1>2, <1>3
  <2>2. incoming[c] \o Append(toServer[c], q) = Append(incoming[c] \o toServer[c], q)
    <3> DEFINE in == incoming[c]
               net == toServer[c]
    <3>1. in \in Seq(Request) /\ net \in Seq(Request) /\ q \in Request
      BY <2>1
    <3> HIDE DEF in, net
    <3>2. in \o Append(net, q) = Append(in \o net, q)
      BY <3>1, ConcatAppend
    <3> QED BY <3>2 DEF in, net
  <2>3. incoming[c] \o toServer[c] \in Seq(Request)
    BY <2>1
  <2> QED BY <1>4, <2>2, <2>3 DEF Stream
<1>13. IdInv'
  <2>1. IdInv
    BY <1>6 DEF Core
  <2>2. LiveIds' = LiveIds
    BY <1>7, <1>8 DEF LiveIds
  <2>3. \A d \in Conns : Ids(Replies(d))' = Ids(Replies(d))
    BY <1>11 DEF Ids
  <2>4. \A d \in Conns : d # c => /\ Ids(Stream(d))' = Ids(Stream(d))
                                  /\ IdInj(Stream(d))' = IdInj(Stream(d))
    BY <1>12 DEF Ids, IdInj
  <2>5. sent + 1 \notin Ids(Stream(c))
    BY <2>1, <1>2 DEF IdInv
  <2>6. Ids(Stream(c))' = Ids(Stream(c)) \cup {sent + 1} /\ IdInj(Stream(c))'
    <3>1. /\ Ids(Append(Stream(c), q)) = Ids(Stream(c)) \cup {sent + 1}
          /\ IdInj(Append(Stream(c), q))
      BY <1>2, <1>12, <2>1, <2>5, IdsAppend DEF IdInv
    <3> QED BY <1>12, <3>1 DEF Ids, IdInj
  <2>7. 1 .. sent' = (1 .. sent) \cup {sent + 1} /\ sent + 1 \notin 1 .. sent
    BY <1>1, <1>2
  <2>8. LiveIds' \subseteq 1 .. sent'
    BY <2>1, <2>2, <2>7 DEF IdInv
  <2>9. \A a, b \in Live' : request'[a].request_id = request'[b].request_id => a = b
    BY <2>1, <1>7, <1>8 DEF IdInv
  <2>10. ASSUME NEW d \in Conns
         PROVE  /\ IdInj(Stream(d))'
                /\ (Ids(Stream(d)) \cup Ids(Replies(d)))' \subseteq 1 .. sent'
                /\ (LiveIds \cap (Ids(Stream(d)) \cup Ids(Replies(d))))' = {}
    BY <2>1, <2>2, <2>3, <2>4, <2>6, <2>7 DEF IdInv
  <2>11. ASSUME NEW d \in Conns, NEW e \in Conns
         PROVE  /\ d # e => (Ids(Stream(d)) \cap Ids(Stream(e)))' = {}
                /\ (Ids(Stream(d)) \cap Ids(Replies(e)))' = {}
    BY <2>1, <2>3, <2>4, <2>6, <2>7 DEF IdInv
  <2> QED BY <2>8, <2>9, <2>10, <2>11 DEF IdInv
<1>14. FrameInv'
  BY <1>1, <1>6 DEF Core, FrameInv, connVars
<1>15. WatchFitsOutgoing'
  BY <1>1 DEF IInv, WatchFitsOutgoing, connVars
<1>16. RepliesInv' /\ status' # "wild"
  BY <1>1, <1>11, QuietReplies DEF IInv
<1> QED
  BY <1>5, <1>9, <1>10, <1>13, <1>14, <1>15, <1>16 DEF IInv, Core
-----------------------------------------------------------------------------
(* Connections that close.                                                 *)

LEMMA FewerIds ==
  ASSUME IdInv, Live' = Live, sent' = sent,
         \A b \in Live : request'[b].request_id = request[b].request_id,
         \A d \in Conns : /\ IdInj(Stream(d))'
                          /\ Ids(Stream(d))' \subseteq Ids(Stream(d))
                          /\ Ids(Replies(d))' \subseteq Ids(Replies(d))
  PROVE  IdInv'
<1>1. LiveIds' = LiveIds
  BY DEF LiveIds
<1>2. \A a, b \in Live' : request'[a].request_id = request'[b].request_id => a = b
  BY DEF IdInv
<1>3. ASSUME NEW d \in Conns
      PROVE  /\ (Ids(Stream(d)) \cup Ids(Replies(d)))' \subseteq 1 .. sent'
             /\ (LiveIds \cap (Ids(Stream(d)) \cup Ids(Replies(d))))' = {}
  <2>1. /\ Ids(Stream(d)) \cup Ids(Replies(d)) \subseteq 1 .. sent
        /\ LiveIds \cap (Ids(Stream(d)) \cup Ids(Replies(d))) = {}
    BY DEF IdInv
  <2> QED BY <1>1, <2>1
<1>4. ASSUME NEW d \in Conns, NEW e \in Conns
      PROVE  /\ d # e => (Ids(Stream(d)) \cap Ids(Stream(e)))' = {}
             /\ (Ids(Stream(d)) \cap Ids(Replies(e)))' = {}
  <2>1. /\ d # e => Ids(Stream(d)) \cap Ids(Stream(e)) = {}
        /\ Ids(Stream(d)) \cap Ids(Replies(e)) = {}
    BY DEF IdInv
  <2> QED BY <2>1
<1>5. LiveIds' \subseteq 1 .. sent'
  BY <1>1 DEF IdInv
<1> QED
  BY <1>2, <1>3, <1>4, <1>5 DEF IdInv

\* The requests of the connections that close become defunct, the others stay.
LEMMA Orphaned ==
  ASSUME TypeInv, MemInv, NEW C \in SUBSET Conns, request' = orphaned_requests(C)
  PROVE  /\ request' \in [Blocks -> ServerRequest]
         /\ \A b \in Blocks : request'[b].request_id = request[b].request_id
         /\ \A b \in Live : request'[b].conn =
                              IF request[b].conn \in C THEN NoConn ELSE request[b].conn
<1>1. request \in [Blocks -> ServerRequest]
  BY DEF TypeInv, TypeReq
<1>2. \A b \in Blocks :
        request'[b] = IF \E c \in C : b \in ToSet(pending[c])
                      THEN [request[b] EXCEPT !.conn = NoConn] ELSE request[b]
  BY DEF orphaned_requests
<1>3. \A r \in ServerRequest : /\ [r EXCEPT !.conn = NoConn] \in ServerRequest
                               /\ [r EXCEPT !.conn = NoConn].conn = NoConn
                               /\ [r EXCEPT !.conn = NoConn].request_id = r.request_id
  BY DEF ServerRequest
<1>4. request' \in [Blocks -> ServerRequest]
  BY <1>1, <1>3 DEF orphaned_requests
<1>5. \A b \in Blocks : request'[b].request_id = request[b].request_id
  BY <1>1, <1>2, <1>3
<1>6. ASSUME NEW b \in Live
      PROVE  request'[b].conn = IF request[b].conn \in C THEN NoConn ELSE request[b].conn
  <2>1. b \in Blocks
    BY ProxyTypes
  <2>2. \A c \in C : b \in ToSet(pending[c]) <=> request[b].conn = c
    BY DEF MemInv, Pending
  <2>3. (\E c \in C : b \in ToSet(pending[c])) <=> request[b].conn \in C
    BY <2>2
  <2>4. request[b] \in ServerRequest
    BY <1>1, <2>1
  <2>5. CASE request[b].conn \in C
    <3>1. request'[b] = [request[b] EXCEPT !.conn = NoConn]
      BY <2>1, <2>3, <2>5, <1>2
    <3>2. request'[b].conn = NoConn
      BY <3>1, <2>4, <1>3
    <3> QED BY <3>2, <2>5
  <2>6. CASE request[b].conn \notin C
    <3>1. request'[b] = request[b]
      BY <2>1, <2>3, <2>6, <1>2
    <3> QED BY <3>1, <2>6
  <2> QED BY <2>5, <2>6
<1> QED
  BY <1>4, <1>5, <1>6

LEMMA CloseStep ==
  ASSUME IInv, Running, NEW C \in SUBSET connections, close_connections(C),
         \A d \in Conns : /\ toServer'[d] \in {toServer[d], <<>>}
                          /\ d \in C => toServer'[d] = <<>>,
         toServer' \in [Conns -> Seq(Request)],
         \/ server' = server /\ allocated' = allocated
         \/ /\ server = "running" /\ server' = "destroyed" /\ C = connections
            /\ allocated' = allocated \ ToSet(recycled_requests),
         frame.kind # "drain", frame' = NoFrame,
         UNCHANGED <<tasks, pipe, lost, status, clientVars, accepted, written>>
  PROVE  IInv'
<1>1. Core /\ TypeInv /\ TypeConn /\ TypeReq /\ TypeCtl /\ C \subseteq Conns
  BY DEF IInv, TypeInv, TypeConn
<1>2. /\ connections' = connections \ C
      /\ incoming' = [c \in Conns |-> IF c \in C THEN <<>> ELSE incoming[c]]
      /\ outgoing' = [c \in Conns |-> IF c \in C THEN <<>> ELSE outgoing[c]]
      /\ watch' = [c \in Conns |-> IF c \in C THEN {} ELSE watch[c]]
      /\ owed' \subseteq owed
      /\ pending' = [c \in Conns |-> IF c \in C THEN <<>> ELSE pending[c]]
      /\ n_pending_requests' = [c \in Conns |-> IF c \in C THEN 0 ELSE n_pending_requests[c]]
      /\ request' = orphaned_requests(C)
      /\ recycled_requests' = recycled_requests
  BY DEF close_connections
<1>3. frame'.kind = "none" /\ Drained' = Drained /\ Drained = {}
  BY FrameTypes DEF Drained
<1>4. Proxies' = Proxies /\ Live' = Live
  BY <1>3, SameHolders
<1>5. Live \subseteq Blocks /\ (\A t \in tasks : t.request \in Live)
      /\ (\A p \in Proxies : p.request \in Live)
  BY <1>1, ProxyTypes, LiveIs
<1>6. /\ request' \in [Blocks -> ServerRequest]
      /\ \A b \in Blocks : request'[b].request_id = request[b].request_id
      /\ \A b \in Live : request'[b].conn =
                           IF request[b].conn \in C THEN NoConn ELSE request[b].conn
  BY <1>1, <1>2, Orphaned DEF Core
<1>7. TypeInv'
  <2>1. TypeConn'
    <3>1. /\ incoming' \in [Conns -> Seq(Request)] /\ outgoing' \in [Conns -> Seq(Response)]
          /\ watch' \in [Conns -> SUBSET {READABLE, WRITABLE}]
      BY <1>1, <1>2 DEF TypeConn
    <3>2. connections' \subseteq accepted' /\ accepted' \subseteq Conns
      BY <1>1, <1>2 DEF TypeConn
    <3> QED BY <1>1, <3>1, <3>2 DEF TypeConn
  <2>2. TypeReq'
    <3>1. pending' \in [Conns -> Seq(Blocks)] /\ n_pending_requests' \in [Conns -> Nat]
      BY <1>1, <1>2 DEF TypeReq
    <3>2. allocated' \subseteq Blocks /\ recycled_requests' \in Seq(Blocks)
      BY <1>1, <1>2 DEF TypeReq
    <3> QED BY <1>6, <3>1, <3>2 DEF TypeReq
  <2>3. TypeFrame'
    BY DEF TypeFrame
  <2>4. TypeCtl'
    BY <1>1, <1>2 DEF TypeCtl, clientVars
  <2> QED BY <2>1, <2>2, <2>3, <2>4 DEF TypeInv
<1>8. HoldInv'
  <2>1. OneHolder'
    BY <1>1, <1>4 DEF Core, HoldInv, OneHolder
  <2>2. PipeOK'
    BY <1>1, <1>3 DEF Core, HoldInv, PipeOK
  <2>3. HoldersRight'
    <3>1. HoldersRight
      BY <1>1 DEF Core, HoldInv
    <3> QED BY <3>1, <1>4, <1>5, <1>6 DEF HoldersRight, OwnRequest
  <2> QED BY <2>1, <2>2, <2>3 DEF HoldInv
<1>9. MemInv'
  <2>0. MemInv
    BY <1>1 DEF Core
  <2>1. Memory'
    <3>1. CASE server' = server /\ allocated' = allocated
      BY <3>1, <2>0, <1>2, <1>4 DEF MemInv, Memory
    <3>2. CASE ~(server' = server /\ allocated' = allocated)
      BY <3>2, <2>0, <1>2, <1>4 DEF MemInv, Memory
    <3> QED BY <3>1, <3>2
  <2>2. \A b \in Live' : request'[b].conn \in connections' \cup {NoConn}
    BY <2>0, <1>2, <1>4, <1>6 DEF MemInv
  <2>3. ASSUME NEW c \in C PROVE Pending(c)'
    <3>1. n_pending_requests'[c] = 0 /\ pending'[c] = <<>>
      BY <1>1, <1>2
    <3>2. Inj(<<>>) /\ ToSet(<<>>) = {} /\ Len(<<>>) = 0
      BY EmptyList
    <3>3. {b \in Live' : request'[b].conn = c} = {}
      BY <1>1, <1>4, <1>6, ServerAssumption
    <3> QED BY <3>1, <3>2, <3>3 DEF Pending
  <2>4. ASSUME NEW c \in Conns \ C PROVE Pending(c)'
    <3>1. n_pending_requests'[c] = n_pending_requests[c] /\ pending'[c] = pending[c]
      BY <1>2
    <3>2. {b \in Live' : request'[b].conn = c} = {b \in Live : request[b].conn = c}
      BY <1>4, <1>6, ServerAssumption
    <3>3. Pending(c)
      BY <2>0 DEF MemInv
    <3> QED BY <3>1, <3>2, <3>3 DEF Pending
  <2>5. \A c \in Conns : Pending(c)'
    BY <2>3, <2>4
  <2> QED BY <2>1, <2>2, <2>5 DEF MemInv
<1>10. ASSUME NEW d \in Conns
       PROVE  /\ Replies(d)' = Replies(d) \/ Replies(d)' = written[d]
              /\ Stream(d)' \in {Stream(d), incoming[d], <<>>}
  <2>1. /\ incoming[d] \in Seq(Request) /\ toServer[d] \in Seq(Request)
        /\ written[d] \in Seq(Response) /\ outgoing[d] \in Seq(Response)
    BY <1>1 DEF TypeConn
  <2>2. written[d] \o <<>> = written[d] /\ incoming[d] \o <<>> = incoming[d]
        /\ <<>> \o <<>> = <<>>
    BY <2>1, ConcatEmptySeq
  <2>3. CASE d \in C
    <3>1. outgoing'[d] = <<>> /\ incoming'[d] = <<>> /\ toServer'[d] = <<>>
      BY <1>2, <2>3
    <3> QED BY <3>1, <2>2 DEF Replies, Stream
  <2>4. CASE d \notin C
    <3>1. outgoing'[d] = outgoing[d] /\ incoming'[d] = incoming[d]
      BY <1>2, <2>4
    <3>2. toServer'[d] = toServer[d] \/ toServer'[d] = <<>>
      OBVIOUS
    <3>3. Replies(d)' = Replies(d)
      BY <3>1 DEF Replies
    <3>4. Stream(d)' \in {Stream(d), incoming[d], <<>>}
      BY <3>1, <3>2, <2>2 DEF Stream
    <3> QED BY <3>3, <3>4
  <2> QED BY <2>3, <2>4
<1>11. ASSUME NEW d \in Conns
       PROVE  /\ Ids(written[d]) \subseteq Ids(Replies(d))
              /\ IdInj(Replies(d)) => IdInj(written[d])
              /\ \A i \in 1 .. Len(written[d]) :
                   i \in 1 .. Len(Replies(d)) /\ written[d][i] = Replies(d)[i]
              /\ Ids(incoming[d]) \subseteq Ids(Stream(d))
              /\ IdInj(Stream(d)) => IdInj(incoming[d])
  <2>1. written[d] \in Seq(Response) /\ outgoing[d] \in Seq(Response)
    BY <1>1 DEF TypeConn
  <2>2. incoming[d] \in Seq(Request) /\ toServer[d] \in Seq(Request)
    BY <1>1 DEF TypeConn
  <2>3. /\ Ids(written[d]) \subseteq Ids(Replies(d))
        /\ IdInj(Replies(d)) => IdInj(written[d])
        /\ \A i \in 1 .. Len(written[d]) :
             i \in 1 .. Len(Replies(d)) /\ written[d][i] = Replies(d)[i]
    <3> DEFINE s == written[d]
               t == outgoing[d]
    <3>1. s \in Seq(Response) /\ t \in Seq(Response)
      BY <2>1
    <3> HIDE DEF s, t
    <3>2. /\ Ids(s) \subseteq Ids(s \o t) /\ (IdInj(s \o t) => IdInj(s))
          /\ \A i \in 1 .. Len(s) : i \in 1 .. Len(s \o t) /\ s[i] = (s \o t)[i]
      BY <3>1, IdsPrefix
    <3> QED BY <3>2 DEF Replies, s, t
  <2>4. /\ Ids(incoming[d]) \subseteq Ids(Stream(d))
        /\ IdInj(Stream(d)) => IdInj(incoming[d])
    BY <2>2, IdsPrefix DEF Stream
  <2> QED BY <2>3, <2>4
<1>12. IdInv'
  <2>1. IdInv
    BY <1>1 DEF Core
  <2>2. ASSUME NEW d \in Conns
        PROVE  /\ IdInj(Stream(d))' /\ Ids(Stream(d))' \subseteq Ids(Stream(d))
               /\ Ids(Replies(d))' \subseteq Ids(Replies(d))
    <3>1. Ids(Replies(d))' \subseteq Ids(Replies(d))
      <4>1. CASE Replies(d)' = Replies(d)
        BY <4>1 DEF Ids
      <4>2. CASE Replies(d)' = written[d]
        <5>1. Ids(Replies(d))' = Ids(written[d])
          BY <4>2 DEF Ids
        <5> QED BY <5>1, <1>11
      <4> QED BY <4>1, <4>2, <1>10
    <3>2. IdInj(Stream(d))
      BY <2>1 DEF IdInv
    <3>3. IdInj(Stream(d))' /\ Ids(Stream(d))' \subseteq Ids(Stream(d))
      <4>1. CASE Stream(d)' = Stream(d)
        BY <4>1, <3>2 DEF Ids, IdInj
      <4>2. CASE Stream(d)' = incoming[d]
        <5>1. Ids(Stream(d))' = Ids(incoming[d]) /\ IdInj(Stream(d))' = IdInj(incoming[d])
          BY <4>2 DEF Ids, IdInj
        <5> QED BY <5>1, <1>11, <3>2
      <4>3. CASE Stream(d)' = <<>>
        BY <4>3 DEF Ids, IdInj
      <4> QED BY <4>1, <4>2, <4>3, <1>10
    <3> QED BY <3>1, <3>3
  <2>3. \A b \in Live : request'[b].request_id = request[b].request_id
    BY <1>5, <1>6
  <2>4. sent' = sent
    BY DEF clientVars
  <2> QED BY <2>1, <2>2, <2>3, <2>4, <1>4, FewerIds
<1>13. RepliesInv'
  <2> SUFFICES ASSUME NEW d \in Conns
               PROVE  /\ IdInj(Replies(d))'
                      /\ \A i \in 1 .. Len(Replies(d)') :
                           Replies(d)'[i].call = [conn |-> d, number |-> Replies(d)'[i].id]
    BY DEF RepliesInv
  <2>1. /\ IdInj(Replies(d))
        /\ \A i \in 1 .. Len(Replies(d)) :
             Replies(d)[i].call = [conn |-> d, number |-> Replies(d)[i].id]
    BY DEF IInv, RepliesInv
  <2>2. CASE Replies(d)' = Replies(d)
    BY <2>1, <2>2 DEF IdInj
  <2>3. CASE Replies(d)' = written[d]
    <3>1. IdInj(Replies(d))' = IdInj(written[d])
      BY <2>3 DEF IdInj
    <3>2. \A i \in 1 .. Len(written[d]) :
            written[d][i].call = [conn |-> d, number |-> written[d][i].id]
      BY <2>1, <1>11
    <3> QED BY <3>1, <3>2, <2>1, <2>3, <1>11
  <2> QED BY <2>2, <2>3, <1>10
<1>14. FrameInv'
  <2>1. FrameInv
    BY <1>1 DEF Core
  <2>2. server' = "destroyed" => connections' = {}
    BY <2>1, <1>2 DEF FrameInv
  <2>3. \A c \in Conns : c \notin connections' => outgoing'[c] = <<>>
    BY <2>1, <1>2 DEF FrameInv
  <2> QED BY <1>3, <2>2, <2>3 DEF FrameInv
<1>15. WatchFitsOutgoing'
  <2>1. \A c \in connections' : c \in connections /\ outgoing'[c] = outgoing[c] /\ watch'[c] = watch[c]
    BY <1>1, <1>2 DEF TypeConn
  <2> QED BY <2>1 DEF IInv, WatchFitsOutgoing
<1>16. status' # "wild"
  BY DEF IInv
<1> QED
  BY <1>7, <1>8, <1>9, <1>12, <1>13, <1>14, <1>15, <1>16 DEF IInv, Core

LEMMA DropStep ==
  ASSUME IInv, Running, NEW c \in connections, Drop(c), frame.kind # "drain",
         UNCHANGED <<server, tasks, pipe, lost, status, clientVars, accepted, written>>
  PROVE  IInv'
<1>1. /\ close_connections({c}) /\ toServer' = [toServer EXCEPT ![c] = <<>>]
      /\ frame' = NoFrame /\ allocated' = allocated
  BY DEF Drop
<1>2. c \in Conns /\ toServer \in [Conns -> Seq(Request)]
  BY DEF IInv, TypeInv, TypeConn
<1>3. <<>> \in Seq(Request)
  OBVIOUS
<1>4. /\ toServer' \in [Conns -> Seq(Request)]
      /\ \A d \in Conns : /\ toServer'[d] \in {toServer[d], <<>>}
                          /\ d \in {c} => toServer'[d] = <<>>
  BY <1>1, <1>2, <1>3
<1> QED
  BY <1>1, <1>4, CloseStep

LEMMA GoneStep ==
  ASSUME IInv, NEW c \in Conns, HandleGone(c)
  PROVE  IInv'
<1>1. Running /\ c \in connections /\ Drop(c) /\ frame.kind # "drain"
  BY FrameTypes DEF HandleGone, InLoop
<1>2. UNCHANGED <<server, tasks, pipe, lost, status, clientVars, accepted, written>>
  BY DEF HandleGone
<1> QED
  BY <1>1, <1>2, DropStep

LEMMA DestroyStep ==
  ASSUME IInv, Destroy
  PROVE  IInv'
<1>1. /\ Running /\ frame = NoFrame /\ server = "running" /\ server' = "destroyed"
      /\ close_connections(connections)
      /\ allocated' = allocated \ ToSet(recycled_requests)
      /\ toServer' = [c \in Conns |-> <<>>]
      /\ frame' = NoFrame
      /\ UNCHANGED <<tasks, pipe, lost, status, clientVars, accepted, written>>
  BY DEF Destroy, InLoop, destroy_server
<1>2. frame.kind # "drain"
  BY <1>1, FrameTypes
<1>3. <<>> \in Seq(Request)
  OBVIOUS
<1>4. /\ toServer' \in [Conns -> Seq(Request)]
      /\ \A d \in Conns : /\ toServer'[d] \in {toServer[d], <<>>}
                          /\ d \in connections => toServer'[d] = <<>>
  BY <1>1, <1>3
<1> QED
  BY <1>1, <1>2, <1>4, CloseStep

LEMMA LoopEndsStep ==
  ASSUME IInv, LoopEnds
  PROVE  IInv'
<1> DEFINE c == frame.conn
<1>1. /\ Running /\ frame.kind = "loop"
      /\ UNCHANGED <<server, tasks, pipe, lost, status, clientVars, accepted>>
  BY DEF LoopEnds
<1>2. Core /\ c \in connections
  BY <1>1 DEF IInv, Core, FrameInv
<1>3. CASE /\ frame' = NoFrame
           /\ IF frame.writable /\ outgoing[c] # <<>>
              THEN \E n \in 0 .. Len(outgoing[c]) : Write(c, n)
              ELSE UNCHANGED <<outgoing, watch, written, owed>>
           /\ UNCHANGED <<connections, incoming, requestVars, toServer>>
  <2>1. /\ TypeConn' /\ WatchFitsOutgoing' /\ owed' \subseteq owed
        /\ \A d \in Conns : Replies(d)' = Replies(d) /\ (d # c => outgoing'[d] = outgoing[d])
    <3>1. CASE UNCHANGED <<outgoing, watch, written, owed>>
      <4>1. TypeConn'
        BY <3>1, <1>1, <1>3 DEF IInv, TypeInv, TypeConn
      <4>2. WatchFitsOutgoing'
        BY <3>1, <1>3 DEF IInv, WatchFitsOutgoing
      <4>3. \A d \in Conns : Replies(d)' = Replies(d)
        BY <3>1 DEF Replies
      <4> QED BY <3>1, <4>1, <4>2, <4>3
    <3>2. CASE \E n \in 0 .. Len(outgoing[c]) : Write(c, n)
      <4>1. PICK n \in 0 .. Len(outgoing[c]) : Write(c, n)
        BY <3>2
      <4>2. TypeConn /\ WatchFitsOutgoing
        BY DEF IInv, TypeInv
      <4> HIDE DEF c
      <4> QED BY <1>1, <1>2, <1>3, <4>1, <4>2, WriteEffect
    <3> QED BY <3>1, <3>2, <1>3
  <2>2. frame'.kind = "none"
    BY <1>3, FrameTypes
  <2>3. TypeInv'
    <3>1. TypeReq'
      BY <1>3 DEF IInv, TypeInv, TypeReq, requestVars
    <3>2. TypeFrame'
      BY <1>3 DEF TypeFrame
    <3>3. TypeCtl'
      BY <1>1, <2>1 DEF IInv, TypeInv, TypeCtl, clientVars
    <3> QED BY <2>1, <3>1, <3>2, <3>3 DEF TypeInv
  <2>4. /\ Running' => HoldInv' /\ MemInv' /\ IdInv'
        /\ RepliesInv' /\ status' # "wild"
    <3>1. Drained' = Drained
      BY <1>1, <2>2 DEF Drained
    <3>2. \A d \in Conns : Stream(d)' = Stream(d) /\ Replies(d)' = Replies(d)
      BY <2>1, <1>3 DEF Stream
    <3>3. sent' = sent
      BY <1>1 DEF clientVars
    <3> QED BY <1>1, <1>3, <2>2, <3>1, <3>2, <3>3, QuietCore
  <2>5. FrameInv'
    BY <1>1, <1>2, <1>3, <2>1, <2>2 DEF Core, FrameInv
  <2> QED
    BY <2>1, <2>3, <2>4, <2>5 DEF IInv, Core
<1>4. CASE Drop(c) /\ UNCHANGED written
  BY <1>1, <1>2, <1>4, DropStep
<1> QED
  BY <1>3, <1>4 DEF LoopEnds
-----------------------------------------------------------------------------
(* A request is given to the service.                                      *)

\* There is always memory for one more request: each of those in use has an id of
\* its own, and the id of the request at hand is none of these.
LEMMA FreshRequest ==
  ASSUME IInv, Running, server = "running", NEW c \in Conns, incoming[c] # <<>>
  PROVE  /\ NextRequest \in Blocks /\ NextRequest \notin Live
         /\ recycled_requests # <<>> => NextRequest = Head(recycled_requests)
<1>1. /\ TypeInv /\ MemInv /\ IdInv /\ recycled_requests \in Seq(Blocks)
      /\ request \in [Blocks -> ServerRequest] /\ allocated \subseteq Blocks
      /\ incoming[c] \in Seq(Request) /\ toServer[c] \in Seq(Request)
      /\ sent \in 0 .. MaxRequests
  BY DEF IInv, Core, TypeInv, TypeReq, TypeConn, TypeCtl
<1>2. /\ ToSet(recycled_requests) \cap Live = {}
      /\ allocated = ToSet(recycled_requests) \cup Live
  BY <1>1 DEF MemInv, Memory
<1>3. CASE recycled_requests # <<>>
  <2>1. NextRequest = Head(recycled_requests)
    BY <1>3 DEF NextRequest
  <2>2. /\ Head(recycled_requests) \in Blocks
        /\ ToSet(recycled_requests) = {Head(recycled_requests)} \cup ToSet(Tail(recycled_requests))
    BY <1>1, <1>3, TailList
  <2> QED BY <2>1, <2>2, <1>2
<1>4. CASE recycled_requests = <<>>
  <2> DEFINE q == Head(incoming[c])
  <2>1. allocated = Live
    BY <1>2, <1>4, EmptyList
  <2>2. q.id \in Ids(Stream(c))
    <3> DEFINE s == incoming[c]
               t == toServer[c]
    <3>1. s \in Seq(Request) /\ t \in Seq(Request) /\ s # <<>>
      BY <1>1
    <3> HIDE DEF s, t
    <3>2. Ids(s \o t) = {Head(s).id} \cup Ids(Tail(s) \o t)
      BY <3>1, IdsTail
    <3> QED BY <3>2 DEF Stream, s, t
  <2>3. q.id \in 1 .. MaxRequests /\ q.id \notin LiveIds
    <3>1. Ids(Stream(c)) \subseteq 1 .. sent /\ LiveIds \cap Ids(Stream(c)) = {}
      BY <1>1 DEF IdInv
    <3>2. 1 .. sent \subseteq 1 .. MaxRequests
      BY <1>1, ServerAssumption
    <3> QED BY <2>2, <3>1, <3>2
  <2> HIDE DEF q
  <2>4. FreeBlocks # {}
    <3> SUFFICES ASSUME Blocks \subseteq Live PROVE FALSE
      BY <2>1 DEF FreeBlocks
    <3> DEFINE f == [b \in Blocks |-> request[b].request_id]
               T == Blocks \ {q.id}
    <3>1. LiveIds \subseteq Blocks
      BY <1>1, ServerAssumption DEF IdInv, Blocks
    <3>2. f \in [Blocks -> T]
      BY <3>1, <2>3 DEF LiveIds
    <3>3. IsFiniteSet(Blocks) /\ Cardinality(Blocks) = MaxRequests
      <4>1. MaxRequests \in Nat /\ 1 \in Int /\ MaxRequests \in Int
        BY ServerAssumption
      <4>2. /\ IsFiniteSet(1 .. MaxRequests)
            /\ Cardinality(1 .. MaxRequests) = IF 1 > MaxRequests THEN 0 ELSE MaxRequests - 1 + 1
        BY <4>1, FS_Interval
      <4> QED BY <4>1, <4>2 DEF Blocks
    <3>4. IsFiniteSet(T) /\ Cardinality(T) = MaxRequests - 1
      <4>1. q.id \in Blocks
        BY <2>3 DEF Blocks
      <4>2. /\ IsFiniteSet(T)
            /\ Cardinality(T) = IF q.id \in Blocks THEN Cardinality(Blocks) - 1
                                ELSE Cardinality(Blocks)
        BY <3>3, FS_RemoveElement
      <4> QED BY <3>3, <4>1, <4>2
    <3>5. Cardinality(T) < Cardinality(Blocks)
      BY <3>3, <3>4, ServerAssumption
    <3> HIDE DEF f, T
    <3>6. PICK x \in Blocks, y \in Blocks : x # y /\ f[x] = f[y]
      BY <3>2, <3>3, <3>4, <3>5, FS_PigeonHole
    <3>7. request[x].request_id = request[y].request_id
      BY <3>6 DEF f
    <3> QED BY <3>6, <3>7, <1>1 DEF IdInv
  <2>5. FreeBlocks \subseteq Nat
    BY ServerAssumption DEF FreeBlocks, Blocks
  <2>6. \E b \in FreeBlocks : \A a \in FreeBlocks : b <= a
    BY <2>4, <2>5, SmallestExists
  <2>7. NextRequest = CHOOSE b \in FreeBlocks : \A a \in FreeBlocks : b <= a
    BY <1>4 DEF NextRequest
  <2>8. NextRequest \in FreeBlocks
    BY <2>6, <2>7
  <2> QED BY <2>1, <2>8, <1>4 DEF FreeBlocks
<1> QED
  BY <1>3, <1>4

\* What the list of recycled requests is once the next one is taken.
LEMMA TakenRequest ==
  ASSUME recycled_requests \in Seq(Blocks), Inj(recycled_requests), NEW b,
         recycled_requests # <<>> => b = Head(recycled_requests),
         recycled_requests = <<>> => b \notin ToSet(recycled_requests),
         recycled_requests' =
           IF recycled_requests = <<>> THEN <<>> ELSE Tail(recycled_requests)
  PROVE  /\ recycled_requests' \in Seq(Blocks) /\ Inj(recycled_requests')
         /\ ToSet(recycled_requests') = ToSet(recycled_requests) \ {b}
<1>1. CASE recycled_requests = <<>>
  <2>1. recycled_requests' = recycled_requests
    BY <1>1
  <2> QED BY <1>1, <2>1
<1>2. CASE recycled_requests # <<>>
  <2>1. recycled_requests' = Tail(recycled_requests) /\ b = Head(recycled_requests)
    BY <1>2
  <2> QED BY <1>2, <2>1, TailList
<1> QED
  BY <1>1, <1>2

\* A request that is in order becomes one in use, held by a task of the service.
LEMMA ServeStep ==
  ASSUME IInv, Running, NEW c, NEW q, NEW b,
         frame.kind = "loop", c = frame.conn, incoming[c] # <<>>,
         q = Head(incoming[c]), b = NextRequest,
         incoming' = [incoming EXCEPT ![c] = Tail(@)],
         create_server_request(c, q.id),
         tasks' = tasks \cup {[request |-> b, call |-> [conn |-> c, number |-> q.id]]},
         owed' = owed \cup {[conn |-> c, number |-> q.id]},
         frame' = InvokeFrame(c, frame.writable),
         UNCHANGED <<connections, outgoing, watch, toServer>>,
         UNCHANGED <<server, pipe, lost, status, clientVars, accepted, written>>
  PROVE  IInv'
<1> DEFINE k == [conn |-> c, number |-> q.id]
           new == [request |-> b, call |-> k]
<1>1. Core /\ c \in connections /\ server = "running"
  BY DEF IInv, Core, FrameInv
<1>2. /\ recycled_requests' =
           IF recycled_requests = <<>> THEN <<>> ELSE Tail(recycled_requests)
      /\ allocated' = allocated \cup {b}
      /\ request' = [request EXCEPT ![b] = [conn |-> c, request_id |-> q.id]]
      /\ pending' = [pending EXCEPT ![c] = Append(@, b)]
      /\ n_pending_requests' = [n_pending_requests EXCEPT ![c] = @ + 1]
      /\ tasks' = tasks \cup {new} /\ owed' = owed \cup {k}
  BY DEF create_server_request, filled_request, counted_request
<1>3. TypeInv /\ TypeConn /\ TypeReq /\ TypeFrame /\ TypeCtl /\ c \in Conns
      /\ HoldInv /\ MemInv /\ IdInv /\ FrameInv
  BY <1>1 DEF IInv, Core, TypeInv, TypeConn
<1>4. /\ b \in Blocks /\ b \notin Live
      /\ recycled_requests # <<>> => b = Head(recycled_requests)
  BY <1>1, <1>3, FreshRequest
<1>5. /\ incoming[c] \in Seq(Request) /\ toServer[c] \in Seq(Request)
      /\ incoming \in [Conns -> Seq(Request)] /\ pending \in [Conns -> Seq(Blocks)]
      /\ n_pending_requests \in [Conns -> Nat] /\ request \in [Blocks -> ServerRequest]
      /\ recycled_requests \in Seq(Blocks)
  BY <1>3 DEF TypeConn, TypeReq
<1>6. frame.writable \in BOOLEAN
  BY <1>3, FrameKinds
<1>7. q \in Request /\ Tail(incoming[c]) \in Seq(Request)
  BY <1>5, TailList
<1>8. q.id \in 1 .. MaxRequests
  BY <1>7 DEF Request
<1>9. k \in Call /\ new \in Task /\ new.request = b /\ new.call = k
      /\ k.conn = c /\ k.number = q.id
  BY <1>3, <1>4, <1>8 DEF Call, Task
<1> HIDE DEF k, new
<1>10. /\ frame' \in [kind : {"loop", "invoke"}, conn : Conns, writable : BOOLEAN]
       /\ frame'.kind = "invoke" /\ frame'.conn = c
  BY <1>1, <1>2, <1>3, <1>6, FrameTypes
<1>11. Drained' = Drained /\ Proxies' = Proxies
  <2>1. Drained' = Drained
    BY <1>10 DEF Drained
  <2> QED BY <2>1 DEF Proxies
<1>12. Live' = Live \cup {b}
  BY <1>1, <1>2, <1>9, <1>11, LiveIs, LiveIsNext
<1>13. /\ [conn |-> c, request_id |-> q.id] \in ServerRequest
       /\ request' \in [Blocks -> ServerRequest]
       /\ request'[b].conn = c /\ request'[b].request_id = q.id
       /\ \A a \in Blocks : a # b => request'[a] = request[a]
  <2>1. [conn |-> c, request_id |-> q.id] \in ServerRequest
    BY <1>3, <1>8, ServerAssumption DEF ServerRequest
  <2>2. request'[b] = [conn |-> c, request_id |-> q.id]
    BY <1>2, <1>4, <1>5
  <2> QED BY <1>2, <1>4, <1>5, <2>1, <2>2
<1>14. Live \subseteq Blocks /\ \A a \in Live : request'[a] = request[a]
  BY <1>3, <1>4, <1>13, ProxyTypes
<1>15. /\ recycled_requests' \in Seq(Blocks) /\ Inj(recycled_requests')
       /\ ToSet(recycled_requests') = ToSet(recycled_requests) \ {b}
  <2>1. Inj(recycled_requests)
    BY <1>1, <1>2, <1>3 DEF MemInv, Memory
  <2>2. recycled_requests = <<>> => b \notin ToSet(recycled_requests)
    BY EmptyList
  <2> QED BY <1>2, <1>4, <1>5, <2>1, <2>2, TakenRequest
<1>16. /\ pending[c] \in Seq(Blocks) /\ n_pending_requests[c] \in Nat
       /\ pending'[c] = Append(pending[c], b)
       /\ n_pending_requests'[c] = n_pending_requests[c] + 1
       /\ \A d \in Conns : d # c => /\ pending'[d] = pending[d]
                                    /\ n_pending_requests'[d] = n_pending_requests[d]
  BY <1>2, <1>3, <1>5
<1>17. TypeInv'
  <2>1. TypeConn'
    <3>1. incoming' \in [Conns -> Seq(Request)]
      BY <1>1, <1>2, <1>5, <1>7
    <3> QED BY <3>1, <1>1, <1>2, <1>3 DEF TypeConn
  <2>2. TypeReq'
    <3>1. pending' \in [Conns -> Seq(Blocks)]
      <4>1. Append(pending[c], b) \in Seq(Blocks)
        BY <1>4, <1>16
      <4> QED BY <1>2, <1>5, <4>1
    <3>2. n_pending_requests' \in [Conns -> Nat]
      BY <1>2, <1>5, <1>16, SMTT(30)
    <3>3. allocated' \subseteq Blocks
      BY <1>2, <1>3, <1>4 DEF TypeReq
    <3> QED BY <3>1, <3>2, <3>3, <1>13, <1>15 DEF TypeReq
  <2>3. TypeFrame'
    BY <1>10 DEF TypeFrame
  <2>4. TypeCtl'
    BY <1>1, <1>2, <1>3, <1>9 DEF TypeCtl, clientVars
  <2> QED BY <2>1, <2>2, <2>3, <2>4 DEF TypeInv
<1>18. HoldInv'
  <2>1. /\ \A t \in tasks : t.request \in Live
        /\ \A p \in Proxies : p.request \in Live
        /\ lost \subseteq Live
    BY LiveIs
  <2>2. OneHolder'
    <3>1. OneHolder
      BY <1>3 DEF HoldInv
    <3> QED BY <3>1, <2>1, <1>1, <1>2, <1>4, <1>9, <1>11 DEF OneHolder
  <2>3. PipeOK'
    BY <1>3, <1>10, <1>11 DEF HoldInv, PipeOK
  <2>4. HoldersRight'
    <3>1. HoldersRight
      BY <1>3 DEF HoldInv
    <3>2. \A t \in tasks : OwnRequest(t.request, t.call)'
      BY <3>1, <2>1, <1>14 DEF HoldersRight, OwnRequest
    <3>3. OwnRequest(new.request, new.call)'
      BY <1>9, <1>13 DEF OwnRequest
    <3>4. \A p \in Proxies : /\ OwnRequest(p.request, p.response.call)'
                             /\ p.response.id = p.response.call.number
      BY <3>1, <2>1, <1>14 DEF HoldersRight, OwnRequest
    <3>5. \A t \in tasks' : OwnRequest(t.request, t.call)'
      BY <3>2, <3>3, <1>2
    <3> QED BY <3>4, <3>5, <1>11 DEF HoldersRight
  <2> QED BY <2>2, <2>3, <2>4 DEF HoldInv
<1>19. MemInv'
  <2>1. Memory'
    <3>1. /\ ToSet(recycled_requests) \cap Live = {}
          /\ allocated = ToSet(recycled_requests) \cup Live
      BY <1>1, <1>2, <1>3 DEF MemInv, Memory
    <3>2. /\ ToSet(recycled_requests') \cap Live' = {}
          /\ allocated' = ToSet(recycled_requests') \cup Live'
      BY <3>1, <1>2, <1>12, <1>15
    <3> QED BY <3>2, <1>1, <1>2, <1>15 DEF Memory
  <2>2. \A a \in Live' : request'[a].conn \in connections' \cup {NoConn}
    BY <1>1, <1>2, <1>1, <1>2, <1>3, <1>12, <1>13, <1>14 DEF MemInv
  <2>3. Pending(c)'
    <3>1. Pending(c)
      BY <1>3 DEF MemInv
    <3>2. b \notin ToSet(pending[c]) /\ Inj(pending[c])
      BY <3>1, <1>4 DEF Pending
    <3>3. /\ ToSet(pending'[c]) = ToSet(pending[c]) \cup {b}
          /\ Inj(pending'[c])
      BY <3>2, <1>4, <1>16, AppendList
    <3>4. {a \in Live' : request'[a].conn = c} = {a \in Live : request[a].conn = c} \cup {b}
      BY <1>12, <1>13, <1>14
    <3>5. n_pending_requests'[c] = Len(pending'[c])
      BY <3>1, <1>16 DEF Pending
    <3> QED BY <3>1, <3>3, <3>4, <3>5 DEF Pending
  <2>4. ASSUME NEW d \in Conns, d # c PROVE Pending(d)'
    <3>1. {a \in Live' : request'[a].conn = d} = {a \in Live : request[a].conn = d}
      BY <2>4, <1>12, <1>13, <1>14
    <3>2. Pending(d)
      BY <1>3 DEF MemInv
    <3> QED BY <3>1, <3>2, <2>4, <1>16 DEF Pending
  <2>5. \A d \in Conns : Pending(d)'
    BY <2>3, <2>4
  <2> QED BY <2>1, <2>2, <2>5 DEF MemInv
<1>20. \A d \in Conns : Replies(d)' = Replies(d)
  BY <1>1, <1>2 DEF Replies
<1>21. \A d \in Conns : d # c => Stream(d)' = Stream(d)
  BY <1>1, <1>2, <1>5 DEF Stream
<1>22. /\ Ids(Stream(c)) = {q.id} \cup Ids(Stream(c))'
       /\ IdInj(Stream(c)) => IdInj(Stream(c))' /\ q.id \notin Ids(Stream(c))'
  <2> DEFINE s == incoming[c]
             t == toServer[c]
  <2>1. s \in Seq(Request) /\ t \in Seq(Request) /\ s # <<>>
    BY <1>5
  <2>2. incoming'[c] = Tail(s) /\ toServer'[c] = t
    BY <1>1, <1>2, <1>3, <1>5
  <2> HIDE DEF s, t
  <2>3. /\ Ids(s \o t) = {Head(s).id} \cup Ids(Tail(s) \o t)
        /\ IdInj(s \o t) => /\ IdInj(Tail(s) \o t)
                            /\ Head(s).id \notin Ids(Tail(s) \o t)
    BY <2>1, IdsTail
  <2>4. Stream(c)' = Tail(s) \o t
    BY <2>2 DEF Stream
  <2>5. Ids(Stream(c))' = Ids(Tail(s) \o t) /\ IdInj(Stream(c))' = IdInj(Tail(s) \o t)
    BY <2>4 DEF Ids, IdInj
  <2>6. Stream(c) = s \o t /\ q = Head(s)
    BY DEF Stream, s, t
  <2> QED BY <2>3, <2>5, <2>6
<1>23. IdInv'
  <2>1. IdInv /\ sent' = sent
    BY <1>3 DEF clientVars
  <2>2. LiveIds' = LiveIds \cup {q.id}
    BY <1>12, <1>13, <1>14 DEF LiveIds
  <2>3. \A d \in Conns : Ids(Replies(d))' = Ids(Replies(d))
    BY <1>20 DEF Ids
  <2>4. \A d \in Conns : d # c => /\ Ids(Stream(d))' = Ids(Stream(d))
                                  /\ IdInj(Stream(d))' = IdInj(Stream(d))
    BY <1>21 DEF Ids, IdInj
  <2>5. /\ q.id \in Ids(Stream(c)) /\ Ids(Stream(c))' \subseteq Ids(Stream(c))
        /\ IdInj(Stream(c))' /\ q.id \notin Ids(Stream(c))'
    BY <1>3, <1>22, <2>1 DEF IdInv
  <2>6. q.id \notin LiveIds /\ q.id \in 1 .. sent
    BY <1>3, <2>1, <2>5 DEF IdInv
  <2>7. LiveIds' \subseteq 1 .. sent'
    BY <2>1, <2>2, <2>6 DEF IdInv
  <2>8. \A x, y \in Live' : request'[x].request_id = request'[y].request_id => x = y
    <3>1. \A x \in Live : request'[x].request_id = request[x].request_id
                           /\ request[x].request_id \in LiveIds
      BY <1>14 DEF LiveIds
    <3> QED BY <3>1, <1>12, <1>13, <2>1, <2>6 DEF IdInv
  <2>9. ASSUME NEW d \in Conns
        PROVE  /\ IdInj(Stream(d))'
               /\ (Ids(Stream(d)) \cup Ids(Replies(d)))' \subseteq 1 .. sent'
               /\ (LiveIds \cap (Ids(Stream(d)) \cup Ids(Replies(d))))' = {}
    <3>1. /\ IdInj(Stream(d))
          /\ Ids(Stream(d)) \cup Ids(Replies(d)) \subseteq 1 .. sent
          /\ LiveIds \cap (Ids(Stream(d)) \cup Ids(Replies(d))) = {}
          /\ q.id \notin Ids(Replies(d))
          /\ d # c => q.id \notin Ids(Stream(d))
      BY <1>3, <2>1, <2>5 DEF IdInv
    <3> QED BY <3>1, <2>1, <2>2, <2>3, <2>4, <2>5
  <2>10. ASSUME NEW d \in Conns, NEW e \in Conns
         PROVE  /\ d # e => (Ids(Stream(d)) \cap Ids(Stream(e)))' = {}
                /\ (Ids(Stream(d)) \cap Ids(Replies(e)))' = {}
    <3>1. /\ d # e => Ids(Stream(d)) \cap Ids(Stream(e)) = {}
          /\ Ids(Stream(d)) \cap Ids(Replies(e)) = {}
      BY <2>1 DEF IdInv
    <3>2. \A x \in {d, e} : Ids(Stream(x))' \subseteq Ids(Stream(x))
      BY <2>4, <2>5
    <3> QED BY <3>1, <3>2, <2>3
  <2> QED BY <2>7, <2>8, <2>9, <2>10 DEF IdInv
<1>24. FrameInv'
  BY <1>1, <1>2, <1>1, <1>2, <1>3, <1>10 DEF FrameInv
<1>25. WatchFitsOutgoing'
  BY <1>1, <1>2 DEF IInv, WatchFitsOutgoing
<1>26. RepliesInv' /\ status' # "wild"
  BY <1>20, QuietReplies DEF IInv
<1> QED
  BY <1>17, <1>18, <1>19, <1>23, <1>24, <1>25, <1>26 DEF IInv, Core

LEMMA ProcessStep ==
  ASSUME IInv, ProcessRequest
  PROVE  IInv'
<1>1. /\ Running /\ frame.kind = "loop" /\ incoming[frame.conn] # <<>>
      /\ UNCHANGED <<server, pipe, lost, status, clientVars, accepted, written>>
  BY DEF ProcessRequest
<1>2. frame.conn \in connections
  BY <1>1 DEF IInv, Core, FrameInv
<1>3. CASE Head(incoming[frame.conn]).bad
  BY <1>1, <1>2, <1>3, DropStep DEF ProcessRequest
<1>4. CASE ~Head(incoming[frame.conn]).bad
  <2>1. PICK c \in connections : c = frame.conn
    BY <1>2
  <2>2. PICK q \in {Head(incoming[frame.conn])} : TRUE
    OBVIOUS
  <2>3. PICK b \in {NextRequest} : TRUE
    OBVIOUS
  <2>4. /\ incoming' = [incoming EXCEPT ![c] = Tail(@)]
        /\ create_server_request(c, q.id)
        /\ tasks' = tasks \cup {[request |-> b, call |-> [conn |-> c, number |-> q.id]]}
        /\ owed' = owed \cup {[conn |-> c, number |-> q.id]}
        /\ frame' = InvokeFrame(c, frame.writable)
        /\ UNCHANGED <<connections, outgoing, watch, toServer>>
    BY <1>4, <2>1, <2>2, <2>3 DEF ProcessRequest
  <2> QED BY <1>1, <2>1, <2>2, <2>3, <2>4, ServeStep
<1> QED
  BY <1>3, <1>4
-----------------------------------------------------------------------------
(* Answers.                                                                *)

LEMMA FewerHolders ==
  ASSUME HoldInv, tasks' \subseteq tasks, Proxies' \subseteq Proxies, lost' = lost,
         request' = request, PipeOK'
  PROVE  HoldInv'
<1>1. OneHolder'
  BY DEF HoldInv, OneHolder
<1>2. HoldersRight'
  BY DEF HoldInv, HoldersRight, OwnRequest
<1> QED
  BY <1>1, <1>2 DEF HoldInv

\* The response of a request that is in use and whose connection is there.
LEMMA QueueStep ==
  ASSUME IInv, Running, server = "running", NEW b \in Live, NEW k \in Call,
         OwnRequest(b, k), request[b].conn # NoConn,
         queue_response(b, [id |-> k.number, call |-> k]),
         Live' = Live \ {b}, UNCHANGED <<server, sent, accepted, toServer, written>>
  PROVE  /\ TypeConn' /\ TypeReq' /\ MemInv' /\ IdInv' /\ RepliesInv' /\ WatchFitsOutgoing'
         /\ request' = request /\ connections' = connections /\ status' = status
         /\ \A d \in Conns : d \notin connections => outgoing'[d] = outgoing[d]
<1> DEFINE c == k.conn
           r == [id |-> k.number, call |-> k]
<1>1. /\ TypeInv /\ TypeConn /\ TypeReq /\ MemInv /\ IdInv /\ RepliesInv /\ WatchFitsOutgoing
      /\ b \in Blocks
  <2>1. /\ TypeInv /\ TypeConn /\ TypeReq /\ MemInv /\ IdInv /\ RepliesInv
        /\ WatchFitsOutgoing
    BY DEF IInv, Core, TypeInv
  <2> QED BY <2>1, ProxyTypes
<1>2. c \in Conns /\ k.number \in 1 .. MaxRequests
  BY DEF Call
<1>3. request[b].conn = c /\ request[b].request_id = k.number
  BY DEF OwnRequest
<1>4. r \in Response /\ r.id = k.number /\ r.call = k /\ k = [conn |-> c, number |-> k.number]
  BY <1>2 DEF Response, Call
<1>5. /\ outgoing' = [outgoing EXCEPT ![c] = Append(@, r)]
      /\ watch' = IF must_set_output_watch(c)
                  THEN [watch EXCEPT ![c] = {READABLE, WRITABLE}] ELSE watch
      /\ pending' = [pending EXCEPT ![c] = unlinked(@, b)]
      /\ n_pending_requests' = [n_pending_requests EXCEPT ![c] = @ - 1]
      /\ recycled_requests' = <<b>> \o recycled_requests
      /\ UNCHANGED <<connections, incoming, request, allocated, status>>
  BY <1>3 DEF queue_response, free_server_request
<1> HIDE DEF c, r
<1>6. /\ outgoing \in [Conns -> Seq(Response)] /\ written \in [Conns -> Seq(Response)]
      /\ watch \in [Conns -> SUBSET {READABLE, WRITABLE}]
      /\ pending \in [Conns -> Seq(Blocks)] /\ n_pending_requests \in [Conns -> Nat]
      /\ recycled_requests \in Seq(Blocks)
  BY <1>1 DEF TypeConn, TypeReq
<1>7. /\ outgoing[c] \in Seq(Response) /\ written[c] \in Seq(Response)
      /\ pending[c] \in Seq(Blocks) /\ n_pending_requests[c] \in Nat
      /\ Append(outgoing[c], r) \in Seq(Response)
  BY <1>2, <1>4, <1>6
<1>8. /\ n_pending_requests[c] = Len(pending[c]) /\ Inj(pending[c])
      /\ ToSet(pending[c]) = {a \in Live : request[a].conn = c}
      /\ b \in ToSet(pending[c])
  BY <1>1, <1>2, <1>3 DEF MemInv, Pending
<1>9. /\ unlinked(pending[c], b) \in Seq(Blocks)
      /\ Len(pending[c]) \in Nat \ {0} /\ Len(unlinked(pending[c], b)) = Len(pending[c]) - 1
      /\ ToSet(unlinked(pending[c], b)) = ToSet(pending[c]) \ {b}
      /\ Inj(unlinked(pending[c], b))
  <2> DEFINE s == pending[c]
  <2>1. s \in Seq(Blocks) /\ b \in ToSet(s) /\ Inj(s)
    BY <1>7, <1>8
  <2> HIDE DEF s
  <2>2. /\ unlinked(s, b) \in Seq(Blocks)
        /\ Len(s) \in Nat \ {0} /\ Len(unlinked(s, b)) = Len(s) - 1
        /\ ToSet(unlinked(s, b)) = ToSet(s) \ {b}
        /\ Inj(unlinked(s, b))
    BY <2>1, UnlinkedList
  <2> QED BY <2>2 DEF s
<1>10. /\ outgoing'[c] = Append(outgoing[c], r)
       /\ pending'[c] = unlinked(pending[c], b)
       /\ n_pending_requests'[c] = n_pending_requests[c] - 1
       /\ \A d \in Conns : d # c => /\ outgoing'[d] = outgoing[d] /\ pending'[d] = pending[d]
                                    /\ n_pending_requests'[d] = n_pending_requests[d]
  BY <1>2, <1>5, <1>6
<1>11. /\ ToSet(recycled_requests) \cap Live = {} /\ Inj(recycled_requests)
       /\ allocated = ToSet(recycled_requests) \cup Live
  BY <1>1 DEF MemInv, Memory
<1>12. /\ recycled_requests' \in Seq(Blocks)
       /\ ToSet(recycled_requests') = {b} \cup ToSet(recycled_requests)
       /\ Inj(recycled_requests')
  <2>1. b \notin ToSet(recycled_requests)
    BY <1>11
  <2> QED BY <1>1, <1>5, <1>6, <1>11, <2>1, ConsList
<1>13. TypeReq'
  <2>1. pending' \in [Conns -> Seq(Blocks)]
    BY <1>5, <1>6, <1>9
  <2>2. n_pending_requests[c] - 1 \in Nat
    BY <1>7, <1>8, <1>9
  <2>3. n_pending_requests' \in [Conns -> Nat]
    BY <1>5, <1>6, <2>2
  <2> QED BY <1>1, <1>5, <1>12, <2>1, <2>3 DEF TypeReq
<1>14. c \in connections
  BY <1>1, <1>3, ServerAssumption DEF MemInv
<1>17. WatchFitsOutgoing' /\ watch' \in [Conns -> SUBSET {READABLE, WRITABLE}]
  <2>1. CASE outgoing[c] = <<>>
    <3>1. watch' = [watch EXCEPT ![c] = {READABLE, WRITABLE}]
      BY <1>5, <2>1 DEF must_set_output_watch
    <3>2. outgoing'[c] # <<>>
      BY <1>7, <1>10, SMTT(30)
    <3>3. WatchFitsOutgoing'
      BY <1>1, <1>2, <1>5, <1>6, <1>10, <3>1, <3>2, ZenonT(30) DEF WatchFitsOutgoing, TypeConn
    <3>4. watch' \in [Conns -> SUBSET {READABLE, WRITABLE}]
      BY <1>6, <3>1
    <3> QED BY <3>3, <3>4
  <2>2. CASE outgoing[c] # <<>>
    <3>1. watch' = watch
      BY <1>5, <2>2 DEF must_set_output_watch
    <3>2. outgoing'[c] # <<>>
      BY <1>7, <1>10, SMTT(30)
    <3>3. WatchFitsOutgoing'
      BY <1>1, <1>5, <1>10, <2>2, <3>1, <3>2 DEF WatchFitsOutgoing, TypeConn
    <3> QED BY <3>1, <3>3, <1>6
  <2> QED BY <2>1, <2>2
<1>18. TypeConn'
  <2>1. outgoing' \in [Conns -> Seq(Response)]
    BY <1>5, <1>6, <1>7
  <2> QED BY <1>1, <1>5, <1>17, <2>1 DEF TypeConn
<1>19. MemInv'
  <2>1. Memory'
    <3>1. /\ ToSet(recycled_requests') \cap Live' = {}
          /\ allocated' = ToSet(recycled_requests') \cup Live'
      BY <1>5, <1>11, <1>12
    <3> QED BY <3>1, <1>12 DEF Memory
  <2>2. \A a \in Live' : request'[a].conn \in connections' \cup {NoConn}
    BY <1>1, <1>5 DEF MemInv
  <2>3. Pending(c)'
    <3>1. n_pending_requests'[c] = Len(pending'[c])
      BY <1>8, <1>9, <1>10
    <3>2. ToSet(pending'[c]) = {a \in Live' : request'[a].conn = c}
      BY <1>5, <1>8, <1>9, <1>10
    <3>3. Inj(pending'[c])
      BY <1>9, <1>10
    <3> QED BY <3>1, <3>2, <3>3 DEF Pending, c
  <2>4. ASSUME NEW d \in Conns, d # c PROVE Pending(d)'
    <3>1. Pending(d)
      BY <1>1 DEF MemInv
    <3>2. {a \in Live' : request'[a].conn = d} = {a \in Live : request[a].conn = d}
      BY <1>3, <1>5, <2>4
    <3> QED BY <3>1, <3>2, <1>10, <2>4 DEF Pending
  <2>5. \A d \in Conns : Pending(d)'
    BY <2>3, <2>4
  <2> QED BY <2>1, <2>2, <2>5 DEF MemInv
<1>20. /\ Replies(c)' = Append(Replies(c), r) /\ Replies(c) \in Seq(Response)
       /\ \A d \in Conns : d # c => Replies(d)' = Replies(d)
  <2> DEFINE s == written[c]
             t == outgoing[c]
  <2>1. s \in Seq(Response) /\ t \in Seq(Response) /\ r \in Response
    BY <1>4, <1>7
  <2>2. written'[c] = s /\ outgoing'[c] = Append(t, r) /\ Replies(c) = s \o t
    BY <1>10 DEF Replies
  <2>3. Replies(c)' = s \o Append(t, r)
    BY <2>2 DEF Replies, c
  <2>4. \A d \in Conns : d # c => Replies(d)' = Replies(d)
    BY <1>10 DEF Replies
  <2> HIDE DEF s, t
  <2>5. s \o Append(t, r) = Append(s \o t, r) /\ s \o t \in Seq(Response)
    BY <2>1, ConcatAppend
  <2> QED BY <2>2, <2>3, <2>4, <2>5
<1>21. \A d \in Conns : Stream(d)' = Stream(d)
  BY <1>5 DEF Stream
<1>22. k.number \in LiveIds /\ k.number \notin Ids(Replies(c)) /\ k.number \in 1 .. sent
  <2>1. k.number \in LiveIds
    BY <1>3 DEF LiveIds
  <2> QED BY <1>1, <1>2, <2>1 DEF IdInv
<1>23. /\ Ids(Replies(c))' = Ids(Replies(c)) \cup {k.number}
       /\ IdInj(Replies(c))'
  <2>1. IdInj(Replies(c))
    BY <1>1, <1>2 DEF RepliesInv
  <2>2. /\ Ids(Append(Replies(c), r)) = Ids(Replies(c)) \cup {k.number}
        /\ IdInj(Append(Replies(c), r))
    BY <1>4, <1>20, <1>22, <2>1, IdsAppend
  <2> QED BY <1>20, <2>2 DEF Ids, IdInj
<1>24. RepliesInv'
  <2>1. ASSUME NEW d \in Conns, d # c
        PROVE  /\ IdInj(Replies(d))'
               /\ \A i \in 1 .. Len(Replies(d)') :
                    Replies(d)'[i].call = [conn |-> d, number |-> Replies(d)'[i].id]
    BY <1>1, <1>20, <2>1 DEF RepliesInv, IdInj
  <2>2. \A i \in 1 .. Len(Replies(c)') :
          Replies(c)'[i].call = [conn |-> c, number |-> Replies(c)'[i].id]
    <3> DEFINE s == Replies(c)
               u == Append(s, r)
    <3>1. /\ Len(s) \in Nat /\ Len(u) = Len(s) + 1 /\ u[Len(s) + 1] = r
          /\ \A i \in 1 .. Len(s) : u[i] = s[i]
      <4>1. s \in Seq(Response)
        BY <1>20
      <4> HIDE DEF s
      <4> QED BY <4>1
    <3>2. \A i \in 1 .. Len(s) : s[i].call = [conn |-> c, number |-> s[i].id]
      BY <1>1, <1>2 DEF RepliesInv
    <3>3. u = Replies(c)'
      BY <1>20
    <3> HIDE DEF s, u
    <3>4. \A i \in 1 .. Len(u) : i \in 1 .. Len(s) \/ i = Len(s) + 1
      BY <3>1
    <3>5. \A i \in 1 .. Len(u) : u[i].call = [conn |-> c, number |-> u[i].id]
      BY <3>1, <3>2, <3>4, <1>4
    <3> QED BY <3>3, <3>5
  <2>3. ASSUME NEW d \in Conns
        PROVE  /\ IdInj(Replies(d))'
               /\ \A i \in 1 .. Len(Replies(d)') :
                    Replies(d)'[i].call = [conn |-> d, number |-> Replies(d)'[i].id]
    BY <2>1, <2>2, <1>23
  <2> QED BY <2>3 DEF RepliesInv
<1>25. IdInv'
  <2>1. LiveIds' \subseteq LiveIds /\ k.number \notin LiveIds'
    BY <1>1, <1>3, <1>5 DEF LiveIds, IdInv
  <2>2. LiveIds' \subseteq 1 .. sent'
    BY <1>1, <2>1 DEF IdInv
  <2>3. \A x, y \in Live' : request'[x].request_id = request'[y].request_id => x = y
    BY <1>1, <1>5 DEF IdInv
  <2>4. \A d \in Conns : /\ Ids(Stream(d))' = Ids(Stream(d))
                         /\ IdInj(Stream(d))' = IdInj(Stream(d))
    BY <1>21 DEF Ids, IdInj
  <2>5. \A d \in Conns : d # c => Ids(Replies(d))' = Ids(Replies(d))
    BY <1>20 DEF Ids
  <2>6. \A d \in Conns : k.number \notin Ids(Stream(d))
    BY <1>1, <1>22 DEF IdInv
  <2>7. ASSUME NEW d \in Conns
        PROVE  Ids(Replies(d))' \subseteq Ids(Replies(d)) \cup {k.number}
    BY <1>23, <2>5
  <2>8. ASSUME NEW d \in Conns
        PROVE  /\ IdInj(Stream(d))'
               /\ (Ids(Stream(d)) \cup Ids(Replies(d)))' \subseteq 1 .. sent'
               /\ (LiveIds \cap (Ids(Stream(d)) \cup Ids(Replies(d))))' = {}
    <3>1. /\ IdInj(Stream(d))
          /\ Ids(Stream(d)) \cup Ids(Replies(d)) \subseteq 1 .. sent
          /\ LiveIds \cap (Ids(Stream(d)) \cup Ids(Replies(d))) = {}
      BY <1>1 DEF IdInv
    <3> QED BY <3>1, <1>22, <2>1, <2>4, <2>7
  <2>9. ASSUME NEW d \in Conns, NEW e \in Conns
        PROVE  /\ d # e => (Ids(Stream(d)) \cap Ids(Stream(e)))' = {}
               /\ (Ids(Stream(d)) \cap Ids(Replies(e)))' = {}
    <3>1. /\ d # e => Ids(Stream(d)) \cap Ids(Stream(e)) = {}
          /\ Ids(Stream(d)) \cap Ids(Replies(e)) = {}
      BY <1>1 DEF IdInv
    <3>2. Ids(Replies(e))' \subseteq Ids(Replies(e)) \cup {k.number}
      BY <2>7
    <3> QED BY <3>1, <3>2, <2>4, <2>6
  <2> QED BY <2>2, <2>3, <2>8, <2>9 DEF IdInv
<1>26. \A d \in Conns : d \notin connections => outgoing'[d] = outgoing[d]
  BY <1>10, <1>14
<1> QED
  BY <1>5, <1>13, <1>17, <1>18, <1>19, <1>24, <1>25, <1>26

\* Following the pointer to a request in use is safe, unless the server is gone.
LEMMA TouchedLive ==
  ASSUME IInv, Running, NEW b \in Live
  PROVE  /\ Touched(b) \in {"ok", "server_gone"}
         /\ Touched(b) = "ok" <=> server = "running"
<1>1. MemInv /\ server \in {"running", "destroyed"}
  BY DEF IInv, Core, TypeInv, TypeCtl
<1>2. CASE server = "destroyed"
  BY <1>2 DEF Touched
<1>3. CASE server = "running"
  <2>1. /\ b \in allocated /\ b \notin ToSet(recycled_requests)
        /\ request[b].conn \in connections \cup {NoConn}
    BY <1>1, <1>3 DEF MemInv, Memory
  <2> QED BY <2>1, <1>3 DEF Touched
<1> QED
  BY <1>1, <1>2, <1>3

\* A step that ends the behaviour leaves the buffers as they are.
LEMMA MisuseStep ==
  ASSUME IInv, status' \in {"server_gone", "late_answer"},
         UNCHANGED <<server, connVars, requestVars, lost, owed, clientVars, accepted,
                     toServer, written>>,
         tasks' \subseteq tasks, pipe' = pipe, TypeFrame'
  PROVE  IInv'
<1>1. TypeInv'
  <2>1. TypeReq'
    BY DEF IInv, TypeInv, TypeReq, requestVars
  <2>2. TypeCtl'
    BY DEF IInv, TypeInv, TypeCtl, clientVars
  <2>3. TypeConn'
    BY DEF IInv, TypeInv, TypeConn, connVars
  <2> QED BY <2>1, <2>2, <2>3 DEF TypeInv
<1>2. \A d \in Conns : Replies(d)' = Replies(d)
  BY DEF Replies, connVars
<1>3. RepliesInv'
  BY <1>2, QuietReplies DEF IInv
<1>4. WatchFitsOutgoing'
  BY DEF IInv, WatchFitsOutgoing, connVars
<1>5. status' # "wild" /\ ~Running'
  BY DEF Running
<1> QED
  BY <1>1, <1>3, <1>4, <1>5 DEF IInv

\* A task that is done leaves its request to nobody.
LEMMA TaskDone ==
  ASSUME OneHolder, NEW t \in tasks, tasks' = tasks \ {t}, Proxies' = Proxies, lost' = lost
  PROVE  Live' = Live \ {t.request}
<1>1. \A u \in tasks : u # t => u.request # t.request
  BY DEF OneHolder
<1>2. \A p \in Proxies : p.request # t.request
  BY DEF OneHolder
<1>3. t.request \notin lost
  BY DEF OneHolder
<1> QED
  BY <1>1, <1>2, <1>3, LiveIs, LiveIsNext

LEMMA RespondInThreadStep ==
  ASSUME IInv, NEW t \in tasks, RespondInThread(t)
  PROVE  IInv'
<1> DEFINE b == t.request
           k == t.call
<1>1. /\ Running /\ tasks' = tasks \ {t}
      /\ UNCHANGED <<server, frame, pipe, lost, owed, clientVars, accepted, toServer, written>>
  BY DEF RespondInThread, InProgram
<1>2. Core /\ HoldInv /\ TypeFrame /\ TypeCtl
  BY <1>1 DEF IInv, Core, TypeInv
<1>3. b \in Live /\ OwnRequest(b, k)
  BY <1>2, LiveIs DEF HoldInv, HoldersRight
<1>4. k \in Call
  BY <1>2 DEF TypeCtl, Task
<1>5. TypeFrame'
  BY <1>1, <1>2 DEF TypeFrame
<1>6. Touched(b) \in {"ok", "server_gone"} /\ (Touched(b) = "ok" <=> server = "running")
  BY <1>1, <1>3, TouchedLive
<1>7. CASE Touched(b) # "ok"
  <2>1. status' = "server_gone" /\ UNCHANGED <<connVars, requestVars>>
    BY <1>6, <1>7 DEF RespondInThread, Undefined
  <2> QED BY <1>1, <1>5, <2>1, MisuseStep
<1>8. CASE Touched(b) = "ok" /\ request[b].conn = NoConn
  <2>1. status' = "late_answer" /\ UNCHANGED <<connVars, requestVars>>
    BY <1>8 DEF RespondInThread, Undefined
  <2> QED BY <1>1, <1>5, <2>1, MisuseStep
<1>9. CASE Touched(b) = "ok" /\ request[b].conn # NoConn
  <2>1. queue_response(b, ResponseOf(t))
    BY <1>9 DEF RespondInThread
  <2>2. ResponseOf(t) = [id |-> k.number, call |-> k]
    BY <1>3 DEF ResponseOf, OwnRequest
  <2>3. Drained' = Drained
    BY <1>1 DEF Drained
  <2>4. Proxies' = Proxies
    BY <1>1, <2>3 DEF Proxies
  <2>5. Live' = Live \ {b}
    BY <1>1, <1>2, <2>4, TaskDone DEF HoldInv
  <2>6. queue_response(b, [id |-> k.number, call |-> k]) /\ server = "running"
    BY <1>6, <1>9, <2>1, <2>2
  <2>7. sent' = sent
    BY <1>1 DEF clientVars
  <2> HIDE DEF b, k
  <2>8. /\ TypeConn' /\ TypeReq' /\ MemInv' /\ IdInv' /\ RepliesInv' /\ WatchFitsOutgoing'
        /\ request' = request /\ connections' = connections /\ status' = status
        /\ \A d \in Conns : d \notin connections => outgoing'[d] = outgoing[d]
    BY <1>1, <1>3, <1>4, <1>9, <2>5, <2>6, <2>7, QueueStep
  <2>9. TypeCtl'
    BY <1>1, <1>2, <2>8 DEF TypeCtl, clientVars
  <2>10. HoldInv'
    <3>1. PipeOK'
      BY <1>1, <1>2, <2>3 DEF HoldInv, PipeOK
    <3> QED BY <1>1, <1>2, <2>4, <2>8, <3>1, FewerHolders
  <2>11. FrameInv'
    BY <1>1, <1>2, <2>8 DEF Core, FrameInv
  <2>12. status' # "wild"
    BY <2>8 DEF IInv
  <2> QED
    BY <1>5, <2>8, <2>9, <2>10, <2>11, <2>12 DEF IInv, TypeInv, Core
<1> QED
  BY <1>7, <1>8, <1>9

LEMMA RespondInOtherThreadStep ==
  ASSUME IInv, NEW t \in tasks, RespondInOtherThread(t)
  PROVE  IInv'
<1> DEFINE b == t.request
           k == t.call
           p == [request |-> b, response |-> [id |-> k.number, call |-> k]]
<1>1. /\ Running /\ tasks' = tasks \ {t}
      /\ UNCHANGED <<server, connVars, requestVars, frame, clientVars, accepted,
                     toServer, written>>
  BY DEF RespondInOtherThread
<1>2. Core /\ HoldInv /\ MemInv /\ IdInv /\ FrameInv /\ TypeFrame /\ TypeCtl
  BY <1>1 DEF IInv, Core, TypeInv
<1>3. b \in Live /\ OwnRequest(b, k)
  BY <1>2, LiveIs DEF HoldInv, HoldersRight
<1>4. k \in Call /\ b \in Blocks
  BY <1>2 DEF TypeCtl, Task
<1>5. TypeFrame' /\ Drained' = Drained
  BY <1>1, <1>2 DEF TypeFrame, Drained
<1>6. Touched(b) \in {"ok", "server_gone"}
  BY <1>1, <1>3, TouchedLive
<1>7. CASE Touched(b) # "ok"
  <2>1. status' = "server_gone" /\ UNCHANGED <<pipe, lost, owed>>
    BY <1>6, <1>7 DEF RespondInOtherThread
  <2> QED BY <1>1, <1>5, <2>1, MisuseStep
<1>8. CASE Touched(b) = "ok"
  <2>1. status' = status
    BY <1>8 DEF RespondInOtherThread
  <2>2. ResponseOf(t) = [id |-> k.number, call |-> k]
    BY <1>3 DEF ResponseOf, OwnRequest
  <2>3. \/ pipe' = Append(pipe, p) /\ UNCHANGED <<lost, owed>>
        \/ lost' = lost \cup {b} /\ owed' = owed \ {k} /\ UNCHANGED pipe
    BY <1>8, <2>2 DEF RespondInOtherThread
  <2>4. p \in Proxied /\ p.request = b /\ p.response.call = k /\ p.response.id = k.number
    BY <1>4 DEF Proxied, Response, Call
  <2> HIDE DEF b, k, p
  <2>5. pipe \in Seq(Proxied) /\ request' = request
    BY <1>1, <1>2 DEF TypeCtl, requestVars
  <2>6. /\ \A u \in tasks : u.request \in Live
        /\ \A v \in Proxies : v.request \in Live /\ v.request # b
        /\ lost \subseteq Live /\ b \notin lost
        /\ \A u \in tasks : u # t => u.request # b
    BY <1>2, LiveIs DEF HoldInv, OneHolder, b
  <2>7. /\ TypeCtl' /\ HoldInv' /\ Live' = Live
    <3>1. OneHolder /\ PipeOK /\ HoldersRight
      BY <1>2 DEF HoldInv
    <3>2. CASE pipe' = Append(pipe, p) /\ UNCHANGED <<lost, owed>>
      <4>1. ToSet(pipe') = ToSet(pipe) \cup {p}
        BY <2>4, <2>5, <3>2, AppendList
      <4>2. Proxies' = Proxies \cup {p} /\ p \notin Proxies
        BY <1>5, <2>4, <2>6, <4>1 DEF Proxies
      <4>3. Inj(pipe')
        BY <2>4, <2>5, <3>1, <3>2, <4>2, AppendList DEF PipeOK, Proxies
      <4>4. PipeOK'
        BY <1>1, <1>5, <3>1, <4>1, <4>2, <4>3 DEF PipeOK, Proxies
      <4>5. OneHolder'
        BY <1>1, <2>4, <2>6, <3>1, <3>2, <4>2 DEF OneHolder
      <4>6. HoldersRight'
        <5>1. OwnRequest(p.request, p.response.call)'
          BY <1>3, <2>4, <2>5 DEF OwnRequest, p, b, k
        <5>2. \A v \in Proxies : OwnRequest(v.request, v.response.call)'
          BY <2>5, <3>1 DEF HoldersRight, OwnRequest
        <5>3. \A u \in tasks' : OwnRequest(u.request, u.call)'
          BY <1>1, <2>5, <3>1 DEF HoldersRight, OwnRequest
        <5>4. \A v \in Proxies' : /\ OwnRequest(v.request, v.response.call)'
                                  /\ v.response.id = v.response.call.number
          BY <5>1, <5>2, <4>2, <3>1, <2>4 DEF HoldersRight
        <5> QED BY <5>3, <5>4 DEF HoldersRight
      <4>7. Live' = Live
        <5>1. t.request = b /\ b \in {u.request : u \in tasks}
          BY DEF b
        <5> QED BY <1>1, <2>4, <3>2, <4>2, <5>1, LiveIs, LiveIsNext
      <4>8. TypeCtl'
        <5>1. pipe' \in Seq(Proxied)
          BY <2>4, <2>5, <3>2
        <5> QED BY <1>1, <1>2, <2>1, <3>2, <5>1 DEF TypeCtl, clientVars
      <4> QED BY <4>4, <4>5, <4>6, <4>7, <4>8 DEF HoldInv
    <3>3. CASE lost' = lost \cup {b} /\ owed' = owed \ {k} /\ UNCHANGED pipe
      <4>1. Proxies' = Proxies
        BY <1>5, <3>3 DEF Proxies
      <4>2. PipeOK'
        BY <1>1, <1>5, <3>1, <3>3 DEF PipeOK
      <4>3. OneHolder'
        BY <1>1, <2>6, <3>1, <3>3, <4>1 DEF OneHolder
      <4>4. HoldersRight'
        BY <1>1, <2>5, <3>1, <4>1 DEF HoldersRight, OwnRequest
      <4>5. Live' = Live
        <5>1. t.request = b /\ b \in {u.request : u \in tasks}
          BY DEF b
        <5> QED BY <1>1, <3>3, <4>1, <5>1, LiveIs, LiveIsNext
      <4>6. TypeCtl'
        BY <1>1, <1>2, <1>4, <2>1, <3>3 DEF TypeCtl, clientVars, b
      <4> QED BY <4>2, <4>3, <4>4, <4>5, <4>6 DEF HoldInv
    <3> QED BY <2>3, <3>2, <3>3
  <2>8. TypeConn' /\ TypeReq'
    BY <1>1 DEF IInv, TypeInv, TypeConn, TypeReq, connVars, requestVars
  <2>9. connections' = connections /\ sent' = sent
    BY <1>1 DEF connVars, clientVars
  <2>10. MemInv'
    BY <1>1, <1>2, <2>7, <2>9, QuietMem
  <2>11. \A d \in Conns : Stream(d)' = Stream(d) /\ Replies(d)' = Replies(d)
    BY <1>1 DEF Stream, Replies, connVars
  <2>12. IdInv'
    BY <1>2, <2>5, <2>7, <2>9, <2>11, QuietIds
  <2>13. RepliesInv' /\ status' # "wild"
    BY <2>1, <2>11, QuietReplies DEF IInv
  <2>14. WatchFitsOutgoing'
    BY <1>1 DEF IInv, WatchFitsOutgoing, connVars
  <2>15. FrameInv'
    BY <1>1, <1>2 DEF FrameInv, connVars
  <2> QED
    BY <1>5, <2>7, <2>8, <2>10, <2>12, <2>13, <2>14, <2>15 DEF IInv, TypeInv, Core
<1> QED
  BY <1>6, <1>7, <1>8
-----------------------------------------------------------------------------
(* The pipe.                                                               *)

LEMMA ReadPipeStep ==
  ASSUME IInv, ReadPipe
  PROVE  IInv'
<1>1. /\ Running /\ frame = NoFrame /\ pipe # <<>>
      /\ UNCHANGED <<server, connVars, requestVars, tasks, lost, owed, clientVars, accepted,
                     toServer, written>>
  BY DEF ReadPipe, InLoop
<1>2. Core /\ HoldInv /\ MemInv /\ IdInv /\ FrameInv /\ TypeFrame /\ TypeCtl
  BY <1>1 DEF IInv, Core, TypeInv
<1>3. CASE server = "destroyed"
  <2>1. status' = "server_gone" /\ UNCHANGED <<frame, pipe>>
    BY <1>3 DEF ReadPipe
  <2>2. TypeFrame'
    BY <1>2, <2>1 DEF TypeFrame
  <2> QED BY <1>1, <2>1, <2>2, MisuseStep
<1>4. CASE server # "destroyed"
  <2>1. frame' = DrainFrame(pipe) /\ pipe' = <<>> /\ status' = status
    BY <1>4 DEF ReadPipe
  <2>2. pipe \in Seq(Proxied) /\ server = "running"
    BY <1>2, <1>4 DEF TypeCtl
  <2>3. /\ frame' \in [kind : {"drain"}, responses : Seq(Proxied)]
        /\ frame'.kind = "drain" /\ frame'.responses = pipe
    BY <2>1, <2>2, FrameTypes
  <2>4. Drained = {} /\ Drained' = ToSet(pipe) /\ ToSet(pipe') = {} /\ Inj(pipe')
    BY <1>1, <2>1, <2>3, FrameTypes, EmptyList DEF Drained
  <2>5. Proxies' = Proxies
    BY <2>4 DEF Proxies
  <2>6. Live' = Live
    BY <1>1, <2>5, LiveIs, LiveIsNext
  <2>7. PipeOK'
    BY <1>2, <2>3, <2>4 DEF HoldInv, PipeOK
  <2>8. request' = request /\ connections' = connections /\ sent' = sent
    BY <1>1 DEF requestVars, connVars, clientVars
  <2>9. HoldInv'
    BY <1>1, <1>2, <2>5, <2>7, <2>8, FewerHolders
  <2>10. MemInv'
    BY <1>1, <1>2, <2>6, <2>8, QuietMem
  <2>11. \A d \in Conns : Stream(d)' = Stream(d) /\ Replies(d)' = Replies(d)
    BY <1>1 DEF Stream, Replies, connVars
  <2>12. IdInv'
    BY <1>2, <2>6, <2>8, <2>11, QuietIds
  <2>13. RepliesInv' /\ status' # "wild"
    BY <2>1, <2>11, QuietReplies DEF IInv
  <2>14. WatchFitsOutgoing'
    BY <1>1 DEF IInv, WatchFitsOutgoing, connVars
  <2>15. FrameInv'
    BY <1>1, <1>2, <2>2, <2>3 DEF FrameInv, connVars
  <2>16. TypeConn' /\ TypeReq'
    BY <1>1 DEF IInv, TypeInv, TypeConn, TypeReq, connVars, requestVars
  <2>17. TypeFrame'
    BY <2>3 DEF TypeFrame
  <2>18. TypeCtl'
    <3>1. pipe' \in Seq(Proxied)
      BY <2>1
    <3> QED BY <1>1, <1>2, <2>1, <3>1 DEF TypeCtl, clientVars
  <2> QED
    BY <2>9, <2>10, <2>12, <2>13, <2>14, <2>15, <2>16, <2>17, <2>18 DEF IInv, TypeInv, Core
<1> QED
  BY <1>3, <1>4

\* The handler goes on to the next response.
LEMMA DrainOne ==
  ASSUME TypeFrame, PipeOK, pipe' = pipe, NEW p,
         frame.kind = "drain", frame.responses # <<>>, p = Head(frame.responses),
         frame' = IF Len(frame.responses) = 1 THEN NoFrame
                  ELSE DrainFrame(Tail(frame.responses))
  PROVE  /\ TypeFrame' /\ PipeOK' /\ p \in Proxied /\ p \in Proxies
         /\ Drained' = Drained \ {p} /\ Proxies' = Proxies \ {p}
         /\ frame'.kind \in {"none", "drain"}
         /\ frame'.kind = "drain" => frame'.responses # <<>>
<1> DEFINE rs == frame.responses
<1>1. rs \in Seq(Proxied) /\ Inj(rs) /\ rs # <<>>
  BY FrameKinds DEF PipeOK
<1>2. Drained = ToSet(rs) /\ ToSet(pipe) \cap Drained = {} /\ Inj(pipe)
  BY DEF Drained, PipeOK
<1>3. p = Head(rs) /\ frame' = IF Len(rs) = 1 THEN NoFrame ELSE DrainFrame(Tail(rs))
  OBVIOUS
<1> HIDE DEF rs
<1>4. /\ Tail(rs) \in Seq(Proxied) /\ Head(rs) \in Proxied
      /\ ToSet(rs) = {Head(rs)} \cup ToSet(Tail(rs))
      /\ Inj(Tail(rs)) /\ Head(rs) \notin ToSet(Tail(rs))
  BY <1>1, TailList
<1>5. Tail(rs) = <<>> <=> Len(rs) = 1
  <2>1. Tail(rs) \in Seq(Proxied) /\ Len(Tail(rs)) = Len(rs) - 1 /\ Len(rs) \in Nat
    BY <1>1
  <2>2. Tail(rs) = <<>> <=> Len(Tail(rs)) = 0
    BY <2>1, EmptySeq
  <2> QED BY <2>1, <2>2
<1>6. ToSet(Tail(rs)) = Drained \ {p}
  BY <1>2, <1>3, <1>4
<1>7. /\ TypeFrame' /\ frame'.kind \in {"none", "drain"}
      /\ frame'.kind = "drain" => frame'.responses # <<>> /\ Inj(frame'.responses)
      /\ Drained' = Drained \ {p}
  <2>1. CASE Len(rs) = 1
    <3>1. frame' = NoFrame /\ frame'.kind = "none"
      BY <1>3, <2>1, FrameTypes
    <3>2. ToSet(Tail(rs)) = {}
      BY <1>5, <2>1, EmptyList
    <3>3. Drained' = {}
      BY <3>1 DEF Drained
    <3> QED BY <3>1, <3>2, <3>3, <1>6 DEF TypeFrame
  <2>2. CASE Len(rs) # 1
    <3>1. /\ frame' \in [kind : {"drain"}, responses : Seq(Proxied)]
          /\ frame'.kind = "drain" /\ frame'.responses = Tail(rs)
      <4> DEFINE u == Tail(rs)
      <4>1. u \in Seq(Proxied) /\ frame' = DrainFrame(u)
        BY <1>3, <1>4, <2>2
      <4> HIDE DEF u
      <4>2. /\ frame' \in [kind : {"drain"}, responses : Seq(Proxied)]
            /\ frame'.kind = "drain" /\ frame'.responses = u
        BY <4>1, FrameTypes
      <4> QED BY <4>2 DEF u
    <3>2. Drained' = ToSet(Tail(rs))
      BY <3>1 DEF Drained
    <3>3. TypeFrame'
      BY <3>1 DEF TypeFrame
    <3> QED BY <3>1, <3>2, <3>3, <1>4, <1>5, <1>6, <2>2
  <2> QED BY <2>1, <2>2
<1>8. p \in Drained /\ p \notin ToSet(pipe)
  BY <1>2, <1>3, <1>4
<1>9. Proxies' = Proxies \ {p} /\ p \in Proxies
  BY <1>7, <1>8 DEF Proxies
<1>10. PipeOK'
  BY <1>2, <1>7 DEF PipeOK
<1> QED
  BY <1>3, <1>4, <1>7, <1>9, <1>10

\* A response that has come through the pipe leaves its request to nobody.
LEMMA ProxyDone ==
  ASSUME OneHolder, NEW p \in Proxies, Proxies' = Proxies \ {p}, tasks' = tasks, lost' = lost
  PROVE  Live' = Live \ {p.request}
<1>1. \A v \in Proxies : v # p => v.request # p.request
  BY DEF OneHolder
<1>2. \A t \in tasks : t.request # p.request
  BY DEF OneHolder
<1>3. p.request \notin lost
  BY DEF OneHolder
<1> QED
  BY <1>1, <1>2, <1>3, LiveIs, LiveIsNext

LEMMA ForwardStep ==
  ASSUME IInv, ForwardResponse
  PROVE  IInv'
<1>1. /\ Running /\ frame.kind = "drain"
      /\ UNCHANGED <<server, tasks, pipe, lost, owed, clientVars, accepted, toServer, written>>
      /\ frame' = IF Len(frame.responses) = 1 THEN NoFrame
                  ELSE DrainFrame(Tail(frame.responses))
  BY DEF ForwardResponse
<1>2. /\ Core /\ HoldInv /\ OneHolder /\ PipeOK /\ HoldersRight /\ MemInv /\ IdInv /\ FrameInv
      /\ TypeFrame /\ TypeCtl /\ frame.responses # <<>> /\ server = "running"
  BY <1>1 DEF IInv, Core, HoldInv, TypeInv, FrameInv
<1>3. PICK p \in {Head(frame.responses)} : TRUE
  OBVIOUS
<1>4. /\ TypeFrame' /\ PipeOK' /\ p \in Proxied /\ p \in Proxies
      /\ Drained' = Drained \ {p} /\ Proxies' = Proxies \ {p}
      /\ frame'.kind \in {"none", "drain"}
      /\ frame'.kind = "drain" => frame'.responses # <<>>
  BY <1>1, <1>2, <1>3, DrainOne
<1> DEFINE b == p.request
           k == p.response.call
<1>5. /\ b \in Live /\ OwnRequest(b, k) /\ p.response.id = k.number
      /\ k \in Call /\ p.response = [id |-> k.number, call |-> k]
  <2>1. b \in Live /\ OwnRequest(b, k) /\ p.response.id = k.number
    BY <1>2, <1>4, LiveIs DEF HoldersRight
  <2>2. p.response \in Response
    BY <1>4 DEF Proxied
  <2> QED BY <2>1, <2>2 DEF Response
<1>6. Live' = Live \ {b}
  BY <1>1, <1>2, <1>4, ProxyDone
<1>7. Touched(b) = "ok"
  BY <1>1, <1>2, <1>5, TouchedLive
<1>8. sent' = sent
  BY <1>1 DEF clientVars
<1>9. CASE request[b].conn = NoConn
  <2>1. free_defunct(b)
    BY <1>3, <1>7, <1>9 DEF ForwardResponse
  <2> HIDE DEF b, k
  <2>2. /\ allocated' = allocated \ {b} /\ status' = status
        /\ UNCHANGED <<connVars, pending, n_pending_requests, request, recycled_requests>>
    BY <2>1 DEF free_defunct
  <2>3. connections' = connections /\ request' = request
    BY <2>2 DEF connVars
  <2>4. MemInv'
    <3>1. Memory'
      BY <1>1, <1>2, <1>5, <1>6, <2>2 DEF MemInv, Memory
    <3>2. \A a \in Live' : request'[a].conn \in connections' \cup {NoConn}
      BY <1>2, <1>6, <2>3 DEF MemInv
    <3>3. ASSUME NEW c \in Conns PROVE Pending(c)'
      <4>1. Pending(c)
        BY <1>2 DEF MemInv
      <4>2. {a \in Live' : request'[a].conn = c} = {a \in Live : request[a].conn = c}
        BY <1>6, <1>9, <2>3, ServerAssumption
      <4> QED BY <4>1, <4>2, <2>2 DEF Pending
    <3> QED BY <3>1, <3>2, <3>3 DEF MemInv
  <2>5. \A d \in Conns : Stream(d)' = Stream(d) /\ Replies(d)' = Replies(d)
    BY <1>1, <2>2 DEF Stream, Replies, connVars
  <2>6. IdInv'
    <3>1. LiveIds' \subseteq LiveIds
      BY <1>6, <2>3 DEF LiveIds
    <3>2. \A x, y \in Live' : request'[x].request_id = request'[y].request_id => x = y
      BY <1>2, <1>6, <2>3 DEF IdInv
    <3>3. \A d \in Conns : /\ Ids(Stream(d))' = Ids(Stream(d))
                           /\ Ids(Replies(d))' = Ids(Replies(d))
                           /\ IdInj(Stream(d))' = IdInj(Stream(d))
      BY <2>5 DEF Ids, IdInj
    <3> QED BY <1>2, <1>8, <3>1, <3>2, <3>3 DEF IdInv
  <2>7. RepliesInv' /\ status' # "wild"
    BY <2>2, <2>5, QuietReplies DEF IInv
  <2>8. WatchFitsOutgoing'
    BY <2>2 DEF IInv, WatchFitsOutgoing, connVars
  <2>9. FrameInv'
    BY <1>1, <1>2, <1>4, <2>2 DEF FrameInv, connVars
  <2>10. TypeConn'
    BY <1>1, <2>2 DEF IInv, TypeInv, TypeConn, connVars
  <2>11. TypeReq'
    BY <2>2 DEF IInv, TypeInv, TypeReq
  <2>12. TypeCtl'
    BY <1>1, <1>2, <2>2 DEF TypeCtl, clientVars
  <2>13. HoldInv'
    BY <1>1, <1>2, <1>4, <2>3, FewerHolders
  <2> QED
    BY <1>4, <2>4, <2>6, <2>7, <2>8, <2>9, <2>10, <2>11, <2>12, <2>13 DEF IInv, TypeInv, Core
<1>10. CASE request[b].conn # NoConn
  <2>1. queue_response(b, [id |-> k.number, call |-> k])
    <3>1. queue_response(b, p.response)
      BY <1>3, <1>7, <1>10 DEF ForwardResponse
    <3> QED BY <3>1, <1>5
  <2> HIDE DEF b, k
  <2>2. /\ TypeConn' /\ TypeReq' /\ MemInv' /\ IdInv' /\ RepliesInv' /\ WatchFitsOutgoing'
        /\ request' = request /\ connections' = connections /\ status' = status
        /\ \A d \in Conns : d \notin connections => outgoing'[d] = outgoing[d]
    BY <1>1, <1>2, <1>5, <1>6, <1>8, <1>10, <2>1, QueueStep
  <2>3. TypeCtl'
    BY <1>1, <1>2, <2>2 DEF TypeCtl, clientVars
  <2>4. HoldInv'
    BY <1>1, <1>2, <1>4, <2>2, FewerHolders
  <2>5. FrameInv'
    BY <1>1, <1>2, <1>4, <2>2 DEF FrameInv
  <2>6. status' # "wild"
    BY <2>2 DEF IInv
  <2> QED
    BY <1>4, <2>2, <2>3, <2>4, <2>5, <2>6 DEF IInv, TypeInv, Core
<1> QED
  BY <1>9, <1>10
-----------------------------------------------------------------------------
(* Everything together.                                                    *)

LEMMA ServerInit == Init => IInv
<1> SUFFICES ASSUME Init PROVE IInv
  OBVIOUS
<1> USE DEF Init
<1>0. frame.kind = "none"
  BY FrameTypes
<1>1. TypeInv
  <2>1. TypeConn
    <3>1. <<>> \in Seq(Request) /\ <<>> \in Seq(Response)
      OBVIOUS
    <3> QED BY <3>1 DEF TypeConn
  <2>2. TypeReq
    <3>1. <<>> \in Seq(Blocks) /\ [conn |-> NoConn, request_id |-> 0] \in ServerRequest
      BY ServerAssumption DEF ServerRequest
    <3> QED BY <3>1 DEF TypeReq
  <2>3. TypeFrame
    BY DEF TypeFrame
  <2>4. TypeCtl
    BY ServerAssumption DEF TypeCtl
  <2> QED BY <2>1, <2>2, <2>3, <2>4 DEF TypeInv
<1>2. Proxies = {} /\ Drained = {} /\ Live = {}
  <2>1. Drained = {}
    BY <1>0 DEF Drained
  <2>2. Proxies = {}
    BY <2>1, EmptyList DEF Proxies
  <2> QED BY <2>1, <2>2, LiveIs
<1>3. HoldInv
  BY <1>0, <1>2, EmptyList DEF HoldInv, OneHolder, PipeOK, HoldersRight
<1>4. MemInv
  <2>1. Memory
    BY <1>2, EmptyList DEF Memory
  <2>2. \A c \in Conns : Pending(c)
    BY <1>2, EmptyList DEF Pending
  <2> QED BY <1>2, <2>1, <2>2 DEF MemInv
<1>5. \A c \in Conns : Stream(c) = <<>> /\ Replies(c) = <<>>
  <2>1. <<>> \o <<>> = <<>>
    OBVIOUS
  <2> QED BY <2>1 DEF Stream, Replies
<1>6. IdInv
  <2>1. LiveIds = {}
    BY <1>2 DEF LiveIds
  <2>2. \A c \in Conns : /\ Ids(Stream(c)) = {} /\ Ids(Replies(c)) = {}
                         /\ IdInj(Stream(c))
    BY <1>5, IdsEmpty
  <2> QED BY <1>2, <2>1, <2>2 DEF IdInv
<1>7. RepliesInv
  BY <1>5, IdsEmpty DEF RepliesInv
<1>8. FrameInv
  BY <1>0 DEF FrameInv
<1>9. WatchFitsOutgoing
  BY DEF WatchFitsOutgoing
<1> QED
  BY <1>1, <1>3, <1>4, <1>6, <1>7, <1>8, <1>9 DEF IInv, Core

LEMMA ServerStutter ==
  ASSUME IInv, UNCHANGED vars
  PROVE  IInv'
<1> USE DEF vars
<1>1. TypeInv'
  <2>1. TypeConn'
    BY DEF IInv, TypeInv, TypeConn, connVars
  <2>2. TypeReq'
    BY DEF IInv, TypeInv, TypeReq, requestVars
  <2>3. TypeFrame'
    BY DEF IInv, TypeInv, TypeFrame
  <2>4. TypeCtl'
    BY DEF IInv, TypeInv, TypeCtl, clientVars
  <2> QED BY <2>1, <2>2, <2>3, <2>4 DEF TypeInv
<1>2. /\ Running' => HoldInv' /\ MemInv' /\ IdInv'
      /\ RepliesInv' /\ status' # "wild"
  <2>1. Drained' = Drained
    BY DEF Drained
  <2>2. \A d \in Conns : Stream(d)' = Stream(d) /\ Replies(d)' = Replies(d)
    BY DEF Stream, Replies, connVars
  <2>3. sent' = sent /\ connections' = connections
    BY DEF clientVars, connVars
  <2> QED BY <2>1, <2>2, <2>3, QuietCore
<1>3. Running' => FrameInv'
  BY DEF IInv, Running, Core, FrameInv, connVars
<1>4. WatchFitsOutgoing'
  BY DEF IInv, WatchFitsOutgoing, connVars
<1> QED
  BY <1>1, <1>2, <1>3, <1>4 DEF IInv, Core

LEMMA ServerStep == IInv /\ [Next]_vars => IInv'
<1> SUFFICES ASSUME IInv, [Next]_vars PROVE IInv'
  OBVIOUS
<1>1. ASSUME NEW c \in Conns, Handlers(c) PROVE IInv'
  BY <1>1, AcceptStep, ReadableStep, GoneStep DEF Handlers
<1>2. ASSUME NEW c \in Conns, NEW n \in 0 .. MaxRequests, HandleWritable(c, n) PROVE IInv'
  BY <1>2, WritableStep
<1>3. CASE Progress
  BY <1>3, ProcessStep, InvokeReturnsStep, LoopEndsStep, ReadPipeStep, ForwardStep DEF Progress
<1>4. ASSUME NEW t \in tasks, Respond(t) PROVE IInv'
  BY <1>4, RespondInThreadStep, RespondInOtherThreadStep DEF Respond
<1>5. CASE Destroy
  BY <1>5, DestroyStep
<1>6. CASE Clients
  <2>1. Running
    BY <1>6 DEF Clients
  <2>2. PICK c \in Conns : Connect(c) \/ HangUp(c) \/ \E bad \in BOOLEAN : Send(c, bad)
    BY <1>6 DEF Clients
  <2> QED BY <2>1, <2>2, PeerStep, SendStep
<1>7. CASE UNCHANGED vars
  BY <1>7, ServerStutter
<1>8. CASE Terminated
  BY <1>8, ServerStutter DEF Terminated
<1> QED
  BY <1>1, <1>2, <1>3, <1>4, <1>5, <1>6, <1>7, <1>8 DEF Next

LEMMA ServerAlways == Spec => []IInv
  BY ServerInit, ServerStep, PTL DEF Spec

LEMMA HeldIsLive == Held \subseteq Live /\ lost \subseteq Live /\ Live = Held \cup lost
  BY DEF Live

LEMMA IInvImplies ==
  IInv => NoWildAccess /\ RequestsSound /\ OwnAnswerOnce /\ WatchFitsOutgoing
<1> SUFFICES ASSUME IInv PROVE NoWildAccess /\ RequestsSound /\ OwnAnswerOnce /\ WatchFitsOutgoing
  OBVIOUS
<1>1. TypeOK /\ NoWildAccess /\ WatchFitsOutgoing
  BY TypeParts DEF IInv, NoWildAccess
<1>2. ASSUME Running, server = "running"
      PROVE  /\ ToSet(recycled_requests) \cap (Held \cup lost) = {}
             /\ Cardinality(ToSet(recycled_requests)) = Len(recycled_requests)
             /\ allocated = ToSet(recycled_requests) \cup Held \cup lost
             /\ \A c \in Conns :
                  /\ n_pending_requests[c] = Len(pending[c])
                  /\ ToSet(pending[c]) = {b \in Held \cup lost : request[b].conn = c}
  <2>1. MemInv /\ recycled_requests \in Seq(Blocks)
    BY <1>2 DEF IInv, Core, TypeInv, TypeReq
  <2>2. /\ Inj(recycled_requests) /\ ToSet(recycled_requests) \cap Live = {}
        /\ allocated = ToSet(recycled_requests) \cup Live
    BY <1>2, <2>1 DEF MemInv, Memory
  <2>3. Cardinality(ToSet(recycled_requests)) = Len(recycled_requests)
    BY <2>1, <2>2, ListCardinality
  <2>4. \A c \in Conns :
           /\ n_pending_requests[c] = Len(pending[c])
           /\ ToSet(pending[c]) = {b \in Live : request[b].conn = c}
    BY <2>1 DEF MemInv, Pending
  <2> QED BY <2>2, <2>3, <2>4, HeldIsLive
<1>3. ASSUME Running, server = "destroyed", Held = {} PROVE allocated = lost
  <2>1. allocated = Live
    BY <1>3 DEF IInv, Core, MemInv, Memory
  <2> QED BY <1>3, <2>1, HeldIsLive
<1>4. RequestsSound
  BY <1>1, <1>2, <1>3 DEF RequestsSound, RequestsAccountedFor, NothingLeaks
<1>5. OwnAnswerOnce
  <2>1. ASSUME NEW c \in Conns, NEW i \in 1 .. Len(Replies(c))
        PROVE  /\ Replies(c)[i].call = [conn |-> c, number |-> Replies(c)[i].id]
               /\ \A j \in 1 .. i - 1 : Replies(c)[j].id # Replies(c)[i].id
    <3>1. Len(Replies(c)) \in Nat
      BY DEF IInv, TypeInv, TypeConn, Replies
    <3>2. \A j \in 1 .. i - 1 : j \in 1 .. Len(Replies(c)) /\ j # i
      BY <3>1
    <3> QED BY <3>2 DEF IInv, RepliesInv, IdInj
  <2> QED BY <2>1 DEF OwnAnswerOnce, Replies
<1> QED
  BY <1>1, <1>4, <1>5

\* No pointer to a request or to its connection is followed once it was freed or
\* given to another request, for any number of connections and requests: an answer
\* given late, from any thread, finds its request structure still its own.
THEOREM RequestsOutliveAnswers == Spec => []NoWildAccess
  BY ServerAlways, IInvImplies, PTL

\* The variables keep their types; a request structure is recycled, on the list of
\* its own connection or defunct, never two of these; every structure that is
\* not recycled will be answered or lost its answer on the way to the pipe; and
\* protobuf_c_rpc_server_destroy frees them all once they are answered.
THEOREM RequestMemorySound == Spec => []RequestsSound
  BY ServerAlways, IInvImplies, PTL

\* A response goes to the connection its request came from, with that request's
\* id, and only once, although structures are recycled and the answers come in
\* any order and from any thread.
THEOREM AnsweredOnce == Spec => []OwnAnswerOnce
  BY ServerAlways, IInvImplies, PTL

\* Each open connection's descriptor is watched for WRITABLE exactly while its
\* outgoing buffer holds something.
THEOREM ServerWatchesWhatItNeeds == Spec => []WatchFitsOutgoing
  BY ServerAlways, IInvImplies, PTL
=============================================================================
