------------------------------ MODULE RpcServer -----------------------------
(***************************************************************************)
(* The server half of protobuf-c-rpc.c: connections, the memory of their   *)
(* requests with the list of recycled ones, the responses a service gives  *)
(* at once, later, or from other threads, and the pipe that brings the     *)
(* latter to the thread of the dispatch.                                   *)
(*                                                                         *)
(* A buffer is a sequence of whole requests or responses.  A request is    *)
(* known by its address, a member of Blocks; "call" is a ghost that says   *)
(* which request of which client a response really answers.                *)
(*                                                                         *)
(* The service runs in the middle of handle_server_connection_events and   *)
(* may answer any request it holds there; "frame" is what the thread of    *)
(* the dispatch is doing.  Service, other threads, clients and kernel are  *)
(* external.  listening_fd, bind_name and the error hook have no effect on *)
(* the state below and are left out.                                       *)
(***************************************************************************)
EXTENDS Naturals, Sequences, FiniteSets, SequencesExt

CONSTANTS Conns,          \* the connections that clients may make
          MaxRequests,    \* bound: requests of all clients
          Threaded,       \* configure_threading was called
          MaxPipe         \* bound: responses that fit in the pipe

NoConn == "NULL"          \* the connection of a defunct request

ASSUME ServerAssumption ==
  /\ IsFiniteSet(Conns) /\ NoConn \notin Conns /\ MaxRequests \in Nat /\ MaxPipe \in Nat \ {0}
  /\ Threaded \in BOOLEAN

VARIABLES
  server,                 \* "running" or "destroyed"
  connections,            \* the list at first_connection
  incoming, outgoing,     \* the buffers of each connection
  watch,                  \* what the dispatch watches each descriptor for
  pending,                \* the list at first_pending_request
  n_pending_requests,
  request,                \* the contents of each request structure
  allocated,              \* the request structures that are allocated
  recycled_requests,
  frame,
  tasks,                  \* response closures the service has still to invoke
  pipe,                   \* the proxy pipe: ProxyResponses
  lost,                   \* requests whose response could not be proxied
  status,                 \* what the code has done to memory
  owed,                   \* ghost: calls the service was given and no answer sent
  peer, accepted, sent, toServer, written    \* the clients and the network

requestVars == <<pending, n_pending_requests, request, allocated,
                 recycled_requests>>
connVars    == <<connections, incoming, outgoing, watch>>
clientVars  == <<peer, sent>>
vars == <<server, connVars, requestVars, frame, tasks, pipe, lost, status, owed,
          clientVars, accepted, toServer, written>>

READABLE == "READABLE"
WRITABLE == "WRITABLE"
Blocks   == 1 .. MaxRequests
Call     == [conn : Conns, number : 1 .. MaxRequests]
\* A request on the wire; one that is bad names no method or cannot be unpacked.
Request  == [id : 1 .. MaxRequests, bad : BOOLEAN]
Response == [id : 1 .. MaxRequests, call : Call]
\* The closure_data of a response closure, or the request of a ProxyResponse.
Task     == [request : Blocks, call : Call]
Proxied  == [request : Blocks, response : Response]
\* ServerRequest: conn is NULL in a defunct one.
ServerRequest == [conn : Conns \cup {NoConn}, request_id : 0 .. MaxRequests]

NoFrame == [kind |-> "none"]
\* In handle_server_connection_events of c, with or without WRITABLE in events:
\* in the loop over the requests, or in the service's invoke.
LoopFrame(c, w)   == [kind |-> "loop", conn |-> c, writable |-> w]
InvokeFrame(c, w) == [kind |-> "invoke", conn |-> c, writable |-> w]
\* In handle_proxy_pipe_readable, with responses still to handle.
DrainFrame(rs)    == [kind |-> "drain", responses |-> rs]

TypeOK ==
  /\ server \in {"running", "destroyed"}
  /\ connections \subseteq accepted /\ accepted \subseteq Conns
  /\ incoming \in [Conns -> Seq(Request)] /\ outgoing \in [Conns -> Seq(Response)]
  /\ watch \in [Conns -> SUBSET {READABLE, WRITABLE}]
  /\ pending \in [Conns -> Seq(Blocks)] /\ n_pending_requests \in [Conns -> Nat]
  /\ request \in [Blocks -> ServerRequest] /\ allocated \subseteq Blocks
  /\ recycled_requests \in Seq(Blocks)
  /\ \/ frame = NoFrame
     \/ frame \in [kind : {"loop", "invoke"}, conn : Conns, writable : BOOLEAN]
     \/ frame \in [kind : {"drain"}, responses : Seq(Proxied)]
  /\ tasks \subseteq Task /\ pipe \in Seq(Proxied) /\ lost \subseteq Blocks
  /\ owed \subseteq Call /\ status \in {"ok", "late_answer", "server_gone", "wild"}
  /\ peer \in [Conns -> {"none", "open", "closed"}]
  /\ sent \in 0 .. MaxRequests
  /\ toServer \in [Conns -> Seq(Request)] /\ written \in [Conns -> Seq(Response)]

Running == status = "ok"
InLoop  == Running /\ frame = NoFrame         \* the dispatch is in control
\* The thread of the dispatch is in the program's code: between two handlers, or
\* in the service.
InProgram == Running /\ frame.kind \in {"none", "invoke"}

\* server_new
Init ==
  /\ server = "running" /\ connections = {}
  /\ incoming = [c \in Conns |-> <<>>] /\ outgoing = [c \in Conns |-> <<>>]
  /\ watch = [c \in Conns |-> {}]
  /\ pending = [c \in Conns |-> <<>>] /\ n_pending_requests = [c \in Conns |-> 0]
  /\ request = [b \in Blocks |-> [conn |-> NoConn, request_id |-> 0]]
  /\ allocated = {} /\ recycled_requests = <<>>
  /\ frame = NoFrame /\ tasks = {} /\ pipe = <<>> /\ lost = {}
  /\ status = "ok" /\ owed = {}
  /\ peer = [c \in Conns |-> "none"] /\ accepted = {}
  /\ sent = 0
  /\ toServer = [c \in Conns |-> <<>>] /\ written = [c \in Conns |-> <<>>]
-----------------------------------------------------------------------------
(* Connections.                                                            *)

\* handle_server_listener_readable
Accept(c) ==
  /\ InLoop /\ server = "running"
  /\ peer[c] # "none" /\ c \notin accepted
  /\ accepted' = accepted \cup {c}
  /\ connections' = connections \cup {c}
  /\ watch' = [watch EXCEPT ![c] = {READABLE}]
  /\ UNCHANGED <<server, incoming, outgoing, requestVars, frame, tasks, pipe,
                 lost, status, owed, clientVars, toServer, written>>

\* Mistake: the requests keep the pointer to their connection.
orphaned_requests_linked(C) == request

\* The requests once those pending on the connections C are disassociated.
orphaned_requests(C) ==
  [b \in Blocks |-> IF \E c \in C : b \in ToSet(pending[c])
                   THEN [request[b] EXCEPT !.conn = NoConn] ELSE request[b]]

\* server_connection_close, for each connection of C: the requests that are
\* pending become defunct; the structures of the connections are freed.
close_connections(C) ==
  /\ connections' = connections \ C
  /\ incoming' = [c \in Conns |-> IF c \in C THEN <<>> ELSE incoming[c]]
  /\ outgoing' = [c \in Conns |-> IF c \in C THEN <<>> ELSE outgoing[c]]
  /\ watch' = [c \in Conns |-> IF c \in C THEN {} ELSE watch[c]]
  /\ owed' = {k \in owed : k.conn \notin C}
  /\ pending' = [c \in Conns |-> IF c \in C THEN <<>> ELSE pending[c]]
  /\ n_pending_requests' =
       [c \in Conns |-> IF c \in C THEN 0 ELSE n_pending_requests[c]]
  /\ request' = orphaned_requests(C)
  /\ UNCHANGED recycled_requests

\* server_connection_failed, which also tells the error hook, or the close at
\* an end of file; the handler returns.
Drop(c) ==
  /\ close_connections({c})
  /\ toServer' = [toServer EXCEPT ![c] = <<>>]
  /\ frame' = NoFrame
  /\ UNCHANGED allocated
-----------------------------------------------------------------------------
(* The memory of the requests.                                             *)

FreeBlocks == Blocks \ allocated

\* The next request structure and what is left on the list; the allocator gives
\* out the lowest free address, so that memory is reused as soon as can be.
NextRequest ==
  IF recycled_requests # <<>> THEN Head(recycled_requests)
  ELSE CHOOSE b \in FreeBlocks : \A a \in FreeBlocks : b <= a

\* Mistake: the id of a recycled request is not set.
filled_request_stale(c, id, b) ==
  [request[b] EXCEPT !.conn = c, !.request_id = IF recycled_requests = <<>> THEN id ELSE @]

filled_request(c, id, b) == [conn |-> c, request_id |-> id]
counted_request(c)       == [n_pending_requests EXCEPT ![c] = @ + 1]

create_server_request(c, id) ==
  LET b == NextRequest
  IN  /\ recycled_requests' =
           IF recycled_requests = <<>> THEN <<>> ELSE Tail(recycled_requests)
      /\ allocated' = allocated \cup {b}
      /\ request' = [request EXCEPT ![b] = filled_request(c, id, b)]
      /\ pending' = [pending EXCEPT ![c] = Append(@, b)]
      /\ n_pending_requests' = counted_request(c)

free_server_request(b) == recycled_requests' = <<b>> \o recycled_requests

\* Mistake: the buffer is looked at after the response is in it.
must_set_output_watch_late(c) == FALSE

must_set_output_watch(c) == outgoing[c] = <<>>

\* GSK_LIST_REMOVE: the list without the node b, which is on it.
unlinked(list, b) == RemoveAt(list, CHOOSE i \in DOMAIN list : list[i] = b)

\* The response of a request whose connection is there: both closures end so.
queue_response(b, r) ==
  LET c == request[b].conn
  IN  /\ outgoing' = [outgoing EXCEPT ![c] = Append(@, r)]
      /\ watch' = IF must_set_output_watch(c)
                  THEN [watch EXCEPT ![c] = {READABLE, WRITABLE}] ELSE watch
      /\ pending' = [pending EXCEPT ![c] = unlinked(@, b)]
      /\ n_pending_requests' = [n_pending_requests EXCEPT ![c] = @ - 1]
      /\ free_server_request(b)
      /\ UNCHANGED <<connections, incoming, request, allocated, status>>
-----------------------------------------------------------------------------
(* handle_server_connection_events.                                        *)

\* Mistake: WRITABLE is given up after every write.
WatchAfterWrite_early(c, n) == [watch EXCEPT ![c] = {READABLE}]

\* Nothing left means nothing to watch WRITABLE for.
WatchAfterWrite(c, n) ==
  IF n = Len(outgoing[c]) THEN [watch EXCEPT ![c] = {READABLE}] ELSE watch

\* writev takes n responses.
Write(c, n) ==
  /\ outgoing' = [outgoing EXCEPT ![c] = SubSeq(@, n + 1, Len(@))]
  /\ watch' = WatchAfterWrite(c, n)
  /\ written' = [written EXCEPT ![c] = @ \o SubSeq(outgoing[c], 1, n)]
  /\ owed' = owed \ {outgoing[c][i].call : i \in 1 .. n}

\* The socket has something to read: it is moved to the buffer.
HandleReadable(c) ==
  /\ InLoop /\ c \in connections /\ READABLE \in watch[c]
  /\ \E n \in 1 .. Len(toServer[c]) :
       /\ incoming' = [incoming EXCEPT ![c] = @ \o SubSeq(toServer[c], 1, n)]
       /\ toServer' = [toServer EXCEPT ![c] = SubSeq(@, n + 1, Len(@))]
  /\ \E w \in BOOLEAN : (w => WRITABLE \in watch[c]) /\ frame' = LoopFrame(c, w)
  /\ UNCHANGED <<server, connections, outgoing, watch, requestVars, tasks, pipe,
                 lost, status, owed, clientVars, accepted, written>>

\* It is writable only.
HandleWritable(c, n) ==
  /\ InLoop /\ c \in connections /\ WRITABLE \in watch[c]
  /\ n \in 0 .. Len(outgoing[c])
  /\ Write(c, n)
  /\ UNCHANGED <<server, connections, incoming, requestVars, frame, tasks, pipe,
                 lost, status, clientVars, accepted, toServer>>

\* A read or a write fails, or everything was read and the client is gone; with
\* or without calls pending.
HandleGone(c) ==
  /\ InLoop /\ c \in connections /\ peer[c] = "closed"
  /\ Drop(c)
  /\ UNCHANGED <<server, tasks, pipe, lost, status, clientVars, accepted, written>>

\* One turn of the loop, up to the call of service->invoke.
ProcessRequest ==
  /\ Running /\ frame.kind = "loop" /\ incoming[frame.conn] # <<>>
  /\ LET c == frame.conn
         q == Head(incoming[c])
     IN  IF q.bad
         THEN Drop(c) /\ UNCHANGED tasks
         ELSE /\ incoming' = [incoming EXCEPT ![c] = Tail(@)]
              /\ create_server_request(c, q.id)
              /\ tasks' = tasks \cup {[request |-> NextRequest,
                                       call |-> [conn |-> c, number |-> q.id]]}
              /\ owed' = owed \cup {[conn |-> c, number |-> q.id]}
              /\ frame' = InvokeFrame(c, frame.writable)
              /\ UNCHANGED <<connections, outgoing, watch, toServer>>
  /\ UNCHANGED <<server, pipe, lost, status, clientVars, accepted, written>>

InvokeReturns ==
  /\ Running /\ frame.kind = "invoke"
  /\ frame' = LoopFrame(frame.conn, frame.writable)
  /\ UNCHANGED <<server, connVars, requestVars, tasks, pipe, lost, status,
                 owed, clientVars, accepted, toServer, written>>

\* No request is left; write if WRITABLE was reported as well.
LoopEnds ==
  /\ Running /\ frame.kind = "loop" /\ incoming[frame.conn] = <<>>
  /\ LET c == frame.conn
     IN  \/ /\ frame' = NoFrame
            /\ IF frame.writable /\ outgoing[c] # <<>>
               THEN \E n \in 0 .. Len(outgoing[c]) : Write(c, n)
               ELSE UNCHANGED <<outgoing, watch, written, owed>>
            /\ UNCHANGED <<connections, incoming, requestVars, toServer>>
         \/ /\ frame.writable /\ outgoing[c] # <<>> /\ peer[c] = "closed"
            /\ Drop(c)
            /\ UNCHANGED written
  /\ UNCHANGED <<server, tasks, pipe, lost, status, clientVars, accepted>>
-----------------------------------------------------------------------------
(* server_connection_response_closure.                                     *)

\* What comes of following the pointer to a request.
Touched(b) ==
  IF server = "destroyed" THEN "server_gone"
  ELSE IF b \notin allocated \/ b \in ToSet(recycled_requests) THEN "wild"
  ELSE IF request[b].conn \notin connections \cup {NoConn} THEN "wild"
  ELSE "ok"

ResponseOf(t) == [id |-> request[t.request].request_id, call |-> t.call]

Undefined(s) ==
  /\ status' = s
  /\ UNCHANGED <<connVars, requestVars>>

\* In the thread of the dispatch.  A defunct request is freed and then put on the
\* list of recycled ones.
RespondInThread(t) ==
  /\ InProgram /\ t \in tasks
  /\ tasks' = tasks \ {t}
  /\ IF Touched(t.request) # "ok" THEN Undefined(Touched(t.request))
     ELSE IF request[t.request].conn = NoConn THEN Undefined("late_answer")
     ELSE queue_response(t.request, ResponseOf(t))
  /\ UNCHANGED <<server, frame, pipe, lost, owed, clientVars, accepted, toServer,
                 written>>

\* In another thread: the response goes into the pipe, whose end blocks while it
\* is full, or the write fails and the response is dropped.  What the thread
\* reads of the request no other thread changes meanwhile.
RespondInOtherThread(t) ==
  /\ Running /\ Threaded /\ t \in tasks
  /\ tasks' = tasks \ {t}
  /\ IF Touched(t.request) # "ok"
     THEN status' = Touched(t.request) /\ UNCHANGED <<pipe, lost, owed>>
     ELSE /\ \/ /\ Len(pipe) < MaxPipe
                /\ pipe' = Append(pipe, [request |-> t.request,
                                         response |-> ResponseOf(t)])
                /\ UNCHANGED <<lost, owed>>
             \/ /\ lost' = lost \cup {t.request}
                /\ owed' = owed \ {t.call}
                /\ UNCHANGED pipe
          /\ UNCHANGED status
  /\ UNCHANGED <<server, connVars, requestVars, frame, clientVars, accepted,
                 toServer, written>>
-----------------------------------------------------------------------------
(* handle_proxy_pipe_readable.  The watch on the pipe outlives the server.  *)

ReadPipe ==
  /\ InLoop /\ pipe # <<>>
  /\ IF server = "destroyed"
     THEN status' = "server_gone" /\ UNCHANGED <<frame, pipe>>
     ELSE /\ frame' = DrainFrame(pipe)
          /\ pipe' = <<>>
          /\ UNCHANGED status
  /\ UNCHANGED <<server, connVars, requestVars, tasks, lost, owed, clientVars, accepted,
                 toServer, written>>

\* Mistake: a defunct request is recycled as well as freed.
forget_and_recycle(b) ==
  /\ allocated' = allocated \ {b}
  /\ free_server_request(b)
  /\ UNCHANGED <<connVars, pending, n_pending_requests, request, status>>

\* The connection is gone: the request is freed.
free_defunct(b) ==
  /\ allocated' = allocated \ {b}
  /\ UNCHANGED <<connVars, pending, n_pending_requests, request,
                 recycled_requests, status>>

ForwardResponse ==
  /\ Running /\ frame.kind = "drain"
  /\ LET p == Head(frame.responses)
         b == p.request
     IN  IF Touched(b) # "ok" THEN Undefined(Touched(b))
         ELSE IF request[b].conn = NoConn THEN free_defunct(b)
         ELSE queue_response(b, p.response)
  /\ frame' = IF Len(frame.responses) = 1 THEN NoFrame
              ELSE DrainFrame(Tail(frame.responses))
  /\ UNCHANGED <<server, tasks, pipe, lost, owed, clientVars, accepted, toServer,
                 written>>

\* Close every connection, then free the recycled requests.
destroy_server ==
  /\ close_connections(connections)
  /\ allocated' = allocated \ ToSet(recycled_requests)

\* protobuf_c_rpc_server_destroy, not from within the service.
Destroy ==
  /\ InLoop /\ server = "running"
  /\ server' = "destroyed"
  /\ destroy_server
  /\ toServer' = [c \in Conns |-> <<>>]
  /\ UNCHANGED <<frame, tasks, pipe, lost, status, clientVars, accepted, written>>
-----------------------------------------------------------------------------
(* The clients.  External.                                                 *)

Connect(c) ==
  /\ peer[c] = "none" /\ server = "running"
  /\ peer' = [peer EXCEPT ![c] = "open"]
  /\ UNCHANGED <<server, connVars, requestVars, frame, tasks, pipe, lost, status, owed,
                 sent, accepted, toServer, written>>

Send(c, bad) ==
  /\ peer[c] = "open" /\ sent < MaxRequests
  /\ c \in accepted => c \in connections
  /\ sent' = sent + 1
  /\ toServer' = [toServer EXCEPT ![c] = Append(@, [id |-> sent + 1, bad |-> bad])]
  /\ UNCHANGED <<server, connVars, requestVars, frame, tasks, pipe, lost, status, owed,
                 peer, accepted, written>>

HangUp(c) ==
  /\ peer[c] = "open"
  /\ peer' = [peer EXCEPT ![c] = "closed"]
  /\ UNCHANGED <<server, connVars, requestVars, frame, tasks, pipe, lost, status, owed,
                 sent, accepted, toServer, written>>

Terminated ==
  /\ status # "ok" \/ (server = "destroyed" /\ tasks = {} /\ pipe = <<>>)
  /\ UNCHANGED vars

Clients == Running /\ \E c \in Conns :
  Connect(c) \/ HangUp(c) \/ \E bad \in BOOLEAN : Send(c, bad)

Handlers(c) == Accept(c) \/ HandleReadable(c) \/ HandleGone(c)
Progress == ProcessRequest \/ InvokeReturns \/ LoopEnds \/ ReadPipe \/ ForwardResponse
Respond(t) == RespondInThread(t) \/ RespondInOtherThread(t)

Next ==
  \/ \E c \in Conns : Handlers(c) \/ \E n \in 0 .. MaxRequests : HandleWritable(c, n)
  \/ Progress
  \/ \E t \in tasks : Respond(t)
  \/ Destroy \/ Clients \/ Terminated

Spec == Init /\ [][Next]_vars

\* The main loop goes on, with a client that stays taking what it is sent, and so
\* does the service.  Nobody is treated fairly in particular: clients send a
\* bounded number of requests, so each gets its turn.
RpcThread ==
  \/ Progress
  \/ \E c \in Conns : Handlers(c) \/ \E n \in 1 .. MaxRequests : HandleWritable(c, n)
FairSpec == Spec /\ WF_vars(RpcThread) /\ WF_vars(\E t \in tasks : Respond(t))
-----------------------------------------------------------------------------
\* The requests that somebody will still answer: the service, another thread
\* through the pipe, or the handler that has read the pipe.
Held ==
  {t.request : t \in tasks} \cup {p.request : p \in ToSet(pipe)}
    \cup (IF frame.kind = "drain" THEN {p.request : p \in ToSet(frame.responses)}
          ELSE {})

\* No pointer to a request or to its connection is followed after it was freed
\* or given to another request, whatever threads and clients do, unless the
\* program answers in the dispatch's thread after the connection has gone
\* ("late_answer") or destroys the server with requests unanswered.
NoWildAccess == status # "wild"

\* A request structure is in one place: recycled, on the list of its own
\* connection, or defunct; and every one that is not recycled will be answered,
\* or its response was lost on the way to the pipe.
RequestsAccountedFor ==
  Running /\ server = "running" =>
    /\ ToSet(recycled_requests) \cap (Held \cup lost) = {}
    /\ Cardinality(ToSet(recycled_requests)) = Len(recycled_requests)
    /\ allocated = ToSet(recycled_requests) \cup Held \cup lost
    /\ \A c \in Conns :
         /\ n_pending_requests[c] = Len(pending[c])
         /\ ToSet(pending[c]) = {b \in Held \cup lost : request[b].conn = c}

\* A response goes to the connection its request came from, with that request's
\* id, and no request gets two, although structures are recycled and answers
\* come in any order and from any thread.
OwnAnswerOnce ==
  \A c \in Conns :
    LET all == written[c] \o outgoing[c]
    IN  \A i \in 1 .. Len(all) :
          /\ all[i].call = [conn |-> c, number |-> all[i].id]
          /\ \A j \in 1 .. i - 1 : all[j].id # all[i].id

\* WRITABLE is watched exactly while there is something to write: one missed
\* update and a response is never sent, or the loop spins.
WatchFitsOutgoing ==
  \A c \in connections :
    watch[c] = IF outgoing[c] = <<>> THEN {READABLE} ELSE {READABLE, WRITABLE}

\* A server destroyed when every request has been answered leaves no request
\* allocated, except those whose response was lost.
NothingLeaks ==
  Running /\ server = "destroyed" /\ Held = {} => allocated = lost

\* The memory of the requests, until and after the server is destroyed: each
\* structure has one owner and is freed in the end; the variables keep their
\* types.
RequestsSound == TypeOK /\ RequestsAccountedFor /\ NothingLeaks

\* Whatever the service was given is answered on the wire, however threads,
\* recycling and partial writes interleave, unless the connection goes away, the
\* answer is lost on the way to the pipe, or the program misuses the server.
EventuallyAnswered == owed # {} ~> owed = {} \/ ~Running
=============================================================================
