----------------------------- MODULE ZmqHandler -----------------------------
(***************************************************************************)
(* The nginx module of the ZeroMQ benchmark                                *)
(* (benchmarks/nginx-zmq/ngx_http_zmq_module) in front of a worker         *)
(* (dealer-hw.cc, behind its router):                                      *)
(*                                                                         *)
(*   nginx processes: handler -- inbox -->  worker                         *)
(*                    pool    <-- replies --                               *)
(*                                                                         *)
(* A process of nginx handles one request after the other: the handler     *)
(* blocks, in two loops that poll a socket until it succeeds, fails or the *)
(* time of the request is over.  It takes its socket from the pool of its  *)
(* process and puts it back, or closes it.  A connection is named by the   *)
(* request for which it was made.                                          *)
(*                                                                         *)
(* External: libzmq, of which a REQ socket sends when it is ready and then *)
(* receives one reply; nginx, which starts a new process for one that      *)
(* died; supervisord, which does so for the worker.                        *)
(***************************************************************************)
EXTENDS Naturals, FiniteSets

CONSTANTS
  Procs,              \* processes of nginx (16 in nginx.conf)
  Requests,           \* HTTP requests; each comes once
  Sizes,              \* their content_length_n
  MAX_PAYLOAD_SIZE,   \* bytes of the buffer of the worker
  SocketTypes,        \* of zmq_socktype: REQ, PUSH or PUB
  TimeoutFinite,      \* whether zmq_timeout is set: without it, UINT_MAX ms
  NULL,               \* the pointer
  WILD                \* any other pointer that points to no connection

ASSUME ZmqAssumption ==
  /\ Sizes \subseteq Nat /\ MAX_PAYLOAD_SIZE \in Nat
  /\ SocketTypes \subseteq {"REQ", "PUSH", "PUB"}
  /\ TimeoutFinite \in BOOLEAN
  /\ NULL \notin Requests \cup Procs /\ WILD \notin Requests \cup {NULL}

VARIABLES
  stype, content_length,          \* the configuration; the requests
  pool,               \* per process: m_front, m_back
  conns,              \* per connection: its process (NULL: not allocated), m_next, m_sock
  handler,            \* per process: the loop it is in, request, con, time over or not
  inbox,              \* messages on their way to the worker, or queued there
  worker,             \* the set of the message it works on, if any
  replies,            \* replies on their way to a socket, or received by it
  answer              \* per request: its status, and the request replied to

vars == <<stype, content_length, pool, conns, handler, inbox, worker, replies, answer>>

Pointers == Requests \cup {NULL, WILD}
Message  == [con : Requests, req : Requests]
Free     == [owner |-> NULL, m_next |-> NULL, m_sock |-> "none"]
Idle     == [at |-> "idle", req |-> NULL, con |-> NULL, late |-> FALSE]
NoPool   == [m_front |-> NULL, m_back |-> NULL]

Init ==
  /\ stype \in SocketTypes
  /\ content_length \in [Requests -> Sizes]
  /\ pool = [p \in Procs |-> NoPool]
  /\ conns = [c \in Requests |-> Free]
  /\ handler = [p \in Procs |-> Idle]
  /\ inbox = {} /\ worker = {} /\ replies = {}
  /\ answer = [r \in Requests |-> [status |-> "new", to |-> NULL]]

-----------------------------------------------------------------------------
(***************************************************************************)
(* conn_pool.c                                                             *)
(***************************************************************************)

\* A connection of malloc: m_next is whatever was there, and zmq_socket may
\* have returned NULL.
init_conn(p, c) ==
  /\ \E m_next \in {NULL, WILD}, m_sock \in {"none", "ready"} :
       conns' = [conns EXCEPT ![c] = [owner |-> p, m_next |-> m_next, m_sock |-> m_sock]]
  /\ UNCHANGED pool

\* The pool without its first connection.
\* Mutant: the end of the pool is not looked at.
PoolRestKeepsBack(p) == [pool[p] EXCEPT !.m_front = conns[pool[p].m_front].m_next]
PoolRest(p) ==
  [m_front |-> conns[pool[p].m_front].m_next,
   m_back  |-> IF pool[p].m_front = pool[p].m_back THEN NULL ELSE pool[p].m_back]

\* The connection c, whose socket is left in this state, goes to the pool.
rel_conn(p, c, m_sock) ==
  LET back == pool[p].m_back IN
    IF back # NULL
    THEN /\ pool' = [pool EXCEPT ![p].m_back = c]
         /\ conns' = [conns EXCEPT ![c].m_sock = m_sock, ![back].m_next = c]
    ELSE /\ pool' = [pool EXCEPT ![p] = [m_front |-> c, m_back |-> c]]
         /\ conns' = [conns EXCEPT ![c].m_sock = m_sock]

\* The sockets of these connections are closed: what they have received is
\* gone, and what they have not sent may be (a linger of zero).
Close(cs) ==
  /\ replies' = {m \in replies : m.con \notin cs}
  /\ inbox' \in {inbox, {m \in inbox : m.con \notin cs}}

\* Mutant: the connection is kept.
free_conn_kept(c) == UNCHANGED <<conns, inbox, replies>>
free_conn(c) ==
  /\ conns' = [conns EXCEPT ![c] = Free]
  /\ Close({c})

-----------------------------------------------------------------------------
(***************************************************************************)
(* ngx_http_zmq_handler                                                    *)
(***************************************************************************)

\* The request of the process ends with this status, and with the reply to this
\* request if it is not NULL.
Finish(p, status, to) ==
  /\ handler' = [handler EXCEPT ![p] = Idle]
  /\ answer' = [answer EXCEPT ![handler[p].req] = [status |-> status, to |-> to]]

Comes(p, r) == handler[p].at = "idle" /\ answer[r].status = "new"

BadRequest(p, r) ==
  /\ Comes(p, r)
  /\ content_length[r] = 0
  /\ answer' = [answer EXCEPT ![r].status = "400"]
  /\ UNCHANGED <<stype, content_length, pool, conns, handler, inbox, worker, replies>>

Enter(p, r, c) ==
  /\ handler' = [handler EXCEPT ![p] = [at |-> "send", req |-> r, con |-> c, late |-> FALSE]]
  /\ answer' = [answer EXCEPT ![r].status = "asked"]
  /\ UNCHANGED <<stype, content_length, inbox, worker, replies>>

GetNewConn(p, r) ==
  /\ Comes(p, r) /\ content_length[r] > 0
  /\ pool[p].m_front = NULL
  /\ init_conn(p, r)
  /\ Enter(p, r, r)

GetPooledConn(p, r) ==
  /\ Comes(p, r) /\ content_length[r] > 0
  /\ pool[p].m_front \in Requests
  /\ pool' = [pool EXCEPT ![p] = PoolRest(p)]
  /\ UNCHANGED conns
  /\ Enter(p, r, pool[p].m_front)

\* m_front->m_next is read where there is no connection: the process dies, and
\* its sockets with it.
GetWildConn(p, r) ==
  /\ Comes(p, r) /\ content_length[r] > 0
  /\ pool[p].m_front = WILD
  /\ handler' = [handler EXCEPT ![p].at = "dead"]
  /\ answer' = [answer EXCEPT ![r].status = "dropped"]
  /\ LET own == {c \in Requests : conns[c].owner = p} IN
       /\ conns' = [c \in Requests |-> IF c \in own THEN Free ELSE conns[c]]
       /\ Close(own)
  /\ UNCHANGED <<stype, content_length, pool, worker>>

Sock(p) == conns[handler[p].con].m_sock

\* A request socket: the handler goes on to wait for the reply.
SendRequest(p) ==
  /\ handler[p].at = "send" /\ Sock(p) = "ready" /\ stype = "REQ"
  /\ handler' = [handler EXCEPT ![p].at = "recv"]
  /\ conns' = [conns EXCEPT ![handler[p].con].m_sock = "awaiting"]
  /\ inbox' = inbox \cup {[con |-> handler[p].con, req |-> handler[p].req]}
  /\ UNCHANGED <<stype, content_length, pool, worker, replies, answer>>

\* Any other socket: there is no reply to wait for.
SendOneWay(p) ==
  /\ handler[p].at = "send" /\ Sock(p) = "ready" /\ stype # "REQ"
  /\ rel_conn(p, handler[p].con, "ready")
  /\ Finish(p, "200", NULL)
  /\ UNCHANGED <<stype, content_length, inbox, worker, replies>>

\* Any error but EAGAIN: no socket, a socket that awaits a reply, or a failure
\* of libzmq.
SendFails(p) ==
  /\ handler[p].at = "send"
  /\ free_conn(handler[p].con)
  /\ Finish(p, "502", NULL)
  /\ UNCHANGED <<stype, content_length, pool, worker>>

SendTimesOut(p) ==
  /\ handler[p].at = "send" /\ Sock(p) = "ready"
  /\ handler[p].late
  /\ free_conn(handler[p].con)
  /\ Finish(p, "504", NULL)
  /\ UNCHANGED <<stype, content_length, pool, worker>>

\* A reply that is there is taken, late or not.
Receive(p) ==
  /\ handler[p].at = "recv"
  /\ \E m \in replies :
       /\ m.con = handler[p].con
       /\ replies' = replies \ {m}
       /\ Finish(p, "200", m.req)
  /\ rel_conn(p, handler[p].con, "ready")
  /\ UNCHANGED <<stype, content_length, inbox, worker>>

ReceiveFails(p) ==
  /\ handler[p].at = "recv"
  /\ free_conn(handler[p].con)
  /\ Finish(p, "502", NULL)
  /\ UNCHANGED <<stype, content_length, pool, worker>>

\* The time is over for the loop the process is in.
\* Mutant: the loop that receives does not look at the clock.
TimeIsOverSending(p) == handler[p].late /\ handler[p].at = "send"
TimeIsOver(p) == handler[p].late

\* Mutant: the connection goes back to the pool.
ReceiveTimesOutPools(p) ==
  /\ handler[p].at = "recv" /\ TimeIsOver(p)
  /\ \A m \in replies : m.con # handler[p].con
  /\ rel_conn(p, handler[p].con, "awaiting")
  /\ Finish(p, "504", NULL)
  /\ UNCHANGED <<stype, content_length, inbox, replies, worker>>

ReceiveTimesOut(p) ==
  /\ handler[p].at = "recv" /\ TimeIsOver(p)
  /\ \A m \in replies : m.con # handler[p].con
  /\ free_conn(handler[p].con)
  /\ Finish(p, "504", NULL)
  /\ UNCHANGED <<stype, content_length, pool, worker>>

Handle(p) ==
  \/ SendRequest(p) \/ SendOneWay(p) \/ SendFails(p) \/ SendTimesOut(p)
  \/ Receive(p) \/ ReceiveFails(p) \/ ReceiveTimesOut(p)

\* Both loops measure from the start of the request.
Expire(p) ==
  /\ TimeoutFinite
  /\ handler[p].at \in {"send", "recv"} /\ ~handler[p].late
  /\ handler' = [handler EXCEPT ![p].late = TRUE]
  /\ UNCHANGED <<stype, content_length, pool, conns, inbox, worker, replies, answer>>

Respawn(p) ==
  /\ handler[p].at = "dead"
  /\ handler' = [handler EXCEPT ![p] = Idle]
  /\ pool' = [pool EXCEPT ![p] = NoPool]
  /\ UNCHANGED <<stype, content_length, conns, inbox, worker, replies, answer>>

-----------------------------------------------------------------------------
(***************************************************************************)
(* The worker: server of dealer-hw.cc                                      *)
(***************************************************************************)

\* Mutant: the next message is taken before the reply to this one is sent.
WorkerTakesMore ==
  /\ \E m \in inbox : worker' = worker \cup {m} /\ inbox' = inbox \ {m}
  /\ UNCHANGED <<stype, content_length, pool, conns, handler, replies, answer>>

WorkerTake ==
  /\ worker = {}
  /\ \E m \in inbox : worker' = {m} /\ inbox' = inbox \ {m}
  /\ UNCHANGED <<stype, content_length, pool, conns, handler, replies, answer>>

\* The request is copied to the buffer, whatever its size; what it overwrites
\* beyond may or may not bring the worker down (WorkerDies).  The reply goes
\* back to sender_id; if that socket is gone the router drops it.
\* Mutant: it goes to whoever waits.
ReplyToAny(m) ==
  {[con |-> c, req |-> m.req] : c \in {d \in Requests : conns[d].m_sock = "awaiting"}}
ReplyTo(m) == IF conns[m.con].owner = NULL THEN {} ELSE {m}

WorkerReply ==
  /\ \E m \in worker : replies' = replies \cup ReplyTo(m)
  /\ worker' = {}
  /\ UNCHANGED <<stype, content_length, pool, conns, handler, inbox, answer>>

\* What the process of the worker held is lost, and what was under way may be.
WorkerDies ==
  /\ \E m \in worker : content_length[m.req] > MAX_PAYLOAD_SIZE
  /\ worker' = {}
  /\ inbox' \in SUBSET inbox
  /\ replies' \in SUBSET replies
  /\ UNCHANGED <<stype, content_length, pool, conns, handler, answer>>

-----------------------------------------------------------------------------
\* Every request has come and ended.
Done ==
  /\ \A r \in Requests : answer[r].status \notin {"new", "asked"}
  /\ UNCHANGED vars

Next ==
  \/ \E p \in Procs, r \in Requests :
       BadRequest(p, r) \/ GetNewConn(p, r) \/ GetPooledConn(p, r) \/ GetWildConn(p, r)
  \/ \E p \in Procs : Handle(p) \/ Expire(p) \/ Respawn(p)
  \/ WorkerTake \/ WorkerReply \/ WorkerDies
  \/ Done

Spec == Init /\ [][Next]_vars

\* A process runs, and so does its clock; nothing is asked of the worker, and
\* no failure of libzmq comes to the rescue: only a socket that cannot send is
\* bound to fail.
Proceed(p) ==
  \/ SendRequest(p) \/ SendOneWay(p) \/ SendTimesOut(p) \/ Receive(p) \/ ReceiveTimesOut(p)
  \/ SendFails(p) /\ Sock(p) # "ready"

FairSpec == Spec /\ \A p \in Procs : WF_vars(Proceed(p)) /\ WF_vars(Expire(p))

-----------------------------------------------------------------------------
(***************************************************************************)
(* Properties                                                              *)
(***************************************************************************)

Statuses == {"new", "asked", "200", "400", "502", "504", "dropped"}

\* Pools, connections, handlers, messages and answers hold values of their
\* types, and the worker one message at most.
TypeOK ==
  /\ stype \in SocketTypes /\ content_length \in [Requests -> Sizes]
  /\ pool \in [Procs -> [m_front : Pointers, m_back : Pointers]]
  /\ conns \in [Requests -> [owner : Procs \cup {NULL}, m_next : Pointers,
                             m_sock : {"none", "ready", "awaiting"}]]
  /\ handler \in [Procs -> [at : {"idle", "send", "recv", "dead"},
                            req : Requests \cup {NULL}, con : Requests \cup {NULL}, late : BOOLEAN]]
  /\ inbox \subseteq Message /\ replies \subseteq Message /\ worker \subseteq Message
  /\ \A m, n \in worker : m = n
  /\ answer \in [Requests -> [status : Statuses, to : Requests \cup {NULL}]]

InFlight == inbox \cup worker \cup replies

\* A connection of the pool can be used for the next request as if it were new:
\* it is open, its socket may send, and nothing an earlier request sent, or
\* timed out on, is still under way to it.
PooledReady ==
  \A p \in Procs :
    LET c == pool[p].m_front IN
      c \in Requests =>
        /\ conns[c].owner = p /\ conns[c].m_sock = "ready"
        /\ \A m \in InFlight : m.con # c

\* No connection is lost, none is shared: each one that is allocated is in the
\* hands of the handler of its process or in its pool, and not in both, whatever
\* failed, timed out or died before.
HeldOrPooled ==
  \A c \in Requests, p \in Procs :
    conns[c].owner = p => ((handler[p].con = c) # (pool[p].m_front = c))

\* Where the handler answers with a reply, it is the reply to its own request,
\* although connections are used again, replies come late and the worker serves
\* all processes through one socket.
ReplyIsOwn ==
  \A r \in Requests : answer[r].to # NULL => answer[r].to = r

\* What a process serves, and the connections its pool points to.
Serving == [p \in Procs |-> [req |-> handler[p].req, con |-> handler[p].con]]
Waiting == [p \in Procs |-> {pool[p].m_front, pool[p].m_back} \cap Requests]

Service == INSTANCE PooledService WITH serving <- Serving, idle <- Waiting

\* The pools, the loops and the clock implement the service that PooledService
\* describes: a request is answered once and by one process, a connection that
\* failed or timed out is never used again, and one that did not is used before
\* a new one is made.
RefinesService == Service!SSpec

\* A request that gets a connection comes to its end, however late or dead the
\* worker is: the time that is over ends both loops.
EveryRequestEnds ==
  \A r \in Requests : answer[r].status = "asked" ~> answer[r].status # "asked"

\* get_conn returns a connection, from the pool or a new one: it never follows
\* a pointer that nobody has set.
NoProcessDies == \A p \in Procs : handler[p].at # "dead"
=============================================================================
