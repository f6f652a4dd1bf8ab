-------------------------- MODULE ZmqHandlerProofs --------------------------
(***************************************************************************)
(* Theorems about ZmqHandler, for every set of processes and requests,     *)
(* every content length, buffer size and kind of socket, with or without a *)
(* timeout.                                                                *)
(***************************************************************************)
EXTENDS ZmqHandler, TLAPS

Active == {"send", "recv"}

\* A process in a loop works on a request of its own with a connection of its
\* own, and its pool holds no other; any other process has neither.
HandlerInv ==
  \A p \in Procs :
    IF handler[p].at \in Active
    THEN /\ handler[p].req \in Requests /\ handler[p].con \in Requests
         /\ conns[handler[p].con].owner = p
         /\ pool[p].m_front \notin Requests
    ELSE handler[p].req = NULL /\ handler[p].con = NULL

\* A pool holds one connection at most, since a process has one at most: the
\* front is also the back, open and ready, and its process is not dead.  What
\* else the front may be was never in m_back.
PoolInv ==
  \A p \in Procs :
    IF pool[p].m_front \in Requests
    THEN /\ pool[p].m_back = pool[p].m_front
         /\ conns[pool[p].m_front].owner = p /\ conns[pool[p].m_front].m_sock = "ready"
         /\ handler[p].at = "idle"
    ELSE pool[p].m_back = NULL

\* A connection that is allocated is in one of these two places, its m_next is
\* still what malloc left there, and the request it was made for has come.
OwnerInv ==
  \A c \in Requests :
    /\ conns[c].m_next \notin Requests
    /\ conns[c].owner # NULL => answer[c].status # "new"
    /\ \A p \in Procs : conns[c].owner = p => handler[p].con = c \/ pool[p].m_front = c

\* A message is in one place.  Its connection was made for a request that has
\* come, and if it is still allocated, its process waits for the reply to this
\* very message.
MessageInv ==
  /\ inbox \cap worker = {} /\ inbox \cap replies = {} /\ worker \cap replies = {}
  /\ \A m \in InFlight :
       /\ answer[m.con].status # "new"
       /\ \A p \in Procs :
            conns[m.con].owner = p => handler[p].at = "recv" /\ handler[p].con = m.con
                                      /\ handler[p].req = m.req

IInv == TypeOK /\ HandlerInv /\ PoolInv /\ OwnerInv /\ MessageInv /\ ReplyIsOwn

-----------------------------------------------------------------------------
(***************************************************************************)
(* Type correctness                                                        *)
(***************************************************************************)

Conn   == [owner : Procs \cup {NULL}, m_next : Pointers, m_sock : {"none", "ready", "awaiting"}]
Work   == [at : {"idle", "send", "recv", "dead"},
           req : Requests \cup {NULL}, con : Requests \cup {NULL}, late : BOOLEAN]
Pool   == [m_front : Pointers, m_back : Pointers]
Answer == [status : Statuses, to : Requests \cup {NULL}]

\* TypeOK, with the sets of its records named.
LEMMA Typed ==
  TypeOK <=> /\ stype \in SocketTypes /\ content_length \in [Requests -> Sizes]
             /\ pool \in [Procs -> Pool] /\ conns \in [Requests -> Conn]
             /\ handler \in [Procs -> Work] /\ answer \in [Requests -> Answer]
             /\ inbox \subseteq Message /\ replies \subseteq Message /\ worker \subseteq Message
             /\ \A m, n \in worker : m = n
BY DEF TypeOK, Conn, Work, Pool, Answer

\* The pools are empty and every worker is idle at the start.
LEMMA TypeInit == Init => TypeOK
BY ZmqAssumption DEF Init, TypeOK, NoPool, Free, Idle, Pointers, Statuses

\* What is left when connections are closed is part of what was there.
LEMMA CloseShrinks ==
  ASSUME NEW cs, Close(cs) PROVE inbox' \subseteq inbox /\ replies' \subseteq replies
BY DEF Close

\* A connection that is allocated, freed or put back keeps the types.
LEMMA InitConnType ==
  ASSUME TypeOK, NEW p \in Procs, NEW c \in Requests, init_conn(p, c)
  PROVE  conns' \in [Requests -> Conn] /\ pool' \in [Procs -> Pool]
<1>1. PICK m_next \in {NULL, WILD}, m_sock \in {"none", "ready"} :
        conns' = [conns EXCEPT ![c] = [owner |-> p, m_next |-> m_next, m_sock |-> m_sock]]
  BY DEF init_conn
<1>2. [owner |-> p, m_next |-> m_next, m_sock |-> m_sock] \in Conn
  BY DEF Conn, Pointers
<1> QED BY <1>1, <1>2, Typed DEF init_conn

\* free_conn keeps the types ...
LEMMA FreeConnType ==
  ASSUME TypeOK, NEW c \in Requests, free_conn(c)
  PROVE  conns' \in [Requests -> Conn] /\ inbox' \subseteq inbox /\ replies' \subseteq replies
<1>1. Free \in Conn
  BY DEF Free, Conn, Pointers
<1> QED BY <1>1, Typed, CloseShrinks DEF free_conn

\* ... and so does the end of a request.
LEMMA FinishType ==
  ASSUME TypeOK, NEW p \in Procs, NEW status \in Statuses, NEW to \in Requests \cup {NULL},
         handler[p].req \in Requests, Finish(p, status, to)
  PROVE  handler' \in [Procs -> Work] /\ answer' \in [Requests -> Answer]
<1>1. Idle \in Work
  BY DEF Idle, Work
<1>2. [status |-> status, to |-> to] \in Answer
  BY DEF Answer
<1> QED BY <1>1, <1>2, Typed DEF Finish

\* A connection that goes to a pool that is empty, as it always is, becomes its
\* only one.
LEMMA RelConn ==
  ASSUME TypeOK, PoolInv, NEW p \in Procs, NEW c \in Requests, pool[p].m_front \notin Requests,
         rel_conn(p, c, "ready")
  PROVE  /\ pool' = [pool EXCEPT ![p] = [m_front |-> c, m_back |-> c]]
         /\ conns' = [conns EXCEPT ![c].m_sock = "ready"]
         /\ pool' \in [Procs -> Pool] /\ conns' \in [Requests -> Conn]
<1>1. pool[p].m_back = NULL
  BY DEF PoolInv
<1>2. /\ pool' = [pool EXCEPT ![p] = [m_front |-> c, m_back |-> c]]
      /\ conns' = [conns EXCEPT ![c].m_sock = "ready"]
  BY <1>1 DEF rel_conn
<1>3. [m_front |-> c, m_back |-> c] \in Pool
  BY DEF Pool, Pointers
<1>4. [conns[c] EXCEPT !.m_sock = "ready"] \in Conn
  BY Typed DEF Conn
<1> QED BY <1>2, <1>3, <1>4, Typed

-----------------------------------------------------------------------------
(***************************************************************************)
(* The invariant: the handler                                              *)
(***************************************************************************)

\* No connection is owned, no message under way.
LEMMA InvInit == Init => IInv
<1> SUFFICES ASSUME Init PROVE IInv
  OBVIOUS
<1>1. HandlerInv /\ PoolInv
  BY ZmqAssumption DEF Init, HandlerInv, PoolInv, Active, Idle, NoPool
<1>2. OwnerInv /\ MessageInv /\ ReplyIsOwn
  BY ZmqAssumption DEF Init, OwnerInv, MessageInv, InFlight, ReplyIsOwn, Free
<1> QED BY <1>1, <1>2, TypeInit DEF IInv

\* A request that is refused at once touches no connection.
LEMMA BadRequestInv ==
  ASSUME IInv, NEW p \in Procs, NEW r \in Requests, BadRequest(p, r) PROVE IInv'
<1> USE DEF IInv, BadRequest
<1>1. TypeOK'
  <2>1. [answer[r] EXCEPT !.status = "400"] \in Answer
    BY Typed DEF Answer, Statuses
  <2>2. answer' \in [Requests -> Answer]
    BY <2>1, Typed
  <2> QED BY <2>2 DEF TypeOK, Answer
<1>2. HandlerInv' /\ PoolInv'
  BY DEF HandlerInv, PoolInv
<1>3. \A q \in Requests : answer'[q].to = answer[q].to /\ (answer[q].status # "new" => answer'[q].status # "new")
  BY DEF TypeOK
<1>4. ReplyIsOwn'
  BY <1>3 DEF ReplyIsOwn
<1>5. OwnerInv'
  BY <1>3 DEF OwnerInv
<1>6. MessageInv'
  BY <1>3, Typed DEF MessageInv, InFlight, Message
<1> QED BY <1>1, <1>2, <1>4, <1>5, <1>6

\* The request r begins with the connection c, which nobody else has, to which
\* nothing is under way, and which the pool does not hold any more.
LEMMA EnterInv ==
  ASSUME IInv, NEW p \in Procs, NEW r \in Requests, NEW c \in Requests,
         Comes(p, r), Enter(p, r, c),
         conns' \in [Requests -> Conn], pool' \in [Procs -> Pool],
         conns'[c].owner = p, conns'[c].m_next \notin Requests, c = r \/ conns[c].owner = p,
         \A d \in Requests \ {c} : conns'[d] = conns[d],
         \A m \in InFlight : m.con # c,
         pool'[p].m_front \notin Requests, pool'[p].m_back = NULL,
         pool[p].m_front \in Requests => pool[p].m_front = c,
         \A q \in Procs \ {p} : pool'[q] = pool[q] /\ conns[c].owner # q
  PROVE  IInv'
<1> USE DEF IInv, Comes, Enter
<1>1. [at |-> "send", req |-> r, con |-> c, late |-> FALSE] \in Work
  BY DEF Work
<1>2. [answer[r] EXCEPT !.status = "asked"] \in Answer
  BY Typed DEF Answer, Statuses
<1>3. handler' \in [Procs -> Work] /\ answer' \in [Requests -> Answer]
  BY <1>1, <1>2, Typed
<1>4. TypeOK'
  BY <1>3, Typed DEF TypeOK, Work, Answer, Conn, Pool
<1>5. /\ handler'[p] = [at |-> "send", req |-> r, con |-> c, late |-> FALSE]
      /\ \A q \in Procs \ {p} : handler'[q] = handler[q]
  BY DEF TypeOK
<1>6. \A q \in Requests : answer'[q].to = answer[q].to /\ (answer[q].status # "new" => answer'[q].status # "new")
  BY Typed DEF Answer
<1>7. answer'[r].status = "asked"
  BY Typed DEF Answer
<1>8. HandlerInv'
  <2> SUFFICES ASSUME NEW q \in Procs PROVE HandlerInv!(q)'
    BY DEF HandlerInv
  <2> QED BY <1>5, ZmqAssumption DEF HandlerInv, Active
<1>9. PoolInv'
  BY <1>5 DEF PoolInv, Active
<1>10. OwnerInv'
  BY <1>5, <1>6, <1>7, ZmqAssumption DEF OwnerInv, HandlerInv, Active
<1>11. MessageInv'
  BY <1>5, <1>6, Typed, ZmqAssumption DEF MessageInv, InFlight, Message, HandlerInv, Active
<1>12. ReplyIsOwn'
  BY <1>6 DEF ReplyIsOwn
<1> QED BY <1>4, <1>8, <1>9, <1>10, <1>11, <1>12

\* A request that comes gets a new connection ...
LEMMA GetNewConnInv ==
  ASSUME IInv, NEW p \in Procs, NEW r \in Requests, GetNewConn(p, r) PROVE IInv'
<1> USE DEF IInv, GetNewConn
<1>1. conns' \in [Requests -> Conn] /\ pool' \in [Procs -> Pool]
  BY InitConnType
<1>2. /\ conns'[r].owner = p /\ conns'[r].m_next \notin Requests
      /\ \A d \in Requests \ {r} : conns'[d] = conns[d]
  BY ZmqAssumption, Typed DEF init_conn
<1>3. \A q \in Procs : conns[r].owner # q
  BY ZmqAssumption DEF OwnerInv, Comes
<1>4. \A m \in InFlight : m.con # r
  BY DEF MessageInv, Comes
<1>5. pool' = pool /\ pool[p].m_front \notin Requests /\ pool[p].m_back = NULL
  BY ZmqAssumption DEF init_conn, PoolInv
<1> QED BY <1>1, <1>2, <1>3, <1>4, <1>5, EnterInv

\* ... or the only one of the pool.
LEMMA GetPooledConnInv ==
  ASSUME IInv, NEW p \in Procs, NEW r \in Requests, GetPooledConn(p, r) PROVE IInv'
<1> USE DEF IInv, GetPooledConn
<1> DEFINE c == pool[p].m_front
<1>1. /\ c \in Requests /\ pool[p].m_back = c /\ conns[c].owner = p
      /\ handler[p].at = "idle" /\ conns[c].m_next \notin Requests /\ conns[c].m_next \in Pointers
  BY Typed DEF PoolInv, OwnerInv, Conn
<1>2. PoolRest(p) = [m_front |-> conns[c].m_next, m_back |-> NULL]
  BY <1>1 DEF PoolRest
<1>3. PoolRest(p) \in Pool
  BY <1>1, <1>2 DEF Pool, Pointers
<1>4. pool' \in [Procs -> Pool] /\ pool'[p] = PoolRest(p) /\ \A q \in Procs \ {p} : pool'[q] = pool[q]
  BY <1>3, Typed
<1>5. conns' = conns /\ conns' \in [Requests -> Conn]
  BY Typed
<1>6. \A m \in InFlight : m.con # c
  BY <1>1 DEF MessageInv
<1>7. \A q \in Procs \ {p} : conns[c].owner # q
  BY <1>1
<1> HIDE DEF c
<1>8. Enter(p, r, c) /\ Comes(p, r)
  BY DEF c
<1>9. pool[p].m_front \in Requests => pool[p].m_front = c
  BY DEF c
<1> QED BY <1>1, <1>2, <1>4, <1>5, <1>6, <1>7, <1>8, <1>9, EnterInv

\* A process that dies has no connection: there is none to be lost.
LEMMA GetWildConnInv ==
  ASSUME IInv, NEW p \in Procs, NEW r \in Requests, GetWildConn(p, r) PROVE IInv'
<1> USE DEF IInv, GetWildConn, Comes
<1> DEFINE own == {c \in Requests : conns[c].owner = p}
<1>1. own = {}
  BY ZmqAssumption DEF OwnerInv, HandlerInv, Active
<1>2. conns' = conns
  BY <1>1, Typed
<1>3. inbox' \subseteq inbox /\ replies' \subseteq replies
  BY CloseShrinks
<1>4. [handler[p] EXCEPT !.at = "dead"] \in Work /\ [answer[r] EXCEPT !.status = "dropped"] \in Answer
  BY SMTT(30), Typed DEF Work, Answer, Statuses
<1>5. handler' \in [Procs -> Work] /\ answer' \in [Requests -> Answer]
  BY <1>4, Typed
<1>6. TypeOK'
  BY <1>2, <1>3, <1>5, Typed DEF TypeOK, Work, Answer
<1>7. /\ handler'[p].at = "dead"
      /\ handler'[p].con = handler[p].con /\ handler'[p].req = handler[p].req
      /\ \A q \in Procs \ {p} : handler'[q] = handler[q]
  BY Typed DEF Work
<1>8. \A q \in Requests : answer'[q].to = answer[q].to /\ (answer[q].status # "new" => answer'[q].status # "new")
  BY Typed DEF Answer
<1>9. HandlerInv'
  BY <1>2, <1>7 DEF HandlerInv, Active
<1>10. PoolInv'
  BY <1>2, <1>7, ZmqAssumption DEF PoolInv
<1>11. OwnerInv'
  BY <1>2, <1>7, <1>8 DEF OwnerInv
<1>12. MessageInv'
  BY <1>2, <1>3, <1>7, <1>8, Typed DEF MessageInv, InFlight, Message
<1>13. ReplyIsOwn'
  BY <1>8 DEF ReplyIsOwn
<1> QED BY <1>6, <1>9, <1>10, <1>11, <1>12, <1>13

\* The message is new: nothing is under way to a connection of a process that
\* has yet to send.
LEMMA SendRequestInv ==
  ASSUME IInv, NEW p \in Procs, SendRequest(p) PROVE IInv'
<1> USE DEF IInv, SendRequest
<1> DEFINE c == handler[p].con
           sent == [con |-> c, req |-> handler[p].req]
<1>1. c \in Requests /\ handler[p].req \in Requests /\ conns[c].owner = p /\ pool[p].m_front \notin Requests
  BY DEF HandlerInv, Active
<1>2. sent \in Message
  BY <1>1 DEF Message
<1>3. \A m \in InFlight : m.con # c
  BY <1>1 DEF MessageInv
<1>4. /\ handler' \in [Procs -> Work] /\ conns' \in [Requests -> Conn]
      /\ handler'[p].at = "recv" /\ handler'[p].con = c /\ handler'[p].req = handler[p].req
      /\ \A q \in Procs \ {p} : handler'[q] = handler[q]
  <2>1. [handler[p] EXCEPT !.at = "recv"] \in Work /\ [conns[c] EXCEPT !.m_sock = "awaiting"] \in Conn
    BY <1>1, Typed DEF Work, Conn
  <2> QED BY <1>1, <2>1, Typed DEF Work
<1>5. /\ \A d \in Requests : conns'[d].owner = conns[d].owner /\ conns'[d].m_next = conns[d].m_next
      /\ \A d \in Requests \ {c} : conns'[d] = conns[d]
  BY <1>1, Typed DEF Conn
<1>6. inbox' = inbox \cup {sent}
  OBVIOUS
<1> HIDE DEF c, sent
<1>7. TypeOK'
  BY <1>2, <1>4, <1>6, Typed DEF TypeOK, Work, Conn
<1>8. HandlerInv'
  BY <1>1, <1>4, <1>5 DEF HandlerInv, Active
<1>9. PoolInv'
  <2>1. \A q \in Procs : pool[q].m_front \in Requests => pool[q].m_front # c
    BY <1>1 DEF PoolInv
  <2> QED BY <1>4, <1>5, <2>1 DEF PoolInv
<1>10. OwnerInv'
  BY <1>1, <1>4, <1>5, <1>7 DEF OwnerInv, c
<1>11. MessageInv'
  <2>1. sent.con = c /\ sent.req = handler[p].req /\ sent \notin InFlight
    BY <1>3 DEF sent
  <2>2. answer[c].status # "new"
    BY <1>1, ZmqAssumption DEF OwnerInv
  <2>3. InFlight' = InFlight \cup {sent}
    BY <1>6 DEF InFlight
  <2>4. inbox' \cap worker' = {} /\ inbox' \cap replies' = {} /\ worker' \cap replies' = {}
    BY <1>6, <2>1 DEF MessageInv, InFlight
  <2>5. ASSUME NEW m \in InFlight', NEW q \in Procs
        PROVE  /\ answer'[m.con].status # "new"
               /\ conns'[m.con].owner = q => handler'[q].at = "recv" /\ handler'[q].con = m.con
                                             /\ handler'[q].req = m.req
    <3>1. CASE m = sent
      BY <1>1, <1>4, <1>5, <2>1, <2>2, <3>1
    <3>2. CASE m \in InFlight
      <4>1. m.con \in Requests
        BY <3>2, Typed DEF InFlight, Message
      <4> QED BY <1>1, <1>3, <1>4, <1>5, <3>2, <4>1 DEF MessageInv, HandlerInv, Active
    <3> QED BY <2>3, <3>1, <3>2
  <2>6. \A m \in InFlight' : answer'[m.con].status # "new"
    BY <1>2, <1>7, <2>2, <2>1, <2>3 DEF MessageInv
  <2> QED BY <2>4, <2>5, <2>6 DEF MessageInv
<1>12. ReplyIsOwn'
  BY DEF ReplyIsOwn
<1> QED BY <1>7, <1>8, <1>9, <1>10, <1>11, <1>12

\* The loop ends and the connection goes to the pool, with nothing more under
\* way to it.
LEMMA PooledAtEnd ==
  ASSUME IInv, NEW p \in Procs, handler[p].at \in Active, NEW to \in Requests \cup {NULL},
         rel_conn(p, handler[p].con, "ready"), Finish(p, "200", to),
         to # NULL => to = handler[p].req,
         replies' \subseteq replies,
         \A m \in inbox \cup worker \cup replies' : m.con # handler[p].con,
         UNCHANGED <<stype, content_length, inbox, worker>>
  PROVE  IInv'
<1> USE DEF IInv
<1> DEFINE c == handler[p].con
<1>1. c \in Requests /\ handler[p].req \in Requests /\ conns[c].owner = p /\ pool[p].m_front \notin Requests
  BY DEF HandlerInv
<1>2. /\ pool' = [pool EXCEPT ![p] = [m_front |-> c, m_back |-> c]]
      /\ conns' = [conns EXCEPT ![c].m_sock = "ready"]
      /\ pool' \in [Procs -> Pool] /\ conns' \in [Requests -> Conn]
  BY <1>1, RelConn
<1>3. handler' \in [Procs -> Work] /\ answer' \in [Requests -> Answer]
  BY <1>1, FinishType DEF Statuses
<1>4. TypeOK'
  BY <1>2, <1>3, Typed DEF TypeOK, Work, Answer, Pool, Conn
<1>5. /\ handler'[p] = Idle /\ \A q \in Procs \ {p} : handler'[q] = handler[q]
      /\ pool'[p] = [m_front |-> c, m_back |-> c] /\ \A q \in Procs \ {p} : pool'[q] = pool[q]
  BY <1>2, Typed DEF Finish
<1>6. /\ \A d \in Requests : conns'[d].owner = conns[d].owner /\ conns'[d].m_next = conns[d].m_next
      /\ \A d \in Requests \ {c} : conns'[d] = conns[d]
      /\ conns'[c].m_sock = "ready"
  BY <1>1, <1>2, Typed DEF Conn
<1>7. /\ answer'[handler[p].req] = [status |-> "200", to |-> to]
      /\ \A r \in Requests \ {handler[p].req} : answer'[r] = answer[r]
  BY <1>1, Typed DEF Finish
<1>8. \A m \in InFlight' : m \in InFlight /\ m.con # c /\ m.con \in Requests
  BY Typed DEF InFlight, Message
<1>9. inbox' \cap worker' = {} /\ inbox' \cap replies' = {} /\ worker' \cap replies' = {}
  BY DEF MessageInv
<1> HIDE DEF c
<1>10. HandlerInv'
  BY <1>5, <1>6 DEF HandlerInv, Active, Idle, c
<1>11. PoolInv'
  <2>1. \A q \in Procs : pool[q].m_front \in Requests => pool[q].m_front # c
    BY <1>1 DEF PoolInv
  <2> QED BY <1>1, <1>5, <1>6, <2>1 DEF PoolInv, Idle
<1>12. OwnerInv'
  BY <1>1, <1>5, <1>6, <1>7 DEF OwnerInv, c
<1>13. MessageInv'
  BY <1>1, <1>5, <1>6, <1>7, <1>8, <1>9 DEF MessageInv, c
<1>14. ReplyIsOwn'
  BY <1>7 DEF ReplyIsOwn
<1> QED BY <1>4, <1>10, <1>11, <1>12, <1>13, <1>14

\* The loop ends and the connection is freed.
LEMMA FreedAtEnd ==
  ASSUME IInv, NEW p \in Procs, handler[p].at \in Active, NEW status \in {"502", "504"},
         free_conn(handler[p].con), Finish(p, status, NULL),
         UNCHANGED <<stype, content_length, pool, worker>>
  PROVE  IInv'
<1> USE DEF IInv
<1> DEFINE c == handler[p].con
<1>1. c \in Requests /\ handler[p].req \in Requests /\ conns[c].owner = p /\ pool[p].m_front \notin Requests
  BY DEF HandlerInv
<1>2. conns' \in [Requests -> Conn] /\ inbox' \subseteq inbox /\ replies' \subseteq replies
  BY <1>1, FreeConnType
<1>3. handler' \in [Procs -> Work] /\ answer' \in [Requests -> Answer]
  BY <1>1, FinishType DEF Statuses
<1>4. TypeOK'
  BY <1>2, <1>3, Typed DEF TypeOK, Work, Answer, Conn
<1>5. handler'[p] = Idle /\ \A q \in Procs \ {p} : handler'[q] = handler[q]
  BY Typed DEF Finish
<1>6. conns'[c] = Free /\ \A d \in Requests \ {c} : conns'[d] = conns[d]
  BY <1>1, Typed DEF free_conn
<1>7. /\ answer'[handler[p].req] = [status |-> status, to |-> NULL]
      /\ \A r \in Requests \ {handler[p].req} : answer'[r] = answer[r]
  BY <1>1, Typed DEF Finish
<1>8. \A m \in InFlight' : m \in InFlight /\ m.con \in Requests
  BY <1>2, Typed DEF InFlight, Message
<1>9. inbox' \cap worker' = {} /\ inbox' \cap replies' = {} /\ worker' \cap replies' = {}
  BY <1>2 DEF MessageInv
<1> HIDE DEF c
<1>10. HandlerInv'
  BY <1>1, <1>5, <1>6 DEF HandlerInv, Active, Idle, c
<1>11. PoolInv'
  BY <1>1, <1>5, <1>6 DEF PoolInv, Idle
<1>12. OwnerInv'
  BY <1>1, <1>5, <1>6, <1>7, ZmqAssumption DEF OwnerInv, Free, c
<1>13. MessageInv'
  BY <1>1, <1>5, <1>6, <1>7, <1>8, <1>9, ZmqAssumption DEF MessageInv, Free, c
<1>14. ReplyIsOwn'
  BY <1>7 DEF ReplyIsOwn
<1> QED BY <1>4, <1>10, <1>11, <1>12, <1>13, <1>14

\* The callbacks of a request in work.
LEMMA HandleInv ==
  ASSUME IInv, NEW p \in Procs, Handle(p) PROVE IInv'
<1>1. CASE SendRequest(p)
  BY <1>1, SendRequestInv
<1>2. CASE SendOneWay(p)
  <2> USE <1>2 DEF SendOneWay
  <2>1. \A m \in InFlight : m.con # handler[p].con
    BY DEF IInv, MessageInv, HandlerInv, Active
  <2> QED BY <2>1, PooledAtEnd DEF Active, InFlight
<1>3. CASE SendFails(p)
  BY <1>3, FreedAtEnd DEF SendFails, Active
<1>4. CASE SendTimesOut(p)
  BY <1>4, FreedAtEnd DEF SendTimesOut, Active
<1>5. CASE Receive(p)
  <2> USE <1>5 DEF Receive
  <2>1. PICK m \in replies : /\ m.con = handler[p].con
                             /\ replies' = replies \ {m}
                             /\ Finish(p, "200", m.req)
    OBVIOUS
  <2>2. m \in InFlight /\ m \in Message /\ m.con \in Requests /\ m.req \in Requests
    BY Typed DEF IInv, InFlight, Message
  <2>3. conns[m.con].owner = p /\ handler[p].req = m.req
    BY <2>1, <2>2 DEF IInv, HandlerInv, MessageInv, Active
  <2>4. ASSUME NEW n \in InFlight, n.con = m.con PROVE n = m
    <3>1. n.req = m.req
      BY <2>3, <2>4 DEF IInv, MessageInv
    <3>2. n \in Message
      BY Typed DEF IInv, InFlight
    <3> QED BY <2>2, <2>4, <3>1, <3>2 DEF Message
  <2>5. \A n \in inbox \cup worker \cup replies' : n \in InFlight /\ n # m
    BY <2>1 DEF IInv, MessageInv, InFlight
  <2>6. \A n \in inbox \cup worker \cup replies' : n.con # handler[p].con
    BY <2>1, <2>4, <2>5
  <2> QED BY <2>1, <2>2, <2>3, <2>6, PooledAtEnd DEF Active
<1>6. CASE ReceiveFails(p)
  BY <1>6, FreedAtEnd DEF ReceiveFails, Active
<1>7. CASE ReceiveTimesOut(p)
  BY <1>7, FreedAtEnd DEF ReceiveTimesOut, Active
<1> QED BY <1>1, <1>2, <1>3, <1>4, <1>5, <1>6, <1>7 DEF Handle

\* The time of a request runs out: a flag of its handler.
LEMMA ExpireInv ==
  ASSUME IInv, NEW p \in Procs, Expire(p) PROVE IInv'
<1> USE DEF IInv, Expire
<1>1. [handler[p] EXCEPT !.late = TRUE] \in Work
  BY Typed DEF Work
<1>2. TypeOK'
  BY <1>1, Typed DEF TypeOK, Work
<1>3. \A q \in Procs : /\ handler'[q].at = handler[q].at /\ handler'[q].con = handler[q].con
                       /\ handler'[q].req = handler[q].req
  BY Typed DEF Work
<1>4. HandlerInv' /\ PoolInv'
  BY <1>3 DEF HandlerInv, PoolInv
<1>5. OwnerInv' /\ MessageInv' /\ ReplyIsOwn'
  BY <1>3 DEF OwnerInv, MessageInv, InFlight, ReplyIsOwn
<1> QED BY <1>2, <1>4, <1>5

\* A process that has died starts again with an empty pool.
LEMMA RespawnInv ==
  ASSUME IInv, NEW p \in Procs, Respawn(p) PROVE IInv'
<1> USE DEF IInv, Respawn
<1>1. Idle \in Work /\ NoPool \in Pool
  BY DEF Idle, Work, NoPool, Pool, Pointers
<1>2. TypeOK'
  BY <1>1, Typed DEF TypeOK, Work, Pool
<1>3. /\ handler'[p] = Idle /\ \A q \in Procs \ {p} : handler'[q] = handler[q]
      /\ pool'[p] = NoPool /\ \A q \in Procs \ {p} : pool'[q] = pool[q]
  BY Typed
<1>4. \A c \in Requests : conns[c].owner # p
  BY ZmqAssumption DEF OwnerInv, HandlerInv, PoolInv, Active
<1>5. HandlerInv'
  BY <1>3 DEF HandlerInv, Active, Idle
<1>6. PoolInv'
  BY <1>3, ZmqAssumption DEF PoolInv, NoPool
<1>7. OwnerInv'
  BY <1>3, <1>4 DEF OwnerInv
<1>8. MessageInv'
  BY <1>3, <1>4, Typed DEF MessageInv, InFlight, Message
<1>9. ReplyIsOwn'
  BY DEF ReplyIsOwn
<1> QED BY <1>2, <1>5, <1>6, <1>7, <1>8, <1>9

-----------------------------------------------------------------------------
(***************************************************************************)
(* The invariant: the worker                                               *)
(***************************************************************************)

\* Messages that move on, or are lost, without being doubled.
LEMMA MessagesMove ==
  ASSUME IInv, inbox' \cup worker' \cup replies' \subseteq InFlight,
         inbox' \cap worker' = {}, inbox' \cap replies' = {}, worker' \cap replies' = {},
         \A m, n \in worker' : m = n,
         UNCHANGED <<stype, content_length, pool, conns, handler, answer>>
  PROVE  IInv'
<1> USE DEF IInv
<1>1. TypeOK'
  BY Typed DEF TypeOK, InFlight
<1>2. HandlerInv' /\ PoolInv' /\ OwnerInv' /\ ReplyIsOwn'
  BY DEF HandlerInv, PoolInv, OwnerInv, ReplyIsOwn
<1>3. MessageInv'
  BY DEF MessageInv, InFlight
<1> QED BY <1>1, <1>2, <1>3

\* The worker takes a message, replies to it or dies.
LEMMA WorkerInv ==
  ASSUME IInv, WorkerTake \/ WorkerReply \/ WorkerDies PROVE IInv'
<1>1. CASE WorkerTake
  BY <1>1, MessagesMove DEF WorkerTake, InFlight, IInv, MessageInv
<1>2. CASE WorkerReply
  <2>1. PICK m \in worker : replies' = replies \cup ReplyTo(m)
    BY <1>2 DEF WorkerReply
  <2>2. ReplyTo(m) \subseteq {m}
    BY DEF ReplyTo
  <2> QED BY <1>2, <2>1, <2>2, MessagesMove DEF WorkerReply, InFlight, IInv, MessageInv
<1>3. CASE WorkerDies
  BY <1>3, MessagesMove DEF WorkerDies, InFlight, IInv, MessageInv
<1> QED BY <1>1, <1>2, <1>3

-----------------------------------------------------------------------------
(***************************************************************************)
(* The theorems                                                            *)
(***************************************************************************)

\* Every step keeps the invariant.
LEMMA InvStep == IInv /\ [Next]_vars => IInv'
<1> SUFFICES ASSUME IInv, [Next]_vars PROVE IInv'
  OBVIOUS
<1>1. CASE \E p \in Procs, r \in Requests :
             BadRequest(p, r) \/ GetNewConn(p, r) \/ GetPooledConn(p, r) \/ GetWildConn(p, r)
  BY <1>1, BadRequestInv, GetNewConnInv, GetPooledConnInv, GetWildConnInv
<1>2. CASE \E p \in Procs : Handle(p) \/ Expire(p) \/ Respawn(p)
  BY <1>2, HandleInv, ExpireInv, RespawnInv
<1>3. CASE WorkerTake \/ WorkerReply \/ WorkerDies
  BY <1>3, WorkerInv
<1>4. CASE UNCHANGED vars
  BY <1>4 DEF vars, IInv, TypeOK, HandlerInv, PoolInv, OwnerInv, MessageInv, InFlight, ReplyIsOwn
<1> QED BY <1>1, <1>2, <1>3, <1>4 DEF Next, Done

\* The invariant holds in every reachable state.
LEMMA Invariant == Spec => []IInv
<1>1. Init => IInv
  BY InvInit
<1>2. IInv /\ [Next]_vars => IInv'
  BY InvStep
<1> QED BY <1>1, <1>2, PTL DEF Spec

\* Pools, connections, handlers, messages and answers always hold values of
\* their types, and the worker never more than one message.
THEOREM TypeCorrect == Spec => []TypeOK
<1>1. IInv => TypeOK
  BY DEF IInv
<1> QED BY <1>1, Invariant, PTL

\* get_conn never takes a connection from the pool that is closed, that cannot
\* send, or to which a late reply may still come.
THEOREM PooledConnectionsReady == Spec => []PooledReady
<1>1. IInv => PooledReady
  BY DEF IInv, PoolInv, MessageInv, PooledReady
<1> QED BY <1>1, Invariant, PTL

\* get_conn, rel_conn and free_conn, called as the handler calls them, neither
\* lose a connection nor leave one in two hands.
THEOREM NoConnectionLost == Spec => []HeldOrPooled
<1>1. IInv => HeldOrPooled
  <2> SUFFICES ASSUME IInv, NEW c \in Requests, NEW p \in Procs, conns[c].owner = p
               PROVE  (handler[p].con = c) # (pool[p].m_front = c)
    BY DEF HeldOrPooled
  <2>1. handler[p].con = c \/ pool[p].m_front = c
    BY DEF IInv, OwnerInv
  <2>2. ~(handler[p].con = c /\ pool[p].m_front = c)
    BY ZmqAssumption DEF IInv, HandlerInv
  <2> QED BY <2>1, <2>2
<1> QED BY <1>1, Invariant, PTL

\* The handler never answers a request with the reply to another.
THEOREM RepliesAreOwn == Spec => []ReplyIsOwn
<1>1. IInv => ReplyIsOwn
  BY DEF IInv
<1> QED BY <1>1, Invariant, PTL

-----------------------------------------------------------------------------
(***************************************************************************)
(* The service: each step of the processes is a step of PooledService or   *)
(* leaves its variables as they are.                                       *)
(***************************************************************************)

\* What the pool of one process gains or loses is all that changes.
LEMMA WaitingUpdate ==
  ASSUME NEW p \in Procs, NEW S, Waiting'[p] = S, \A q \in Procs \ {p} : Waiting'[q] = Waiting[q]
  PROVE  Waiting' = [Waiting EXCEPT ![p] = S]
<1>1. Waiting' = [q \in Procs |-> Waiting'[q]] /\ Waiting = [q \in Procs |-> Waiting[q]]
  BY DEF Waiting
<1> QED BY <1>1

\* What the service sees of a process that serves, and of one that does not.
LEMMA ServiceView ==
  ASSUME IInv, NEW p \in Procs
  PROVE  /\ Serving[p].req = handler[p].req /\ Serving[p].con = handler[p].con
         /\ handler[p].at \in Active => Serving[p] # Service!Nothing /\ Waiting[p] = {}
         /\ handler[p].at \notin Active => Serving[p] = Service!Nothing
         /\ pool[p].m_front \in Requests => Waiting[p] = {pool[p].m_front}
         /\ pool[p].m_front \notin Requests => Waiting[p] = {}
<1>1. Serving[p] = [req |-> handler[p].req, con |-> handler[p].con]
  BY DEF Serving
<1>2. handler[p].at \in Active => Serving[p] # Service!Nothing
  BY <1>1, ZmqAssumption DEF IInv, HandlerInv, Service!Nothing
<1>3. handler[p].at \notin Active => Serving[p] = Service!Nothing
  BY <1>1 DEF IInv, HandlerInv, Service!Nothing
<1>4. /\ pool[p].m_front \in Requests => Waiting[p] = {pool[p].m_front}
      /\ pool[p].m_front \notin Requests => Waiting[p] = {}
  BY ZmqAssumption DEF IInv, PoolInv, Waiting
<1>5. handler[p].at \in Active => pool[p].m_front \notin Requests
  BY DEF IInv, HandlerInv
<1>6. Serving[p].req = handler[p].req /\ Serving[p].con = handler[p].con
  BY <1>1
<1> QED BY <1>2, <1>3, <1>4, <1>5, <1>6

\* Nothing waits and nothing is served.
LEMMA ServiceInit == Init => Service!SInit
<1> SUFFICES ASSUME Init PROVE Service!SInit
  OBVIOUS
<1>1. Serving = [p \in Procs |-> Service!Nothing]
  BY DEF Init, Serving, Idle, Service!Nothing
<1>2. Waiting = [p \in Procs |-> {}]
  BY ZmqAssumption DEF Init, Waiting, NoPool
<1> QED BY <1>1, <1>2 DEF Service!SInit, Init

\* A new connection is one that nobody has.
LEMMA ServesWithNew ==
  ASSUME IInv, NEW p \in Procs, NEW r \in Requests, GetNewConn(p, r)
  PROVE  Service!ServeWithNew(p, r)
<1> USE DEF GetNewConn, Comes
<1>1. Waiting[p] = {} /\ Serving[p] = Service!Nothing
  BY ServiceView, ZmqAssumption DEF Active
<1>2. \A q \in Procs : r \notin Waiting[q] /\ Serving[q].con # r
  <2> TAKE q \in Procs
  <2>1. conns[r].owner # q
    BY ZmqAssumption DEF IInv, OwnerInv
  <2>2. pool[q].m_front # r /\ handler[q].con # r
    BY <2>1, ZmqAssumption DEF IInv, PoolInv, HandlerInv
  <2> QED BY <2>2, ServiceView
<1>3. Serving' = [Serving EXCEPT ![p] = [req |-> r, con |-> r]]
  BY Typed DEF IInv, Enter, Serving
<1>4. Waiting' = Waiting
  BY DEF init_conn, Waiting
<1>5. answer' = [answer EXCEPT ![r].status = "asked"]
  BY DEF Enter
<1> QED
  BY <1>1, <1>2, <1>3, <1>4, <1>5 DEF Service!ServeWithNew, Service!Serve

\* A pooled connection is one that waits.
LEMMA ServesWithIdle ==
  ASSUME IInv, NEW p \in Procs, NEW r \in Requests, GetPooledConn(p, r)
  PROVE  Service!ServeWithIdle(p, r)
<1> USE DEF GetPooledConn, Comes
<1> DEFINE c == pool[p].m_front
<1>1. Waiting[p] = {c} /\ Serving[p] = Service!Nothing
  BY ServiceView DEF Active
<1>2. Serving' = [Serving EXCEPT ![p] = [req |-> r, con |-> c]]
  BY Typed DEF IInv, Enter, Serving
<1>3. /\ pool'[p] = [m_front |-> conns[c].m_next, m_back |-> NULL]
      /\ \A q \in Procs \ {p} : pool'[q] = pool[q]
  BY Typed DEF IInv, PoolInv, PoolRest
<1>4. conns[c].m_next \notin Requests
  BY DEF IInv, OwnerInv
<1>5. Waiting' = [Waiting EXCEPT ![p] = @ \ {c}]
  <2>1. Waiting'[p] = {}
    BY <1>3, <1>4, ZmqAssumption DEF Waiting
  <2>2. \A q \in Procs \ {p} : Waiting'[q] = Waiting[q]
    BY <1>3 DEF Waiting
  <2> QED BY <1>1, <2>1, <2>2, WaitingUpdate
<1>6. answer' = [answer EXCEPT ![r].status = "asked"]
  BY DEF Enter
<1> HIDE DEF c
<1>7. Service!Serve(p, r, c)
  BY <1>1, <1>2, <1>6 DEF Service!Serve
<1> QED BY <1>1, <1>5, <1>7 DEF Service!ServeWithIdle

\* With a wild pointer at the front the request is dropped.
LEMMA Drops ==
  ASSUME IInv, NEW p \in Procs, NEW r \in Requests, GetWildConn(p, r)
  PROVE  Service!Drop(p, r)
<1> USE DEF GetWildConn, Comes
<1>1. Waiting[p] = {} /\ Serving[p] = Service!Nothing
  BY ServiceView, ZmqAssumption DEF Active
<1>2. Serving' = Serving
  BY Typed DEF IInv, Serving, Work
<1>3. Waiting' = Waiting
  BY DEF Waiting
<1> QED BY <1>1, <1>2, <1>3 DEF Service!Drop

\* A loop that ends well gives the connection back, one that does not closes it.
LEMMA Succeeds ==
  ASSUME IInv, NEW p \in Procs, handler[p].at \in Active, NEW to \in {NULL, handler[p].req},
         rel_conn(p, handler[p].con, "ready"), Finish(p, "200", to)
  PROVE  Service!Succeed(p)
<1> DEFINE c == handler[p].con
<1>1. c \in Requests /\ pool[p].m_front \notin Requests
  BY DEF IInv, HandlerInv
<1>2. pool' = [pool EXCEPT ![p] = [m_front |-> c, m_back |-> c]]
  BY <1>1, RelConn DEF IInv
<1>3. Serving[p] # Service!Nothing /\ Serving[p].con = c /\ Serving[p].req = handler[p].req
      /\ Waiting[p] = {}
  BY ServiceView
<1>4. Waiting' = [Waiting EXCEPT ![p] = @ \cup {c}]
  <2>1. Waiting'[p] = {c}
    BY <1>1, <1>2, Typed DEF IInv, Waiting
  <2>2. \A q \in Procs \ {p} : Waiting'[q] = Waiting[q]
    BY <1>2, Typed DEF IInv, Waiting
  <2> QED BY <1>3, <2>1, <2>2, WaitingUpdate
<1>5. Serving' = [Serving EXCEPT ![p] = Service!Nothing]
  BY Typed DEF IInv, Finish, Serving, Idle, Service!Nothing
<1>6. Service!Answer(p, "200", to)
  BY <1>3, <1>5 DEF Service!Answer, Finish
<1> QED BY <1>3, <1>4, <1>6 DEF Service!Succeed

\* A request that ends with an error frees its connection.
LEMMA Fails ==
  ASSUME IInv, NEW p \in Procs, handler[p].at \in Active, NEW status \in {"502", "504"},
         Finish(p, status, NULL), UNCHANGED pool
  PROVE  Service!Fail(p)
<1>1. Serving[p] # Service!Nothing /\ Serving[p].req = handler[p].req
  BY ServiceView
<1>2. Waiting' = Waiting
  BY DEF Waiting
<1>3. Serving' = [Serving EXCEPT ![p] = Service!Nothing]
  BY Typed DEF IInv, Finish, Serving, Idle, Service!Nothing
<1>4. Service!Answer(p, status, NULL)
  BY <1>1, <1>3 DEF Service!Answer, Finish
<1> QED BY <1>2, <1>4 DEF Service!Fail

\* A callback ends the request, well or badly, or nothing the service sees.
LEMMA HandleServes ==
  ASSUME IInv, NEW p \in Procs, Handle(p)
  PROVE  Service!Succeed(p) \/ Service!Fail(p) \/ UNCHANGED Service!svars
<1>1. CASE SendRequest(p)
  <2>1. Serving' = Serving /\ Waiting' = Waiting
    BY <1>1, Typed DEF IInv, SendRequest, Serving, Waiting, Work
  <2> QED BY <1>1, <2>1 DEF SendRequest, Service!svars
<1>2. CASE SendOneWay(p)
  BY <1>2, Succeeds DEF SendOneWay, Active
<1>3. CASE SendFails(p)
  BY <1>3, Fails DEF SendFails, Active
<1>4. CASE SendTimesOut(p)
  BY <1>4, Fails DEF SendTimesOut, Active
<1>5. CASE Receive(p)
  <2>1. PICK m \in replies : m.con = handler[p].con /\ Finish(p, "200", m.req)
    BY <1>5 DEF Receive
  <2>2. m.req = handler[p].req
    BY <1>5, <2>1 DEF Receive, IInv, HandlerInv, MessageInv, InFlight, Active
  <2> QED BY <1>5, <2>1, <2>2, Succeeds DEF Receive, Active
<1>6. CASE ReceiveFails(p)
  BY <1>6, Fails DEF ReceiveFails, Active
<1>7. CASE ReceiveTimesOut(p)
  BY <1>7, Fails DEF ReceiveTimesOut, Active
<1> QED BY <1>1, <1>2, <1>3, <1>4, <1>5, <1>6, <1>7 DEF Handle

\* Every step is one of PooledService or leaves what it sees alone.
LEMMA ServiceStep == IInv /\ [Next]_vars => [Service!SNext]_(Service!svars)
<1> SUFFICES ASSUME IInv, [Next]_vars PROVE Service!SNext \/ UNCHANGED Service!svars
  OBVIOUS
<1>1. CASE \E p \in Procs, r \in Requests : BadRequest(p, r)
  <2>1. PICK p \in Procs, r \in Requests : BadRequest(p, r)
    BY <1>1
  <2>2. Service!Refuse(r)
    BY <2>1 DEF BadRequest, Comes, Service!Refuse, Serving, Waiting
  <2> QED BY <2>2 DEF Service!SNext
<1>2. CASE \E p \in Procs, r \in Requests :
             GetNewConn(p, r) \/ GetPooledConn(p, r) \/ GetWildConn(p, r)
  BY <1>2, ServesWithNew, ServesWithIdle, Drops DEF Service!SNext
<1>3. CASE \E p \in Procs : Handle(p)
  BY <1>3, HandleServes DEF Service!SNext
<1>4. CASE \E p \in Procs : Expire(p)
  <2>1. Serving' = Serving /\ Waiting' = Waiting
    BY <1>4, Typed DEF IInv, Expire, Serving, Waiting, Work
  <2> QED BY <1>4, <2>1 DEF Expire, Service!svars
<1>5. CASE \E p \in Procs : Respawn(p)
  <2>1. PICK p \in Procs : Respawn(p)
    BY <1>5
  <2>2. Serving[p] = Service!Nothing /\ Waiting[p] = {}
    BY <2>1, ServiceView DEF Respawn, IInv, PoolInv, Active
  <2>3. Serving' = Serving
    <3>1. \A q \in Procs : Serving'[q] = Serving[q]
      BY <2>1, <2>2, Typed DEF Respawn, IInv, Serving, Idle, Service!Nothing
    <3> QED BY <3>1 DEF Serving
  <2>4. Waiting' = Waiting
    <3>1. \A q \in Procs : Waiting'[q] = Waiting[q]
      BY <2>1, <2>2, Typed, ZmqAssumption DEF Respawn, IInv, Waiting, NoPool
    <3> QED BY <3>1 DEF Waiting
  <2> QED BY <2>1, <2>3, <2>4 DEF Respawn, Service!svars
<1>6. CASE WorkerTake \/ WorkerReply \/ WorkerDies \/ UNCHANGED vars
  BY <1>6 DEF WorkerTake, WorkerReply, WorkerDies, vars, Service!svars, Serving, Waiting
<1> QED BY <1>1, <1>2, <1>3, <1>4, <1>5, <1>6 DEF Next, Done

\* The handler and its pool keep the promise of PooledService, whatever libzmq,
\* the worker and the clock do.
THEOREM ImplementsService == Spec => RefinesService
<1>1. Init => Service!SInit
  BY ServiceInit
<1>2. IInv /\ [Next]_vars => [Service!SNext]_(Service!svars)
  BY ServiceStep
<1> QED BY <1>1, <1>2, Invariant, PTL DEF Spec, RefinesService, Service!SSpec
=============================================================================
