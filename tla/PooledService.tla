---------------------------- MODULE PooledService ----------------------------
(***************************************************************************)
(* What the nginx module promises, without sockets, messages, loops or     *)
(* clocks: a request is answered once, by the process that took it, with   *)
(* the reply to itself or with none; it is carried by one connection,      *)
(* which is an idle one of that process while there is any, and a new one  *)
(* otherwise; and the connection is used again if, and only if, it served  *)
(* the request well.                                                       *)
(***************************************************************************)
CONSTANTS Procs, Requests, NULL

VARIABLES
  answer,             \* per request: its status, and the request replied to
  serving,            \* per process: the request it serves and the connection
  idle                \* per process: its connections that wait for a request

svars == <<answer, serving, idle>>

Nothing == [req |-> NULL, con |-> NULL]

SInit ==
  /\ answer = [r \in Requests |-> [status |-> "new", to |-> NULL]]
  /\ serving = [p \in Procs |-> Nothing]
  /\ idle = [p \in Procs |-> {}]

Refuse(r) ==
  /\ answer[r].status = "new"
  /\ answer' = [answer EXCEPT ![r].status = "400"]
  /\ UNCHANGED <<serving, idle>>

Serve(p, r, c) ==
  /\ answer[r].status = "new" /\ serving[p] = Nothing
  /\ answer' = [answer EXCEPT ![r].status = "asked"]
  /\ serving' = [serving EXCEPT ![p] = [req |-> r, con |-> c]]

ServeWithIdle(p, r) ==
  \E c \in idle[p] : Serve(p, r, c) /\ idle' = [idle EXCEPT ![p] = @ \ {c}]

\* A new connection is nobody else's.
ServeWithNew(p, r) ==
  /\ idle[p] = {}
  /\ \E c \in Requests :
       /\ \A q \in Procs : c \notin idle[q] /\ serving[q].con # c
       /\ Serve(p, r, c)
  /\ UNCHANGED idle

Answer(p, status, to) ==
  /\ serving[p] # Nothing
  /\ answer' = [answer EXCEPT ![serving[p].req] = [status |-> status, to |-> to]]
  /\ serving' = [serving EXCEPT ![p] = Nothing]

Succeed(p) ==
  /\ \E to \in {NULL, serving[p].req} : Answer(p, "200", to)
  /\ idle' = [idle EXCEPT ![p] = @ \cup {serving[p].con}]

Fail(p) ==
  /\ \E status \in {"502", "504"} : Answer(p, status, NULL)
  /\ UNCHANGED idle

\* A process that dies drops the request that has just come.
Drop(p, r) ==
  /\ answer[r].status = "new" /\ serving[p] = Nothing /\ idle[p] = {}
  /\ answer' = [answer EXCEPT ![r].status = "dropped"]
  /\ UNCHANGED <<serving, idle>>

SNext ==
  \/ \E r \in Requests : Refuse(r)
  \/ \E p \in Procs, r \in Requests : ServeWithIdle(p, r) \/ ServeWithNew(p, r) \/ Drop(p, r)
  \/ \E p \in Procs : Succeed(p) \/ Fail(p)

SSpec == SInit /\ [][SNext]_svars
=============================================================================
