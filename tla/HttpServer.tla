----------------------------- MODULE HttpServer ------------------------------
(***************************************************************************)
(* HttpServer (src/http/http_server.cpp): the accept loop, the connection  *)
(* coroutines and the shutdown, all on the one thread of http_io.          *)
(*                                                                         *)
(* A coroutine waits for one asynchronous operation at a time.  An         *)
(* operation first completes (the network, the channel or a close decides  *)
(* how) and its coroutine is resumed later, so other handlers run between  *)
(* the two: op[c] is "none" while the operation is pending, then "ok" or   *)
(* "fail".  Reading a request is one operation, whatever its bytes; a      *)
(* request is a chat completion or one that is answered at once.           *)
(*                                                                         *)
(* The scheduler is seen through its promise: it posts events of a request *)
(* to http_io until the request ends or its cancellation arrives.          *)
(***************************************************************************)
EXTENDS Naturals, Sequences, Collections

CONSTANTS Conn,             \* the connections clients may open
          MaxEvents,        \* bound: events the scheduler sends per request
          MaxAcceptErrors,  \* bound: failures of async_accept while running
          Reliable          \* clients that never leave

ASSUME HttpAssumption ==
  MaxEvents \in Nat /\ MaxAcceptErrors \in Nat /\ Reliable \subseteq Conn

VARIABLES running,      \* running_ (atomic)
          acceptor,     \* where the accept loop is, or the result it resumes with
          errors,       \* failures of async_accept so far
          accept_done,  \* accept_loop_done_
          active,       \* active_conns_
          shutdown,     \* shutdown_async: "none", "posted", "handled"
          sent,         \* how often the shutdown promise was set
          pc,           \* where the coroutine of each connection is
          op,           \* its asynchronous operation
          open,         \* connections whose socket the server has not closed
          left,         \* connections whose client has gone
          chan,         \* the channel of the connection's request: the events it
                        \* holds (16 at most), then those whose send waits
          seen,         \* seen[c]: how many events c has received
          closed,       \* channels that were closed
          last,         \* last[c]: the frame being written ends the stream
          request,      \* the scheduler's view: "none", "active", "ended"
          cancelled,    \* requests for which scheduler.cancel was called
          count,        \* events sent so far per request
          mail          \* events posted to http_io, oldest first

accepting == <<acceptor, errors>>
conns == <<pc, op, open, chan, seen, closed, last>>
sched == <<request, cancelled, count, mail>>
vars == <<running, accepting, accept_done, active, shutdown, sent, conns, left,
          sched>>

(* HttpServer::start has succeeded. *)
Init == /\ running = TRUE /\ acceptor = "waiting" /\ errors = 0
        /\ accept_done = FALSE /\ active = {} /\ shutdown = "none" /\ sent = 0
        /\ pc = [c \in Conn |-> "away"] /\ op = [c \in Conn |-> "none"]
        /\ open = Conn /\ left = {} /\ closed = {}
        /\ chan = [c \in Conn |-> <<>>] /\ seen = [c \in Conn |-> 0] /\ last = [c \in Conn |-> FALSE]
        /\ request = [c \in Conn |-> "none"] /\ cancelled = {}
        /\ count = [c \in Conn |-> 0] /\ mail = <<>>

-----------------------------------------------------------------------------
(* Clients and the network. *)

Connect(c) ==
  /\ pc[c] = "away" /\ shutdown # "handled"
  /\ pc' = [pc EXCEPT ![c] = "backlog"]
  /\ UNCHANGED <<running, accepting, accept_done, active, shutdown, sent, op,
                 open, chan, seen, closed, last, left, sched>>

(* A pending read or write completes. *)
IoPending(c) == /\ pc[c] \in {"read", "reply", "headers", "write"}
                /\ op[c] = "none"

IoSucceeds(c) ==
  /\ IoPending(c) /\ c \notin left
  /\ op' = [op EXCEPT ![c] = "ok"]
  /\ UNCHANGED <<running, accepting, accept_done, active, shutdown, sent, pc,
                 open, chan, seen, closed, last, left, sched>>

IoFails(c) ==
  /\ IoPending(c) /\ c \in left
  /\ op' = [op EXCEPT ![c] = "fail"]
  /\ UNCHANGED <<running, accepting, accept_done, active, shutdown, sent, pc,
                 open, chan, seen, closed, last, left, sched>>

Leave(c) ==
  /\ c \notin left \union Reliable /\ pc[c] \notin {"away", "done"}
  /\ left' = left \union {c}
  /\ UNCHANGED <<running, accepting, accept_done, active, shutdown, sent,
                 conns, sched>>

AcceptCompletes(c) ==
  /\ acceptor = "waiting" /\ pc[c] = "backlog"
  /\ acceptor' = "ready"
  /\ pc' = [pc EXCEPT ![c] = "accepted"]
  /\ UNCHANGED <<running, errors, accept_done, active, shutdown, sent, op, open,
                 chan, seen, closed, last, left, sched>>

AcceptError ==
  /\ acceptor = "waiting" /\ errors < MaxAcceptErrors
  /\ acceptor' = "failed" /\ errors' = errors + 1
  /\ UNCHANGED <<running, accept_done, active, shutdown, sent, conns, left, sched>>

-----------------------------------------------------------------------------
(* Faulty variant: the accept loop may still run. *)
TryFinishEarly(done, act) ==
  sent' = IF sent = 0 /\ ~running /\ act = {} /\ shutdown # "none"
          THEN sent + 1 ELSE sent

(* try_finish_shutdown_on_http_thread, given the new values it reads. *)
TryFinish(done, act) ==
  sent' = IF sent = 0 /\ ~running /\ done /\ act = {} /\ shutdown # "none"
          THEN sent + 1 ELSE sent

(* accept_loop: the next turn of the loop, or its end. *)
AcceptNext(again, act) ==
  IF running THEN /\ acceptor' = again
                  /\ UNCHANGED <<accept_done, sent>>
             ELSE /\ acceptor' = "done"
                  /\ accept_done' = TRUE
                  /\ TryFinish(TRUE, act)

AcceptResumes ==
  \/ /\ acceptor = "ready"
     /\ \E c \in Conn : /\ pc[c] = "accepted"
                        /\ pc' = [pc EXCEPT ![c] = "read"]
                        /\ active' = active \union {c}
     /\ AcceptNext("waiting", active')
     /\ UNCHANGED <<running, errors, shutdown, op, open, chan, seen, closed, last, left,
                    sched>>
  \/ /\ acceptor = "failed"
     /\ AcceptNext("retry", active)
     /\ UNCHANGED <<running, errors, active, shutdown, conns, left, sched>>
  \/ /\ acceptor = "retry"
     /\ AcceptNext("waiting", active)
     /\ UNCHANGED <<running, errors, active, shutdown, conns, left, sched>>

-----------------------------------------------------------------------------
(* The coroutine of a connection is resumed with op[c]. *)

(* The next operation on the socket: at once a failure if it is closed.    *)
Await(c, at) ==
  /\ pc' = [pc EXCEPT ![c] = at]
  /\ op' = [op EXCEPT ![c] = IF c \in open THEN "none" ELSE "fail"]
  /\ UNCHANGED <<active, sent>>

(* The end of handle_connection: the coroutine and its channel are gone.   *)
End(c) ==
  /\ pc' = [pc EXCEPT ![c] = "done"]
  /\ op' = [op EXCEPT ![c] = "none"]
  /\ active' = active \ {c}
  /\ TryFinish(accept_done, active \ {c})

(* scheduler.cancel, and the end of the connection. *)
CancelAndEnd(c) == cancelled' = cancelled \union {c} /\ End(c)

(* A chat request: the channel and the request id are kept in ActiveConn,  *)
(* the request is submitted, the response headers are written.             *)
HandleChat(c) ==
  /\ request' = [request EXCEPT ![c] = "active"]
  /\ Await(c, "headers")

(* A request that was not read is answered only when its body failed, and  *)
(* an empty request line ends the connection without an answer.            *)
ReadResumes(c) ==
  /\ pc[c] = "read" /\ op[c] # "none"
  /\ \/ op[c] = "ok" /\ HandleChat(c)
     \/ Await(c, "reply") /\ UNCHANGED request
     \/ End(c) /\ UNCHANGED request
  /\ UNCHANGED <<running, accepting, accept_done, shutdown, open, chan, seen, closed,
                 last, left, cancelled, count, mail>>

ReplyResumes(c) ==
  /\ pc[c] = "reply" /\ op[c] # "none"
  /\ End(c)
  /\ UNCHANGED <<running, accepting, accept_done, shutdown, open, chan, seen, closed,
                 last, left, sched>>

HeadersResume(c) ==
  /\ pc[c] = "headers" /\ op[c] # "none"
  /\ IF op[c] = "fail" THEN CancelAndEnd(c)
     ELSE /\ pc' = [pc EXCEPT ![c] = "receive"]
          /\ op' = [op EXCEPT ![c] = "none"]
          /\ UNCHANGED <<active, sent, cancelled>>
  /\ UNCHANGED <<running, accepting, accept_done, shutdown, open, chan, seen, closed,
                 last, left, request, count, mail>>

(* A closed channel still hands out what it holds. *)
ReceiveResumes(c) ==
  /\ pc[c] = "receive"
  /\ \/ /\ chan[c] # <<>>
        /\ chan' = [chan EXCEPT ![c] = Tail(@)]
        /\ seen' = [seen EXCEPT ![c] = @ + 1]
        /\ last' = [last EXCEPT ![c] = Head(chan[c]).last]
        /\ Await(c, "write") /\ UNCHANGED cancelled
     \/ /\ chan[c] = <<>> /\ c \in closed
        /\ CancelAndEnd(c) /\ UNCHANGED <<chan, seen, last>>
  /\ UNCHANGED <<running, accepting, accept_done, shutdown, open, closed, left,
                 request, count, mail>>

(* Faulty variant: a failed write ends the connection and nothing else. *)
WriteResumesSilently(c) ==
  /\ pc[c] = "write" /\ op[c] # "none"
  /\ IF op[c] = "fail" \/ last[c] THEN End(c)
     ELSE /\ pc' = [pc EXCEPT ![c] = "receive"]
          /\ op' = [op EXCEPT ![c] = "none"]
          /\ UNCHANGED <<active, sent>>
  /\ UNCHANGED <<running, accepting, accept_done, shutdown, open, chan, seen, closed,
                 last, left, sched>>

WriteResumes(c) ==
  /\ pc[c] = "write" /\ op[c] # "none"
  /\ IF op[c] = "fail" THEN CancelAndEnd(c)
     ELSE /\ UNCHANGED cancelled
          /\ IF last[c] THEN End(c)
             ELSE /\ pc' = [pc EXCEPT ![c] = "receive"]
                  /\ op' = [op EXCEPT ![c] = "none"]
                  /\ UNCHANGED <<active, sent>>
  /\ UNCHANGED <<running, accepting, accept_done, shutdown, open, chan, seen, closed,
                 last, left, request, count, mail>>

-----------------------------------------------------------------------------
(* Shutdown. *)

(* shutdown_async on the main thread. *)
ShutdownAsync ==
  /\ shutdown = "none"
  /\ running' = FALSE
  /\ shutdown' = "posted"
  /\ UNCHANGED <<accepting, accept_done, active, sent, conns, left, sched>>

(* Faulty variant: only the sockets are closed. *)
NoChannels == {}

(* The channels that the shutdown closes: those of the chat requests. *)
ChannelsToClose == {c \in active : request[c] # "none"}

(* Its handler on http_io: the acceptor and every active connection are    *)
(* closed, which aborts the operations that are still pending.             *)
ShutdownHandler ==
  /\ shutdown = "posted"
  /\ shutdown' = "handled"
  /\ acceptor' = IF acceptor = "waiting" THEN "failed" ELSE acceptor
  /\ open' = open \ active
  /\ op' = [c \in Conn |-> IF c \in active /\ IoPending(c) THEN "fail" ELSE op[c]]
  /\ closed' = closed \union ChannelsToClose
  /\ cancelled' = cancelled \union {c \in active : request[c] # "none"}
  /\ TryFinish(accept_done, active)
  /\ UNCHANGED <<running, errors, accept_done, active, pc, chan, seen, last,
                 left, request, count, mail>>

-----------------------------------------------------------------------------
(* The scheduler: Scheduler::send_event, and the removal of a request.     *)

Expired(c) == pc[c] = "done"

(* Events are still sent between the call of cancel and its posted handler. *)
SchedulerSends(c, e) ==
  /\ request[c] = "active" /\ count[c] < MaxEvents
  /\ count' = [count EXCEPT ![c] = @ + 1]
  /\ mail' = IF Expired(c) THEN mail ELSE Append(mail,
                 [conn |-> c, event |-> [n |-> count'[c], last |-> e = "end"]])
  /\ request' = [request EXCEPT ![c] = IF e = "end" \/ Expired(c) THEN "ended"
                                                                  ELSE @]
  /\ UNCHANGED <<running, accepting, accept_done, active, shutdown, sent, conns,
                 left, cancelled>>

(* The handler that cancel posted has run. *)
SchedulerDrops(c) ==
  /\ request[c] = "active" /\ c \in cancelled
  /\ request' = [request EXCEPT ![c] = "ended"]
  /\ UNCHANGED <<running, accepting, accept_done, active, shutdown, sent, conns,
                 left, cancelled, count, mail>>

(* Faulty variant: an event that the channel has no room for (one event of *)
(* room, here) is dropped, as by try_send.                                 *)
DeliverEventIfRoom ==
  /\ mail # <<>>
  /\ mail' = Tail(mail)
  /\ LET c == Head(mail).conn
     IN  IF Expired(c) \/ c \in closed
         THEN cancelled' = cancelled \union {c} /\ UNCHANGED chan
         ELSE chan' = [chan EXCEPT ![c] = IF @ = <<>> THEN <<Head(mail).event>> ELSE @]
              /\ UNCHANGED cancelled
  /\ UNCHANGED <<running, accepting, accept_done, active, shutdown, sent, pc, op,
                 open, seen, closed, last, left, request, count>>

(* The handler that send_event posted: to the channel, or on_send_failed.  *)
(* async_send on a full channel waits for room behind the earlier sends.   *)
DeliverEvent ==
  /\ mail # <<>>
  /\ mail' = Tail(mail)
  /\ LET c == Head(mail).conn
     IN  IF Expired(c) \/ c \in closed
         THEN cancelled' = cancelled \union {c} /\ UNCHANGED chan
         ELSE chan' = [chan EXCEPT ![c] = Append(@, Head(mail).event)]
              /\ UNCHANGED cancelled
  /\ UNCHANGED <<running, accepting, accept_done, active, shutdown, sent, pc, op,
                 open, seen, closed, last, left, request, count>>

-----------------------------------------------------------------------------
Resumes(c) == \/ ReadResumes(c) \/ ReplyResumes(c) \/ HeadersResume(c)
              \/ ReceiveResumes(c) \/ WriteResumes(c)

Network(c) == \/ Connect(c) \/ IoSucceeds(c) \/ IoFails(c) \/ Leave(c)
              \/ AcceptCompletes(c)

Next == \/ \E c \in Conn : \/ Network(c) \/ Resumes(c) \/ SchedulerDrops(c)
                           \/ \E e \in {"token", "end"} : SchedulerSends(c, e)
        \/ AcceptError \/ AcceptResumes \/ ShutdownAsync \/ ShutdownHandler
        \/ DeliverEvent

Spec == Init /\ [][Next]_vars

(* The http thread runs: what can be resumed is resumed, posted handlers   *)
(* run.  Clients owe nothing, and neither does the scheduler.              *)
FairSpec == /\ Spec
            /\ \A c \in Conn : WF_vars(Resumes(c))
            /\ WF_vars(AcceptResumes) /\ WF_vars(ShutdownHandler)
            /\ WF_vars(DeliverEvent)

-----------------------------------------------------------------------------
(* A connection that is gone leaves no request running for nobody: the     *)
(* request has ended or the scheduler has been told to cancel it, on every *)
(* way out of handle_chat.                                                 *)
NoOrphanRequest ==
  \A c \in Conn : pc[c] = "done" /\ request[c] = "active" => c \in cancelled

(* The shutdown future is set when nothing of the server is left: the      *)
(* accept loop has ended and no connection coroutine exists or can come    *)
(* into being (http_server.h: "the accept loop has exited and all active   *)
(* connections have been cleaned up").                                     *)
DrainIsComplete ==
  sent > 0 => /\ acceptor = "done" /\ active = {}
              /\ \A c \in Conn : pc[c] \in {"away", "backlog", "done"}

(* What send_event posts for a connection, and the events in messages.     *)
Event == [n : Nat, last : BOOLEAN]
MessagesTo(c) == [conn : {c}, event : Event]
EventsOf(messages) == [i \in DOMAIN messages |-> messages[i].event]

(* Between the scheduler thread and the connection no event is lost,       *)
(* repeated or overtaken, however slow the client reads: while the channel *)
(* is open, what was received, what the channel holds, what waits for room *)
(* in it and what is posted to http_io are the events sent so far, in the  *)
(* order in which they were sent.                                          *)
StreamInOrder ==
  \A c \in Conn : c \notin closed /\ pc[c] # "done" =>
    LET coming == chan[c] \o EventsOf(Keep(mail, MessagesTo(c)))
    IN  /\ seen[c] + Len(coming) = count[c]
        /\ \A i \in DOMAIN coming : coming[i].n = seen[c] + i

(* A connection that the shutdown has closed ends by itself, wherever its  *)
(* coroutine was and whatever it was waiting for.                          *)
ClosedConnectionsEnd == \A c \in Conn : c \notin open ~> pc[c] = "done"

(* main.cpp:202: "HttpServer shutdown closes sockets/channels and drains   *)
(* HTTP coroutines": after its handler every active connection is closed.  *)
ShutdownClosesSockets == shutdown = "handled" => active \intersect open = {}

(* main.cpp:203: after the HTTP drain "no TokenSink callbacks can race     *)
(* with scheduler cleanup": no handler of send_event, which ends in        *)
(* on_send_failed when its connection is gone, is left on http_io.         *)
NoCallbackAfterDrain == sent > 0 => mail = <<>>
==============================================================================
