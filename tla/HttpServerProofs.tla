-------------------------- MODULE HttpServerProofs ---------------------------
(***************************************************************************)
(* HttpServer for any set of connections, any number of events per request *)
(* and any number of accept errors: no request is left running for a       *)
(* connection that has gone, the shutdown future is set only when nothing  *)
(* is left, and the events of a stream are received in the order in which  *)
(* the scheduler sent them.                                                *)
(*                                                                         *)
(* HttpInv is the inductive invariant.  LoopInv says how the accept loop,  *)
(* active_conns_ and the shutdown promise depend on each other; EndInv     *)
(* that a frame marked last, wherever it is on its way, belongs to a       *)
(* request that the scheduler has ended: this is why handle_chat may leave *)
(* without a cancel after it has written such a frame.                     *)
(***************************************************************************)
EXTENDS HttpServer, CollectionLemmas

(* The places of a coroutine: before a request could be submitted, and     *)
(* while handle_connection runs.                                           *)
Early == {"away", "backlog", "accepted", "read", "reply"}
Live  == {"read", "reply", "headers", "receive", "write"}
Place == Early \union Live \union {"done"}

Message == [conn : Conn, event : Event]

LoopType ==
  /\ running \in BOOLEAN /\ accept_done \in BOOLEAN
  /\ acceptor \in {"waiting", "ready", "failed", "retry", "done"}
  /\ active \subseteq Conn /\ closed \subseteq Conn
  /\ shutdown \in {"none", "posted", "handled"} /\ sent \in Nat
  /\ pc \in [Conn -> Place] /\ op \in [Conn -> {"none", "ok", "fail"}]

StreamType ==
  /\ chan \in [Conn -> Seq(Event)] /\ seen \in [Conn -> Nat]
  /\ last \in [Conn -> BOOLEAN]
  /\ request \in [Conn -> {"none", "active", "ended"}]
  /\ count \in [Conn -> Nat] /\ mail \in Seq(Message)

TypeOK == LoopType /\ StreamType

LoopInv ==
  /\ \A c \in Conn : c \in active <=> pc[c] \in Live
  /\ accept_done <=> acceptor = "done"
  /\ \A c \in Conn : pc[c] = "accepted" => acceptor = "ready"
  /\ \A c, d \in Conn : pc[c] = "accepted" /\ pc[d] = "accepted" => c = d
  /\ running <=> shutdown = "none"
  /\ acceptor = "done" => ~running
  /\ sent > 0 => acceptor = "done" /\ active = {}

EndInv ==
  /\ \A c \in Conn : pc[c] \in Early => request[c] = "none"
  /\ \A c \in Conn : last[c] => request[c] = "ended"
  /\ \A c \in Conn : \A i \in DOMAIN chan[c] :
       chan[c][i].last => request[c] = "ended"
  /\ \A i \in DOMAIN mail : mail[i].event.last => request[mail[i].conn] = "ended"

HttpInv == TypeOK /\ LoopInv /\ EndInv /\ NoOrphanRequest /\ StreamInOrder

-----------------------------------------------------------------------------
(* The initial state satisfies the invariant. *)
LEMMA InitHttp == Init => HttpInv
<1> SUFFICES ASSUME Init PROVE HttpInv
  OBVIOUS
<1>1. LoopType
  BY DEF Init, LoopType, Place, Early
<1>2. StreamType
  BY DEF Init, StreamType
<1>3. LoopInv
  BY DEF Init, LoopInv, Live
<1>4. EndInv /\ NoOrphanRequest
  BY DEF Init, EndInv, NoOrphanRequest
<1>5. StreamInOrder
  <2>1. \A c \in Conn : Keep(mail, MessagesTo(c)) = <<>>
    BY KeepEmpty DEF Init
  <2>2. \A c \in Conn : chan[c] = <<>> /\ seen[c] = 0 /\ count[c] = 0
    BY DEF Init
  <2>3. EventsOf(<<>>) = <<>>
    BY DEF EventsOf
  <2> QED
    BY <2>1, <2>2, <2>3 DEF StreamInOrder
<1> QED
  BY <1>1, <1>2, <1>3, <1>4, <1>5 DEF HttpInv, TypeOK

(* A posted message names a connection and carries an event. *)
LEMMA Posted ==
  ASSUME TypeOK
  PROVE  \A i \in DOMAIN mail : /\ mail[i] \in Message /\ mail[i].conn \in Conn
                                /\ mail[i].event \in Event
<1> TAKE i \in DOMAIN mail
<1>1. mail[i] \in Message
  BY DEF TypeOK, StreamType
<1> QED
  BY <1>1 DEF Message

(* The oldest message, and the ones behind it. *)
LEMMA OldestMessage ==
  ASSUME TypeOK, mail # <<>>
  PROVE  /\ Head(mail) \in Message /\ Head(mail).conn \in Conn
         /\ Head(mail).event \in Event
         /\ 1 \in DOMAIN mail /\ Head(mail) = mail[1]
         /\ Tail(mail) \in Seq(Message)
         /\ \A i \in DOMAIN Tail(mail) : i + 1 \in DOMAIN mail
                                         /\ Tail(mail)[i] = mail[i + 1]
<1>1. mail \in Seq(Message)
  BY DEF TypeOK, StreamType
<1>2. /\ 1 \in DOMAIN mail /\ Head(mail) = mail[1] /\ Tail(mail) \in Seq(Message)
      /\ \A i \in DOMAIN Tail(mail) : i + 1 \in DOMAIN mail /\ Tail(mail)[i] = mail[i + 1]
  BY <1>1
<1> QED
  BY <1>2, Posted

(* What the resumption of a coroutine does to the accept loop and the      *)
(* shutdown: it goes on to another operation, or it ends.                  *)
GoesOn(c) ==
  /\ \E at \in {"reply", "headers", "receive", "write"} :
       pc' = [pc EXCEPT ![c] = at] /\ (at = "reply" => pc[c] = "read")
  /\ \E o \in {"none", "ok", "fail"} : op' = [op EXCEPT ![c] = o]
  /\ UNCHANGED <<active, sent>>

(* What the resumption of a connection coroutine may do to the rest of the *)
(* server: it goes on, or it ends.                                         *)
LEMMA ResumeMoves ==
  ASSUME NEW c \in Conn, Resumes(c)
  PROVE  /\ pc[c] \in Live /\ (GoesOn(c) \/ End(c))
         /\ UNCHANGED <<running, acceptor, accept_done, shutdown, closed, count, mail>>
<1> USE DEF Live, accepting, sched
<1>1. \A at \in {"reply", "headers", "write"} :
        Await(c, at) /\ (at = "reply" => pc[c] = "read") => GoesOn(c)
  BY DEF Await, GoesOn
<1>2. CASE ReadResumes(c)
  BY <1>1, <1>2 DEF ReadResumes, HandleChat
<1>3. CASE ReplyResumes(c)
  BY <1>3 DEF ReplyResumes
<1>4. CASE HeadersResume(c)
  BY <1>4 DEF HeadersResume, CancelAndEnd, GoesOn
<1>5. CASE ReceiveResumes(c)
  BY <1>1, <1>5 DEF ReceiveResumes, CancelAndEnd
<1>6. CASE WriteResumes(c)
  BY <1>6 DEF WriteResumes, CancelAndEnd, GoesOn
<1> QED
  BY <1>2, <1>3, <1>4, <1>5, <1>6 DEF Resumes

(* A turn of the accept loop. *)
LEMMA AcceptTurn ==
  ASSUME LoopType, NEW act, NEW again, AcceptNext(again, act)
  PROVE  /\ acceptor' = (IF running THEN again ELSE "done")
         /\ accept_done' = (IF running THEN accept_done ELSE TRUE)
         /\ sent' \in Nat
         /\ running => sent' = sent
         /\ sent' > 0 => sent > 0 \/ act = {}
<1>1. CASE running
  BY <1>1 DEF AcceptNext, LoopType
<1>2. CASE ~running
  <2>1. acceptor' = "done" /\ accept_done' = TRUE /\ TryFinish(TRUE, act)
    BY <1>2 DEF AcceptNext
  <2>2. sent' = IF sent = 0 /\ act = {} /\ shutdown # "none" THEN sent + 1 ELSE sent
    BY <1>2, <2>1 DEF TryFinish
  <2> QED
    BY <1>2, <2>1, <2>2 DEF LoopType
<1> QED
  BY <1>1, <1>2

(* Every handler keeps the variables in their types. *)
LEMMA NextType == TypeOK /\ [Next]_vars => TypeOK'
<1> SUFFICES ASSUME TypeOK, [Next]_vars PROVE TypeOK'
  OBVIOUS
<1> USE DEF TypeOK
<1>0. CASE UNCHANGED vars
  BY <1>0 DEF vars, accepting, conns, sched, LoopType, StreamType, Place, Early
<1>1. ASSUME NEW c \in Conn, Connect(c) PROVE TypeOK'
  BY <1>1 DEF Connect, accepting, conns, sched, LoopType, StreamType, Place, Early
<1>2. ASSUME NEW c \in Conn, IoSucceeds(c) PROVE TypeOK'
  BY <1>2 DEF IoSucceeds, IoPending, accepting, conns, sched, LoopType, StreamType,
       Place, Early
<1>3. ASSUME NEW c \in Conn, IoFails(c) PROVE TypeOK'
  BY <1>3 DEF IoFails, IoPending, accepting, conns, sched, LoopType, StreamType,
       Place, Early
<1>4. ASSUME NEW c \in Conn, Leave(c) PROVE TypeOK'
  BY <1>4 DEF Leave, accepting, conns, sched, LoopType, StreamType, Place, Early
<1>5. ASSUME NEW c \in Conn, AcceptCompletes(c) PROVE TypeOK'
  BY <1>5 DEF AcceptCompletes, accepting, conns, sched, LoopType, StreamType, Place,
       Early
<1>6. ASSUME NEW c \in Conn, Resumes(c) PROVE TypeOK'
  <2>1. LoopType'
    BY <1>6, ResumeMoves DEF GoesOn, End, TryFinish, LoopType, Place, Early, Live
  <2>2. StreamType'
    <3>1. CASE ReadResumes(c)
      BY <3>1 DEF ReadResumes, HandleChat, StreamType
    <3>2. CASE ReplyResumes(c)
      BY <3>2 DEF ReplyResumes, StreamType, sched
    <3>3. CASE HeadersResume(c)
      BY <3>3 DEF HeadersResume, StreamType
    <3>4. CASE ReceiveResumes(c)
      <4>0. UNCHANGED <<request, count, mail>>
        BY <3>4 DEF ReceiveResumes
      <4>1. CASE chan[c] = <<>>
        BY <3>4, <4>0, <4>1 DEF ReceiveResumes, StreamType
      <4>2. CASE chan[c] # <<>>
        <5>a. /\ chan' = [chan EXCEPT ![c] = Tail(chan[c])]
              /\ seen' = [seen EXCEPT ![c] = seen[c] + 1]
          BY <3>4, <4>2 DEF ReceiveResumes
        <5>b. last' = [last EXCEPT ![c] = Head(chan[c]).last]
          BY <3>4, <4>2 DEF ReceiveResumes
        <5>1. chan[c] \in Seq(Event) /\ Head(chan[c]) \in Event /\ Tail(chan[c]) \in Seq(Event)
          BY <4>2 DEF StreamType
        <5>2. Head(chan[c]).last \in BOOLEAN
          BY <5>1 DEF Event
        <5>3. last' \in [Conn -> BOOLEAN]
          BY <5>b, <5>2 DEF StreamType
        <5>4. chan' \in [Conn -> Seq(Event)] /\ seen' \in [Conn -> Nat]
          BY <5>a, <5>1 DEF StreamType
        <5> QED
          BY <4>0, <5>3, <5>4 DEF StreamType
      <4> QED
        BY <4>1, <4>2
    <3>5. CASE WriteResumes(c)
      BY <3>5 DEF WriteResumes, StreamType
    <3> QED
      BY <1>6, <3>1, <3>2, <3>3, <3>4, <3>5 DEF Resumes
  <2> QED
    BY <2>1, <2>2
<1>7. ASSUME NEW c \in Conn, SchedulerDrops(c) PROVE TypeOK'
  BY <1>7 DEF SchedulerDrops, accepting, conns, sched, LoopType, StreamType, Place,
       Early
<1>8. ASSUME NEW c \in Conn, NEW e \in {"token", "end"}, SchedulerSends(c, e)
       PROVE  TypeOK'
  <2>1. LoopType'
    BY <1>8 DEF SchedulerSends, accepting, conns, LoopType
  <2>2. count' \in [Conn -> Nat] /\ request' \in [Conn -> {"none", "active", "ended"}]
    BY <1>8 DEF SchedulerSends, StreamType
  <2>3. [conn |-> c, event |-> [n |-> count'[c], last |-> e = "end"]] \in Message
    BY <2>2 DEF Message, Event
  <2>4. mail' \in Seq(Message)
    BY <1>8, <2>3 DEF SchedulerSends, StreamType
  <2> QED
    BY <1>8, <2>1, <2>2, <2>4 DEF SchedulerSends, StreamType, conns
<1>9. CASE AcceptResumes
  <2>1. StreamType'
    BY <1>9 DEF AcceptResumes, StreamType, conns, sched
  <2>2. PICK again \in {"waiting", "retry"}, act \in SUBSET Conn : AcceptNext(again, act)
    BY <1>9 DEF AcceptResumes, LoopType
  <2>3. /\ running' = running /\ shutdown' = shutdown /\ closed' = closed /\ op' = op
        /\ active' \subseteq Conn /\ pc' \in [Conn -> Place]
    BY <1>9 DEF AcceptResumes, LoopType, Place, Live, conns
  <2> QED
    BY <2>1, <2>2, <2>3, AcceptTurn DEF LoopType
<1>10. CASE AcceptError
  BY <1>10 DEF AcceptError, accepting, conns, sched, LoopType, StreamType, Place,
       Early
<1>11. CASE ShutdownAsync
  BY <1>11 DEF ShutdownAsync, accepting, conns, sched, LoopType, StreamType, Place,
       Early
<1>12. CASE ShutdownHandler
  BY <1>12 DEF ShutdownHandler, TryFinish, IoPending, ChannelsToClose, accepting,
       conns, sched, LoopType, StreamType, Place, Early
<1>13. CASE DeliverEvent
  <2>1. LoopType'
    BY <1>13 DEF DeliverEvent, accepting, LoopType
  <2>2. /\ mail # <<>> /\ Head(mail) \in Message /\ Tail(mail) \in Seq(Message)
    BY <1>13 DEF DeliverEvent, StreamType
  <2>3. Head(mail).conn \in Conn /\ Head(mail).event \in Event
    BY <2>2 DEF Message
  <2>4. chan' \in [Conn -> Seq(Event)]
    <3>1. chan \in [Conn -> Seq(Event)]
      BY DEF StreamType
    <3>2. Append(chan[Head(mail).conn], Head(mail).event) \in Seq(Event)
      BY <2>3, <3>1
    <3>3. \/ chan' = chan
          \/ chan' = [chan EXCEPT ![Head(mail).conn] =
                        Append(chan[Head(mail).conn], Head(mail).event)]
      BY <1>13 DEF DeliverEvent
    <3> QED
      BY <2>3, <3>1, <3>2, <3>3
  <2> QED
    BY <1>13, <2>1, <2>2, <2>4 DEF DeliverEvent, StreamType
<1> HIDE DEF TypeOK
<1> QED
  BY <1>0, <1>1, <1>2, <1>3, <1>4, <1>5, <1>6, <1>7, <1>8, <1>9, <1>10, <1>11, <1>12,
       <1>13 DEF Next, Network

(* ... and the accept loop, the connections and the shutdown in step. *)
LEMMA NextLoop == TypeOK /\ LoopInv /\ [Next]_vars => LoopInv'
<1> SUFFICES ASSUME TypeOK, LoopInv, [Next]_vars PROVE LoopInv'
  OBVIOUS
<1> USE DEF LoopInv
<1>0. CASE UNCHANGED vars
  BY <1>0 DEF vars, accepting, conns, sched, TypeOK, LoopType, Live
<1>1. ASSUME NEW c \in Conn, Connect(c) PROVE LoopInv'
  BY <1>1 DEF Connect, accepting, conns, sched, TypeOK, LoopType, Live
<1>2. ASSUME NEW c \in Conn, IoSucceeds(c) PROVE LoopInv'
  BY <1>2 DEF IoSucceeds, IoPending, accepting, conns, sched, TypeOK, LoopType, Live
<1>3. ASSUME NEW c \in Conn, IoFails(c) PROVE LoopInv'
  BY <1>3 DEF IoFails, IoPending, accepting, conns, sched, TypeOK, LoopType, Live
<1>4. ASSUME NEW c \in Conn, Leave(c) PROVE LoopInv'
  BY <1>4 DEF Leave, accepting, conns, sched, TypeOK, LoopType, Live
<1>5. ASSUME NEW c \in Conn, AcceptCompletes(c) PROVE LoopInv'
  BY <1>5 DEF AcceptCompletes, accepting, conns, sched, TypeOK, LoopType, Live
<1>6. ASSUME NEW c \in Conn, Resumes(c) PROVE LoopInv'
  <2>1. CASE GoesOn(c)
    <3>1. PICK at \in {"reply", "headers", "receive", "write"} :
            pc' = [pc EXCEPT ![c] = at]
      BY <2>1 DEF GoesOn
    <3>2. \A d \in Conn : /\ pc'[d] \in Live <=> pc[d] \in Live
                          /\ pc'[d] = "accepted" => pc[d] = "accepted"
      BY <1>6, <3>1, ResumeMoves DEF Live, TypeOK, LoopType
    <3> QED
      BY <1>6, <2>1, <3>2, ResumeMoves DEF GoesOn
  <2>2. CASE End(c)
    <3>1. /\ pc' = [pc EXCEPT ![c] = "done"] /\ active' = active \ {c}
          /\ sent' > 0 => sent > 0 \/ (accept_done /\ active' = {})
      BY <2>2 DEF End, TryFinish, TypeOK, LoopType
    <3> QED
      BY <1>6, <3>1, ResumeMoves DEF Live, TypeOK, LoopType
  <2> QED
    BY <1>6, <2>1, <2>2, ResumeMoves
<1>7. ASSUME NEW c \in Conn, SchedulerDrops(c) PROVE LoopInv'
  BY <1>7 DEF SchedulerDrops, accepting, conns, sched, TypeOK, LoopType, Live
<1>8. ASSUME NEW c \in Conn, NEW e \in {"token", "end"}, SchedulerSends(c, e)
       PROVE  LoopInv'
  BY <1>8 DEF SchedulerSends, Expired, accepting, conns, sched, TypeOK, LoopType,
       Live
<1>9. CASE AcceptResumes
  <2>1. running' = running /\ shutdown' = shutdown
    BY <1>9 DEF AcceptResumes
  <2>2. CASE acceptor = "ready"
    <3>1. PICK c \in Conn : /\ pc[c] = "accepted" /\ pc' = [pc EXCEPT ![c] = "read"]
                            /\ active' = active \union {c}
      BY <1>9, <2>2 DEF AcceptResumes
    <3>2. AcceptNext("waiting", active')
      BY <1>9, <2>2 DEF AcceptResumes
    <3>3. /\ \A d \in Conn : pc'[d] # "accepted"
          /\ \A d \in Conn : d \in active' <=> pc'[d] \in Live
          /\ active' # {} /\ sent = 0
      BY <2>2, <3>1 DEF TypeOK, LoopType, Live
    <3>4. /\ acceptor' = (IF running THEN "waiting" ELSE "done")
          /\ accept_done' = (IF running THEN accept_done ELSE TRUE)
          /\ ~(sent' > 0)
      <4>1. PICK act : act = active' /\ AcceptNext("waiting", act)
        BY <3>2 DEF AcceptNext, TryFinish
      <4>2. act # {} /\ sent = 0 /\ LoopType
        BY <3>3, <4>1 DEF TypeOK
      <4>3. /\ acceptor' = (IF running THEN "waiting" ELSE "done")
            /\ accept_done' = (IF running THEN accept_done ELSE TRUE)
            /\ sent' > 0 => sent > 0 \/ act = {}
        BY <4>1, <4>2, AcceptTurn
      <4> QED
        BY <4>2, <4>3
    <3> QED
      BY <2>1, <2>2, <3>3, <3>4 DEF TypeOK, LoopType
  <2>3. CASE acceptor # "ready"
    <3>1. /\ UNCHANGED <<active, pc>> /\ acceptor # "done"
          /\ \E again \in {"waiting", "retry"} : AcceptNext(again, active)
      BY <1>9, <2>3 DEF AcceptResumes, conns
    <3> QED
      BY <2>1, <2>3, <3>1, AcceptTurn DEF TypeOK, LoopType, Live
  <2> QED
    BY <2>2, <2>3
<1>10. CASE AcceptError
  BY <1>10 DEF AcceptError, accepting, conns, sched, TypeOK, LoopType, Live
<1>11. CASE ShutdownAsync
  BY <1>11 DEF ShutdownAsync, accepting, conns, sched, TypeOK, LoopType, Live
<1>12. CASE ShutdownHandler
  BY <1>12 DEF ShutdownHandler, TryFinish, IoPending, ChannelsToClose, accepting,
       conns, sched, TypeOK, LoopType, Live
<1>13. CASE DeliverEvent
  BY <1>13 DEF DeliverEvent, Expired, accepting, conns, sched, TypeOK, LoopType,
       Live
<1> HIDE DEF LoopInv
<1> QED
  BY <1>0, <1>1, <1>2, <1>3, <1>4, <1>5, <1>6, <1>7, <1>8, <1>9, <1>10, <1>11, <1>12,
       <1>13 DEF Next, Network

(* ... and the frames marked last behind the end of their request. *)
LEMMA NextEnd == TypeOK /\ EndInv /\ [Next]_vars => EndInv'
<1> SUFFICES ASSUME TypeOK, EndInv, [Next]_vars PROVE EndInv'
  OBVIOUS
<1> USE DEF EndInv
<1>0. CASE UNCHANGED vars
  BY <1>0 DEF vars, accepting, conns, sched, TypeOK, LoopType, StreamType, Early
<1>1. ASSUME NEW c \in Conn, Connect(c) PROVE EndInv'
  BY <1>1 DEF Connect, accepting, conns, sched, TypeOK, LoopType, StreamType, Early
<1>2. ASSUME NEW c \in Conn, IoSucceeds(c) PROVE EndInv'
  BY <1>2 DEF IoSucceeds, IoPending, accepting, conns, sched, TypeOK, LoopType,
       StreamType, Early
<1>3. ASSUME NEW c \in Conn, IoFails(c) PROVE EndInv'
  BY <1>3 DEF IoFails, IoPending, accepting, conns, sched, TypeOK, LoopType,
       StreamType, Early
<1>4. ASSUME NEW c \in Conn, Leave(c) PROVE EndInv'
  BY <1>4 DEF Leave, accepting, conns, sched, TypeOK, LoopType, StreamType, Early
<1>5. ASSUME NEW c \in Conn, AcceptCompletes(c) PROVE EndInv'
  BY <1>5 DEF AcceptCompletes, accepting, conns, sched, TypeOK, LoopType,
       StreamType, Early
<1>6. ASSUME NEW c \in Conn, Resumes(c) PROVE EndInv'
  <2>1. pc' \in [Conn -> Place] /\ \A d \in Conn : pc'[d] \in Early => pc[d] \in Early
    <3>0. pc \in [Conn -> Place]
      BY DEF TypeOK, LoopType
    <3>1. PICK at \in {"reply", "headers", "receive", "write", "done"} :
            pc' = [pc EXCEPT ![c] = at] /\ (at = "reply" => pc[c] = "read")
      BY <1>6, ResumeMoves DEF GoesOn, End
    <3> QED
      BY <3>0, <3>1 DEF Place, Early, Live
  <2>2. mail' = mail
    BY <1>6, ResumeMoves
  <2>3. CASE ReadResumes(c)
    <3>1. pc[c] \in Early
      BY <2>3 DEF ReadResumes, Early
    <3>2. UNCHANGED <<last, chan>>
      BY <2>3 DEF ReadResumes
    <3>3. CASE request' = request
      BY <2>1, <2>2, <3>2, <3>3
    <3>4. CASE HandleChat(c)
      <4>1. request' = [request EXCEPT ![c] = "active"] /\ pc' = [pc EXCEPT ![c] = "headers"]
        BY <3>4 DEF HandleChat, Await
      <4>2. request[c] # "ended" /\ pc'[c] \notin Early
        BY <3>1, <4>1 DEF TypeOK, LoopType, Early
      <4>3. \A d \in Conn : request[d] = "ended" => request'[d] = "ended"
        BY <4>1, <4>2 DEF TypeOK, StreamType
      <4>4. \A d \in Conn \ {c} : request'[d] = request[d]
        BY <4>1 DEF TypeOK, StreamType
      <4>5. \A i \in DOMAIN mail : mail[i].conn \in Conn
        BY Posted
      <4> QED
        BY <2>1, <2>2, <3>2, <4>2, <4>3, <4>4, <4>5
    <3> QED
      BY <2>3, <3>3, <3>4 DEF ReadResumes
  <2>4. CASE ReceiveResumes(c) /\ chan[c] # <<>>
    <3>1. chan' = [chan EXCEPT ![c] = Tail(chan[c])] /\ request' = request
      BY <2>4 DEF ReceiveResumes
    <3>2. last' = [last EXCEPT ![c] = Head(chan[c]).last]
      BY <2>4 DEF ReceiveResumes
    <3>3. chan[c] \in Seq(Event) /\ 1 \in DOMAIN chan[c] /\ Head(chan[c]) = chan[c][1]
      BY <2>4 DEF TypeOK, StreamType
    <3>4. \A d \in Conn : last'[d] => request[d] = "ended"
      BY <3>2, <3>3 DEF TypeOK, StreamType
    <3>5. \A i \in DOMAIN Tail(chan[c]) : i + 1 \in DOMAIN chan[c]
                                          /\ Tail(chan[c])[i] = chan[c][i + 1]
      BY <2>4, <3>3
    <3>6. \A d \in Conn : \A i \in DOMAIN chan'[d] : chan'[d][i].last => request[d] = "ended"
      BY <3>1, <3>5 DEF TypeOK, StreamType
    <3> QED
      BY <2>1, <2>2, <3>1, <3>4, <3>6
  <2>5. CASE UNCHANGED <<request, last, chan>>
    BY <2>1, <2>2, <2>5
  <2> QED
    BY <1>6, <2>3, <2>4, <2>5 DEF Resumes, ReplyResumes, HeadersResume, ReceiveResumes, WriteResumes, sched
<1>7. ASSUME NEW c \in Conn, SchedulerDrops(c) PROVE EndInv'
  <2>1. UNCHANGED <<pc, last, chan, mail>>
    BY <1>7 DEF SchedulerDrops, conns
  <2>2. \A d \in Conn : /\ request[d] = "ended" => request'[d] = "ended"
                        /\ request[d] = "none" => request'[d] = "none"
    BY <1>7 DEF SchedulerDrops, TypeOK, StreamType
  <2>3. \A i \in DOMAIN mail : mail[i].conn \in Conn
    BY Posted
  <2> QED
    BY <2>1, <2>2, <2>3
<1>8. ASSUME NEW c \in Conn, NEW e \in {"token", "end"}, SchedulerSends(c, e)
       PROVE  EndInv'
  <2>1. UNCHANGED <<pc, last, chan>>
    BY <1>8 DEF SchedulerSends, conns
  <2>2. \A d \in Conn : request[d] = "ended" => request'[d] = "ended"
    BY <1>8 DEF SchedulerSends, TypeOK, StreamType
  <2>3. \A d \in Conn : request[d] = "none" => request'[d] = "none"
    BY <1>8 DEF SchedulerSends, TypeOK, StreamType
  <2>4. \A i \in DOMAIN mail' : mail'[i].event.last => request'[mail'[i].conn] = "ended"
    <3>1. \A i \in DOMAIN mail : mail[i].conn \in Conn
      BY Posted
    <3>2. CASE mail' = mail
      BY <2>2, <3>1, <3>2
    <3>3. CASE mail' # mail
      <4> DEFINE msg == [conn |-> c, event |-> [n |-> count'[c], last |-> e = "end"]]
      <4>1. mail' = Append(mail, msg)
        BY <1>8, <3>3 DEF SchedulerSends
      <4>2. msg.conn = c /\ (msg.event.last => e = "end")
        OBVIOUS
      <4>3. e = "end" => request'[c] = "ended"
        BY <1>8 DEF SchedulerSends, TypeOK, StreamType
      <4> HIDE DEF msg
      <4>4. \A i \in DOMAIN mail' : mail'[i] = msg \/ (i \in DOMAIN mail /\ mail'[i] = mail[i])
        BY <4>1 DEF TypeOK, StreamType
      <4> QED
        BY <2>2, <3>1, <4>2, <4>3, <4>4
    <3> QED
      BY <3>2, <3>3
  <2> QED
    BY <2>1, <2>2, <2>3, <2>4
<1>9. CASE AcceptResumes
  BY <1>9 DEF AcceptResumes, accepting, conns, sched, TypeOK, LoopType, StreamType,
       Early
<1>10. CASE AcceptError
  BY <1>10 DEF AcceptError, accepting, conns, sched, TypeOK, LoopType, StreamType,
       Early
<1>11. CASE ShutdownAsync
  BY <1>11 DEF ShutdownAsync, accepting, conns, sched, TypeOK, LoopType, StreamType,
       Early
<1>12. CASE ShutdownHandler
  BY <1>12 DEF ShutdownHandler, TryFinish, IoPending, ChannelsToClose, accepting,
       conns, sched, TypeOK, LoopType, StreamType, Early
<1>13. CASE DeliverEvent
  <2> DEFINE c == Head(mail).conn
             event == Head(mail).event
  <2>1. UNCHANGED <<pc, last, request>> /\ mail # <<>> /\ mail' = Tail(mail)
    BY <1>13 DEF DeliverEvent
  <2>2. /\ \A i \in DOMAIN Tail(mail) : i + 1 \in DOMAIN mail /\ Tail(mail)[i] = mail[i + 1]
        /\ 1 \in DOMAIN mail /\ Head(mail) = mail[1] /\ c \in Conn /\ event \in Event
    BY <2>1, OldestMessage
  <2>3. event.last => request[c] = "ended"
    BY <2>2
  <2>4. chan' = chan \/ chan' = [chan EXCEPT ![c] = Append(chan[c], event)]
    BY <1>13 DEF DeliverEvent
  <2>5. c \in Conn /\ event \in Event
    BY <2>2
  <2> HIDE DEF c, event
  <2>6. \A d \in Conn : \A i \in DOMAIN chan'[d] :
           \/ i \in DOMAIN chan[d] /\ chan'[d][i] = chan[d][i]
           \/ d = c /\ chan'[d][i] = event
    <3>1. chan \in [Conn -> Seq(Event)]
      BY DEF TypeOK, StreamType
    <3>2. \A s \in Seq(Event) : \A i \in DOMAIN Append(s, event) :
            \/ i \in DOMAIN s /\ Append(s, event)[i] = s[i]
            \/ Append(s, event)[i] = event
      BY <2>5
    <3>3. CASE chan' = [chan EXCEPT ![c] = Append(chan[c], event)]
      <4>1. chan[c] \in Seq(Event) /\ chan'[c] = Append(chan[c], event)
        BY <2>5, <3>1, <3>3
      <4>2. \A d \in Conn \ {c} : chan'[d] = chan[d]
        BY <3>1, <3>3
      <4> QED
        BY <3>2, <4>1, <4>2
    <3> QED
      BY <2>4, <3>3
  <2>7. \A i \in DOMAIN mail' : mail'[i].event.last => request'[mail'[i].conn] = "ended"
    BY <2>1, <2>2
  <2>8. \A d \in Conn : \A i \in DOMAIN chan'[d] : chan'[d][i].last => request'[d] = "ended"
    BY <2>1, <2>3, <2>6
  <2> QED
    BY <2>1, <2>7, <2>8
<1> HIDE DEF EndInv
<1> QED
  BY <1>0, <1>1, <1>2, <1>3, <1>4, <1>5, <1>6, <1>7, <1>8, <1>9, <1>10, <1>11, <1>12,
       <1>13 DEF Next, Network

(* Every way out of handle_connection: the request was never submitted, it *)
(* has ended, or the scheduler is told.                                    *)
LEMMA ResumeTells ==
  ASSUME TypeOK, EndInv, NEW c \in Conn, Resumes(c)
  PROVE  /\ cancelled \subseteq cancelled'
         /\ \A d \in Conn : request'[d] # request[d] => pc'[d] # "done"
         /\ pc'[c] = "done" /\ request[c] = "active" => c \in cancelled'
<1>0. pc \in [Conn -> Place] /\ request \in [Conn -> {"none", "active", "ended"}]
  BY DEF TypeOK, LoopType, StreamType
<1>1. CASE ReadResumes(c)
  <2>1. request[c] = "none" /\ cancelled' = cancelled
    BY <1>1 DEF ReadResumes, EndInv, Early
  <2>2. CASE HandleChat(c)
    BY <1>0, <2>1, <2>2 DEF HandleChat, Await
  <2>3. CASE request' = request
    BY <2>1, <2>3
  <2> QED
    BY <1>1, <2>2, <2>3 DEF ReadResumes
<1>2. CASE ReplyResumes(c)
  BY <1>2 DEF ReplyResumes, EndInv, Early, sched
<1>3. CASE HeadersResume(c)
  BY <1>0, <1>3 DEF HeadersResume, CancelAndEnd
<1>4. CASE ReceiveResumes(c)
  BY <1>0, <1>4 DEF ReceiveResumes, CancelAndEnd, Await
<1>5. CASE WriteResumes(c)
  <2>1. request' = request
    BY <1>5 DEF WriteResumes
  <2>2. CASE op[c] = "fail"
    BY <1>5, <2>1, <2>2 DEF WriteResumes, CancelAndEnd
  <2>3. CASE op[c] # "fail" /\ last[c]
    BY <1>5, <2>1, <2>3 DEF WriteResumes, EndInv
  <2>4. CASE op[c] # "fail" /\ ~last[c]
    BY <1>0, <1>5, <2>1, <2>4 DEF WriteResumes
  <2> QED
    BY <2>2, <2>3, <2>4
<1> QED
  BY <1>1, <1>2, <1>3, <1>4, <1>5 DEF Resumes


(* ... and no request running for a connection that has gone. *)
LEMMA NextOrphan == TypeOK /\ EndInv /\ NoOrphanRequest /\ [Next]_vars => NoOrphanRequest'
<1> SUFFICES ASSUME TypeOK, EndInv, NoOrphanRequest, [Next]_vars PROVE NoOrphanRequest'
  OBVIOUS
<1> USE DEF NoOrphanRequest
<1>0. CASE UNCHANGED vars
  BY <1>0 DEF vars, accepting, conns, sched, TypeOK, LoopType, StreamType
<1>1. ASSUME NEW c \in Conn, Connect(c) PROVE NoOrphanRequest'
  BY <1>1 DEF Connect, accepting, conns, sched, TypeOK, LoopType, StreamType
<1>2. ASSUME NEW c \in Conn, IoSucceeds(c) PROVE NoOrphanRequest'
  BY <1>2 DEF IoSucceeds, IoPending, accepting, conns, sched, TypeOK, LoopType,
       StreamType
<1>3. ASSUME NEW c \in Conn, IoFails(c) PROVE NoOrphanRequest'
  BY <1>3 DEF IoFails, IoPending, accepting, conns, sched, TypeOK, LoopType,
       StreamType
<1>4. ASSUME NEW c \in Conn, Leave(c) PROVE NoOrphanRequest'
  BY <1>4 DEF Leave, accepting, conns, sched, TypeOK, LoopType, StreamType
<1>5. ASSUME NEW c \in Conn, AcceptCompletes(c) PROVE NoOrphanRequest'
  BY <1>5 DEF AcceptCompletes, accepting, conns, sched, TypeOK, LoopType, StreamType
<1>6. ASSUME NEW c \in Conn, Resumes(c) PROVE NoOrphanRequest'
  <2>1. \A d \in Conn \ {c} : pc'[d] = pc[d]
    BY <1>6, ResumeMoves DEF GoesOn, End, TypeOK, LoopType
  <2>2. /\ \A d \in Conn : request'[d] # request[d] => pc'[d] # "done"
        /\ pc'[c] = "done" /\ request[c] = "active" => c \in cancelled'
        /\ cancelled \subseteq cancelled'
    BY <1>6, ResumeTells
  <2> QED
    BY <2>1, <2>2
<1>7. ASSUME NEW c \in Conn, SchedulerDrops(c) PROVE NoOrphanRequest'
  BY <1>7 DEF SchedulerDrops, accepting, conns, sched, TypeOK, LoopType, StreamType
<1>8. ASSUME NEW c \in Conn, NEW e \in {"token", "end"}, SchedulerSends(c, e)
       PROVE  NoOrphanRequest'
  BY <1>8 DEF SchedulerSends, Expired, accepting, conns, sched, TypeOK, LoopType,
       StreamType
<1>9. CASE AcceptResumes
  <2>1. UNCHANGED <<request, cancelled>>
    BY <1>9 DEF AcceptResumes, sched
  <2>2. \A d \in Conn : pc'[d] = "done" => pc[d] = "done"
    BY <1>9 DEF AcceptResumes, TypeOK, LoopType, conns
  <2> QED
    BY <2>1, <2>2
<1>10. CASE AcceptError
  BY <1>10 DEF AcceptError, accepting, conns, sched, TypeOK, LoopType, StreamType
<1>11. CASE ShutdownAsync
  BY <1>11 DEF ShutdownAsync, accepting, conns, sched, TypeOK, LoopType, StreamType
<1>12. CASE ShutdownHandler
  BY <1>12 DEF ShutdownHandler, TryFinish, IoPending, ChannelsToClose, accepting,
       conns, sched, TypeOK, LoopType, StreamType
<1>13. CASE DeliverEvent
  BY <1>13 DEF DeliverEvent, Expired, accepting, conns, sched, TypeOK, LoopType,
       StreamType
<1> HIDE DEF NoOrphanRequest
<1> QED
  BY <1>0, <1>1, <1>2, <1>3, <1>4, <1>5, <1>6, <1>7, <1>8, <1>9, <1>10, <1>11, <1>12,
       <1>13 DEF Next, Network

-----------------------------------------------------------------------------
(* The stream of a connection. *)

Coming(c) == chan[c] \o EventsOf(Keep(mail, MessagesTo(c)))

(* The sequences a receiver with s events behind it and t sent expects.    *)
InOrder(coming, s, t) ==
  /\ s + Len(coming) = t
  /\ \A i \in DOMAIN coming : coming[i].n = s + i

(* StreamInOrder in terms of the events that are still coming. *)
LEMMA StreamDef ==
  StreamInOrder <=> \A c \in Conn : c \notin closed /\ pc[c] # "done" =>
                                      InOrder(Coming(c), seen[c], count[c])
  BY DEF StreamInOrder, Coming, InOrder

(* What the receiver takes, and what the sender adds.                      *)
LEMMA TakeInOrder ==
  ASSUME NEW a \in Seq(Event), NEW b \in Seq(Event), a # <<>>,
         NEW s \in Nat, NEW t \in Nat, InOrder(a \o b, s, t)
  PROVE  InOrder(Tail(a) \o b, s + 1, t)
<1>1. /\ Len(Tail(a) \o b) = Len(a \o b) - 1 /\ Len(a \o b) \in Nat
      /\ DOMAIN (Tail(a) \o b) = 1 .. Len(Tail(a) \o b) /\ DOMAIN (a \o b) = 1 .. Len(a \o b)
      /\ \A i \in 1 .. Len(a \o b) - 1 : (Tail(a) \o b)[i] = (a \o b)[i + 1]
  BY SMTT(30)
<1> DEFINE v == a \o b
           w == Tail(a) \o b
<1>2. s + Len(v) = t /\ \A i \in 1 .. Len(v) : v[i].n = s + i
  BY <1>1 DEF InOrder
<1>3. /\ Len(w) = Len(v) - 1 /\ Len(v) \in Nat /\ DOMAIN w = 1 .. Len(w)
      /\ \A i \in 1 .. Len(v) - 1 : w[i] = v[i + 1]
  BY <1>1
<1> HIDE DEF v, w
<1>4. \A i \in 1 .. Len(w) : w[i].n = (s + 1) + i
  <2> TAKE i \in 1 .. Len(w)
  <2>1. i + 1 \in 1 .. Len(v) /\ w[i] = v[i + 1]
    BY <1>3
  <2>2. v[i + 1].n = s + (i + 1)
    BY <1>2, <2>1
  <2> QED
    BY <2>1, <2>2, <1>3
<1>5. (s + 1) + Len(w) = t
  <2>1. PICK k \in Nat : k = Len(v)
    BY <1>3
  <2>2. Len(w) = k - 1 /\ s + k = t
    BY <1>2, <1>3, <2>1
  <2> QED
    BY <2>1, <2>2
<1>6. InOrder(w, s + 1, t)
  BY <1>3, <1>4, <1>5 DEF InOrder
<1> QED
  BY <1>6 DEF w

(* An event that carries the next number may join the end of what is       *)
(* posted.                                                                 *)
LEMMA AddInOrder ==
  ASSUME NEW a \in Seq(Event), NEW b \in Seq(Event), NEW e \in Event,
         NEW s \in Nat, NEW t \in Nat, InOrder(a \o b, s, t), e.n = t + 1
  PROVE  InOrder(a \o Append(b, e), s, t + 1)
<1>0. a \o b \in Seq(Event)
  BY ConcatProperties
<1>1. PICK w \in Seq(Event) : w = a \o b
  BY <1>0
<1>2. a \o Append(b, e) = Append(w, e)
  BY <1>1
<1>3. s + Len(w) = t /\ \A i \in DOMAIN w : w[i].n = s + i
  BY <1>1 DEF InOrder
<1>4. /\ Len(Append(w, e)) = Len(w) + 1 /\ DOMAIN Append(w, e) = 1 .. Len(w) + 1
      /\ DOMAIN w = 1 .. Len(w) /\ Len(w) \in Nat
      /\ Append(w, e)[Len(w) + 1] = e
      /\ \A i \in 1 .. Len(w) : Append(w, e)[i] = w[i]
  OBVIOUS
<1>5. InOrder(Append(w, e), s, t + 1)
  BY <1>3, <1>4 DEF InOrder
<1> QED
  BY <1>2, <1>5

(* A message moved from the mail to the channel stays in its place.        *)
LEMMA MoveInOrder ==
  ASSUME NEW a \in Seq(Event), NEW b \in Seq(Event), NEW e \in Event
  PROVE  Append(a, e) \o b = a \o (<<e>> \o b)
  OBVIOUS

(* EventsOf, message by message.                                           *)
LEMMA EventsOfProperties ==
  ASSUME NEW m \in Seq(Message), NEW x \in Message
  PROVE  /\ EventsOf(m) \in Seq(Event)
         /\ EventsOf(Append(m, x)) = Append(EventsOf(m), x.event)
         /\ EventsOf(<<x>> \o m) = <<x.event>> \o EventsOf(m)
<1>1. x.event \in Event /\ \A i \in DOMAIN m : m[i].event \in Event
  <2>1. \A y \in Message : y.event \in Event
    BY DEF Message
  <2> QED
    BY <2>1
<1>2. EventsOf(m) \in Seq(Event) /\ Len(EventsOf(m)) = Len(m)
  BY <1>1 DEF EventsOf
<1>3. EventsOf(Append(m, x)) = Append(EventsOf(m), x.event)
  BY <1>1, <1>2 DEF EventsOf
<1>4. EventsOf(<<x>> \o m) = <<x.event>> \o EventsOf(m)
  BY <1>1, <1>2 DEF EventsOf
<1> QED
  BY <1>2, <1>3, <1>4


(* The messages of one connection.                                         *)
LEMMA KeptMessages ==
  ASSUME TypeOK, NEW c \in Conn
  PROVE  /\ Keep(mail, MessagesTo(c)) \in Seq(Message)
         /\ EventsOf(Keep(mail, MessagesTo(c))) \in Seq(Event)
         /\ chan[c] \in Seq(Event) /\ seen[c] \in Nat /\ count[c] \in Nat
<1>1. Keep(mail, MessagesTo(c)) \in Seq(Message)
  BY KeepProperties DEF TypeOK, StreamType
<1>2. \A y \in Message : y.event \in Event
  BY DEF Message
<1>3. EventsOf(Keep(mail, MessagesTo(c))) \in Seq(Event)
  BY <1>1, <1>2 DEF EventsOf
<1> QED
  BY <1>1, <1>3 DEF TypeOK, StreamType

(* A message is for one connection only.                                   *)
LEMMA Addressee ==
  ASSUME NEW x \in Message, NEW c \in Conn
  PROVE  x \in MessagesTo(c) <=> x.conn = c
  BY DEF Message, MessagesTo

(* A closed channel and an ended coroutine stay what they are.             *)
LEMMA GoneStaysGone ==
  ASSUME TypeOK, [Next]_vars
  PROVE  closed \subseteq closed' /\ \A d \in Conn : pc[d] = "done" => pc'[d] = "done"
<1>1. CASE UNCHANGED vars
  BY <1>1 DEF vars, conns
<1>2. ASSUME NEW c \in Conn, Resumes(c)
      PROVE  closed' = closed /\ \A d \in Conn : pc[d] = "done" => pc'[d] = "done"
  BY <1>2, ResumeMoves DEF GoesOn, End, Live, TypeOK, LoopType
<1>3. ASSUME NEW c \in Conn, Network(c)
      PROVE  closed' = closed /\ \A d \in Conn : pc[d] = "done" => pc'[d] = "done"
  BY <1>3 DEF Network, Connect, IoSucceeds, IoFails, Leave, AcceptCompletes, conns,
     TypeOK, LoopType
<1>4. ASSUME NEW c \in Conn, SchedulerDrops(c) \/ \E e \in {"token", "end"} : SchedulerSends(c, e)
      PROVE  UNCHANGED <<closed, pc>>
  BY <1>4 DEF SchedulerDrops, SchedulerSends, conns
<1>5. CASE AcceptResumes
  BY <1>5 DEF AcceptResumes, TypeOK, LoopType, conns
<1>6. CASE AcceptError \/ ShutdownAsync \/ ShutdownHandler \/ DeliverEvent
  BY <1>6 DEF AcceptError, ShutdownAsync, ShutdownHandler, DeliverEvent, conns
<1> QED
  BY <1>1, <1>2, <1>3, <1>4, <1>5, <1>6 DEF Next

(* A step that leaves the channel, the mail and the counters alone.        *)
LEMMA StreamKept ==
  ASSUME TypeOK, [Next]_vars, StreamInOrder, UNCHANGED <<chan, mail, seen, count>>
  PROVE  StreamInOrder'
<1> SUFFICES ASSUME NEW c \in Conn, c \notin closed', pc'[c] # "done"
             PROVE  InOrder(Coming(c), seen[c], count[c])'
  BY StreamDef DEF StreamInOrder, Coming, InOrder
<1>1. InOrder(Coming(c), seen[c], count[c])
  BY StreamDef, GoneStaysGone
<1> QED
  BY <1>1 DEF InOrder, Coming

(* async_receive takes the first of the events still coming. *)
LEMMA ReceiveStream ==
  ASSUME TypeOK, StreamInOrder, NEW c \in Conn, [Next]_vars,
         ReceiveResumes(c), chan[c] # <<>>
  PROVE  StreamInOrder'
<1> SUFFICES ASSUME NEW d \in Conn, d \notin closed', pc'[d] # "done"
             PROVE  InOrder(Coming(d), seen[d], count[d])'
  BY DEF StreamInOrder, Coming, InOrder
<1>1. InOrder(Coming(d), seen[d], count[d])
  BY StreamDef, GoneStaysGone
<1>2. /\ chan' = [chan EXCEPT ![c] = Tail(chan[c])]
      /\ seen' = [seen EXCEPT ![c] = seen[c] + 1]
      /\ UNCHANGED <<mail, count>>
  BY DEF ReceiveResumes
<1>3. CASE d = c
  <2>1. chan'[c] = Tail(chan[c]) /\ seen'[c] = seen[c] + 1
    BY <1>2 DEF TypeOK, StreamType
  <2>2. Coming(c)' = Tail(chan[c]) \o EventsOf(Keep(mail, MessagesTo(c)))
    BY <1>2, <2>1 DEF Coming
  <2>3. InOrder(Tail(chan[c]) \o EventsOf(Keep(mail, MessagesTo(c))),
                seen[c] + 1, count[c])
    BY <1>1, <1>3, KeptMessages, TakeInOrder DEF Coming
  <2> QED
    BY <1>2, <1>3, <2>1, <2>2, <2>3 DEF InOrder
<1>4. CASE d # c
  <2>1. chan'[d] = chan[d] /\ seen'[d] = seen[d]
    BY <1>2, <1>4 DEF TypeOK, StreamType
  <2> QED
    BY <1>1, <1>2, <2>1 DEF InOrder, Coming
<1> QED
  BY <1>3, <1>4

(* send_event posts the event with the next number behind all others. *)
LEMMA SendStream ==
  ASSUME TypeOK, StreamInOrder, NEW c \in Conn, NEW e \in {"token", "end"},
         [Next]_vars, SchedulerSends(c, e)
  PROVE  StreamInOrder'
<1> SUFFICES ASSUME NEW d \in Conn, d \notin closed', pc'[d] # "done"
             PROVE  InOrder(Coming(d), seen[d], count[d])'
  BY DEF StreamInOrder, Coming, InOrder
<1>1. InOrder(Coming(d), seen[d], count[d])
  BY StreamDef, GoneStaysGone
<1>2. UNCHANGED <<chan, seen, pc>> /\ count' = [count EXCEPT ![c] = count[c] + 1]
  BY DEF SchedulerSends, conns
<1> DEFINE msg == [conn |-> c, event |-> [n |-> count'[c], last |-> e = "end"]]
<1>3. pc[c] # "done" => mail' = Append(mail, msg)
  BY DEF SchedulerSends, Expired
<1>4. pc[c] = "done" => mail' = mail
  BY DEF SchedulerSends, Expired
<1>5. count'[c] = count[c] + 1 /\ count[c] \in Nat
  BY <1>2 DEF TypeOK, StreamType
<1>6. /\ msg \in Message /\ msg.conn = c /\ msg.event \in Event
      /\ msg.event.n = count[c] + 1
  <2>1. PICK k \in Nat : k = count'[c]
    BY <1>5
  <2>a. PICK l \in BOOLEAN : l = (e = "end")
    OBVIOUS
  <2>2. PICK x \in Event : x = [n |-> k, last |-> l]
    BY DEF Event
  <2>3. msg = [conn |-> c, event |-> x]
    BY <2>1, <2>2, <2>a
  <2> HIDE DEF msg
  <2> QED
    BY <1>5, <2>1, <2>2, <2>3 DEF Message
<1> HIDE DEF msg
<1>7. mail \in Seq(Message)
  BY DEF TypeOK, StreamType
<1>8. CASE d = c
  <2> DEFINE kept == Keep(mail, MessagesTo(c))
  <2>1. mail' = Append(mail, msg) /\ msg \in MessagesTo(c)
    BY <1>2, <1>3, <1>6, <1>8, Addressee
  <2>2. Keep(mail', MessagesTo(c)) = Append(kept, msg)
    BY <1>6, <1>7, <2>1, KeepAppendIn
  <2>3. kept \in Seq(Message) /\ EventsOf(kept) \in Seq(Event) /\ chan[c] \in Seq(Event) /\ seen[c] \in Nat
    BY KeptMessages
  <2>4. InOrder(chan[c] \o EventsOf(kept), seen[c], count[c])
    BY <1>1, <1>8 DEF Coming
  <2> HIDE DEF kept
  <2>5. EventsOf(Append(kept, msg)) = Append(EventsOf(kept), msg.event)
    BY <1>6, <2>3, EventsOfProperties
  <2>6. InOrder(chan[c] \o Append(EventsOf(kept), msg.event), seen[c], count[c] + 1)
    BY <1>5, <1>6, <2>3, <2>4, AddInOrder
  <2>7. Coming(c)' = chan[c] \o Append(EventsOf(kept), msg.event)
    BY <1>2, <2>2, <2>5 DEF Coming
  <2> QED
    BY <1>2, <1>5, <1>8, <2>6, <2>7 DEF InOrder
<1>9. CASE d # c
  <2>1. msg \notin MessagesTo(d)
    BY <1>6, <1>9, Addressee
  <2>2. Keep(mail', MessagesTo(d)) = Keep(mail, MessagesTo(d))
    <3>1. Keep(Append(mail, msg), MessagesTo(d)) = Keep(mail, MessagesTo(d))
      BY <1>6, <1>7, <2>1, KeepAppendOut
    <3> QED
      BY <1>3, <1>4, <3>1
  <2>3. count'[d] = count[d]
    BY <1>2, <1>9 DEF TypeOK, StreamType
  <2> QED
    BY <1>1, <1>2, <2>2, <2>3 DEF InOrder, Coming
<1> QED
  BY <1>8, <1>9

(* A posted handler moves its event to the end of the channel. *)
LEMMA DeliverStream ==
  ASSUME TypeOK, StreamInOrder, [Next]_vars, DeliverEvent
  PROVE  StreamInOrder'
<1> SUFFICES ASSUME NEW d \in Conn, d \notin closed', pc'[d] # "done"
             PROVE  InOrder(Coming(d), seen[d], count[d])'
  BY DEF StreamInOrder, Coming, InOrder
<1>1. InOrder(Coming(d), seen[d], count[d])
  BY StreamDef, GoneStaysGone
<1> DEFINE msg == Head(mail)
<1>2. UNCHANGED <<seen, count, pc, closed>> /\ mail # <<>> /\ mail' = Tail(mail)
  BY DEF DeliverEvent
<1>3. IF pc[msg.conn] = "done" \/ msg.conn \in closed THEN chan' = chan
      ELSE chan' = [chan EXCEPT ![msg.conn] = Append(chan[msg.conn], msg.event)]
  BY DEF DeliverEvent, Expired
<1>4. msg \in Message /\ msg.conn \in Conn /\ msg.event \in Event
  BY <1>2, OldestMessage
<1>5. mail \in Seq(Message) /\ Tail(mail) \in Seq(Message)
  BY <1>2, OldestMessage DEF TypeOK, StreamType
<1>6. Keep(mail, MessagesTo(d)) = IF msg \in MessagesTo(d)
                                  THEN <<msg>> \o Keep(Tail(mail), MessagesTo(d))
                                  ELSE Keep(Tail(mail), MessagesTo(d))
  BY <1>2, <1>5, KeepHead
<1> HIDE DEF msg
<1>7. CASE d = msg.conn
  <2> DEFINE rest == Keep(Tail(mail), MessagesTo(d))
  <2>1. rest \in Seq(Message) /\ chan[d] \in Seq(Event)
    BY <1>5, KeepProperties DEF TypeOK, StreamType
  <2>2. chan'[d] = Append(chan[d], msg.event)
    BY <1>2, <1>3, <1>7 DEF TypeOK, StreamType
  <2>3. Coming(d) = chan[d] \o EventsOf(<<msg>> \o rest)
    BY <1>4, <1>6, <1>7, Addressee DEF Coming
  <2>4. Coming(d)' = Append(chan[d], msg.event) \o EventsOf(rest)
    BY <1>2, <2>2 DEF Coming
  <2> HIDE DEF rest
  <2>5. /\ EventsOf(<<msg>> \o rest) = <<msg.event>> \o EventsOf(rest)
        /\ EventsOf(rest) \in Seq(Event)
    BY <1>4, <2>1, EventsOfProperties
  <2>6. Coming(d)' = Coming(d)
    <3>1. PICK a \in Seq(Event), b \in Seq(Event), ev \in Event :
            a = chan[d] /\ b = EventsOf(rest) /\ ev = msg.event
      BY <1>4, <2>1, <2>5
    <3>2. Append(a, ev) \o b = a \o (<<ev>> \o b)
      BY MoveInOrder
    <3> QED
      BY <2>3, <2>4, <2>5, <3>1, <3>2
  <2> QED
    BY <1>1, <1>2, <2>6 DEF InOrder
<1>8. CASE d # msg.conn
  <2>1. chan'[d] = chan[d]
    BY <1>3, <1>4, <1>8 DEF TypeOK, StreamType
  <2>2. Keep(mail', MessagesTo(d)) = Keep(mail, MessagesTo(d))
    BY <1>2, <1>4, <1>6, <1>8, Addressee
  <2> QED
    BY <1>1, <1>2, <2>1, <2>2 DEF InOrder, Coming
<1> QED
  BY <1>7, <1>8

(* Every handler keeps the streams in order.                               *)
LEMMA NextStream == TypeOK /\ StreamInOrder /\ [Next]_vars => StreamInOrder'
<1> SUFFICES ASSUME TypeOK, StreamInOrder, [Next]_vars PROVE StreamInOrder'
  OBVIOUS
<1>1. CASE UNCHANGED <<chan, mail, seen, count>>
  BY <1>1, StreamKept
<1>2. ASSUME NEW c \in Conn, ReceiveResumes(c), chan[c] # <<>> PROVE StreamInOrder'
  BY <1>2, ReceiveStream
<1>3. ASSUME NEW c \in Conn, NEW e \in {"token", "end"}, SchedulerSends(c, e)
      PROVE  StreamInOrder'
  BY <1>3, SendStream
<1>4. CASE DeliverEvent
  BY <1>4, DeliverStream
<1>5. ASSUME NEW c \in Conn, Network(c) \/ SchedulerDrops(c) \/ Resumes(c)
      PROVE  \/ UNCHANGED <<chan, mail, seen, count>>
             \/ ReceiveResumes(c) /\ chan[c] # <<>>
  BY <1>5 DEF Network, Connect, IoSucceeds, IoFails, Leave, AcceptCompletes,
     SchedulerDrops, Resumes, ReadResumes, ReplyResumes, HeadersResume,
     ReceiveResumes, WriteResumes, conns, sched
<1>6. ASSUME AcceptError \/ AcceptResumes \/ ShutdownAsync \/ ShutdownHandler
      PROVE  UNCHANGED <<chan, mail, seen, count>>
  BY <1>6 DEF AcceptError, AcceptResumes, ShutdownAsync, ShutdownHandler, conns, sched
<1>7. CASE UNCHANGED vars
  BY <1>1, <1>7 DEF vars, conns, sched
<1> QED
  BY <1>1, <1>2, <1>3, <1>4, <1>5, <1>6, <1>7 DEF Next

-----------------------------------------------------------------------------
(* Every step keeps the invariant. *)
LEMMA NextHttp == HttpInv /\ [Next]_vars => HttpInv'
  BY NextType, NextLoop, NextEnd, NextOrphan, NextStream DEF HttpInv

(* The inductive invariant of the accept loop, the connections, their      *)
(* streams and the shutdown.                                               *)
THEOREM HttpInvariant == Spec => []HttpInv
BY InitHttp, NextHttp, PTL DEF Spec

(* handle_chat and handle_connection never leave a request running for a   *)
(* connection that is gone.                                                *)
THEOREM NoOrphanRequestTheorem == Spec => []NoOrphanRequest
<1>1. HttpInv => NoOrphanRequest
  BY DEF HttpInv
<1> QED
  BY <1>1, HttpInvariant, PTL

(* try_finish_shutdown_on_http_thread sets the promise only when the       *)
(* accept loop has ended and no connection is left or can appear.          *)
THEOREM DrainIsCompleteTheorem == Spec => []DrainIsComplete
<1>1. HttpInv => DrainIsComplete
  <2> SUFFICES ASSUME HttpInv, sent > 0
               PROVE  /\ acceptor = "done" /\ active = {}
                      /\ \A c \in Conn : pc[c] \in {"away", "backlog", "done"}
    BY DEF DrainIsComplete
  <2>1. acceptor = "done" /\ active = {}
    BY DEF HttpInv, LoopInv
  <2>2. \A c \in Conn : pc[c] \in Place /\ pc[c] \notin Live /\ pc[c] # "accepted"
    BY <2>1 DEF HttpInv, LoopInv, TypeOK, LoopType
  <2> QED
    BY <2>1, <2>2 DEF Place, Early, Live
<1> QED
  BY <1>1, HttpInvariant, PTL

(* Scheduler::send_event, the handler it posts and the channel deliver the *)
(* events of a stream once each and in order.                              *)
THEOREM StreamInOrderTheorem == Spec => []StreamInOrder
<1>1. HttpInv => StreamInOrder
  BY DEF HttpInv
<1> QED
  BY <1>1, HttpInvariant, PTL
==============================================================================
