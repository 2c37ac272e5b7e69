--------------------------- MODULE LaikadProofs ---------------------------
(***************************************************************************)
(* What holds of laikad with synchronous clients (module Laikad) for every *)
(* pool, every number of clients and every combination of faults, except   *)
(* where a theorem says otherwise: the types, the broker's lists, where an *)
(* attempt at a request is, and whom its reply reaches.                    *)
(***************************************************************************)
EXTENDS Laikad, WorkerLemmas

IInv == TypeOK /\ HeldWhileScanning /\ BrokerLists

---------------------------------------------------------------------------
(* The broker's steps.                                                      *)
Lists(idle, busy) ==
  /\ idle \in Seq(Workers) /\ busy \in Seq(Workers)
  /\ IsInjective(idle) /\ IsInjective(busy)
  /\ ToSet(idle) \cap ToSet(busy) = {}

(* A worker that says it is available is listed once, and in one list.      *)
LEMMA ReadmitLists ==
  ASSUME NEW w \in Workers, NEW idle, NEW busy, Lists(idle, busy)
  PROVE  Lists(Readmit(w, idle, busy), busy)
<1>1. CASE Contains(idle, w) \/ Contains(busy, w)
  BY <1>1 DEF Readmit
<1>2. CASE ~Contains(idle, w) /\ ~Contains(busy, w)
  <2>1. w \notin ToSet(busy)
    BY <1>2, ContainsIsMember DEF Lists
  <2>2. /\ Append(idle, w) \in Seq(Workers)
        /\ IsInjective(Append(idle, w))
        /\ ToSet(Append(idle, w)) = ToSet(idle) \cup {w}
    BY <1>2, AppendFresh DEF Lists
  <2>3. Readmit(w, idle, busy) = Append(idle, w)
    BY <1>2 DEF Readmit
  <2> QED BY <2>1, <2>2, <2>3 DEF Lists
<1> QED BY <1>1, <1>2

(* Taking a worker off a list disturbs neither.                             *)
LEMMA RemoveLists ==
  ASSUME NEW w, NEW idle, NEW busy, Lists(idle, busy)
  PROVE  Lists(idle, RemoveFirst(busy, w)) /\ Lists(RemoveFirst(idle, w), busy)
BY RemoveFromInjective DEF Lists

(* The head of available_workers moves to the end of working_workers.       *)
LEMMA ForwardLists ==
  ASSUME NEW idle, NEW busy, Lists(idle, busy), idle # <<>>
  PROVE  Lists(Tail(idle), Append(busy, Head(idle)))
<1>1. /\ Head(idle) \in Workers /\ Head(idle) \in ToSet(idle)
      /\ Tail(idle) \in Seq(Workers)
      /\ IsInjective(Tail(idle))
      /\ ToSet(Tail(idle)) = ToSet(idle) \ {Head(idle)}
  BY TailOfInjective DEF Lists
<1>2. ~Contains(busy, Head(idle))
  BY <1>1, ContainsIsMember DEF Lists
<1>3. /\ Append(busy, Head(idle)) \in Seq(Workers)
      /\ IsInjective(Append(busy, Head(idle)))
      /\ ToSet(Append(busy, Head(idle))) = ToSet(busy) \cup {Head(idle)}
  BY <1>1, <1>2, AppendFresh DEF Lists
<1> QED BY <1>1, <1>3 DEF Lists

(* A broker that starts knows no worker.                                    *)
LEMMA EmptyLists == Lists(<<>>, <<>>)
BY EmptySeq DEF Lists, IsInjective, ToSet

(* Whatever the broker does, its lists stay in order.                       *)
LEMMA BrokerStepInv ==
  ASSUME IInv, BrokerStep
  PROVE  WireTypeOK' /\ BrokerTypeOK' /\ Lists(avail', working')
<1> USE DEF IInv, TypeOK
<1>0. Lists(avail, working)
  BY DEF BrokerTypeOK, BrokerLists, Lists
<1>1. ASSUME NEW t \in frontend, ForwardRequest(t)
      PROVE  WireTypeOK' /\ BrokerTypeOK' /\ Lists(avail', working')
  <2>1. Lists(avail', working')
    BY <1>0, <1>1, ForwardLists DEF ForwardRequest
  <2>2. Head(avail) \in Workers /\ t \in Task
    BY <1>0, <1>1, HeadTailProperties DEF ForwardRequest, Lists, WireTypeOK
  <2>3. inbox' \in [Workers -> Seq(Task)]
    BY <1>1, <2>2, SendToWorkerType DEF ForwardRequest
  <2> QED BY <1>1, <2>1, <2>3 DEF ForwardRequest, WireTypeOK, BrokerTypeOK, Lists
<1>2. ASSUME NEW w \in Workers, OnWorkerMessage(w)
      PROVE  WireTypeOK' /\ BrokerTypeOK' /\ Lists(avail', working')
  <2> DEFINE m == Head(chan[w])
  <2>1. /\ m \in WorkerMsg
        /\ chan' \in [Workers -> Seq(WorkerMsg)]
    BY <1>2, TakeMessageType DEF OnWorkerMessage
  <2>2. Lists(avail', working') /\ mail' \in [Clients -> Seq(Task)]
    <3>1. CASE m.status = "READY" /\ OnReady(w)
      BY <3>1, <1>0, ReadmitLists DEF OnReady, WireTypeOK
    <3>2. CASE m.status = "QUIT" /\ OnQuit(w)
      BY <3>2, <1>0, RemoveLists DEF OnQuit, WireTypeOK
    <3>3. m.status \in ResultStatus => m.task \in Task
      BY <2>1 DEF WorkerMsg, ResultStatus
    <3>4. CASE m.status = "RESULT_READY" /\ OnResultReady(w, m.task)
      <4>1. Lists(avail, working')
        BY <3>4, <1>0, RemoveLists DEF OnResultReady
      <4>2. Lists(avail', working')
        BY <3>4, <4>1, ReadmitLists DEF OnResultReady
      <4>3. m.task \in Task /\ ReplyToClient(m.task)
        BY <3>3, <3>4 DEF OnResultReady, ResultStatus
      <4> HIDE DEF m
      <4> QED BY <4>2, <4>3, ReplyType
    <3>5. CASE m.status = "RESULT_QUIT" /\ OnResultQuit(w, m.task)
      <4>1. Lists(avail', working')
        BY <3>5, <1>0, RemoveLists DEF OnResultQuit
      <4>2. m.task \in Task /\ ReplyToClient(m.task)
        BY <3>3, <3>5 DEF OnResultQuit, ResultStatus
      <4> HIDE DEF m
      <4> QED BY <4>1, <4>2, ReplyType
    <3> QED BY <1>2, <3>1, <3>2, <3>4, <3>5 DEF OnWorkerMessage
  <2> QED BY <1>2, <2>1, <2>2 DEF OnWorkerMessage, WireTypeOK, BrokerTypeOK, Lists
<1>3. CASE BrokerSignal
  BY <1>0, <1>3 DEF BrokerSignal, WireTypeOK, wireVars, BrokerTypeOK
<1>4. ASSUME NEW w \in Workers, OnDrainMessage(w)
      PROVE  WireTypeOK' /\ BrokerTypeOK' /\ Lists(avail', working')
  <2> DEFINE m == Head(chan[w])
  <2>1. /\ m \in WorkerMsg
        /\ chan' \in [Workers -> Seq(WorkerMsg)]
    BY <1>4, TakeMessageType DEF OnDrainMessage
  <2>2. Lists(avail', working') /\ mail' \in [Clients -> Seq(Task)]
    <3>1. CASE m.status \in ResultStatus
      <4>1. m.task \in Task /\ ReplyToClient(m.task)
        BY <1>4, <2>1, <3>1 DEF OnDrainMessage, WorkerMsg, ResultStatus
      <4>2. Lists(avail', working')
        BY <1>0, <1>4, <3>1, RemoveLists DEF OnDrainMessage
      <4> HIDE DEF m
      <4> QED BY <4>1, <4>2, ReplyType
    <3>2. CASE m.status \notin ResultStatus
      BY <1>0, <1>4, <3>2 DEF OnDrainMessage, WireTypeOK
    <3> QED BY <3>1, <3>2
  <2> QED BY <1>4, <2>1, <2>2 DEF OnDrainMessage, WireTypeOK, BrokerTypeOK, Lists
<1>5. CASE GraceExpires
  BY <1>0, <1>5 DEF GraceExpires, WireTypeOK, wireVars, BrokerTypeOK
<1>6. CASE BrokerExit
  BY <1>6, LoseBrokerType, EmptyLists
  DEF BrokerExit, ForgetWorkers, WireTypeOK, BrokerTypeOK, Lists
<1>7. CASE KillBroker
  <2>1. mail' \in [Clients -> Seq(Task)]
    BY <1>7, EmptySeq DEF KillBroker, WireTypeOK
  <2> QED BY <1>7, <2>1, LoseBrokerType, EmptyLists
      DEF KillBroker, ForgetWorkers, WireTypeOK, BrokerTypeOK, Lists
<1> QED BY <1>1, <1>2, <1>3, <1>4, <1>5, <1>6, <1>7 DEF BrokerStep

---------------------------------------------------------------------------
(* Whatever a client does, the types stay.                                  *)
LEMMA ClientStepType ==
  ASSUME WireTypeOK, ClientTypeOK, NEW c \in Clients, ClientStep(c)
  PROVE  WireTypeOK' /\ ClientTypeOK'
<1>1. ASSUME NEW n \in Nat, NEW i \in Nat PROVE Attempt(c, i, n) \in Task
  BY DEF Attempt, Task
<1>2. conn[c] \in Nat /\ conn[c] + 1 \in Nat /\ obj[c] \in Nat /\ obj[c] + 1 \in Nat
  BY DEF WireTypeOK, ClientTypeOK
<1>3. CASE ClientSend(c)
  <2>1. /\ conn' \in [Clients -> Nat]
        /\ frontend' \subseteq Task
        /\ mail' \in [Clients -> Seq(Task)]
    <3>1. CASE dirty[c]
      <4>1. {Attempt(c, conn[c] + 1, obj[c] + 1)} \in SUBSET Task
        BY <1>1, <1>2
      <4> QED BY <1>3, <3>1, <4>1, ReconnectType DEF ClientSend
    <3>2. CASE ~dirty[c]
      BY <1>1, <1>2, <1>3, <3>2 DEF ClientSend, WireTypeOK
    <3> QED BY <3>1, <3>2
  <2> QED BY <1>2, <1>3, <2>1, RetryAssumption DEF ClientSend, WireTypeOK, ClientTypeOK
<1>4. CASE ClientRecv(c)
  <2>1. Head(mail[c]) \in Task /\ Tail(mail[c]) \in Seq(Task)
    BY <1>4, HeadTailProperties DEF ClientRecv, WireTypeOK
  <2> QED BY <1>4, <2>1 DEF ClientRecv, WireTypeOK, ClientTypeOK
<1>5. CASE ClientRetry(c)
  <2>1. {Attempt(c, conn[c] + 1, obj[c])} \in SUBSET Task
    BY <1>1, <1>2
  <2>2. /\ conn' \in [Clients -> Nat]
        /\ frontend' \subseteq Task
        /\ mail' \in [Clients -> Seq(Task)]
    BY <1>5, <2>1, ReconnectType DEF ClientRetry
  <2>3. retries[c] - 1 \in Nat
    BY <1>5 DEF ClientRetry, ClientTypeOK
  <2> QED BY <1>5, <2>2, <2>3 DEF ClientRetry, WireTypeOK, ClientTypeOK
<1>6. CASE ClientGiveUp(c)
  BY <1>6 DEF ClientGiveUp, wireVars, WireTypeOK, ClientTypeOK
<1> QED BY <1>3, <1>4, <1>5, <1>6 DEF ClientStep

---------------------------------------------------------------------------
(* The invariant holds at first,                                            *)
LEMMA InitInv == Init => IInv
<1> SUFFICES ASSUME Init PROVE IInv
  OBVIOUS
<1>1. \A S : <<>> \in Seq(S)
  BY EmptySeq
<1>2. WireTypeOK /\ BrokerTypeOK /\ ClientTypeOK /\ SupTypeOK
  BY <1>1 DEF Init, WireInit, BrokerInit, ClientInit, SupInit,
              WireTypeOK, BrokerTypeOK, ClientTypeOK, SupTypeOK
<1>3. WorkerTypeOK /\ HeldWhileScanning
  BY DEF Init, WorkerInit, WorkerTypeOK, HeldWhileScanning, Scanning
<1>4. BrokerLists
  BY EmptyLists DEF Init, BrokerInit, BrokerLists, Lists
<1> QED BY <1>2, <1>3, <1>4 DEF IInv, TypeOK

(* and every step keeps it.                                                 *)
LEMMA StepInv == IInv /\ [Next]_vars => IInv'
<1> SUFFICES ASSUME IInv, [Next]_vars PROVE IInv'
  OBVIOUS
<1> USE DEF IInv, TypeOK
<1>0. WorkerPart
  BY DEF WorkerPart
<1>1. CASE BrokerStep
  <2>1. WorkerTypeOK' /\ ClientTypeOK' /\ SupTypeOK' /\ HeldWhileScanning'
    BY <1>1 DEF BrokerStep, workerVars, clientVars, supVars, WorkerTypeOK,
                ClientTypeOK, SupTypeOK, HeldWhileScanning
  <2> QED BY <1>1, <2>1, BrokerStepInv DEF Lists, BrokerLists
<1>2. ASSUME NEW w \in Workers, WorkerStep(w) PROVE IInv'
  <2>1. BrokerTypeOK' /\ ClientTypeOK' /\ SupTypeOK' /\ BrokerLists'
    BY <1>2 DEF WorkerStep, brokerVars, clientVars, supVars, BrokerTypeOK,
                ClientTypeOK, SupTypeOK, BrokerLists
  <2> QED BY <1>0, <1>2, <2>1, WorkerActsType DEF WorkerPart, WorkerStep, WorkerWork, WorkerActs
<1>3. ASSUME NEW c \in Clients, ClientStep(c) PROVE IInv'
  <2>1. BrokerTypeOK' /\ WorkerTypeOK' /\ SupTypeOK' /\ HeldWhileScanning' /\ BrokerLists'
    BY <1>3 DEF ClientStep, brokerVars, workerVars, supVars, BrokerTypeOK,
                WorkerTypeOK, SupTypeOK, HeldWhileScanning, BrokerLists
  <2> QED BY <1>3, <2>1, ClientStepType
<1>4. CASE RestartBroker
  BY <1>4 DEF RestartBroker, StartBroker, wireVars, workerVars, clientVars, supVars,
              WireTypeOK, BrokerTypeOK, WorkerTypeOK, ClientTypeOK, SupTypeOK,
              HeldWhileScanning, BrokerLists
<1>5. ASSUME UNCHANGED <<brokerVars, clientVars>>
      PROVE  BrokerTypeOK' /\ ClientTypeOK' /\ BrokerLists'
  BY <1>5 DEF brokerVars, clientVars, BrokerTypeOK, ClientTypeOK, BrokerLists
<1>6. ASSUME NEW w \in Workers, NEW new \in Workers, ReplaceWorker(w, new),
             UNCHANGED <<brokerVars, clientVars>>
      PROVE  IInv'
  BY <1>0, <1>5, <1>6, ReplaceWorkerType DEF WorkerPart
<1>7. ASSUME SupStop, UNCHANGED <<brokerVars, clientVars>> PROVE IInv'
  BY <1>5, <1>7 DEF SupStop, wireVars, workerVars, WireTypeOK, WorkerTypeOK,
                    SupTypeOK, HeldWhileScanning
<1>8. ASSUME SupKillWorkers(BrokerUp), UNCHANGED <<brokerVars, clientVars>> PROVE IInv'
  BY <1>0, <1>5, <1>8, KillWorkersType DEF WorkerPart
<1>9. CASE SupKillBroker
  <2>1. WorkerTypeOK' /\ ClientTypeOK' /\ SupTypeOK' /\ HeldWhileScanning'
    BY <1>9 DEF SupKillBroker, workerVars, clientVars, WorkerTypeOK,
                ClientTypeOK, SupTypeOK, HeldWhileScanning
  <2>2. CASE BrokerUp
    <3>1. mail' \in [Clients -> Seq(Task)]
      BY <1>9, <2>2, EmptySeq DEF SupKillBroker, KillBroker, WireTypeOK
    <3> QED BY <1>9, <2>1, <2>2, <3>1, LoseBrokerType, EmptyLists
            DEF SupKillBroker, KillBroker, ForgetWorkers, WireTypeOK, BrokerTypeOK,
                Lists, BrokerLists
  <2>3. CASE ~BrokerUp
    BY <1>9, <2>1, <2>3 DEF SupKillBroker, wireVars, brokerVars, WireTypeOK,
                            BrokerTypeOK, BrokerLists
  <2> QED BY <2>2, <2>3
<1>10. CASE UNCHANGED vars
  BY <1>10 DEF vars, wireVars, brokerVars, workerVars, clientVars, supVars,
               WireTypeOK, BrokerTypeOK, WorkerTypeOK, ClientTypeOK, SupTypeOK,
               HeldWhileScanning, BrokerLists
<1> QED BY <1>1, <1>2, <1>3, <1>4, <1>6, <1>7, <1>8, <1>9, <1>10
        DEF Next, SupervisorStep

(* Every variable keeps its type, for every size of the pool, every number  *)
(* of clients and every combination of crashes, signals and timeouts.       *)
THEOREM TypeCorrect == Spec => []TypeOK
<1>1. IInv => TypeOK
  BY DEF IInv
<1> QED BY <1>1, InitInv, StepInv, PTL DEF Spec

(* available_workers and working_workers of SyncBroker never name a worker  *)
(* twice between them, whatever fails.                                      *)
THEOREM BrokerListsCorrect == Spec => []BrokerLists
<1>1. IInv => BrokerLists
  BY DEF IInv
<1> QED BY <1>1, InitInv, StepInv, PTL DEF Spec

---------------------------------------------------------------------------
(* What the phases of supervisor and broker tell of what has happened.      *)
Phases ==
  /\ supPc \in {"kill", "done"} => \A w \in Workers : pc[w] = "off"
  /\ supPc # "watch" => "supStop" \in Faults
  /\ broker = "drain" => "brokerSignal" \in Faults

(* Under its first broker, or one that nothing ends, laikad gives a worker  *)
(* no second task.                                                          *)
FirstBroker == \E c \in Clients : conn[c] = 0
NoBrokerFaults == Faults \cap {"brokerSignal", "brokerKill"} = {}
FirstOneTask == FirstBroker \/ NoBrokerFaults => OneTaskPerWorker

(* An attempt is in one place, and there once.                              *)
Apart ==
  /\ frontend \cap (OnItsWay \cup Delivered) = {}
  /\ OnItsWay \cap Delivered = {}
  /\ \A v, w \in Workers : v # w => TasksOf(v) \cap TasksOf(w) = {}
  /\ \A w \in Workers : Neat(w)

(* No attempt is newer than its client.                                     *)
Known ==
  \A t \in frontend \cup OnItsWay \cup Delivered :
    t.conn <= conn[t.client] /\ t.obj <= obj[t.client]

(* What waits over a present connection is the call that its client is in.  *)
Live ==
  \A t \in frontend \cup OnItsWay : t.conn = conn[t.client] =>
    t.obj = obj[t.client] /\ dirty[t.client] /\ mail[t.client] = <<>>
DirtyWaiting == \A c \in Clients : cpc[c] = "wait" => dirty[c]

---------------------------------------------------------------------------
(* Every step is of one of six kinds.                                       *)
QuietStep ==
  /\ \A w \in Workers : Shrinks(w)
  /\ UNCHANGED <<conn, frontend, mail, clientVars, working>>

WorkStep(w) ==
  /\ Works(w)
  /\ UNCHANGED <<conn, frontend, mail, clientVars, working>>

ForwardStep(t) ==
  /\ ForwardRequest(t)
  /\ UNCHANGED <<held, clientVars>>

ResultStep(w) ==
  /\ HandsIn(w)
  /\ \A v \in Workers \ {w} : Same(v)
  /\ ReplyToClient(Head(chan[w]).task)
  /\ working' = RemoveFirst(working, w)
  /\ UNCHANGED <<conn, frontend, clientVars>>

BrokerEnds ==
  /\ LoseBroker
  /\ ForgetWorkers
  /\ \A c \in Clients : mail'[c] \in {mail[c], <<>>}
  /\ UNCHANGED <<sock, held, clientVars>>
  /\ BrokerExit \/ "brokerKill" \in Faults \/ supPc = "kill"

AskStep(c) ==
  /\ ClientSend(c) \/ ClientRecv(c) \/ ClientRetry(c) \/ ClientGiveUp(c)
  /\ \A w \in Workers : Same(w)
  /\ UNCHANGED working

(* Each step of laikad is of one of these kinds.                            *)
LEMMA StepKind ==
  ASSUME IInv, [Next]_vars
  PROVE  \/ QuietStep
         \/ \E w \in Workers : WorkStep(w) \/ ResultStep(w)
         \/ \E t \in frontend : ForwardStep(t)
         \/ BrokerEnds
         \/ \E c \in Clients : AskStep(c)
<1> DEFINE Kinds == \/ QuietStep
                    \/ \E w \in Workers : WorkStep(w) \/ ResultStep(w)
                    \/ \E t \in frontend : ForwardStep(t)
                    \/ BrokerEnds
                    \/ \E c \in Clients : AskStep(c)
<1> SUFFICES Kinds
  OBVIOUS
<1>0. /\ QueuesOK
      /\ WorkerPart
      /\ mail \in [Clients -> Seq(Task)]
  BY DEF IInv, TypeOK, WireTypeOK, WorkerTypeOK, QueuesOK, WorkerPart
<1>1. ASSUME UNCHANGED <<inbox, held, chan, conn, frontend, mail, clientVars, working>>
      PROVE  Kinds
  BY <1>0, <1>1, SameShrinks DEF Same, QuietStep
<1>2. ASSUME NEW w \in Workers, chan[w] # <<>>, chan' = [chan EXCEPT ![w] = Tail(@)],
             UNCHANGED <<inbox, held, conn, frontend, clientVars>>
      PROVE  /\ UNCHANGED <<mail, working>> => Kinds
             /\ /\ Head(chan[w]).status \in ResultStatus
                /\ ReplyToClient(Head(chan[w]).task)
                /\ working' = RemoveFirst(working, w)
                => Kinds
  <2>1. chan[w] \in Seq(WorkerMsg) /\ inbox[w] \in Seq(Task)
    BY <1>0 DEF QueuesOK
  <2>2. /\ inbox'[w] = inbox[w] /\ held'[w] = held[w] /\ chan'[w] = Tail(chan[w])
        /\ \A v \in Workers \ {w} : Same(v)
    BY <1>0, <1>2 DEF QueuesOK, Same
  <2>3. /\ Window(inbox[w], inbox[w])
        /\ Tail(chan[w]) \in Seq(WorkerMsg) /\ Window(Tail(chan[w]), chan[w])
    BY <1>2, <2>1, PlainWindows, StatusTail
  <2>4. Shrinks(w)
    BY <1>0, <2>2, <2>3, LosingShrinks
  <2>5. \A v \in Workers : Shrinks(v)
    BY <1>0, <2>2, <2>4, SameShrinks
  <2>6. ASSUME UNCHANGED <<mail, working>> PROVE Kinds
    BY <1>2, <2>5, <2>6 DEF QuietStep
  <2>7. ASSUME /\ Head(chan[w]).status \in ResultStatus
               /\ ReplyToClient(Head(chan[w]).task)
               /\ working' = RemoveFirst(working, w)
        PROVE  Kinds
    BY <1>2, <2>2, <2>7 DEF ResultStep, HandsIn
  <2> QED BY <2>6, <2>7
<1>3. ASSUME LoseBroker, ForgetWorkers, UNCHANGED <<sock, held, clientVars>>,
             \A c \in Clients : mail'[c] \in {mail[c], <<>>},
             BrokerExit \/ "brokerKill" \in Faults \/ supPc = "kill"
      PROVE  Kinds
  BY <1>3 DEF BrokerEnds
<1>4. ASSUME KillBroker PROVE \A c \in Clients : mail'[c] \in {mail[c], <<>>}
  BY <1>0, <1>4 DEF KillBroker
<1>5. CASE BrokerStep
  <2> USE DEF workerVars, clientVars, supVars
  <2>0. UNCHANGED <<held, clientVars>>
    BY <1>5 DEF BrokerStep
  <2>1. ASSUME NEW t \in frontend, ForwardRequest(t) PROVE Kinds
    BY <2>0, <2>1 DEF ForwardStep
  <2>2. ASSUME NEW w \in Workers, OnWorkerMessage(w) PROVE Kinds
    <3>1. /\ chan[w] # <<>> /\ chan' = [chan EXCEPT ![w] = Tail(@)]
          /\ UNCHANGED <<inbox, held, conn, frontend, clientVars>>
      BY <2>0, <2>2 DEF OnWorkerMessage
    <3>2. \/ UNCHANGED <<mail, working>>
          \/ /\ Head(chan[w]).status \in ResultStatus
             /\ ReplyToClient(Head(chan[w]).task)
             /\ working' = RemoveFirst(working, w)
      BY <2>2 DEF OnWorkerMessage, OnReady, OnQuit, OnResultReady, OnResultQuit, ResultStatus
    <3> QED BY <1>2, <3>1, <3>2
  <2>3. ASSUME NEW w \in Workers, OnDrainMessage(w) PROVE Kinds
    <3>1. /\ chan[w] # <<>> /\ chan' = [chan EXCEPT ![w] = Tail(@)]
          /\ UNCHANGED <<inbox, held, conn, frontend, clientVars>>
      BY <2>0, <2>3 DEF OnDrainMessage
    <3>2. \/ UNCHANGED <<mail, working>>
          \/ /\ Head(chan[w]).status \in ResultStatus
             /\ ReplyToClient(Head(chan[w]).task)
             /\ working' = RemoveFirst(working, w)
      BY <2>3 DEF OnDrainMessage
    <3> QED BY <1>2, <3>1, <3>2
  <2>4. CASE BrokerSignal \/ GraceExpires
    BY <1>1, <2>0, <2>4 DEF BrokerSignal, GraceExpires, wireVars
  <2>5. CASE BrokerExit
    BY <1>3, <2>0, <2>5 DEF BrokerExit
  <2>6. CASE "brokerKill" \in Faults /\ KillBroker
    BY <1>3, <1>4, <2>0, <2>6 DEF KillBroker
  <2> QED BY <1>5, <2>1, <2>2, <2>3, <2>4, <2>5, <2>6 DEF BrokerStep
<1>6. ASSUME NEW w \in Workers, WorkerStep(w) PROVE Kinds
  <2>1. WorkerActs(w, BrokerUp) /\ UNCHANGED <<brokerVars, clientVars>>
    BY <1>6 DEF WorkerStep, WorkerWork, WorkerActs
  <2>2. Works(w) \/ \A v \in Workers : Shrinks(v)
    BY <1>0, <2>1, WorkerEffect
  <2>3. UNCHANGED <<conn, frontend, mail>>
    BY <1>6 DEF WorkerStep, WorkerWork, Boot, Take, GraceTake, Receive, PollTimeout, Finish,
                GraceFinish, GraceTimeout, Sent, Exit, Die, ScanError, WorkerSignal,
                WorkerKill, wireVars
  <2> QED BY <2>1, <2>2, <2>3 DEF QuietStep, WorkStep, brokerVars
<1>7. ASSUME NEW c \in Clients, ClientStep(c) PROVE Kinds
  <2>1. UNCHANGED <<brokerVars, workerVars, inbox, chan>>
    BY <1>7 DEF ClientStep, ClientSend, ClientRecv, ClientRetry, ClientGiveUp, wireVars
  <2> QED BY <1>7, <2>1 DEF ClientStep, AskStep, Same, brokerVars, workerVars
<1>8. CASE SupervisorStep
  <2>1. CASE RestartBroker
    BY <1>1, <2>1 DEF RestartBroker, StartBroker, wireVars, workerVars
  <2>2. ASSUME NEW w \in Workers, NEW new \in Workers, ReplaceWorker(w, new),
               UNCHANGED <<brokerVars, clientVars>>
        PROVE  Kinds
    BY <1>1, <2>2 DEF ReplaceWorker, wireVars, brokerVars
  <2>3. ASSUME SupStop, UNCHANGED <<brokerVars, clientVars>> PROVE Kinds
    BY <1>1, <2>3 DEF SupStop, wireVars, workerVars, brokerVars
  <2>4. ASSUME SupKillWorkers(BrokerUp), UNCHANGED <<brokerVars, clientVars>> PROVE Kinds
    BY <1>0, <2>4, KillWorkersShrinks DEF QuietStep, SupKillWorkers, brokerVars
  <2>5. CASE SupKillBroker
    <3>1. CASE BrokerUp
      BY <1>3, <1>4, <2>5, <3>1 DEF SupKillBroker, KillBroker, workerVars, clientVars
    <3>2. CASE ~BrokerUp
      BY <1>1, <2>5, <3>2 DEF SupKillBroker, wireVars, brokerVars, workerVars
    <3> QED BY <3>1, <3>2
  <2> QED BY <1>8, <2>1, <2>2, <2>3, <2>4, <2>5 DEF SupervisorStep
<1>9. CASE UNCHANGED vars
  BY <1>1, <1>9 DEF vars, wireVars, workerVars, brokerVars
<1> QED BY <1>5, <1>6, <1>7, <1>8, <1>9 DEF Next

---------------------------------------------------------------------------
(* An attempt is in one place.                                              *)
LEMMA InvQueues == IInv => QueuesOK
BY DEF IInv, TypeOK, WireTypeOK, WorkerTypeOK, QueuesOK

Everywhere == frontend \cup OnItsWay \cup Delivered

(* All that is anywhere is an attempt of a client.                          *)
LEMMA AttemptsTyped ==
  ASSUME IInv
  PROVE  \A t \in Everywhere : t \in Task /\ t.client \in Clients
<1>1. frontend \subseteq Task
  BY DEF IInv, TypeOK, WireTypeOK
<1>2. OnItsWay \subseteq Task
  BY InvQueues, TasksAreTasks DEF OnItsWay
<1>3. ASSUME NEW c \in Clients PROVE ToSet(mail[c]) \subseteq Task
  <2>1. mail[c] \in Seq(Task)
    BY DEF IInv, TypeOK, WireTypeOK
  <2>2. \A i \in DOMAIN mail[c] : mail[c][i] \in Task
    BY <2>1, ElementOfSeq
  <2> QED BY <2>2 DEF ToSet
<1>4. \A t \in Task : t.client \in Clients
  BY DEF Task
<1> QED BY <1>1, <1>2, <1>3, <1>4 DEF Everywhere, Delivered

(* What replies, reconnections and the end of a broker do to the mail.      *)
LEMMA ReplyDelivers ==
  ASSUME IInv, NEW t \in Task, ReplyToClient(t)
  PROVE  Delivered' \subseteq Delivered \cup {t}
<1>1. t.client \in Clients
  BY DEF Task
<1>2. ASSUME NEW c \in Clients PROVE ToSet(mail'[c]) \subseteq ToSet(mail[c]) \cup {t}
  <2>1. mail[c] \in Seq(Task)
    BY DEF IInv, TypeOK, WireTypeOK
  <2>2. mail'[c] \in {mail[c], Append(mail[c], t)}
    BY <1>1 DEF ReplyToClient, IInv, TypeOK, WireTypeOK
  <2>3. ToSet(Append(mail[c], t)) = ToSet(mail[c]) \cup {t}
    BY <2>1, AppendAny
  <2> QED BY <2>2, <2>3
<1> QED BY <1>2 DEF Delivered

(* Replies that are read or lost add nothing.                               *)
LEMMA MailShrinks ==
  ASSUME IInv, \A c \in Clients : mail'[c] \in {mail[c], <<>>} \/ (mail[c] # <<>> /\ mail'[c] = Tail(mail[c]))
  PROVE  Delivered' \subseteq Delivered
<1>1. ASSUME NEW c \in Clients PROVE ToSet(mail'[c]) \subseteq ToSet(mail[c])
  <2>1. mail[c] \in Seq(Task) /\ <<>> \in Seq(Task)
    BY EmptySeq DEF IInv, TypeOK, WireTypeOK
  <2>2. CASE mail'[c] \in {mail[c], <<>>}
    BY <2>1, <2>2, PlainWindows, WindowSubset
  <2>3. CASE mail[c] # <<>> /\ mail'[c] = Tail(mail[c])
    <3>1. Tail(mail[c]) \in Seq(Task) /\ Window(Tail(mail[c]), mail[c])
      BY <2>1, <2>3, PlainWindows, HeadTailProperties
    <3> QED BY <2>1, <2>3, <3>1, WindowSubset
  <2> QED BY <2>2, <2>3
<1> QED BY <1>1 DEF Delivered

(* A client that asks puts at most one attempt into the queue, and no such  *)
(* attempt has been made before.                                            *)
LEMMA AskAdds ==
  ASSUME IInv, NEW c \in Clients, AskStep(c)
  PROVE  /\ Delivered' \subseteq Delivered
         /\ \A d \in Clients : conn'[d] >= conn[d] /\ obj'[d] >= obj[d]
         /\ \/ frontend' \subseteq frontend
            \/ /\ frontend' \subseteq frontend \cup {Attempt(c, conn'[c], obj'[c])}
               /\ conn'[c] > conn[c] \/ obj'[c] > obj[c]
<1>0. /\ conn \in [Clients -> Nat] /\ obj \in [Clients -> Nat]
      /\ mail \in [Clients -> Seq(Task)]
  BY DEF IInv, TypeOK, WireTypeOK, ClientTypeOK
<1>1. CASE ClientSend(c)
  <2>1. obj' = [obj EXCEPT ![c] = @ + 1]
    BY <1>1 DEF ClientSend
  <2>2. CASE dirty[c]
    <3>1. Reconnect(c, {Attempt(c, conn[c] + 1, obj[c] + 1)})
      BY <1>1, <2>2 DEF ClientSend
    <3>2. conn' = [conn EXCEPT ![c] = @ + 1] /\ mail' = [mail EXCEPT ![c] = <<>>]
      BY <3>1 DEF Reconnect
    <3>3. Delivered' \subseteq Delivered
      BY <1>0, <3>2, MailShrinks
    <3>4. conn'[c] = conn[c] + 1 /\ obj'[c] = obj[c] + 1
      BY <1>0, <2>1, <3>2
    <3>5. frontend' \subseteq frontend \cup {Attempt(c, conn'[c], obj'[c])}
      BY <3>1, <3>4 DEF Reconnect
    <3> QED BY <1>0, <2>1, <3>2, <3>3, <3>4, <3>5
  <2>3. CASE ~dirty[c]
    <3>1. /\ frontend' = frontend \cup {Attempt(c, conn[c], obj[c] + 1)}
          /\ UNCHANGED <<conn, mail>>
      BY <1>1, <2>3 DEF ClientSend
    <3>2. Delivered' \subseteq Delivered
      BY <3>1 DEF Delivered
    <3> QED BY <1>0, <2>1, <3>1, <3>2
  <2> QED BY <2>2, <2>3
<1>2. CASE ClientRecv(c)
  <2>1. Delivered' \subseteq Delivered
    BY <1>0, <1>2, MailShrinks DEF ClientRecv
  <2> QED BY <1>0, <1>2, <2>1 DEF ClientRecv
<1>3. CASE ClientRetry(c)
  <2>1. Reconnect(c, {Attempt(c, conn[c] + 1, obj[c])}) /\ obj' = obj
    BY <1>3 DEF ClientRetry
  <2>2. conn' = [conn EXCEPT ![c] = @ + 1] /\ mail' = [mail EXCEPT ![c] = <<>>]
    BY <2>1 DEF Reconnect
  <2>3. Delivered' \subseteq Delivered
    BY <1>0, <2>2, MailShrinks
  <2>4. conn'[c] = conn[c] + 1 /\ obj'[c] = obj[c]
    BY <1>0, <2>1, <2>2
  <2>5. frontend' \subseteq frontend \cup {Attempt(c, conn'[c], obj'[c])}
    BY <2>1, <2>4 DEF Reconnect
  <2> QED BY <1>0, <2>1, <2>2, <2>3, <2>4, <2>5
<1>4. CASE ClientGiveUp(c)
  BY <1>0, <1>4 DEF ClientGiveUp, wireVars, Delivered
<1> QED BY <1>1, <1>2, <1>3, <1>4 DEF AskStep

(* Steps after which no attempt is where it was not before.                 *)
LEMMA ApartShrinks ==
  ASSUME Apart, \A w \in Workers : TasksOf(w)' \subseteq TasksOf(w) /\ Neat(w)',
         Delivered' \subseteq Delivered,
         frontend' \cap (OnItsWay \cup Delivered) = {}
  PROVE  Apart' /\ OnItsWay' \subseteq OnItsWay
<1>1. OnItsWay' \subseteq OnItsWay
  BY DEF OnItsWay
<1>2. \A v, w \in Workers : v # w => TasksOf(v)' \cap TasksOf(w)' = {}
  BY DEF Apart
<1> QED BY <1>1, <1>2 DEF Apart

(* Identities and numbers of calls only grow, and what is new is not beyond *)
(* them.                                                                    *)
LEMMA KnownGrows ==
  ASSUME IInv, IInv', Known,
         \A c \in Clients : conn'[c] >= conn[c] /\ obj'[c] >= obj[c],
         \A t \in Everywhere' \ Everywhere : t.conn <= conn'[t.client] /\ t.obj <= obj'[t.client]
  PROVE  Known'
<1>1. ASSUME NEW t \in Everywhere' PROVE t.conn <= conn'[t.client] /\ t.obj <= obj'[t.client]
  <2>1. CASE t \in Everywhere
    <3>1. /\ t \in Task /\ t.client \in Clients
          /\ t.conn <= conn[t.client] /\ t.obj <= obj[t.client]
      BY <2>1, AttemptsTyped DEF Known, Everywhere
    <3>2. /\ t.conn \in Nat /\ t.obj \in Nat
          /\ conn[t.client] \in Nat /\ obj[t.client] \in Nat
          /\ conn'[t.client] \in Nat /\ obj'[t.client] \in Nat
      BY <3>1 DEF Task, IInv, TypeOK, WireTypeOK, ClientTypeOK
    <3>3. conn'[t.client] >= conn[t.client] /\ obj'[t.client] >= obj[t.client]
      BY <3>1
    <3> QED BY <3>1, <3>2, <3>3
  <2>2. CASE t \notin Everywhere
    BY <1>1, <2>2
  <2> QED BY <2>1, <2>2
<1> QED BY <1>1 DEF Known, Everywhere

(* Every step keeps an attempt in one place, and known to its client.       *)
LEMMA ApartStep ==
  ASSUME IInv, IInv', Apart, Known, [Next]_vars
  PROVE  Apart' /\ Known'
<1>0. /\ QueuesOK /\ QueuesOK'
      /\ conn \in [Clients -> Nat] /\ obj \in [Clients -> Nat]
  BY InvQueues DEF IInv, TypeOK, WireTypeOK, WorkerTypeOK, ClientTypeOK, QueuesOK
<1>1. ASSUME UNCHANGED <<conn, clientVars>>, Everywhere' \subseteq Everywhere
      PROVE  Known'
  <2>1. \A c \in Clients : conn'[c] >= conn[c] /\ obj'[c] >= obj[c]
    BY <1>0, <1>1 DEF clientVars
  <2> QED BY <1>1, <2>1, KnownGrows
<1>2. ASSUME \A w \in Workers : Shrinks(w)
      PROVE  \A w \in Workers : TasksOf(w)' \subseteq TasksOf(w) /\ Neat(w)'
  BY <1>0, <1>2, Shrinking DEF Apart
<1>3. ASSUME NEW w \in Workers, Same(w)
      PROVE  TasksOf(w)' = TasksOf(w) /\ Neat(w)'
  BY <1>3, SameTasks DEF Apart
<1>4. ASSUME UNCHANGED <<frontend, mail, conn, clientVars>>,
             \A w \in Workers : TasksOf(w)' \subseteq TasksOf(w) /\ Neat(w)'
      PROVE  Apart' /\ Known'
  <2>1. Delivered' = Delivered /\ frontend' = frontend
    BY <1>4 DEF Delivered
  <2>2. Apart' /\ OnItsWay' \subseteq OnItsWay
    BY <1>4, <2>1, ApartShrinks DEF Apart
  <2>3. Everywhere' \subseteq Everywhere
    BY <2>1, <2>2 DEF Everywhere
  <2> QED BY <1>1, <1>4, <2>2, <2>3
<1>5. CASE QuietStep
  BY <1>2, <1>4, <1>5 DEF QuietStep
<1>6. ASSUME NEW w \in Workers, WorkStep(w) PROVE Apart' /\ Known'
  <2>1. TasksOf(w)' = TasksOf(w) /\ Neat(w)'
    BY <1>0, <1>6, TakingUp, Completing DEF WorkStep, Works, Apart
  <2>2. \A v \in Workers : TasksOf(v)' \subseteq TasksOf(v) /\ Neat(v)'
    BY <1>3, <1>6, <2>1 DEF WorkStep, Works
  <2> QED BY <1>4, <1>6, <2>2 DEF WorkStep
<1>7. ASSUME NEW w \in Workers, ResultStep(w) PROVE Apart' /\ Known'
  <2> DEFINE t == Head(chan[w]).task
  <2>1. /\ t \in TasksOf(w) /\ TasksOf(w) = TasksOf(w)' \cup {t}
        /\ Neat(w)' /\ t \notin TasksOf(w)'
    BY <1>0, <1>7, HandingIn DEF ResultStep, Apart
  <2>2. \A v \in Workers \ {w} : TasksOf(v)' = TasksOf(v) /\ Neat(v)'
    BY <1>3, <1>7 DEF ResultStep
  <2>3. t \in OnItsWay /\ t \in Task
    BY <2>1, AttemptsTyped DEF OnItsWay, Everywhere
  <2>4. Delivered' \subseteq Delivered \cup {t}
    BY <1>7, <2>3, ReplyDelivers DEF ResultStep
  <2> HIDE DEF t
  <2>5. OnItsWay' \subseteq OnItsWay /\ t \notin OnItsWay'
    <3>1. \A v \in Workers \ {w} : t \notin TasksOf(v)
      BY <2>1 DEF Apart
    <3> QED BY <2>1, <2>2, <3>1 DEF OnItsWay
  <2>6. frontend' = frontend /\ UNCHANGED <<conn, clientVars>>
    BY <1>7 DEF ResultStep
  <2>7. \A v, u \in Workers : v # u => TasksOf(v)' \cap TasksOf(u)' = {}
    BY <2>1, <2>2 DEF Apart
  <2>8. \A v \in Workers : Neat(v)'
    BY <2>1, <2>2
  <2>9. Apart'
    BY <2>3, <2>4, <2>5, <2>6, <2>7, <2>8 DEF Apart
  <2>10. Everywhere' \subseteq Everywhere
    BY <2>3, <2>4, <2>5, <2>6 DEF Everywhere
  <2> QED BY <1>1, <2>6, <2>9, <2>10
<1>8. ASSUME NEW t \in frontend, ForwardStep(t) PROVE Apart' /\ Known'
  <2>a. Head(avail) \in Workers
    BY <1>8, HeadTailProperties
    DEF ForwardStep, ForwardRequest, IInv, TypeOK, BrokerTypeOK
  <2>b. PICK w \in Workers : w = Head(avail)
    BY <2>a
  <2>1. t \in Task /\ w \in Workers
    BY DEF IInv, TypeOK, WireTypeOK
  <2>2. /\ frontend' = frontend \ {t} /\ UNCHANGED <<mail, conn, clientVars, held, chan>>
        /\ inbox' = IF w \in sock THEN [inbox EXCEPT ![w] = Append(@, t)] ELSE inbox
    BY <1>8, <2>b DEF ForwardStep, ForwardRequest, SendToWorker
  <2>3. t \notin OnItsWay \cup Delivered
    BY DEF Apart
  <2>4. \A v \in Workers \ {w} : Same(v)
    BY <1>0, <2>2 DEF QueuesOK, Same
  <2>5. \A v \in Workers \ {w} : TasksOf(v)' = TasksOf(v) /\ Neat(v)'
    BY <1>3, <2>4
  <2>6. TasksOf(w)' \subseteq TasksOf(w) \cup {t} /\ Neat(w)'
    <3>1. CASE w \in sock
      <4>1. Gets(w, t)
        BY <1>0, <2>1, <2>2, <3>1 DEF QueuesOK, Gets
      <4>2. t \notin TasksOf(w)
        BY <2>1, <2>3 DEF OnItsWay
      <4> QED BY <1>0, <2>1, <4>1, <4>2, Getting DEF Apart
    <3>2. CASE w \notin sock
      BY <1>3, <2>1, <2>2, <3>2 DEF Same
    <3> QED BY <3>1, <3>2
  <2>7. OnItsWay' \subseteq OnItsWay \cup {t}
    BY <2>1, <2>5, <2>6 DEF OnItsWay
  <2>8. Delivered' = Delivered
    BY <2>2 DEF Delivered
  <2>9. \A v, u \in Workers : v # u => TasksOf(v)' \cap TasksOf(u)' = {}
    <3>1. \A v \in Workers : t \notin TasksOf(v)
      BY <2>3 DEF OnItsWay
    <3> QED BY <2>5, <2>6, <3>1 DEF Apart
  <2>10. \A v \in Workers : Neat(v)'
    BY <2>5, <2>6
  <2>11. Apart'
    BY <2>2, <2>3, <2>7, <2>8, <2>9, <2>10 DEF Apart
  <2>12. Everywhere' \subseteq Everywhere
    BY <2>2, <2>7, <2>8 DEF Everywhere
  <2> QED BY <1>1, <2>2, <2>11, <2>12
<1>9. CASE BrokerEnds
  <2>1. \A w \in Workers : TasksOf(w)' \subseteq TasksOf(w) /\ Neat(w)'
    BY <1>0, <1>2, <1>9, LoseBrokerShrinks DEF BrokerEnds
  <2>2. Delivered' \subseteq Delivered
    BY <1>9, MailShrinks DEF BrokerEnds
  <2>3. /\ \A c \in Clients : conn'[c] = conn[c] + 1 /\ obj'[c] = obj[c]
        /\ \A u \in frontend' : \E t \in frontend :
              /\ t.conn = conn[t.client]
              /\ u.conn = t.conn + 1 /\ u.client = t.client /\ u.obj = t.obj
    BY <1>9, EndRenames DEF IInv, TypeOK, BrokerEnds, clientVars
  <2>4. ASSUME NEW u \in frontend'
        PROVE  /\ u \notin OnItsWay \cup Delivered
               /\ u.conn = conn'[u.client] /\ u.obj <= obj'[u.client]
    <3>1. PICK t \in frontend : /\ t.conn = conn[t.client]
                                /\ u.conn = t.conn + 1 /\ u.client = t.client /\ u.obj = t.obj
      BY <2>3
    <3>2. /\ t.client \in Clients /\ t.conn <= conn[t.client] /\ t.obj <= obj[t.client]
      BY AttemptsTyped DEF Known, Everywhere
    <3>3. conn[t.client] \in Nat
      BY <1>0, <3>2
    <3>4. u.conn = conn[u.client] + 1
      BY <3>1
    <3>5. ~(u.conn <= conn[u.client])
      BY <3>1, <3>3, <3>4
    <3>6. u \notin OnItsWay \cup Delivered
      BY <3>5 DEF Known
    <3> QED BY <2>3, <3>1, <3>2, <3>4, <3>6
  <2>5. Apart' /\ OnItsWay' \subseteq OnItsWay
    BY <2>1, <2>2, <2>4, ApartShrinks
  <2>6. \A c \in Clients : conn'[c] >= conn[c] /\ obj'[c] >= obj[c]
    BY <1>0, <2>3
  <2>7. \A t \in Everywhere' \ Everywhere : t.conn <= conn'[t.client] /\ t.obj <= obj'[t.client]
    <3>1. ASSUME NEW u \in frontend' PROVE u.conn <= conn'[u.client]
      <4>1. u.client \in Clients
        BY <3>1, AttemptsTyped DEF Everywhere, IInv, TypeOK, WireTypeOK, Task
      <4>2. conn'[u.client] \in Nat
        BY <1>0, <2>3, <4>1
      <4> QED BY <2>4, <4>2
    <3> QED BY <2>2, <2>4, <2>5, <3>1 DEF Everywhere
  <2> QED BY <2>5, <2>6, <2>7, KnownGrows
<1>10. ASSUME NEW c \in Clients, AskStep(c) PROVE Apart' /\ Known'
  <2> DEFINE u == Attempt(c, conn'[c], obj'[c])
  <2>1. /\ Delivered' \subseteq Delivered
        /\ \A d \in Clients : conn'[d] >= conn[d] /\ obj'[d] >= obj[d]
        /\ \/ frontend' \subseteq frontend
           \/ /\ frontend' \subseteq frontend \cup {u}
              /\ conn'[c] > conn[c] \/ obj'[c] > obj[c]
    BY <1>10, AskAdds
  <2>2. \A w \in Workers : TasksOf(w)' \subseteq TasksOf(w) /\ Neat(w)'
    BY <1>3, <1>10 DEF AskStep
  <2>3. u.client = c /\ u.conn = conn'[c] /\ u.obj = obj'[c]
    BY DEF Attempt
  <2> HIDE DEF u
  <2>4. /\ conn[c] \in Nat /\ obj[c] \in Nat /\ conn'[c] \in Nat /\ obj'[c] \in Nat
    BY DEF IInv, TypeOK, WireTypeOK, ClientTypeOK
  <2>5. conn'[c] > conn[c] \/ obj'[c] > obj[c] => u \notin OnItsWay \cup Delivered
    BY <2>3, <2>4 DEF Known
  <2>6. frontend' \cap (OnItsWay \cup Delivered) = {}
    BY <2>1, <2>5 DEF Apart
  <2>7. Apart' /\ OnItsWay' \subseteq OnItsWay
    BY <2>1, <2>2, <2>6, ApartShrinks
  <2>8. \A t \in Everywhere' \ Everywhere : t = u
    BY <2>1, <2>7 DEF Everywhere
  <2>9. u.conn <= conn'[u.client] /\ u.obj <= obj'[u.client]
    BY <2>3, <2>4
  <2> QED BY <2>1, <2>7, <2>8, <2>9, KnownGrows
<1> QED BY <1>5, <1>6, <1>7, <1>8, <1>9, <1>10, StepKind

---------------------------------------------------------------------------
(* A reply belongs to the latest object.                                    *)
Awaited == Live /\ DirtyWaiting /\ ReplyMatches

(* Where requests and tasks only move on, and no client acts.               *)
LEMMA AwaitedKept ==
  ASSUME Awaited, UNCHANGED <<conn, mail, clientVars>>,
         frontend' \cup OnItsWay' \subseteq frontend \cup OnItsWay
  PROVE  Awaited'
BY DEF Awaited, Live, DirtyWaiting, ReplyMatches, clientVars

(* An attempt is its client, connection and call.                           *)
LEMMA SameAttempt ==
  ASSUME NEW t \in Task, NEW u \in Task, t.client = u.client, t.conn = u.conn, t.obj = u.obj
  PROVE  t = u
BY DEF Task

(* What each kind of step does to the tasks of all workers together.        *)
LEMMA OnItsWayKept ==
  ASSUME IInv, IInv', Apart, [Next]_vars
  PROVE  /\ \A w \in Workers : ResultStep(w) =>
              OnItsWay' \subseteq OnItsWay \ {Head(chan[w]).task} /\ Head(chan[w]).task \in OnItsWay
         /\ QuietStep \/ (\E w \in Workers : WorkStep(w)) \/ BrokerEnds
              \/ (\E c \in Clients : AskStep(c)) => OnItsWay' \subseteq OnItsWay
         /\ \A t \in frontend : ForwardStep(t) =>
              OnItsWay' \subseteq OnItsWay \cup {t} /\ frontend' = frontend \ {t}
<1>0. QueuesOK /\ QueuesOK'
  BY InvQueues DEF IInv, TypeOK, WireTypeOK, WorkerTypeOK, QueuesOK
<1>1. ASSUME NEW w \in Workers, Same(w) PROVE TasksOf(w)' = TasksOf(w)
  BY <1>1, SameTasks
<1>2. ASSUME \A w \in Workers : Shrinks(w) PROVE OnItsWay' \subseteq OnItsWay
  BY <1>0, <1>2, Shrinking DEF OnItsWay
<1>3. ASSUME NEW w \in Workers, ResultStep(w)
      PROVE  OnItsWay' \subseteq OnItsWay \ {Head(chan[w]).task} /\ Head(chan[w]).task \in OnItsWay
  <2> DEFINE t == Head(chan[w]).task
  <2>1. /\ t \in TasksOf(w) /\ TasksOf(w) = TasksOf(w)' \cup {t}
        /\ t \notin TasksOf(w)'
    BY <1>0, <1>3, HandingIn DEF ResultStep, Apart
  <2>2. \A v \in Workers \ {w} : TasksOf(v)' = TasksOf(v)
    BY <1>1, <1>3 DEF ResultStep
  <2> HIDE DEF t
  <2>3. \A v \in Workers \ {w} : t \notin TasksOf(v)
    BY <2>1 DEF Apart
  <2>4. OnItsWay' \subseteq OnItsWay \ {t} /\ t \in OnItsWay
    BY <2>1, <2>2, <2>3 DEF OnItsWay
  <2> QED BY <2>4 DEF t
<1>4. ASSUME NEW w \in Workers, WorkStep(w) PROVE OnItsWay' \subseteq OnItsWay
  <2>1. TasksOf(w)' = TasksOf(w)
    BY <1>0, <1>4, TakingUp, Completing DEF WorkStep, Works
  <2>2. \A v \in Workers : TasksOf(v)' = TasksOf(v)
    BY <1>1, <1>4, <2>1 DEF WorkStep, Works
  <2> QED BY <2>2 DEF OnItsWay
<1>5. ASSUME NEW t \in frontend, ForwardStep(t)
      PROVE  OnItsWay' \subseteq OnItsWay \cup {t} /\ frontend' = frontend \ {t}
  <2>1. Head(avail) \in Workers
    BY <1>5, HeadTailProperties
    DEF ForwardStep, ForwardRequest, IInv, TypeOK, BrokerTypeOK
  <2>2. PICK w \in Workers : w = Head(avail)
    BY <2>1
  <2>3. /\ UNCHANGED <<held, chan>> /\ t \in Task
        /\ inbox' = IF w \in sock THEN [inbox EXCEPT ![w] = Append(@, t)] ELSE inbox
    BY <1>5, <2>2 DEF ForwardStep, ForwardRequest, SendToWorker, IInv, TypeOK, WireTypeOK
  <2>4. \A v \in Workers \ {w} : Same(v)
    BY <1>0, <2>3 DEF QueuesOK, Same
  <2>5. TasksOf(w)' \subseteq TasksOf(w) \cup {t}
    <3>1. CASE w \in sock
      <4>1. Gets(w, t)
        BY <1>0, <2>3, <3>1 DEF QueuesOK, Gets
      <4> QED BY <1>0, <2>3, <4>1, Getting
    <3>2. CASE w \notin sock
      BY <1>1, <2>3, <3>2 DEF Same
    <3> QED BY <3>1, <3>2
  <2>6. OnItsWay' \subseteq OnItsWay \cup {t}
    BY <1>1, <2>4, <2>5 DEF OnItsWay
  <2> QED BY <1>5, <2>6 DEF ForwardStep, ForwardRequest
<1>6. ASSUME NEW c \in Clients, AskStep(c) PROVE OnItsWay' \subseteq OnItsWay
  BY <1>1, <1>6 DEF AskStep, OnItsWay
<1>7. BrokerEnds => OnItsWay' \subseteq OnItsWay
  BY <1>0, <1>2, LoseBrokerShrinks DEF BrokerEnds
<1> QED BY <1>2, <1>3, <1>4, <1>5, <1>6, <1>7 DEF QuietStep

(* Where only client c has done something.                                  *)
OwnAwaited(c) ==
  /\ \A u \in frontend \cup OnItsWay : u.client = c /\ u.conn = conn[c] =>
       u.obj = obj[c] /\ dirty[c] /\ mail[c] = <<>>
  /\ cpc[c] = "wait" => dirty[c]
  /\ Len(mail[c]) <= 1
  /\ \A i \in DOMAIN mail[c] :
       mail[c][i].client = c /\ mail[c][i].obj = obj[c] /\ dirty[c]
  /\ cpc[c] = "idle" /\ result[c] # None => result[c].obj = obj[c]

(* A client's own step concerns no other client.                            *)
LEMMA AwaitedElsewhere ==
  ASSUME IInv, Awaited, NEW c \in Clients, OwnAwaited(c)',
         \A d \in Clients \ {c} :
           /\ conn'[d] = conn[d] /\ mail'[d] = mail[d] /\ cpc'[d] = cpc[d]
           /\ obj'[d] = obj[d] /\ dirty'[d] = dirty[d] /\ result'[d] = result[d],
         \A u \in frontend' \cup OnItsWay' : u \in frontend \cup OnItsWay \/ u.client = c
  PROVE  Awaited'
<1>1. ASSUME NEW u \in frontend' \cup OnItsWay', u.conn = conn'[u.client]
      PROVE  u.obj = obj'[u.client] /\ dirty'[u.client] /\ mail'[u.client] = <<>>
  <2>1. CASE u.client = c
    BY <1>1, <2>1 DEF OwnAwaited
  <2>2. CASE u.client # c
    <3>1. u \in frontend \cup OnItsWay /\ u.client \in Clients
      BY <2>2, AttemptsTyped DEF Everywhere
    <3> QED BY <1>1, <2>2, <3>1 DEF Awaited, Live
  <2> QED BY <2>1, <2>2
<1>2. ASSUME NEW d \in Clients
      PROVE  /\ cpc'[d] = "wait" => dirty'[d]
             /\ Len(mail'[d]) <= 1
             /\ \A i \in DOMAIN mail'[d] :
                  mail'[d][i].client = d /\ mail'[d][i].obj = obj'[d] /\ dirty'[d]
             /\ cpc'[d] = "idle" /\ result'[d] # None => result'[d].obj = obj'[d]
  <2>1. CASE d = c
    BY <2>1 DEF OwnAwaited
  <2>2. CASE d # c
    BY <2>2 DEF Awaited, DirtyWaiting, ReplyMatches
  <2> QED BY <2>1, <2>2
<1> QED BY <1>1, <1>2 DEF Awaited, Live, DirtyWaiting, ReplyMatches

(* Every step keeps what waits over a present connection wanted by its      *)
(* client.                                                                  *)
LEMMA AwaitedStep ==
  ASSUME IInv, IInv', Apart, Known, Awaited, [Next]_vars
  PROVE  Awaited'
<1>0. /\ conn \in [Clients -> Nat] /\ obj \in [Clients -> Nat]
      /\ mail \in [Clients -> Seq(Task)]
      /\ dirty \in [Clients -> BOOLEAN] /\ cpc \in [Clients -> {"idle", "wait"}]
      /\ result \in [Clients -> Task \cup {None}]
  BY DEF IInv, TypeOK, WireTypeOK, ClientTypeOK
<1>1. CASE QuietStep
  BY <1>1, AwaitedKept, OnItsWayKept DEF QuietStep
<1>2. ASSUME NEW w \in Workers, WorkStep(w) PROVE Awaited'
  <2>1. OnItsWay' \subseteq OnItsWay
    BY <1>2, OnItsWayKept
  <2> QED BY <1>2, <2>1, AwaitedKept DEF WorkStep
<1>3. ASSUME NEW t \in frontend, ForwardStep(t) PROVE Awaited'
  <2>1. OnItsWay' \subseteq OnItsWay \cup {t} /\ frontend' = frontend \ {t}
    BY <1>3, OnItsWayKept
  <2> QED BY <1>3, <2>1, AwaitedKept DEF ForwardStep, ForwardRequest
<1>4. ASSUME NEW w \in Workers, ResultStep(w) PROVE Awaited'
  <2>1. PICK t \in OnItsWay : t = Head(chan[w]).task
    BY <1>4, OnItsWayKept
  <2>2. /\ OnItsWay' \subseteq OnItsWay \ {t} /\ frontend' = frontend
        /\ UNCHANGED <<conn, clientVars>> /\ ReplyToClient(t)
    BY <1>4, <2>1, OnItsWayKept DEF ResultStep
  <2>3. t \in Task /\ t.client \in Clients /\ t \notin frontend
    BY AttemptsTyped DEF Everywhere, Apart
  <2>4. CASE t.conn # conn[t.client]
    <3>1. mail' = mail
      BY <2>2, <2>4 DEF ReplyToClient
    <3> QED BY <2>2, <3>1, AwaitedKept
  <2>5. CASE t.conn = conn[t.client]
    <3> DEFINE c == t.client
    <3>1. t.obj = obj[c] /\ dirty[c] /\ mail[c] = <<>>
      BY <2>5 DEF Awaited, Live
    <3>2. mail' = [mail EXCEPT ![c] = Append(<<>>, t)]
      BY <1>0, <2>2, <2>3, <2>5, <3>1 DEF ReplyToClient
    <3>3. Append(<<>>, t) = <<t>> /\ Len(<<t>>) = 1 /\ DOMAIN <<t>> = {1} /\ <<t>>[1] = t
      OBVIOUS
    <3>4. mail'[c] = <<t>> /\ \A d \in Clients \ {c} : mail'[d] = mail[d]
      BY <1>0, <2>3, <3>2, <3>3
    <3>5. obj' = obj /\ dirty' = dirty /\ cpc' = cpc /\ result' = result /\ conn' = conn
      BY <2>2 DEF clientVars
    <3>6. ASSUME NEW u \in frontend' \cup OnItsWay', u.conn = conn'[u.client]
          PROVE  u.obj = obj'[u.client] /\ dirty'[u.client] /\ mail'[u.client] = <<>>
      <4>1. u \in frontend \cup OnItsWay /\ u # t
        BY <2>2, <2>3
      <4>2. u.obj = obj[u.client] /\ dirty[u.client] /\ mail[u.client] = <<>>
        BY <3>5, <3>6, <4>1 DEF Awaited, Live
      <4>3. u \in Task /\ u.client \in Clients
        BY <4>1, AttemptsTyped DEF Everywhere
      <4>4. u.client # c
        BY <2>3, <2>5, <3>1, <3>5, <3>6, <4>1, <4>2, <4>3, SameAttempt
      <4> QED BY <3>4, <3>5, <4>2, <4>3, <4>4
    <3>7. ReplyMatches'
      <4>1. ASSUME NEW d \in Clients
            PROVE  /\ Len(mail'[d]) <= 1
                   /\ \A i \in DOMAIN mail'[d] :
                        mail'[d][i].client = d /\ mail'[d][i].obj = obj[d] /\ dirty[d]
                   /\ cpc[d] = "idle" /\ result[d] # None => result[d].obj = obj[d]
        <5>1. CASE d = c
          <6>1. mail'[d] = <<t>> /\ t.client = d /\ t.obj = obj[d] /\ dirty[d]
            BY <3>1, <3>4, <5>1
          <6>2. cpc[d] = "idle" /\ result[d] # None => result[d].obj = obj[d]
            BY DEF Awaited, ReplyMatches
          <6>3. Len(<<t>>) <= 1 /\ \A i \in DOMAIN <<t>> : <<t>>[i] = t
            OBVIOUS
          <6> QED BY <6>1, <6>2, <6>3
        <5>2. CASE d # c
          BY <3>4, <5>2 DEF Awaited, ReplyMatches
        <5> QED BY <5>1, <5>2
      <4> QED BY <3>5, <4>1 DEF ReplyMatches
    <3> QED BY <3>5, <3>6, <3>7 DEF Awaited, Live, DirtyWaiting
  <2> QED BY <2>4, <2>5
<1>5. CASE BrokerEnds
  <2>1. /\ \A c \in Clients : conn'[c] = conn[c] + 1 /\ mail'[c] \in {mail[c], <<>>}
        /\ \A u \in frontend' : \E t \in frontend :
              /\ t.conn = conn[t.client]
              /\ u.conn = t.conn + 1 /\ u.client = t.client /\ u.obj = t.obj
        /\ OnItsWay' \subseteq OnItsWay
        /\ obj' = obj /\ dirty' = dirty /\ cpc' = cpc /\ result' = result
    BY <1>5, EndRenames, OnItsWayKept DEF IInv, TypeOK, BrokerEnds, clientVars
  <2>2. ASSUME NEW u \in frontend' \cup OnItsWay', u.conn = conn'[u.client]
        PROVE  u.obj = obj'[u.client] /\ dirty'[u.client] /\ mail'[u.client] = <<>>
    <3>1. CASE u \in frontend'
      <4>1. PICK t \in frontend : /\ t.conn = conn[t.client]
                                  /\ u.client = t.client /\ u.obj = t.obj
        BY <2>1, <3>1
      <4>2. t.client \in Clients
        BY AttemptsTyped DEF Everywhere
      <4> QED BY <2>1, <4>1, <4>2 DEF Awaited, Live
    <3>2. CASE u \in OnItsWay
      <4>1. u.client \in Clients /\ u.conn <= conn[u.client]
        BY <3>2, AttemptsTyped DEF Known, Everywhere
      <4> QED BY <1>0, <2>1, <2>2, <4>1
    <3> QED BY <2>1, <2>2, <3>1, <3>2
  <2>3. ReplyMatches'
    <3>1. ASSUME NEW c \in Clients
          PROVE  /\ Len(mail'[c]) <= 1
                 /\ \A i \in DOMAIN mail'[c] :
                      mail'[c][i].client = c /\ mail'[c][i].obj = obj[c] /\ dirty[c]
                 /\ cpc[c] = "idle" /\ result[c] # None => result[c].obj = obj[c]
      <4>1. CASE mail'[c] = mail[c]
        BY <4>1 DEF Awaited, ReplyMatches
      <4>2. CASE mail'[c] = <<>>
        BY <4>2 DEF Awaited, ReplyMatches
      <4> QED BY <2>1, <4>1, <4>2
    <3> QED BY <2>1, <3>1 DEF ReplyMatches
  <2> QED BY <2>1, <2>2, <2>3 DEF Awaited, Live, DirtyWaiting
<1>6. ASSUME NEW c \in Clients, AskStep(c) PROVE Awaited'
  <2> USE DEF Reconnect
  <2>0. OnItsWay' \subseteq OnItsWay
    BY <1>6, OnItsWayKept
  <2>1. /\ conn[c] \in Nat /\ obj[c] \in Nat /\ mail[c] \in Seq(Task)
        /\ conn[c] + 1 # conn[c]
    BY <1>0
  <2>2. \A u \in frontend \cup OnItsWay : u.client = c => u.conn <= conn[c]
    BY DEF Known
  <2>3. ASSUME conn' = [conn EXCEPT ![c] = @ + 1], mail' = [mail EXCEPT ![c] = <<>>],
               \A u \in frontend' : u \in frontend \/ u = Attempt(c, conn[c] + 1, obj'[c]),
               \A d \in Clients \ {c} :
                 /\ cpc'[d] = cpc[d] /\ obj'[d] = obj[d]
                 /\ dirty'[d] = dirty[d] /\ result'[d] = result[d],
               dirty'[c], cpc'[c] = "wait"
        PROVE  Awaited'
    <3>1. conn'[c] = conn[c] + 1 /\ mail'[c] = <<>> /\ Len(mail'[c]) = 0 /\ DOMAIN mail'[c] = {}
      BY <1>0, <2>3
    <3>2. ASSUME NEW u \in frontend' \cup OnItsWay', u.client = c, u.conn = conn'[c]
          PROVE  u.obj = obj'[c]
      <4>1. u \notin frontend \cup OnItsWay
        BY <2>1, <2>2, <3>1, <3>2
      <4> QED BY <2>0, <2>3, <4>1 DEF Attempt
    <3>3. OwnAwaited(c)'
      BY <2>3, <3>1, <3>2 DEF OwnAwaited
    <3>4. \A u \in frontend' \cup OnItsWay' : u \in frontend \cup OnItsWay \/ u.client = c
      BY <2>0, <2>3 DEF Attempt
    <3>5. \A d \in Clients \ {c} : conn'[d] = conn[d] /\ mail'[d] = mail[d]
      BY <1>0, <2>3
    <3> QED BY <2>3, <3>3, <3>4, <3>5, AwaitedElsewhere
  <2>4. CASE ClientSend(c) /\ dirty[c]
    <3>1. /\ conn' = [conn EXCEPT ![c] = @ + 1] /\ mail' = [mail EXCEPT ![c] = <<>>]
          /\ \A u \in frontend' : u \in frontend \/ u = Attempt(c, conn[c] + 1, obj[c] + 1)
          /\ cpc' = [cpc EXCEPT ![c] = "wait"] /\ obj' = [obj EXCEPT ![c] = @ + 1]
          /\ dirty' = [dirty EXCEPT ![c] = TRUE] /\ result' = result
      BY <2>4 DEF ClientSend
    <3>2. \A u \in frontend' : u \in frontend \/ u = Attempt(c, conn[c] + 1, obj'[c])
      BY <1>0, <3>1
    <3>3. dirty'[c] /\ \A d \in Clients \ {c} : dirty'[d] = dirty[d]
      BY <1>0, <3>1
    <3> QED BY <1>0, <2>3, <3>1, <3>2, <3>3
  <2>5. CASE ClientRetry(c)
    <3>1. /\ conn' = [conn EXCEPT ![c] = @ + 1] /\ mail' = [mail EXCEPT ![c] = <<>>]
          /\ \A u \in frontend' : u \in frontend \/ u = Attempt(c, conn[c] + 1, obj[c])
          /\ UNCHANGED <<cpc, obj, dirty, result>> /\ cpc[c] = "wait"
      BY <2>5 DEF ClientRetry
    <3>2. dirty[c]
      BY <3>1 DEF Awaited, DirtyWaiting
    <3> QED BY <2>3, <3>1, <3>2
  <2>6. CASE ClientSend(c) /\ ~dirty[c]
    <3>1. /\ frontend' = frontend \cup {Attempt(c, conn[c], obj[c] + 1)}
          /\ UNCHANGED <<conn, mail, result>>
          /\ cpc' = [cpc EXCEPT ![c] = "wait"] /\ obj' = [obj EXCEPT ![c] = @ + 1]
          /\ dirty' = [dirty EXCEPT ![c] = TRUE]
      BY <2>6 DEF ClientSend
    <3>2. mail[c] = <<>>
      BY <2>1, <2>6, EmptySeq DEF Awaited, ReplyMatches
    <3>3. \A u \in frontend \cup OnItsWay : u.client = c => u.conn # conn[c]
      BY <2>6 DEF Awaited, Live
    <3>4. obj'[c] = obj[c] + 1 /\ dirty'[c] /\ cpc'[c] = "wait" /\ conn'[c] = conn[c]
      BY <1>0, <3>1
    <3>5. \A u \in frontend' \cup OnItsWay' :
            \/ u \in frontend \cup OnItsWay
            \/ u.client = c /\ u.obj = obj[c] + 1
      BY <2>0, <3>1 DEF Attempt
    <3>6. Len(<<>>) = 0 /\ DOMAIN <<>> = {}
      OBVIOUS
    <3>7. OwnAwaited(c)'
      BY <3>1, <3>2, <3>3, <3>4, <3>5, <3>6 DEF OwnAwaited
    <3>8. \A d \in Clients \ {c} : cpc'[d] = cpc[d] /\ obj'[d] = obj[d] /\ dirty'[d] = dirty[d]
      BY <1>0, <3>1
    <3> QED BY <3>1, <3>5, <3>7, <3>8, AwaitedElsewhere
  <2>7. CASE ClientRecv(c)
    <3>1. /\ cpc[c] = "wait" /\ mail[c] # <<>>
          /\ result' = [result EXCEPT ![c] = Head(mail[c])]
          /\ mail' = [mail EXCEPT ![c] = Tail(@)]
          /\ cpc' = [cpc EXCEPT ![c] = "idle"]
          /\ dirty' = [dirty EXCEPT ![c] = FALSE]
          /\ UNCHANGED <<obj, conn, frontend>>
      BY <2>7 DEF ClientRecv
    <3>2. /\ Len(mail[c]) = 1 /\ Head(mail[c]).obj = obj[c]
          /\ Len(Tail(mail[c])) = 0 /\ DOMAIN Tail(mail[c]) = {}
      <4>1. Len(mail[c]) <= 1 /\ \A i \in DOMAIN mail[c] : mail[c][i].obj = obj[c]
        BY DEF Awaited, ReplyMatches
      <4>2. /\ Len(mail[c]) = 1 /\ 1 \in DOMAIN mail[c] /\ Head(mail[c]) = mail[c][1]
            /\ Len(Tail(mail[c])) = 0 /\ DOMAIN Tail(mail[c]) = {}
        BY <2>1, <3>1, <4>1, SingleElement
      <4> QED BY <4>1, <4>2
    <3>3. \A u \in frontend \cup OnItsWay : u.client = c => u.conn # conn[c]
      BY <3>1 DEF Awaited, Live
    <3>4. /\ result'[c] = Head(mail[c]) /\ mail'[c] = Tail(mail[c]) /\ cpc'[c] = "idle"
          /\ obj'[c] = obj[c] /\ conn'[c] = conn[c]
      BY <1>0, <3>1
    <3>5. \A u \in frontend' \cup OnItsWay' : u \in frontend \cup OnItsWay
      BY <2>0, <3>1
    <3>6. OwnAwaited(c)'
      <4>1. \A u \in frontend' \cup OnItsWay' : u.client = c => u.conn # conn'[c]
        BY <3>3, <3>4, <3>5
      <4>a. Len(mail'[c]) = 0 /\ DOMAIN mail'[c] = {}
        BY <3>2, <3>4, Zenon
      <4>2. Len(mail'[c]) <= 1 /\ DOMAIN mail'[c] = {}
        BY <4>a
      <4>3. result'[c].obj = obj'[c] /\ cpc'[c] # "wait"
        BY <3>2, <3>4
      <4> QED BY <4>1, <4>2, <4>3 DEF OwnAwaited
    <3>7. \A d \in Clients \ {c} :
            cpc'[d] = cpc[d] /\ mail'[d] = mail[d] /\ dirty'[d] = dirty[d] /\ result'[d] = result[d]
      BY <1>0, <3>1
    <3> QED BY <3>1, <3>5, <3>6, <3>7, AwaitedElsewhere
  <2>8. CASE ClientGiveUp(c)
    <3>1. /\ UNCHANGED <<obj, dirty, conn, mail, frontend>>
          /\ result' = [result EXCEPT ![c] = None]
          /\ cpc' = [cpc EXCEPT ![c] = "idle"]
      BY <2>8 DEF ClientGiveUp, wireVars
    <3>2. result'[c] = None /\ cpc'[c] = "idle"
      BY <1>0, <3>1
    <3>3. \A u \in frontend' \cup OnItsWay' : u \in frontend \cup OnItsWay
      BY <2>0, <3>1
    <3>4. OwnAwaited(c)'
      <4>1. \A u \in frontend \cup OnItsWay : u.client = c /\ u.conn = conn[c] =>
              u.obj = obj[c] /\ dirty[c] /\ mail[c] = <<>>
        BY DEF Awaited, Live
      <4>2. /\ Len(mail[c]) <= 1
            /\ \A i \in DOMAIN mail[c] :
                 mail[c][i].client = c /\ mail[c][i].obj = obj[c] /\ dirty[c]
        BY DEF Awaited, ReplyMatches
      <4> QED BY <3>1, <3>2, <3>3, <4>1, <4>2 DEF OwnAwaited
    <3>5. \A d \in Clients \ {c} : cpc'[d] = cpc[d] /\ result'[d] = result[d]
      BY <1>0, <3>1
    <3> QED BY <3>1, <3>3, <3>4, <3>5, AwaitedElsewhere
  <2> QED BY <1>6, <2>4, <2>5, <2>6, <2>7, <2>8 DEF AskStep
<1> QED BY <1>1, <1>2, <1>3, <1>4, <1>5, <1>6, StepKind

---------------------------------------------------------------------------
(* Sockets, items and the phases of a shutdown.                             *)
Orderly == ItemsLeft /\ Sockets /\ Phases

(* Every step keeps the phases of supervisor and broker, and the bounds of  *)
(* a worker.                                                                *)
LEMMA OrderlyStep ==
  ASSUME IInv, Orderly, [Next]_vars
  PROVE  Orderly'
<1>0. WorkerPart /\ QueuesOK
  BY InvQueues DEF IInv, TypeOK, WorkerPart
<1> USE DEF workerVars, supVars
<1>1. CASE BrokerStep
  <2>1. UNCHANGED <<pc, count, stop, supPc, held>>
    BY <1>1 DEF BrokerStep
  <2>2. ItemsLeft'
    BY <2>1 DEF Orderly, ItemsLeft
  <2>3. Phases'
    BY <1>1, <2>1 DEF BrokerStep, ForwardRequest, OnWorkerMessage, BrokerSignal,
                      OnDrainMessage, GraceExpires, BrokerExit, KillBroker,
                      ForgetWorkers, Orderly, Phases
  <2>4. ASSUME UNCHANGED <<inbox, sock>> PROVE Sockets'
    BY <2>1, <2>4 DEF Orderly, Sockets
  <2>5. ASSUME NEW t \in frontend, ForwardRequest(t) PROVE Sockets'
    BY <1>0, <2>1, <2>5 DEF ForwardRequest, SendToWorker, QueuesOK, Orderly, Sockets
  <2>6. ASSUME BrokerExit \/ KillBroker PROVE Sockets'
    BY <2>1, <2>6, LoseBrokerSockets DEF BrokerExit, KillBroker, Orderly
  <2>7. Sockets'
    BY <1>1, <2>4, <2>5, <2>6
    DEF BrokerStep, OnWorkerMessage, BrokerSignal, OnDrainMessage, GraceExpires, wireVars
  <2> QED BY <2>2, <2>3, <2>7 DEF Orderly
<1>2. ASSUME NEW w \in Workers, WorkerStep(w) PROVE Orderly'
  <2>1. WorkerActs(w, BrokerUp) /\ UNCHANGED <<broker, supPc>>
    BY <1>2 DEF WorkerStep, WorkerWork, WorkerActs, brokerVars
  <2>2. ItemsLeft' /\ Sockets'
    BY <1>0, <2>1, WorkerActsBounds DEF Orderly
  <2>3. Phases'
    <3>1. ASSUME \A v \in Workers : pc[v] = "off" PROVE \A v \in Workers : pc'[v] = "off"
      BY <1>2, <3>1 DEF WorkerStep, WorkerWork, Boot, Take, GraceTake, PollTimeout, Finish,
        GraceFinish, GraceTimeout, Sent, Exit, ScanError, WorkerSignal, WorkerKill, Scanning
    <3> QED BY <2>1, <3>1 DEF Orderly, Phases
  <2> QED BY <2>2, <2>3 DEF Orderly
<1>3. ASSUME NEW c \in Clients, ClientStep(c) PROVE Orderly'
  <2>1. UNCHANGED <<pc, count, stop, supPc, broker, inbox, sock>>
    BY <1>3 DEF ClientStep, ClientSend, ClientRecv, ClientRetry, ClientGiveUp, brokerVars, wireVars
  <2> QED BY <2>1 DEF Orderly, ItemsLeft, Sockets, Phases
<1>4. CASE SupervisorStep
  <2>1. CASE RestartBroker
    BY <2>1 DEF RestartBroker, StartBroker, wireVars, Orderly, ItemsLeft, Sockets, Phases
  <2>2. ASSUME NEW w \in Workers, NEW new \in Workers, ReplaceWorker(w, new), UNCHANGED brokerVars
        PROVE  Orderly'
    <3>1. ItemsLeft' /\ Sockets'
      BY <1>0, <2>2, SupervisorBounds DEF Orderly
    <3> QED BY <2>2, <3>1 DEF ReplaceWorker, brokerVars, Orderly, Phases
  <2>3. CASE SupStop /\ UNCHANGED brokerVars
    BY <2>3 DEF SupStop, wireVars, brokerVars, Orderly, ItemsLeft, Sockets, Phases
  <2>4. CASE SupKillWorkers(BrokerUp) /\ UNCHANGED brokerVars
    <3>1. ItemsLeft' /\ Sockets'
      BY <1>0, <2>4, SupervisorBounds DEF Orderly
    <3> QED BY <2>4, <3>1 DEF SupKillWorkers, brokerVars, Orderly, Phases
  <2>5. CASE SupKillBroker
    <3>1. UNCHANGED <<pc, count, stop>> /\ supPc = "kill" /\ supPc' = "done"
      BY <2>5 DEF SupKillBroker
    <3>2. ItemsLeft'
      BY <3>1 DEF Orderly, ItemsLeft
    <3>3. broker' \in {broker, "down"}
      BY <2>5 DEF SupKillBroker, KillBroker, ForgetWorkers, brokerVars
    <3>4. Sockets'
      BY <2>5, <3>1, LoseBrokerSockets DEF SupKillBroker, KillBroker, wireVars, Orderly, Sockets
    <3> QED BY <3>1, <3>2, <3>3, <3>4 DEF Orderly, Phases
  <2> QED BY <1>4, <2>1, <2>2, <2>3, <2>4, <2>5 DEF SupervisorStep
<1>5. CASE UNCHANGED vars
  BY <1>5 DEF vars, wireVars, brokerVars, Orderly, ItemsLeft, Sockets, Phases
<1> QED BY <1>1, <1>2, <1>3, <1>4, <1>5 DEF Next

---------------------------------------------------------------------------
(* One task per worker.                                                     *)
LEMMA LoadNat == QueuesOK => \A w \in Workers : Load(w) \in Nat
BY LoadIsNatural

(* The load is a number after the step, too.                                *)
LEMMA LoadNatNext == QueuesOK' => \A w \in Workers : Load(w)' \in Nat
<1>1. QueuesOK' => (\A w \in Workers : Load(w) \in Nat)'
  BY LoadNat, PTL
<1> QED BY <1>1

(* Every step under the first broker, or where no broker fails, keeps a     *)
(* worker to one task: a worker that is listed has none, one that is at     *)
(* work is not listed.                                                      *)
LEMMA FirstOneTaskStep ==
  ASSUME IInv, IInv', Orderly, FirstOneTask, [Next]_vars
  PROVE  FirstOneTask'
<1>0. /\ QueuesOK /\ QueuesOK'
      /\ conn \in [Clients -> Nat] /\ conn' \in [Clients -> Nat]
      /\ working \in Seq(Workers) /\ working' \in Seq(Workers)
      /\ avail \in Seq(Workers)
      /\ IsInjective(avail) /\ IsInjective(working)
      /\ ToSet(avail) \cap ToSet(working) = {}
  BY InvQueues DEF IInv, TypeOK, WireTypeOK, WorkerTypeOK, BrokerTypeOK, BrokerLists, QueuesOK
<1>1. ASSUME NEW w \in Workers PROVE Load(w) \in Nat /\ Load(w)' \in Nat
  BY <1>0, LoadNat, LoadNatNext
<1>2. ASSUME UNCHANGED working, FirstBroker' => FirstBroker,
             \A w \in Workers : Load(w)' <= Load(w)
      PROVE  FirstOneTask'
  BY <1>1, <1>2 DEF FirstOneTask, OneTaskPerWorker, NoBrokerFaults
<1>3. conn' = conn => (FirstBroker' => FirstBroker)
  BY DEF FirstBroker
<1>4. CASE QuietStep
  <2>1. \A w \in Workers : Load(w)' <= Load(w)
    BY <1>0, <1>4, Shrinking DEF QuietStep
  <2> QED BY <1>2, <1>3, <1>4, <2>1 DEF QuietStep
<1>5. ASSUME NEW w \in Workers, WorkStep(w) PROVE FirstOneTask'
  <2>1. Load(w)' = Load(w)
    BY <1>0, <1>5, TakingUp, Completing DEF WorkStep, Works
  <2>2. \A v \in Workers \ {w} : Load(v)' = Load(v)
    BY <1>5, SameTasks DEF WorkStep, Works
  <2>3. \A v \in Workers : Load(v)' <= Load(v)
    BY <1>1, <2>1, <2>2
  <2> QED BY <1>2, <1>3, <1>5, <2>3 DEF WorkStep
<1>6. ASSUME NEW c \in Clients, AskStep(c) PROVE FirstOneTask'
  <2>1. \A v \in Workers : Load(v)' = Load(v)
    BY <1>6, SameTasks DEF AskStep
  <2>2. \A v \in Workers : Load(v)' <= Load(v)
    BY <1>1, <2>1
  <2>3. FirstBroker' => FirstBroker
    <3>1. \A d \in Clients : conn'[d] >= conn[d]
      BY <1>6, AskAdds
    <3> QED BY <1>0, <3>1 DEF FirstBroker
  <2> QED BY <1>2, <1>6, <2>2, <2>3 DEF AskStep
<1>7. ASSUME NEW t \in frontend, ForwardStep(t) PROVE FirstOneTask'
  <2>1. Head(avail) \in Workers /\ Head(avail) \in ToSet(avail)
    BY <1>0, <1>7, TailOfInjective DEF ForwardStep, ForwardRequest
  <2>2. PICK w \in Workers : w = Head(avail)
    BY <2>1
  <2>3. /\ working' = Append(working, w) /\ conn' = conn /\ t \in Task
        /\ UNCHANGED <<held, chan>>
        /\ inbox' = IF w \in sock THEN [inbox EXCEPT ![w] = Append(@, t)] ELSE inbox
    BY <1>7, <2>2 DEF ForwardStep, ForwardRequest, SendToWorker, IInv, TypeOK, WireTypeOK
  <2>4. ~Contains(working, w)
    BY <1>0, <2>1, <2>2, ContainsIsMember
  <2>5. ToSet(Append(working, w)) = ToSet(working) \cup {w}
    BY <1>0, AppendAny
  <2>6. \A v \in Workers : Contains(working', v) <=> Contains(working, v) \/ v = w
    <3>1. \A v \in Workers : Contains(working', v) <=> v \in ToSet(working')
      BY <1>0, ContainsIsMember
    <3>2. \A v \in Workers : Contains(working, v) <=> v \in ToSet(working)
      BY <1>0, ContainsIsMember
    <3> QED BY <2>3, <2>5, <3>1, <3>2
  <2>7. \A v \in Workers \ {w} : Load(v)' = Load(v)
    <3>1. \A v \in Workers \ {w} : Same(v)
      BY <1>0, <2>3 DEF QueuesOK, Same
    <3> QED BY <3>1, SameTasks
  <2>8. Load(w)' <= Load(w) + 1
    <3>1. CASE w \in sock
      <4>1. Gets(w, t)
        BY <1>0, <2>3, <3>1 DEF QueuesOK, Gets
      <4>2. Load(w)' = Load(w) + 1
        BY <1>0, <2>3, <4>1, Getting
      <4> QED BY <1>1, <4>2
    <3>2. CASE w \notin sock
      <4>1. Load(w)' = Load(w)
        BY <2>3, <3>2, SameTasks DEF Same
      <4> QED BY <1>1, <4>1
    <3> QED BY <3>1, <3>2
  <2>9. ASSUME OneTaskPerWorker, NEW v \in Workers
        PROVE  Load(v)' <= 1 /\ (Load(v)' = 1 => Contains(working', v))
    <3>1. CASE v = w
      <4>1. Load(w) = 0
        BY <1>1, <2>4, <2>9 DEF OneTaskPerWorker
      <4> QED BY <1>1, <2>6, <2>8, <3>1, <4>1
    <3>2. CASE v # w
      BY <2>6, <2>7, <2>9, <3>2 DEF OneTaskPerWorker
    <3> QED BY <3>1, <3>2
  <2> QED BY <1>3, <2>3, <2>9 DEF FirstOneTask, OneTaskPerWorker, NoBrokerFaults
<1>8. ASSUME NEW w \in Workers, ResultStep(w) PROVE FirstOneTask'
  <2>1. Load(w)' = Load(w) - 1
    BY <1>0, <1>8, HandingIn DEF ResultStep
  <2>2. \A v \in Workers \ {w} : Load(v)' = Load(v)
    BY <1>8, SameTasks DEF ResultStep
  <2>3. working' = RemoveFirst(working, w) /\ conn' = conn
    BY <1>8 DEF ResultStep
  <2>4. ToSet(working') = ToSet(working) \ {w}
    BY <1>0, <2>3, RemoveFromInjective
  <2>5. \A v \in Workers \ {w} : Contains(working, v) => Contains(working', v)
    <3>1. \A v \in Workers : Contains(working', v) <=> v \in ToSet(working')
      BY <1>0, ContainsIsMember
    <3>2. \A v \in Workers : Contains(working, v) <=> v \in ToSet(working)
      BY <1>0, ContainsIsMember
    <3> QED BY <2>4, <3>1, <3>2
  <2>6. ASSUME OneTaskPerWorker, NEW v \in Workers
        PROVE  Load(v)' <= 1 /\ (Load(v)' = 1 => Contains(working', v))
    <3>1. CASE v = w
      BY <1>1, <2>1, <2>6, <3>1 DEF OneTaskPerWorker
    <3>2. CASE v # w
      BY <2>2, <2>5, <2>6, <3>2 DEF OneTaskPerWorker
    <3> QED BY <3>1, <3>2
  <2> QED BY <1>3, <2>3, <2>6 DEF FirstOneTask, OneTaskPerWorker, NoBrokerFaults
<1>9. CASE BrokerEnds
  <2>1. ~FirstBroker'
    <3>1. \A c \in Clients : conn'[c] = conn[c] + 1
      BY <1>9, EndRenames DEF IInv, TypeOK, BrokerEnds
    <3> QED BY <1>0, <3>1 DEF FirstBroker
  <2>2. ASSUME NoBrokerFaults, NEW w \in Workers PROVE Load(w)' = 0
    <3>1. supPc = "kill"
      BY <1>9, <2>2 DEF BrokerEnds, BrokerExit, NoBrokerFaults, Orderly, Phases
    <3>2. pc[w] = "off"
      BY <3>1 DEF Orderly, Phases
    <3>3. w \notin sock
      BY <3>2 DEF Orderly, Sockets
    <3>4. inbox[w] = <<>>
      BY <3>3 DEF Orderly, Sockets
    <3>5. inbox'[w] = <<>>
      <4>1. inbox'[w] \in Prefixes(inbox[w])
        BY <1>9 DEF BrokerEnds, LoseBroker
      <4> QED BY <3>4, <4>1, EmptyPrefix
    <3>6. held'[w] = None
      BY <1>9, <3>2 DEF BrokerEnds, IInv, HeldWhileScanning, Scanning
    <3>7. chan'[w] = <<>>
      BY <1>9, <3>3 DEF BrokerEnds, LoseBroker
    <3>8. Len(<<>>) = 0 /\ ResultsIn(<<>>) = {}
      BY DEF ResultsIn, WithStatus
    <3>9. Cardinality(ResultsIn(chan'[w])) = 0
      BY <3>7, <3>8, FS_EmptySet
    <3>10. Holds(w)' = 0
      BY <3>6 DEF Holds
    <3>11. Load(w)' = Len(inbox'[w]) + Holds(w)' + Cardinality(ResultsIn(chan'[w]))
      BY DEF Load
    <3> QED BY <3>5, <3>8, <3>9, <3>10, <3>11
  <2>3. NoBrokerFaults => OneTaskPerWorker'
    BY <2>2 DEF OneTaskPerWorker
  <2> QED BY <2>1, <2>3 DEF FirstOneTask, NoBrokerFaults
<1> QED BY <1>4, <1>5, <1>6, <1>7, <1>8, <1>9, StepKind

---------------------------------------------------------------------------
(* The invariant of laikad.                                                 *)
Inv == IInv /\ Apart /\ Known /\ Awaited /\ Orderly /\ FirstOneTask

(* At first there is nothing anywhere.                                      *)
LEMMA NothingAtFirst ==
  ASSUME Init
  PROVE  /\ OnItsWay = {} /\ Delivered = {} /\ frontend = {}
         /\ \A w \in Workers : TasksOf(w) = {} /\ Load(w) = 0 /\ Neat(w)
<1>1. ASSUME NEW w \in Workers
      PROVE  TasksOf(w) = {} /\ Load(w) = 0 /\ Neat(w)
  <2>1. inbox[w] = <<>> /\ chan[w] = <<>> /\ held[w] = None
    BY DEF Init, WireInit, WorkerInit
  <2>2. Len(<<>>) = 0 /\ ResultsIn(<<>>) = {} /\ ToSet(<<>>) = {} /\ IsInjective(<<>>)
    BY DEF ResultsIn, WithStatus, ToSet, IsInjective
  <2>3. Cardinality(ResultsIn(chan[w])) = 0 /\ Holds(w) = 0
    BY <2>1, <2>2, FS_EmptySet DEF Holds
  <2>4. Load(w) = 0
    BY <2>1, <2>2, <2>3 DEF Load
  <2>5. TasksOf(w) = {}
    BY <2>1, <2>2 DEF TasksOf
  <2>6. Neat(w)
    BY <2>1, <2>2 DEF Neat
  <2> QED BY <2>4, <2>5, <2>6
<1>2. OnItsWay = {}
  BY <1>1 DEF OnItsWay
<1>3. Delivered = {}
  BY DEF Init, WireInit, Delivered, ToSet
<1> QED BY <1>1, <1>2, <1>3 DEF Init, WireInit

(* The whole invariant holds at first,                                      *)
LEMMA InvInit == Init => Inv
<1> SUFFICES ASSUME Init PROVE Inv
  OBVIOUS
<1>1. IInv
  BY InitInv
<1>2. Apart
  BY NothingAtFirst DEF Apart
<1>3. Known
  BY NothingAtFirst DEF Known
<1>4. Awaited
  <2>1. Live
    BY NothingAtFirst DEF Live
  <2>2. \A c \in Clients : mail[c] = <<>> /\ cpc[c] = "idle" /\ result[c] = None
    BY DEF Init, WireInit, ClientInit
  <2>3. Len(<<>>) = 0 /\ DOMAIN <<>> = {}
    OBVIOUS
  <2> QED BY <2>1, <2>2, <2>3 DEF Awaited, DirtyWaiting, ReplyMatches
<1>5. Orderly
  <2>1. /\ \A w \in Workers : /\ pc[w] \in {"boot", "off"} /\ count[w] = 0
                              /\ inbox[w] = <<>>
        /\ sock = {} /\ supPc = "watch" /\ broker = "run"
    BY DEF Init, WireInit, WorkerInit, BrokerInit, SupInit
  <2>2. MaxItems \in Nat \ {0}
    BY MaxItemsAssumption
  <2> QED BY <2>1, <2>2 DEF Orderly, ItemsLeft, Sockets, Phases
<1>6. FirstOneTask
  BY NothingAtFirst DEF FirstOneTask, OneTaskPerWorker
<1> QED BY <1>1, <1>2, <1>3, <1>4, <1>5, <1>6 DEF Inv

(* every step keeps it,                                                     *)
LEMMA InvStep == Inv /\ [Next]_vars => Inv'
<1> SUFFICES ASSUME Inv, [Next]_vars PROVE Inv'
  OBVIOUS
<1>1. IInv /\ Apart /\ Known /\ Awaited /\ Orderly /\ FirstOneTask
  BY DEF Inv
<1>2. IInv'
  BY <1>1, StepInv
<1>3. Apart' /\ Known'
  BY <1>1, <1>2, ApartStep
<1>4. Awaited'
  BY <1>1, <1>2, AwaitedStep
<1>5. Orderly'
  BY <1>1, OrderlyStep
<1>6. FirstOneTask'
  BY <1>1, <1>2, FirstOneTaskStep
<1> QED BY <1>2, <1>3, <1>4, <1>5, <1>6 DEF Inv

(* and so it always holds.                                                  *)
LEMMA Invariant == Spec => []Inv
BY InvInit, InvStep, PTL DEF Spec

(* An attempt at having an object scanned is never in two places, so it is  *)
(* scanned and answered at most once: whatever fails, however often sockets *)
(* are replaced and workers and brokers end.                                *)
THEOREM AttemptsInOnePlace == Spec => []AttemptInOnePlace
<1>1. Inv => AttemptInOnePlace
  <2> SUFFICES ASSUME Inv PROVE AttemptInOnePlace
    OBVIOUS
  <2>1. Apart /\ QueuesOK
    BY InvQueues DEF Inv
  <2>2. \A w \in Workers : Cardinality(TasksOf(w)) = Load(w)
    BY <2>1, NeatCount DEF Apart
  <2> QED BY <2>1, <2>2 DEF Apart, AttemptInOnePlace
<1> QED BY <1>1, Invariant, PTL

(* A reply that waits at a client's socket and the value send() returns     *)
(* belong to the object of the latest send(), whatever fails.               *)
THEOREM RepliesMatch == Spec => []ReplyMatches
<1>1. Inv => ReplyMatches
  BY DEF Inv, Awaited
<1> QED BY <1>1, Invariant, PTL

(* No process of a worker scans more than max_scan_items objects.           *)
THEOREM ItemsAreBounded == Spec => []ItemsBounded
<1>1. Inv => ItemsBounded
  <2> SUFFICES ASSUME Inv, NEW w \in Workers
               PROVE  count[w] + (IF pc[w] \in {"scan", "gracescan", "gracesent"} THEN 1 ELSE 0)
                        <= MaxItems
    BY DEF ItemsBounded
  <2>1. count[w] \in Nat /\ MaxItems \in Nat
    BY MaxItemsAssumption DEF Inv, IInv, TypeOK, WorkerTypeOK
  <2>2. /\ count[w] <= MaxItems
        /\ pc[w] \in {"scan", "gracescan", "gracesent"} => count[w] < MaxItems
    BY DEF Inv, Orderly, ItemsLeft
  <2>3. CASE pc[w] \in {"scan", "gracescan", "gracesent"}
    BY <2>1, <2>2, <2>3
  <2>4. CASE pc[w] \notin {"scan", "gracescan", "gracesent"}
    BY <2>1, <2>2, <2>4
  <2> QED BY <2>3, <2>4
<1> QED BY <1>1, Invariant, PTL

(* As long as no broker is signalled or killed, a worker is given one task  *)
(* at a time, and while it has it the broker knows.                         *)
THEOREM OneTaskEach ==
  ASSUME Faults \cap {"brokerSignal", "brokerKill"} = {}
  PROVE  Spec => []OneTaskPerWorker
<1>1. Inv => OneTaskPerWorker
  BY DEF Inv, FirstOneTask, NoBrokerFaults
<1> QED BY <1>1, Invariant, PTL

(* A broker that was asked to stop and ends before its grace period is over *)
(* leaves no worker of its own with a task a client still waits for, unless *)
(* it is killed.                                                            *)
THEOREM DrainsDeliver ==
  ASSUME Faults \cap {"brokerKill", "supStop"} = {}
  PROVE  Spec => DrainDelivers
<1> DEFINE Act == broker = "drain" /\ broker' = "down" /\ ~graceOver =>
                    \A c \in Clients : conn[c] = 0 => CurrentAttempt(c) \notin OnItsWay
<1>1. Inv /\ [Next]_vars => [Act]_vars
  <2> SUFFICES ASSUME Inv, Next, broker = "drain", broker' = "down", ~graceOver,
                      NEW c \in Clients, conn[c] = 0
               PROVE  CurrentAttempt(c) \notin OnItsWay
    OBVIOUS
  <2>1. supPc = "watch"
    BY DEF Inv, Orderly, Phases, IInv, TypeOK, SupTypeOK
  <2>2. working = <<>>
    BY <2>1 DEF Next, BrokerStep, ForwardRequest, OnWorkerMessage, BrokerSignal, OnDrainMessage,
                GraceExpires, BrokerExit, WorkerStep, ClientStep, SupervisorStep, brokerVars,
                RestartBroker, StartBroker, SupKillBroker
  <2>3. FirstBroker
    BY DEF FirstBroker
  <2>4. \A w \in Workers : Load(w) <= 1 /\ (Load(w) = 1 => Contains(working, w))
    BY <2>3 DEF Inv, FirstOneTask, OneTaskPerWorker
  <2>5. \A w \in Workers : ~Contains(working, w)
    BY <2>2 DEF Contains
  <2>6. QueuesOK
    BY InvQueues DEF Inv
  <2>7. \A w \in Workers : TasksOf(w) = {}
    <3>1. \A w \in Workers : Load(w) \in Nat /\ (Load(w) = 0 => TasksOf(w) = {})
      BY <2>6, LoadIsNatural
    <3> QED BY <2>4, <2>5, <3>1
  <2> QED BY <2>7 DEF OnItsWay
<1>2. Spec => [][Act]_vars
  BY <1>1, Invariant, PTL DEF Spec
<1> QED BY <1>2 DEF DrainDelivers
===========================================================================
