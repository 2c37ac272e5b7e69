------------------------------ MODULE Laikad ------------------------------
(***************************************************************************)
(* laikad in its synchronous form: clients, SyncBroker, workers and the    *)
(* supervisor that keeps them running.                                     *)
(***************************************************************************)
EXTENDS SyncBroker, Supervisor, Client

CONSTANT MaxConn      \* bound: connections of a client before it may try again
                      \* or the broker may end

vars == <<wireVars, brokerVars, workerVars, clientVars, supVars>>

BrokerUp == broker # "down"

(* An identity drawn at random is one that nothing in the system remembers. *)
Fresh(w) == ~Contains(avail, w) /\ ~Contains(working, w) /\ chan[w] = <<>>

TypeOK ==
  /\ WireTypeOK
  /\ BrokerTypeOK
  /\ WorkerTypeOK
  /\ ClientTypeOK
  /\ SupTypeOK

Init ==
  /\ WireInit
  /\ BrokerInit
  /\ ClientInit
  /\ SupInit
  /\ WorkerInit(procs)

---------------------------------------------------------------------------
(* The supervisor starts a broker again when it is dead, ...                *)
RestartBroker ==
  /\ supPc = "watch"
  /\ StartBroker
  /\ UNCHANGED <<workerVars, clientVars, supVars>>

(* ... and kills it, when the workers are gone, at the end of a shutdown.   *)
SupKillBroker ==
  /\ supPc = "kill"
  /\ supPc' = "done"
  /\ IF BrokerUp THEN KillBroker ELSE UNCHANGED <<wireVars, brokerVars>>
  /\ UNCHANGED <<procs, workerVars, clientVars>>

(* Bounds how often a broker ends before the supervisor is done.            *)
MayEnd == \A c \in Clients : conn[c] < MaxConn

BrokerStep ==
  /\ \/ \E t \in frontend : ForwardRequest(t)
     \/ \E w \in Workers : OnWorkerMessage(w)
     \/ MayEnd /\ BrokerSignal
     \/ \E w \in Workers : OnDrainMessage(w)
     \/ GraceExpires
     \/ BrokerExit
     \/ "brokerKill" \in Faults /\ MayEnd /\ KillBroker
  /\ UNCHANGED <<workerVars, clientVars, supVars>>

(* What a worker does of itself, apart from the timeout of its poll.        *)
WorkerWork(w) ==
  \/ Boot(w)
  \/ Take(w)
  \/ Finish(w)
  \/ Sent(w, BrokerUp)
  \/ GraceTake(w)
  \/ GraceFinish(w)
  \/ GraceTimeout(w)
  \/ Exit(w, BrokerUp)

WorkerStep(w) ==
  /\ \/ WorkerWork(w)
     \/ PollTimeout(w)
     \/ ScanError(w, BrokerUp)
     \/ WorkerSignal(w, BrokerUp)
     \/ WorkerKill(w, BrokerUp)
  /\ UNCHANGED <<brokerVars, clientVars, supVars>>

ClientStep(c) ==
  /\ \/ ClientSend(c)
     \/ ClientRecv(c)
     \/ conn[c] < MaxConn /\ ClientRetry(c)
     \/ ClientGiveUp(c)
  /\ UNCHANGED <<brokerVars, workerVars, supVars>>

SupervisorStep ==
  \/ RestartBroker
  \/ /\ \/ \E w, new \in Workers : Fresh(new) /\ ReplaceWorker(w, new)
        \/ SupStop
        \/ SupKillWorkers(BrokerUp)
     /\ UNCHANGED <<brokerVars, clientVars>>
  \/ SupKillBroker

Next ==
  \/ BrokerStep
  \/ \E w \in Workers : WorkerStep(w)
  \/ \E c \in Clients : ClientStep(c)
  \/ SupervisorStep

Spec == Init /\ [][Next]_vars

(* The processes run.  Each poll of the broker sees every socket that has a *)
(* message, and ROUTER sockets serve their peers in turn: a message of a    *)
(* worker is received, and a request whose broker polls the frontend again  *)
(* and again is taken up.  Timers fire: the poll of a worker, the grace     *)
(* period of the broker, the five seconds of the supervisor.                *)
Fairness ==
  /\ \A w \in Workers :
       /\ WF_vars(WorkerWork(w) /\ UNCHANGED <<brokerVars, clientVars, supVars>>)
       /\ WF_vars(PollTimeout(w) /\ UNCHANGED <<brokerVars, clientVars, supVars>>)
       /\ WF_vars((OnWorkerMessage(w) \/ OnDrainMessage(w))
                  /\ UNCHANGED <<workerVars, clientVars, supVars>>)
       /\ WF_vars(/\ \E new \in Workers : Fresh(new) /\ ReplaceWorker(w, new)
                  /\ UNCHANGED <<brokerVars, clientVars>>)
  /\ \A c \in Clients :
       /\ SF_vars(/\ \E t \in frontend : t.client = c /\ ForwardRequest(t)
                  /\ UNCHANGED <<workerVars, clientVars, supVars>>)
       /\ WF_vars(ClientRecv(c) /\ UNCHANGED <<brokerVars, workerVars, supVars>>)
  /\ WF_vars((GraceExpires \/ BrokerExit)
             /\ UNCHANGED <<workerVars, clientVars, supVars>>)
  /\ WF_vars(RestartBroker)

FairSpec == Spec /\ Fairness

---------------------------------------------------------------------------
Delivered == UNION {ToSet(mail[c]) : c \in Clients}

CurrentAttempt(c) == Attempt(c, conn[c], obj[c])

---------------------------------------------------------------------------
(* The broker's two lists name every worker at most once between them: a    *)
(* worker listed twice would be sent two tasks at a time, and one left in   *)
(* working_workers would hold up the shutdown.  Whatever fails.             *)
BrokerLists ==
  /\ IsInjective(avail)
  /\ IsInjective(working)
  /\ ToSet(avail) \cap ToSet(working) = {}

(* A worker is given one task at a time, and while it has it the broker     *)
(* knows: READYs that cross a task on their way, QUITs followed by a task   *)
(* taken in the grace check, and workers that die do not upset the count.   *)
OneTaskPerWorker ==
  \A w \in Workers : Load(w) <= 1 /\ (Load(w) = 1 => Contains(working, w))

(* With nothing failing, working_workers is exact and a client inside       *)
(* send() has its attempt in exactly one place: nothing is lost where a     *)
(* worker retires while the broker hands it a task.                         *)
RequestConserved ==
  /\ \A w \in ToSet(working) : Load(w) = 1
  /\ \A c \in Clients : cpc[c] = "wait" =>
       CurrentAttempt(c) \in frontend \cup OnItsWay \cup Delivered

(* An attempt is never in two places, so it is scanned and answered at most *)
(* once however often sockets are replaced.                                 *)
AttemptInOnePlace ==
  /\ frontend \cap (OnItsWay \cup Delivered) = {}
  /\ OnItsWay \cap Delivered = {}
  /\ \A v, w \in Workers : v # w => TasksOf(v) \cap TasksOf(w) = {}
  /\ \A w \in Workers : Cardinality(TasksOf(w)) = Load(w)

(* A reply that waits at a client's socket, and the value send() returns,   *)
(* belong to the object of the latest send(), although replies to earlier   *)
(* ones may come late.                                                      *)
ReplyMatches ==
  \A c \in Clients :
    /\ Len(mail[c]) <= 1
    /\ \A i \in DOMAIN mail[c] :
         mail[c][i].client = c /\ mail[c][i].obj = obj[c] /\ dirty[c]
    /\ cpc[c] = "idle" /\ result[c] # None => result[c].obj = obj[c]

(* The process of a worker scans at most max_scan_items objects, the one of *)
(* the grace check included.                                                *)
ItemsBounded ==
  \A w \in Workers :
    count[w] + (IF pc[w] \in {"scan", "gracescan", "gracesent"} THEN 1 ELSE 0)
      <= MaxItems

(* A broker that was asked to stop and ends before its grace period is over *)
(* leaves no worker with a task a client still waits for.  (Said of the     *)
(* first broker.  A later one may inherit a READY that a busy worker had    *)
(* sent before: it lists that worker as available, sends it a second task,  *)
(* and stops counting it when the first one is done.)                       *)
DrainDelivers ==
  [][broker = "drain" /\ broker' = "down" /\ ~graceOver =>
       \A c \in Clients : conn[c] = 0 => CurrentAttempt(c) \notin OnItsWay]_vars

(* send() gets its answer unless the broker is told to stop meanwhile:      *)
(* whichever workers retire, the request is handed to one that takes it.    *)
RequestAnswered ==
  \A c \in Clients :
    cpc[c] = "wait" /\ conn[c] = 0 ~> cpc[c] = "idle" \/ broker # "run"

(* A broker that is told to stop comes to an end, whether or not its        *)
(* workers report, and another one takes its place.                         *)
BrokerReturns == broker # "run" ~> broker = "run"

(* Every worker that goes on polling becomes known to the broker, also to   *)
(* one that was started later and never heard its first READY.              *)
WorkerListed ==
  \A w \in Workers :
    pc[w] = "poll" ~> pc[w] # "poll" \/ Contains(avail, w) \/ Contains(working, w)

(* What the callers of send() see is the scan service, which is lossy only  *)
(* when something may fail.                                                 *)
Service ==
  INSTANCE ScanService WITH
    Lossy <- Faults # {}, calls <- obj, tries <- conn,
    waiting <- {c \in Clients : cpc[c] = "wait"},
    queued <- frontend, running <- OnItsWay, answered <- Delivered,
    returned <- result

ServiceSpec == Service!SvcSpec
===========================================================================
