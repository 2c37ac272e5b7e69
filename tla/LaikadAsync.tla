---------------------------- MODULE LaikadAsync ---------------------------
(***************************************************************************)
(* laikad in its asynchronous form: forwarders that take files out of      *)
(* Redis, push them and hear no more of them, AsyncBroker, workers and the *)
(* supervisor.                                                             *)
(***************************************************************************)
EXTENDS AsyncBroker, Supervisor, RedisForwarder

CONSTANT MaxConn      \* bound: connections of a client before it, or the broker, may end

vars == <<wireVars, brokerVars, workerVars, forwarderVars, supVars>>

BrokerUp == broker = "run"

(* An identity drawn at random is one that nothing in the system remembers. *)
Fresh(w) == ~Contains(avail, w) /\ chan[w] = <<>>

TypeOK ==
  /\ WireTypeOK
  /\ BrokerTypeOK
  /\ WorkerTypeOK
  /\ ForwarderTypeOK
  /\ SupTypeOK

Init ==
  /\ WireInit
  /\ BrokerInit
  /\ ForwarderInit
  /\ SupInit
  /\ WorkerInit(procs)

---------------------------------------------------------------------------
BrokerStep ==
  /\ \/ \E t \in frontend : ForwardTask(t)
     \/ \E w \in Workers : OnWorkerStatus(w)
     \/ /\ Faults \cap {"brokerSignal", "brokerKill"} # {}
        /\ \A c \in Clients : conn[c] < MaxConn
        /\ StopBroker
  /\ UNCHANGED <<workerVars, forwarderVars, supVars>>

WorkerWork(w) ==
  \/ Boot(w)
  \/ Take(w)
  \/ Finish(w)
  \/ Sent(w, BrokerUp)
  \/ GraceTake(w)
  \/ GraceFinish(w)
  \/ GraceTimeout(w)
  \/ Exit(w, BrokerUp)

WorkerStep(w) ==
  /\ \/ WorkerWork(w)
     \/ PollTimeout(w)
     \/ ScanError(w, BrokerUp)
     \/ WorkerSignal(w, BrokerUp)
     \/ WorkerKill(w, BrokerUp)
  /\ UNCHANGED <<brokerVars, forwarderVars, supVars>>

ForwarderStep(c) ==
  /\ \/ ForwarderWork(c)
     \/ /\ conn[c] < MaxConn
        /\ ParseFails(c) \/ ForwarderSignal(c) \/ ForwarderKill(c)
     \/ ForwarderStart(c)
  /\ UNCHANGED <<brokerVars, workerVars, supVars>>

Suricata == Arrive /\ UNCHANGED <<brokerVars, workerVars, supVars>>

SupervisorStep ==
  \/ /\ \/ \E w, new \in Workers : Fresh(new) /\ ReplaceWorker(w, new)
        \/ SupStop
        \/ SupKillWorkers(BrokerUp)
     /\ UNCHANGED <<brokerVars, forwarderVars>>
  \/ /\ supPc = "watch"
     /\ StartBroker
     /\ UNCHANGED <<workerVars, forwarderVars, supVars>>
  \/ /\ supPc = "kill"
     /\ supPc' = "done"
     /\ IF BrokerUp THEN StopBroker ELSE UNCHANGED <<wireVars, brokerVars>>
     /\ UNCHANGED <<procs, workerVars, forwarderVars>>

Next ==
  \/ BrokerStep
  \/ \E w \in Workers : WorkerStep(w)
  \/ \E c \in Clients : ForwarderStep(c)
  \/ Suricata
  \/ SupervisorStep

Spec == Init /\ [][Next]_vars

(* A forwarder that can go on does.                                         *)
FairSpec ==
  Spec /\ \A c \in Clients :
            WF_vars(ForwarderWork(c) /\ UNCHANGED <<brokerVars, workerVars, supVars>>)

---------------------------------------------------------------------------
(* Messages that make the broker list a worker, or that say it has scanned. *)
Readies == {"READY", "RESULT_READY", "RESULT_QUIT"}
Unread(w) == Cardinality(WithStatus(chan[w], Readies))
Listed(w) == IF Contains(avail, w) THEN 1 ELSE 0

(* Available_workers names no worker twice, and a worker is never handed    *)
(* more than one task beyond those its unread READYs can stand for: the     *)
(* tasks it has, the READYs it has on the way and its place in the list     *)
(* come to at most MaxChan + 1, however READYs cross tasks.                 *)
Backlog(w) == Len(inbox[w]) + Holds(w) + Unread(w) + Listed(w)
BoundedBacklog ==
  /\ IsInjective(avail)
  /\ \A w \in Workers : Backlog(w) <= MaxChan + 1

(* A file that waits at the broker or with a worker is there once, and in   *)
(* one place; twice only when a signal made send() try again after the      *)
(* first try had handed it over; not at all before it has been handed over, *)
(* or when send() returned False.                                           *)
CopiesOf(f) == {t \in frontend \cup OnItsWay : t.obj = f}

OneCopy ==
  /\ frontend \cap OnItsWay = {}
  /\ \A v, w \in Workers : v # w => TasksOf(v) \cap TasksOf(w) = {}
  /\ \A w \in Workers : Cardinality(TasksOf(w)) = Load(w)
  /\ \A f \in Files :
       Cardinality(CopiesOf(f)) <= CASE fate[f] = "resent" -> 2
                                    [] fate[f] = "sent" -> 1
                                    [] OTHER -> 0

(* The keys of a file go only once something has been decided about it:     *)
(* whatever ends the forwarder, and at whatever point, a file that has not  *)
(* been handed over, skipped or refused is in the list, or at least its     *)
(* keys are still in Redis (unless Suricata has not stored both).           *)
KeysOutliveForwarder ==
  \A f \in 1 .. arrived :
    fate[f] = "waiting" => f \in keys

(* "Signal handler for graceful exit." (laika_redis_client.py:33): a        *)
(* forwarder that has been told to exit does.                               *)
SignalEnds == \A c \in Clients : told[c] ~> fpc[c] = "down"
===========================================================================
