---------------------------- MODULE AsyncBroker ---------------------------
(***************************************************************************)
(* AsyncBroker of laikad.py: it pulls requests from clients, hands each to *)
(* a worker that has said it is available, and drops the results.  It does *)
(* not remember which workers are at work, and stops at once.              *)
(***************************************************************************)
EXTENDS LaikadWire

VARIABLES broker,    \* "run" or "down"
          avail      \* available_workers

brokerVars == <<broker, avail>>

BrokerTypeOK ==
  /\ broker \in {"run", "down"}
  /\ avail \in Seq(Workers)

BrokerInit ==
  /\ broker = "run"
  /\ avail = <<>>

(* Sockets a client has closed may still have sent what they held.          *)
ForwardTask(t) ==
  /\ broker = "run"
  /\ avail # <<>>
  /\ t \in frontend
  /\ frontend' = frontend \ {t}
  /\ SendToWorker(Head(avail), t)
  /\ avail' = Tail(avail)
  /\ UNCHANGED <<broker, conn, mail, chan, sock>>

(* A slip: the worker is listed without looking.                            *)
ListAgain(w) == Append(avail, w)

List(w) == IF Contains(avail, w) THEN avail ELSE Append(avail, w)

OnWorkerStatus(w) ==
  /\ broker = "run"
  /\ chan[w] # <<>>
  /\ avail' = IF Head(chan[w]).status \in {"READY", "RESULT_READY"}
              THEN List(w)
              ELSE RemoveFirst(avail, w)
  /\ chan' = [chan EXCEPT ![w] = Tail(@)]
  /\ UNCHANGED <<broker, conn, frontend, mail, inbox, sock>>

(* A shutdown signal or SIGKILL: either way the process is gone at once.    *)
StopBroker ==
  /\ broker = "run"
  /\ broker' = "down"
  /\ avail' = <<>>
  /\ LoseBroker
  /\ UNCHANGED <<mail, sock>>

StartBroker ==
  /\ broker = "down"
  /\ broker' = "run"
  /\ UNCHANGED <<avail, wireVars>>
===========================================================================
