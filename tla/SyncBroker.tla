---------------------------- MODULE SyncBroker ----------------------------
(***************************************************************************)
(* SyncBroker of laikad.py: the process that hands the requests of clients *)
(* to workers that have said they are available, remembers which workers   *)
(* are at work, and forwards their results to the clients.                 *)
(*                                                                         *)
(* One pass of the loop of run() polls, takes at most one request and then *)
(* at most one worker message.  The two halves are two actions: nothing    *)
(* another process can see happens between them.  A shutdown signal takes  *)
(* effect when the loop tests keep_running.                                *)
(***************************************************************************)
EXTENDS LaikadWire

VARIABLES broker,    \* "run", "drain" (graceful shutdown) or "down"
          avail,     \* available_workers
          working,   \* working_workers
          graceOver  \* shutdown_grace_timeout has passed since the drain began

brokerVars == <<broker, avail, working, graceOver>>

BrokerTypeOK ==
  /\ broker \in {"run", "drain", "down"}
  /\ avail \in Seq(Workers)
  /\ working \in Seq(Workers)
  /\ graceOver \in BOOLEAN

BrokerInit ==
  /\ broker = "run"
  /\ avail = <<>>
  /\ working = <<>>
  /\ graceOver = FALSE

---------------------------------------------------------------------------
(* A slip: the request stays in the queue.                                  *)
ForwardRequestPeek(t) ==
  /\ broker = "run"
  /\ avail # <<>>
  /\ t \in frontend
  /\ SendToWorker(Head(avail), t)
  /\ avail' = Tail(avail)
  /\ working' = Append(working, Head(avail))
  /\ UNCHANGED <<broker, graceOver, conn, frontend, mail, chan, sock>>

(* The frontend is polled only while a worker is available.                 *)
ForwardRequest(t) ==
  /\ broker = "run"
  /\ avail # <<>>
  /\ t \in frontend
  /\ frontend' = frontend \ {t}
  /\ SendToWorker(Head(avail), t)
  /\ avail' = Tail(avail)
  /\ working' = Append(working, Head(avail))
  /\ UNCHANGED <<broker, graceOver, conn, mail, chan, sock>>

(* A slip: only the list of available workers is looked at.                 *)
ReadmitUnlessIdle(w, idle, busy) ==
  IF Contains(idle, w) THEN idle ELSE Append(idle, w)

(* A worker that reports for work is listed unless it is listed already.    *)
Readmit(w, idle, busy) ==
  IF Contains(idle, w) \/ Contains(busy, w) THEN idle ELSE Append(idle, w)

(* A slip: only a worker that hands in a result becomes available.          *)
OnReadyIgnored(w) == UNCHANGED <<avail, working, mail>>

OnReady(w) ==
  /\ avail' = Readmit(w, avail, working)
  /\ UNCHANGED <<working, mail>>

(* A slip: the worker is listed without looking.                            *)
OnResultReadyBlind(w, t) ==
  /\ working' = RemoveFirst(working, w)
  /\ ReplyToClient(t)
  /\ avail' = Append(avail, w)

OnResultReady(w, t) ==
  /\ working' = RemoveFirst(working, w)
  /\ ReplyToClient(t)
  /\ avail' = Readmit(w, avail, working')

(* A slip: a worker that quits takes its result along.                      *)
OnResultQuitSilent(w, t) ==
  /\ working' = RemoveFirst(working, w)
  /\ UNCHANGED <<avail, mail>>

OnResultQuit(w, t) ==
  /\ working' = RemoveFirst(working, w)
  /\ ReplyToClient(t)
  /\ UNCHANGED avail

OnQuit(w) ==
  /\ avail' = RemoveFirst(avail, w)
  /\ UNCHANGED <<working, mail>>

OnWorkerMessage(w) ==
  /\ broker = "run"
  /\ chan[w] # <<>>
  /\ LET m == Head(chan[w])
     IN \/ m.status = "READY" /\ OnReady(w)
        \/ m.status = "RESULT_READY" /\ OnResultReady(w, m.task)
        \/ m.status = "RESULT_QUIT" /\ OnResultQuit(w, m.task)
        \/ m.status = "QUIT" /\ OnQuit(w)
  /\ chan' = [chan EXCEPT ![w] = Tail(@)]
  /\ UNCHANGED <<broker, graceOver, conn, frontend, inbox, sock>>

---------------------------------------------------------------------------
(* Graceful shutdown: no request is accepted any more, and results are      *)
(* forwarded until every working worker has delivered or time is up.        *)
BrokerSignal ==
  /\ "brokerSignal" \in Faults
  /\ broker = "run"
  /\ broker' = "drain"
  /\ graceOver' = FALSE
  /\ UNCHANGED <<avail, working, wireVars>>

(* A slip: any message ends the wait for a worker.                          *)
OnDrainMessageAny(w) ==
  /\ broker = "drain"
  /\ working # <<>>
  /\ ~graceOver
  /\ chan[w] # <<>>
  /\ working' = RemoveFirst(working, w)
  /\ LET m == Head(chan[w])
     IN IF m.status \in ResultStatus THEN ReplyToClient(m.task) ELSE UNCHANGED mail
  /\ chan' = [chan EXCEPT ![w] = Tail(@)]
  /\ UNCHANGED <<broker, avail, graceOver, conn, frontend, inbox, sock>>

OnDrainMessage(w) ==
  /\ broker = "drain"
  /\ working # <<>>
  /\ ~graceOver
  /\ chan[w] # <<>>
  /\ LET m == Head(chan[w])
     IN IF m.status \in ResultStatus
        THEN /\ working' = RemoveFirst(working, w)
             /\ ReplyToClient(m.task)
        ELSE UNCHANGED <<working, mail>>
  /\ chan' = [chan EXCEPT ![w] = Tail(@)]
  /\ UNCHANGED <<broker, avail, graceOver, conn, frontend, inbox, sock>>

GraceExpires ==
  /\ broker = "drain"
  /\ working # <<>>
  /\ ~graceOver
  /\ graceOver' = TRUE
  /\ UNCHANGED <<broker, avail, working, wireVars>>

(* The lists are local variables of run() and go with it.                   *)
ForgetWorkers ==
  /\ broker' = "down"
  /\ avail' = <<>>
  /\ working' = <<>>
  /\ graceOver' = FALSE

(* A slip: the end of the grace period does not end the broker.             *)
BrokerExitPatient ==
  /\ broker = "drain"
  /\ working = <<>>
  /\ ForgetWorkers
  /\ LoseBroker
  /\ UNCHANGED <<mail, sock>>

(* Returning from run() closes the sockets and sends what they still hold,  *)
(* so the replies already forwarded arrive.                                 *)
BrokerExit ==
  /\ broker = "drain"
  /\ working = <<>> \/ graceOver
  /\ ForgetWorkers
  /\ LoseBroker
  /\ UNCHANGED <<mail, sock>>

(* SIGKILL: a reply on its way to a client may be lost too.                 *)
KillBroker ==
  /\ broker # "down"
  /\ ForgetWorkers
  /\ LoseBroker
  /\ \E lost \in SUBSET Clients :
       mail' = [c \in Clients |-> IF c \in lost THEN <<>> ELSE mail[c]]
  /\ UNCHANGED sock

StartBroker ==
  /\ broker = "down"
  /\ broker' = "run"
  /\ UNCHANGED <<avail, working, graceOver, wireVars>>
===========================================================================
