------------------------------ MODULE Worker ------------------------------
(***************************************************************************)
(* Worker of laikad.py: a process that tells the broker it is available,   *)
(* scans the tasks it is sent, and quits after a number of scans or some   *)
(* time.  pc[w] is where the process is in run():                          *)
(*                                                                         *)
(*   boot                   up to the first READY                          *)
(*   poll, scan, sent       the main loop: waiting in perform_scan,        *)
(*                          scanning, waiting for the result to be sent    *)
(*   grace, gracescan, gracesent                                           *)
(*                          the same for the one more perform_scan that    *)
(*                          follows a QUIT                                 *)
(*   close                  close_modules                                  *)
(*   off                    no such process                                *)
(*                                                                         *)
(* What Dispatch makes of an object, an exception of it included, is a     *)
(* result like any other here.                                             *)
(***************************************************************************)
EXTENDS LaikadWire

CONSTANTS MaxItems,  \* max_scan_items
          MaxChan    \* bound: READYs a worker leaves unread at the broker

ASSUME MaxItemsAssumption == MaxItems \in Nat \ {0}
ASSUME MaxChanAssumption == MaxChan \in Nat

VARIABLES pc,
          held,      \* held[w]: the task w scans
          count,     \* counter: results sent from the main loop
          stop       \* w leaves its main loop: keep_running is, or is about to be, False

workerVars == <<pc, held, count, stop>>

Scanning == {"scan", "gracescan"}

WorkerTypeOK ==
  /\ pc \in [Workers -> {"off", "boot", "poll", "scan", "sent", "grace",
                         "gracescan", "gracesent", "close"}]
  /\ held \in [Workers -> Task \cup {None}]
  /\ count \in [Workers -> Nat]
  /\ stop \in [Workers -> BOOLEAN]

WorkerInit(started) ==
  /\ pc = [w \in Workers |-> IF w \in started THEN "boot" ELSE "off"]
  /\ held = [w \in Workers |-> None]
  /\ count = [w \in Workers |-> 0]
  /\ stop = [w \in Workers |-> FALSE]

Goto(w, label) == pc' = [pc EXCEPT ![w] = label]

---------------------------------------------------------------------------
(* Connect and ask for work.                                                *)
Boot(w) ==
  /\ pc[w] = "boot"
  /\ Goto(w, "poll")
  /\ sock' = sock \cup {w}
  /\ SendToBroker(w, [status |-> "READY", task |-> None])
  /\ UNCHANGED <<held, count, stop, conn, frontend, mail, inbox>>

(* A slip: the task stays in the inbox.                                     *)
ReceivePeek(w, label) ==
  /\ inbox[w] # <<>>
  /\ held' = [held EXCEPT ![w] = Head(inbox[w])]
  /\ Goto(w, label)
  /\ UNCHANGED <<count, stop, conn, frontend, mail, inbox, chan, sock>>

Receive(w, label) ==
  /\ inbox[w] # <<>>
  /\ held' = [held EXCEPT ![w] = Head(inbox[w])]
  /\ inbox' = [inbox EXCEPT ![w] = Tail(@)]
  /\ Goto(w, label)
  /\ UNCHANGED <<count, stop, conn, frontend, mail, chan, sock>>

Take(w) == pc[w] = "poll" /\ Receive(w, "scan")

(* A slip: no grace check after a QUIT.                                     *)
PollTimeoutNoGrace(w) ==
  /\ pc[w] = "poll"
  /\ inbox[w] = <<>>
  /\ Len(chan[w]) < MaxChan
  /\ \/ /\ SendToBroker(w, [status |-> "READY", task |-> None])
        /\ UNCHANGED <<pc, stop>>
     \/ /\ SendToBroker(w, [status |-> "QUIT", task |-> None])
        /\ Goto(w, "close")
        /\ stop' = [stop EXCEPT ![w] = TRUE]
  /\ UNCHANGED <<held, count, conn, frontend, mail, inbox, sock>>

(* No task within poll_timeout: say READY again, or QUIT if the time to     *)
(* live is over.  QUIT is not waited for: the grace check starts at once.   *)
PollTimeout(w) ==
  /\ pc[w] = "poll"
  /\ inbox[w] = <<>>
  /\ Len(chan[w]) < MaxChan
  /\ \/ /\ SendToBroker(w, [status |-> "READY", task |-> None])
        /\ UNCHANGED <<pc, stop>>
     \/ /\ SendToBroker(w, [status |-> "QUIT", task |-> None])
        /\ Goto(w, "grace")
        /\ stop' = [stop EXCEPT ![w] = TRUE]
  /\ UNCHANGED <<held, count, conn, frontend, mail, inbox, sock>>

(* A slip: one scan too many.                                               *)
FinishOneMore(w) ==
  /\ pc[w] = "scan"
  /\ count' = [count EXCEPT ![w] = @ + 1]
  /\ \E shouldQuit \in BOOLEAN :
       /\ count[w] >= MaxItems \/ stop[w] => shouldQuit
       /\ stop' = [stop EXCEPT ![w] = shouldQuit]
       /\ SendToBroker(w, [status |-> IF shouldQuit THEN "RESULT_QUIT"
                                                    ELSE "RESULT_READY",
                           task |-> held[w]])
  /\ held' = [held EXCEPT ![w] = None]
  /\ Goto(w, "sent")
  /\ UNCHANGED <<conn, frontend, mail, inbox, sock>>

(* The scan is over.  should_quit: enough items, time over, or a shutdown   *)
(* signal whose exception something inside the scan has swallowed.          *)
Finish(w) ==
  /\ pc[w] = "scan"
  /\ count' = [count EXCEPT ![w] = @ + 1]
  /\ \E shouldQuit \in BOOLEAN :
       /\ count[w] + 1 >= MaxItems \/ stop[w] => shouldQuit
       /\ stop' = [stop EXCEPT ![w] = shouldQuit]
       /\ SendToBroker(w, [status |-> IF shouldQuit THEN "RESULT_QUIT"
                                                    ELSE "RESULT_READY",
                           task |-> held[w]])
  /\ held' = [held EXCEPT ![w] = None]
  /\ Goto(w, "sent")
  /\ UNCHANGED <<conn, frontend, mail, inbox, sock>>

GraceTake(w) == pc[w] = "grace" /\ Receive(w, "gracescan")

GraceFinish(w) ==
  /\ pc[w] = "gracescan"
  /\ SendToBroker(w, [status |-> "RESULT_QUIT", task |-> held[w]])
  /\ held' = [held EXCEPT ![w] = None]
  /\ Goto(w, "gracesent")
  /\ UNCHANGED <<count, stop, conn, frontend, mail, inbox, sock>>

(* No task came.  The grace check lasts poll_timeout, five minutes by       *)
(* default: unless "slowBroker" is allowed, the broker has by then received *)
(* what this worker sent before, its QUIT included.                         *)
GraceTimeout(w) ==
  /\ pc[w] = "grace"
  /\ inbox[w] = <<>>
  /\ "slowBroker" \in Faults \/ chan[w] = <<>>
  /\ Goto(w, "close")
  /\ UNCHANGED <<held, count, stop, wireVars>>

(* The result has been handed to the connection: it takes a broker.         *)
Sent(w, brokerUp) ==
  /\ brokerUp
  /\ \/ pc[w] = "sent" /\ Goto(w, IF stop[w] THEN "close" ELSE "poll")
     \/ pc[w] = "gracesent" /\ Goto(w, "close")
  /\ UNCHANGED <<held, count, stop, wireVars>>

---------------------------------------------------------------------------
Die(w, left) ==
  /\ Goto(w, "off")
  /\ held' = [held EXCEPT ![w] = None]
  /\ LoseWorker(w, left)
  /\ UNCHANGED <<count, stop, conn, frontend, mail>>

(* run() returns.  With no broker to connect to, what w has not yet sent    *)
(* goes with it.                                                            *)
Exit(w, brokerUp) ==
  /\ pc[w] = "close"
  /\ Die(w, IF brokerUp THEN chan[w] ELSE <<>>)

(* An exception that perform_scan does not catch: a request that cannot be  *)
(* unpickled, a result that cannot be serialised.                           *)
ScanError(w, brokerUp) ==
  /\ "scanError" \in Faults
  /\ pc[w] \in Scanning
  /\ Die(w, IF brokerUp THEN chan[w] ELSE <<>>)

(* SIGTERM or SIGINT: the handler raises QuitScanException wherever the     *)
(* process is.  The main loop breaks off without a word to the broker; in   *)
(* the grace check nothing catches it.                                      *)
WorkerSignal(w, brokerUp) ==
  /\ "workerSignal" \in Faults
  /\ \/ /\ pc[w] \in {"poll", "scan", "sent"}
        /\ Goto(w, "close")
        /\ held' = [held EXCEPT ![w] = None]
        /\ stop' = [stop EXCEPT ![w] = TRUE]
        /\ UNCHANGED <<count, wireVars>>
     \/ /\ pc[w] = "scan"           \* swallowed by an except: of the scan
        /\ stop' = [stop EXCEPT ![w] = TRUE]
        /\ UNCHANGED <<pc, held, count, wireVars>>
     \/ /\ pc[w] \in {"grace", "gracescan", "gracesent"}
        /\ Die(w, IF brokerUp THEN chan[w] ELSE <<>>)

(* SIGKILL: any of the last messages may not have left the process.         *)
WorkerKill(w, brokerUp) ==
  /\ "workerKill" \in Faults
  /\ pc[w] # "off"
  /\ \E left \in IF brokerUp THEN Prefixes(chan[w]) ELSE {<<>>} : Die(w, left)

---------------------------------------------------------------------------
(* Where a sequence of messages has one of the given kinds.                 *)
WithStatus(messages, kinds) == {i \in DOMAIN messages : messages[i].status \in kinds}

ResultsIn(messages) == WithStatus(messages, ResultStatus)

(* The tasks w has been given and whose results the broker has not seen,    *)
(* and how many they are.                                                   *)
TasksOf(w) ==
  ToSet(inbox[w]) \cup ({held[w]} \ {None})
    \cup {chan[w][i].task : i \in ResultsIn(chan[w])}

Holds(w) == IF held[w] = None THEN 0 ELSE 1
Load(w) == Len(inbox[w]) + Holds(w) + Cardinality(ResultsIn(chan[w]))

OnItsWay == UNION {TasksOf(w) : w \in Workers}
===========================================================================
