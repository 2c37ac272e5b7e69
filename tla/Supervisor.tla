---------------------------- MODULE Supervisor ----------------------------
(***************************************************************************)
(* The supervisor that main() of laikad.py becomes.  It keeps NumProcs     *)
(* workers running (and a broker: see the modules that add one) until it   *)
(* is told to stop, then waits for gracetimeout and kills what is left.    *)
(* It looks after its children every five seconds, so each of its          *)
(* reactions may come at any time.                                         *)
(***************************************************************************)
EXTENDS Worker

CONSTANT NumProcs     \* size of the worker pool

VARIABLES supPc,      \* "watch" (while KEEP_RUNNING), "grace", "kill", "done"
          procs       \* workers: the processes the supervisor looks after

supVars == <<supPc, procs>>

SupTypeOK ==
  /\ supPc \in {"watch", "grace", "kill", "done"}
  /\ procs \subseteq Workers

SupInit ==
  /\ supPc = "watch"
  /\ procs \in SUBSET Workers
  /\ Cardinality(procs) = NumProcs

---------------------------------------------------------------------------
(* A worker that is dead is replaced by a new one.                          *)
ReplaceWorker(w, new) ==
  /\ supPc = "watch"
  /\ w \in procs
  /\ pc[w] = "off" /\ pc[new] = "off"
  /\ new \notin procs \ {w}
  /\ procs' = (procs \ {w}) \cup {new}
  /\ Goto(new, "boot")
  /\ count' = [count EXCEPT ![new] = 0]
  /\ stop' = [stop EXCEPT ![new] = FALSE]
  /\ UNCHANGED <<held, supPc, wireVars>>

(* SIGTERM or SIGINT ends the loop.  The children are not told.             *)
SupStop ==
  /\ "supStop" \in Faults
  /\ supPc = "watch"
  /\ supPc' = "grace"
  /\ UNCHANGED <<procs, workerVars, wireVars>>

(* gracetimeout later: SIGKILL for every worker that is left.               *)
SupKillWorkers(brokerUp) ==
  /\ supPc = "grace"
  /\ supPc' = "kill"
  /\ pc' = [w \in Workers |-> "off"]
  /\ held' = [w \in Workers |-> None]
  /\ sock' = {}
  /\ inbox' = [w \in Workers |-> <<>>]
  /\ chan' \in {f \in [Workers -> UNION {Prefixes(chan[w]) : w \in Workers}] :
                  \A w \in Workers : f[w] \in IF w \notin sock
                                              THEN {chan[w]}
                                              ELSE IF brokerUp
                                                   THEN Prefixes(chan[w])
                                                   ELSE {<<>>}}
  /\ UNCHANGED <<count, stop, conn, frontend, mail, procs>>
===========================================================================
