---------------------------- MODULE LaikadWire ----------------------------
(***************************************************************************)
(* The ZeroMQ sockets between the processes of laikad: the state that      *)
(* clients, broker and workers share, and what a send, a reconnection or   *)
(* the end of a process does to it.  ZeroMQ itself is external code; what  *)
(* is kept is what laikad.py and clientLib.py rely on:                     *)
(*                                                                         *)
(*  - a ROUTER socket silently drops a message for an identity that is not *)
(*    connected (to a worker that is gone, to a socket a client closed);   *)
(*  - a client's REQ socket has no identity of its own: the broker gives   *)
(*    it a fresh one at every connection, so that "conn" grows by one when *)
(*    the client or the broker opens its socket again;                     *)
(*  - between two live sockets messages arrive, once and in order.         *)
(***************************************************************************)
EXTENDS Naturals, Sequences, FiniteSets, SequencesExt

CONSTANTS Workers,   \* identities a Worker process may draw
          Clients,   \* client processes, each with one Client object
          None,      \* no task, no answer
          Faults     \* which of FaultKinds the environment may cause

FaultKinds ==
  {"clientTimeout", "workerSignal", "workerKill", "scanError", "slowBroker",
   "brokerSignal", "brokerKill", "supStop", "forwarderSignal", "forwarderKill"}

VARIABLES conn,      \* conn[c]: the identity of c's present socket
          frontend,  \* requests that wait at the broker's frontend
          mail,      \* mail[c]: replies that wait at c's present socket
          inbox,     \* inbox[w]: tasks sent to w and not yet received by it
          chan,      \* chan[w]: messages of w the broker has not received
          sock       \* workers whose DEALER socket is open

wireVars == <<conn, frontend, mail, inbox, chan, sock>>

(* One attempt at having an object scanned: obj numbers the calls of send() *)
(* of a client; with a retry the same object travels under another conn.    *)
Task == [client : Clients, conn : Nat, obj : Nat]

ResultStatus == {"RESULT_READY", "RESULT_QUIT"}
(* What a worker says to the broker: laikad.py's four status constants.     *)
WorkerMsg == [status : {"READY", "QUIT"}, task : {None}]
               \cup [status : ResultStatus, task : Task]

ASSUME FaultsAssumption == Faults \subseteq FaultKinds
ASSUME NoneAssumption == None \notin Task

WireTypeOK ==
  /\ conn \in [Clients -> Nat]
  /\ frontend \subseteq Task
  /\ mail \in [Clients -> Seq(Task)]
  /\ inbox \in [Workers -> Seq(Task)]
  /\ chan \in [Workers -> Seq(WorkerMsg)]
  /\ sock \subseteq Workers

WireInit ==
  /\ conn = [c \in Clients |-> 0]
  /\ frontend = {}
  /\ mail = [c \in Clients |-> <<>>]
  /\ inbox = [w \in Workers |-> <<>>]
  /\ chan = [w \in Workers |-> <<>>]
  /\ sock = {}

---------------------------------------------------------------------------
(* backend.send_multipart([worker_id, ...]) of the broker.                  *)
SendToWorker(w, t) ==
  inbox' = IF w \in sock THEN [inbox EXCEPT ![w] = Append(@, t)] ELSE inbox

(* A slip: the reply finds a client whose socket has been replaced.         *)
ReplyAnyway(t) == mail' = [mail EXCEPT ![t.client] = Append(@, t)]

(* frontend.send_multipart([client_id, '', reply]): it reaches the client   *)
(* only while the socket the request came from is still there.              *)
ReplyToClient(t) ==
  mail' = IF t.conn = conn[t.client]
          THEN [mail EXCEPT ![t.client] = Append(@, t)]
          ELSE mail

SendToBroker(w, m) == chan' = [chan EXCEPT ![w] = Append(@, m)]

(* Slips: the new socket has the identity of the old one; a waiting reply   *)
(* survives the old socket.                                                 *)
ReconnectSameIdentity(c, pending) ==
  /\ mail' = [mail EXCEPT ![c] = <<>>]
  /\ frontend' = frontend \cup {[t EXCEPT !.conn = conn[c]] : t \in pending}
  /\ UNCHANGED conn

ReconnectKeepsMail(c, pending) ==
  /\ conn' = [conn EXCEPT ![c] = @ + 1]
  /\ frontend' = frontend \cup pending
  /\ UNCHANGED mail

(* The client closes its socket (LINGER 0) and opens another: a reply that  *)
(* waited is gone; the request it had sent has reached the broker or not.   *)
Reconnect(c, pending) ==
  /\ conn' = [conn EXCEPT ![c] = @ + 1]
  /\ mail' = [mail EXCEPT ![c] = <<>>]
  /\ \E dropped \in SUBSET {t \in frontend : t.client = c /\ t.conn = conn[c]} :
       frontend' = (frontend \ dropped) \cup pending

(* The sockets of the broker disappear with its process.  Every client      *)
(* connects again, under a new identity, to the broker that comes next,     *)
(* and sends it the request that had not left its own socket; of the tasks  *)
(* on their way to a worker the last ones may be lost, of the messages of a *)
(* worker the first ones (the rest wait in the worker, if it still runs).   *)
LoseBroker ==
  /\ conn' = [c \in Clients |-> conn[c] + 1]
  /\ \E unsent \in SUBSET {t \in frontend : t.conn = conn[t.client]} :
       frontend' = {[t EXCEPT !.conn = @ + 1] : t \in unsent}
  /\ inbox' \in {f \in [Workers -> UNION {Prefixes(inbox[w]) : w \in Workers}] :
                   \A w \in Workers : f[w] \in Prefixes(inbox[w])}
  /\ chan' \in {f \in [Workers -> UNION {Suffixes(chan[w]) : w \in Workers}] :
                  \A w \in Workers :
                    f[w] \in IF w \in sock THEN Suffixes(chan[w]) ELSE {<<>>}}

(* What happens to the sockets of a worker whose process ends, when the     *)
(* messages "left" of it are those that still reach the broker.             *)
LoseWorker(w, left) ==
  /\ sock' = sock \ {w}
  /\ inbox' = [inbox EXCEPT ![w] = <<>>]
  /\ chan' = [chan EXCEPT ![w] = left]
===========================================================================
