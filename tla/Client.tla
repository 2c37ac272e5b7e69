------------------------------ MODULE Client ------------------------------
(***************************************************************************)
(* Client of clientLib.py in its synchronous form: send() hands one object *)
(* to the broker over a REQ socket, waits for the reply and, when none     *)
(* comes in time, closes the socket, opens another and sends the object    *)
(* again, up to "retry" times.  The asynchronous form has one user, the    *)
(* forwarder of module RedisForwarder, and is modelled with it.            *)
(***************************************************************************)
EXTENDS LaikadWire

CONSTANTS MaxSends,  \* bound: calls of send() a client makes
          Retry      \* the argument retry of send()

ASSUME RetryAssumption == Retry \in Nat

VARIABLES cpc,       \* "idle" (outside send) or "wait" (in the poll of _send_recv)
          obj,       \* obj[c]: number of the object of the present or last send()
          retries,   \* retriesLeft
          dirty,     \* the REQ socket still expects a reply, so it cannot send
          result     \* what the last send() returned

clientVars == <<cpc, obj, retries, dirty, result>>

ClientTypeOK ==
  /\ cpc \in [Clients -> {"idle", "wait"}]
  /\ obj \in [Clients -> Nat]
  /\ retries \in [Clients -> Nat]
  /\ dirty \in [Clients -> BOOLEAN]
  /\ result \in [Clients -> Task \cup {None}]

ClientInit ==
  /\ cpc = [c \in Clients |-> "idle"]
  /\ obj = [c \in Clients |-> 0]
  /\ retries = [c \in Clients |-> 0]
  /\ dirty = [c \in Clients |-> FALSE]
  /\ result = [c \in Clients |-> None]

Attempt(c, identity, n) == [client |-> c, conn |-> identity, obj |-> n]

---------------------------------------------------------------------------
(* A slip: a socket that expects a reply is used all the same.              *)
ClientSendAnyway(c) ==
  /\ cpc[c] = "idle"
  /\ obj[c] < MaxSends
  /\ obj' = [obj EXCEPT ![c] = @ + 1]
  /\ frontend' = frontend \cup {Attempt(c, conn[c], obj[c] + 1)}
  /\ cpc' = [cpc EXCEPT ![c] = "wait"]
  /\ retries' = [retries EXCEPT ![c] = Retry]
  /\ dirty' = [dirty EXCEPT ![c] = TRUE]
  /\ UNCHANGED <<result, conn, mail, inbox, chan, sock>>

(* send() up to the poll.  After a send() that gave up, the socket refuses  *)
(* to send and _send_recv replaces it first.                                *)
ClientSend(c) ==
  /\ cpc[c] = "idle"
  /\ obj[c] < MaxSends
  /\ obj' = [obj EXCEPT ![c] = @ + 1]
  /\ IF dirty[c]
     THEN Reconnect(c, {Attempt(c, conn[c] + 1, obj[c] + 1)})
     ELSE /\ frontend' = frontend \cup {Attempt(c, conn[c], obj[c] + 1)}
          /\ UNCHANGED <<conn, mail>>
  /\ cpc' = [cpc EXCEPT ![c] = "wait"]
  /\ retries' = [retries EXCEPT ![c] = Retry]
  /\ dirty' = [dirty EXCEPT ![c] = TRUE]
  /\ UNCHANGED <<result, inbox, chan, sock>>

(* A reply is there in time: send() returns it.                             *)
ClientRecv(c) ==
  /\ cpc[c] = "wait"
  /\ mail[c] # <<>>
  /\ result' = [result EXCEPT ![c] = Head(mail[c])]
  /\ mail' = [mail EXCEPT ![c] = Tail(@)]
  /\ cpc' = [cpc EXCEPT ![c] = "idle"]
  /\ dirty' = [dirty EXCEPT ![c] = FALSE]
  /\ UNCHANGED <<obj, retries, conn, frontend, inbox, chan, sock>>

(* A slip: retrying whether or not a retry is left.                         *)
ClientRetryAlways(c) ==
  /\ "clientTimeout" \in Faults
  /\ cpc[c] = "wait"
  /\ Reconnect(c, {Attempt(c, conn[c] + 1, obj[c])})
  /\ retries' = [retries EXCEPT ![c] = @ - 1]
  /\ UNCHANGED <<cpc, obj, dirty, result, inbox, chan, sock>>

(* The poll times out and a retry is left.                                  *)
ClientRetry(c) ==
  /\ "clientTimeout" \in Faults
  /\ cpc[c] = "wait"
  /\ retries[c] > 0
  /\ Reconnect(c, {Attempt(c, conn[c] + 1, obj[c])})
  /\ retries' = [retries EXCEPT ![c] = @ - 1]
  /\ UNCHANGED <<cpc, obj, dirty, result, inbox, chan, sock>>

(* The poll times out for the last time: send() returns None and leaves the *)
(* socket as it is.                                                         *)
ClientGiveUp(c) ==
  /\ "clientTimeout" \in Faults
  /\ cpc[c] = "wait"
  /\ retries[c] = 0
  /\ result' = [result EXCEPT ![c] = None]
  /\ cpc' = [cpc EXCEPT ![c] = "idle"]
  /\ UNCHANGED <<obj, retries, dirty, wireVars>>

===========================================================================
