--------------------------- MODULE ScanService ----------------------------
(***************************************************************************)
(* What laikad promises the callers of Client.send(), with one queue and   *)
(* no processes: an object is queued, taken up once, completed once, and   *)
(* its own result is what send() returns.  A Lossy service may drop an     *)
(* object it has taken up, and its callers stop waiting and ask again.     *)
(***************************************************************************)
EXTENDS Naturals

CONSTANTS Clients, None, Lossy

VARIABLES calls,     \* calls[c]: number of calls of send() by c so far
          tries,     \* tries[c]: number of the present connection of c
          waiting,   \* the clients inside send()
          queued, running, answered,  \* attempts, by how far they have come
          returned   \* returned[c]: what the last send() of c returned

svcVars == <<calls, tries, waiting, queued, running, answered, returned>>

Current(c) == [client |-> c, conn |-> tries[c], obj |-> calls[c]]

SvcInit ==
  /\ calls = [c \in Clients |-> 0]
  /\ tries = [c \in Clients |-> 0]
  /\ waiting = {}
  /\ queued = {} /\ running = {} /\ answered = {}
  /\ returned = [c \in Clients |-> None]

(* c hands in its object, over the connection it has or over a new one,     *)
(* which takes back an earlier attempt unless that has gone through.        *)
Ask(c) ==
  /\ queued' = queued \cup {Current(c)'}
  /\ UNCHANGED <<tries, answered>>

AskAgain(c) ==
  /\ Lossy
  /\ tries' = [tries EXCEPT ![c] = @ + 1]
  /\ \E taken \in SUBSET {a \in queued : a.client = c} :
       queued' = (queued \ taken) \cup {Current(c)'}
  /\ answered' = {a \in answered : a.client # c}

Call(c) ==
  /\ c \notin waiting
  /\ calls' = [calls EXCEPT ![c] = @ + 1]
  /\ waiting' = waiting \cup {c}
  /\ Ask(c) \/ AskAgain(c)
  /\ UNCHANGED <<running, returned>>

Repeat(c) ==
  /\ c \in waiting
  /\ AskAgain(c)
  /\ UNCHANGED <<calls, waiting, running, returned>>

GiveUp(c) ==
  /\ Lossy
  /\ c \in waiting
  /\ waiting' = waiting \ {c}
  /\ returned' = [returned EXCEPT ![c] = None]
  /\ UNCHANGED <<calls, tries, queued, running, answered>>

Start(a) ==
  /\ a \in queued
  /\ queued' = queued \ {a}
  /\ running' = running \cup {a} \/ (Lossy /\ UNCHANGED running)
  /\ UNCHANGED <<calls, tries, waiting, answered, returned>>

(* Only the present attempt of a client finds it.                           *)
Complete(a) ==
  /\ a \in running
  /\ running' = running \ {a}
  /\ answered' = IF a = Current(a.client) THEN answered \cup {a} ELSE answered
  /\ UNCHANGED <<calls, tries, waiting, queued, returned>>

Lose ==
  /\ Lossy
  /\ running' \in SUBSET running
  /\ UNCHANGED <<calls, tries, waiting, queued, answered, returned>>

Return(c) ==
  /\ c \in waiting
  /\ Current(c) \in answered
  /\ waiting' = waiting \ {c}
  /\ answered' = answered \ {Current(c)}
  /\ returned' = [returned EXCEPT ![c] = Current(c)]
  /\ UNCHANGED <<calls, tries, queued, running>>

SvcNext ==
  \/ \E c \in Clients : Call(c) \/ Repeat(c) \/ GiveUp(c) \/ Return(c)
  \/ \E a \in queued : Start(a)
  \/ \E a \in running : Complete(a)
  \/ Lose

SvcSpec == SvcInit /\ [][SvcNext]_svcVars
===========================================================================
