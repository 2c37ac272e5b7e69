--------------------------- MODULE RedisForwarder --------------------------
(***************************************************************************)
(* laika_redis_client.py: it takes the names of files off a list in Redis, *)
(* looks up what Suricata stored under two keys for each, sends the file   *)
(* to laikad through an asynchronous Client, and deletes the keys.         *)
(*                                                                         *)
(* fpc[c] is where the process is: "pop" (in blpop), "look", "parse" (the  *)
(* metadata), "send" and "sent" (in send(), before and after the object    *)
(* has been handed to the PUSH socket), "again" (in the second try of      *)
(* send()), "clean" (before delete_keys), "down" (no such process).        *)
(*                                                                         *)
(* SIGTERM and SIGINT raise SystemExit wherever the process is; the bare   *)
(* "except:" around the parsing and those in the client swallow it.        *)
(***************************************************************************)
EXTENDS LaikadWire

CONSTANT MaxFiles    \* bound: files that Suricata extracts

ASSUME MaxFilesAssumption == MaxFiles \in Nat

VARIABLES arrived,   \* how many there were
          queue,     \* the list suricata_queue
          keys,      \* files both keys of which are in Redis
          fpc,
          hand,      \* hand[c]: the file c has popped, 0 for none
          told,      \* told[c]: c was told to exit and has not
          fate       \* ghost: what has become of each file

redisVars == <<arrived, queue, keys>>
forwarderVars == <<redisVars, fpc, hand, told, fate>>

Files == 1 .. MaxFiles

(* "partial": not both keys have been stored; "sent": handed to a socket    *)
(* once; "resent": twice; "refused": send() returned False.                 *)
Fates == {"waiting", "partial", "skipped", "sent", "resent", "refused"}

ForwarderTypeOK ==
  /\ arrived \in 0 .. MaxFiles
  /\ queue \in Seq(Files)
  /\ keys \subseteq Files
  /\ fpc \in [Clients -> {"pop", "look", "parse", "send", "sent", "again", "clean", "down"}]
  /\ hand \in [Clients -> Files \cup {0}]
  /\ told \in [Clients -> BOOLEAN]
  /\ fate \in [Files -> Fates]

ForwarderInit ==
  /\ arrived = 0
  /\ queue = <<>>
  /\ keys = {}
  /\ fpc = [c \in Clients |-> "pop"]
  /\ hand = [c \in Clients |-> 0]
  /\ told = [c \in Clients |-> FALSE]
  /\ fate = [f \in Files |-> "waiting"]

MoveOn(c, label) == fpc' = [fpc EXCEPT ![c] = label]
LetGo(c) == hand' = [hand EXCEPT ![c] = 0]
Becomes(f, what) == fate' = [fate EXCEPT ![f] = what]

---------------------------------------------------------------------------
(* Suricata has extracted a file.  A key may be missing.                    *)
Arrive ==
  /\ arrived < MaxFiles
  /\ arrived' = arrived + 1
  /\ queue' = Append(queue, arrived + 1)
  /\ \/ keys' = keys \cup {arrived + 1} /\ UNCHANGED fate
     \/ Becomes(arrived + 1, "partial") /\ UNCHANGED keys
  /\ UNCHANGED <<fpc, hand, told, wireVars>>

(* A slip: the file is looked at, and taken off the list by no one.         *)
PopLeaves(c) ==
  /\ fpc[c] = "pop" /\ queue # <<>>
  /\ hand' = [hand EXCEPT ![c] = Head(queue)]
  /\ MoveOn(c, "look")
  /\ UNCHANGED <<redisVars, told, fate, wireVars>>

Pop(c) ==
  /\ fpc[c] = "pop" /\ queue # <<>>
  /\ hand' = [hand EXCEPT ![c] = Head(queue)]
  /\ queue' = Tail(queue)
  /\ MoveOn(c, "look")
  /\ UNCHANGED <<arrived, keys, told, fate, wireVars>>

(* delete_keys, and on to the next file.                                    *)
DeleteKeys(c) ==
  /\ keys' = keys \ {hand[c]}
  /\ MoveOn(c, "pop")
  /\ LetGo(c)
  /\ UNCHANGED <<arrived, queue, told>>

Skip(c) == DeleteKeys(c) /\ Becomes(hand[c], "skipped") /\ UNCHANGED wireVars

LookUp(c) ==
  /\ fpc[c] = "look"
  /\ IF hand[c] \in keys
     THEN MoveOn(c, "parse") /\ UNCHANGED <<redisVars, hand, told, fate, wireVars>>
     ELSE Skip(c)

(* A slip: the keys are deleted once they have been read.                   *)
ParseDeletes(c) ==
  /\ fpc[c] = "parse"
  /\ MoveOn(c, "send")
  /\ keys' = keys \ {hand[c]}
  /\ UNCHANGED <<arrived, queue, hand, told, fate, wireVars>>

Parse(c) ==
  /\ fpc[c] = "parse"
  /\ \/ Skip(c)                         \* not JSON
     \/ /\ MoveOn(c, "send")
        /\ UNCHANGED <<redisVars, hand, told, fate, wireVars>>

(* _send_only: there is no time-out, so that handing the object to the      *)
(* socket is all it waits for.                                              *)
Push(c) == frontend' = frontend \cup {[client |-> c, conn |-> conn[c], obj |-> hand[c]]}

Handed(f) == Becomes(f, IF fate[f] = "waiting" THEN "sent" ELSE "resent")

SendOnly(c) ==
  /\ fpc[c] = "send"
  /\ Push(c)
  /\ Handed(hand[c])
  /\ MoveOn(c, "sent")
  /\ UNCHANGED <<redisVars, hand, told, conn, mail, inbox, chan, sock>>

SendReturns(c) ==
  /\ fpc[c] = "sent"
  /\ MoveOn(c, "clean")
  /\ UNCHANGED <<redisVars, hand, told, fate, wireVars>>

SendOnlyAgain(c) ==
  /\ fpc[c] = "again"
  /\ Push(c)
  /\ Handed(hand[c])
  /\ MoveOn(c, "clean")
  /\ UNCHANGED <<redisVars, hand, told, conn, mail, inbox, chan, sock>>

(* The keys are deleted whatever send() has returned.                       *)
CleanUp(c) ==
  /\ fpc[c] = "clean"
  /\ DeleteKeys(c)
  /\ UNCHANGED <<fate, wireVars>>

---------------------------------------------------------------------------
(* The process ends.  What its socket still held may be lost.               *)
EndForwarder(c) ==
  /\ fpc[c] # "down"
  /\ MoveOn(c, "down")
  /\ LetGo(c)
  /\ told' = [told EXCEPT ![c] = FALSE]
  /\ Reconnect(c, {})
  /\ UNCHANGED <<redisVars, fate, inbox, chan, sock>>

(* The metadata does not tell of an HTTP transaction: a KeyError that       *)
(* nothing catches.                                                         *)
ParseFails(c) == fpc[c] = "parse" /\ EndForwarder(c)

ForwarderKill(c) == "forwarderKill" \in Faults /\ EndForwarder(c)

(* Swallowed in the parsing, the file counts as one that is not JSON; in    *)
(* the first try of send(), the client closes its socket, with all that has *)
(* not left it, and tries again; in the second, send() returns False.       *)
Swallowed(c) ==
  \/ fpc[c] = "parse" /\ Skip(c)
  \/ /\ fpc[c] \in {"send", "sent"}
     /\ Reconnect(c, {})
     /\ MoveOn(c, "again")
     /\ UNCHANGED <<redisVars, hand, fate, inbox, chan, sock>>
  \/ /\ fpc[c] = "again"
     /\ MoveOn(c, "clean")
     /\ \/ /\ Becomes(hand[c], IF fate[hand[c]] = "waiting" THEN "refused" ELSE fate[hand[c]])
           /\ UNCHANGED wireVars
        \/ /\ Push(c) /\ Handed(hand[c])
           /\ UNCHANGED <<conn, mail, inbox, chan, sock>>
     /\ UNCHANGED <<redisVars, hand>>

ForwarderSignal(c) ==
  /\ "forwarderSignal" \in Faults
  /\ \/ fpc[c] # "again" /\ EndForwarder(c)
     \/ Swallowed(c) /\ told' = [told EXCEPT ![c] = TRUE]

(* Somebody starts it again.                                                *)
ForwarderStart(c) ==
  /\ fpc[c] = "down"
  /\ MoveOn(c, "pop")
  /\ UNCHANGED <<redisVars, hand, told, fate, wireVars>>

ForwarderWork(c) ==
  \/ Pop(c)
  \/ LookUp(c)
  \/ Parse(c)
  \/ SendOnly(c)
  \/ SendReturns(c)
  \/ SendOnlyAgain(c)
  \/ CleanUp(c)
===========================================================================
