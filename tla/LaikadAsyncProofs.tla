------------------------- MODULE LaikadAsyncProofs ------------------------
(***************************************************************************)
(* What holds of laikad with asynchronous clients (module LaikadAsync), for *)
(* every pool, every number of forwarders and files and every combination  *)
(* of faults.                                                              *)
(***************************************************************************)
EXTENDS LaikadAsync, WorkerLemmas

(* A worker that has not yet said READY is not known to the broker.         *)
BootFresh ==
  \A w \in Workers : pc[w] = "boot" => chan[w] = <<>> /\ ~Contains(avail, w)

IInv ==
  /\ TypeOK
  /\ HeldWhileScanning
  /\ ItemsLeft
  /\ Sockets
  /\ BootFresh
  /\ BoundedBacklog
  /\ broker = "down" => avail = <<>>

---------------------------------------------------------------------------
(* The four parts of a backlog are numbers.                                 *)
LEMMA BacklogParts ==
  ASSUME QueuesOK, NEW w \in Workers
  PROVE  /\ Len(inbox[w]) \in Nat /\ Holds(w) \in {0, 1}
         /\ Unread(w) \in Nat /\ Unread(w) <= Len(chan[w]) /\ Len(chan[w]) \in Nat
         /\ Listed(w) \in {0, 1}
         /\ held[w] = None <=> Holds(w) = 0
         /\ Contains(avail, w) <=> Listed(w) = 1
<1>1. inbox[w] \in Seq(Task) /\ chan[w] \in Seq(WorkerMsg)
  BY DEF QueuesOK
<1>2. Len(inbox[w]) \in Nat /\ Len(chan[w]) \in Nat
  BY <1>1, LenProperties
<1>3. Unread(w) \in Nat /\ Unread(w) <= Len(chan[w])
  <2>1. WithStatus(chan[w], Readies) \in SUBSET (1 .. Len(chan[w]))
    BY <1>1, StatusPlaces
  <2>2. IsFiniteSet(1 .. Len(chan[w])) /\ Cardinality(1 .. Len(chan[w])) = Len(chan[w])
    BY <1>2, FS_Interval
  <2>3. Cardinality(WithStatus(chan[w], Readies)) <= Cardinality(1 .. Len(chan[w]))
    BY <2>1, <2>2, FS_Subset
  <2> QED BY <1>1, <2>2, <2>3, StatusPlaces DEF Unread
<1> QED BY <1>2, <1>3 DEF Holds, Listed

(* It does not grow when the worker, or the broker, loses something.        *)
LEMMA BacklogFalls ==
  ASSUME QueuesOK, QueuesOK', NEW w \in Workers, Loses(w),
         Contains(avail', w) => Contains(avail, w)
  PROVE  Backlog(w)' <= Backlog(w)
<1>1. inbox[w] \in Seq(Task) /\ chan[w] \in Seq(WorkerMsg)
  BY DEF QueuesOK
<1>2. inbox'[w] \in Seq(Task) /\ chan'[w] \in Seq(WorkerMsg)
  BY DEF QueuesOK
<1>3. Len(inbox'[w]) <= Len(inbox[w])
  BY <1>1, <1>2, WindowSubset DEF Loses
<1>4. Cardinality(WithStatus(chan'[w], Readies)) <= Cardinality(WithStatus(chan[w], Readies))
  <2>1. Drops(chan'[w], chan[w], Readies)
    BY <1>1, <1>2, WindowDrops DEF Loses
  <2> QED BY <1>1, <1>2, <2>1, DropsCount
<1>5. Unread(w)' <= Unread(w)
  BY <1>4 DEF Unread
<1>6. Holds(w)' <= Holds(w)
  BY DEF Holds, Loses
<1>7. Listed(w)' <= Listed(w)
  BY DEF Listed
<1>8. /\ Len(inbox[w]) \in Nat /\ Holds(w) \in {0, 1} /\ Unread(w) \in Nat
      /\ Listed(w) \in {0, 1}
  BY BacklogParts
<1>9. Holds(w)' \in {0, 1} /\ Listed(w)' \in {0, 1}
  BY DEF Holds, Listed
<1>10. Len(inbox'[w]) \in Nat
  BY <1>2, LenProperties
<1>11. Unread(w)' \in Nat
  <2>1. Cardinality(WithStatus(chan'[w], Readies)) \in Nat
    BY <1>2, StatusPlaces
  <2> QED BY <2>1 DEF Unread
<1>12. Backlog(w)' = Len(inbox'[w]) + Holds(w)' + Unread(w)' + Listed(w)'
  BY DEF Backlog
<1> QED BY <1>3, <1>5, <1>6, <1>7, <1>8, <1>9, <1>10, <1>11, <1>12, SMTT(30) DEF Backlog

(* Work moves a task from one part to another.                              *)
LEMMA BacklogWorks ==
  ASSUME QueuesOK, NEW w \in Workers, Works(w), avail' = avail
  PROVE  Backlog(w)' = Backlog(w)
<1>1. inbox[w] \in Seq(Task) /\ chan[w] \in Seq(WorkerMsg)
  BY DEF QueuesOK
<1>2. /\ Len(inbox[w]) \in Nat /\ Holds(w) \in {0, 1} /\ Unread(w) \in Nat
      /\ Listed(w) \in {0, 1} /\ Listed(w)' = Listed(w)
      /\ held[w] = None <=> Holds(w) = 0
  BY BacklogParts DEF Listed
<1>3. Backlog(w)' = Len(inbox'[w]) + Holds(w)' + Unread(w)' + Listed(w)'
  BY DEF Backlog
<1>4. CASE TakesUp(w)
  <2>1. Head(inbox[w]) \in Task /\ Len(inbox'[w]) = Len(inbox[w]) - 1 /\ Unread(w)' = Unread(w)
    BY <1>1, <1>4, HeadTailProperties DEF TakesUp, Unread
  <2>2. Holds(w) = 0 /\ Holds(w)' = 1
    BY <1>4, <2>1, NoneAssumption DEF TakesUp, Holds
  <2> QED BY <1>2, <1>3, <2>1, <2>2 DEF Backlog
<1>5. ASSUME NEW m \in WorkerMsg, Completes(w, m) PROVE Backlog(w)' = Backlog(w)
  <2>1. Cardinality(WithStatus(Append(chan[w], m), Readies)) =
          Cardinality(WithStatus(chan[w], Readies)) + (IF m.status \in Readies THEN 1 ELSE 0)
    BY <1>1, StatusAppend
  <2>2. m.status \in Readies
    BY <1>5 DEF Completes, ResultStatus, Readies
  <2>3. Unread(w)' = Unread(w) + 1
    BY <1>5, <2>1, <2>2 DEF Completes, Unread
  <2>4. Holds(w) = 1 /\ Holds(w)' = 0 /\ inbox'[w] = inbox[w]
    BY <1>5 DEF Completes, Holds
  <2> QED BY <1>2, <1>3, <2>3, <2>4, SMTT(30) DEF Backlog
<1> QED BY <1>4, <1>5 DEF Works

(* A worker says READY when it has nothing to do and is not too far ahead.  *)
LEMMA BacklogSays ==
  ASSUME QueuesOK, HeldWhileScanning, Sockets, BootFresh,
         NEW w \in Workers, Boot(w) \/ PollTimeout(w), avail' = avail
  PROVE  Backlog(w)' <= MaxChan + 1
<1>1. chan[w] \in Seq(WorkerMsg) /\ MaxChan \in Nat
  BY MaxChanAssumption DEF QueuesOK
<1>2. PICK m \in WorkerMsg : chan'[w] = Append(chan[w], m)
  BY SayEffect DEF Says
<1>3. inbox'[w] = <<>> /\ held'[w] = None
  BY SayEffect DEF Says, Boot, PollTimeout, HeldWhileScanning, Scanning, Sockets
<1>4. Cardinality(WithStatus(Append(chan[w], m), Readies)) =
        Cardinality(WithStatus(chan[w], Readies)) + (IF m.status \in Readies THEN 1 ELSE 0)
  BY <1>1, StatusAppend
<1>5. /\ Unread(w) \in Nat /\ Unread(w) <= Len(chan[w]) /\ Len(chan[w]) \in Nat
      /\ Listed(w) \in {0, 1} /\ Listed(w)' = Listed(w)
  BY BacklogParts DEF Listed
<1>6. Unread(w)' \in Nat /\ Unread(w)' <= Unread(w) + 1
  <2>1. CASE m.status \in Readies
    BY <1>2, <1>4, <1>5, <2>1 DEF Unread
  <2>2. CASE m.status \notin Readies
    BY <1>2, <1>4, <1>5, <2>2 DEF Unread
  <2> QED BY <2>1, <2>2
<1>7. Len(inbox'[w]) = 0 /\ Holds(w)' = 0
  BY <1>3, EmptySeq DEF Holds
<1>8. Backlog(w)' = Len(inbox'[w]) + Holds(w)' + Unread(w)' + Listed(w)'
  BY DEF Backlog
<1>9. CASE Boot(w)
  <2>1. Len(chan[w]) = 0 /\ Listed(w) = 0
    BY <1>9, EmptySeq DEF Boot, BootFresh, Listed
  <2> QED BY <1>1, <1>5, <1>6, <1>7, <1>8, <2>1
<1>10. CASE PollTimeout(w)
  <2>1. Len(chan[w]) < MaxChan
    BY <1>10 DEF PollTimeout
  <2> QED BY <1>1, <1>5, <1>6, <1>7, <1>8, <2>1
<1> QED BY <1>9, <1>10

(* Workers that nothing happens to.                                         *)
LEMMA BacklogSame ==
  ASSUME QueuesOK, NEW w \in Workers, Same(w), Contains(avail', w) => Contains(avail, w)
  PROVE  Backlog(w)' <= Backlog(w)
<1>1. inbox'[w] = inbox[w] /\ Holds(w)' = Holds(w) /\ Unread(w)' = Unread(w)
  BY DEF Same, Holds, Unread
<1>2. Listed(w)' <= Listed(w) /\ Listed(w)' \in {0, 1}
  BY DEF Listed
<1>3. /\ Len(inbox[w]) \in Nat /\ Holds(w) \in {0, 1} /\ Unread(w) \in Nat
      /\ Listed(w) \in {0, 1}
  BY BacklogParts
<1>4. Backlog(w)' = Len(inbox'[w]) + Holds(w)' + Unread(w)' + Listed(w)'
  BY DEF Backlog
<1> QED BY <1>1, <1>2, <1>3, <1>4 DEF Backlog

---------------------------------------------------------------------------
(* The broker's list.                                                       *)
LEMMA ListEffect ==
  ASSUME NEW w \in Workers, avail \in Seq(Workers), IsInjective(avail)
  PROVE  /\ List(w) \in Seq(Workers) /\ IsInjective(List(w))
         /\ \A v : Contains(List(w), v) => Contains(avail, v) \/ v = w
<1>1. CASE Contains(avail, w)
  BY <1>1 DEF List
<1>2. CASE ~Contains(avail, w)
  <2>1. /\ Append(avail, w) \in Seq(Workers) /\ IsInjective(Append(avail, w))
        /\ ToSet(Append(avail, w)) = ToSet(avail) \cup {w}
    BY <1>2, AppendFresh
  <2>2. \A v : Contains(Append(avail, w), v) => Contains(avail, v) \/ v = w
    BY <2>1, ContainsIsMember
  <2> QED BY <1>2, <2>1, <2>2 DEF List
<1> QED BY <1>1, <1>2

(* Taking a worker off the list lists no other.                             *)
LEMMA UnlistEffect ==
  ASSUME NEW w, avail \in Seq(Workers), IsInjective(avail)
  PROVE  /\ RemoveFirst(avail, w) \in Seq(Workers) /\ IsInjective(RemoveFirst(avail, w))
         /\ \A v : Contains(RemoveFirst(avail, w), v) => Contains(avail, v)
<1>1. /\ RemoveFirst(avail, w) \in Seq(Workers) /\ IsInjective(RemoveFirst(avail, w))
      /\ ToSet(RemoveFirst(avail, w)) = ToSet(avail) \ {w}
  BY RemoveFromInjective
<1> QED BY <1>1, ContainsIsMember

(* The types of the queues, from the invariant.                             *)
LEMMA InvQueues == IInv => QueuesOK /\ WorkerPart
BY DEF IInv, TypeOK, WireTypeOK, WorkerTypeOK, QueuesOK, WorkerPart

(* The task goes to the worker that heads the list, if that still has a     *)
(* socket, and the worker leaves the list.                                  *)
LEMMA ForwardEffect ==
  ASSUME IInv, NEW t \in frontend, ForwardTask(t), UNCHANGED held
  PROVE  /\ avail' \in Seq(Workers) /\ IsInjective(avail')
         /\ \A v : Contains(avail', v) => Contains(avail, v)
         /\ \E w \in Workers :
              /\ Contains(avail, w) /\ ~Contains(avail', w)
              /\ \A v \in Workers \ {w} : Same(v)
              /\ Same(w) \/ (w \in sock /\ Gets(w, t))
<1>0. /\ avail \in Seq(Workers) /\ avail # <<>> /\ IsInjective(avail)
      /\ t \in Task /\ QueuesOK
  BY InvQueues DEF IInv, TypeOK, WireTypeOK, BrokerTypeOK, BoundedBacklog, ForwardTask
<1>1. /\ Head(avail) \in Workers /\ Head(avail) \in ToSet(avail)
      /\ Tail(avail) \in Seq(Workers) /\ IsInjective(Tail(avail))
      /\ ToSet(Tail(avail)) = ToSet(avail) \ {Head(avail)}
  BY <1>0, TailOfInjective
<1>2. PICK w \in Workers : w = Head(avail)
  BY <1>1
<1>3. /\ avail' = Tail(avail) /\ chan' = chan
      /\ inbox' = IF w \in sock THEN [inbox EXCEPT ![w] = Append(@, t)] ELSE inbox
  BY <1>2 DEF ForwardTask, SendToWorker
<1>4. /\ \A v : Contains(avail', v) => Contains(avail, v)
      /\ Contains(avail, w) /\ ~Contains(avail', w)
  BY <1>0, <1>1, <1>2, <1>3, ContainsIsMember
<1>5. /\ \A v \in Workers \ {w} : Same(v)
      /\ Same(w) \/ (w \in sock /\ Gets(w, t))
  BY <1>0, <1>3 DEF QueuesOK, Same, Gets
<1> QED BY <1>1, <1>3, <1>4, <1>5

(* The broker hears a worker out, and lists it or not.                      *)
LEMMA StatusEffect ==
  ASSUME IInv, NEW w \in Workers, OnWorkerStatus(w), UNCHANGED held
  PROVE  /\ avail' \in Seq(Workers) /\ IsInjective(avail')
         /\ \A v : Contains(avail', v) => Contains(avail, v) \/ v = w
         /\ Contains(avail', w) /\ ~Contains(avail, w) => Head(chan[w]).status \in Readies
         /\ \A v \in Workers \ {w} : Same(v)
         /\ chan[w] # <<>> /\ chan'[w] = Tail(chan[w])
         /\ inbox'[w] = inbox[w] /\ held'[w] = held[w]
         /\ UNCHANGED <<conn, frontend, mail, inbox, sock>>
<1>0. avail \in Seq(Workers) /\ IsInjective(avail) /\ QueuesOK
  BY InvQueues DEF IInv, TypeOK, BrokerTypeOK, BoundedBacklog
<1>1. CASE Head(chan[w]).status \in {"READY", "RESULT_READY"}
  <2>1. avail' = List(w)
    BY <1>1 DEF OnWorkerStatus
  <2> QED BY <1>0, <1>1, <2>1, ListEffect DEF OnWorkerStatus, QueuesOK, Same, Readies
<1>2. CASE Head(chan[w]).status \notin {"READY", "RESULT_READY"}
  <2>1. avail' = RemoveFirst(avail, w)
    BY <1>2 DEF OnWorkerStatus
  <2> QED BY <1>0, <2>1, UnlistEffect DEF OnWorkerStatus, QueuesOK, Same
<1> QED BY <1>1, <1>2

(* What that does to the backlog of the worker.                             *)
LEMMA BacklogHears ==
  ASSUME IInv, NEW w \in Workers, OnWorkerStatus(w), UNCHANGED held
  PROVE  Backlog(w)' <= Backlog(w)
<1>0. QueuesOK /\ chan[w] \in Seq(WorkerMsg)
  BY InvQueues DEF QueuesOK
<1>1. /\ chan[w] # <<>> /\ chan'[w] = Tail(chan[w])
      /\ inbox'[w] = inbox[w] /\ held'[w] = held[w]
      /\ Contains(avail', w) /\ ~Contains(avail, w) => Head(chan[w]).status \in Readies
  BY StatusEffect
<1>2. /\ Tail(chan[w]) \in Seq(WorkerMsg)
      /\ Cardinality(WithStatus(chan[w], Readies)) =
           Cardinality(WithStatus(Tail(chan[w]), Readies))
             + (IF Head(chan[w]).status \in Readies THEN 1 ELSE 0)
  BY <1>0, <1>1, StatusTail
<1>3. Unread(w)' = Cardinality(WithStatus(Tail(chan[w]), Readies)) /\ Unread(w)' \in Nat
  BY <1>1, <1>2, StatusPlaces DEF Unread
<1>4. /\ Len(inbox[w]) \in Nat /\ Holds(w) \in {0, 1} /\ Unread(w) \in Nat
      /\ Listed(w) \in {0, 1} /\ (Contains(avail, w) <=> Listed(w) = 1)
  BY <1>0, BacklogParts
<1>5. Len(inbox'[w]) = Len(inbox[w]) /\ Holds(w)' = Holds(w)
  BY <1>1 DEF Holds
<1>6. Listed(w)' \in {0, 1} /\ (Contains(avail', w) <=> Listed(w)' = 1)
  BY DEF Listed
<1>7. Backlog(w)' = Len(inbox'[w]) + Holds(w)' + Unread(w)' + Listed(w)'
  BY DEF Backlog
<1>8. CASE Head(chan[w]).status \in Readies
  <2>1. Unread(w) = Unread(w)' + 1
    BY <1>2, <1>3, <1>8 DEF Unread
  <2> QED BY <1>3, <1>4, <1>5, <1>6, <1>7, <2>1 DEF Backlog
<1>9. CASE Head(chan[w]).status \notin Readies
  <2>1. Unread(w) = Unread(w)'
    BY <1>2, <1>3, <1>9 DEF Unread
  <2>2. Listed(w)' <= Listed(w)
    BY <1>1, <1>4, <1>6, <1>9
  <2> QED BY <1>3, <1>4, <1>5, <1>6, <1>7, <2>1, <2>2 DEF Backlog
<1> QED BY <1>8, <1>9

(* A worker that is given a task is off the list.                           *)
LEMMA BacklogGets ==
  ASSUME QueuesOK, NEW w \in Workers, NEW t \in Task, Same(w) \/ Gets(w, t),
         Contains(avail, w), ~Contains(avail', w)
  PROVE  Backlog(w)' <= Backlog(w)
<1>1. inbox[w] \in Seq(Task)
  BY DEF QueuesOK
<1>2. Len(Append(inbox[w], t)) = Len(inbox[w]) + 1
  BY <1>1, AppendProperties
<1>3. /\ Len(inbox'[w]) \in {Len(inbox[w]), Len(inbox[w]) + 1}
      /\ Holds(w)' = Holds(w) /\ Unread(w)' = Unread(w)
  BY <1>2 DEF Same, Gets, Holds, Unread
<1>4. Listed(w)' = 0 /\ Listed(w) = 1
  BY DEF Listed
<1>5. Len(inbox[w]) \in Nat /\ Holds(w) \in {0, 1} /\ Unread(w) \in Nat
  BY BacklogParts
<1>6. Backlog(w)' = Len(inbox'[w]) + Holds(w)' + Unread(w)' + Listed(w)'
  BY DEF Backlog
<1> QED BY <1>3, <1>4, <1>5, <1>6, SMTT(30) DEF Backlog

---------------------------------------------------------------------------
(* What forwarders do to the types of the variables; they leave workers and *)
(* the broker's list alone.                                                 *)
LEMMA PushType ==
  ASSUME WireTypeOK, ForwarderTypeOK, NEW c \in Clients, Push(c)
  PROVE  frontend' \subseteq Task
<1>1. conn[c] \in Nat /\ hand[c] \in Nat
  BY MaxFilesAssumption DEF WireTypeOK, ForwarderTypeOK, Files
<1>2. [client |-> c, conn |-> conn[c], obj |-> hand[c]] \in Task
  BY <1>1 DEF Task
<1> QED BY <1>2 DEF Push, WireTypeOK

(* What a forwarder and Suricata do leaves the types, and the workers.      *)
LEMMA ForwarderType ==
  ASSUME WireTypeOK, ForwarderTypeOK, Suricata \/ \E c \in Clients : ForwarderStep(c)
  PROVE  WireTypeOK' /\ ForwarderTypeOK' /\ UNCHANGED <<inbox, chan, sock>>
<1> USE DEF MoveOn, LetGo, Becomes, redisVars, wireVars
<1>1. CASE Suricata
  <2>1. arrived + 1 \in Files /\ arrived' \in 0 .. MaxFiles
    BY <1>1, MaxFilesAssumption DEF Suricata, Arrive, ForwarderTypeOK, Files
  <2>2. Append(queue, arrived + 1) \in Seq(Files)
    BY <2>1, AppendProperties DEF ForwarderTypeOK
  <2> QED BY <1>1, <2>1, <2>2 DEF Suricata, Arrive, WireTypeOK, ForwarderTypeOK, Fates
<1>2. ASSUME NEW c \in Clients, ForwarderStep(c)
      PROVE  WireTypeOK' /\ ForwarderTypeOK' /\ UNCHANGED <<inbox, chan, sock>>
  <2>1. hand[c] \in Files \cup {0}
    BY DEF ForwarderTypeOK
  <2>2. ASSUME DeleteKeys(c), UNCHANGED wireVars, \E what \in Fates : fate' = fate \/ Becomes(hand[c], what)
        PROVE  WireTypeOK' /\ ForwarderTypeOK' /\ UNCHANGED <<inbox, chan, sock>>
    BY <2>2 DEF DeleteKeys, WireTypeOK, ForwarderTypeOK
  <2>3. ASSUME Skip(c) PROVE WireTypeOK' /\ ForwarderTypeOK' /\ UNCHANGED <<inbox, chan, sock>>
    BY <2>2, <2>3 DEF Skip, Fates
  <2>4. ASSUME EndForwarder(c) PROVE WireTypeOK' /\ ForwarderTypeOK' /\ UNCHANGED <<inbox, chan, sock>>
    <3>1. {} \in SUBSET Task
      OBVIOUS
    <3>2. WireTypeOK'
      BY <2>4, <3>1, ReconnectType DEF EndForwarder, WireTypeOK
    <3> QED BY <2>4, <3>2 DEF EndForwarder, ForwarderTypeOK
  <2>5. ASSUME Handed(hand[c]) PROVE fate' \in [Files -> Fates]
    BY <2>5 DEF Handed, ForwarderTypeOK, Fates
  <2>6. ASSUME Push(c), UNCHANGED <<conn, mail, inbox, chan, sock>> PROVE WireTypeOK'
    BY <2>6, PushType DEF WireTypeOK
  <2>7. CASE Pop(c)
    <3>1. Head(queue) \in Files /\ Tail(queue) \in Seq(Files)
      BY <2>7, HeadTailProperties DEF Pop, ForwarderTypeOK
    <3> QED BY <2>7, <3>1 DEF Pop, WireTypeOK, ForwarderTypeOK
  <2>8. CASE LookUp(c)
    BY <2>3, <2>8 DEF LookUp, WireTypeOK, ForwarderTypeOK
  <2>9. CASE Parse(c)
    BY <2>3, <2>9 DEF Parse, WireTypeOK, ForwarderTypeOK
  <2>10. CASE SendOnly(c) \/ SendOnlyAgain(c)
    BY <2>5, <2>6, <2>10 DEF SendOnly, SendOnlyAgain, ForwarderTypeOK
  <2>11. CASE SendReturns(c)
    BY <2>11 DEF SendReturns, WireTypeOK, ForwarderTypeOK
  <2>12. CASE CleanUp(c)
    BY <2>2, <2>12 DEF CleanUp, Fates
  <2>13. CASE ParseFails(c) \/ ForwarderKill(c)
    BY <2>4, <2>13 DEF ParseFails, ForwarderKill
  <2>14. CASE ForwarderSignal(c)
    <3>1. ASSUME told' = [told EXCEPT ![c] = TRUE] PROVE told' \in [Clients -> BOOLEAN]
      BY <3>1 DEF ForwarderTypeOK
    <3>2. CASE Skip(c) /\ told' = [told EXCEPT ![c] = TRUE]
      BY <2>3, <3>2
    <3>3. CASE Reconnect(c, {}) /\ MoveOn(c, "again") /\ told' = [told EXCEPT ![c] = TRUE]
               /\ UNCHANGED <<redisVars, hand, fate, inbox, chan, sock>>
      <4>1. {} \in SUBSET Task
        OBVIOUS
      <4>2. WireTypeOK'
        BY <3>3, <4>1, ReconnectType DEF WireTypeOK
      <4> QED BY <3>1, <3>3, <4>2 DEF ForwarderTypeOK
    <3>4. CASE /\ MoveOn(c, "clean") /\ UNCHANGED <<redisVars, hand, wireVars>>
               /\ told' = [told EXCEPT ![c] = TRUE]
               /\ Becomes(hand[c], IF fate[hand[c]] = "waiting" THEN "refused" ELSE fate[hand[c]])
      <4>1. fate' \in [Files -> Fates]
        BY <3>4 DEF ForwarderTypeOK, Fates
      <4> QED BY <3>1, <3>4, <4>1 DEF WireTypeOK, ForwarderTypeOK
    <3>5. CASE /\ MoveOn(c, "clean") /\ UNCHANGED <<redisVars, hand>>
               /\ told' = [told EXCEPT ![c] = TRUE]
               /\ Push(c) /\ Handed(hand[c]) /\ UNCHANGED <<conn, mail, inbox, chan, sock>>
      BY <2>5, <2>6, <3>1, <3>5 DEF ForwarderTypeOK
    <3>6. EndForwarder(c) \/ (Swallowed(c) /\ told' = [told EXCEPT ![c] = TRUE])
      BY <2>14 DEF ForwarderSignal
    <3> QED BY <2>4, <3>2, <3>3, <3>4, <3>5, <3>6 DEF Swallowed
  <2>15. CASE ForwarderStart(c)
    BY <2>15 DEF ForwarderStart, WireTypeOK, ForwarderTypeOK
  <2> QED BY <1>2, <2>7, <2>8, <2>9, <2>10, <2>11, <2>12, <2>13, <2>14, <2>15
          DEF ForwarderStep, ForwarderWork
<1> QED BY <1>1, <1>2

---------------------------------------------------------------------------
(* The invariant holds at first.                                            *)
LEMMA InitInv == Init => IInv
<1> SUFFICES ASSUME Init PROVE IInv
  OBVIOUS
<1> USE DEF Init
<1>1. \A S : <<>> \in Seq(S) /\ Len(<<>>) = 0
  BY EmptySeq
<1>2. WireTypeOK /\ BrokerTypeOK /\ SupTypeOK
  BY <1>1 DEF WireInit, BrokerInit, SupInit, WireTypeOK, BrokerTypeOK, SupTypeOK
<1>3. ForwarderTypeOK
  BY <1>1, MaxFilesAssumption DEF ForwarderInit, ForwarderTypeOK, Fates
<1>4. WorkerTypeOK /\ HeldWhileScanning
  BY DEF WorkerInit, WorkerTypeOK, HeldWhileScanning, Scanning
<1>5. ItemsLeft /\ Sockets
  BY MaxItemsAssumption DEF WireInit, WorkerInit, ItemsLeft, Sockets
<1>6. ASSUME NEW w \in Workers PROVE ~Contains(avail, w)
  BY DEF BrokerInit, Contains
<1>7. BootFresh
  BY <1>6 DEF WireInit, BootFresh
<1>8. ASSUME NEW w \in Workers PROVE Backlog(w) <= MaxChan + 1
  <2>1. inbox[w] = <<>> /\ held[w] = None /\ chan[w] = <<>>
    BY DEF WireInit, WorkerInit
  <2>2. QueuesOK
    BY <1>2, <1>4 DEF WireTypeOK, WorkerTypeOK, QueuesOK
  <2>3. Len(inbox[w]) = 0 /\ Holds(w) = 0 /\ Listed(w) = 0 /\ Len(chan[w]) = 0
    BY <1>1, <1>6, <2>1 DEF Holds, Listed
  <2>4. Unread(w) = 0
    BY <2>2, <2>3, BacklogParts
  <2> QED BY <2>3, <2>4, MaxChanAssumption DEF Backlog
<1>9. IsInjective(avail)
  BY DEF BrokerInit, IsInjective
<1> QED BY <1>2, <1>3, <1>4, <1>5, <1>7, <1>8, <1>9
        DEF IInv, TypeOK, BoundedBacklog, BrokerInit

(* Steps after which no worker is listed that was not, and no backlog has   *)
(* grown.                                                                   *)
LEMMA Bounded ==
  ASSUME IInv, IsInjective(avail'),
         \A w \in Workers : Backlog(w)' <= Backlog(w) \/ Backlog(w)' <= MaxChan + 1,
         \A w \in Workers : Backlog(w)' \in Nat
  PROVE  BoundedBacklog'
<1>1. ASSUME NEW w \in Workers PROVE Backlog(w)' <= MaxChan + 1
  <2>1. Backlog(w) <= MaxChan + 1 /\ Backlog(w) \in Nat
    BY InvQueues, BacklogParts DEF IInv, BoundedBacklog, Backlog
  <2> QED BY <2>1, MaxChanAssumption
<1> QED BY <1>1 DEF BoundedBacklog

(* A backlog is a number.                                                   *)
LEMMA BacklogNatNext ==
  ASSUME QueuesOK'
  PROVE  \A w \in Workers : Backlog(w)' \in Nat
<1>1. ASSUME NEW w \in Workers PROVE Backlog(w)' \in Nat
  <2>1. inbox'[w] \in Seq(Task) /\ chan'[w] \in Seq(WorkerMsg)
    BY DEF QueuesOK
  <2>2. Len(inbox'[w]) \in Nat /\ Cardinality(WithStatus(chan'[w], Readies)) \in Nat
    BY <2>1, LenProperties, StatusPlaces
  <2>3. Holds(w)' \in {0, 1} /\ Listed(w)' \in {0, 1}
    BY DEF Holds, Listed
  <2>4. Backlog(w)' = Len(inbox'[w]) + Holds(w)' + Cardinality(WithStatus(chan'[w], Readies)) + Listed(w)'
    BY DEF Backlog, Unread
  <2> QED BY <2>2, <2>3, <2>4
<1> QED BY <1>1

(* The broker ends: of itself, or killed by the supervisor at the end.      *)
LEMMA StopInv ==
  ASSUME IInv, StopBroker, UNCHANGED <<workerVars, forwarderVars, procs>>, SupTypeOK'
  PROVE  IInv'
<1>0. QueuesOK /\ UNCHANGED <<pc, held, count, stop, sock>>
  BY InvQueues DEF StopBroker, workerVars
<1>1. ItemsLeft' /\ HeldWhileScanning' /\ WorkerTypeOK' /\ ForwarderTypeOK'
  BY <1>0 DEF IInv, TypeOK, ItemsLeft, HeldWhileScanning, WorkerTypeOK, ForwarderTypeOK,
              forwarderVars, redisVars
<1>2. avail' = <<>> /\ avail' \in Seq(Workers) /\ IsInjective(avail') /\ broker' = "down"
  BY EmptySeq DEF StopBroker, IsInjective
<1>3. \A v : ~Contains(avail', v)
  BY <1>2, EmptySeq DEF Contains
<1>4. TypeOK'
  BY <1>1, <1>2, LoseBrokerType DEF StopBroker, IInv, TypeOK, WireTypeOK, BrokerTypeOK
<1>5. QueuesOK'
  BY <1>4 DEF TypeOK, WireTypeOK, WorkerTypeOK, QueuesOK
<1>6. \A w \in Workers : Loses(w)
  BY <1>0, LoseBrokerLoses DEF StopBroker
<1>7. \A w \in Workers : Backlog(w)' <= Backlog(w)
  BY <1>0, <1>3, <1>5, <1>6, BacklogFalls
<1>8. BoundedBacklog'
  BY <1>2, <1>5, <1>7, Bounded, BacklogNatNext
<1>9. Sockets'
  BY <1>0, LoseBrokerSockets DEF StopBroker, IInv
<1>10. ASSUME NEW w \in Workers, pc'[w] = "boot" PROVE chan'[w] = <<>>
  <2>1. chan[w] = <<>> /\ w \notin sock
    BY <1>0, <1>10 DEF IInv, BootFresh, Sockets
  <2> QED BY <2>1 DEF StopBroker, LoseBroker
<1>11. BootFresh'
  BY <1>3, <1>10 DEF BootFresh
<1> QED BY <1>1, <1>2, <1>4, <1>8, <1>9, <1>11 DEF IInv

(* Whatever the broker does keeps the invariant,                            *)
LEMMA BrokerInv ==
  ASSUME IInv, BrokerStep
  PROVE  IInv'
<1>0. QueuesOK /\ WorkerPart /\ UNCHANGED <<pc, held, count, stop, supVars>> /\ UNCHANGED forwarderVars
  BY InvQueues DEF BrokerStep, workerVars
<1>1. ItemsLeft' /\ HeldWhileScanning' /\ WorkerTypeOK' /\ SupTypeOK' /\ ForwarderTypeOK'
  BY <1>0 DEF IInv, TypeOK, ItemsLeft, HeldWhileScanning, WorkerTypeOK, SupTypeOK, ForwarderTypeOK,
              supVars, forwarderVars, redisVars
<1>2. ASSUME NEW t \in frontend, ForwardTask(t) PROVE IInv'
  <2>1. /\ t \in Task /\ broker' = broker /\ broker = "run"
        /\ UNCHANGED <<conn, mail, chan, sock>> /\ frontend' \subseteq frontend
    BY <1>2 DEF ForwardTask, IInv, TypeOK, WireTypeOK
  <2>2. /\ avail' \in Seq(Workers) /\ IsInjective(avail')
        /\ \A v : Contains(avail', v) => Contains(avail, v)
    BY <1>0, <1>2, ForwardEffect
  <2>3. PICK w \in Workers : /\ Contains(avail, w) /\ ~Contains(avail', w)
                             /\ \A v \in Workers \ {w} : Same(v)
                             /\ Same(w) \/ (w \in sock /\ Gets(w, t))
    BY <1>0, <1>2, ForwardEffect
  <2>4. /\ inbox' \in [Workers -> Seq(Task)]
        /\ \A v \in Workers \ sock : inbox'[v] = inbox[v]
    <3>1. Head(avail) \in Workers
      BY <1>2, HeadTailProperties DEF ForwardTask, IInv, TypeOK, BrokerTypeOK
    <3> QED BY <1>2, <2>1, <3>1, SendToWorkerType DEF ForwardTask, SendToWorker, IInv, TypeOK, WireTypeOK
  <2>5. TypeOK'
    BY <1>1, <2>1, <2>2, <2>4 DEF IInv, TypeOK, WireTypeOK, BrokerTypeOK
  <2>6. Sockets' /\ BootFresh'
    BY <1>0, <2>1, <2>2, <2>4 DEF IInv, Sockets, BootFresh
  <2>7. \A v \in Workers : Backlog(v)' <= Backlog(v)
    BY <1>0, <2>1, <2>2, <2>3, BacklogSame, BacklogGets
  <2>8. BoundedBacklog'
    <3>1. QueuesOK'
      BY <2>5 DEF TypeOK, WireTypeOK, WorkerTypeOK, QueuesOK
    <3> QED BY <2>2, <2>7, <3>1, Bounded, BacklogNatNext
  <2> QED BY <1>1, <2>1, <2>5, <2>6, <2>8 DEF IInv
<1>3. ASSUME NEW w \in Workers, OnWorkerStatus(w) PROVE IInv'
  <2>1. /\ broker' = broker /\ broker = "run" /\ UNCHANGED <<conn, frontend, mail, inbox, sock>>
    BY <1>3 DEF OnWorkerStatus
  <2>2. /\ avail' \in Seq(Workers) /\ IsInjective(avail')
        /\ \A v : Contains(avail', v) => Contains(avail, v) \/ v = w
        /\ \A v \in Workers \ {w} : Same(v)
        /\ chan[w] # <<>>
    BY <1>0, <1>3, StatusEffect
  <2>3. chan' \in [Workers -> Seq(WorkerMsg)]
    BY <1>3, <2>2, TakeMessageType DEF OnWorkerStatus, IInv, TypeOK
  <2>4. TypeOK'
    BY <1>1, <2>1, <2>2, <2>3 DEF IInv, TypeOK, WireTypeOK, BrokerTypeOK
  <2>5. Sockets'
    BY <1>0, <2>1 DEF IInv, Sockets
  <2>6. BootFresh'
    BY <1>0, <2>2 DEF IInv, BootFresh, Same
  <2>7. \A v \in Workers : Backlog(v)' <= Backlog(v)
    BY <1>0, <1>3, <2>2, BacklogSame, BacklogHears
  <2>8. BoundedBacklog'
    <3>1. QueuesOK'
      BY <2>4 DEF TypeOK, WireTypeOK, WorkerTypeOK, QueuesOK
    <3> QED BY <2>2, <2>7, <3>1, Bounded, BacklogNatNext
  <2> QED BY <1>1, <2>1, <2>4, <2>5, <2>6, <2>8 DEF IInv
<1>4. ASSUME StopBroker PROVE IInv'
  BY <1>0, <1>1, <1>4, StopInv DEF supVars, workerVars
<1> QED BY <1>2, <1>3, <1>4 DEF BrokerStep

(* and so does whatever a worker does,                                      *)
LEMMA WorkerInv ==
  ASSUME IInv, NEW w \in Workers, WorkerStep(w)
  PROVE  IInv'
<1>0. /\ QueuesOK /\ WorkerPart /\ WorkerActs(w, BrokerUp)
      /\ UNCHANGED <<broker, avail>> /\ UNCHANGED <<forwarderVars, supVars>>
  BY InvQueues DEF WorkerStep, WorkerWork, WorkerActs, brokerVars
<1>1. WorkerPart'
  BY <1>0, WorkerActsType
<1>2. TypeOK' /\ QueuesOK' /\ HeldWhileScanning'
  BY <1>0, <1>1 DEF IInv, TypeOK, WorkerPart, BrokerTypeOK, ForwarderTypeOK, SupTypeOK,
                    forwarderVars, redisVars, supVars, WireTypeOK, WorkerTypeOK, QueuesOK
<1>3. ItemsLeft' /\ Sockets'
  BY <1>0, WorkerActsBounds DEF IInv
<1>4. /\ Works(w) \/ Boot(w) \/ PollTimeout(w) \/ Loses(w)
      /\ \A v \in Workers \ {w} : Same(v)
  BY <1>0, WorkerQueues
<1>5. \A v \in Workers \ {w} : pc'[v] = pc[v]
  BY <1>0 DEF WorkerActs, Boot, Take, GraceTake, Receive, PollTimeout, Finish, GraceFinish,
              GraceTimeout, Sent, Exit, Die, ScanError, WorkerSignal, WorkerKill, Goto,
              WorkerPart, WorkerTypeOK
<1>6. pc'[w] # "boot"
  BY <1>0 DEF WorkerActs, Boot, Take, GraceTake, Receive, PollTimeout, Finish, GraceFinish,
              GraceTimeout, Sent, Exit, Die, ScanError, WorkerSignal, WorkerKill, Goto,
              WorkerPart, WorkerTypeOK, Scanning
<1>7. BootFresh'
  BY <1>0, <1>4, <1>5, <1>6 DEF IInv, BootFresh, Same
<1>8. Backlog(w)' <= Backlog(w) \/ Backlog(w)' <= MaxChan + 1
  <2>1. CASE Works(w)
    <3>1. Backlog(w)' = Backlog(w) /\ Backlog(w)' \in Nat
      BY <1>0, <1>2, <2>1, BacklogWorks, BacklogNatNext
    <3> QED BY <3>1
  <2>2. CASE Boot(w) \/ PollTimeout(w)
    BY <1>0, <2>2, BacklogSays DEF IInv
  <2>3. CASE Loses(w)
    BY <1>0, <1>2, <2>3, BacklogFalls
  <2> QED BY <1>4, <2>1, <2>2, <2>3
<1>9. \A v \in Workers \ {w} : Backlog(v)' <= Backlog(v)
  BY <1>0, <1>4, BacklogSame
<1>10. BoundedBacklog'
  <2>1. IsInjective(avail')
    BY <1>0 DEF IInv, BoundedBacklog
  <2> QED BY <1>2, <1>8, <1>9, <2>1, Bounded, BacklogNatNext
<1> QED BY <1>0, <1>2, <1>3, <1>7, <1>10 DEF IInv

(* Steps that are about neither the workers nor the list of the broker.     *)
LEMMA ElsewhereInv ==
  ASSUME IInv, TypeOK', UNCHANGED <<inbox, chan, sock, avail, workerVars>>,
         broker' = "down" => broker = "down"
  PROVE  IInv'
<1>0. QueuesOK /\ QueuesOK' /\ UNCHANGED <<pc, held, count, stop>>
  BY InvQueues DEF workerVars, TypeOK, WireTypeOK, WorkerTypeOK, QueuesOK
<1>1. ItemsLeft' /\ HeldWhileScanning' /\ Sockets' /\ BootFresh'
  BY <1>0 DEF IInv, ItemsLeft, HeldWhileScanning, Sockets, BootFresh
<1>2. \A w \in Workers : Backlog(w)' <= Backlog(w)
  BY <1>0, BacklogSame DEF Same
<1>3. BoundedBacklog'
  BY <1>0, <1>2, Bounded, BacklogNatNext DEF IInv, BoundedBacklog
<1> QED BY <1>1, <1>3 DEF IInv

(* and the supervisor;                                                      *)
LEMMA SupervisorInv ==
  ASSUME IInv, SupervisorStep
  PROVE  IInv'
<1>0. QueuesOK /\ WorkerPart /\ SupTypeOK
  BY InvQueues DEF IInv, TypeOK
<1>1. ASSUME NEW w \in Workers, NEW new \in Workers, Fresh(new), ReplaceWorker(w, new),
             UNCHANGED <<brokerVars, forwarderVars>>
      PROVE  IInv'
  <2>1. WorkerPart' /\ SupTypeOK'
    BY <1>0, <1>1, ReplaceWorkerType
  <2>2. TypeOK' /\ QueuesOK'
    BY <1>1, <2>1 DEF IInv, TypeOK, WorkerPart, BrokerTypeOK, ForwarderTypeOK, forwarderVars,
                      redisVars, brokerVars, WireTypeOK, WorkerTypeOK, QueuesOK
  <2>3. ItemsLeft' /\ Sockets'
    BY <1>0, <1>1, SupervisorBounds DEF IInv
  <2>4. UNCHANGED <<inbox, held, chan, avail, broker>> /\ pc' = [pc EXCEPT ![new] = "boot"]
    BY <1>1 DEF ReplaceWorker, Goto, wireVars, brokerVars
  <2>5. BootFresh'
    BY <1>0, <1>1, <2>4 DEF IInv, BootFresh, Fresh, WorkerPart, WorkerTypeOK
  <2>6. \A v \in Workers : Backlog(v)' <= Backlog(v)
    BY <1>0, <2>4, BacklogSame DEF Same
  <2>7. BoundedBacklog'
    BY <2>2, <2>4, <2>6, Bounded, BacklogNatNext DEF IInv, BoundedBacklog
  <2> QED BY <2>1, <2>2, <2>3, <2>4, <2>5, <2>7 DEF IInv, WorkerPart
<1>2. ASSUME SupStop, UNCHANGED <<brokerVars, forwarderVars>> PROVE IInv'
  <2>1. TypeOK'
    BY <1>2 DEF SupStop, IInv, TypeOK, WireTypeOK, BrokerTypeOK, WorkerTypeOK, ForwarderTypeOK,
                SupTypeOK, wireVars, brokerVars, workerVars, forwarderVars, redisVars
  <2> QED BY <1>2, <2>1, ElsewhereInv DEF SupStop, wireVars, brokerVars
<1>3. ASSUME SupKillWorkers(BrokerUp), UNCHANGED <<brokerVars, forwarderVars>> PROVE IInv'
  <2>1. WorkerPart' /\ SupTypeOK'
    BY <1>0, <1>3, KillWorkersType
  <2>2. TypeOK' /\ QueuesOK'
    BY <1>3, <2>1 DEF IInv, TypeOK, WorkerPart, BrokerTypeOK, ForwarderTypeOK, forwarderVars,
                      redisVars, brokerVars, WireTypeOK, WorkerTypeOK, QueuesOK
  <2>3. ItemsLeft' /\ Sockets'
    BY <1>0, <1>3, SupervisorBounds DEF IInv
  <2>4. BootFresh' /\ UNCHANGED <<avail, broker>>
    BY <1>3 DEF SupKillWorkers, BootFresh, brokerVars
  <2>5. \A w \in Workers : Backlog(w)' <= Backlog(w)
    BY <1>0, <1>3, <2>2, <2>4, KillWorkersLoses, BacklogFalls
  <2>6. BoundedBacklog'
    BY <2>2, <2>4, <2>5, Bounded, BacklogNatNext DEF IInv, BoundedBacklog
  <2> QED BY <2>1, <2>2, <2>3, <2>4, <2>6 DEF IInv, WorkerPart
<1>4. ASSUME StartBroker, UNCHANGED <<workerVars, forwarderVars, supVars>> PROVE IInv'
  <2>1. TypeOK'
    BY <1>4 DEF StartBroker, IInv, TypeOK, WireTypeOK, BrokerTypeOK, WorkerTypeOK,
                ForwarderTypeOK, SupTypeOK, wireVars, workerVars, forwarderVars, redisVars, supVars
  <2> QED BY <1>4, <2>1, ElsewhereInv DEF StartBroker, wireVars
<1>5. ASSUME supPc' = "done", UNCHANGED <<procs, workerVars, forwarderVars>>,
             IF BrokerUp THEN StopBroker ELSE UNCHANGED <<wireVars, brokerVars>>
      PROVE  IInv'
  <2>1. SupTypeOK'
    BY <1>0, <1>5 DEF SupTypeOK
  <2>2. CASE BrokerUp
    BY <1>5, <2>1, <2>2, StopInv
  <2>3. CASE ~BrokerUp
    <3>1. TypeOK'
      BY <1>5, <2>1, <2>3 DEF IInv, TypeOK, WireTypeOK, BrokerTypeOK, WorkerTypeOK,
                ForwarderTypeOK, wireVars, brokerVars, workerVars, forwarderVars, redisVars
    <3> QED BY <1>5, <2>3, <3>1, ElsewhereInv DEF wireVars, brokerVars
  <2> QED BY <2>2, <2>3
<1> QED BY <1>1, <1>2, <1>3, <1>4, <1>5 DEF SupervisorStep

(* so every step does,                                                      *)
LEMMA StepInv == IInv /\ [Next]_vars => IInv'
<1> SUFFICES ASSUME IInv, [Next]_vars PROVE IInv'
  OBVIOUS
<1>1. CASE Suricata \/ \E c \in Clients : ForwarderStep(c)
  <2>1. WireTypeOK' /\ ForwarderTypeOK' /\ UNCHANGED <<inbox, chan, sock>>
    BY <1>1, ForwarderType DEF IInv, TypeOK
  <2>2. UNCHANGED <<brokerVars, workerVars, supVars>>
    BY <1>1 DEF Suricata, ForwarderStep
  <2>3. TypeOK'
    BY <2>1, <2>2 DEF IInv, TypeOK, BrokerTypeOK, WorkerTypeOK, SupTypeOK, brokerVars,
                      workerVars, supVars
  <2> QED BY <2>1, <2>2, <2>3, ElsewhereInv DEF brokerVars
<1>2. CASE UNCHANGED vars
  <2>1. TypeOK'
    BY <1>2 DEF vars, IInv, TypeOK, WireTypeOK, BrokerTypeOK, WorkerTypeOK, ForwarderTypeOK,
                SupTypeOK, wireVars, brokerVars, workerVars, forwarderVars, redisVars, supVars
  <2> QED BY <1>2, <2>1, ElsewhereInv DEF vars, wireVars, brokerVars
<1> QED BY <1>1, <1>2, BrokerInv, WorkerInv, SupervisorInv DEF Next

(* and the invariant always holds.                                          *)
LEMMA Invariant == Spec => []IInv
BY InitInv, StepInv, PTL DEF Spec

(* Every variable keeps its type.                                           *)
THEOREM TypeCorrect == Spec => []TypeOK
<1>1. IInv => TypeOK
  BY DEF IInv
<1> QED BY <1>1, Invariant, PTL

(* Available_workers never names a worker twice, and the tasks and READYs   *)
(* of a worker stay bounded, for every pool and whatever fails.             *)
THEOREM BacklogIsBounded == Spec => []BoundedBacklog
<1>1. IInv => BoundedBacklog
  BY DEF IInv
<1> QED BY <1>1, Invariant, PTL

---------------------------------------------------------------------------
(* Where a file may be before the broker has it: not yet extracted, in the  *)
(* list, or in the hand of one forwarder.                                   *)
Hands ==
  /\ \A c \in Clients : hand[c] # 0 <=> fpc[c] \notin {"pop", "down"}
  /\ \A c \in Clients : hand[c] <= arrived /\ hand[c] \notin ToSet(queue)
  /\ \A c, d \in Clients : c # d /\ hand[c] # 0 => hand[c] # hand[d]
  /\ IsInjective(queue)
  /\ ToSet(queue) \subseteq 1 .. arrived

(* What has become of a file, at each of these.                             *)
FatesOf(label) ==
  CASE label = "look" -> {"waiting", "partial"}
    [] label \in {"parse", "send"} -> {"waiting"}
    [] label = "sent" -> {"sent"}
    [] label = "again" -> {"waiting", "sent"}
    [] label = "clean" -> Fates \ {"waiting"}
    [] OTHER -> Fates

HandFates ==
  /\ \A c \in Clients : hand[c] # 0 => fate[hand[c]] \in FatesOf(fpc[c])
  /\ \A f \in ToSet(queue) : fate[f] \in {"waiting", "partial"}
  /\ \A f \in Files : f > arrived => fate[f] = "waiting"
  /\ \A f \in keys : f <= arrived /\ fate[f] # "partial"

FInv == Hands /\ HandFates /\ KeysOutliveForwarder

(* At first no file has arrived.                                            *)
LEMMA ForwardInit == Init => FInv
<1> SUFFICES ASSUME Init PROVE FInv
  OBVIOUS
<1>1. ToSet(queue) = {} /\ IsInjective(queue)
  BY DEF Init, ForwarderInit, ToSet, IsInjective
<1> QED BY <1>1, MaxFilesAssumption
        DEF Init, ForwarderInit, FInv, Hands, HandFates, KeysOutliveForwarder, Files

(* A forwarder moves on to label l with h in its hand, the file it had has  *)
(* become x, and its keys have gone or not.                                 *)
LEMMA HandMoves ==
  ASSUME ForwarderTypeOK, FInv, NEW c \in Clients,
         NEW l, NEW h \in {0, hand[c]}, NEW x \in Fates,
         UNCHANGED <<arrived, queue>>, keys' \in {keys, keys \ {hand[c]}},
         fpc' = [fpc EXCEPT ![c] = l], hand' = [hand EXCEPT ![c] = h],
         fate' = [fate EXCEPT ![hand[c]] = x],
         h # 0 <=> l \notin {"pop", "down"},
         h # 0 => x \in FatesOf(l),
         hand[c] # 0 => /\ x = "partial" => fate[hand[c]] = "partial"
                        /\ x = "waiting" => fate[hand[c]] = "waiting" /\ keys' = keys
  PROVE  FInv'
<1> USE DEF FInv
<1>0. /\ fpc' = [fpc EXCEPT ![c] = l] /\ hand \in [Clients -> Files \cup {0}]
      /\ fate \in [Files -> Fates] /\ keys \subseteq Files /\ arrived \in Nat
      /\ 0 \notin Files /\ \A f \in Files : f \in Nat
      /\ ToSet(queue) \subseteq 1 .. arrived
  BY MaxFilesAssumption DEF ForwarderTypeOK, Files, Hands
<1>1. /\ fpc'[c] = l /\ hand'[c] = h
      /\ \A d \in Clients \ {c} : fpc'[d] = fpc[d] /\ hand'[d] = hand[d]
  BY <1>0 DEF ForwarderTypeOK
<1>2. /\ \A f \in Files \ {hand[c]} : fate'[f] = fate[f]
      /\ hand[c] # 0 => fate'[hand[c]] = x
  BY <1>0
<1>3. \A d \in Clients \ {c} : hand[d] # 0 => hand[d] # hand[c]
  BY DEF Hands
<1>4. Hands'
  <2>1. \A d \in Clients : hand'[d] # 0 <=> fpc'[d] \notin {"pop", "down"}
    BY <1>1 DEF Hands
  <2>2. \A d \in Clients : hand'[d] \in {0, hand[d]}
    BY <1>1
  <2>3. \A d \in Clients : hand'[d] <= arrived /\ hand'[d] \notin ToSet(queue)
    BY <1>0, <2>2 DEF Hands
  <2>4. \A d, e \in Clients : d # e /\ hand'[d] # 0 => hand'[d] # hand'[e]
    BY <2>2 DEF Hands
  <2> QED BY <2>1, <2>3, <2>4 DEF Hands
<1>5. HandFates'
  <2>1. ASSUME NEW d \in Clients, hand'[d] # 0 PROVE fate'[hand'[d]] \in FatesOf(fpc'[d])
    <3>1. CASE d = c
      BY <1>1, <1>2, <2>1, <3>1
    <3>2. CASE d # c
      <4>1. hand[d] \in Files \ {hand[c]} /\ hand'[d] = hand[d] /\ fpc'[d] = fpc[d]
        BY <1>0, <1>1, <1>3, <2>1, <3>2
      <4> QED BY <1>2, <2>1, <4>1 DEF HandFates
    <3> QED BY <3>1, <3>2
  <2>2. ASSUME NEW f \in ToSet(queue) PROVE fate'[f] \in {"waiting", "partial"}
    <3>1. f # hand[c] /\ fate[f] \in {"waiting", "partial"}
      BY DEF Hands, HandFates
    <3>2. f \in Files
      BY <1>0, MaxFilesAssumption DEF ForwarderTypeOK, Files
    <3> QED BY <1>2, <3>1, <3>2
  <2>3. ASSUME NEW f \in Files, f > arrived PROVE fate'[f] = "waiting"
    <3>1. f # hand[c] /\ fate[f] = "waiting"
      BY <1>0, <2>3 DEF Hands, HandFates
    <3> QED BY <1>2, <3>1
  <2>4. ASSUME NEW f \in keys' PROVE f <= arrived /\ fate'[f] # "partial"
    <3>1. f \in keys /\ f \in Files /\ f <= arrived /\ fate[f] # "partial"
      BY <1>0 DEF HandFates
    <3> QED BY <1>0, <1>2, <3>1
  <2> QED BY <2>1, <2>2, <2>3, <2>4 DEF HandFates
<1>6. ASSUME NEW f \in 1 .. arrived, fate'[f] = "waiting" PROVE f \in keys'
  <2>1. f \in Files
    BY MaxFilesAssumption DEF ForwarderTypeOK, Files
  <2>2. CASE f = hand[c]
    BY <1>0, <1>2, <1>6, <2>1, <2>2 DEF KeysOutliveForwarder
  <2>3. CASE f # hand[c]
    BY <1>2, <1>6, <2>1, <2>3 DEF KeysOutliveForwarder
  <2> QED BY <2>2, <2>3
<1> QED BY <1>4, <1>5, <1>6 DEF KeysOutliveForwarder

(* Every step of a forwarder, and of Suricata, keeps a file in its place.   *)
LEMMA PopKeeps ==
  ASSUME ForwarderTypeOK, FInv, NEW c \in Clients, Pop(c)
  PROVE  FInv'
<1> USE DEF FInv
<1>0. /\ hand \in [Clients -> Files \cup {0}] /\ queue \in Seq(Files) /\ arrived \in Nat
      /\ 0 \notin Files /\ \A f \in Files : f \in Nat
      /\ UNCHANGED <<arrived, keys, fate>> /\ queue # <<>> /\ queue' = Tail(queue)
      /\ fpc' = [fpc EXCEPT ![c] = "look"] /\ hand' = [hand EXCEPT ![c] = Head(queue)]
      /\ fpc[c] = "pop" /\ IsInjective(queue)
  BY MaxFilesAssumption DEF Pop, MoveOn, redisVars, ForwarderTypeOK, Files, Hands
<1>1. /\ Head(queue) \in Files /\ Head(queue) \in ToSet(queue)
      /\ IsInjective(Tail(queue)) /\ ToSet(Tail(queue)) = ToSet(queue) \ {Head(queue)}
  BY <1>0, TailOfInjective
<1>2. PICK h \in Files : h = Head(queue)
  BY <1>1
<1>3. /\ fpc'[c] = "look" /\ hand'[c] = h
      /\ \A d \in Clients \ {c} : fpc'[d] = fpc[d] /\ hand'[d] = hand[d] /\ hand[d] # h
      /\ h <= arrived /\ fate[h] \in {"waiting", "partial"} /\ h \notin ToSet(queue')
      /\ ToSet(queue') \subseteq ToSet(queue)
  BY <1>0, <1>1, <1>2 DEF ForwarderTypeOK, Hands, HandFates
<1>4. Hands'
  <2>1. \A d \in Clients : hand'[d] # 0 <=> fpc'[d] \notin {"pop", "down"}
    BY <1>0, <1>2, <1>3 DEF Hands
  <2>2. \A d \in Clients : hand'[d] <= arrived' /\ hand'[d] \notin ToSet(queue')
    BY <1>0, <1>3 DEF Hands
  <2>3. ASSUME NEW d \in Clients, NEW e \in Clients, d # e, hand'[d] # 0
        PROVE  hand'[d] # hand'[e]
    BY <1>3, <2>3 DEF Hands
  <2>4. IsInjective(queue')
    BY <1>0, <1>1
  <2>5. ToSet(queue') \subseteq 1 .. arrived'
    BY <1>0, <1>3 DEF Hands
  <2> QED BY <2>1, <2>2, <2>3, <2>4, <2>5 DEF Hands
<1>5. HandFates'
  BY <1>0, <1>3 DEF HandFates, FatesOf
<1>6. KeysOutliveForwarder'
  BY <1>0 DEF KeysOutliveForwarder
<1> QED BY <1>4, <1>5, <1>6

(* Suricata extracts one more file.                                         *)
LEMMA ArriveKeeps ==
  ASSUME ForwarderTypeOK, FInv, Arrive
  PROVE  FInv'
<1> USE DEF FInv
<1> DEFINE n == arrived + 1
<1>0. /\ hand \in [Clients -> Files \cup {0}] /\ queue \in Seq(Files) /\ arrived \in Nat
      /\ n \in Files /\ \A f \in Files : f \in Nat
      /\ fate \in [Files -> Fates] /\ keys \subseteq Files
      /\ arrived' = n /\ queue' = Append(queue, n)
      /\ UNCHANGED <<fpc, hand>> /\ IsInjective(queue) /\ ToSet(queue) \subseteq 1 .. arrived
      /\ \/ keys' = keys \cup {n} /\ fate' = fate
         \/ fate' = [fate EXCEPT ![n] = "partial"] /\ keys' = keys
  BY MaxFilesAssumption DEF Arrive, Becomes, ForwarderTypeOK, Files, Hands
<1>1. /\ ~Contains(queue, n) /\ n \notin ToSet(queue)
      /\ \A d \in Clients : hand[d] # n
  <2>1. n \notin 1 .. arrived /\ ~(n <= arrived)
    BY <1>0
  <2>2. \A d \in Clients : hand[d] <= arrived
    BY DEF Hands
  <2> QED BY <1>0, <2>1, <2>2, ContainsIsMember
<1>2. IsInjective(queue') /\ ToSet(queue') = ToSet(queue) \cup {n}
  BY <1>0, <1>1, AppendFresh
<1>3. fate[n] = "waiting" /\ n \notin keys
  BY <1>0 DEF HandFates
<1> HIDE DEF n
<1>4. /\ \A f \in Files \ {n} : fate'[f] = fate[f]
      /\ \/ fate'[n] = "waiting" /\ keys' = keys \cup {n}
         \/ fate'[n] = "partial" /\ keys' = keys
  BY <1>0, <1>3
<1>5. \A k \in Nat : k <= n <=> k <= arrived \/ k = n
  BY <1>0 DEF n
<1>6. \A d \in Clients : hand[d] \in Nat /\ hand[d] <= arrived
  BY <1>0 DEF Hands
<1>7. Hands'
  <2>1. \A d \in Clients : hand'[d] <= arrived' /\ hand'[d] \notin ToSet(queue')
    BY <1>0, <1>1, <1>2, <1>5, <1>6 DEF Hands
  <2>2. ToSet(queue') \subseteq 1 .. arrived'
    BY <1>0, <1>2 DEF n
  <2> QED BY <1>0, <1>2, <2>1, <2>2 DEF Hands
<1>8. HandFates'
  <2>1. ASSUME NEW d \in Clients, hand'[d] # 0 PROVE fate'[hand'[d]] \in FatesOf(fpc'[d])
    <3>1. hand'[d] = hand[d] /\ fpc'[d] = fpc[d] /\ hand[d] \in Files \ {n}
      BY <1>0, <1>1, <2>1
    <3> QED BY <1>4, <2>1, <3>1 DEF HandFates
  <2>2. ASSUME NEW f \in ToSet(queue') PROVE fate'[f] \in {"waiting", "partial"}
    <3>1. CASE f = n
      BY <1>4, <3>1
    <3>2. CASE f # n
      <4>1. f \in ToSet(queue)
        BY <1>2, <3>2
      <4>2. f \in Files
        BY <1>0, <4>1, MaxFilesAssumption DEF ForwarderTypeOK, Files
      <4> QED BY <1>4, <3>2, <4>1, <4>2 DEF HandFates
    <3> QED BY <3>1, <3>2
  <2>3. ASSUME NEW f \in Files, f > arrived' PROVE fate'[f] = "waiting"
    <3>1. f > arrived /\ f # n
      BY <1>0, <2>3 DEF n
    <3> QED BY <1>4, <3>1 DEF HandFates
  <2>4. ASSUME NEW f \in keys' PROVE f <= arrived' /\ fate'[f] # "partial"
    <3>1. CASE f = n
      BY <1>0, <1>3, <1>4, <1>5, <3>1
    <3>2. CASE f # n
      <4>1. f \in keys /\ f \in Files /\ f <= arrived /\ fate[f] # "partial"
        BY <1>0, <1>4, <3>2 DEF HandFates
      <4> QED BY <1>0, <1>4, <1>5, <3>2, <4>1
    <3> QED BY <3>1, <3>2
  <2> QED BY <2>1, <2>2, <2>3, <2>4 DEF HandFates
<1>9. ASSUME NEW f \in 1 .. arrived', fate'[f] = "waiting" PROVE f \in keys'
  <2>1. CASE f = n
    BY <1>4, <1>9, <2>1
  <2>2. CASE f # n
    <3>1. f \in 1 .. arrived /\ f \in Files
      BY <1>0, <2>2, MaxFilesAssumption DEF n, ForwarderTypeOK, Files
    <3> QED BY <1>4, <1>9, <2>2, <3>1 DEF KeysOutliveForwarder
  <2> QED BY <2>1, <2>2
<1> QED BY <1>7, <1>8, <1>9 DEF KeysOutliveForwarder

(* Whatever a forwarder does, or is done to it.                             *)
LEMMA ForwarderKeeps ==
  ASSUME ForwarderTypeOK, FInv, NEW c \in Clients, ForwarderStep(c)
  PROVE  FInv'
<1> USE DEF MoveOn, LetGo, Becomes, redisVars
<1>0. /\ hand \in [Clients -> Files \cup {0}] /\ fate \in [Files -> Fates]
      /\ hand[c] \in Files \cup {0} /\ 0 \notin Files
      /\ hand[c] # 0 <=> fpc[c] \notin {"pop", "down"}
      /\ hand[c] # 0 => fate[hand[c]] \in FatesOf(fpc[c])
  BY DEF ForwarderTypeOK, FInv, Hands, HandFates, Files
<1>1. ASSUME NEW l, NEW h \in {0, hand[c]},
             UNCHANGED <<arrived, queue, fate>>, keys' \in {keys, keys \ {hand[c]}},
             fpc' = [fpc EXCEPT ![c] = l], hand' = [hand EXCEPT ![c] = h],
             h # 0 <=> l \notin {"pop", "down"},
             h # 0 => fate[hand[c]] \in FatesOf(l),
             hand[c] = 0 \/ keys' = keys \/ fate[hand[c]] # "waiting"
      PROVE  FInv'
  <2>1. CASE hand[c] = 0
    <3>1. fate' = [fate EXCEPT ![hand[c]] = "sent"] /\ "sent" \in Fates /\ h = 0
      BY <1>0, <1>1, <2>1 DEF Fates
    <3> QED BY <1>1, <2>1, <3>1, HandMoves
  <2>2. CASE hand[c] # 0
    <3>1. fate' = [fate EXCEPT ![hand[c]] = fate[hand[c]]] /\ fate[hand[c]] \in Fates
      BY <1>0, <1>1, <2>2
    <3> QED BY <1>1, <2>2, <3>1, HandMoves
  <2> QED BY <2>1, <2>2
<1>2. ASSUME NEW l \in {"pop", "sent", "clean"}, NEW x \in {"skipped", "sent", "resent", "refused"},
             NEW h \in {0, hand[c]}, hand[c] # 0, UNCHANGED <<arrived, queue>>,
             keys' \in {keys, keys \ {hand[c]}}, fpc' = [fpc EXCEPT ![c] = l],
             hand' = [hand EXCEPT ![c] = h], fate' = [fate EXCEPT ![hand[c]] = x],
             h = 0 <=> l = "pop", l = "sent" => x = "sent"
      PROVE  FInv'
  <2>1. x \in Fates /\ (h # 0 => x \in FatesOf(l)) /\ (h # 0 <=> l \notin {"pop", "down"})
    BY <1>2 DEF Fates, FatesOf
  <2> QED BY <1>2, <2>1, HandMoves
<1>3. ASSUME UNCHANGED hand PROVE hand' = [hand EXCEPT ![c] = hand[c]]
  BY <1>0, <1>3
<1>4. ASSUME Skip(c), fpc[c] \in {"look", "parse"} PROVE FInv'
  <2>1. hand[c] # 0
    BY <1>0, <1>4
  <2> QED BY <1>2, <1>4, <2>1 DEF Skip, DeleteKeys
<1>5. ASSUME EndForwarder(c) PROVE FInv'
  BY <1>1, <1>5 DEF EndForwarder
<1>6. ASSUME Handed(hand[c]), fpc[c] \in {"send", "again"}, UNCHANGED <<redisVars, hand>>,
             MoveOn(c, "clean") \/ (fpc[c] = "send" /\ MoveOn(c, "sent"))
      PROVE  FInv'
  <2>1. hand[c] # 0 /\ (fpc[c] = "send" => fate[hand[c]] = "waiting")
    BY <1>0, <1>6 DEF FatesOf
  <2>2. PICK x \in {"sent", "resent"} : /\ fate' = [fate EXCEPT ![hand[c]] = x]
                                        /\ fpc[c] = "send" => x = "sent"
    BY <1>6, <2>1 DEF Handed
  <2>3. /\ x \in {"skipped", "sent", "resent", "refused"}
        /\ keys' = keys /\ UNCHANGED <<arrived, queue>>
        /\ hand' = [hand EXCEPT ![c] = hand[c]] /\ hand[c] \in {0, hand[c]}
    BY <1>3, <1>6, <2>2
  <2>4. ASSUME NEW l \in {"sent", "clean"}, MoveOn(c, l), l = "sent" => x = "sent" PROVE FInv'
    <3>1. x \in Fates /\ x \in FatesOf(l) /\ x \notin {"partial", "waiting"}
          /\ l \notin {"pop", "down"}
      BY <2>2, <2>4 DEF Fates, FatesOf
    <3>2. fpc' = [fpc EXCEPT ![c] = l]
      BY <2>4
    <3>3. /\ fate' = [fate EXCEPT ![hand[c]] = x] /\ keys' \in {keys, keys \ {hand[c]}}
          /\ hand' = [hand EXCEPT ![c] = hand[c]] /\ hand[c] \in {0, hand[c]}
          /\ UNCHANGED <<arrived, queue>>
      BY <2>2, <2>3
    <3>4. /\ hand[c] # 0 <=> l \notin {"pop", "down"}
          /\ hand[c] # 0 => x \in FatesOf(l)
          /\ hand[c] # 0 => /\ x = "partial" => fate[hand[c]] = "partial"
                            /\ x = "waiting" => fate[hand[c]] = "waiting" /\ keys' = keys
      BY <2>1, <3>1
    <3> QED BY <3>1, <3>2, <3>3, <3>4, HandMoves
  <2>5. CASE MoveOn(c, "clean")
    <3>1. "clean" \in {"sent", "clean"} /\ "clean" # "sent"
      OBVIOUS
    <3> QED BY <2>4, <2>5, <3>1
  <2>6. CASE fpc[c] = "send" /\ MoveOn(c, "sent")
    <3>1. "sent" \in {"sent", "clean"} /\ x = "sent"
      BY <2>2, <2>6
    <3> QED BY <2>4, <2>6, <3>1
  <2> QED BY <1>6, <2>5, <2>6
<1>7. CASE LookUp(c)
  <2>1. CASE hand[c] \in keys
    <3>1. hand[c] # 0 /\ fate[hand[c]] = "waiting"
      BY <1>0, <1>7, <2>1 DEF LookUp, FInv, HandFates, FatesOf
    <3>2. fate[hand[c]] \in FatesOf("parse")
      BY <3>1 DEF FatesOf
    <3> QED BY <1>1, <1>3, <1>7, <2>1, <3>1, <3>2 DEF LookUp
  <2>2. CASE hand[c] \notin keys
    BY <1>4, <1>7, <2>2 DEF LookUp
  <2> QED BY <2>1, <2>2
<1>8. CASE Parse(c)
  <2>1. CASE Skip(c)
    BY <1>4, <1>8, <2>1 DEF Parse
  <2>2. CASE MoveOn(c, "send") /\ UNCHANGED <<redisVars, hand, fate>>
    <3>1. hand[c] # 0 /\ fate[hand[c]] \in FatesOf("send")
      BY <1>0, <1>8 DEF Parse, FatesOf
    <3> QED BY <1>1, <1>3, <2>2, <3>1
  <2> QED BY <1>8, <2>1, <2>2 DEF Parse
<1>9. CASE SendOnly(c) \/ SendOnlyAgain(c)
  BY <1>6, <1>9 DEF SendOnly, SendOnlyAgain
<1>10. CASE SendReturns(c)
  <2>1. hand[c] # 0 /\ fate[hand[c]] \in FatesOf("clean")
    BY <1>0, <1>10 DEF SendReturns, FatesOf, Fates
  <2> QED BY <1>1, <1>3, <1>10, <2>1 DEF SendReturns
<1>11. CASE CleanUp(c)
  <2>1. hand[c] # 0 /\ fate[hand[c]] # "waiting"
    BY <1>0, <1>11 DEF CleanUp, FatesOf
  <2> QED BY <1>1, <1>11, <2>1 DEF CleanUp, DeleteKeys
<1>12. CASE ParseFails(c) \/ ForwarderKill(c)
  BY <1>5, <1>12 DEF ParseFails, ForwarderKill
<1>13. ASSUME Swallowed(c) PROVE FInv'
  <2>1. CASE fpc[c] = "parse" /\ Skip(c)
    BY <1>4, <2>1
  <2>2. CASE /\ fpc[c] \in {"send", "sent"} /\ MoveOn(c, "again")
             /\ UNCHANGED <<redisVars, hand, fate>>
    <3>1. hand[c] # 0 /\ fate[hand[c]] \in FatesOf("again")
      BY <1>0, <2>2 DEF FatesOf
    <3> QED BY <1>1, <1>3, <2>2, <3>1
  <2>3. CASE /\ fpc[c] = "again" /\ MoveOn(c, "clean") /\ UNCHANGED <<redisVars, hand>>
             /\ Becomes(hand[c], IF fate[hand[c]] = "waiting" THEN "refused" ELSE fate[hand[c]])
    <3>1. hand[c] # 0 /\ fate[hand[c]] \in {"waiting", "sent"}
      BY <1>0, <2>3 DEF FatesOf
    <3>2. PICK x \in {"refused", "sent"} : fate' = [fate EXCEPT ![hand[c]] = x]
      BY <2>3, <3>1
    <3> QED BY <1>2, <1>3, <2>3, <3>1, <3>2
  <2>4. CASE /\ fpc[c] = "again" /\ MoveOn(c, "clean") /\ UNCHANGED <<redisVars, hand>>
             /\ Handed(hand[c])
    BY <1>6, <2>4
  <2> QED BY <1>13, <2>1, <2>2, <2>3, <2>4 DEF Swallowed
<1>14. CASE ForwarderSignal(c)
  BY <1>5, <1>13, <1>14 DEF ForwarderSignal
<1>15. CASE ForwarderStart(c)
  <2>1. hand[c] = 0
    BY <1>0, <1>15 DEF ForwarderStart
  <2> QED BY <1>1, <1>3, <1>15, <2>1 DEF ForwarderStart
<1> QED BY <1>7, <1>8, <1>9, <1>10, <1>11, <1>12, <1>14, <1>15, PopKeeps
        DEF ForwarderStep, ForwarderWork

(* So every step keeps what is known of the files,                          *)
LEMMA ForwardStep ==
  ASSUME IInv, FInv, [Next]_vars
  PROVE  FInv'
<1>1. ASSUME UNCHANGED forwarderVars PROVE FInv'
  BY <1>1 DEF forwarderVars, redisVars, FInv, Hands, HandFates, KeysOutliveForwarder
<1>2. CASE BrokerStep \/ SupervisorStep \/ \E w \in Workers : WorkerStep(w)
  BY <1>1, <1>2 DEF BrokerStep, SupervisorStep, WorkerStep
<1>3. CASE Suricata
  BY <1>3, ArriveKeeps DEF Suricata, IInv, TypeOK
<1>4. CASE \E c \in Clients : ForwarderStep(c)
  BY <1>4, ForwarderKeeps DEF IInv, TypeOK
<1>5. CASE UNCHANGED vars
  BY <1>1, <1>5 DEF vars
<1> QED BY <1>2, <1>3, <1>4, <1>5 DEF Next

(* and it always holds.                                                     *)
LEMMA ForwardInvariant == Spec => [](IInv /\ FInv)
BY InitInv, StepInv, ForwardInit, ForwardStep, PTL DEF Spec

(* The keys of a file outlive a forwarder that ends before anything has     *)
(* been decided about the file, whatever ends it and whenever.              *)
THEOREM KeysOutlive == Spec => []KeysOutliveForwarder
<1>1. FInv => KeysOutliveForwarder
  BY DEF FInv
<1> QED BY <1>1, ForwardInvariant, PTL

---------------------------------------------------------------------------
(* A file that has been handed over once is there in one copy at the most,  *)
(* one that has been handed over twice in two.                              *)
Waiting == frontend \cup OnItsWay
Few ==
  /\ \A t \in Waiting : t.obj \in Files /\ fate[t.obj] \in {"sent", "resent"}
  /\ \A t, u \in Waiting : t.obj = u.obj /\ fate[t.obj] = "sent" => t = u
  /\ \A t, u, v \in Waiting : t.obj = u.obj /\ u.obj = v.obj => t = u \/ u = v \/ t = v

(* The identities of a forwarder: each is newer than those before it.       *)
Newer ==
  /\ \A t \in Waiting : t.conn <= conn[t.client]
  /\ \A c \in Clients : fpc[c] = "again" =>
       \A t \in Waiting : t.client = c /\ t.obj = hand[c] => t.conn < conn[c]

Apart ==
  /\ frontend \cap OnItsWay = {}
  /\ \A v, w \in Workers : v # w => TasksOf(v) \cap TasksOf(w) = {}
  /\ \A w \in Workers : Neat(w)

CInv == Few /\ Newer /\ Apart

(* Nothing waits at first.                                                  *)
LEMMA CopyInit == Init => CInv
<1> SUFFICES ASSUME Init PROVE CInv
  OBVIOUS
<1>1. ASSUME NEW w \in Workers PROVE TasksOf(w) = {} /\ Neat(w)
  <2>1. inbox[w] = <<>> /\ held[w] = None /\ chan[w] = <<>>
    BY DEF Init, WireInit, WorkerInit
  <2>2. ToSet(inbox[w]) = {} /\ ResultsIn(chan[w]) = {} /\ IsInjective(inbox[w])
    BY <2>1, EmptySeq DEF ToSet, ResultsIn, WithStatus, IsInjective
  <2> QED BY <2>1, <2>2 DEF TasksOf, Neat
<1>2. OnItsWay = {} /\ Waiting = {}
  BY <1>1 DEF OnItsWay, Waiting, Init, WireInit
<1> QED BY <1>1, <1>2 DEF CInv, Few, Newer, Apart

(* What waits is a task of a forwarder.                                     *)
LEMMA WaitingTasks ==
  ASSUME IInv
  PROVE  /\ Waiting \subseteq Task
         /\ conn \in [Clients -> Nat]
         /\ \A t \in Task : t.client \in Clients /\ t.conn \in Nat /\ t.obj \in Nat
<1>1. OnItsWay \subseteq Task
  BY InvQueues, TasksAreTasks DEF OnItsWay
<1> QED BY <1>1 DEF Waiting, IInv, TypeOK, WireTypeOK, Task

(* Steps that hand over no file, and after which no task is where it was    *)
(* not before: files that were handed over stay so, and a forwarder that    *)
(* comes to try again has a new identity.                                   *)
LEMMA NoMoreCopies ==
  ASSUME IInv, CInv, conn' \in [Clients -> Nat],
         frontend' \subseteq frontend,
         \A w \in Workers : TasksOf(w)' \subseteq TasksOf(w) /\ Neat(w)',
         \A f \in Files : fate[f] \in {"sent", "resent"} => fate'[f] = fate[f],
         \A c \in Clients : conn[c] <= conn'[c],
         \A c \in Clients : fpc'[c] = "again" =>
           conn'[c] = conn[c] + 1 \/ (fpc[c] = "again" /\ hand'[c] = hand[c])
  PROVE  CInv'
<1>1. /\ Waiting \subseteq Task /\ conn \in [Clients -> Nat]
      /\ \A t \in Task : t.client \in Clients /\ t.conn \in Nat
  BY WaitingTasks
<1>2. OnItsWay' \subseteq OnItsWay
  BY DEF OnItsWay
<1>3. Waiting' \subseteq Waiting
  BY <1>2 DEF Waiting
<1>4. \A t \in Waiting' : t.obj \in Files /\ fate'[t.obj] = fate[t.obj]
  BY <1>3 DEF CInv, Few
<1>5. Few'
  BY <1>3, <1>4 DEF CInv, Few
<1>6. ASSUME NEW t \in Waiting' PROVE t.conn <= conn'[t.client]
  <2>1. t \in Waiting /\ t.client \in Clients /\ t.conn \in Nat
    BY <1>1, <1>3
  <2>2. t.conn <= conn[t.client] /\ conn[t.client] <= conn'[t.client]
    BY <2>1 DEF CInv, Newer
  <2> QED BY <1>1, <2>1, <2>2
<1>7. ASSUME NEW c \in Clients, fpc'[c] = "again", NEW t \in Waiting',
             t.client = c, t.obj = hand'[c]
      PROVE  t.conn < conn'[c]
  <2>1. t \in Waiting /\ t.conn \in Nat /\ conn[c] \in Nat /\ conn'[c] \in Nat
        /\ conn[c] <= conn'[c]
    BY <1>1, <1>3
  <2>2. CASE conn'[c] = conn[c] + 1
    <3>1. t.conn <= conn[c]
      BY <1>7, <2>1 DEF CInv, Newer
    <3> QED BY <2>1, <2>2, <3>1
  <2>3. CASE fpc[c] = "again" /\ hand'[c] = hand[c]
    <3>1. t.conn < conn[c]
      BY <1>7, <2>1, <2>3 DEF CInv, Newer
    <3> QED BY <2>1, <3>1
  <2> QED BY <1>7, <2>2, <2>3
<1>8. Apart'
  BY <1>2 DEF CInv, Apart
<1> QED BY <1>5, <1>6, <1>7, <1>8 DEF CInv, Newer

(* The broker hands a task to a worker, or loses it.                        *)
LEMMA ForwardCopies ==
  ASSUME IInv, CInv, NEW t \in frontend, ForwardTask(t), UNCHANGED <<workerVars, forwarderVars>>
  PROVE  CInv'
<1>0. /\ QueuesOK /\ UNCHANGED <<held, conn, fate, fpc, hand>> /\ frontend' = frontend \ {t}
      /\ t \in Task
  BY InvQueues DEF ForwardTask, workerVars, forwarderVars, IInv, TypeOK, WireTypeOK
<1>1. PICK w \in Workers : /\ \A v \in Workers \ {w} : Same(v)
                           /\ Same(w) \/ (w \in sock /\ Gets(w, t))
  BY <1>0, ForwardEffect
<1>2. /\ t \notin OnItsWay
      /\ \A v \in Workers : Neat(v) /\ t \notin TasksOf(v)
  BY DEF CInv, Apart, OnItsWay
<1>3. \A v \in Workers \ {w} : TasksOf(v)' = TasksOf(v) /\ Neat(v)'
  BY <1>1, <1>2, SameTasks
<1>4. Neat(w)' /\ TasksOf(w)' \subseteq TasksOf(w) \cup {t}
  BY <1>0, <1>1, <1>2, SameTasks, Getting
<1>5. OnItsWay' \subseteq OnItsWay \cup {t}
  BY <1>3, <1>4 DEF OnItsWay
<1>6. Waiting' \subseteq Waiting
  BY <1>0, <1>5 DEF Waiting
<1>7. Few' /\ Newer'
  BY <1>0, <1>6 DEF CInv, Few, Newer
<1>8. Apart'
  <2>1. frontend' \cap OnItsWay' = {}
    BY <1>0, <1>5 DEF CInv, Apart
  <2>2. \A u, v \in Workers : u # v => TasksOf(u)' \cap TasksOf(v)' = {}
    BY <1>2, <1>3, <1>4 DEF CInv, Apart
  <2> QED BY <1>3, <1>4, <2>1, <2>2 DEF Apart
<1> QED BY <1>7, <1>8 DEF CInv

(* The broker ends.  What comes back to its frontend comes under a new      *)
(* identity, one for each task that was there.                              *)
LEMMA StopCopies ==
  ASSUME IInv, CInv, StopBroker, UNCHANGED <<workerVars, forwarderVars>>
  PROVE  CInv'
<1>0. /\ QueuesOK /\ UNCHANGED <<held, fate, fpc, hand>> /\ WireTypeOK /\ LoseBroker
  BY InvQueues DEF StopBroker, workerVars, forwarderVars, IInv, TypeOK
<1>1. /\ Waiting \subseteq Task /\ conn \in [Clients -> Nat]
      /\ \A t \in Task : t.client \in Clients /\ t.conn \in Nat /\ t.obj \in Nat
  BY WaitingTasks
<1>2. /\ frontend' \subseteq Task
      /\ inbox' \in [Workers -> Seq(Task)] /\ chan' \in [Workers -> Seq(WorkerMsg)]
  BY <1>0, LoseBrokerType
<1>3. /\ \A c \in Clients : conn'[c] = conn[c] + 1
      /\ \A u \in frontend' : \E t \in frontend :
           /\ t.conn = conn[t.client]
           /\ u.conn = t.conn + 1 /\ u.client = t.client /\ u.obj = t.obj
  BY <1>0, EndRenames
<1>4. \A w \in Workers : TasksOf(w)' \subseteq TasksOf(w) /\ Neat(w)'
  <2>1. QueuesOK'
    BY <1>0, <1>2 DEF QueuesOK
  <2> QED BY <1>0, <2>1, LoseBrokerShrinks, Shrinking DEF CInv, Apart
<1>5. OnItsWay' \subseteq OnItsWay
  BY <1>4 DEF OnItsWay
<1> DEFINE Was(u, t) == /\ t \in Waiting /\ u.obj = t.obj
                        /\ \/ u \in OnItsWay' /\ t = u
                           \/ /\ u \in frontend' /\ t \in frontend /\ u.client = t.client
                              /\ u.conn = t.conn + 1 /\ t.conn = conn[t.client]
<1>6. \A u \in Waiting' : \E t : Was(u, t)
  BY <1>3, <1>5 DEF Waiting
<1>7. ASSUME NEW u \in Waiting', NEW v \in Waiting', NEW t, Was(u, t), Was(v, t) PROVE u = v
  <2>1. CASE u \in OnItsWay' /\ t = u
    BY <1>5, <1>7, <2>1 DEF CInv, Apart
  <2>2. CASE v \in OnItsWay' /\ t = v
    BY <1>5, <1>7, <2>2 DEF CInv, Apart
  <2>3. CASE /\ u \in frontend' /\ u.client = t.client /\ u.conn = t.conn + 1
             /\ v \in frontend' /\ v.client = t.client /\ v.conn = t.conn + 1
    <3>1. u.client = v.client /\ u.conn = v.conn /\ u.obj = v.obj
      BY <1>7, <2>3
    <3> QED BY <1>2, <2>3, <3>1, SMTT(30) DEF Task
  <2> QED BY <1>7, <2>1, <2>2, <2>3
<1>8. \A u, t : Was(u, t) => u.obj = t.obj /\ t \in Waiting
  OBVIOUS
<1>9. Few'
  <2> HIDE DEF Was
  <2>1. \A u \in Waiting' : u.obj \in Files /\ fate'[u.obj] \in {"sent", "resent"}
    BY <1>0, <1>6, <1>8 DEF CInv, Few
  <2>2. ASSUME NEW u \in Waiting', NEW v \in Waiting', u.obj = v.obj, fate'[u.obj] = "sent"
        PROVE  u = v
    BY <1>0, <1>6, <1>7, <1>8, <2>2 DEF CInv, Few
  <2>3. ASSUME NEW u \in Waiting', NEW v \in Waiting', NEW x \in Waiting',
               u.obj = v.obj, v.obj = x.obj
        PROVE  u = v \/ v = x \/ u = x
    <3>1. PICK t1, t2, t3 : Was(u, t1) /\ Was(v, t2) /\ Was(x, t3)
      BY <1>6
    <3>2. t1 = t2 \/ t2 = t3 \/ t1 = t3
      BY <1>8, <2>3, <3>1 DEF CInv, Few
    <3> QED BY <1>7, <3>1, <3>2
  <2> QED BY <2>1, <2>2, <2>3 DEF Few
<1>10. \A u \in OnItsWay' : u.client \in Clients /\ u.conn \in Nat /\ u.conn <= conn[u.client]
  BY <1>1, <1>5 DEF CInv, Newer, Waiting
<1>11. \A u \in frontend' : u.client \in Clients /\ u.conn = conn[u.client] + 1
  BY <1>1, <1>2, <1>3, SMTT(30)
<1>12. Newer'
  <2>1. ASSUME NEW u \in Waiting' PROVE u.conn <= conn'[u.client]
    <3>1. CASE u \in frontend'
      BY <1>1, <1>3, <1>11, <3>1
    <3>2. CASE u \in OnItsWay'
      BY <1>1, <1>3, <1>10, <3>2
    <3> QED BY <3>1, <3>2 DEF Waiting
  <2>2. ASSUME NEW c \in Clients, fpc'[c] = "again", NEW u \in Waiting',
               u.client = c, u.obj = hand'[c]
        PROVE  u.conn < conn'[c]
    <3>1. CASE u \in frontend'
      <4>1. PICK t \in frontend : /\ t.conn = conn[t.client]
                                  /\ u.client = t.client /\ u.obj = t.obj
        BY <1>3, <3>1
      <4>2. t \in Waiting /\ t.client = c /\ t.obj = hand[c] /\ fpc[c] = "again"
        BY <1>0, <2>2, <4>1 DEF Waiting
      <4>3. t.conn < conn[c] /\ t.conn = conn[c] /\ conn[c] \in Nat
        BY <1>1, <4>1, <4>2 DEF CInv, Newer
      <4> QED BY <4>3
    <3>2. CASE u \in OnItsWay'
      BY <1>1, <1>3, <1>10, <2>2, <3>2
    <3> QED BY <3>1, <3>2 DEF Waiting
  <2> QED BY <2>1, <2>2 DEF Newer
<1>13. Apart'
  <2>1. frontend' \cap OnItsWay' = {}
    BY <1>1, <1>10, <1>11
  <2> QED BY <1>4, <2>1 DEF CInv, Apart
<1> QED BY <1>9, <1>12, <1>13 DEF CInv

(* A forwarder hands over its file, under an identity under which it has    *)
(* not handed it over before.                                               *)
LEMMA PushCopies ==
  ASSUME IInv, FInv, CInv, NEW c \in Clients, fpc[c] \in {"send", "again"},
         Push(c), Handed(hand[c]), NEW l, l # "again", MoveOn(c, l),
         UNCHANGED <<hand, conn, inbox, chan, workerVars>>
  PROVE  CInv'
<1> DEFINE n == [client |-> c, conn |-> conn[c], obj |-> hand[c]]
<1>0. /\ fate \in [Files -> Fates] /\ fpc \in [Clients -> {"pop", "look", "parse", "send", "sent", "again", "clean", "down"}]
      /\ UNCHANGED held /\ frontend' = frontend \cup {n}
      /\ \A d \in Clients : fpc'[d] = "again" => d # c /\ fpc[d] = "again"
  BY DEF IInv, TypeOK, ForwarderTypeOK, workerVars, Push, MoveOn
<1>1. /\ Waiting \subseteq Task /\ conn \in [Clients -> Nat]
      /\ \A t \in Task : t.client \in Clients /\ t.conn \in Nat
  BY WaitingTasks
<1>2. hand[c] \in Files /\ fate[hand[c]] \in {"waiting", "sent"}
      /\ (fpc[c] = "send" => fate[hand[c]] = "waiting")
  BY DEF IInv, TypeOK, FInv, Hands, HandFates, FatesOf, ForwarderTypeOK
<1>3. \A w \in Workers : TasksOf(w)' = TasksOf(w) /\ Neat(w)' = Neat(w)
  BY <1>0, SameTasks DEF Same
<1>4. OnItsWay' = OnItsWay /\ Waiting' = Waiting \cup {n}
  <2>1. OnItsWay' = OnItsWay
    BY <1>3 DEF OnItsWay
  <2> QED BY <1>0, <2>1 DEF Waiting
<1>5. /\ fate[hand[c]] = "waiting" => \A t \in Waiting : t.obj # hand[c]
      /\ fate[hand[c]] = "sent" =>
           \A t, u \in Waiting : t.obj = hand[c] /\ u.obj = hand[c] => t = u
  BY DEF CInv, Few
<1>6. ASSUME n \in Waiting PROVE FALSE
  <2>1. n.client = c /\ n.obj = hand[c] /\ n.conn = conn[c] /\ conn[c] \in Nat
    BY <1>1
  <2>2. fate[hand[c]] = "sent" /\ fpc[c] = "again"
    BY <1>2, <1>5, <1>6, <2>1
  <2>3. n.conn < conn[c]
    BY <1>6, <2>1, <2>2 DEF CInv, Newer
  <2> QED BY <2>1, <2>3
<1>7. /\ fate' = [fate EXCEPT ![hand[c]] = IF fate[hand[c]] = "waiting" THEN "sent" ELSE "resent"]
      /\ n.obj = hand[c] /\ n.client = c /\ n.conn = conn[c]
  BY DEF Handed, Becomes
<1>8. /\ \A f \in Files : f # hand[c] => fate'[f] = fate[f]
      /\ fate'[hand[c]] \in {"sent", "resent"}
      /\ fate'[hand[c]] = "sent" => fate[hand[c]] = "waiting"
  BY <1>0, <1>2, <1>7
<1> HIDE DEF n
<1>9. Few'
  <2>1. \A t \in Waiting' : t.obj \in Files /\ fate'[t.obj] \in {"sent", "resent"}
    BY <1>2, <1>4, <1>7, <1>8 DEF CInv, Few
  <2>2. ASSUME NEW t \in Waiting', NEW u \in Waiting', t.obj = u.obj, fate'[t.obj] = "sent"
        PROVE  t = u
    <3>1. CASE t.obj = hand[c]
      BY <1>4, <1>5, <1>8, <2>2, <3>1
    <3>2. CASE t.obj # hand[c]
      <4>1. t \in Waiting /\ u \in Waiting /\ fate[t.obj] = "sent"
        BY <1>4, <1>7, <1>8, <2>1, <2>2, <3>2
      <4> QED BY <2>2, <4>1 DEF CInv, Few
    <3> QED BY <3>1, <3>2
  <2>3. ASSUME NEW t \in Waiting', NEW u \in Waiting', NEW v \in Waiting',
               t.obj = u.obj, u.obj = v.obj
        PROVE  t = u \/ u = v \/ t = v
    <3>1. CASE t.obj = hand[c]
      BY <1>2, <1>4, <1>5, <2>3, <3>1
    <3>2. CASE t.obj # hand[c]
      <4>1. t \in Waiting /\ u \in Waiting /\ v \in Waiting
        BY <1>4, <1>7, <2>3, <3>2
      <4> QED BY <2>3, <4>1 DEF CInv, Few
    <3> QED BY <3>1, <3>2
  <2> QED BY <2>1, <2>2, <2>3 DEF Few
<1>10. Newer'
  <2>1. ASSUME NEW t \in Waiting' PROVE t.conn <= conn'[t.client]
    BY <1>1, <1>4, <1>7, <2>1 DEF CInv, Newer
  <2>2. ASSUME NEW d \in Clients, fpc'[d] = "again", NEW t \in Waiting',
               t.client = d, t.obj = hand'[d]
        PROVE  t.conn < conn'[d]
    <3>1. t \in Waiting /\ fpc[d] = "again"
      BY <1>0, <1>4, <1>7, <2>2
    <3> QED BY <2>2, <3>1 DEF CInv, Newer
  <2> QED BY <2>1, <2>2 DEF Newer
<1>11. Apart'
  <2>1. frontend' \cap OnItsWay' = {}
    BY <1>0, <1>4, <1>6 DEF CInv, Apart, Waiting
  <2> QED BY <1>3, <2>1 DEF CInv, Apart
<1> QED BY <1>9, <1>10, <1>11 DEF CInv

(* A forwarder adds a copy of its file only when it hands it over.          *)
LEMMA ForwarderCopies ==
  ASSUME IInv, IInv', FInv, CInv, NEW c \in Clients, ForwarderStep(c)
  PROVE  CInv'
<1> USE DEF MoveOn, LetGo, Becomes, redisVars, wireVars
<1>0. /\ hand[c] # 0 => fate[hand[c]] \in FatesOf(fpc[c])
      /\ hand[c] # 0 <=> fpc[c] \notin {"pop", "down"}
      /\ fate \in [Files -> Fates] /\ hand \in [Clients -> Files \cup {0}]
      /\ fpc \in [Clients -> {"pop", "look", "parse", "send", "sent", "again", "clean", "down"}]
      /\ conn \in [Clients -> Nat] /\ conn' \in [Clients -> Nat]
      /\ UNCHANGED <<workerVars, inbox, chan>>
  BY ForwarderType DEF ForwarderStep, IInv, TypeOK, WireTypeOK, ForwarderTypeOK, FInv, Hands, HandFates
<1>1. \A w \in Workers : TasksOf(w)' = TasksOf(w) /\ Neat(w)'
  BY <1>0, SameTasks DEF Same, workerVars, CInv, Apart
<1>2. \A d \in Clients : conn[d] <= conn[d]
  BY <1>0
<1>3. ASSUME NEW l, l # "again", fpc' = [fpc EXCEPT ![c] = l], NEW h,
             hand' = [hand EXCEPT ![c] = h], UNCHANGED <<conn, frontend>>,
             \A f \in Files : fate[f] \in {"sent", "resent"} => fate'[f] = fate[f]
      PROVE  CInv'
  <2>1. \A d \in Clients : fpc'[d] = "again" => fpc[d] = "again" /\ hand'[d] = hand[d]
    BY <1>0, <1>3
  <2> QED BY <1>0, <1>1, <1>2, <1>3, <2>1, NoMoreCopies
<1>4. ASSUME Reconnect(c, {}), NEW l, fpc' = [fpc EXCEPT ![c] = l], UNCHANGED fate,
             \A d \in Clients \ {c} : hand'[d] = hand[d]
      PROVE  CInv'
  <2>1. /\ frontend' \subseteq frontend /\ conn' = [conn EXCEPT ![c] = @ + 1]
    BY <1>4 DEF Reconnect
  <2>2. \A d \in Clients : conn[d] <= conn'[d] /\ (d = c => conn'[d] = conn[d] + 1)
    BY <1>0, <2>1
  <2>3. \A d \in Clients : fpc'[d] = "again" =>
           conn'[d] = conn[d] + 1 \/ (fpc[d] = "again" /\ hand'[d] = hand[d])
    BY <1>0, <1>4, <2>2
  <2> QED BY <1>0, <1>1, <1>4, <2>1, <2>2, <2>3, NoMoreCopies
<1>5. ASSUME fpc[c] \in {"send", "again"}, Push(c), Handed(hand[c]), UNCHANGED <<hand, conn>>,
             MoveOn(c, "clean") \/ MoveOn(c, "sent")
      PROVE  CInv'
  BY <1>0, <1>5, PushCopies
<1>6. ASSUME UNCHANGED hand PROVE hand' = [hand EXCEPT ![c] = hand[c]]
  BY <1>0, <1>6
<1>7. ASSUME Skip(c), fpc[c] \in {"look", "parse"} PROVE CInv'
  <2>1. hand[c] \in Files /\ fate[hand[c]] \in {"waiting", "partial"}
    BY <1>0, <1>7 DEF FatesOf
  <2>2. \A f \in Files : fate[f] \in {"sent", "resent"} => fate'[f] = fate[f]
    BY <1>0, <1>7, <2>1 DEF Skip
  <2> QED BY <1>3, <1>7, <2>2 DEF Skip, DeleteKeys
<1>8. ASSUME EndForwarder(c) PROVE CInv'
  <2>1. \A d \in Clients \ {c} : hand'[d] = hand[d]
    BY <1>0, <1>8 DEF EndForwarder
  <2> QED BY <1>4, <1>8, <2>1 DEF EndForwarder
<1>9. ASSUME Swallowed(c) PROVE CInv'
  <2>1. CASE fpc[c] = "parse" /\ Skip(c)
    BY <1>7, <2>1
  <2>2. CASE /\ fpc[c] \in {"send", "sent"} /\ Reconnect(c, {}) /\ MoveOn(c, "again")
             /\ UNCHANGED <<redisVars, hand, fate, inbox, chan, sock>>
    BY <1>4, <2>2
  <2>3. CASE /\ fpc[c] = "again" /\ MoveOn(c, "clean") /\ UNCHANGED <<redisVars, hand>>
             /\ Becomes(hand[c], IF fate[hand[c]] = "waiting" THEN "refused" ELSE fate[hand[c]])
             /\ UNCHANGED wireVars
    <3>1. \A f \in Files : fate[f] \in {"sent", "resent"} => fate'[f] = fate[f]
      BY <1>0, <2>3
    <3> QED BY <1>3, <1>6, <2>3, <3>1
  <2>4. CASE /\ fpc[c] = "again" /\ MoveOn(c, "clean") /\ UNCHANGED <<redisVars, hand>>
             /\ Push(c) /\ Handed(hand[c]) /\ UNCHANGED <<conn, mail, inbox, chan, sock>>
    BY <1>5, <2>4
  <2> QED BY <1>9, <2>1, <2>2, <2>3, <2>4 DEF Swallowed
<1>10. CASE Pop(c)
  BY <1>3, <1>10 DEF Pop
<1>11. CASE LookUp(c)
  <2>1. CASE MoveOn(c, "parse") /\ UNCHANGED <<hand, fate, wireVars>>
    BY <1>3, <1>6, <2>1
  <2> QED BY <1>7, <1>11, <2>1 DEF LookUp
<1>12. CASE Parse(c)
  <2>1. CASE MoveOn(c, "send") /\ UNCHANGED <<hand, fate, wireVars>>
    BY <1>3, <1>6, <2>1
  <2> QED BY <1>7, <1>12, <2>1 DEF Parse
<1>13. CASE SendOnly(c) \/ SendOnlyAgain(c)
  BY <1>5, <1>13 DEF SendOnly, SendOnlyAgain
<1>14. CASE SendReturns(c)
  BY <1>3, <1>6, <1>14 DEF SendReturns
<1>15. CASE CleanUp(c)
  BY <1>3, <1>15 DEF CleanUp, DeleteKeys
<1>16. CASE ParseFails(c) \/ ForwarderKill(c)
  BY <1>8, <1>16 DEF ParseFails, ForwarderKill
<1>17. CASE ForwarderSignal(c)
  BY <1>8, <1>9, <1>17 DEF ForwarderSignal
<1>18. CASE ForwarderStart(c)
  BY <1>3, <1>6, <1>18 DEF ForwarderStart
<1> QED BY <1>10, <1>11, <1>12, <1>13, <1>14, <1>15, <1>16, <1>17, <1>18
        DEF ForwarderStep, ForwarderWork

(* A worker keeps its tasks to itself, or loses some.                       *)
LEMMA WorkerCopies ==
  ASSUME IInv, IInv', CInv, NEW w \in Workers, WorkerStep(w)
  PROVE  CInv'
<1>0. /\ QueuesOK /\ QueuesOK' /\ WorkerPart /\ WorkerActs(w, BrokerUp)
      /\ UNCHANGED <<fate, fpc, hand>> /\ conn \in [Clients -> Nat]
  BY InvQueues DEF WorkerStep, WorkerWork, WorkerActs, forwarderVars, IInv, TypeOK, WireTypeOK,
                   WorkerTypeOK, QueuesOK
<1>1. UNCHANGED <<conn, frontend>>
  BY <1>0 DEF WorkerActs, Boot, Take, GraceTake, Receive, PollTimeout, Finish, GraceFinish,
              GraceTimeout, Sent, Exit, Die, ScanError, WorkerSignal, WorkerKill, wireVars
<1>2. /\ Works(w) \/ Boot(w) \/ PollTimeout(w) \/ Loses(w)
      /\ \A v \in Workers \ {w} : Same(v)
  BY <1>0, WorkerQueues
<1>3. Works(w) \/ \A v \in Workers : Shrinks(v)
  BY <1>0, WorkerEffect
<1>4. \A v \in Workers : TasksOf(v)' \subseteq TasksOf(v) /\ Neat(v)'
  <2>1. CASE Works(w)
    <3>1. TasksOf(w)' = TasksOf(w) /\ (Neat(w) => Neat(w)')
      BY <1>0, <2>1, TakingUp, Completing DEF Works
    <3>2. \A v \in Workers \ {w} : TasksOf(v)' = TasksOf(v) /\ Neat(v)' = Neat(v)
      BY <1>2, SameTasks
    <3> QED BY <3>1, <3>2 DEF CInv, Apart
  <2>2. CASE \A v \in Workers : Shrinks(v)
    BY <1>0, <2>2, Shrinking DEF CInv, Apart
  <2> QED BY <1>3, <2>1, <2>2
<1>5. \A c \in Clients : conn[c] <= conn'[c]
  BY <1>0, <1>1
<1> QED BY <1>0, <1>1, <1>4, <1>5, NoMoreCopies

(* So every step keeps the copies few and apart,                            *)
LEMMA CopyStep ==
  ASSUME IInv, IInv', FInv, CInv, [Next]_vars
  PROVE  CInv'
<1>0. QueuesOK /\ QueuesOK' /\ conn \in [Clients -> Nat] /\ \A c \in Clients : conn[c] <= conn[c]
  BY InvQueues DEF IInv, TypeOK, WireTypeOK, WorkerTypeOK, QueuesOK
<1>1. ASSUME UNCHANGED <<conn, frontend, hand, fpc>>,
             \A f \in Files : fate[f] \in {"sent", "resent"} => fate'[f] = fate[f],
             \A w \in Workers : TasksOf(w)' \subseteq TasksOf(w) /\ Neat(w)'
      PROVE  CInv'
  BY <1>0, <1>1, NoMoreCopies
<1>2. ASSUME UNCHANGED <<inbox, chan, held>>
      PROVE  \A w \in Workers : TasksOf(w)' \subseteq TasksOf(w) /\ Neat(w)'
  BY <1>2, SameTasks DEF Same, CInv, Apart
<1>3. CASE BrokerStep
  <2>0. UNCHANGED <<workerVars, forwarderVars>> /\ UNCHANGED <<held, fate, hand, fpc>>
    BY <1>3 DEF BrokerStep, workerVars, forwarderVars
  <2>1. ASSUME NEW w \in Workers, OnWorkerStatus(w) PROVE CInv'
    <3>1. /\ \A v \in Workers \ {w} : Same(v)
          /\ chan[w] # <<>> /\ chan'[w] = Tail(chan[w])
          /\ inbox'[w] = inbox[w] /\ held'[w] = held[w]
          /\ UNCHANGED <<conn, frontend>>
      BY <2>0, <2>1, StatusEffect
    <3>2. \A v \in Workers \ {w} : TasksOf(v)' = TasksOf(v) /\ Neat(v)' = Neat(v)
      BY <3>1, SameTasks
    <3>3. Shrinks(w)
      <4>1. chan[w] \in Seq(WorkerMsg) /\ inbox[w] \in Seq(Task) /\ chan'[w] \in Seq(WorkerMsg)
        BY <1>0 DEF QueuesOK
      <4>2. Window(chan'[w], chan[w]) /\ Window(inbox'[w], inbox[w])
        BY <3>1, <4>1, PlainWindows
      <4> QED BY <1>0, <3>1, <4>1, <4>2, LosingShrinks
    <3>4. TasksOf(w)' \subseteq TasksOf(w) /\ (Neat(w) => Neat(w)')
      BY <1>0, <3>3, Shrinking
    <3> QED BY <1>1, <2>0, <3>1, <3>2, <3>4 DEF CInv, Apart
  <2>2. ASSUME NEW t \in frontend, ForwardTask(t) PROVE CInv'
    BY <2>0, <2>2, ForwardCopies
  <2>3. ASSUME StopBroker PROVE CInv'
    BY <2>0, <2>3, StopCopies
  <2> QED BY <1>3, <2>1, <2>2, <2>3 DEF BrokerStep
<1>4. CASE SupervisorStep
  <2>1. ASSUME UNCHANGED <<wireVars, forwarderVars, held>> PROVE CInv'
    BY <1>1, <1>2, <2>1 DEF wireVars, forwarderVars
  <2>2. ASSUME SupKillWorkers(BrokerUp), UNCHANGED forwarderVars PROVE CInv'
    <3>1. \A w \in Workers : Shrinks(w)
      BY <1>0, <2>2, KillWorkersShrinks
    <3>2. \A w \in Workers : TasksOf(w)' \subseteq TasksOf(w) /\ Neat(w)'
      BY <1>0, <3>1, Shrinking DEF CInv, Apart
    <3> QED BY <1>1, <2>2, <3>2 DEF SupKillWorkers, forwarderVars
  <2>3. ASSUME StopBroker, UNCHANGED <<workerVars, forwarderVars>> PROVE CInv'
    BY <2>3, StopCopies
  <2> QED BY <1>4, <2>1, <2>2, <2>3
          DEF SupervisorStep, ReplaceWorker, SupStop, StartBroker, workerVars
<1>5. CASE Suricata
  <2>1. \A f \in Files : fate[f] \in {"sent", "resent"} => fate'[f] = fate[f]
    BY <1>5 DEF Suricata, Arrive, Becomes, FInv, HandFates, IInv, TypeOK, ForwarderTypeOK
  <2> QED BY <1>1, <1>2, <1>5, <2>1 DEF Suricata, Arrive, wireVars, workerVars
<1>6. CASE UNCHANGED vars
  BY <1>1, <1>2, <1>6 DEF vars, wireVars, workerVars, forwarderVars
<1> QED BY <1>3, <1>4, <1>5, <1>6, WorkerCopies, ForwarderCopies DEF Next

(* and they always are.                                                     *)
LEMMA CopyInvariant == Spec => [](IInv /\ FInv /\ CInv)
BY InitInv, StepInv, ForwardInit, ForwardStep, CopyInit, CopyStep, PTL DEF Spec

(* At most one, and at most two, in terms of how many there are.            *)
LEMMA FewElements ==
  ASSUME NEW S
  PROVE  /\ S = {} => Cardinality(S) = 0
         /\ (\A x, y \in S : x = y) => Cardinality(S) <= 1
         /\ (\A x, y, z \in S : x = y \/ y = z \/ x = z) => Cardinality(S) <= 2
<1>1. Cardinality({}) = 0
  BY FS_EmptySet
<1>2. ASSUME NEW x PROVE Cardinality({x}) = 1
  BY FS_Singleton
<1>3. ASSUME NEW x, NEW y, x # y PROVE Cardinality({x, y}) = 2
  <2>1. IsFiniteSet({x}) /\ {x, y} = {x} \cup {y}
    BY FS_Singleton
  <2>2. Cardinality({x} \cup {y}) = Cardinality({x}) + 1
    BY <1>3, <2>1, FS_AddElement
  <2> QED BY <1>2, <2>1, <2>2
<1>4. ASSUME \A x, y \in S : x = y PROVE Cardinality(S) <= 1
  <2>1. CASE S = {}
    BY <1>1, <2>1
  <2>2. CASE S # {}
    <3>1. PICK x : S = {x}
      BY <1>4, <2>2
    <3> QED BY <1>2, <3>1
  <2> QED BY <2>1, <2>2
<1>5. ASSUME \A x, y, z \in S : x = y \/ y = z \/ x = z PROVE Cardinality(S) <= 2
  <2>1. CASE \A x, y \in S : x = y
    <3>1. CASE S = {}
      BY <1>1, <3>1
    <3>2. CASE S # {}
      <4>1. PICK x : S = {x}
        BY <2>1, <3>2
      <4> QED BY <1>2, <4>1
    <3> QED BY <3>1, <3>2
  <2>2. CASE \E x, y \in S : x # y
    <3>1. PICK x, y \in S : x # y
      BY <2>2
    <3>2. S = {x, y}
      BY <1>5, <3>1
    <3>3. Cardinality({x, y}) = 2
      BY <1>3, <3>1
    <3> QED BY <3>2, <3>3
  <2> QED BY <2>1, <2>2
<1> QED BY <1>1, <1>4, <1>5

(* A file waits at the broker, or is with a worker, at most once if it was  *)
(* handed over once, and in one place; twice only after a second try; not   *)
(* at all if it was never handed over.                                      *)
THEOREM CopiesAreFew == Spec => []OneCopy
<1>1. IInv /\ CInv => OneCopy
  <2> SUFFICES ASSUME IInv, CInv PROVE OneCopy
    OBVIOUS
  <2>1. \A w \in Workers : Cardinality(TasksOf(w)) = Load(w)
    BY InvQueues, NeatCount DEF CInv, Apart
  <2>2. ASSUME NEW f \in Files
        PROVE  Cardinality(CopiesOf(f)) <= CASE fate[f] = "resent" -> 2
                                             [] fate[f] = "sent" -> 1
                                             [] OTHER -> 0
    <3>1. \A t \in CopiesOf(f) : t \in Waiting /\ t.obj = f
      BY DEF CopiesOf, Waiting
    <3>2. CASE fate[f] = "resent"
      <4>1. \A x, y, z \in CopiesOf(f) : x = y \/ y = z \/ x = z
        BY <3>1 DEF CInv, Few
      <4> QED BY <3>2, <4>1, FewElements
    <3>3. CASE fate[f] = "sent"
      <4>1. \A x, y \in CopiesOf(f) : x = y
        BY <3>1, <3>3 DEF CInv, Few
      <4> QED BY <3>3, <4>1, FewElements
    <3>4. CASE fate[f] \notin {"sent", "resent"}
      <4>1. CopiesOf(f) = {}
        BY <3>1, <3>4 DEF CInv, Few
      <4>2. Cardinality(CopiesOf(f)) = 0
        BY <4>1, FewElements
      <4> QED BY <3>4, <4>2
    <3> QED BY <3>2, <3>3, <3>4
  <2> QED BY <2>1, <2>2 DEF OneCopy, CInv, Apart
<1> QED BY <1>1, CopyInvariant, PTL
===========================================================================
