------------------------ MODULE LaikadServiceProofs ------------------------
(***************************************************************************)
(* What the callers of send() see of laikad: where nothing fails no        *)
(* request is lost, and where only clients and workers fail laikad is the  *)
(* scan service of module ScanService.                                     *)
(***************************************************************************)
EXTENDS LaikadProofs

(* A worker that will not take another task, and one that may take one more.*)
Leaving(w) ==
  pc[w] \in {"off", "boot", "close", "gracesent"} \/ (pc[w] = "sent" /\ stop[w])
Retiring(w) == pc[w] \in {"grace", "gracescan"}

(* The last the broker will hear of w.                                      *)
LastWord(w, status) == chan[w] # <<>> => Last(chan[w]).status = status

(* A worker that is leaving has nothing left to do but to have its result   *)
(* heard; one that is retiring is listed only as long as its QUIT is not    *)
(* heard.                                                                   *)
Farewell(w) ==
  /\ Leaving(w) => /\ inbox[w] = <<>> /\ ~Contains(avail, w)
                   /\ LastWord(w, "RESULT_QUIT")
  /\ Retiring(w) => /\ LastWord(w, "QUIT")
                    /\ chan[w] = <<>> => ~Contains(avail, w)

Farewells == \A w \in Workers : Farewell(w)

(* A worker that is at work has its one task; no request is lost.           *)
Exact == \A w \in Workers : Contains(working, w) => Load(w) = 1

Settled ==
  /\ broker = "run" /\ supPc = "watch"
  /\ \A c \in Clients :
       /\ conn[c] = 0
       /\ cpc[c] = "idle" => ~dirty[c]
       /\ cpc[c] = "wait" => CurrentAttempt(c) \in frontend \cup OnItsWay \cup Delivered

Calm == Farewells /\ Exact /\ Settled

(* A reply that waits at a socket came over the present connection.         *)
MailCurrent == \A c \in Clients : \A i \in DOMAIN mail[c] : mail[c][i].conn = conn[c]

---------------------------------------------------------------------------
(* What is used of the invariant of LaikadProofs.                           *)
LEMMA IInvParts ==
  ASSUME IInv
  PROVE  /\ QueuesOK /\ WorkerPart
         /\ conn \in [Clients -> Nat] /\ mail \in [Clients -> Seq(Task)]
         /\ frontend \subseteq Task
         /\ obj \in [Clients -> Nat] /\ cpc \in [Clients -> {"idle", "wait"}]
         /\ avail \in Seq(Workers) /\ working \in Seq(Workers)
         /\ IsInjective(avail) /\ IsInjective(working)
         /\ ToSet(avail) \cap ToSet(working) = {}
         /\ \A w \in Workers : Contains(avail, w) => ~Contains(working, w)
<1>1. avail \in Seq(Workers) /\ working \in Seq(Workers)
  BY DEF IInv, TypeOK, BrokerTypeOK
<1>2. \A w \in Workers : Contains(avail, w) => ~Contains(working, w)
  <2>1. \A w \in Workers : Contains(avail, w) <=> w \in ToSet(avail)
    BY <1>1, ContainsIsMember
  <2>2. \A w \in Workers : Contains(working, w) <=> w \in ToSet(working)
    BY <1>1, ContainsIsMember
  <2> QED BY <2>1, <2>2 DEF IInv, BrokerLists
<1> QED BY <1>1, <1>2, InvQueues
    DEF IInv, TypeOK, WireTypeOK, ClientTypeOK, BrokerLists, WorkerPart

(* What the broker hears from w changes its mind on w only.                 *)
LEMMA HearElsewhere ==
  ASSUME IInv, NEW w \in Workers, OnWorkerMessage(w)
  PROVE  \A v \in Workers \ {w} : Contains(avail', v) => Contains(avail, v)
<1>0. avail \in Seq(Workers) /\ IsInjective(avail)
  BY IInvParts
<1>1. \A v \in Workers : Contains(avail, v) <=> v \in ToSet(avail)
  BY <1>0, ContainsIsMember
<1>2. ASSUME NEW busy, avail' = Readmit(w, avail, busy)
      PROVE  \A v \in Workers \ {w} : Contains(avail', v) => Contains(avail, v)
  <2>1. CASE avail' = avail
    BY <2>1
  <2>2. CASE avail' = Append(avail, w)
    <3>1. avail' \in Seq(Workers) /\ ToSet(avail') = ToSet(avail) \cup {w}
      BY <1>0, <2>2, AppendAny, AppendProperties
    <3>2. \A v \in Workers : Contains(avail', v) <=> v \in ToSet(avail')
      BY <3>1, ContainsIsMember
    <3> QED BY <1>1, <3>1, <3>2
  <2> QED BY <1>2, <2>1, <2>2 DEF Readmit
<1>3. ASSUME avail' = RemoveFirst(avail, w)
      PROVE  \A v \in Workers : Contains(avail', v) <=> v # w /\ Contains(avail, v)
  <2>1. avail' \in Seq(Workers) /\ ToSet(avail') = ToSet(avail) \ {w}
    BY <1>0, <1>3, RemoveFromInjective
  <2>2. \A v \in Workers : Contains(avail', v) <=> v \in ToSet(avail')
    BY <2>1, ContainsIsMember
  <2> QED BY <1>1, <2>1, <2>2
<1>4. CASE OnReady(w)
  BY <1>2, <1>4 DEF OnReady
<1>5. ASSUME NEW t, OnResultReady(w, t)
      PROVE  \A v \in Workers \ {w} : Contains(avail', v) => Contains(avail, v)
  BY <1>2, <1>5 DEF OnResultReady
<1>6. ASSUME NEW t, OnResultQuit(w, t)
      PROVE  \A v \in Workers \ {w} : Contains(avail', v) => Contains(avail, v)
  BY <1>6 DEF OnResultQuit
<1>7. CASE OnQuit(w)
  BY <1>3, <1>7 DEF OnQuit
<1> QED BY <1>4, <1>5, <1>6, <1>7 DEF OnWorkerMessage

(* A result in the channel of w is a task of w.                             *)
LEMMA ResultCounts ==
  ASSUME QueuesOK, NEW w \in Workers
  PROVE  /\ \A i \in DOMAIN chan[w] : chan[w][i].status \in ResultStatus => Load(w) >= 1
         /\ \A i, j \in DOMAIN chan[w] :
              chan[w][i].status \in ResultStatus /\ chan[w][j].status \in ResultStatus /\ i # j
                => Load(w) >= 2
<1>1. /\ Len(inbox[w]) \in Nat /\ Holds(w) \in {0, 1}
      /\ Cardinality(ResultsIn(chan[w])) \in Nat
  BY LoadIsNatural
<1>2. Load(w) >= Cardinality(ResultsIn(chan[w])) /\ Load(w) \in Nat
  BY <1>1 DEF Load
<1>3. IsFiniteSet(ResultsIn(chan[w]))
  <2>1. chan[w] \in Seq(WorkerMsg)
    BY DEF QueuesOK
  <2> QED BY <2>1, StatusPlaces DEF ResultsIn
<1>4. ASSUME NEW i \in DOMAIN chan[w], chan[w][i].status \in ResultStatus
      PROVE  Load(w) >= 1
  <2>1. i \in ResultsIn(chan[w])
    BY <1>4 DEF ResultsIn, WithStatus
  <2>2. Cardinality(ResultsIn(chan[w])) # 0
    BY <1>3, <2>1, FS_EmptySet
  <2> QED BY <1>1, <1>2, <2>2
<1>5. ASSUME NEW i \in DOMAIN chan[w], NEW j \in DOMAIN chan[w], i # j,
             chan[w][i].status \in ResultStatus, chan[w][j].status \in ResultStatus
      PROVE  Load(w) >= 2
  <2>1. {i, j} \subseteq ResultsIn(chan[w])
    BY <1>5 DEF ResultsIn, WithStatus
  <2>2. Cardinality({i, j}) = 2
    <3>1. IsFiniteSet({i}) /\ Cardinality({i}) = 1
      BY FS_Singleton
    <3>2. Cardinality({i} \cup {j}) = Cardinality({i}) + 1
      BY <1>5, <3>1, FS_AddElement
    <3>3. {i} \cup {j} = {i, j}
      OBVIOUS
    <3> QED BY <3>1, <3>2, <3>3
  <2>3. Cardinality({i, j}) <= Cardinality(ResultsIn(chan[w]))
    BY <1>3, <2>1, FS_Subset
  <2> QED BY <1>1, <1>2, <2>2, <2>3
<1> QED BY <1>4, <1>5

(* The broker hears what a worker has to say.                               *)
LEMMA HearFarewell ==
  ASSUME IInv, Calm, OneTaskPerWorker, NEW w \in Workers, OnWorkerMessage(w),
         UNCHANGED <<pc, stop>>
  PROVE  Farewell(w)'
<1> DEFINE s == chan[w]
<1>0. /\ QueuesOK /\ s \in Seq(WorkerMsg) /\ s # <<>>
      /\ chan'[w] = Tail(s) /\ inbox'[w] = inbox[w]
      /\ avail \in Seq(Workers) /\ IsInjective(avail)
      /\ Farewell(w)
  BY IInvParts DEF OnWorkerMessage, QueuesOK, Calm, Farewells
<1>1. /\ Len(s) \in DOMAIN s /\ s[Len(s)] = Last(s)
      /\ Tail(s) # <<>> => Last(Tail(s)) = Last(s)
      /\ Tail(s) = <<>> => Head(s) = Last(s)
      /\ Head(s) = s[1] /\ 1 \in DOMAIN s
  <2>1. Head(s) = s[1] /\ 1 \in DOMAIN s
    BY <1>0, HeadTailProperties, EmptySeq
  <2> QED BY <1>0, <2>1, LastOfTail
<1>2. Load(w) \in Nat /\ Load(w) <= 1 /\ (Load(w) = 1 => Contains(working, w))
  BY <1>0, LoadIsNatural DEF OneTaskPerWorker
<1> HIDE DEF s
<1>3. \A status \in {"QUIT", "RESULT_QUIT"} :
        Last(s).status = status => (LastWord(w, status))'
  BY <1>0, <1>1 DEF LastWord
<1>4. Head(s).status = "QUIT" => ~Contains(avail', w)
  <2>1. ASSUME Head(s).status = "QUIT" PROVE ~Contains(avail', w)
    <3>1. avail' = RemoveFirst(avail, w)
      BY <2>1 DEF OnWorkerMessage, OnQuit, s
    <3>2. avail' \in Seq(Workers) /\ ToSet(avail') = ToSet(avail) \ {w}
      BY <1>0, <3>1, RemoveFromInjective
    <3> QED BY <3>2, ContainsIsMember
  <2> QED BY <2>1
<1>5. ASSUME Leaving(w)
      PROVE  inbox'[w] = <<>> /\ ~Contains(avail', w) /\ (LastWord(w, "RESULT_QUIT"))'
  <2>1. /\ inbox[w] = <<>> /\ ~Contains(avail, w) /\ Last(s).status = "RESULT_QUIT"
    BY <1>0, <1>5 DEF Farewell, LastWord, s
  <2>2. Contains(working, w)
    <3>1. Load(w) >= 1
      BY <1>0, <1>1, <2>1, ResultCounts DEF ResultStatus, s
    <3> QED BY <1>2, <3>1
  <2>3. ~Contains(avail', w)
    <3>1. CASE Head(s).status = "READY"
      BY <2>1, <2>2, <3>1 DEF OnWorkerMessage, OnReady, Readmit, s
    <3>2. CASE Head(s).status = "RESULT_READY"
      <4>1. 1 # Len(s)
        BY <1>1, <2>1, <3>2
      <4>2. Load(w) >= 2
        BY <1>0, <1>1, <2>1, <3>2, <4>1, ResultCounts DEF ResultStatus, s
      <4> QED BY <1>2, <4>2
    <3>3. CASE Head(s).status = "RESULT_QUIT"
      BY <2>1, <3>3 DEF OnWorkerMessage, OnResultQuit, s
    <3> QED BY <1>4, <3>1, <3>2, <3>3 DEF OnWorkerMessage, s
  <2> QED BY <1>0, <1>3, <2>1, <2>3
<1>6. ASSUME Retiring(w)
      PROVE  (LastWord(w, "QUIT"))' /\ (chan'[w] = <<>> => ~Contains(avail', w))
  <2>1. Last(s).status = "QUIT"
    BY <1>0, <1>6 DEF Farewell, LastWord, s
  <2> QED BY <1>0, <1>1, <1>3, <1>4, <2>1
<1>7. Leaving(w)' = Leaving(w) /\ Retiring(w)' = Retiring(w)
  BY DEF Leaving, Retiring
<1> QED BY <1>5, <1>6, <1>7 DEF Farewell

(* The worker that says or does something.                                  *)
LEMMA WorkFarewell ==
  ASSUME Faults = {}, IInv, Calm, OneTaskPerWorker, NEW w \in Workers,
         WorkerWork(w) \/ PollTimeout(w), UNCHANGED brokerVars
  PROVE  Farewell(w)'
<1> USE DEF Goto
<1>0. /\ QueuesOK /\ WorkerPart /\ chan[w] \in Seq(WorkerMsg) /\ avail' = avail
      /\ Farewell(w) /\ broker = "run"
  BY IInvParts DEF QueuesOK, Calm, Farewells, Settled, brokerVars
<1>1. /\ pc \in [Workers -> {"off", "boot", "poll", "scan", "sent", "grace",
                            "gracescan", "gracesent", "close"}]
      /\ stop \in [Workers -> BOOLEAN]
  BY <1>0 DEF WorkerPart, WorkerTypeOK
<1> DEFINE says(status) == [status |-> status, task |-> None]
<1>2. ASSUME pc'[w] \in {"poll", "scan"} PROVE Farewell(w)'
  BY <1>2 DEF Farewell, Leaving, Retiring
<1>3. ASSUME NEW m \in WorkerMsg, chan' = [chan EXCEPT ![w] = Append(@, m)]
      PROVE  chan'[w] # <<>> /\ Last(chan'[w]) = m
  <2>1. chan'[w] = Append(chan[w], m)
    BY <1>0, <1>3 DEF QueuesOK
  <2> QED BY <1>0, <2>1, LastOfAppend
<1>4. ASSUME pc[w] \in Scanning
      PROVE  inbox[w] = <<>> /\ ~Contains(avail, w)
  <2>1. Holds(w) = 1
    BY <1>0, <1>4 DEF Holds, WorkerPart, HeldWhileScanning
  <2>2. Load(w) = Len(inbox[w]) + Holds(w) + Cardinality(ResultsIn(chan[w]))
    BY DEF Load
  <2>3. /\ Load(w) \in Nat /\ Load(w) <= 1 /\ Len(inbox[w]) \in Nat
        /\ Cardinality(ResultsIn(chan[w])) \in Nat
    BY <1>0, LoadIsNatural DEF OneTaskPerWorker
  <2>4. Load(w) = 1 /\ Len(inbox[w]) = 0
    BY <2>1, <2>2, <2>3
  <2>5. inbox[w] = <<>>
    BY <1>0, <2>4, EmptySeq DEF QueuesOK
  <2>6. ~Contains(avail, w)
    BY <2>4, IInvParts DEF OneTaskPerWorker
  <2> QED BY <2>5, <2>6
<1>5. ASSUME NEW status, NEW t \in Task, status = "RESULT_QUIT",
             pc[w] \in Scanning, UNCHANGED inbox,
             SendToBroker(w, [status |-> status, task |-> t]),
             pc'[w] \in {"sent", "gracesent"}
      PROVE  Farewell(w)'
  <2> DEFINE m == [status |-> status, task |-> t]
  <2>1. m \in WorkerMsg /\ m.status = "RESULT_QUIT"
    BY <1>5 DEF WorkerMsg, ResultStatus
  <2>2. chan' = [chan EXCEPT ![w] = Append(@, m)]
    BY <1>5 DEF SendToBroker
  <2> HIDE DEF m
  <2>3. Last(chan'[w]) = m
    BY <1>3, <2>1, <2>2
  <2> QED BY <1>0, <1>4, <1>5, <2>1, <2>3 DEF Farewell, Retiring, LastWord
<1>6. CASE Boot(w) \/ Take(w)
  BY <1>1, <1>2, <1>6 DEF Boot, Take, Receive
<1>7. CASE PollTimeout(w)
  <2>1. CASE pc' = pc
    BY <1>2, <1>7, <2>1 DEF PollTimeout
  <2>2. CASE SendToBroker(w, says("QUIT")) /\ pc' = [pc EXCEPT ![w] = "grace"]
    <3>1. says("QUIT") \in WorkerMsg
      BY DEF WorkerMsg
    <3>2. chan'[w] # <<>> /\ Last(chan'[w]) = says("QUIT") /\ pc'[w] = "grace"
      BY <1>1, <1>3, <2>2, <3>1 DEF SendToBroker
    <3> QED BY <3>2 DEF Farewell, Leaving, Retiring, LastWord
  <2> QED BY <1>7, <2>1, <2>2 DEF PollTimeout
<1>8. CASE Finish(w)
  <2>1. PICK shouldQuit \in BOOLEAN :
          /\ stop' = [stop EXCEPT ![w] = shouldQuit]
          /\ SendToBroker(w, [status |-> IF shouldQuit THEN "RESULT_QUIT" ELSE "RESULT_READY",
                              task |-> held[w]])
    BY <1>8 DEF Finish
  <2>2. pc[w] \in Scanning /\ pc'[w] = "sent" /\ UNCHANGED inbox
    BY <1>1, <1>8 DEF Finish, Scanning
  <2>3. held[w] \in Task
    BY <1>0, <2>2 DEF WorkerPart, HeldWhileScanning, QueuesOK
  <2>4. stop'[w] = shouldQuit
    BY <1>1, <2>1, Zenon
  <2>5. CASE shouldQuit
    <3> DEFINE status == IF shouldQuit THEN "RESULT_QUIT" ELSE "RESULT_READY"
    <3>1. status = "RESULT_QUIT"
      BY <2>5
    <3> QED BY <1>5, <2>1, <2>2, <2>3, <3>1
  <2>6. CASE ~shouldQuit
    BY <2>2, <2>4, <2>6 DEF Farewell, Leaving, Retiring
  <2> QED BY <2>5, <2>6
<1>9. CASE GraceFinish(w)
  <2>1. /\ pc[w] \in Scanning /\ pc'[w] = "gracesent" /\ UNCHANGED inbox
        /\ SendToBroker(w, [status |-> "RESULT_QUIT", task |-> held[w]])
    BY <1>1, <1>9 DEF GraceFinish, Scanning
  <2>2. held[w] \in Task
    BY <1>0, <2>1 DEF WorkerPart, HeldWhileScanning, QueuesOK
  <2> QED BY <1>5, <2>1, <2>2
<1>10. CASE Sent(w, BrokerUp)
  <2>1. UNCHANGED <<chan, inbox, stop>>
    BY <1>10 DEF Sent, wireVars
  <2>2. \/ Leaving(w) /\ pc'[w] = "close"
        \/ pc'[w] = "poll"
    BY <1>1, <1>10 DEF Sent, Leaving
  <2>3. CASE Leaving(w) /\ pc'[w] = "close"
    BY <1>0, <2>1, <2>3 DEF Farewell, Retiring, LastWord
  <2> QED BY <1>2, <2>2, <2>3
<1>11. CASE GraceTake(w)
  BY <1>0, <1>1, <1>11 DEF GraceTake, Receive, Farewell, Leaving, Retiring, LastWord
<1>12. CASE GraceTimeout(w)
  BY <1>0, <1>1, <1>12 DEF GraceTimeout, wireVars, Farewell, Leaving, Retiring, LastWord
<1>13. CASE Exit(w, BrokerUp)
  <2>1. pc[w] = "close" /\ pc'[w] = "off" /\ inbox'[w] = <<>> /\ chan'[w] = chan[w]
    BY <1>0, <1>1, <1>13 DEF Exit, Die, LoseWorker, QueuesOK, BrokerUp
  <2> QED BY <1>0, <2>1 DEF Farewell, Leaving, Retiring, LastWord
<1> QED BY <1>6, <1>7, <1>8, <1>9, <1>10, <1>11, <1>12, <1>13 DEF WorkerWork

(* Where nothing fails, a step of a worker leaves its tasks where they are, *)
(* and does not touch the other workers.                                    *)
LEMMA WorkKeeps ==
  ASSUME IInv, Calm, NEW w \in Workers, WorkerWork(w) \/ PollTimeout(w)
  PROVE  /\ \A v \in Workers : TasksOf(v)' = TasksOf(v) /\ Load(v)' = Load(v)
         /\ \A v \in Workers \ {w} : Same(v) /\ pc'[v] = pc[v] /\ stop'[v] = stop[v]
         /\ UNCHANGED <<conn, frontend, mail>>
<1>0. QueuesOK /\ WorkerPart /\ broker = "run" /\ Farewell(w)
  BY IInvParts DEF Calm, Settled, Farewells
<1>1. \A v \in Workers \ {w} : pc'[v] = pc[v] /\ stop'[v] = stop[v]
  <2>1. pc' = pc \/ \E label \in {"off", "boot", "poll", "scan", "sent", "grace", "gracescan",
                                 "gracesent", "close"} : pc' = [pc EXCEPT ![w] = label]
    BY DEF WorkerWork, Boot, Take, GraceTake, Receive, PollTimeout, Finish,
           GraceFinish, GraceTimeout, Sent, Exit, Die, Goto
  <2>2. stop' = stop \/ \E quit \in BOOLEAN : stop' = [stop EXCEPT ![w] = quit]
    BY DEF WorkerWork, Boot, Take, GraceTake, Receive, PollTimeout, Finish,
           GraceFinish, GraceTimeout, Sent, Exit, Die
  <2>3. \A v \in Workers \ {w} : pc'[v] = pc[v]
    BY <1>0, <2>1 DEF WorkerPart, WorkerTypeOK
  <2>4. \A v \in Workers \ {w} : stop'[v] = stop[v]
    BY <1>0, <2>2, Zenon DEF WorkerPart, WorkerTypeOK
  <2> QED BY <2>3, <2>4
<1>2. UNCHANGED <<conn, frontend, mail>>
  BY DEF WorkerWork, Boot, Take, GraceTake, Receive, PollTimeout, Finish,
         GraceFinish, GraceTimeout, Sent, Exit, Die, wireVars
<1>3. CASE Boot(w) \/ PollTimeout(w)
  <2>1. Says(w)
    BY <1>0, <1>3, SayEffect
  <2> QED BY <1>0, <1>1, <1>2, <2>1, SayingKeeps DEF Says
<1>4. CASE Take(w) \/ GraceTake(w) \/ Finish(w) \/ GraceFinish(w)
  <2>1. Works(w)
    BY <1>0, <1>4, WorkEffect
  <2>2. TasksOf(w)' = TasksOf(w) /\ Load(w)' = Load(w)
    BY <1>0, <2>1, TakingUp, Completing DEF Works
  <2> QED BY <1>1, <1>2, <2>1, <2>2, SameTasks DEF Works
<1>5. ASSUME \A v \in Workers : Same(v)
      PROVE  \A v \in Workers : TasksOf(v)' = TasksOf(v) /\ Load(v)' = Load(v)
  BY <1>5, SameTasks
<1>6. CASE Sent(w, BrokerUp) \/ GraceTimeout(w)
  <2>1. \A v \in Workers : Same(v)
    BY <1>6 DEF Sent, GraceTimeout, wireVars, Same
  <2> QED BY <1>1, <1>2, <1>5, <2>1
<1>7. CASE Exit(w, BrokerUp)
  <2>1. /\ pc[w] = "close" /\ Die(w, chan[w])
    BY <1>0, <1>7 DEF Exit, BrokerUp
  <2>2. inbox[w] = <<>> /\ held[w] = None
    BY <1>0, <2>1 DEF Farewell, Leaving, WorkerPart, HeldWhileScanning, Scanning
  <2>3. \A v \in Workers : Same(v)
    BY <1>0, <2>1, <2>2 DEF Die, LoseWorker, QueuesOK, Same
  <2> QED BY <1>1, <1>2, <1>5, <2>3
<1> QED BY <1>3, <1>4, <1>6, <1>7 DEF WorkerWork

---------------------------------------------------------------------------
(* The steps that remain where nothing fails.                               *)
TasksStay == \A w \in Workers : TasksOf(w)' = TasksOf(w) /\ Load(w)' = Load(w)

StillStep == TasksStay /\ UNCHANGED <<conn, frontend, mail, clientVars, working>>

HandStep(t) == ForwardStep(t) /\ Head(avail) \in sock

CallStep(c) ==
  /\ (ClientSend(c) /\ ~dirty[c]) \/ ClientRecv(c)
  /\ TasksStay
  /\ UNCHANGED working

CalmKinds ==
  \/ StillStep
  \/ \E t \in frontend : HandStep(t)
  \/ \E w \in Workers : ResultStep(w)
  \/ \E c \in Clients : CallStep(c)

(* A step that concerns one worker, for the others.                         *)
LEMMA FarewellsKept ==
  ASSUME Farewells, NEW w \in Workers, Farewell(w)',
         \A v \in Workers \ {w} :
           /\ inbox'[v] = inbox[v] /\ chan'[v] = chan[v]
           /\ pc'[v] = pc[v] /\ stop'[v] = stop[v]
           /\ Contains(avail', v) => Contains(avail, v)
  PROVE  Farewells'
<1>1. ASSUME NEW v \in Workers, v # w PROVE Farewell(v)'
  <2>1. Farewell(v)
    BY DEF Farewells
  <2>2. Leaving(v)' = Leaving(v) /\ Retiring(v)' = Retiring(v)
    BY <1>1 DEF Leaving, Retiring
  <2>3. \A status : (LastWord(v, status))' = LastWord(v, status)
    BY <1>1 DEF LastWord
  <2> QED BY <1>1, <2>1, <2>2, <2>3 DEF Farewell
<1> QED BY <1>1 DEF Farewells

(* A step that concerns no worker.                                          *)
LEMMA FarewellsSame ==
  ASSUME Farewells, UNCHANGED <<inbox, chan, pc, stop, avail>>
  PROVE  Farewells'
BY DEF Farewells, Farewell, Leaving, Retiring, LastWord

(* Queues that stay keep the tasks.                                         *)
LEMMA StayHere ==
  ASSUME UNCHANGED <<inbox, held, chan>>
  PROVE  TasksStay
BY SameTasks DEF Same, TasksStay

(* Where nothing fails, the broker keeps the farewells in order and hands   *)
(* tasks only to workers that are there.                                    *)
LEMMA CalmBroker ==
  ASSUME Faults = {}, IInv, Calm, OneTaskPerWorker, Orderly, BrokerStep
  PROVE  Farewells' /\ CalmKinds /\ UNCHANGED <<broker, supPc, conn>>
<1> USE DEF workerVars, supVars
<1>0. /\ QueuesOK /\ broker = "run" /\ Farewells /\ avail \in Seq(Workers) /\ IsInjective(avail)
      /\ UNCHANGED <<pc, held, count, stop, supPc, clientVars>>
  BY IInvParts DEF Calm, Settled, BrokerStep
<1>1. ASSUME NEW t \in frontend, ForwardRequest(t)
      PROVE  Farewells' /\ HandStep(t) /\ UNCHANGED <<broker, conn>>
  <2>1. /\ Head(avail) \in Workers /\ Head(avail) \in ToSet(avail)
        /\ Tail(avail) \in Seq(Workers) /\ ToSet(Tail(avail)) = ToSet(avail) \ {Head(avail)}
    BY <1>0, <1>1, TailOfInjective DEF ForwardRequest
  <2>2. PICK w \in Workers : w = Head(avail)
    BY <2>1
  <2>3. Contains(avail, w)
    BY <1>0, <2>1, <2>2, ContainsIsMember
  <2>4. ~Leaving(w) /\ (Retiring(w) => LastWord(w, "QUIT") /\ chan[w] # <<>>)
    BY <1>0, <2>3 DEF Farewells, Farewell
  <2>5. w \in sock
    BY <2>4 DEF Leaving, Orderly, Sockets
  <2>6. /\ avail' = Tail(avail) /\ chan' = chan
        /\ inbox' = [inbox EXCEPT ![w] = Append(@, t)]
    BY <1>1, <2>2, <2>5 DEF ForwardRequest, SendToWorker
  <2>7. Farewell(w)'
    <3>1. ~Leaving(w)' /\ (Retiring(w)' => LastWord(w, "QUIT")' /\ chan'[w] # <<>>)
      BY <1>0, <2>4, <2>6 DEF Leaving, Retiring, LastWord
    <3> QED BY <3>1 DEF Farewell
  <2>8. \A v \in Workers : Contains(avail', v) => Contains(avail, v)
    <3>1. \A v \in Workers : Contains(avail', v) <=> v \in ToSet(avail')
      BY <2>1, <2>6, ContainsIsMember
    <3>2. \A v \in Workers : Contains(avail, v) <=> v \in ToSet(avail)
      BY <1>0, ContainsIsMember
    <3> QED BY <2>1, <2>6, <3>1, <3>2
  <2>9. \A v \in Workers \ {w} : inbox'[v] = inbox[v] /\ chan'[v] = chan[v]
                                  /\ pc'[v] = pc[v] /\ stop'[v] = stop[v]
    BY <1>0, <2>6 DEF QueuesOK
  <2>10. Farewells'
    BY <1>0, <2>7, <2>8, <2>9, FarewellsKept
  <2> QED BY <1>0, <1>1, <2>2, <2>5, <2>10 DEF HandStep, ForwardStep, ForwardRequest
<1>2. ASSUME NEW w \in Workers, OnWorkerMessage(w)
      PROVE  Farewells' /\ (StillStep \/ ResultStep(w)) /\ UNCHANGED <<broker, conn>>
  <2>1. /\ chan[w] # <<>> /\ chan' = [chan EXCEPT ![w] = Tail(@)]
        /\ UNCHANGED <<inbox, conn, frontend, broker>>
    BY <1>2 DEF OnWorkerMessage
  <2>2. chan'[w] = Tail(chan[w]) /\ \A v \in Workers \ {w} : chan'[v] = chan[v]
    BY <1>0, <2>1 DEF QueuesOK
  <2>3. Farewells'
    <3>1. Farewell(w)'
      BY <1>0, <1>2, HearFarewell
    <3>2. \A v \in Workers \ {w} : Contains(avail', v) => Contains(avail, v)
      BY <1>2, HearElsewhere
    <3> QED BY <1>0, <2>1, <2>2, <3>1, <3>2, FarewellsKept
  <2>4. CASE Head(chan[w]).status \in ResultStatus
    <3>1. /\ ReplyToClient(Head(chan[w]).task)
          /\ working' = RemoveFirst(working, w)
      BY <1>2, <2>4 DEF OnWorkerMessage, OnResultReady, OnResultQuit, ResultStatus
    <3>2. HandsIn(w) /\ \A v \in Workers \ {w} : Same(v)
      BY <1>0, <2>1, <2>2, <2>4 DEF HandsIn, Same
    <3> QED BY <1>0, <2>1, <2>3, <3>1, <3>2 DEF ResultStep
  <2>5. CASE Head(chan[w]).status \notin ResultStatus
    <3>1. UNCHANGED <<mail, working>>
      BY <1>2, <2>5 DEF OnWorkerMessage, OnReady, OnQuit, ResultStatus
    <3>2. TasksOf(w)' = TasksOf(w) /\ Load(w)' = Load(w)
      BY <1>0, <2>1, <2>2, <2>5, HearingKeeps
    <3>3. \A v \in Workers \ {w} : TasksOf(v)' = TasksOf(v) /\ Load(v)' = Load(v)
      <4>1. \A v \in Workers \ {w} : Same(v)
        BY <1>0, <2>1, <2>2 DEF Same
      <4> QED BY <4>1, SameTasks
    <3> QED BY <1>0, <2>1, <2>3, <3>1, <3>2, <3>3 DEF StillStep, TasksStay
  <2> QED BY <2>1, <2>3, <2>4, <2>5
<1>3. \/ \E t \in frontend : ForwardRequest(t)
      \/ \E w \in Workers : OnWorkerMessage(w)
  BY <1>0 DEF BrokerStep, BrokerSignal, OnDrainMessage, GraceExpires, BrokerExit
<1> QED BY <1>0, <1>1, <1>2, <1>3 DEF CalmKinds

(* A worker only works, speaks and goes.                                    *)
LEMMA CalmWorker ==
  ASSUME Faults = {}, IInv, Calm, OneTaskPerWorker, NEW w \in Workers, WorkerStep(w)
  PROVE  Farewells' /\ CalmKinds /\ UNCHANGED <<broker, supPc, conn>>
<1>1. (WorkerWork(w) \/ PollTimeout(w)) /\ UNCHANGED <<brokerVars, clientVars, supVars>>
  BY DEF WorkerStep, ScanError, WorkerSignal, WorkerKill
<1>2. Farewell(w)'
  BY <1>1, WorkFarewell
<1>3. /\ TasksStay
      /\ \A v \in Workers \ {w} : Same(v) /\ pc'[v] = pc[v] /\ stop'[v] = stop[v]
      /\ UNCHANGED <<conn, frontend, mail>>
  BY <1>1, WorkKeeps DEF TasksStay
<1>4. Farewells'
  BY <1>1, <1>2, <1>3, FarewellsKept DEF brokerVars, Same, Calm
<1> QED BY <1>1, <1>3, <1>4 DEF brokerVars, supVars, StillStep, CalmKinds

(* A client asks once, and reads its reply.                                 *)
LEMMA CalmClient ==
  ASSUME Faults = {}, IInv, Calm, NEW c \in Clients, ClientStep(c)
  PROVE  Farewells' /\ CalmKinds /\ UNCHANGED <<broker, supPc, conn>>
<1>1. /\ ClientSend(c) \/ ClientRecv(c)
      /\ UNCHANGED <<brokerVars, workerVars, supVars>>
  BY DEF ClientStep, ClientRetry, ClientGiveUp
<1>2. ClientSend(c) => ~dirty[c]
  BY DEF ClientSend, Calm, Settled
<1>3. UNCHANGED <<inbox, chan, held, pc, stop, avail, working, broker, supPc>>
  BY <1>1 DEF ClientSend, ClientRecv, brokerVars, workerVars, supVars
<1>4. conn' = conn
  BY <1>1, <1>2 DEF ClientSend, ClientRecv
<1>5. Farewells'
  BY <1>3, FarewellsSame DEF Calm
<1> QED BY <1>1, <1>2, <1>3, <1>4, <1>5, StayHere DEF CallStep, CalmKinds

(* The supervisor only replaces workers that have gone.                     *)
LEMMA CalmSupervisor ==
  ASSUME Faults = {}, IInv, Calm, SupervisorStep
  PROVE  Farewells' /\ CalmKinds /\ UNCHANGED <<broker, supPc, conn>>
<1>0. broker = "run" /\ supPc = "watch" /\ Farewells /\ WorkerPart
  BY IInvParts DEF Calm, Settled
<1>1. PICK w \in Workers, new \in Workers :
        Fresh(new) /\ ReplaceWorker(w, new) /\ UNCHANGED <<brokerVars, clientVars>>
  BY <1>0 DEF SupervisorStep, RestartBroker, StartBroker, SupStop, SupKillWorkers, SupKillBroker
<1>2. /\ pc[new] = "off" /\ pc' = [pc EXCEPT ![new] = "boot"]
      /\ stop' = [stop EXCEPT ![new] = FALSE]
      /\ UNCHANGED <<held, supPc, conn, frontend, mail, inbox, chan>>
  BY <1>1 DEF ReplaceWorker, Goto, wireVars
<1>3. UNCHANGED <<broker, avail, working>>
  BY <1>1 DEF brokerVars
<1>4. pc'[new] = "boot" /\ \A v \in Workers \ {new} : pc'[v] = pc[v] /\ stop'[v] = stop[v]
  <2>1. \A v \in Workers \ {new} : stop'[v] = stop[v]
    BY <1>0, <1>2, Zenon DEF WorkerPart, WorkerTypeOK
  <2> QED BY <1>0, <1>2, <2>1 DEF WorkerPart, WorkerTypeOK
<1>5. Farewell(new)'
  <2>1. Farewell(new) /\ Leaving(new)
    BY <1>0, <1>2 DEF Farewells, Leaving
  <2> QED BY <1>2, <1>3, <1>4, <2>1 DEF Farewell, Retiring, LastWord
<1>6. Farewells'
  BY <1>0, <1>2, <1>3, <1>4, <1>5, FarewellsKept
<1> QED BY <1>1, <1>2, <1>3, <1>6, StayHere DEF StillStep, CalmKinds

(* So every step is one of the four kinds.                                  *)
LEMMA CalmNext ==
  ASSUME Faults = {}, IInv, Calm, OneTaskPerWorker, Orderly, [Next]_vars
  PROVE  Farewells' /\ CalmKinds /\ UNCHANGED <<broker, supPc, conn>>
<1>1. CASE UNCHANGED vars
  <2>1. UNCHANGED <<inbox, held, chan, pc, stop, avail, conn, frontend, mail, clientVars,
                    working, broker, supPc>>
    BY <1>1 DEF vars, wireVars, workerVars, brokerVars, supVars
  <2> QED BY <2>1, StayHere, FarewellsSame DEF Calm, StillStep, CalmKinds
<1> QED BY <1>1, CalmBroker, CalmWorker, CalmClient, CalmSupervisor DEF Next

---------------------------------------------------------------------------
(* A request that is handed to a worker whose socket is open is on its way; *)
(* to one whose socket is closed, it is gone.                               *)
LEMMA HandGives ==
  ASSUME IInv, NEW t \in frontend, ForwardStep(t)
  PROVE  \E w \in Workers :
           /\ w = Head(avail) /\ w \in ToSet(avail)
           /\ frontend' = frontend \ {t}
           /\ OnItsWay' = OnItsWay \/ OnItsWay' = OnItsWay \cup {t}
           /\ w \in sock => /\ OnItsWay' = OnItsWay \cup {t}
                            /\ Load(w)' = Load(w) + 1
                            /\ \A v \in Workers \ {w} : Load(v)' = Load(v)
<1>0. QueuesOK /\ avail \in Seq(Workers) /\ IsInjective(avail)
  BY IInvParts
<1>1. Head(avail) \in Workers /\ Head(avail) \in ToSet(avail)
  BY <1>0, TailOfInjective DEF ForwardStep, ForwardRequest
<1>2. PICK w \in Workers : w = Head(avail)
  BY <1>1
<1>3. /\ UNCHANGED <<held, chan>> /\ t \in Task /\ frontend' = frontend \ {t}
      /\ inbox' = IF w \in sock THEN [inbox EXCEPT ![w] = Append(@, t)] ELSE inbox
  BY <1>2, IInvParts DEF ForwardStep, ForwardRequest, SendToWorker
<1>4. \A v \in Workers \ {w} : Same(v)
  BY <1>0, <1>3 DEF QueuesOK, Same
<1>5. \A v \in Workers \ {w} : TasksOf(v)' = TasksOf(v) /\ Load(v)' = Load(v)
  BY <1>4, SameTasks
<1>6. ASSUME w \in sock
      PROVE  TasksOf(w)' = TasksOf(w) \cup {t} /\ Load(w)' = Load(w) + 1
  <2>1. Gets(w, t)
    BY <1>0, <1>3, <1>6 DEF QueuesOK, Gets
  <2> QED BY <1>0, <1>3, <2>1, Getting
<1>7. ASSUME w \notin sock PROVE TasksOf(w)' = TasksOf(w)
  BY <1>3, <1>7, SameTasks DEF Same
<1>8. w \in sock => OnItsWay' = OnItsWay \cup {t}
  BY <1>5, <1>6 DEF OnItsWay
<1>9. w \notin sock => OnItsWay' = OnItsWay
  BY <1>5, <1>7 DEF OnItsWay
<1> QED BY <1>1, <1>2, <1>3, <1>5, <1>6, <1>8, <1>9

(* A result leaves its worker, and reaches the client that still has the    *)
(* connection it was asked over.                                            *)
LEMMA ResultGives ==
  ASSUME IInv, IInv', Apart, [Next]_vars, NEW w \in Workers, ResultStep(w)
  PROVE  \E t \in OnItsWay :
           /\ t \in Task /\ t.client \in Clients
           /\ OnItsWay' = OnItsWay \ {t}
           /\ Delivered' = IF t.conn = conn[t.client] THEN Delivered \cup {t} ELSE Delivered
           /\ mail' = IF t.conn = conn[t.client]
                      THEN [mail EXCEPT ![t.client] = Append(@, t)] ELSE mail
           /\ Load(w)' = Load(w) - 1
           /\ \A v \in Workers \ {w} : Load(v)' = Load(v)
<1>0. QueuesOK /\ mail \in [Clients -> Seq(Task)]
  BY IInvParts
<1>1. PICK t : t = Head(chan[w]).task
  OBVIOUS
<1>2. t \in OnItsWay /\ OnItsWay' \subseteq OnItsWay \ {t}
  BY <1>1, OnItsWayKept
<1>3. /\ t \in TasksOf(w) /\ TasksOf(w) = TasksOf(w)' \cup {t}
      /\ Load(w)' = Load(w) - 1
  BY <1>0, <1>1, HandingIn DEF ResultStep
<1>4. \A v \in Workers \ {w} : TasksOf(v)' = TasksOf(v) /\ Load(v)' = Load(v)
  BY SameTasks DEF ResultStep
<1>5. OnItsWay \ {t} \subseteq OnItsWay'
  BY <1>3, <1>4 DEF OnItsWay
<1>6. t \in Task /\ t.client \in Clients
  BY <1>2, AttemptsTyped DEF Everywhere
<1>7. mail' = IF t.conn = conn[t.client]
              THEN [mail EXCEPT ![t.client] = Append(@, t)] ELSE mail
  BY <1>1 DEF ResultStep, ReplyToClient
<1>8. t.conn = conn[t.client] => Delivered' = Delivered \cup {t}
  <2>1. ASSUME t.conn = conn[t.client]
        PROVE  /\ ToSet(mail'[t.client]) = ToSet(mail[t.client]) \cup {t}
               /\ \A c \in Clients \ {t.client} : mail'[c] = mail[c]
    <3>1. mail'[t.client] = Append(mail[t.client], t)
      BY <1>0, <1>6, <1>7, <2>1
    <3>2. ToSet(Append(mail[t.client], t)) = ToSet(mail[t.client]) \cup {t}
      BY <1>0, <1>6, AppendAny
    <3> QED BY <1>0, <1>6, <1>7, <2>1, <3>1, <3>2
  <2> QED BY <1>6, <2>1 DEF Delivered
<1>9. t.conn # conn[t.client] => Delivered' = Delivered
  BY <1>7 DEF Delivered
<1> QED BY <1>2, <1>3, <1>4, <1>5, <1>6, <1>7, <1>8, <1>9

(* The tasks of all workers, where no queue changes.                        *)
LEMMA StayingTasks ==
  ASSUME TasksStay
  PROVE  OnItsWay' = OnItsWay
BY DEF TasksStay, OnItsWay

---------------------------------------------------------------------------
(* Where nothing fails, working_workers stays exact.                        *)
LEMMA ExactStep ==
  ASSUME IInv, IInv', Apart, OneTaskPerWorker, Exact, CalmKinds, [Next]_vars
  PROVE  Exact'
<1>0. /\ QueuesOK /\ avail \in Seq(Workers) /\ working \in Seq(Workers)
      /\ IsInjective(working)
      /\ \A w \in Workers : Contains(avail, w) => ~Contains(working, w)
  BY IInvParts
<1>1. working' \in Seq(Workers)
  BY DEF IInv, TypeOK, BrokerTypeOK
<1>2. /\ \A v \in Workers : Contains(working, v) <=> v \in ToSet(working)
      /\ \A v \in Workers : Contains(working', v) <=> v \in ToSet(working')
      /\ \A v \in Workers : Contains(avail, v) <=> v \in ToSet(avail)
  BY <1>0, <1>1, ContainsIsMember
<1>3. ASSUME TasksStay, UNCHANGED working PROVE Exact'
  BY <1>3 DEF TasksStay, Exact
<1>4. ASSUME NEW t \in frontend, HandStep(t) PROVE Exact'
  <2>1. PICK w \in Workers :
           /\ w = Head(avail) /\ w \in ToSet(avail)
           /\ w \in sock => /\ Load(w)' = Load(w) + 1
                            /\ \A v \in Workers \ {w} : Load(v)' = Load(v)
    BY <1>4, HandGives DEF HandStep
  <2>2. ToSet(working') = ToSet(working) \cup {w}
    <3>1. working' = Append(working, w)
      BY <1>4, <2>1 DEF HandStep, ForwardStep, ForwardRequest
    <3> QED BY <1>0, <3>1, AppendAny
  <2>3. Load(w)' = 1 /\ \A v \in Workers \ {w} : Load(v)' = Load(v)
    <3>1. w \in sock
      BY <1>4, <2>1 DEF HandStep
    <3>2. Load(w) \in Nat /\ Load(w) <= 1 /\ Load(w) # 1
      BY <1>0, <1>2, <2>1, LoadIsNatural DEF OneTaskPerWorker
    <3>3. Load(w) = 0
      BY <3>2
    <3> QED BY <2>1, <3>1, <3>3
  <2> QED BY <1>2, <2>2, <2>3 DEF Exact
<1>5. ASSUME NEW w \in Workers, ResultStep(w) PROVE Exact'
  <2>1. \A v \in Workers \ {w} : Load(v)' = Load(v)
    BY <1>5, SameTasks DEF ResultStep
  <2>2. ToSet(working') = ToSet(working) \ {w}
    BY <1>0, <1>5, RemoveFromInjective DEF ResultStep
  <2> QED BY <1>2, <2>1, <2>2 DEF Exact
<1> QED BY <1>3, <1>4, <1>5 DEF CalmKinds, StillStep, CallStep

(* Where nothing fails, what a client waits for is somewhere.               *)
LEMMA SettledStep ==
  ASSUME IInv, IInv', Apart, Known, Awaited, Settled, CalmKinds, [Next]_vars,
         UNCHANGED <<broker, supPc, conn>>
  PROVE  Settled'
<1>0. /\ mail \in [Clients -> Seq(Task)] /\ conn \in [Clients -> Nat]
      /\ obj \in [Clients -> Nat] /\ cpc \in [Clients -> {"idle", "wait"}]
      /\ dirty \in [Clients -> BOOLEAN]
  BY IInvParts DEF IInv, TypeOK, ClientTypeOK
<1>1. ASSUME UNCHANGED clientVars,
             frontend \cup OnItsWay \cup Delivered \subseteq frontend' \cup OnItsWay' \cup Delivered'
      PROVE  Settled'
  <2>1. \A c \in Clients : CurrentAttempt(c)' = CurrentAttempt(c)
    BY <1>1 DEF CurrentAttempt, Attempt, clientVars
  <2> QED BY <1>1, <2>1 DEF Settled, clientVars
<1>2. CASE StillStep
  <2>1. OnItsWay' = OnItsWay /\ Delivered' = Delivered /\ frontend' = frontend
    BY <1>2, StayingTasks DEF StillStep, Delivered
  <2> QED BY <1>1, <1>2, <2>1 DEF StillStep
<1>3. ASSUME NEW t \in frontend, HandStep(t) PROVE Settled'
  <2>1. frontend' = frontend \ {t} /\ OnItsWay' = OnItsWay \cup {t}
    BY <1>3, HandGives DEF HandStep
  <2>2. Delivered' = Delivered /\ UNCHANGED clientVars
    BY <1>3 DEF HandStep, ForwardStep, ForwardRequest, Delivered
  <2> QED BY <1>1, <2>1, <2>2
<1>4. ASSUME NEW w \in Workers, ResultStep(w) PROVE Settled'
  <2>1. PICK t \in OnItsWay :
           /\ t \in Task /\ t.client \in Clients
           /\ OnItsWay' = OnItsWay \ {t}
           /\ Delivered' = IF t.conn = conn[t.client] THEN Delivered \cup {t} ELSE Delivered
    BY <1>4, ResultGives
  <2>2. t.conn = conn[t.client]
    <3>1. t.conn <= conn[t.client] /\ conn[t.client] = 0 /\ t.conn \in Nat
      BY <2>1 DEF Known, Settled, Task
    <3> QED BY <3>1
  <2>3. frontend' = frontend /\ UNCHANGED clientVars
    BY <1>4 DEF ResultStep
  <2> QED BY <1>1, <2>1, <2>2, <2>3
<1>5. ASSUME NEW c \in Clients, CallStep(c) PROVE Settled'
  <2>1. OnItsWay' = OnItsWay
    BY <1>5, StayingTasks DEF CallStep
  <2>2. ASSUME ClientSend(c), ~dirty[c] PROVE Settled'
    <3>1. /\ obj' = [obj EXCEPT ![c] = @ + 1]
          /\ frontend' = frontend \cup {Attempt(c, conn[c], obj[c] + 1)}
          /\ cpc' = [cpc EXCEPT ![c] = "wait"]
          /\ dirty' = [dirty EXCEPT ![c] = TRUE]
          /\ mail' = mail
      BY <2>2 DEF ClientSend
    <3>2. Delivered' = Delivered
      BY <3>1 DEF Delivered
    <3>3. CurrentAttempt(c)' \in frontend' /\ cpc'[c] = "wait"
      BY <1>0, <3>1 DEF CurrentAttempt
    <3>4. ASSUME NEW d \in Clients \ {c}
          PROVE  /\ CurrentAttempt(d)' = CurrentAttempt(d)
                 /\ cpc'[d] = cpc[d] /\ dirty'[d] = dirty[d]
      <4>1. obj'[d] = obj[d] /\ cpc'[d] = cpc[d]
        BY <1>0, <3>1
      <4>2. dirty'[d] = dirty[d]
        BY <1>0, <3>1, Zenon
      <4> QED BY <4>1, <4>2 DEF CurrentAttempt
    <3> QED BY <2>1, <3>1, <3>2, <3>3, <3>4 DEF Settled
  <2>3. ASSUME ClientRecv(c) PROVE Settled'
    <3>1. /\ mail' = [mail EXCEPT ![c] = Tail(@)]
          /\ cpc' = [cpc EXCEPT ![c] = "idle"]
          /\ dirty' = [dirty EXCEPT ![c] = FALSE]
          /\ UNCHANGED <<obj, frontend>>
      BY <2>3 DEF ClientRecv
    <3>2. cpc'[c] = "idle" /\ ~dirty'[c]
      BY <1>0, <3>1, Zenon
    <3>3. ASSUME NEW d \in Clients \ {c}
          PROVE  /\ CurrentAttempt(d)' = CurrentAttempt(d)
                 /\ cpc'[d] = cpc[d] /\ dirty'[d] = dirty[d] /\ mail'[d] = mail[d]
      <4>1. cpc'[d] = cpc[d] /\ mail'[d] = mail[d]
        BY <1>0, <3>1
      <4>2. dirty'[d] = dirty[d]
        BY <1>0, <3>1, Zenon
      <4> QED BY <3>1, <4>1, <4>2 DEF CurrentAttempt
    <3>4. ASSUME NEW d \in Clients \ {c}, CurrentAttempt(d) \in Delivered
          PROVE  CurrentAttempt(d) \in Delivered'
      <4>1. PICK e \in Clients : CurrentAttempt(d) \in ToSet(mail[e])
        BY <3>4 DEF Delivered
      <4>2. CurrentAttempt(d).client = d
        BY DEF CurrentAttempt, Attempt
      <4>3. e = d
        BY <4>1, <4>2 DEF Awaited, ReplyMatches, ToSet
      <4> QED BY <3>3, <4>1, <4>3 DEF Delivered
    <3> QED BY <2>1, <3>1, <3>2, <3>3, <3>4 DEF Settled
  <2> QED BY <1>5, <2>2, <2>3 DEF CallStep
<1> QED BY <1>2, <1>3, <1>4, <1>5 DEF CalmKinds

(* At first all is calm,                                                    *)
LEMMA CalmInit ==
  ASSUME Init
  PROVE  Calm
<1>1. Farewells
  <2>1. \A w \in Workers : pc[w] \in {"boot", "off"} /\ inbox[w] = <<>> /\ chan[w] = <<>>
    BY DEF Init, WireInit, WorkerInit
  <2>2. avail = <<>>
    BY DEF Init, BrokerInit
  <2>3. \A w \in Workers : ~Contains(avail, w)
    BY <2>2 DEF Contains
  <2> QED BY <2>1, <2>3 DEF Farewells, Farewell, Retiring, LastWord
<1>2. Exact
  <2>1. working = <<>>
    BY DEF Init, BrokerInit
  <2> QED BY <2>1 DEF Exact, Contains
<1>3. Settled
  BY DEF Settled, Init, BrokerInit, SupInit, WireInit, ClientInit
<1> QED BY <1>1, <1>2, <1>3 DEF Calm

(* where nothing fails it stays so,                                         *)
LEMMA CalmStep ==
  ASSUME Faults = {}, Inv, Calm, [Next]_vars
  PROVE  Calm'
<1>1. IInv' /\ OneTaskPerWorker
  BY InvStep DEF Inv, FirstOneTask, NoBrokerFaults
<1>2. Farewells' /\ CalmKinds /\ UNCHANGED <<broker, supPc, conn>>
  BY <1>1, CalmNext DEF Inv
<1>3. Exact'
  BY <1>1, <1>2, ExactStep DEF Inv, Calm
<1>4. Settled'
  BY <1>1, <1>2, SettledStep DEF Inv, Calm
<1> QED BY <1>2, <1>3, <1>4 DEF Calm

(* and is so always.                                                        *)
LEMMA CalmInvariant ==
  ASSUME Faults = {}
  PROVE  Spec => []Calm
<1>1. Inv /\ Calm /\ [Next]_vars => Calm'
  BY CalmStep
<1> QED BY <1>1, CalmInit, Invariant, PTL DEF Spec

(* Where nothing fails, working_workers is exact, and the object of a       *)
(* client inside send() is in exactly the place it should be: no worker     *)
(* that retires while the broker hands it a task makes it go lost.          *)
THEOREM RequestsConserved ==
  ASSUME Faults = {}
  PROVE  Spec => []RequestConserved
<1>1. Inv /\ Calm => RequestConserved
  <2> SUFFICES ASSUME Inv, Calm PROVE RequestConserved
    OBVIOUS
  <2>1. working \in Seq(Workers)
    BY IInvParts DEF Inv
  <2>2. \A w \in ToSet(working) : w \in Workers
    BY <2>1, ElementOfSeq DEF ToSet
  <2>3. \A w \in ToSet(working) : Contains(working, w)
    BY <2>1, ContainsIsMember
  <2>4. \A w \in ToSet(working) : Load(w) = 1
    BY <2>2, <2>3 DEF Calm, Exact
  <2> QED BY <2>4 DEF Calm, Settled, RequestConserved
<1> QED BY <1>1, CalmInvariant, Invariant, PTL

---------------------------------------------------------------------------
(* Step by step, laikad does what the scan service does.                    *)
NoBrokerEnds == Faults \cap {"brokerSignal", "brokerKill", "supStop"} = {}

(* What waits at the sockets, when one client drops its mail.               *)
LEMMA DroppedMail ==
  ASSUME IInv, Awaited, NEW c \in Clients, mail' = [mail EXCEPT ![c] = <<>>]
  PROVE  Delivered' = {a \in Delivered : a.client # c}
<1>1. /\ \A d \in Clients \ {c} : mail'[d] = mail[d]
      /\ mail'[c] = <<>>
  BY IInvParts
<1>2. ToSet(<<>>) = {}
  BY DEF ToSet
<1>3. \A d \in Clients : \A a \in ToSet(mail[d]) : a.client = d
  BY DEF Awaited, ReplyMatches, ToSet
<1> QED BY <1>1, <1>2, <1>3 DEF Delivered

(* The reply send() returns is the one its own attempt has led to.          *)
LEMMA ReceivedMail ==
  ASSUME IInv, Awaited, MailCurrent, NEW c \in Clients, ClientRecv(c)
  PROVE  /\ Head(mail[c]) = CurrentAttempt(c)
         /\ CurrentAttempt(c) \in Delivered
         /\ Delivered' = Delivered \ {CurrentAttempt(c)}
         /\ DOMAIN mail'[c] = {}
<1>1. /\ mail \in [Clients -> Seq(Task)]
      /\ mail[c] # <<>> /\ mail' = [mail EXCEPT ![c] = Tail(@)]
  BY IInvParts DEF ClientRecv
<1>2. /\ Len(mail[c]) = 1 /\ 1 \in DOMAIN mail[c] /\ Head(mail[c]) = mail[c][1]
      /\ Len(Tail(mail[c])) = 0 /\ DOMAIN Tail(mail[c]) = {}
  BY <1>1, SingleElement DEF Awaited, ReplyMatches
<1>3. mail[c][1] = CurrentAttempt(c)
  <2>1. /\ mail[c][1].client = c /\ mail[c][1].obj = obj[c] /\ mail[c][1].conn = conn[c]
    BY <1>2 DEF Awaited, ReplyMatches, MailCurrent
  <2>2. mail[c][1] \in Task
    BY <1>1, <1>2, ElementOfSeq
  <2> QED BY <2>1, <2>2 DEF CurrentAttempt, Attempt, Task
<1>4. ToSet(mail[c]) = {CurrentAttempt(c)}
  <2>1. DOMAIN mail[c] = {1}
    BY <1>1, <1>2
  <2> QED BY <1>3, <2>1 DEF ToSet
<1>5. mail'[c] = Tail(mail[c]) /\ \A d \in Clients \ {c} : mail'[d] = mail[d]
  BY <1>1
<1>6. ToSet(mail'[c]) = {}
  BY <1>2, <1>5 DEF ToSet
<1>7. \A d \in Clients : \A a \in ToSet(mail[d]) : a.client = d
  BY DEF Awaited, ReplyMatches, ToSet
<1>8. CurrentAttempt(c).client = c
  BY DEF CurrentAttempt, Attempt
<1>9. Delivered' = Delivered \ {CurrentAttempt(c)}
  BY <1>4, <1>5, <1>6, <1>7, <1>8 DEF Delivered
<1> QED BY <1>2, <1>3, <1>4, <1>5, <1>9 DEF Delivered

(* Replies that wait stay those of the present connection.                  *)
LEMMA MailCurrentStep ==
  ASSUME NoBrokerEnds, Inv, MailCurrent, [Next]_vars
  PROVE  MailCurrent' /\ ~BrokerEnds
<1>0. /\ IInv /\ IInv' /\ Apart /\ Awaited /\ Phases
      /\ mail \in [Clients -> Seq(Task)] /\ conn \in [Clients -> Nat]
  BY InvStep, IInvParts DEF Inv, Orderly
<1>1. UNCHANGED <<mail, conn>> => MailCurrent'
  BY DEF MailCurrent
<1>2. ~BrokerEnds
  <2>1. supPc # "kill" /\ broker # "drain"
    BY <1>0 DEF NoBrokerEnds, Phases
  <2> QED BY <2>1 DEF BrokerEnds, BrokerExit, NoBrokerEnds
<1>3. ASSUME NEW w \in Workers, ResultStep(w) PROVE MailCurrent'
  <2>1. PICK t \in OnItsWay :
           /\ t \in Task /\ t.client \in Clients
           /\ mail' = IF t.conn = conn[t.client]
                      THEN [mail EXCEPT ![t.client] = Append(@, t)] ELSE mail
    BY <1>0, <1>3, ResultGives
  <2>2. conn' = conn
    BY <1>3 DEF ResultStep
  <2>3. ASSUME t.conn = conn[t.client] PROVE MailCurrent'
    <3>1. /\ mail'[t.client] = Append(mail[t.client], t)
          /\ \A d \in Clients \ {t.client} : mail'[d] = mail[d]
      BY <1>0, <2>1, <2>3
    <3>2. mail[t.client] \in Seq(Task)
      BY <1>0, <2>1
    <3>3. /\ Append(mail[t.client], t)[Len(mail[t.client]) + 1] = t
          /\ \A i \in 1 .. Len(mail[t.client]) : Append(mail[t.client], t)[i] = mail[t.client][i]
          /\ DOMAIN Append(mail[t.client], t) = 1 .. Len(mail[t.client]) + 1
      BY <2>1, <3>2, AppendAny
    <3>4. ASSUME NEW i \in DOMAIN mail'[t.client]
          PROVE  mail'[t.client][i].conn = conn[t.client]
      <4>1. i \in 1 .. Len(mail[t.client]) \/ i = Len(mail[t.client]) + 1
        BY <3>1, <3>2, <3>3, <3>4
      <4>2. \A j \in 1 .. Len(mail[t.client]) : mail[t.client][j].conn = conn[t.client]
        BY <2>1, <3>2 DEF MailCurrent
      <4> QED BY <2>3, <3>1, <3>3, <4>1, <4>2
    <3> QED BY <2>2, <3>1, <3>4 DEF MailCurrent
  <2> QED BY <1>1, <2>1, <2>2, <2>3
<1>4. ASSUME NEW c \in Clients, AskStep(c) PROVE MailCurrent'
  <2>1. ASSUME NEW pending, Reconnect(c, pending) PROVE MailCurrent'
    <3>1. /\ \A d \in Clients \ {c} : mail'[d] = mail[d] /\ conn'[d] = conn[d]
          /\ mail'[c] = <<>>
      BY <1>0, <2>1 DEF Reconnect
    <3> QED BY <3>1 DEF MailCurrent
  <2>2. CASE ClientSend(c)
    BY <1>1, <2>1, <2>2 DEF ClientSend
  <2>3. CASE ClientRetry(c)
    BY <2>1, <2>3 DEF ClientRetry
  <2>4. CASE ClientGiveUp(c)
    BY <1>1, <2>4 DEF ClientGiveUp, wireVars
  <2>5. CASE ClientRecv(c)
    <3>1. DOMAIN mail'[c] = {}
      BY <1>0, <2>5, ReceivedMail
    <3>2. conn' = conn /\ \A d \in Clients \ {c} : mail'[d] = mail[d]
      BY <1>0, <2>5 DEF ClientRecv
    <3> QED BY <3>1, <3>2 DEF MailCurrent
  <2> QED BY <1>4, <2>2, <2>3, <2>4, <2>5 DEF AskStep
<1>5. QuietStep \/ (\E w \in Workers : WorkStep(w)) \/ (\E t \in frontend : ForwardStep(t))
        => UNCHANGED <<mail, conn>>
  BY DEF QuietStep, WorkStep, ForwardStep, ForwardRequest
<1> QED BY <1>0, <1>1, <1>2, <1>3, <1>4, <1>5, StepKind

(* The steps of the service, one by one.                                    *)
LEMMA ServiceSame ==
  ASSUME OnItsWay' = OnItsWay, UNCHANGED <<conn, frontend, mail, clientVars>>
  PROVE  UNCHANGED (Service!svcVars)
<1>1. Delivered' = Delivered
  BY DEF Delivered
<1> QED BY <1>1 DEF Service!svcVars, clientVars

(* Tasks that are lost with a process are lost by the service.              *)
LEMMA ServiceLoses ==
  ASSUME Faults # {}, OnItsWay' \subseteq OnItsWay,
         UNCHANGED <<conn, frontend, mail, clientVars>>
  PROVE  Service!Lose
<1>1. Delivered' = Delivered
  BY DEF Delivered
<1> QED BY <1>1 DEF Service!Lose, clientVars

(* A task that is handed to a worker is taken up.                           *)
LEMMA ServiceStarts ==
  ASSUME IInv, NEW t \in frontend, ForwardStep(t), Faults # {} \/ Head(avail) \in sock
  PROVE  Service!Start(t)
<1>1. /\ frontend' = frontend \ {t}
      /\ OnItsWay' = OnItsWay \/ OnItsWay' = OnItsWay \cup {t}
      /\ Head(avail) \in sock => OnItsWay' = OnItsWay \cup {t}
  BY HandGives
<1>2. Delivered' = Delivered /\ UNCHANGED <<conn, clientVars>>
  BY DEF ForwardStep, ForwardRequest, Delivered
<1> QED BY <1>1, <1>2 DEF Service!Start, clientVars

(* A result the broker receives completes its task.                         *)
LEMMA ServiceCompletes ==
  ASSUME IInv, IInv', Apart, Awaited, [Next]_vars, NEW w \in Workers, ResultStep(w)
  PROVE  \E t \in OnItsWay : Service!Complete(t)
<1>1. PICK t \in OnItsWay :
         /\ t \in Task /\ t.client \in Clients
         /\ OnItsWay' = OnItsWay \ {t}
         /\ Delivered' = IF t.conn = conn[t.client] THEN Delivered \cup {t} ELSE Delivered
  BY ResultGives
<1>2. t = CurrentAttempt(t.client) <=> t.conn = conn[t.client]
  <2>1. t.conn = conn[t.client] => t.obj = obj[t.client]
    BY <1>1 DEF Awaited, Live
  <2> QED BY <1>1, <2>1 DEF CurrentAttempt, Attempt, Task
<1>3. Service!Current(t.client) = CurrentAttempt(t.client)
  BY DEF Service!Current, CurrentAttempt, Attempt
<1>4. UNCHANGED <<conn, frontend, clientVars>>
  BY DEF ResultStep
<1>5. Service!Complete(t)
  BY <1>1, <1>2, <1>3, <1>4 DEF Service!Complete, clientVars
<1> QED BY <1>5

(* A client that connects again asks again.                                 *)
LEMMA ServiceAsksAgain ==
  ASSUME IInv, Awaited, Faults # {}, NEW c \in Clients,
         Reconnect(c, {Attempt(c, conn[c] + 1, obj'[c])})
  PROVE  Service!AskAgain(c)
<1>1. /\ conn' = [conn EXCEPT ![c] = @ + 1] /\ mail' = [mail EXCEPT ![c] = <<>>]
      /\ conn'[c] = conn[c] + 1
  BY IInvParts DEF Reconnect
<1>2. PICK dropped \in SUBSET {t \in frontend : t.client = c /\ t.conn = conn[c]} :
         frontend' = (frontend \ dropped) \cup {Attempt(c, conn[c] + 1, obj'[c])}
  BY DEF Reconnect
<1>3. Service!Current(c)' = Attempt(c, conn[c] + 1, obj'[c])
  BY <1>1 DEF Service!Current, Attempt
<1>4. Delivered' = {a \in Delivered : a.client # c}
  BY <1>1, DroppedMail
<1>5. dropped \in SUBSET {a \in frontend : a.client = c}
  BY <1>2
<1> QED BY <1>1, <1>2, <1>3, <1>4, <1>5 DEF Service!AskAgain

(* What a client does in send() is what a caller of the service does.       *)
LEMMA ServiceAsks ==
  ASSUME IInv, Awaited, MailCurrent, OnItsWay' = OnItsWay,
         NEW c \in Clients, ClientSend(c) \/ ClientRecv(c) \/ ClientRetry(c) \/ ClientGiveUp(c),
         ClientSend(c) /\ dirty[c] => Faults # {}
  PROVE  Service!Call(c) \/ Service!Repeat(c) \/ Service!GiveUp(c) \/ Service!Return(c)
<1> DEFINE waiting == {d \in Clients : cpc[d] = "wait"}
<1>0. /\ obj \in [Clients -> Nat] /\ cpc \in [Clients -> {"idle", "wait"}]
      /\ conn \in [Clients -> Nat]
  BY IInvParts
<1>1. ASSUME cpc[c] = "wait", cpc' = [cpc EXCEPT ![c] = "idle"]
      PROVE  c \in waiting /\ waiting' = waiting \ {c}
  BY <1>0, <1>1
<1>2. CASE ClientSend(c)
  <2>1. /\ cpc[c] = "idle" /\ obj' = [obj EXCEPT ![c] = @ + 1]
        /\ cpc' = [cpc EXCEPT ![c] = "wait"] /\ result' = result
    BY <1>2 DEF ClientSend
  <2>2. c \notin waiting /\ waiting' = waiting \cup {c}
    BY <1>0, <2>1
  <2>3. obj'[c] = obj[c] + 1
    BY <1>0, <2>1
  <2>4. CASE dirty[c]
    <3>1. Reconnect(c, {Attempt(c, conn[c] + 1, obj'[c])}) /\ Faults # {}
      BY <1>2, <2>3, <2>4 DEF ClientSend
    <3>2. Service!AskAgain(c)
      BY <3>1, ServiceAsksAgain
    <3> QED BY <2>1, <2>2, <3>2 DEF Service!Call
  <2>5. CASE ~dirty[c]
    <3>1. /\ frontend' = frontend \cup {Attempt(c, conn[c], obj'[c])}
          /\ UNCHANGED <<conn, mail>>
      BY <1>2, <2>3, <2>5 DEF ClientSend
    <3>2. Service!Current(c)' = Attempt(c, conn[c], obj'[c])
      BY <3>1 DEF Service!Current, Attempt
    <3>3. Service!Ask(c)
      BY <3>1, <3>2 DEF Service!Ask, Delivered
    <3> QED BY <2>1, <2>2, <3>3 DEF Service!Call
  <2> QED BY <2>4, <2>5
<1>3. CASE ClientRecv(c)
  <2>1. /\ Head(mail[c]) = CurrentAttempt(c)
        /\ CurrentAttempt(c) \in Delivered
        /\ Delivered' = Delivered \ {CurrentAttempt(c)}
    BY <1>3, ReceivedMail
  <2>2. Service!Current(c) = CurrentAttempt(c)
    BY DEF Service!Current, CurrentAttempt, Attempt
  <2>3. /\ cpc[c] = "wait" /\ cpc' = [cpc EXCEPT ![c] = "idle"]
        /\ result' = [result EXCEPT ![c] = Head(mail[c])]
        /\ UNCHANGED <<obj, conn, frontend>>
    BY <1>3 DEF ClientRecv
  <2>4. c \in waiting /\ waiting' = waiting \ {c}
    BY <1>1, <2>3
  <2> QED BY <2>1, <2>2, <2>3, <2>4 DEF Service!Return
<1>4. CASE ClientRetry(c)
  <2>1. /\ cpc[c] = "wait" /\ Faults # {} /\ UNCHANGED <<cpc, obj, result>>
        /\ Reconnect(c, {Attempt(c, conn[c] + 1, obj'[c])})
    BY <1>4 DEF ClientRetry
  <2>2. Service!AskAgain(c)
    BY <2>1, ServiceAsksAgain
  <2> QED BY <2>1, <2>2 DEF Service!Repeat
<1>5. CASE ClientGiveUp(c)
  <2>1. /\ cpc[c] = "wait" /\ Faults # {} /\ cpc' = [cpc EXCEPT ![c] = "idle"]
        /\ result' = [result EXCEPT ![c] = None] /\ UNCHANGED <<obj, wireVars>>
    BY <1>5 DEF ClientGiveUp
  <2>2. c \in waiting /\ waiting' = waiting \ {c}
    BY <1>1, <2>1
  <2>3. Delivered' = Delivered
    BY <2>1 DEF wireVars, Delivered
  <2> QED BY <2>1, <2>2, <2>3 DEF Service!GiveUp, wireVars
<1> QED BY <1>2, <1>3, <1>4, <1>5

(* Every step of laikad is a step of the service or no step of it.          *)
LEMMA ServiceStep ==
  ASSUME NoBrokerEnds, Inv, MailCurrent, Faults = {} => Calm, [Next]_vars
  PROVE  [Service!SvcNext]_(Service!svcVars)
<1>0. /\ IInv /\ IInv' /\ Apart /\ Awaited /\ Orderly /\ QueuesOK /\ QueuesOK'
      /\ Faults = {} => OneTaskPerWorker
  BY InvStep, InvQueues DEF Inv, FirstOneTask, NoBrokerFaults, IInv, TypeOK, WireTypeOK,
                            WorkerTypeOK, QueuesOK
<1>1. ASSUME NEW w \in Workers, ResultStep(w) PROVE Service!SvcNext
  BY <1>0, <1>1, ServiceCompletes DEF Service!SvcNext
<1>2. ASSUME NEW t \in frontend, ForwardStep(t), Faults # {} \/ Head(avail) \in sock
      PROVE  Service!SvcNext
  BY <1>0, <1>2, ServiceStarts DEF Service!SvcNext
<1>3. CASE Faults = {}
  <2>1. CalmKinds
    BY <1>0, <1>3, CalmNext
  <2>2. CASE StillStep
    <3>1. OnItsWay' = OnItsWay
      BY <2>2, StayingTasks DEF StillStep
    <3> QED BY <2>2, <3>1, ServiceSame DEF StillStep
  <2>3. ASSUME NEW c \in Clients, CallStep(c) PROVE Service!SvcNext
    <3>1. OnItsWay' = OnItsWay
      BY <2>3, StayingTasks DEF CallStep
    <3>2. /\ ClientSend(c) \/ ClientRecv(c)
          /\ ClientSend(c) => ~dirty[c]
      BY <2>3 DEF CallStep, ClientSend, ClientRecv
    <3>3. Service!Call(c) \/ Service!Repeat(c) \/ Service!GiveUp(c) \/ Service!Return(c)
      BY <1>0, <3>1, <3>2, ServiceAsks
    <3> QED BY <3>3 DEF Service!SvcNext
  <2> QED BY <1>1, <1>2, <2>1, <2>2, <2>3 DEF CalmKinds, HandStep
<1>4. CASE Faults # {}
  <2>1. \/ QuietStep
        \/ \E w \in Workers : WorkStep(w) \/ ResultStep(w)
        \/ \E t \in frontend : ForwardStep(t)
        \/ \E c \in Clients : AskStep(c)
    BY <1>0, StepKind, MailCurrentStep
  <2>2. CASE QuietStep \/ \E w \in Workers : WorkStep(w)
    <3>1. OnItsWay' \subseteq OnItsWay
      BY <1>0, <2>2, OnItsWayKept
    <3>2. UNCHANGED <<conn, frontend, mail, clientVars>>
      BY <2>2 DEF QuietStep, WorkStep
    <3> QED BY <1>4, <3>1, <3>2, ServiceLoses DEF Service!SvcNext
  <2>3. ASSUME NEW c \in Clients, AskStep(c) PROVE Service!SvcNext
    <3>1. OnItsWay' = OnItsWay
      BY <2>3, SameTasks DEF AskStep, OnItsWay
    <3>2. Service!Call(c) \/ Service!Repeat(c) \/ Service!GiveUp(c) \/ Service!Return(c)
      BY <1>0, <1>4, <2>3, <3>1, ServiceAsks DEF AskStep
    <3> QED BY <3>2 DEF Service!SvcNext
  <2> QED BY <1>1, <1>2, <1>4, <2>1, <2>2, <2>3
<1> QED BY <1>3, <1>4

(* At first the service has nothing to do.                                  *)
LEMMA ServiceInit == Init => Service!SvcInit /\ MailCurrent
<1> SUFFICES ASSUME Init PROVE Service!SvcInit /\ MailCurrent
  OBVIOUS
<1>1. /\ obj = [c \in Clients |-> 0] /\ conn = [c \in Clients |-> 0]
      /\ result = [c \in Clients |-> None]
      /\ mail = [c \in Clients |-> <<>>]
      /\ \A c \in Clients : cpc[c] = "idle"
  BY DEF Init, WireInit, ClientInit
<1>2. {c \in Clients : cpc[c] = "wait"} = {}
  BY <1>1
<1> QED BY <1>1, <1>2, NothingAtFirst DEF Service!SvcInit, MailCurrent

(* As long as no broker is signalled, killed or shut down with the whole of *)
(* laikad, laikad is the scan service of module ScanService, whatever       *)
(* happens to its workers and its clients: an object is queued, taken up    *)
(* and completed once, and send() returns the result of its own object.     *)
(* Where nothing may fail, it is the service that loses nothing.            *)
THEOREM ImplementsService ==
  ASSUME Faults \cap {"brokerSignal", "brokerKill", "supStop"} = {}
  PROVE  Spec => ServiceSpec
<1> DEFINE Kept == Inv /\ MailCurrent /\ (Faults = {} => Calm)
<1>0. NoBrokerEnds
  BY DEF NoBrokerEnds
<1>1. Init => Kept /\ Service!SvcInit
  BY InvInit, ServiceInit, CalmInit
<1>2. Kept /\ [Next]_vars => Kept' /\ [Service!SvcNext]_(Service!svcVars)
  <2> SUFFICES ASSUME Kept, [Next]_vars
               PROVE  Kept' /\ [Service!SvcNext]_(Service!svcVars)
    OBVIOUS
  <2>1. Inv' /\ MailCurrent'
    BY <1>0, InvStep, MailCurrentStep
  <2>2. Faults = {} => Calm'
    BY CalmStep
  <2> QED BY <1>0, <2>1, <2>2, ServiceStep
<1> QED BY <1>1, <1>2, PTL DEF Spec, ServiceSpec, Service!SvcSpec
===========================================================================
