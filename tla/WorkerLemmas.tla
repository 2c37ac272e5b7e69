--------------------------- MODULE WorkerLemmas ---------------------------
(***************************************************************************)
(* What the sockets, the workers and their supervisor do in laikad with    *)
(* either broker: to the types of the variables, to the tasks of a worker  *)
(* and to the number of these.                                             *)
(***************************************************************************)
EXTENDS Supervisor, SeqLemmas, FiniteSetTheorems

(* What a list holds is the set of its elements.                            *)
LEMMA ContainsIsMember ==
  ASSUME NEW S, NEW s \in Seq(S), NEW e
  PROVE  Contains(s, e) <=> e \in ToSet(s)
BY LenProperties DEF Contains, ToSet

(* A worker holds a task exactly while it scans.                            *)
HeldWhileScanning ==
  \A w \in Workers : held[w] = None <=> pc[w] \notin Scanning

(* What the socket operations do to the type of the shared state.           *)
LEMMA SendToWorkerType ==
  ASSUME WireTypeOK, NEW w \in Workers, NEW t \in Task, SendToWorker(w, t)
  PROVE  inbox' \in [Workers -> Seq(Task)]
<1>1. Append(inbox[w], t) \in Seq(Task)
  BY AppendProperties DEF WireTypeOK
<1> QED BY <1>1 DEF WireTypeOK, SendToWorker

(* A reply to a client leaves the mail of the clients well typed.           *)
LEMMA ReplyType ==
  ASSUME WireTypeOK, NEW t \in Task, ReplyToClient(t)
  PROVE  mail' \in [Clients -> Seq(Task)]
<1>1. t.client \in Clients
  BY DEF Task
<1>2. Append(mail[t.client], t) \in Seq(Task)
  BY <1>1, AppendProperties DEF WireTypeOK
<1> QED BY <1>1, <1>2 DEF WireTypeOK, ReplyToClient

(* So does a message to the broker the channels of the workers.             *)
LEMMA SendToBrokerType ==
  ASSUME WireTypeOK, NEW w \in Workers, NEW m \in WorkerMsg, SendToBroker(w, m)
  PROVE  chan' \in [Workers -> Seq(WorkerMsg)]
<1>1. Append(chan[w], m) \in Seq(WorkerMsg)
  BY AppendProperties DEF WireTypeOK
<1> QED BY <1>1 DEF WireTypeOK, SendToBroker

(* The broker takes a message out of a channel.                             *)
LEMMA TakeMessageType ==
  ASSUME WireTypeOK, NEW w \in Workers, chan[w] # <<>>
  PROVE  /\ Head(chan[w]) \in WorkerMsg
         /\ [chan EXCEPT ![w] = Tail(@)] \in [Workers -> Seq(WorkerMsg)]
<1>1. Head(chan[w]) \in WorkerMsg /\ Tail(chan[w]) \in Seq(WorkerMsg)
  BY HeadTailProperties DEF WireTypeOK
<1> QED BY <1>1 DEF WireTypeOK

(* A client opens a new socket.                                             *)
LEMMA ReconnectType ==
  ASSUME WireTypeOK, NEW c \in Clients, NEW pending \in SUBSET Task,
         Reconnect(c, pending)
  PROVE  /\ conn' \in [Clients -> Nat]
         /\ frontend' \subseteq Task
         /\ mail' \in [Clients -> Seq(Task)]
<1>1. <<>> \in Seq(Task)
  BY EmptySeq
<1> QED BY <1>1 DEF WireTypeOK, Reconnect

(* The sockets of the broker disappear.                                     *)
LEMMA LoseBrokerType ==
  ASSUME WireTypeOK, LoseBroker
  PROVE  /\ conn' \in [Clients -> Nat]
         /\ frontend' \subseteq Task
         /\ inbox' \in [Workers -> Seq(Task)]
         /\ chan' \in [Workers -> Seq(WorkerMsg)]
<1>1. conn' \in [Clients -> Nat]
  BY DEF WireTypeOK, LoseBroker
<1>2. frontend' \subseteq Task
  <2>1. PICK unsent \in SUBSET {t \in frontend : t.conn = conn[t.client]} :
          frontend' = {[t EXCEPT !.conn = @ + 1] : t \in unsent}
    BY DEF LoseBroker
  <2>2. ASSUME NEW t \in unsent PROVE [t EXCEPT !.conn = @ + 1] \in Task
    <3>1. t \in Task
      BY <2>1 DEF WireTypeOK
    <3> QED BY <3>1 DEF Task
  <2> QED BY <2>1, <2>2
<1>3. inbox' \in [Workers -> Seq(Task)]
  <2>1. ASSUME NEW w \in Workers PROVE inbox'[w] \in Seq(Task)
    BY PrefixWindow DEF WireTypeOK, LoseBroker
  <2>2. inbox' = [w \in Workers |-> inbox'[w]]
    BY DEF LoseBroker
  <2> QED BY <2>1, <2>2
<1>4. chan' \in [Workers -> Seq(WorkerMsg)]
  <2>1. ASSUME NEW w \in Workers PROVE chan'[w] \in Seq(WorkerMsg)
    <3>1. CASE w \in sock
      BY <3>1, SuffixWindow DEF WireTypeOK, LoseBroker
    <3>2. CASE w \notin sock
      BY <3>2, EmptySeq DEF LoseBroker
    <3> QED BY <3>1, <3>2
  <2>2. chan' = [w \in Workers |-> chan'[w]]
    BY DEF LoseBroker
  <2> QED BY <2>1, <2>2
<1> QED BY <1>1, <1>2, <1>3, <1>4

(* The sockets of a worker disappear.                                       *)
LEMMA LoseWorkerType ==
  ASSUME WireTypeOK, NEW w \in Workers, NEW left \in Seq(WorkerMsg),
         LoseWorker(w, left)
  PROVE  /\ sock' \subseteq Workers
         /\ inbox' \in [Workers -> Seq(Task)]
         /\ chan' \in [Workers -> Seq(WorkerMsg)]
<1>1. <<>> \in Seq(Task)
  BY EmptySeq
<1> QED BY <1>1 DEF WireTypeOK, LoseWorker

---------------------------------------------------------------------------
(* Whatever a worker may do, with a broker that is up or not.               *)
WorkerActs(w, up) ==
  \/ Boot(w)
  \/ Take(w)
  \/ PollTimeout(w)
  \/ Finish(w)
  \/ Sent(w, up)
  \/ GraceTake(w)
  \/ GraceFinish(w)
  \/ GraceTimeout(w)
  \/ Exit(w, up)
  \/ ScanError(w, up)
  \/ WorkerSignal(w, up)
  \/ WorkerKill(w, up)

WorkerPart == WireTypeOK /\ WorkerTypeOK /\ HeldWhileScanning

(* A worker process ends.                                                   *)
LEMMA DieType ==
  ASSUME WorkerPart, NEW w \in Workers, NEW left \in Seq(WorkerMsg), Die(w, left)
  PROVE  WorkerPart'
<1>1. /\ sock' \subseteq Workers
      /\ inbox' \in [Workers -> Seq(Task)]
      /\ chan' \in [Workers -> Seq(WorkerMsg)]
  BY LoseWorkerType DEF Die, WorkerPart
<1> QED BY <1>1 DEF WorkerPart, WireTypeOK, WorkerTypeOK, HeldWhileScanning,
                    Scanning, Die, Goto

(* Whatever a worker does, or is done to it, the types stay.                *)
LEMMA WorkerActsType ==
  ASSUME WorkerPart, NEW w \in Workers, NEW up, WorkerActs(w, up)
  PROVE  WorkerPart'
<1> USE DEF WorkerPart, HeldWhileScanning, Scanning
<1> DEFINE says(status) == [status |-> status, task |-> None]
<1>1. says("READY") \in WorkerMsg /\ says("QUIT") \in WorkerMsg
  BY DEF WorkerMsg
<1>2. chan[w] \in Seq(WorkerMsg) /\ <<>> \in Seq(WorkerMsg)
  BY EmptySeq DEF WireTypeOK
<1>3. CASE Boot(w)
  <2>1. chan' \in [Workers -> Seq(WorkerMsg)]
    BY <1>1, <1>3, SendToBrokerType DEF Boot
  <2> QED BY <1>3, <2>1 DEF Boot, Goto, WireTypeOK, WorkerTypeOK
<1>4. ASSUME NEW label \in Scanning, Receive(w, label)
      PROVE  WorkerPart'
  <2>1. Head(inbox[w]) \in Task /\ Tail(inbox[w]) \in Seq(Task)
    BY <1>4, HeadTailProperties DEF Receive, WireTypeOK
  <2> QED BY <1>4, <2>1, NoneAssumption DEF Receive, Goto, WireTypeOK, WorkerTypeOK
<1>5. CASE PollTimeout(w)
  <2>1. chan' \in [Workers -> Seq(WorkerMsg)]
    BY <1>1, <1>5, SendToBrokerType DEF PollTimeout
  <2> QED BY <1>5, <2>1 DEF PollTimeout, Goto, WireTypeOK, WorkerTypeOK
<1>6. ASSUME pc[w] \in Scanning, NEW status \in ResultStatus
      PROVE  [status |-> status, task |-> held[w]] \in WorkerMsg
  BY <1>6 DEF WorkerTypeOK, WorkerMsg
<1>7. CASE Finish(w)
  <2>1. chan' \in [Workers -> Seq(WorkerMsg)]
    BY <1>6, <1>7, SendToBrokerType DEF Finish, ResultStatus
  <2>2. PICK shouldQuit \in BOOLEAN : stop' = [stop EXCEPT ![w] = shouldQuit]
    BY <1>7 DEF Finish
  <2>3. stop' \in [Workers -> BOOLEAN]
    BY <2>2, Zenon DEF WorkerTypeOK
  <2>4. count' \in [Workers -> Nat] /\ held' \in [Workers -> Task \cup {None}]
    BY <1>7 DEF Finish, WorkerTypeOK
  <2>5. WireTypeOK'
    BY <1>7, <2>1 DEF Finish, WireTypeOK
  <2>6. /\ pc' = [pc EXCEPT ![w] = "sent"]
        /\ held' = [held EXCEPT ![w] = None]
    BY <1>7 DEF Finish, Goto
  <2>7. pc' \in [Workers -> {"off", "boot", "poll", "scan", "sent", "grace",
                             "gracescan", "gracesent", "close"}]
    BY <2>6 DEF WorkerTypeOK
  <2>8. HeldWhileScanning'
    BY <2>6 DEF WorkerTypeOK
  <2> QED BY <2>3, <2>4, <2>5, <2>7, <2>8 DEF WorkerTypeOK
<1>8. CASE GraceFinish(w)
  <2>1. chan' \in [Workers -> Seq(WorkerMsg)]
    BY <1>6, <1>8, SendToBrokerType DEF GraceFinish, ResultStatus
  <2> QED BY <1>8, <2>1 DEF GraceFinish, Goto, WireTypeOK, WorkerTypeOK
<1>9. CASE GraceTimeout(w)
  BY <1>9 DEF GraceTimeout, Goto, wireVars, WireTypeOK, WorkerTypeOK
<1>10. CASE Sent(w, up)
  BY <1>10 DEF Sent, Goto, wireVars, WireTypeOK, WorkerTypeOK
<1>11. CASE Exit(w, up) \/ ScanError(w, up)
  BY <1>2, <1>11, DieType DEF Exit, ScanError
<1>12. CASE WorkerSignal(w, up)
  <2>1. CASE Die(w, IF up THEN chan[w] ELSE <<>>)
    BY <1>2, <2>1, DieType
  <2>2. CASE ~Die(w, IF up THEN chan[w] ELSE <<>>)
    BY <1>12, <2>2 DEF WorkerSignal, Goto, wireVars, WireTypeOK, WorkerTypeOK
  <2> QED BY <2>1, <2>2
<1>13. CASE WorkerKill(w, up)
  <2>1. PICK left \in IF up THEN Prefixes(chan[w]) ELSE {<<>>} : Die(w, left)
    BY <1>13 DEF WorkerKill
  <2>2. left \in Seq(WorkerMsg)
    BY <1>2, <2>1, PrefixWindow
  <2> QED BY <2>1, <2>2, DieType
<1>14. CASE Take(w) \/ GraceTake(w)
  BY <1>4, <1>14 DEF Take, GraceTake
<1> QED BY <1>3, <1>5, <1>7, <1>8, <1>9, <1>10, <1>11, <1>12, <1>13, <1>14
        DEF WorkerActs

(* So they do when the supervisor starts a new worker,                      *)
LEMMA ReplaceWorkerType ==
  ASSUME WorkerPart, SupTypeOK, NEW w \in Workers, NEW new \in Workers,
         ReplaceWorker(w, new)
  PROVE  WorkerPart' /\ SupTypeOK'
BY DEF ReplaceWorker, Goto, wireVars, WorkerPart, HeldWhileScanning, Scanning,
       WireTypeOK, WorkerTypeOK, SupTypeOK

(* and when it kills all of them.                                           *)
LEMMA KillWorkersType ==
  ASSUME WorkerPart, SupTypeOK, NEW up, SupKillWorkers(up)
  PROVE  WorkerPart' /\ SupTypeOK'
<1>1. <<>> \in Seq(Task) /\ <<>> \in Seq(WorkerMsg)
  BY EmptySeq
<1>2. chan' \in [Workers -> Seq(WorkerMsg)]
  <2>1. ASSUME NEW w \in Workers PROVE chan'[w] \in Seq(WorkerMsg)
    <3>1. chan[w] \in Seq(WorkerMsg)
      BY DEF WorkerPart, WireTypeOK
    <3>2. chan'[w] \in {chan[w]} \cup Prefixes(chan[w]) \cup {<<>>}
      BY DEF SupKillWorkers
    <3> QED BY <1>1, <3>1, <3>2, PrefixWindow
  <2>2. chan' = [w \in Workers |-> chan'[w]]
    BY DEF SupKillWorkers
  <2> QED BY <2>1, <2>2
<1> QED BY <1>1, <1>2 DEF SupKillWorkers, WorkerPart, HeldWhileScanning, Scanning,
                          WireTypeOK, WorkerTypeOK, SupTypeOK

---------------------------------------------------------------------------
(* s has lost messages at its ends, and gained some of other kinds.         *)
Drops(p, s, kinds) ==
  \E k \in Nat : \A i \in WithStatus(p, kinds) :
    i + k \in WithStatus(s, kinds) /\ p[i] = s[i + k]

(* The messages of a kind are the places of a set of messages.              *)
LEMMA StatusIsPlace ==
  ASSUME NEW s \in Seq(WorkerMsg), NEW kinds
  PROVE  WithStatus(s, kinds) = Places(s, {m \in WorkerMsg : m.status \in kinds})
BY ElementOfSeq DEF WithStatus, Places

(* There are finitely many messages of a kind.                              *)
LEMMA StatusPlaces ==
  ASSUME NEW s \in Seq(WorkerMsg), NEW kinds
  PROVE  /\ WithStatus(s, kinds) \subseteq 1 .. Len(s)
         /\ IsFiniteSet(WithStatus(s, kinds))
         /\ Cardinality(WithStatus(s, kinds)) \in Nat
<1> DEFINE V == {m \in WorkerMsg : m.status \in kinds}
<1>1. WithStatus(s, kinds) = Places(s, V)
  BY StatusIsPlace
<1> HIDE DEF V
<1>2. /\ Places(s, V) \subseteq 1 .. Len(s) /\ IsFiniteSet(Places(s, V))
      /\ Cardinality(Places(s, V)) \in Nat
  BY PlacesFinite
<1> QED BY <1>1, <1>2

(* One more when a message of the kind is sent.                             *)
LEMMA StatusAppend ==
  ASSUME NEW s \in Seq(WorkerMsg), NEW m \in WorkerMsg, NEW kinds
  PROVE  /\ WithStatus(Append(s, m), kinds) =
              WithStatus(s, kinds) \cup (IF m.status \in kinds THEN {Len(s) + 1} ELSE {})
         /\ Cardinality(WithStatus(Append(s, m), kinds)) =
              Cardinality(WithStatus(s, kinds)) + (IF m.status \in kinds THEN 1 ELSE 0)
<1> DEFINE V == {n \in WorkerMsg : n.status \in kinds}
<1>1. Append(s, m) \in Seq(WorkerMsg) /\ (m \in V <=> m.status \in kinds)
  BY AppendProperties
<1>2. WithStatus(s, kinds) = Places(s, V) /\ WithStatus(Append(s, m), kinds) = Places(Append(s, m), V)
  BY <1>1, StatusIsPlace
<1> HIDE DEF V
<1>3. /\ Places(Append(s, m), V) = Places(s, V) \cup (IF m \in V THEN {Len(s) + 1} ELSE {})
      /\ Cardinality(Places(Append(s, m), V)) =
           Cardinality(Places(s, V)) + (IF m \in V THEN 1 ELSE 0)
  BY PlacesAppend
<1> QED BY <1>1, <1>2, <1>3

(* One less when a message of the kind is received.                         *)
LEMMA StatusTail ==
  ASSUME NEW s \in Seq(WorkerMsg), s # <<>>, NEW kinds
  PROVE  /\ Tail(s) \in Seq(WorkerMsg)
         /\ WithStatus(s, kinds) = {i + 1 : i \in WithStatus(Tail(s), kinds)}
              \cup (IF Head(s).status \in kinds THEN {1} ELSE {})
         /\ Cardinality(WithStatus(s, kinds)) =
              Cardinality(WithStatus(Tail(s), kinds))
                + (IF Head(s).status \in kinds THEN 1 ELSE 0)
<1> DEFINE V == {n \in WorkerMsg : n.status \in kinds}
<1>1. Tail(s) \in Seq(WorkerMsg) /\ Head(s) \in WorkerMsg
  BY HeadTailProperties
<1>2. Head(s) \in V <=> Head(s).status \in kinds
  BY <1>1
<1>3. WithStatus(s, kinds) = Places(s, V) /\ WithStatus(Tail(s), kinds) = Places(Tail(s), V)
  BY <1>1, StatusIsPlace
<1> HIDE DEF V
<1>4. /\ Places(s, V) = {i + 1 : i \in Places(Tail(s), V)} \cup (IF Head(s) \in V THEN {1} ELSE {})
      /\ Cardinality(Places(s, V)) =
           Cardinality(Places(Tail(s), V)) + (IF Head(s) \in V THEN 1 ELSE 0)
  BY PlacesTail
<1> QED BY <1>1, <1>2, <1>3, <1>4

(* A stretch of the messages has lost some at its ends.                     *)
LEMMA WindowDrops ==
  ASSUME NEW s \in Seq(WorkerMsg), NEW p \in Seq(WorkerMsg), Window(p, s), NEW kinds
  PROVE  Drops(p, s, kinds)
<1>1. PICK k \in Nat : Len(p) + k <= Len(s) /\ \A i \in 1 .. Len(p) : p[i] = s[i + k]
  BY DEF Window
<1>2. ASSUME NEW i \in WithStatus(p, kinds)
      PROVE  i + k \in WithStatus(s, kinds) /\ p[i] = s[i + k]
  <2>1. i \in 1 .. Len(p) /\ Len(p) \in Nat /\ Len(s) \in Nat /\ p[i].status \in kinds
    BY DEF WithStatus
  <2>2. i + k \in 1 .. Len(s) /\ p[i] = s[i + k]
    BY <1>1, <2>1
  <2> QED BY <2>1, <2>2 DEF WithStatus
<1> QED BY <1>2 DEF Drops

(* A message of another kind changes nothing.                               *)
LEMMA QuietDrops ==
  ASSUME NEW s \in Seq(WorkerMsg), NEW m \in WorkerMsg, NEW kinds, m.status \notin kinds
  PROVE  Drops(Append(s, m), s, kinds)
<1>0. WithStatus(Append(s, m), kinds) =
        WithStatus(s, kinds) \cup (IF m.status \in kinds THEN {Len(s) + 1} ELSE {})
  BY StatusAppend
<1>1. WithStatus(Append(s, m), kinds) = WithStatus(s, kinds)
  BY <1>0
<1>2. ASSUME NEW i \in WithStatus(s, kinds) PROVE i + 0 = i /\ Append(s, m)[i] = s[i]
  BY StatusPlaces, AppendAny
<1>3. \A i \in WithStatus(Append(s, m), kinds) :
        i + 0 \in WithStatus(s, kinds) /\ Append(s, m)[i] = s[i + 0]
  BY <1>1, <1>2
<1> QED BY <1>3 DEF Drops

(* Losing messages leaves no more of a kind than there were.                *)
LEMMA DropsCount ==
  ASSUME NEW s \in Seq(WorkerMsg), NEW p \in Seq(WorkerMsg), NEW kinds, Drops(p, s, kinds)
  PROVE  Cardinality(WithStatus(p, kinds)) <= Cardinality(WithStatus(s, kinds))
<1> DEFINE P == WithStatus(p, kinds)
           T == WithStatus(s, kinds)
<1>1. PICK k \in Nat : \A i \in P : i + k \in T /\ p[i] = s[i + k]
  BY DEF Drops
<1>2. IsFiniteSet(T) /\ P \subseteq Int
  BY StatusPlaces
<1> HIDE DEF P, T
<1> DEFINE f == [i \in P |-> i + k]
<1>3. f \in Injection(P, T)
  BY <1>1, <1>2 DEF Injection, IsInjective
<1> QED BY <1>2, <1>3, FS_Injection DEF P, T

---------------------------------------------------------------------------
(* The tasks of w are all different, so there are Load(w) of them.          *)
Neat(w) ==
  /\ IsInjective(inbox[w])
  /\ held[w] \notin ToSet(inbox[w])
  /\ \A i, j \in ResultsIn(chan[w]) : chan[w][i].task = chan[w][j].task => i = j
  /\ \A i \in ResultsIn(chan[w]) :
       chan[w][i].task # held[w] /\ chan[w][i].task \notin ToSet(inbox[w])

(* What may become of the tasks of w: some are lost, or w is given one, or  *)
(* takes up the next, or is done with the one it holds.                     *)
Shrinks(w) ==
  /\ Window(inbox'[w], inbox[w])
  /\ held'[w] \in {held[w], None}
  /\ Drops(chan'[w], chan[w], ResultStatus)

Gets(w, t) ==
  /\ inbox'[w] = Append(inbox[w], t)
  /\ held'[w] = held[w] /\ chan'[w] = chan[w]

TakesUp(w) ==
  /\ inbox[w] # <<>> /\ held[w] = None
  /\ inbox'[w] = Tail(inbox[w]) /\ held'[w] = Head(inbox[w])
  /\ chan'[w] = chan[w]

Completes(w, m) ==
  /\ m.status \in ResultStatus /\ held[w] # None /\ m.task = held[w]
  /\ inbox'[w] = inbox[w] /\ held'[w] = None
  /\ chan'[w] = Append(chan[w], m)

(* The broker has received a result of w.                                   *)
HandsIn(w) ==
  /\ chan[w] # <<>> /\ Head(chan[w]).status \in ResultStatus
  /\ inbox'[w] = inbox[w] /\ held'[w] = held[w] /\ chan'[w] = Tail(chan[w])

QueuesOK ==
  /\ inbox \in [Workers -> Seq(Task)]
  /\ held \in [Workers -> Task \cup {None}]
  /\ chan \in [Workers -> Seq(WorkerMsg)]

(* The load of a worker is a number, zero only where it has no task.        *)
LEMMA LoadIsNatural ==
  ASSUME QueuesOK, NEW w \in Workers
  PROVE  /\ Load(w) \in Nat /\ Len(inbox[w]) \in Nat /\ Holds(w) \in {0, 1}
         /\ Cardinality(ResultsIn(chan[w])) \in Nat
         /\ Load(w) = 0 => TasksOf(w) = {} /\ held[w] = None
<1>1. inbox[w] \in Seq(Task) /\ chan[w] \in Seq(WorkerMsg)
  BY DEF QueuesOK
<1>2. /\ Cardinality(ResultsIn(chan[w])) \in Nat
      /\ IsFiniteSet(ResultsIn(chan[w]))
  BY <1>1, StatusPlaces DEF ResultsIn
<1>3. Len(inbox[w]) \in Nat /\ DOMAIN inbox[w] = 1 .. Len(inbox[w])
  BY <1>1
<1>a. Holds(w) \in {0, 1} /\ (Holds(w) = 0 => held[w] = None)
  BY DEF Holds
<1>4. Load(w) \in Nat
  BY <1>a, <1>2, <1>3 DEF Load
<1>5. ASSUME Load(w) = 0 PROVE TasksOf(w) = {}
  <2>1. Len(inbox[w]) = 0 /\ held[w] = None /\ Cardinality(ResultsIn(chan[w])) = 0
    BY <1>a, <1>2, <1>3, <1>5 DEF Load
  <2>2. ToSet(inbox[w]) = {}
    BY <1>3, <2>1 DEF ToSet
  <2>3. ResultsIn(chan[w]) = {}
    BY <1>2, <2>1, FS_EmptySet
  <2> QED BY <2>1, <2>2, <2>3 DEF TasksOf
<1>6. Holds(w) \in {0, 1} /\ (Load(w) = 0 => held[w] = None)
  BY <1>a, <1>2, <1>3 DEF Load
<1> QED BY <1>2, <1>3, <1>4, <1>5, <1>6

(* A result carries the task it is the result of.                           *)
LEMMA ResultsCarryTasks ==
  ASSUME QueuesOK, NEW w \in Workers, NEW i \in ResultsIn(chan[w])
  PROVE  /\ i \in 1 .. Len(chan[w]) /\ chan[w][i] \in WorkerMsg
         /\ chan[w][i].status \in ResultStatus /\ chan[w][i].task \in Task
<1>1. chan[w] \in Seq(WorkerMsg)
  BY DEF QueuesOK
<1>2. i \in 1 .. Len(chan[w]) /\ chan[w][i].status \in ResultStatus
  BY <1>1 DEF ResultsIn, WithStatus
<1>3. chan[w][i] \in WorkerMsg
  BY <1>1, <1>2, ElementOfSeq
<1> QED BY <1>2, <1>3 DEF WorkerMsg, ResultStatus

(* What a worker has are attempts of clients.                               *)
LEMMA TasksAreTasks ==
  ASSUME QueuesOK, NEW w \in Workers
  PROVE  TasksOf(w) \subseteq Task
<1>1. ToSet(inbox[w]) \subseteq Task
  <2>1. inbox[w] \in Seq(Task)
    BY DEF QueuesOK
  <2>2. \A i \in DOMAIN inbox[w] : inbox[w][i] \in Task
    BY <2>1, ElementOfSeq
  <2> QED BY <2>2 DEF ToSet
<1>2. held[w] \in Task \cup {None}
  BY DEF QueuesOK
<1>3. \A i \in ResultsIn(chan[w]) : chan[w][i].task \in Task
  BY ResultsCarryTasks
<1> QED BY <1>1, <1>2, <1>3 DEF TasksOf

(* A worker that loses tasks has some of those it had, and they stay        *)
(* different from each other.                                               *)
LEMMA Shrinking ==
  ASSUME QueuesOK, QueuesOK', NEW w \in Workers, Shrinks(w)
  PROVE  /\ TasksOf(w)' \subseteq TasksOf(w)
         /\ Load(w)' <= Load(w)
         /\ Neat(w) => Neat(w)'
<1>1. /\ inbox[w] \in Seq(Task) /\ inbox'[w] \in Seq(Task)
      /\ chan[w] \in Seq(WorkerMsg) /\ chan'[w] \in Seq(WorkerMsg)
  BY DEF QueuesOK
<1>2. /\ Len(inbox'[w]) <= Len(inbox[w])
      /\ ToSet(inbox'[w]) \subseteq ToSet(inbox[w])
      /\ IsInjective(inbox[w]) => IsInjective(inbox'[w])
  BY <1>1, WindowSubset DEF Shrinks
<1>3. PICK k \in Nat : \A i \in ResultsIn(chan'[w]) :
        i + k \in ResultsIn(chan[w]) /\ chan'[w][i] = chan[w][i + k]
  BY DEF Shrinks, Drops, ResultsIn
<1>4. TasksOf(w)' \subseteq TasksOf(w)
  <2>1. ASSUME NEW i \in ResultsIn(chan'[w]) PROVE chan'[w][i].task \in TasksOf(w)
    BY <1>3 DEF TasksOf
  <2>2. held'[w] # None => held'[w] \in TasksOf(w)
    BY DEF Shrinks, TasksOf
  <2> QED BY <1>2, <2>1, <2>2 DEF TasksOf
<1>5. Load(w)' <= Load(w)
  <2>1. Cardinality(ResultsIn(chan'[w])) <= Cardinality(ResultsIn(chan[w]))
    BY <1>1, DropsCount DEF Shrinks, ResultsIn
  <2>2. /\ Cardinality(ResultsIn(chan'[w])) \in Nat /\ Cardinality(ResultsIn(chan[w])) \in Nat
        /\ Len(inbox[w]) \in Nat /\ Len(inbox'[w]) \in Nat
    BY <1>1, StatusPlaces DEF ResultsIn
  <2>3. Holds(w)' <= Holds(w) /\ Holds(w)' \in Nat /\ Holds(w) \in Nat
    BY DEF Shrinks, Holds
  <2> QED BY <1>2, <2>1, <2>2, <2>3, SMTT(30) DEF Load
<1>6. ASSUME Neat(w) PROVE Neat(w)'
  <2>1. IsInjective(inbox'[w])
    BY <1>2, <1>6 DEF Neat
  <2>2. held'[w] \notin ToSet(inbox'[w])
    <3>1. None \notin ToSet(inbox'[w])
      <4>1. \A i \in DOMAIN inbox'[w] : inbox'[w][i] \in Task
        BY <1>1, ElementOfSeq
      <4> QED BY <4>1, NoneAssumption DEF ToSet
    <3> QED BY <1>2, <1>6, <3>1 DEF Neat, Shrinks
  <2>3. ASSUME NEW i \in ResultsIn(chan'[w]), NEW j \in ResultsIn(chan'[w]),
               chan'[w][i].task = chan'[w][j].task
        PROVE  i = j
    <3>1. i + k = j + k
      BY <1>3, <1>6, <2>3 DEF Neat
    <3>2. i \in Int /\ j \in Int
      BY <1>1, StatusPlaces DEF ResultsIn
    <3> QED BY <3>1, <3>2
  <2>4. ASSUME NEW i \in ResultsIn(chan'[w])
        PROVE  chan'[w][i].task # held'[w] /\ chan'[w][i].task \notin ToSet(inbox'[w])
    <3>1. i + k \in ResultsIn(chan[w]) /\ chan'[w][i] = chan[w][i + k]
      BY <1>3
    <3>2. chan[w][i + k].task \in Task
      BY <3>1, ResultsCarryTasks
    <3> QED BY <1>2, <1>6, <3>1, <3>2, NoneAssumption DEF Neat, Shrinks
  <2> QED BY <2>1, <2>2, <2>3, <2>4 DEF Neat
<1> QED BY <1>4, <1>5, <1>6

(* A worker that is given a task has one more.                              *)
LEMMA Getting ==
  ASSUME QueuesOK, NEW w \in Workers, NEW t \in Task, Gets(w, t)
  PROVE  /\ TasksOf(w)' = TasksOf(w) \cup {t}
         /\ Load(w)' = Load(w) + 1
         /\ Neat(w) /\ t \notin TasksOf(w) => Neat(w)'
<1>1. inbox[w] \in Seq(Task)
  BY DEF QueuesOK
<1>2. /\ ToSet(inbox'[w]) = ToSet(inbox[w]) \cup {t}
      /\ Len(inbox'[w]) = Len(inbox[w]) + 1
  BY <1>1, AppendAny DEF Gets
<1>3. held'[w] = held[w] /\ chan'[w] = chan[w]
  BY DEF Gets
<1>4. TasksOf(w)' = TasksOf(w) \cup {t}
  BY <1>2, <1>3 DEF TasksOf
<1>5. Load(w)' = Load(w) + 1
  <2>1. Holds(w)' = Holds(w)
    BY <1>3 DEF Holds
  <2>2. Cardinality(ResultsIn(chan[w]))' = Cardinality(ResultsIn(chan[w]))
    BY <1>3
  <2>3. /\ Len(inbox[w]) \in Nat /\ Holds(w) \in {0, 1}
        /\ Cardinality(ResultsIn(chan[w])) \in Nat
    BY LoadIsNatural
  <2> QED BY <1>2, <2>1, <2>2, <2>3 DEF Load
<1>6. ASSUME Neat(w), t \notin TasksOf(w) PROVE Neat(w)'
  <2>1. t \notin ToSet(inbox[w]) /\ t # held[w]
    BY <1>6, NoneAssumption DEF TasksOf
  <2>2. ~Contains(inbox[w], t)
    BY <1>1, <2>1, LenProperties DEF Contains, ToSet
  <2>3. IsInjective(inbox'[w])
    BY <1>1, <1>6, <2>2, AppendFresh DEF Gets, Neat
  <2>4. \A i \in ResultsIn(chan[w]) : chan[w][i].task # t
    BY <1>6 DEF TasksOf
  <2> QED BY <1>2, <1>3, <1>6, <2>1, <2>3, <2>4 DEF Neat
<1> QED BY <1>4, <1>5, <1>6

(* A worker that takes up a task has the tasks it had.                      *)
LEMMA TakingUp ==
  ASSUME QueuesOK, NEW w \in Workers, TakesUp(w)
  PROVE  /\ TasksOf(w)' = TasksOf(w)
         /\ Load(w)' = Load(w)
         /\ Neat(w) => Neat(w)'
<1>1. inbox[w] \in Seq(Task) /\ inbox[w] # <<>> /\ held[w] = None
  BY DEF QueuesOK, TakesUp
<1>2. /\ Head(inbox[w]) \in Task
      /\ Len(Tail(inbox[w])) = Len(inbox[w]) - 1
      /\ \A i \in 1 .. Len(Tail(inbox[w])) : Tail(inbox[w])[i] = inbox[w][i + 1]
      /\ Len(inbox[w]) \in Nat /\ Len(inbox[w]) > 0 /\ Head(inbox[w]) = inbox[w][1]
      /\ DOMAIN inbox[w] = 1 .. Len(inbox[w])
      /\ DOMAIN Tail(inbox[w]) = 1 .. Len(inbox[w]) - 1
  BY <1>1, HeadTailProperties, EmptySeq
<1>3. ToSet(inbox[w]) = ToSet(Tail(inbox[w])) \cup {Head(inbox[w])}
  <2>1. ASSUME NEW i \in DOMAIN inbox[w]
        PROVE  inbox[w][i] \in ToSet(Tail(inbox[w])) \cup {Head(inbox[w])}
    <3>1. CASE i = 1
      BY <1>2, <3>1
    <3>2. CASE i # 1
      <4>1. i - 1 \in DOMAIN Tail(inbox[w]) /\ Tail(inbox[w])[i - 1] = inbox[w][i]
        BY <1>2, <3>2
      <4> QED BY <4>1 DEF ToSet
    <3> QED BY <3>1, <3>2
  <2>2. ASSUME NEW i \in DOMAIN Tail(inbox[w])
        PROVE  Tail(inbox[w])[i] \in ToSet(inbox[w])
    <3>1. i + 1 \in DOMAIN inbox[w] /\ Tail(inbox[w])[i] = inbox[w][i + 1]
      BY <1>2
    <3> QED BY <3>1 DEF ToSet
  <2>3. 1 \in DOMAIN inbox[w] /\ Head(inbox[w]) = inbox[w][1]
    BY <1>2
  <2> QED BY <2>1, <2>2, <2>3 DEF ToSet
<1>4. /\ inbox'[w] = Tail(inbox[w]) /\ held'[w] = Head(inbox[w])
      /\ chan'[w] = chan[w] /\ held'[w] # None
  BY <1>2, NoneAssumption DEF TakesUp
<1>5. TasksOf(w)' = TasksOf(w)
  BY <1>1, <1>3, <1>4 DEF TasksOf
<1>6. Load(w)' = Load(w)
  <2>1. Holds(w)' = 1 /\ Holds(w) = 0
    BY <1>1, <1>4 DEF Holds
  <2>2. Cardinality(ResultsIn(chan[w]))' = Cardinality(ResultsIn(chan[w]))
    BY <1>4
  <2> QED BY <1>2, <1>4, <2>1, <2>2, LoadIsNatural DEF Load
<1>7. ASSUME Neat(w) PROVE Neat(w)'
  <2>1. /\ IsInjective(Tail(inbox[w]))
        /\ ToSet(Tail(inbox[w])) = ToSet(inbox[w]) \ {Head(inbox[w])}
        /\ Head(inbox[w]) \in ToSet(inbox[w])
    BY <1>1, <1>7, TailOfInjective DEF Neat
  <2> QED BY <1>4, <1>7, <2>1 DEF Neat
<1> QED BY <1>5, <1>6, <1>7

(* So has one whose scan is over: the result counts until the broker has    *)
(* it.                                                                      *)
LEMMA Completing ==
  ASSUME QueuesOK, NEW w \in Workers, NEW m \in WorkerMsg, Completes(w, m)
  PROVE  /\ TasksOf(w)' = TasksOf(w)
         /\ Load(w)' = Load(w)
         /\ Neat(w) => Neat(w)'
<1>1. /\ chan[w] \in Seq(WorkerMsg) /\ inbox[w] \in Seq(Task)
      /\ m.status \in ResultStatus /\ held[w] # None /\ m.task = held[w]
      /\ inbox'[w] = inbox[w] /\ held'[w] = None
      /\ chan'[w] = Append(chan[w], m)
  BY DEF QueuesOK, Completes
<1> DEFINE n == Len(chan[w]) + 1
<1>2. /\ ResultsIn(chan'[w]) = ResultsIn(chan[w]) \cup {n}
      /\ Cardinality(ResultsIn(chan'[w])) = Cardinality(ResultsIn(chan[w])) + 1
  BY <1>1, StatusAppend DEF ResultsIn
<1>3. /\ chan'[w][n] = m
      /\ \A i \in ResultsIn(chan[w]) : chan'[w][i] = chan[w][i] /\ i # n
  <2>1. /\ chan'[w][n] = m
        /\ \A i \in 1 .. Len(chan[w]) : chan'[w][i] = chan[w][i] /\ i # n
    BY <1>1, AppendAny
  <2> QED BY <2>1, ResultsCarryTasks
<1> HIDE DEF n
<1>4. TasksOf(w)' = TasksOf(w)
  <2>1. {chan'[w][i].task : i \in ResultsIn(chan'[w])}
          = {chan[w][i].task : i \in ResultsIn(chan[w])} \cup {held[w]}
    BY <1>1, <1>2, <1>3, ZenonT(60)
  <2> QED BY <1>1, <2>1 DEF TasksOf
<1>5. Load(w)' = Load(w)
  <2>1. Holds(w)' = 0 /\ Holds(w) = 1
    BY <1>1 DEF Holds
  <2>3. /\ Len(inbox[w]) \in Nat /\ Holds(w) \in {0, 1}
        /\ Cardinality(ResultsIn(chan[w])) \in Nat
    BY LoadIsNatural
  <2>4. Load(w)' = Len(inbox[w]) + Holds(w)' + Cardinality(ResultsIn(chan'[w]))
    BY <1>1 DEF Load
  <2> QED BY <1>2, <2>1, <2>3, <2>4 DEF Load
<1>6. ASSUME Neat(w) PROVE Neat(w)'
  <2>1. None \notin ToSet(inbox[w])
    <3>1. \A i \in DOMAIN inbox[w] : inbox[w][i] \in Task
      BY <1>1, ElementOfSeq
    <3> QED BY <3>1, NoneAssumption DEF ToSet
  <2>2. ASSUME NEW i \in ResultsIn(chan'[w])
        PROVE  chan'[w][i].task # None /\ chan'[w][i].task \notin ToSet(inbox[w])
    <3>1. CASE i = n
      BY <1>1, <1>3, <1>6, <3>1 DEF Neat
    <3>2. CASE i \in ResultsIn(chan[w])
      <4>1. chan[w][i].task \in Task
        BY <3>2, ResultsCarryTasks
      <4> QED BY <1>3, <1>6, <3>2, <4>1, NoneAssumption DEF Neat
    <3> QED BY <1>2, <3>1, <3>2
  <2>3. ASSUME NEW i \in ResultsIn(chan'[w]), NEW j \in ResultsIn(chan'[w]),
               chan'[w][i].task = chan'[w][j].task
        PROVE  i = j
    BY <1>1, <1>2, <1>3, <1>6, <2>3 DEF Neat
  <2> QED BY <1>1, <1>6, <2>1, <2>2, <2>3 DEF Neat
<1> QED BY <1>4, <1>5, <1>6

(* When the broker receives a result, its task is gone from the worker.     *)
LEMMA HandingIn ==
  ASSUME QueuesOK, NEW w \in Workers, HandsIn(w)
  PROVE  LET t == Head(chan[w]).task
         IN  /\ t \in TasksOf(w)
             /\ TasksOf(w) = TasksOf(w)' \cup {t}
             /\ Load(w)' = Load(w) - 1
             /\ Neat(w) => Neat(w)' /\ t \notin TasksOf(w)'
<1> DEFINE t == Head(chan[w]).task
<1>1. /\ chan[w] \in Seq(WorkerMsg) /\ chan[w] # <<>>
      /\ Head(chan[w]).status \in ResultStatus
      /\ inbox'[w] = inbox[w] /\ held'[w] = held[w]
      /\ chan'[w] = Tail(chan[w])
  BY DEF QueuesOK, HandsIn
<1>2. /\ ResultsIn(chan[w]) = {i + 1 : i \in ResultsIn(chan'[w])} \cup {1}
      /\ Cardinality(ResultsIn(chan[w])) = Cardinality(ResultsIn(chan'[w])) + 1
      /\ Cardinality(ResultsIn(chan'[w])) \in Nat
  BY <1>1, StatusTail, StatusPlaces DEF ResultsIn
<1>3. /\ chan[w][1] = Head(chan[w])
      /\ \A i \in ResultsIn(chan'[w]) :
           i + 1 \in ResultsIn(chan[w]) /\ chan'[w][i] = chan[w][i + 1] /\ i + 1 # 1
  <2>1. /\ Tail(chan[w]) \in Seq(WorkerMsg)
        /\ chan[w][1] = Head(chan[w])
        /\ \A i \in 1 .. Len(Tail(chan[w])) : Tail(chan[w])[i] = chan[w][i + 1]
    BY <1>1, HeadTailProperties
  <2>2. ResultsIn(chan'[w]) \subseteq 1 .. Len(Tail(chan[w]))
    BY <1>1, <2>1, StatusPlaces DEF ResultsIn
  <2>3. ASSUME NEW i \in ResultsIn(chan'[w])
        PROVE  i + 1 \in ResultsIn(chan[w]) /\ chan'[w][i] = chan[w][i + 1] /\ i + 1 # 1
    <3>1. i \in 1 .. Len(Tail(chan[w])) /\ Len(Tail(chan[w])) \in Nat
      BY <2>1, <2>2
    <3>2. i + 1 # 1
      BY <3>1
    <3> QED BY <1>1, <1>2, <2>1, <3>1, <3>2
  <2> QED BY <2>1, <2>3
<1>4. {chan[w][i].task : i \in ResultsIn(chan[w])}
        = {chan'[w][i].task : i \in ResultsIn(chan'[w])} \cup {t}
  <2>1. ASSUME NEW i \in ResultsIn(chan[w])
        PROVE  chan[w][i].task \in {chan'[w][j].task : j \in ResultsIn(chan'[w])} \cup {t}
    BY <1>2, <1>3
  <2> QED BY <1>2, <1>3, <2>1
<1>5. t \in TasksOf(w) /\ TasksOf(w) = TasksOf(w)' \cup {t}
  <2> HIDE DEF t
  <2> QED BY <1>1, <1>4 DEF TasksOf
<1>6. Load(w)' = Load(w) - 1
  <2>1. Holds(w)' = Holds(w)
    BY <1>1 DEF Holds
  <2>3. /\ Len(inbox[w]) \in Nat /\ Holds(w) \in {0, 1}
        /\ Cardinality(ResultsIn(chan[w])) \in Nat
    BY LoadIsNatural
  <2>4. Load(w)' = Len(inbox[w]) + Holds(w)' + Cardinality(ResultsIn(chan'[w]))
    BY <1>1 DEF Load
  <2> QED BY <1>2, <2>1, <2>3, <2>4, SMTT(30) DEF Load
<1>7. ASSUME Neat(w) PROVE Neat(w)' /\ t \notin TasksOf(w)'
  <2>1. 1 \in ResultsIn(chan[w])
    BY <1>2
  <2>2. t # held[w] /\ t \notin ToSet(inbox[w])
    BY <1>3, <1>7, <2>1 DEF Neat
  <2>3. \A i \in ResultsIn(chan'[w]) : chan'[w][i].task # t
    BY <1>3, <1>7, <2>1 DEF Neat
  <2>4. t \notin TasksOf(w)'
    BY <1>1, <2>2, <2>3 DEF TasksOf
  <2>5. ASSUME NEW i \in ResultsIn(chan'[w]), NEW j \in ResultsIn(chan'[w]),
               chan'[w][i].task = chan'[w][j].task
        PROVE  i = j
    <3>1. i + 1 = j + 1
      BY <1>3, <1>7, <2>5 DEF Neat
    <3>2. i \in Int /\ j \in Int
      <4>1. chan'[w] \in Seq(WorkerMsg)
        BY <1>1, StatusTail
      <4> QED BY <4>1, StatusPlaces DEF ResultsIn
    <3> QED BY <3>1, <3>2
  <2>6. Neat(w)'
    BY <1>1, <1>3, <1>7, <2>5 DEF Neat
  <2> QED BY <2>4, <2>6
<1> QED BY <1>5, <1>6, <1>7

(* Where its tasks are all different, a worker has as many as its load      *)
(* says.                                                                    *)
LEMMA NeatCount ==
  ASSUME QueuesOK, NEW w \in Workers, Neat(w)
  PROVE  Cardinality(TasksOf(w)) = Load(w)
<1> DEFINE A == ToSet(inbox[w])
           B == {held[w]} \ {None}
           R == ResultsIn(chan[w])
           C == {chan[w][i].task : i \in R}
<1>0. inbox[w] \in Seq(Task) /\ chan[w] \in Seq(WorkerMsg)
  BY DEF QueuesOK
<1>1. IsFiniteSet(A) /\ Cardinality(A) = Len(inbox[w]) /\ Cardinality(A) \in Nat
  <2>1. IsInjective(inbox[w])
    BY DEF Neat
  <2> QED BY <1>0, <2>1, SizeOfInjective
<1>2. IsFiniteSet(B) /\ Cardinality(B) = Holds(w) /\ Holds(w) \in Nat
  <2>1. CASE held[w] = None
    BY <2>1, FS_EmptySet DEF Holds
  <2>2. CASE held[w] # None
    <3>1. B = {held[w]}
      BY <2>2
    <3> QED BY <2>2, <3>1, FS_Singleton DEF Holds
  <2> QED BY <2>1, <2>2
<1>3. IsFiniteSet(R) /\ Cardinality(R) \in Nat
  BY <1>0, StatusPlaces DEF ResultsIn
<1>4. IsFiniteSet(C) /\ Cardinality(C) = Cardinality(R)
  <2> DEFINE f == [i \in R |-> chan[w][i].task]
  <2> HIDE DEF R
  <2>1. f \in Bijection(R, C)
    <3>1. f \in [R -> C]
      OBVIOUS
    <3>2. IsInjective(f)
      BY DEF IsInjective, Neat, R
    <3>3. \A u \in C : \E i \in R : f[i] = u
      OBVIOUS
    <3> QED BY <3>1, <3>2, <3>3 DEF Bijection, Injection, Surjection
  <2>2. ExistsBijection(R, C)
    BY <2>1 DEF ExistsBijection
  <2> QED BY <1>3, <2>2, FS_Bijection
<1>5. A \cap B = {} /\ (A \cup B) \cap C = {}
  <2>1. A \cap B = {}
    BY DEF Neat
  <2>2. A \cap C = {}
    BY DEF Neat
  <2>3. B \cap C = {}
    BY DEF Neat
  <2> QED BY <2>1, <2>2, <2>3
<1>6. TasksOf(w) = (A \cup B) \cup C /\ Load(w) = Len(inbox[w]) + Holds(w) + Cardinality(R)
  BY DEF TasksOf, Load
<1> HIDE DEF A, B, C, R
<1>7. IsFiniteSet(A \cup B) /\ Cardinality(A \cup B) = Cardinality(A) + Cardinality(B)
  BY <1>1, <1>2, <1>5, DisjointUnion
<1>8. Cardinality((A \cup B) \cup C) = Cardinality(A \cup B) + Cardinality(C)
  BY <1>4, <1>5, <1>7, DisjointUnion
<1> QED BY <1>1, <1>2, <1>3, <1>4, <1>6, <1>7, <1>8

---------------------------------------------------------------------------
(* Which of these each action is.                                           *)
Same(w) == inbox'[w] = inbox[w] /\ held'[w] = held[w] /\ chan'[w] = chan[w]

(* A worker takes up a task or is done with it; the others are not affected.*)
Works(w) ==
  /\ TakesUp(w) \/ \E m \in WorkerMsg : Completes(w, m)
  /\ \A v \in Workers \ {w} : Same(v)

(* A worker that nothing happens to has lost nothing.                       *)
LEMMA SameShrinks ==
  ASSUME QueuesOK, NEW w \in Workers, Same(w)
  PROVE  Shrinks(w)
<1>1. inbox[w] \in Seq(Task) /\ chan[w] \in Seq(WorkerMsg)
  BY DEF QueuesOK
<1>2. Window(inbox[w], inbox[w]) /\ Window(chan[w], chan[w])
  BY <1>1, PlainWindows
<1>3. Drops(chan[w], chan[w], ResultStatus)
  BY <1>1, <1>2, WindowDrops
<1> QED BY <1>2, <1>3 DEF Same, Shrinks

(* It has the same tasks, in the same order.                                *)
LEMMA SameTasks ==
  ASSUME NEW w \in Workers, Same(w)
  PROVE  TasksOf(w)' = TasksOf(w) /\ Load(w)' = Load(w) /\ Neat(w)' = Neat(w)
<1>1. inbox'[w] = inbox[w] /\ held'[w] = held[w] /\ chan'[w] = chan[w]
  BY DEF Same
<1>2. TasksOf(w)' = TasksOf(w)
  BY <1>1 DEF TasksOf
<1>3. Load(w)' = Load(w)
  BY <1>1 DEF Load, Holds
<1>4. Neat(w)' = Neat(w)
  BY <1>1 DEF Neat
<1> QED BY <1>2, <1>3, <1>4

(* READY and QUIT leave the tasks alone.                                    *)
LEMMA SayingShrinks ==
  ASSUME QueuesOK, NEW w \in Workers, NEW m \in WorkerMsg, m.status \notin ResultStatus,
         inbox'[w] = inbox[w], held'[w] = held[w], chan'[w] = Append(chan[w], m)
  PROVE  Shrinks(w)
<1>1. inbox[w] \in Seq(Task) /\ chan[w] \in Seq(WorkerMsg)
  BY DEF QueuesOK
<1>2. Window(inbox[w], inbox[w])
  BY <1>1, PlainWindows
<1>3. Drops(Append(chan[w], m), chan[w], ResultStatus)
  BY <1>1, QuietDrops
<1> QED BY <1>2, <1>3 DEF Shrinks

(* A worker that loses the ends of its queues loses tasks.                  *)
LEMMA LosingShrinks ==
  ASSUME QueuesOK, NEW w \in Workers,
         Window(inbox'[w], inbox[w]), held'[w] \in {held[w], None},
         chan'[w] \in Seq(WorkerMsg), Window(chan'[w], chan[w])
  PROVE  Shrinks(w)
<1>1. chan[w] \in Seq(WorkerMsg)
  BY DEF QueuesOK
<1>2. Drops(chan'[w], chan[w], ResultStatus)
  BY <1>1, WindowDrops
<1> QED BY <1>2 DEF Shrinks

(* w loses tasks or messages at the ends of its queues, or the task it has. *)
Loses(w) ==
  /\ Window(inbox'[w], inbox[w])
  /\ held'[w] \in {held[w], None}
  /\ chan'[w] \in Seq(WorkerMsg) /\ Window(chan'[w], chan[w])

(* A worker that nothing happens to loses nothing.                          *)
LEMMA SameLoses ==
  ASSUME QueuesOK, NEW w \in Workers, Same(w)
  PROVE  Loses(w)
<1>1. inbox[w] \in Seq(Task) /\ chan[w] \in Seq(WorkerMsg)
  BY DEF QueuesOK
<1>2. Window(inbox[w], inbox[w]) /\ Window(chan[w], chan[w])
  BY <1>1, PlainWindows
<1> QED BY <1>1, <1>2 DEF Same, Loses

(* The end of a worker concerns its own queues only.                        *)
LEMMA DieLoses ==
  ASSUME QueuesOK, NEW w \in Workers, NEW left \in {chan[w], <<>>} \cup Prefixes(chan[w]),
         Die(w, left)
  PROVE  Loses(w) /\ \A v \in Workers \ {w} : Same(v)
<1>1. inbox[w] \in Seq(Task) /\ chan[w] \in Seq(WorkerMsg)
  BY DEF QueuesOK
<1>2. left \in Seq(WorkerMsg) /\ Window(left, chan[w])
  BY <1>1, EmptySeq, PlainWindows, PrefixWindow
<1>3. Window(<<>>, inbox[w])
  BY <1>1, PlainWindows
<1>4. inbox'[w] = <<>> /\ held'[w] = None /\ chan'[w] = left
  BY DEF Die, LoseWorker, QueuesOK
<1>5. Loses(w)
  BY <1>2, <1>3, <1>4 DEF Loses
<1>6. ASSUME NEW v \in Workers, v # w PROVE Same(v)
  BY <1>6 DEF Die, LoseWorker, QueuesOK, Same
<1> QED BY <1>5, <1>6

(* What a worker says besides a result does not matter to its tasks.        *)
Says(w) ==
  /\ \E m \in WorkerMsg : m.status \notin ResultStatus /\ chan'[w] = Append(chan[w], m)
  /\ inbox'[w] = inbox[w] /\ held'[w] = held[w]
  /\ \A v \in Workers \ {w} : Same(v)

(* READY at the start and at a time-out, and QUIT at a time-out, are such   *)
(* words.                                                                   *)
LEMMA SayEffect ==
  ASSUME QueuesOK, NEW w \in Workers, Boot(w) \/ PollTimeout(w)
  PROVE  Says(w)
<1> DEFINE says(status) == [status |-> status, task |-> None]
<1>1. PICK status \in {"READY", "QUIT"} :
        SendToBroker(w, says(status)) /\ UNCHANGED <<inbox, held>>
  BY DEF Boot, PollTimeout
<1> DEFINE m == says(status)
<1>2. m \in WorkerMsg /\ m.status \notin ResultStatus
  BY DEF WorkerMsg, ResultStatus
<1>3. chan' = [chan EXCEPT ![w] = Append(@, m)]
  BY <1>1 DEF SendToBroker
<1> HIDE DEF m
<1>4. chan'[w] = Append(chan[w], m)
  BY <1>3 DEF QueuesOK
<1>5. \A v \in Workers \ {w} : Same(v)
  BY <1>1, <1>3 DEF QueuesOK, Same
<1> QED BY <1>1, <1>2, <1>4, <1>5 DEF Says

(* A worker says something that is no result, or the broker hears it.       *)
LEMMA SayingKeeps ==
  ASSUME QueuesOK, NEW w \in Workers, Says(w)
  PROVE  \A v \in Workers : TasksOf(v)' = TasksOf(v) /\ Load(v)' = Load(v)
<1>1. PICK m \in WorkerMsg : m.status \notin ResultStatus /\ chan'[w] = Append(chan[w], m)
  BY DEF Says
<1>2. inbox'[w] = inbox[w] /\ held'[w] = held[w] /\ chan[w] \in Seq(WorkerMsg)
  BY DEF Says, QueuesOK
<1>3. WithStatus(Append(chan[w], m), ResultStatus) =
        WithStatus(chan[w], ResultStatus) \cup (IF m.status \in ResultStatus THEN {Len(chan[w]) + 1} ELSE {})
  BY <1>2, StatusAppend
<1>4. ResultsIn(chan'[w]) = ResultsIn(chan[w])
  BY <1>1, <1>3 DEF ResultsIn
<1>5. \A i \in ResultsIn(chan[w]) : chan'[w][i] = chan[w][i]
  <2>1. \A i \in 1 .. Len(chan[w]) : chan'[w][i] = chan[w][i]
    BY <1>1, <1>2, AppendAny
  <2> QED BY <2>1, ResultsCarryTasks
<1>6. {chan'[w][i].task : i \in ResultsIn(chan'[w])} = {chan[w][i].task : i \in ResultsIn(chan[w])}
  BY <1>4, <1>5
<1>7. TasksOf(w)' = TasksOf(w)
  BY <1>2, <1>6 DEF TasksOf
<1>8. Load(w)' = Load(w)
  BY <1>2, <1>4 DEF Load, Holds
<1> QED BY <1>7, <1>8, SameTasks DEF Says

(* Hearing one of them leaves the tasks alone.                              *)
LEMMA HearingKeeps ==
  ASSUME QueuesOK, NEW w \in Workers, chan[w] # <<>>, Head(chan[w]).status \notin ResultStatus,
         chan'[w] = Tail(chan[w]), inbox'[w] = inbox[w], held'[w] = held[w]
  PROVE  TasksOf(w)' = TasksOf(w) /\ Load(w)' = Load(w)
<1>1. chan[w] \in Seq(WorkerMsg)
  BY DEF QueuesOK
<1>2. /\ WithStatus(chan[w], ResultStatus) = {i + 1 : i \in WithStatus(Tail(chan[w]), ResultStatus)}
           \cup (IF Head(chan[w]).status \in ResultStatus THEN {1} ELSE {})
      /\ Cardinality(WithStatus(chan[w], ResultStatus)) =
           Cardinality(WithStatus(Tail(chan[w]), ResultStatus))
             + (IF Head(chan[w]).status \in ResultStatus THEN 1 ELSE 0)
  BY <1>1, StatusTail
<1> DEFINE R == ResultsIn(chan[w])
           T == ResultsIn(chan'[w])
<1>3. R = {i + 1 : i \in T}
  BY <1>2 DEF ResultsIn
<1>4. Cardinality(R) = Cardinality(T)
  <2>1. Cardinality(WithStatus(Tail(chan[w]), ResultStatus)) \in Nat
    BY <1>1, HeadTailProperties, StatusPlaces
  <2>2. Cardinality(WithStatus(chan[w], ResultStatus))
          = Cardinality(WithStatus(Tail(chan[w]), ResultStatus))
    BY <1>2, <2>1
  <2> QED BY <2>2 DEF ResultsIn
<1>5. \A i \in T : chan'[w][i] = chan[w][i + 1]
  <2>1. /\ Tail(chan[w]) \in Seq(WorkerMsg)
        /\ \A i \in 1 .. Len(Tail(chan[w])) : Tail(chan[w])[i] = chan[w][i + 1]
    BY <1>1, HeadTailProperties
  <2>2. T \subseteq 1 .. Len(Tail(chan[w]))
    BY <2>1, StatusPlaces DEF ResultsIn
  <2> QED BY <2>1, <2>2
<1> HIDE DEF R, T
<1>6. {chan'[w][i].task : i \in T} = {chan[w][i].task : i \in R}
  <2>1. ASSUME NEW i \in T PROVE chan'[w][i].task \in {chan[w][j].task : j \in R}
    <3>1. i + 1 \in R /\ chan'[w][i] = chan[w][i + 1]
      BY <1>3, <1>5
    <3> QED BY <3>1, Zenon
  <2>2. ASSUME NEW j \in R PROVE chan[w][j].task \in {chan'[w][i].task : i \in T}
    <3>1. PICK i \in T : j = i + 1
      BY <1>3
    <3>2. chan'[w][i] = chan[w][j]
      BY <1>5, <3>1
    <3> QED BY <3>2, Zenon
  <2> QED BY <2>1, <2>2
<1>7. TasksOf(w)' = TasksOf(w)
  BY <1>6 DEF TasksOf, R, T
<1>8. Load(w)' = Load(w)
  BY <1>4 DEF Load, Holds, R, T
<1> QED BY <1>7, <1>8

(* Taking and finishing move a task on.                                     *)
LEMMA WorkEffect ==
  ASSUME WorkerPart, NEW w \in Workers,
         Take(w) \/ GraceTake(w) \/ Finish(w) \/ GraceFinish(w)
  PROVE  Works(w)
<1>0. QueuesOK
  BY DEF WorkerPart, WireTypeOK, WorkerTypeOK, QueuesOK
<1>1. CASE Take(w) \/ GraceTake(w)
  <2>1. held[w] = None
    BY <1>1 DEF Take, GraceTake, WorkerPart, HeldWhileScanning, Scanning
  <2>2. \A v \in Workers \ {w} : Same(v)
    BY <1>0, <1>1 DEF Take, GraceTake, Receive, QueuesOK, Same
  <2>3. TakesUp(w)
    BY <1>0, <1>1, <2>1 DEF Take, GraceTake, Receive, QueuesOK, TakesUp
  <2> QED BY <2>2, <2>3 DEF Works
<1>2. ASSUME NEW status \in ResultStatus, pc[w] \in Scanning,
             SendToBroker(w, [status |-> status, task |-> held[w]]),
             held' = [held EXCEPT ![w] = None], inbox' = inbox
      PROVE  Works(w)
  <2> DEFINE m == [status |-> status, task |-> held[w]]
  <2>1. held[w] \in Task /\ held[w] # None
    BY <1>0, <1>2, NoneAssumption DEF WorkerPart, HeldWhileScanning, QueuesOK
  <2>2. m \in WorkerMsg /\ m.status \in ResultStatus /\ m.task = held[w]
    BY <2>1 DEF WorkerMsg
  <2>3. chan' = [chan EXCEPT ![w] = Append(@, m)]
    BY <1>2 DEF SendToBroker
  <2> HIDE DEF m
  <2>4. Completes(w, m)
    BY <1>0, <1>2, <2>1, <2>2, <2>3 DEF QueuesOK, Completes
  <2>5. \A v \in Workers \ {w} : Same(v)
    BY <1>0, <1>2, <2>3 DEF QueuesOK, Same
  <2> QED BY <2>2, <2>4, <2>5 DEF Works
<1>3. CASE Finish(w)
  <2>1. pc[w] \in Scanning
    BY <1>3 DEF Finish, Scanning
  <2>2. PICK shouldQuit \in BOOLEAN :
          SendToBroker(w, [status |-> IF shouldQuit THEN "RESULT_QUIT" ELSE "RESULT_READY",
                           task |-> held[w]])
    BY <1>3 DEF Finish
  <2>3. held' = [held EXCEPT ![w] = None] /\ inbox' = inbox
    BY <1>3 DEF Finish
  <2> DEFINE status == IF shouldQuit THEN "RESULT_QUIT" ELSE "RESULT_READY"
  <2>4. status \in ResultStatus
    BY DEF ResultStatus
  <2> QED BY <1>2, <2>1, <2>2, <2>3, <2>4
<1>4. CASE GraceFinish(w)
  <2>1. /\ pc[w] \in Scanning /\ "RESULT_QUIT" \in ResultStatus
        /\ SendToBroker(w, [status |-> "RESULT_QUIT", task |-> held[w]])
        /\ held' = [held EXCEPT ![w] = None] /\ inbox' = inbox
    BY <1>4 DEF GraceFinish, Scanning, ResultStatus
  <2> QED BY <1>2, <2>1
<1> QED BY <1>1, <1>3, <1>4

(* A step of a worker concerns its own queues only: it works, says READY or *)
(* QUIT, or loses something.                                                *)
LEMMA WorkerQueues ==
  ASSUME WorkerPart, NEW w \in Workers, NEW up, WorkerActs(w, up)
  PROVE  /\ Works(w) \/ Boot(w) \/ PollTimeout(w) \/ Loses(w)
         /\ \A v \in Workers \ {w} : Same(v)
<1>0. QueuesOK
  BY DEF WorkerPart, WireTypeOK, WorkerTypeOK, QueuesOK
<1>1. ASSUME UNCHANGED <<inbox, held, chan>>
      PROVE  Loses(w) /\ \A v \in Workers \ {w} : Same(v)
  BY <1>0, <1>1, SameLoses DEF Same
<1>2. CASE Boot(w) \/ PollTimeout(w)
  BY <1>0, <1>2, SayEffect DEF Says
<1>3. CASE Take(w) \/ GraceTake(w) \/ Finish(w) \/ GraceFinish(w)
  BY <1>3, WorkEffect DEF Works
<1>4. CASE Sent(w, up) \/ GraceTimeout(w)
  BY <1>1, <1>4 DEF Sent, GraceTimeout, wireVars
<1>5. ASSUME NEW left \in {chan[w], <<>>} \cup Prefixes(chan[w]), Die(w, left)
      PROVE  Loses(w) /\ \A v \in Workers \ {w} : Same(v)
  BY <1>0, <1>5, DieLoses
<1>6. CASE Exit(w, up) \/ ScanError(w, up)
  BY <1>5, <1>6 DEF Exit, ScanError
<1>7. CASE WorkerKill(w, up)
  <2>1. PICK left \in IF up THEN Prefixes(chan[w]) ELSE {<<>>} : Die(w, left)
    BY <1>7 DEF WorkerKill
  <2> QED BY <1>5, <2>1
<1>8. CASE WorkerSignal(w, up)
  <2>1. CASE Die(w, IF up THEN chan[w] ELSE <<>>)
    BY <1>5, <2>1
  <2>2. CASE held' = [held EXCEPT ![w] = None] /\ UNCHANGED wireVars
    <3>1. inbox[w] \in Seq(Task) /\ chan[w] \in Seq(WorkerMsg) /\ held'[w] = None
      BY <1>0, <2>2 DEF QueuesOK
    <3>2. Window(inbox[w], inbox[w]) /\ Window(chan[w], chan[w])
      BY <3>1, PlainWindows
    <3>3. Loses(w)
      BY <2>2, <3>1, <3>2 DEF Loses, wireVars
    <3> QED BY <1>0, <2>2, <3>3 DEF QueuesOK, Same, wireVars
  <2>3. CASE UNCHANGED <<held, wireVars>>
    BY <1>1, <2>3 DEF wireVars
  <2> QED BY <1>8, <2>1, <2>2, <2>3 DEF WorkerSignal
<1> QED BY <1>2, <1>3, <1>4, <1>6, <1>7, <1>8 DEF WorkerActs

(* So a worker takes up or completes a task, or tasks are lost, or nothing  *)
(* happens to them.                                                         *)
LEMMA WorkerEffect ==
  ASSUME WorkerPart, NEW w \in Workers, NEW up, WorkerActs(w, up)
  PROVE  Works(w) \/ \A v \in Workers : Shrinks(v)
<1>0. QueuesOK
  BY DEF WorkerPart, WireTypeOK, WorkerTypeOK, QueuesOK
<1>1. /\ Works(w) \/ Boot(w) \/ PollTimeout(w) \/ Loses(w)
      /\ \A v \in Workers \ {w} : Same(v)
  BY WorkerQueues
<1>2. ASSUME Boot(w) \/ PollTimeout(w) PROVE Shrinks(w)
  BY <1>0, <1>2, SayEffect, SayingShrinks DEF Says
<1>3. ASSUME Loses(w) PROVE Shrinks(w)
  BY <1>0, <1>3, LosingShrinks DEF Loses
<1> QED BY <1>0, <1>1, <1>2, <1>3, SameShrinks

(* The end of a broker, and the end of all workers.                         *)
LEMMA LoseBrokerLoses ==
  ASSUME QueuesOK, LoseBroker, UNCHANGED held
  PROVE  \A w \in Workers : Loses(w)
<1>1. ASSUME NEW w \in Workers PROVE Loses(w)
  <2>1. inbox[w] \in Seq(Task) /\ chan[w] \in Seq(WorkerMsg)
    BY DEF QueuesOK
  <2>2. inbox'[w] \in Prefixes(inbox[w])
    BY DEF LoseBroker
  <2>3. chan'[w] \in Suffixes(chan[w]) \cup {<<>>}
    BY DEF LoseBroker
  <2>4. Window(inbox'[w], inbox[w])
    BY <2>1, <2>2, PrefixWindow
  <2>5. chan'[w] \in Seq(WorkerMsg) /\ Window(chan'[w], chan[w])
    BY <2>1, <2>3, SuffixWindow, PlainWindows, EmptySeq
  <2> QED BY <2>4, <2>5 DEF Loses
<1> QED BY <1>1

(* The kill of all workers loses tasks and messages only.                   *)
LEMMA KillWorkersLoses ==
  ASSUME QueuesOK, NEW up, SupKillWorkers(up)
  PROVE  \A w \in Workers : Loses(w)
<1>1. ASSUME NEW w \in Workers PROVE Loses(w)
  <2>1. inbox[w] \in Seq(Task) /\ chan[w] \in Seq(WorkerMsg)
    BY DEF QueuesOK
  <2>2. inbox'[w] = <<>> /\ held'[w] = None
    BY DEF SupKillWorkers
  <2>3. chan'[w] \in {chan[w], <<>>} \cup Prefixes(chan[w])
    BY DEF SupKillWorkers
  <2>4. Window(inbox'[w], inbox[w])
    BY <2>1, <2>2, PlainWindows
  <2>5. chan'[w] \in Seq(WorkerMsg) /\ Window(chan'[w], chan[w])
    BY <2>1, <2>3, PrefixWindow, PlainWindows, EmptySeq
  <2> QED BY <2>2, <2>4, <2>5 DEF Loses
<1> QED BY <1>1

(* The end of the broker, in terms of tasks.                                *)
LEMMA LoseBrokerShrinks ==
  ASSUME QueuesOK, LoseBroker, UNCHANGED held
  PROVE  \A w \in Workers : Shrinks(w)
BY LoseBrokerLoses, LosingShrinks DEF Loses

(* The kill of all workers, in terms of tasks.                              *)
LEMMA KillWorkersShrinks ==
  ASSUME QueuesOK, NEW up, SupKillWorkers(up)
  PROVE  \A w \in Workers : Shrinks(w)
BY KillWorkersLoses, LosingShrinks DEF Loses

---------------------------------------------------------------------------
(* The inbox of a worker exists while its socket does.                      *)
Sockets ==
  /\ \A w \in Workers : w \in sock <=> pc[w] \notin {"off", "boot"}
  /\ \A w \in Workers \ sock : inbox[w] = <<>>

(* A worker that may still take a task has not yet scanned MaxItems.        *)
ItemsLeft ==
  \A w \in Workers :
    /\ count[w] <= MaxItems
    /\ pc[w] \in {"boot", "poll", "scan", "grace", "gracescan", "gracesent"}
         \/ (pc[w] = "sent" /\ ~stop[w]) => count[w] < MaxItems

(* Nothing comes before the end of nothing.                                 *)
LEMMA EmptyPrefix ==
  ASSUME NEW S, NEW p \in Prefixes(<<>>)
  PROVE  p = <<>>
<1>1. <<>> \in Seq(S) /\ Len(<<>>) = 0
  BY EmptySeq
<1>2. p \in Seq(S) /\ Window(p, <<>>)
  BY <1>1, PrefixWindow
<1>3. Len(p) = 0
  BY <1>1, <1>2 DEF Window
<1> QED BY <1>2, <1>3, EmptySeq

(* The socket and the count of a worker, whatever it does.                  *)
LEMMA WorkerActsBounds ==
  ASSUME WorkerPart, ItemsLeft, Sockets, NEW w \in Workers, NEW up, WorkerActs(w, up)
  PROVE  ItemsLeft' /\ Sockets'
<1> USE DEF WorkerPart, WireTypeOK, WorkerTypeOK, Goto
<1>0. MaxItems \in Nat \ {0}
  BY MaxItemsAssumption
<1>1. ASSUME NEW left, Die(w, left) PROVE ItemsLeft' /\ Sockets'
  BY <1>1 DEF Die, LoseWorker, ItemsLeft, Sockets
<1>2. ASSUME NEW from, NEW to, pc[w] = from, pc' = [pc EXCEPT ![w] = to],
             from \notin {"off", "boot"}, to \notin {"off", "boot"},
             UNCHANGED sock, inbox' = inbox \/ inbox' = [inbox EXCEPT ![w] = Tail(@)]
      PROVE  Sockets'
  BY <1>2 DEF Sockets
<1>3. CASE Boot(w)
  BY <1>3 DEF Boot, ItemsLeft, Sockets
<1>4. ASSUME NEW from \in {"poll", "grace"}, NEW to \in {"scan", "gracescan"},
             pc[w] = from, Receive(w, to)
      PROVE  ItemsLeft' /\ Sockets'
  <2>1. Sockets'
    BY <1>2, <1>4 DEF Receive
  <2>2. ItemsLeft'
    BY <1>4 DEF Receive, ItemsLeft
  <2> QED BY <2>1, <2>2
<1>5. CASE PollTimeout(w)
  <2>1. Sockets'
    BY <1>5 DEF PollTimeout, Sockets
  <2>2. ItemsLeft'
    BY <1>5 DEF PollTimeout, ItemsLeft
  <2> QED BY <2>1, <2>2
<1>6. CASE Finish(w)
  <2>0. pc[w] = "scan" /\ pc' = [pc EXCEPT ![w] = "sent"] /\ UNCHANGED <<sock, inbox>>
    BY <1>6 DEF Finish
  <2>1. Sockets'
    BY <2>0 DEF Sockets
  <2>2. PICK shouldQuit \in BOOLEAN :
          /\ count[w] + 1 >= MaxItems \/ stop[w] => shouldQuit
          /\ stop' = [stop EXCEPT ![w] = shouldQuit]
    BY <1>6 DEF Finish
  <2>3. /\ pc[w] = "scan" /\ pc' = [pc EXCEPT ![w] = "sent"]
        /\ count' = [count EXCEPT ![w] = @ + 1]
    BY <1>6 DEF Finish
  <2>4. stop'[w] = shouldQuit /\ \A v \in Workers \ {w} : stop'[v] = stop[v]
    BY <2>2, Zenon
  <2>5. count'[w] <= MaxItems /\ (~stop'[w] => count'[w] < MaxItems)
    BY <1>0, <2>2, <2>3, <2>4 DEF ItemsLeft
  <2>6. ItemsLeft'
    BY <2>3, <2>4, <2>5 DEF ItemsLeft
  <2> QED BY <2>1, <2>6
<1>7. CASE GraceFinish(w)
  <2>0. pc[w] = "gracescan" /\ pc' = [pc EXCEPT ![w] = "gracesent"] /\ UNCHANGED <<sock, inbox>>
    BY <1>7 DEF GraceFinish
  <2>1. Sockets'
    BY <2>0 DEF Sockets
  <2>2. ItemsLeft'
    BY <1>7 DEF GraceFinish, ItemsLeft
  <2> QED BY <2>1, <2>2
<1>8. CASE GraceTimeout(w) \/ Sent(w, up)
  <2>1. /\ UNCHANGED <<count, stop, sock, inbox>>
        /\ \/ pc[w] = "sent" /\ pc' = [pc EXCEPT ![w] = IF stop[w] THEN "close" ELSE "poll"]
           \/ pc[w] \in {"grace", "gracesent"} /\ pc' = [pc EXCEPT ![w] = "close"]
    BY <1>8 DEF GraceTimeout, Sent, wireVars
  <2>2. Sockets'
    BY <1>2, <2>1
  <2>3. ItemsLeft'
    BY <2>1 DEF ItemsLeft
  <2> QED BY <2>2, <2>3
<1>9. CASE Exit(w, up) \/ ScanError(w, up) \/ WorkerKill(w, up)
  BY <1>1, <1>9 DEF Exit, ScanError, WorkerKill
<1>10. CASE WorkerSignal(w, up)
  <2>1. CASE Die(w, IF up THEN chan[w] ELSE <<>>)
    BY <1>1, <2>1
  <2>2. CASE /\ pc[w] \in {"poll", "scan", "sent"} /\ pc' = [pc EXCEPT ![w] = "close"]
             /\ stop' = [stop EXCEPT ![w] = TRUE] /\ UNCHANGED <<count, wireVars>>
    <3>0. UNCHANGED <<sock, inbox>>
      BY <2>2 DEF wireVars
    <3>1. Sockets'
      BY <2>2, <3>0 DEF Sockets
    <3>2. ItemsLeft'
      BY <2>2 DEF ItemsLeft
    <3> QED BY <3>1, <3>2
  <2>3. CASE /\ pc[w] = "scan" /\ stop' = [stop EXCEPT ![w] = TRUE]
             /\ UNCHANGED <<pc, count, wireVars>>
    BY <2>3 DEF ItemsLeft, Sockets, wireVars
  <2> QED BY <1>10, <2>1, <2>2, <2>3 DEF WorkerSignal
<1>11. CASE Take(w) \/ GraceTake(w)
  BY <1>4, <1>11 DEF Take, GraceTake
<1> QED BY <1>3, <1>5, <1>6, <1>7, <1>8, <1>9, <1>10, <1>11 DEF WorkerActs

(* The end of a broker opens no socket.                                     *)
LEMMA LoseBrokerSockets ==
  ASSUME Sockets, LoseBroker, UNCHANGED <<sock, pc>>
  PROVE  Sockets'
<1>1. ASSUME NEW w \in Workers \ sock PROVE inbox'[w] = <<>>
  <2>1. inbox'[w] \in Prefixes(inbox[w])
    BY DEF LoseBroker
  <2>2. inbox[w] = <<>>
    BY DEF Sockets
  <2> QED BY <2>1, <2>2, EmptyPrefix
<1> QED BY <1>1 DEF Sockets

(* The same for a new worker, and for the end of all workers.               *)
LEMMA SupervisorBounds ==
  ASSUME WorkerPart, ItemsLeft, Sockets,
         \/ \E w, new \in Workers : ReplaceWorker(w, new)
         \/ \E up : SupKillWorkers(up)
  PROVE  ItemsLeft' /\ Sockets'
<1>0. MaxItems \in Nat \ {0}
  BY MaxItemsAssumption
<1> USE DEF WorkerPart, WireTypeOK, WorkerTypeOK
<1>1. ASSUME NEW w \in Workers, NEW new \in Workers, ReplaceWorker(w, new)
      PROVE  ItemsLeft' /\ Sockets'
  BY <1>0, <1>1 DEF ReplaceWorker, Goto, wireVars, ItemsLeft, Sockets
<1>2. ASSUME NEW up, SupKillWorkers(up) PROVE ItemsLeft' /\ Sockets'
  BY <1>2 DEF SupKillWorkers, ItemsLeft, Sockets
<1> QED BY <1>1, <1>2

(* The requests that reach the next broker do so under new identities.      *)
LEMMA EndRenames ==
  ASSUME WireTypeOK, LoseBroker
  PROVE  /\ \A c \in Clients : conn'[c] = conn[c] + 1
         /\ \A u \in frontend' : \E t \in frontend :
              /\ t.conn = conn[t.client]
              /\ u.conn = t.conn + 1 /\ u.client = t.client /\ u.obj = t.obj
<1>1. \A c \in Clients : conn'[c] = conn[c] + 1
  BY DEF LoseBroker
<1>2. PICK unsent \in SUBSET {t \in frontend : t.conn = conn[t.client]} :
        frontend' = {[t EXCEPT !.conn = @ + 1] : t \in unsent}
  BY DEF LoseBroker
<1>3. ASSUME NEW u \in frontend'
      PROVE  \E t \in frontend :
              /\ t.conn = conn[t.client]
              /\ u.conn = t.conn + 1 /\ u.client = t.client /\ u.obj = t.obj
  <2>1. PICK t \in unsent : u = [t EXCEPT !.conn = @ + 1]
    BY <1>2
  <2>2. t \in Task /\ t \in frontend /\ t.conn = conn[t.client]
    BY <1>2 DEF WireTypeOK
  <2>3. u.conn = t.conn + 1 /\ u.client = t.client /\ u.obj = t.obj
    BY <2>1, <2>2 DEF Task
  <2> QED BY <2>2, <2>3
<1> QED BY <1>1, <1>3
===========================================================================
