-------------------------- MODULE PoolProofs --------------------------
(***************************************************************************)
(* The two programs that hand a list of files to a pool of processes, for  *)
(* every number of files and processes: the count that laika.py waits for  *)
(* and the places of its files (module LaikaPool), and the places of the   *)
(* files of cloudscan.py (module Cloudscan).                               *)
(***************************************************************************)
EXTENDS LaikaPool, Cloudscan, SeqLemmas

(* A call that has been cancelled has no consumer that works on.            *)
CancelStops ==
  main = "cancelled" => \A c \in Consumers : doing[c].at \in {"ended", "unread", "dead"}

(* Past the join() there is nothing left to do but report and print.        *)
PastJoin ==
  /\ main \notin {"putting", "cancelled"} => unput = <<>>
  /\ main \in {"watching", "printing", "ended"} => unfinished = 0

(* What a consumer works on, or has still to report, is a file.             *)
FileInHand ==
  \A c \in Consumers :
    doing[c].at \in {"open", "scan", "report", "report_and_die"} => doing[c].file \in Files

IInv == TypeOK /\ JoinCounts /\ CancelStops /\ PastJoin /\ FileInHand

Item == Files \cup {Pill}
Busy == {"open", "scan"}

---------------------------------------------------------------------------
(* There are finitely many consumers with a file in hand.                   *)
LEMMA HoldingFinite == IsFiniteSet(Holding) /\ Cardinality(Holding) \in Nat
<1>1. IsFiniteSet(Consumers)
  BY PoolAssumption, FS_Interval DEF Consumers
<1>2. Holding \in SUBSET Consumers
  BY DEF Holding
<1> QED BY <1>1, <1>2, FS_Subset, FS_CardinalityType

(* How the number of tasks in hand changes when consumer c moves on.        *)
LEMMA HoldingMoves ==
  ASSUME TypeOK, TypeOK', NEW c \in Consumers,
         \A d \in Consumers \ {c} : doing'[d] = doing[d]
  PROVE  /\ doing[c].at \in Busy /\ doing'[c].at \in Busy
              => Cardinality(Holding') = Cardinality(Holding)
         /\ doing[c].at \notin Busy /\ doing'[c].at \notin Busy
              => Cardinality(Holding') = Cardinality(Holding)
         /\ doing[c].at \notin Busy /\ doing'[c].at \in Busy
              => Cardinality(Holding') = Cardinality(Holding) + 1
         /\ doing[c].at \in Busy /\ doing'[c].at \notin Busy
              => Cardinality(Holding') = Cardinality(Holding) - 1
<1>1. c \in Holding <=> doing[c].at \in Busy
  BY DEF Holding, Busy
<1>2. doing'[c].at \in Busy => Holding' = Holding \cup {c}
  BY DEF Holding, Busy
<1>3. doing'[c].at \notin Busy => Holding' = Holding \ {c}
  BY DEF Holding, Busy
<1>4. /\ Cardinality(Holding \cup {c}) =
           IF c \in Holding THEN Cardinality(Holding) ELSE Cardinality(Holding) + 1
      /\ Cardinality(Holding \ {c}) =
           IF c \in Holding THEN Cardinality(Holding) - 1 ELSE Cardinality(Holding)
  BY HoldingFinite, FS_AddElement, FS_RemoveElement
<1> QED BY <1>1, <1>2, <1>3, <1>4

(* A consumer that has a task in hand is counted.                           *)
LEMMA HoldingCounts ==
  ASSUME TypeOK, JoinCounts, CancelStops, NEW c \in Consumers, doing[c].at \in Busy
  PROVE  main # "cancelled" /\ unfinished >= 1
<1>1. main # "cancelled"
  BY DEF CancelStops, Busy
<1>2. Holding # {}
  BY DEF Holding, Busy
<1>3. Cardinality(Holding) # 0
  BY <1>2, HoldingFinite, FS_EmptySet
<1>4. Len(tasks) \in Nat
  BY LenProperties DEF TypeOK
<1> QED BY <1>1, <1>3, <1>4, HoldingFinite DEF JoinCounts

(* A consumer moves on with the file it has.                                *)
LEMMA MoveType ==
  ASSUME TypeOK, NEW c \in Consumers, NEW at \in ConsumerStates, MoveTo(c, at)
  PROVE  /\ doing' \in [Consumers -> [at : ConsumerStates, file : Files \cup {Pill}]]
         /\ doing'[c].at = at /\ doing'[c].file = doing[c].file
  BY DEF TypeOK, MoveTo

---------------------------------------------------------------------------
(* What a call puts on the queue are files and pills.                       *)
LEMMA WorkType == ASSUME NEW n \in 0 .. MaxJobs PROVE Work(n) \in Seq(Item)
<1>1. Procs(n) \in Nat /\ n \in Nat
  BY PoolAssumption DEF Procs
<1>2. [i \in 1 .. n |-> i] \in Seq(Item)
  <2>1. [i \in 1 .. n |-> i] \in [1 .. n -> Item]
    BY PoolAssumption DEF Item, Files
  <2> QED BY <1>1, <2>1, SeqDef
<1>3. [i \in 1 .. Procs(n) |-> Pill] \in Seq(Item)
  <2>1. [i \in 1 .. Procs(n) |-> Pill] \in [1 .. Procs(n) -> Item]
    BY DEF Item
  <2> QED BY <1>1, <2>1, SeqDef
<1> QED BY <1>2, <1>3, ConcatProperties DEF Work

(* The invariant holds at first,                                            *)
LEMMA InitInv == Init => IInv
<1> SUFFICES ASSUME Init PROVE IInv
  OBVIOUS
<1>1. unput \in Seq(Item)
  BY WorkType DEF Init
<1>2. /\ <<>> \in Seq(Item) /\ Len(<<>>) = 0
      /\ <<>> \in Seq(Files)
  BY EmptySeq
<1>3. TypeOK
  BY <1>1, <1>2 DEF Init, TypeOK, MainStates, ConsumerStates, Item
<1>4. Holding = {}
  BY DEF Init, Holding
<1>5. JoinCounts
  BY <1>2, <1>4, FS_EmptySet DEF Init, JoinCounts
<1> QED BY <1>3, <1>5 DEF IInv, Init, CancelStops, PastJoin, FileInHand

(* The main process and the progress bar leave the consumers alone.         *)
LEMMA MainStep ==
  ASSUME IInv, Main \/ MonitorEnds
  PROVE  IInv'
<1> USE DEF IInv
<1>1. doing' = doing /\ Holding' = Holding
  BY DEF Main, Put, StartMonitor, Join, JoinMonitor, PrintResult, Finish, MonitorEnds, Holding
<1>2. CancelStops' /\ FileInHand'
  BY <1>1 DEF Main, Put, StartMonitor, Join, JoinMonitor, PrintResult, Finish,
              MonitorEnds, CancelStops, FileInHand
<1>3. CASE Put
  <2>1. /\ Head(unput) \in Item /\ Tail(unput) \in Seq(Item)
    BY <1>3, HeadTailProperties DEF Put, TypeOK, Item
  <2>2. /\ tasks' \in Seq(Item)
        /\ Len(tasks') = Len(tasks) + 1
    BY <1>3, <2>1, AppendProperties DEF Put, TypeOK, Item
  <2>3. TypeOK'
    BY <1>3, <2>1, <2>2 DEF Put, TypeOK, Item
  <2>4. JoinCounts'
    <3>1. Len(tasks) \in Nat
      BY LenProperties DEF TypeOK
    <3> QED BY <1>1, <1>3, <2>2, <3>1, HoldingFinite DEF Put, JoinCounts
  <2> QED BY <1>2, <1>3, <2>3, <2>4 DEF Put, PastJoin
<1>4. CASE StartMonitor
  BY <1>1, <1>2, <1>4 DEF StartMonitor, TypeOK, MainStates, JoinCounts, PastJoin
<1>5. CASE Join
  BY <1>1, <1>2, <1>5 DEF Join, TypeOK, MainStates, JoinCounts, PastJoin
<1>6. CASE JoinMonitor
  BY <1>1, <1>2, <1>6 DEF JoinMonitor, TypeOK, MainStates, JoinCounts, PastJoin
<1>7. CASE PrintResult
  <2>1. Head(results) \in Files /\ Tail(results) \in Seq(Files)
    BY <1>7, HeadTailProperties DEF PrintResult, TypeOK
  <2>2. printed' \in Seq(Files)
    BY <1>7, <2>1, AppendProperties DEF PrintResult, TypeOK
  <2> QED BY <1>1, <1>2, <1>7, <2>1, <2>2 DEF PrintResult, TypeOK, JoinCounts, PastJoin
<1>8. CASE Finish
  BY <1>1, <1>2, <1>8 DEF Finish, TypeOK, MainStates, JoinCounts, PastJoin
<1>9. CASE MonitorEnds
  BY <1>1, <1>2, <1>9 DEF MonitorEnds, TypeOK, JoinCounts, PastJoin
<1> QED BY <1>3, <1>4, <1>5, <1>6, <1>7, <1>8, <1>9 DEF Main

(* The monitor cancels the call.                                            *)
LEMMA CancelStep ==
  ASSUME IInv, Cancel
  PROVE  IInv'
<1> USE DEF IInv, Cancel
<1>1. doing' \in [Consumers -> [at : ConsumerStates, file : Files \cup {Pill}]]
  BY DEF TypeOK, ConsumerStates
<1>2. TypeOK'
  BY <1>1 DEF TypeOK, MainStates
<1>3. CancelStops' /\ FileInHand'
  BY DEF CancelStops, FileInHand, TypeOK, ConsumerStates
<1> QED BY <1>2, <1>3 DEF JoinCounts, PastJoin

(* A consumer works, fails or dies.                                         *)
LEMMA ConsumerStep ==
  ASSUME IInv, NEW c \in Consumers, Consumer(c)
  PROVE  IInv'
<1> USE DEF IInv, MoveTo, TaskDone
<1>1. doing[c].at \notin {"ended", "unread", "dead"} /\ main # "cancelled"
  BY DEF Consumer, Take, Open, OpenFails, Scan, Report, CancelStops
<1>2. main' = main /\ CancelStops'
  BY <1>1 DEF Consumer, Take, Open, OpenFails, Scan, Report, CancelStops
<1>3. \A d \in Consumers \ {c} : doing'[d] = doing[d]
  BY DEF Consumer, Take, Open, OpenFails, Scan, Report, TypeOK
<1>4. /\ Len(tasks) \in Nat /\ unfinished \in Nat
      /\ unfinished = Len(tasks) + Cardinality(Holding)
  BY <1>1, LenProperties DEF TypeOK, JoinCounts
<1>5. CASE Take(c)
  <2>1. /\ Head(tasks) \in Item /\ Tail(tasks) \in Seq(Item)
        /\ Len(Tail(tasks)) = Len(tasks) - 1 /\ Len(tasks) >= 1
    BY <1>4, <1>5, HeadTailProperties, EmptySeq DEF Take, TypeOK, Item
  <2>2. main \notin {"watching", "printing", "ended"}
    BY <1>4, <2>1, HoldingFinite DEF PastJoin
  <2>3. doing[c].at \notin Busy
    BY <1>5 DEF Take, Busy
  <2>4. CASE Head(tasks) = Pill
    <3>1. /\ doing' \in [Consumers -> [at : ConsumerStates, file : Files \cup {Pill}]]
          /\ doing'[c].at = "ended"
      BY <1>5, <2>4, MoveType DEF Take, ConsumerStates
    <3>2. unfinished' \in Nat
      BY <1>4, <1>5, <2>1, <2>4, HoldingFinite DEF Take
    <3>3. TypeOK'
      BY <1>5, <2>1, <2>4, <3>1, <3>2 DEF Take, TypeOK, Item
    <3>4. doing'[c].at \notin Busy
      BY <3>1 DEF Busy
    <3>5. Cardinality(Holding') = Cardinality(Holding)
      BY <1>3, <2>3, <3>3, <3>4, HoldingMoves
    <3>6. FileInHand'
      BY <1>3, <3>1 DEF FileInHand
    <3> QED BY <1>2, <1>4, <1>5, <2>1, <2>2, <2>4, <3>3, <3>5, <3>6, HoldingFinite
            DEF Take, JoinCounts, PastJoin
  <2>5. CASE Head(tasks) # Pill
    <3>1. Head(tasks) \in Files
      BY <2>1, <2>5 DEF Item
    <3>2. /\ doing' = [doing EXCEPT ![c] = [at |-> "open", file |-> Head(tasks)]]
          /\ tasks' = Tail(tasks) /\ unfinished' = unfinished
          /\ UNCHANGED <<jobs, main, unput, results, printed, monitor>>
      BY <1>5, <2>5 DEF Take
    <3>3. doing' \in [Consumers -> [at : ConsumerStates, file : Files \cup {Pill}]]
      BY <3>1, <3>2 DEF TypeOK, ConsumerStates
    <3>4. TypeOK'
      BY <2>1, <3>2, <3>3 DEF TypeOK, Item
    <3>5. doing'[c].at \in Busy
      BY <3>2 DEF TypeOK, Busy
    <3>6. Cardinality(Holding') = Cardinality(Holding) + 1
      BY <1>3, <2>3, <3>4, <3>5, HoldingMoves
    <3>7. FileInHand'
      BY <1>3, <3>1, <3>2 DEF TypeOK, FileInHand
    <3> QED BY <1>2, <1>4, <2>1, <2>2, <3>2, <3>4, <3>6, <3>7, HoldingFinite
            DEF JoinCounts, PastJoin
  <2> QED BY <2>4, <2>5
<1>6. CASE Open(c)
  <2>1. TypeOK'
    BY <1>6 DEF Open, TypeOK, ConsumerStates
  <2>2. Cardinality(Holding') = Cardinality(Holding)
    BY <1>3, <1>6, <2>1, HoldingMoves DEF Open, TypeOK, Busy
  <2>3. FileInHand'
    BY <1>3, <1>6 DEF Open, TypeOK, FileInHand
  <2> QED BY <1>2, <1>4, <1>6, <2>1, <2>2, <2>3 DEF Open, JoinCounts, PastJoin
<1>7. ASSUME NEW at \in {"unread", "report", "report_and_die"},
             doing[c].at \in Busy, MoveTo(c, at), TaskDone,
             UNCHANGED <<jobs, main, unput, tasks, results, printed, monitor>>
      PROVE  IInv'
  <2>1. unfinished >= 1
    BY <1>7, HoldingCounts
  <2>2. TypeOK'
    <3>1. doing' \in [Consumers -> [at : ConsumerStates, file : Files \cup {Pill}]]
      BY <1>7, MoveType DEF ConsumerStates
    <3>2. unfinished' \in Nat
      BY <1>4, <1>7, <2>1
    <3> QED BY <1>7, <3>1, <3>2 DEF TypeOK
  <2>3. Cardinality(Holding') = Cardinality(Holding) - 1
    BY <1>3, <1>7, <2>2, HoldingMoves DEF TypeOK, Busy
  <2>4. FileInHand'
    BY <1>3, <1>7 DEF Busy, TypeOK, FileInHand
  <2> QED BY <1>2, <1>4, <1>7, <2>1, <2>2, <2>3, <2>4, HoldingFinite DEF JoinCounts, PastJoin
<1>8. CASE OpenFails(c)
  BY <1>7, <1>8 DEF OpenFails, Busy
<1>9. CASE Scan(c)
  BY <1>7, <1>9 DEF Scan, Busy
<1>10. CASE Report(c)
  <2>1. results' \in Seq(Files)
    BY <1>10, AppendProperties DEF Report, TypeOK, FileInHand
  <2>2. TypeOK'
    BY <1>10, <2>1 DEF Report, TypeOK, ConsumerStates
  <2>3. Cardinality(Holding') = Cardinality(Holding)
    BY <1>3, <1>10, <2>2, HoldingMoves DEF Report, TypeOK, Busy
  <2>4. FileInHand'
    BY <1>3, <1>10 DEF Report, TypeOK, FileInHand
  <2> QED BY <1>2, <1>4, <1>10, <2>2, <2>3, <2>4 DEF Report, JoinCounts, PastJoin
<1> QED BY <1>5, <1>6, <1>8, <1>9, <1>10 DEF Consumer

(* and every step keeps it.                                                 *)
LEMMA StepInv == IInv /\ [Next]_vars => IInv'
<1> SUFFICES ASSUME IInv, [Next]_vars PROVE IInv'
  OBVIOUS
<1>1. CASE UNCHANGED vars
  BY <1>1 DEF vars, IInv, TypeOK, JoinCounts, Holding, CancelStops,
              PastJoin, FileInHand
<1> QED BY <1>1, MainStep, CancelStep, ConsumerStep DEF Next

(* Every variable of laika.py keeps its type, for every number of files and *)
(* processes; the count of the JoinableQueue among them, which would raise  *)
(* an error if task_done() took it below zero.                              *)
THEOREM TypeCorrect == Spec => []TypeOK
<1>1. IInv => TypeOK
  BY DEF IInv
<1> QED BY <1>1, InitInv, StepInv, PTL DEF Spec

(* tasks.join() waits for just what is in the queue or in hand, whichever   *)
(* consumers fail and on whatever.                                          *)
THEOREM JoinCorrect == Spec => []JoinCounts
<1>1. IInv => JoinCounts
  BY DEF IInv
<1> QED BY <1>1, InitInv, StepInv, PTL DEF Spec

(* A call that has ended left no task and no pill in the queue and none in  *)
(* a consumer's hands.                                                      *)
QueueEmptied ==
  main = "ended" => unput = <<>> /\ tasks = <<>> /\ Holding = {}

(* It follows from the count: the bar, and so the call, waits for zero.     *)
LEMMA EndedMeansEmptied == IInv => QueueEmptied
<1> SUFFICES ASSUME IInv, main = "ended"
             PROVE  unput = <<>> /\ tasks = <<>> /\ Holding = {}
  BY DEF QueueEmptied
<1>1. Len(tasks) \in Nat /\ (tasks # <<>> => Len(tasks) # 0)
  BY LenProperties, EmptySeq DEF IInv, TypeOK
<1>2. Len(tasks) = 0 /\ Cardinality(Holding) = 0
  BY <1>1, HoldingFinite DEF IInv, JoinCounts, PastJoin
<1> QED BY <1>1, <1>2, HoldingFinite, FS_EmptySet DEF IInv, PastJoin

(* Every call that ends has seen all its tasks and pills taken and done.    *)
THEOREM QueueEmptiedAtEnd == Spec => []QueueEmptied
<1> QED BY EndedMeansEmptied, InitInv, StepInv, PTL DEF Spec

---------------------------------------------------------------------------
(* Where each file and each pill is.                                        *)
Keeps == {"open", "scan", "report", "report_and_die", "unread"}
KeptBy(f) == {c \in Consumers : doing[c].file = f /\ doing[c].at \in Keeps}

Total(f) ==
  Count(f, unput) + Count(f, tasks) + Count(f, results) + Count(f, printed)
    + Cardinality(KeptBy(f))

(* Every list holds files of this call only, and pills where they belong.   *)
InCall ==
  /\ unput \in Seq(0 .. jobs) /\ tasks \in Seq(0 .. jobs)
  /\ results \in Seq(1 .. jobs) /\ printed \in Seq(1 .. jobs)
  /\ \A c \in Consumers : doing[c].at \in Keeps => doing[c].file \in 1 .. jobs

(* A pill is in a list, or has ended one of the consumers.                  *)
Done == {c \in 1 .. Procs(jobs) : doing[c].at = "ended"}

PillPlaced ==
  /\ main # "cancelled" =>
       Count(Pill, unput) + Count(Pill, tasks) + Cardinality(Done) = Procs(jobs)
  /\ \A c \in Consumers : c > Procs(jobs) => doing[c].at = "ended"

PInv == IInv /\ InCall /\ OnePlace /\ PillPlaced

(* How often a file stands in a list that grows or shrinks.                 *)
LEMMA CountNat ==
  ASSUME NEW S, NEW s \in Seq(S), NEW f
  PROVE  Count(f, s) \in Nat /\ Count(f, s) = Cardinality(Places(s, {f}))
<1>1. Count(f, s) = Cardinality(Places(s, {f}))
  BY DEF Count, Places
<1>2. Cardinality(Places(s, {f})) \in Nat
  BY PlacesFinite
<1> QED BY <1>1, <1>2

(* Appending counts one more,                                               *)
LEMMA CountAppend ==
  ASSUME NEW S, NEW s \in Seq(S), NEW e \in S, NEW f
  PROVE  /\ Count(f, s) \in Nat
         /\ e = f => Count(f, Append(s, e)) = Count(f, s) + 1
         /\ e # f => Count(f, Append(s, e)) = Count(f, s)
<1>1. Append(s, e) \in Seq(S)
  BY AppendProperties
<1>2. Count(f, s) = Cardinality(Places(s, {f})) /\ Count(f, s) \in Nat
  BY CountNat
<1>3. Count(f, Append(s, e)) = Cardinality(Places(Append(s, e), {f}))
  BY <1>1, CountNat
<1>4. Cardinality(Places(Append(s, e), {f})) =
        Cardinality(Places(s, {f})) + (IF e \in {f} THEN 1 ELSE 0)
  BY PlacesAppend
<1> QED BY <1>2, <1>3, <1>4

(* and taking the first one less.                                           *)
LEMMA CountTail ==
  ASSUME NEW S, NEW s \in Seq(S), s # <<>>, NEW f
  PROVE  /\ Count(f, s) \in Nat /\ Count(f, Tail(s)) \in Nat
         /\ Head(s) = f => Count(f, s) = Count(f, Tail(s)) + 1
         /\ Head(s) # f => Count(f, s) = Count(f, Tail(s))
<1>1. Tail(s) \in Seq(S)
  BY HeadTailProperties
<1>2. Count(f, s) = Cardinality(Places(s, {f})) /\ Count(f, s) \in Nat
  BY CountNat
<1>3. Count(f, Tail(s)) = Cardinality(Places(Tail(s), {f})) /\ Count(f, Tail(s)) \in Nat
  BY <1>1, CountNat
<1>4. Cardinality(Places(s, {f})) =
        Cardinality(Places(Tail(s), {f})) + (IF Head(s) \in {f} THEN 1 ELSE 0)
  BY PlacesTail
<1> QED BY <1>2, <1>3, <1>4

(* The size of a set when at most one element comes or goes.                *)
LEMMA OneMoves ==
  ASSUME NEW S, IsFiniteSet(S), NEW T, NEW c, \A d : d # c => (d \in S <=> d \in T)
  PROVE  /\ Cardinality(S) \in Nat
         /\ (c \in S <=> c \in T) => Cardinality(T) = Cardinality(S)
         /\ c \notin S /\ c \in T => Cardinality(T) = Cardinality(S) + 1
         /\ c \in S /\ c \notin T => Cardinality(T) = Cardinality(S) - 1
<1>1. (c \in S <=> c \in T) => T = S
  OBVIOUS
<1>2. c \notin S /\ c \in T => T = S \cup {c}
  OBVIOUS
<1>3. c \in S /\ c \notin T => T = S \ {c}
  OBVIOUS
<1>4. Cardinality(S) \in Nat
  BY FS_CardinalityType
<1>5. Cardinality(S \cup {c}) = IF c \in S THEN Cardinality(S) ELSE Cardinality(S) + 1
  BY FS_AddElement
<1>6. Cardinality(S \ {c}) = IF c \in S THEN Cardinality(S) - 1 ELSE Cardinality(S)
  BY FS_RemoveElement
<1> QED BY <1>1, <1>2, <1>3, <1>4, <1>5, <1>6

(* There are NumProcs consumers, and no more processes than that in a call. *)
LEMMA ConsumersFinite ==
  /\ IsFiniteSet(Consumers) /\ Cardinality(Consumers) = NumProcs
  /\ \A f : IsFiniteSet(KeptBy(f)) /\ Cardinality(KeptBy(f)) \in Nat
  /\ jobs \in Nat => /\ Procs(jobs) \in Nat /\ Procs(jobs) <= NumProcs
                     /\ IsFiniteSet(Done) /\ Done \subseteq Consumers
                     /\ Cardinality(Done) \in Nat
<1>1. IsFiniteSet(Consumers) /\ Cardinality(Consumers) = NumProcs
  BY PoolAssumption, FS_Interval DEF Consumers
<1>2. ASSUME NEW f PROVE IsFiniteSet(KeptBy(f)) /\ Cardinality(KeptBy(f)) \in Nat
  <2>1. KeptBy(f) \in SUBSET Consumers
    BY DEF KeptBy
  <2> QED BY <1>1, <2>1, FS_Subset, FS_CardinalityType
<1>3. ASSUME jobs \in Nat
      PROVE  /\ Procs(jobs) \in Nat /\ Procs(jobs) <= NumProcs
             /\ IsFiniteSet(Done) /\ Done \subseteq Consumers
             /\ Cardinality(Done) \in Nat
  <2>1. Procs(jobs) \in Nat /\ Procs(jobs) <= NumProcs
    BY <1>3, PoolAssumption DEF Procs
  <2>2. Done \in SUBSET Consumers
    BY <2>1, PoolAssumption DEF Done, Consumers
  <2> QED BY <1>1, <2>1, <2>2, FS_Subset, FS_CardinalityType
<1> QED BY <1>1, <1>2, <1>3

(* The lists with which a call begins.                                      *)
LEMMA WorkCounts ==
  ASSUME NEW n \in 0 .. MaxJobs
  PROVE  /\ Work(n) \in Seq(0 .. n)
         /\ \A f \in 1 .. n : Count(f, Work(n)) = 1
         /\ Count(Pill, Work(n)) = Procs(n)
<1> DEFINE a == [i \in 1 .. n |-> i]
           b == [i \in 1 .. Procs(n) |-> Pill]
<1>1. n \in Nat /\ Procs(n) \in Nat
  BY PoolAssumption DEF Procs
<1>2. a \in Seq(0 .. n) /\ Len(a) = n
  <2>1. a \in [1 .. n -> 0 .. n]
    BY <1>1
  <2> QED BY <1>1, <2>1, SeqDef
<1>3. b \in Seq(0 .. n) /\ Len(b) = Procs(n)
  <2>1. b \in [1 .. Procs(n) -> 0 .. n]
    BY <1>1 DEF Pill
  <2> QED BY <1>1, <2>1, SeqDef
<1>4. /\ Work(n) \in Seq(0 .. n) /\ Len(Work(n)) = n + Procs(n)
      /\ \A i \in 1 .. n + Procs(n) : Work(n)[i] = IF i <= n THEN i ELSE Pill
  <2>1. /\ a \o b \in Seq(0 .. n) /\ Len(a \o b) = Len(a) + Len(b)
        /\ \A i \in 1 .. Len(a) + Len(b) :
             (a \o b)[i] = IF i <= Len(a) THEN a[i] ELSE b[i - Len(a)]
    BY <1>2, <1>3, ConcatProperties
  <2>2. ASSUME NEW i \in 1 .. n + Procs(n) PROVE (a \o b)[i] = IF i <= n THEN i ELSE Pill
    <3>1. (a \o b)[i] = IF i <= n THEN a[i] ELSE b[i - n]
      BY <1>2, <1>3, <2>1
    <3>2. i <= n => a[i] = i
      BY <1>1
    <3>3. ~(i <= n) => b[i - n] = Pill
      <4>1. ~(i <= n) => i - n \in 1 .. Procs(n)
        BY <1>1
      <4> QED BY <4>1
    <3> QED BY <3>1, <3>2, <3>3
  <2> QED BY <1>2, <1>3, <2>1, <2>2 DEF Work
<1>5. DOMAIN Work(n) = 1 .. n + Procs(n)
  BY <1>4
<1>6. ASSUME NEW f \in 1 .. n PROVE Count(f, Work(n)) = 1
  <2>1. {i \in DOMAIN Work(n) : Work(n)[i] = f} = {f}
    BY <1>1, <1>4, <1>5 DEF Pill
  <2> QED BY <2>1, FS_Singleton DEF Count
<1>7. Count(Pill, Work(n)) = Procs(n)
  <2>1. {i \in DOMAIN Work(n) : Work(n)[i] = Pill} = (n + 1) .. (n + Procs(n))
    BY <1>1, <1>4, <1>5 DEF Pill
  <2>2. Cardinality((n + 1) .. (n + Procs(n))) = Procs(n)
    BY <1>1, FS_Interval
  <2> QED BY <2>1, <2>2 DEF Count
<1> QED BY <1>4, <1>6, <1>7

(* Nothing occurs in the empty queue.                                       *)
LEMMA EmptyCount == \A f : Count(f, <<>>) = 0
<1> SUFFICES ASSUME NEW f PROVE Count(f, <<>>) = 0
  OBVIOUS
<1>1. {i \in DOMAIN <<>> : <<>>[i] = f} = {}
  OBVIOUS
<1> QED BY <1>1, FS_EmptySet DEF Count

(* At first nothing is anywhere,                                            *)
LEMMA PlaceInit == Init => PInv
<1> SUFFICES ASSUME Init PROVE PInv
  OBVIOUS
<1>0. jobs \in 0 .. MaxJobs /\ jobs \in Nat /\ unput = Work(jobs)
  BY PoolAssumption DEF Init
<1>1. /\ unput \in Seq(0 .. jobs)
      /\ \A f \in 1 .. jobs : Count(f, unput) = 1
      /\ Count(Pill, unput) = Procs(jobs)
  BY <1>0, WorkCounts
<1>2. /\ tasks = <<>> /\ results = <<>> /\ printed = <<>>
      /\ \A c \in Consumers : doing[c].at = IF c <= Procs(jobs) THEN "get" ELSE "ended"
  BY DEF Init
<1>3. InCall
  BY <1>1, <1>2, EmptySeq DEF InCall, Keeps
<1>4. OnePlace
  <2>1. \A f : KeptBy(f) = {}
    BY <1>2 DEF KeptBy, Keeps
  <2>2. ASSUME NEW f \in 1 .. jobs PROVE Total(f) = 1
    <3>1. Count(f, unput) = 1 /\ Count(f, tasks) = 0 /\ Count(f, results) = 0
          /\ Count(f, printed) = 0
      BY <1>1, <1>2, EmptyCount
    <3>2. Cardinality(KeptBy(f)) = 0
      BY <2>1, FS_EmptySet
    <3> QED BY <3>1, <3>2 DEF Total
  <2> QED BY <2>2 DEF OnePlace, Total, KeptBy, Keeps
<1>5. PillPlaced
  <2>1. Procs(jobs) \in Nat /\ Procs(jobs) <= NumProcs
    BY <1>0, ConsumersFinite
  <2>2. Done = {}
    BY <1>2, <2>1, PoolAssumption DEF Done, Consumers
  <2>3. \A c \in Consumers : c > Procs(jobs) => ~(c <= Procs(jobs))
    BY <2>1 DEF Consumers
  <2> QED BY <1>1, <1>2, <2>1, <2>2, <2>3, EmptyCount, FS_EmptySet DEF PillPlaced
<1> QED BY <1>3, <1>4, <1>5, InitInv DEF PInv

(* The steps that move no file and no pill.                                 *)
LEMMA PlaceKept ==
  ASSUME InCall, OnePlace, PillPlaced,
         UNCHANGED <<jobs, unput, tasks, results, printed, doing>>,
         main' # "cancelled" => main # "cancelled"
  PROVE  InCall' /\ OnePlace' /\ PillPlaced'
<1>1. InCall'
  BY DEF InCall
<1>2. \A f : Total(f)' = Total(f)
  BY DEF Total, KeptBy
<1>3. OnePlace'
  BY <1>2 DEF OnePlace, Total, KeptBy, Keeps
<1>4. Done' = Done
  BY DEF Done
<1>5. PillPlaced'
  BY <1>4 DEF PillPlaced
<1> QED BY <1>1, <1>3, <1>5

(* What a step has to show once no call is cancelled.                       *)
LEMMA PlaceMoved ==
  ASSUME OnePlace, PillPlaced, main # "cancelled", jobs' = jobs,
         \A f \in 1 .. jobs : Total(f)' = Total(f),
         Count(Pill, unput)' + Count(Pill, tasks)' + Cardinality(Done') =
           Count(Pill, unput) + Count(Pill, tasks) + Cardinality(Done),
         \A c \in Consumers : doing[c].at = "ended" => doing'[c].at = "ended"
  PROVE  OnePlace' /\ PillPlaced'
<1>1. \A f \in 1 .. jobs : Total(f) = 1
  BY DEF OnePlace, Total, KeptBy, Keeps
<1>2. \A f \in 1 .. jobs' : Total(f)' = 1
  BY <1>1
<1>3. OnePlace'
  BY <1>2 DEF OnePlace, Total, KeptBy, Keeps
<1> QED BY <1>3 DEF PillPlaced

(* and neither the main process                                             *)
LEMMA PlaceMain ==
  ASSUME PInv, Main \/ MonitorEnds
  PROVE  InCall' /\ OnePlace' /\ PillPlaced'
<1>0. /\ InCall /\ OnePlace /\ PillPlaced /\ jobs \in Nat /\ doing' = doing /\ jobs' = jobs
  BY PoolAssumption DEF PInv, IInv, TypeOK, Main, Put, StartMonitor, Join, JoinMonitor,
                        PrintResult, Finish, MonitorEnds
<1>1. /\ unput \in Seq(0 .. jobs) /\ tasks \in Seq(0 .. jobs)
      /\ results \in Seq(1 .. jobs) /\ printed \in Seq(1 .. jobs)
      /\ \A f : Cardinality(KeptBy(f)) \in Nat
      /\ Cardinality(Done) \in Nat
  BY <1>0, ConsumersFinite DEF InCall
<1>2. (\A f : KeptBy(f)' = KeptBy(f)) /\ Done' = Done
  BY <1>0 DEF KeptBy, Done
<1>3. CASE Put
  <2>1. /\ main # "cancelled" /\ unput # <<>>
        /\ tasks' = Append(tasks, Head(unput)) /\ unput' = Tail(unput)
        /\ UNCHANGED <<results, printed>>
    BY <1>3 DEF Put
  <2>2. Head(unput) \in 0 .. jobs /\ Tail(unput) \in Seq(0 .. jobs)
    BY <1>1, <2>1, HeadTailProperties
  <2>3. InCall'
    BY <1>0, <2>1, <2>2, AppendProperties DEF InCall
  <2>4. ASSUME NEW f
        PROVE  /\ Count(f, unput) \in Nat /\ Count(f, tasks) \in Nat
               /\ Count(f, unput') \in Nat /\ Count(f, tasks') \in Nat
               /\ Count(f, unput') + Count(f, tasks') = Count(f, unput) + Count(f, tasks)
    <3>1. /\ Count(f, unput) \in Nat /\ Count(f, unput') \in Nat
          /\ Head(unput) = f => Count(f, unput) = Count(f, unput') + 1
          /\ Head(unput) # f => Count(f, unput) = Count(f, unput')
      BY <1>1, <2>1, CountTail
    <3>2. /\ Count(f, tasks) \in Nat
          /\ Head(unput) = f => Count(f, tasks') = Count(f, tasks) + 1
          /\ Head(unput) # f => Count(f, tasks') = Count(f, tasks)
      BY <1>1, <2>1, <2>2, CountAppend
    <3> QED BY <3>1, <3>2
  <2>5. ASSUME NEW f \in 1 .. jobs PROVE Total(f)' = Total(f)
    <3>1. Count(f, results) \in Nat /\ Count(f, printed) \in Nat
      BY <1>1, CountNat
    <3>2. Count(f, unput') + Count(f, tasks') = Count(f, unput) + Count(f, tasks)
      BY <2>4
    <3>3. /\ Count(f, results)' = Count(f, results) /\ Count(f, printed)' = Count(f, printed)
          /\ Cardinality(KeptBy(f)') = Cardinality(KeptBy(f))
          /\ Count(f, unput)' = Count(f, unput') /\ Count(f, tasks)' = Count(f, tasks')
      BY <1>2, <2>1
    <3>4. /\ Count(f, unput) \in Nat /\ Count(f, tasks) \in Nat
          /\ Count(f, unput') \in Nat /\ Count(f, tasks') \in Nat
          /\ Cardinality(KeptBy(f)) \in Nat
      BY <1>1, <2>4
    <3>5. Total(f)' = Count(f, unput') + Count(f, tasks') + Count(f, results)
                        + Count(f, printed) + Cardinality(KeptBy(f))
      BY <3>3 DEF Total
    <3> QED BY <3>1, <3>2, <3>4, <3>5 DEF Total
  <2>6. /\ Count(Pill, unput)' = Count(Pill, unput') /\ Count(Pill, tasks)' = Count(Pill, tasks')
    OBVIOUS
  <2>7. Count(Pill, unput)' + Count(Pill, tasks)' + Cardinality(Done') =
          Count(Pill, unput) + Count(Pill, tasks) + Cardinality(Done)
    BY <1>2, <2>4, <2>6
  <2>8. OnePlace' /\ PillPlaced'
    BY <1>0, <2>1, <2>5, <2>7, PlaceMoved
  <2> QED BY <2>3, <2>8
<1>4. CASE PrintResult
  <2>1. /\ main # "cancelled" /\ results # <<>>
        /\ printed' = Append(printed, Head(results)) /\ results' = Tail(results)
        /\ UNCHANGED <<unput, tasks>>
    BY <1>4 DEF PrintResult
  <2>2. Head(results) \in 1 .. jobs /\ Tail(results) \in Seq(1 .. jobs)
    BY <1>1, <2>1, HeadTailProperties
  <2>3. InCall'
    BY <1>0, <2>1, <2>2, AppendProperties DEF InCall
  <2>4. ASSUME NEW f
        PROVE  /\ Count(f, results) \in Nat /\ Count(f, printed) \in Nat
               /\ Count(f, results') \in Nat /\ Count(f, printed') \in Nat
               /\ Count(f, results') + Count(f, printed') = Count(f, results) + Count(f, printed)
    <3>1. /\ Count(f, results) \in Nat /\ Count(f, results') \in Nat
          /\ Head(results) = f => Count(f, results) = Count(f, results') + 1
          /\ Head(results) # f => Count(f, results) = Count(f, results')
      BY <1>1, <2>1, CountTail
    <3>2. /\ Count(f, printed) \in Nat
          /\ Head(results) = f => Count(f, printed') = Count(f, printed) + 1
          /\ Head(results) # f => Count(f, printed') = Count(f, printed)
      BY <1>1, <2>1, <2>2, CountAppend
    <3> QED BY <3>1, <3>2
  <2>5. ASSUME NEW f \in 1 .. jobs PROVE Total(f)' = Total(f)
    <3>1. Count(f, unput) \in Nat /\ Count(f, tasks) \in Nat
      BY <1>1, CountNat
    <3>2. Count(f, results') + Count(f, printed') = Count(f, results) + Count(f, printed)
      BY <2>4
    <3>3. /\ Count(f, unput)' = Count(f, unput) /\ Count(f, tasks)' = Count(f, tasks)
          /\ Cardinality(KeptBy(f)') = Cardinality(KeptBy(f))
          /\ Count(f, results)' = Count(f, results') /\ Count(f, printed)' = Count(f, printed')
      BY <1>2, <2>1
    <3>4. /\ Count(f, results) \in Nat /\ Count(f, printed) \in Nat
          /\ Count(f, results') \in Nat /\ Count(f, printed') \in Nat
          /\ Cardinality(KeptBy(f)) \in Nat
      BY <1>1, <2>4
    <3>5. Total(f)' = Count(f, unput) + Count(f, tasks) + Count(f, results')
                        + Count(f, printed') + Cardinality(KeptBy(f))
      BY <3>3 DEF Total
    <3> QED BY <3>1, <3>2, <3>4, <3>5 DEF Total
  <2>6. OnePlace' /\ PillPlaced'
    BY <1>0, <1>2, <2>1, <2>5, PlaceMoved
  <2> QED BY <2>3, <2>6
<1>5. CASE StartMonitor \/ Join \/ JoinMonitor \/ Finish \/ MonitorEnds
  BY <1>0, <1>5, PlaceKept DEF StartMonitor, Join, JoinMonitor, Finish, MonitorEnds
<1> QED BY <1>3, <1>4, <1>5 DEF Main

(* nor a cancellation                                                       *)
LEMMA PlaceCancel ==
  ASSUME PInv, Cancel
  PROVE  InCall' /\ OnePlace' /\ PillPlaced'
<1>0. /\ InCall /\ PillPlaced /\ main' = "cancelled"
      /\ UNCHANGED <<jobs, unput, tasks, results, printed>>
      /\ doing \in [Consumers -> [at : ConsumerStates, file : Files \cup {Pill}]]
  BY DEF PInv, IInv, TypeOK, Cancel
<1>1. ASSUME NEW c \in Consumers
      PROVE  /\ doing'[c].at \in Keeps => doing'[c] = doing[c]
             /\ doing[c].at = "ended" => doing'[c].at = "ended"
  BY <1>0 DEF Cancel, Keeps
<1> QED BY <1>0, <1>1 DEF InCall, OnePlace, PillPlaced

(* nor a consumer puts a file into two places, or loses one.                *)
LEMMA PlaceConsumer ==
  ASSUME PInv, NEW c \in Consumers, Consumer(c)
  PROVE  InCall' /\ OnePlace' /\ PillPlaced'
<1> USE DEF MoveTo
<1>0. /\ InCall /\ OnePlace /\ PillPlaced /\ jobs \in Nat
      /\ doing \in [Consumers -> [at : ConsumerStates, file : Files \cup {Pill}]]
      /\ CancelStops
  BY PoolAssumption DEF PInv, IInv, TypeOK
<1>1. /\ unput \in Seq(0 .. jobs) /\ tasks \in Seq(0 .. jobs)
      /\ results \in Seq(1 .. jobs) /\ printed \in Seq(1 .. jobs)
  BY <1>0 DEF InCall
<1>2. main # "cancelled" /\ doing[c].at # "ended" /\ UNCHANGED <<jobs, main, unput, printed>>
  BY <1>0 DEF Consumer, Take, Open, OpenFails, Scan, Report, CancelStops
<1>3. \A d \in Consumers \ {c} : doing'[d] = doing[d]
  BY <1>0 DEF Consumer, Take, Open, OpenFails, Scan, Report
<1>4. \A d \in Consumers : doing[d].at = "ended" => doing'[d].at = "ended"
  BY <1>2, <1>3
<1>5. /\ Procs(jobs) \in Nat /\ c \in 1 .. Procs(jobs)
      /\ Cardinality(Done) \in Nat
      /\ doing'[c].at = "ended" => Cardinality(Done') = Cardinality(Done) + 1
      /\ doing'[c].at # "ended" => Cardinality(Done') = Cardinality(Done)
  <2>1. Procs(jobs) \in Nat /\ IsFiniteSet(Done) /\ Done \subseteq Consumers
        /\ Procs(jobs) <= NumProcs
    BY <1>0, ConsumersFinite
  <2>2. c \in 1 .. Procs(jobs)
    BY <1>0, <1>2, <2>1 DEF PillPlaced, Consumers
  <2>3. c \notin Done /\ (c \in Done' <=> doing'[c].at = "ended")
    BY <1>2, <2>2 DEF Done
  <2>4. ASSUME NEW d, d # c PROVE d \in Done <=> d \in Done'
    <3>1. d \in 1 .. Procs(jobs) => d \in Consumers
      BY <2>1, PoolAssumption DEF Consumers
    <3> QED BY <1>2, <1>3, <2>4, <3>1 DEF Done
  <2> QED BY <2>1, <2>2, <2>3, <2>4, OneMoves
<1>6. ASSUME NEW f
      PROVE  /\ Cardinality(KeptBy(f)) \in Nat
             /\ (c \in KeptBy(f) <=> c \in KeptBy(f)')
                  => Cardinality(KeptBy(f)') = Cardinality(KeptBy(f))
             /\ c \notin KeptBy(f) /\ c \in KeptBy(f)'
                  => Cardinality(KeptBy(f)') = Cardinality(KeptBy(f)) + 1
             /\ c \in KeptBy(f) /\ c \notin KeptBy(f)'
                  => Cardinality(KeptBy(f)') = Cardinality(KeptBy(f)) - 1
  <2>1. IsFiniteSet(KeptBy(f))
    BY ConsumersFinite
  <2>2. \A d : d # c => (d \in KeptBy(f) <=> d \in KeptBy(f)')
    BY <1>3 DEF KeptBy
  <2> QED BY <2>1, <2>2, OneMoves
<1>7. \A f : /\ Count(f, unput) \in Nat /\ Count(f, tasks) \in Nat
             /\ Count(f, results) \in Nat /\ Count(f, printed) \in Nat
  BY <1>1, CountNat
<1>8. CASE Take(c)
  <2>1. /\ tasks # <<>> /\ tasks' = Tail(tasks) /\ results' = results /\ doing[c].at = "get"
    BY <1>8 DEF Take
  <2>2. Head(tasks) \in 0 .. jobs /\ Tail(tasks) \in Seq(0 .. jobs)
    BY <1>1, <2>1, HeadTailProperties
  <2>3. ASSUME NEW f
        PROVE  /\ Count(f, tasks') \in Nat
               /\ Head(tasks) = f => Count(f, tasks) = Count(f, tasks') + 1
               /\ Head(tasks) # f => Count(f, tasks) = Count(f, tasks')
    BY <1>1, <2>1, CountTail
  <2>4. \A f : c \notin KeptBy(f)
    BY <2>1 DEF KeptBy, Keeps
  <2>5. CASE Head(tasks) = Pill
    <3>1. doing'[c].at = "ended"
      BY <1>0, <1>8, <2>5 DEF Take
    <3>2. InCall'
      BY <1>0, <1>2, <1>3, <2>1, <2>2, <3>1 DEF InCall, Keeps
    <3>3. ASSUME NEW f \in 1 .. jobs PROVE Total(f)' = Total(f)
      <4>1. c \notin KeptBy(f)'
        BY <3>1 DEF KeptBy, Keeps
      <4>2. Cardinality(KeptBy(f)') = Cardinality(KeptBy(f))
        BY <1>6, <2>4, <4>1
      <4>3. Head(tasks) # f
        BY <2>5 DEF Pill
      <4>4. Count(f, tasks)' = Count(f, tasks)
        BY <2>3, <4>3
      <4>5. /\ Count(f, unput)' = Count(f, unput) /\ Count(f, results)' = Count(f, results)
            /\ Count(f, printed)' = Count(f, printed)
        BY <1>2, <2>1
      <4> QED BY <4>2, <4>4, <4>5 DEF Total
    <3>4. Count(Pill, unput)' + Count(Pill, tasks)' + Cardinality(Done') =
            Count(Pill, unput) + Count(Pill, tasks) + Cardinality(Done)
      <4>1. Count(Pill, tasks) = Count(Pill, tasks)' + 1 /\ Count(Pill, tasks)' \in Nat
        BY <2>3, <2>5
      <4>2. Count(Pill, unput)' = Count(Pill, unput) /\ Count(Pill, unput) \in Nat
        BY <1>2, <1>7
      <4>3. Cardinality(Done') = Cardinality(Done) + 1
        BY <1>5, <3>1
      <4> QED BY <1>5, <4>1, <4>2, <4>3
    <3>5. OnePlace' /\ PillPlaced'
      BY <1>0, <1>2, <1>4, <3>3, <3>4, PlaceMoved
    <3> QED BY <3>2, <3>5
  <2>6. CASE Head(tasks) # Pill
    <3>1. doing'[c] = [at |-> "open", file |-> Head(tasks)]
      BY <1>0, <1>8, <2>6 DEF Take
    <3>2. Head(tasks) \in 1 .. jobs
      BY <1>0, <2>2, <2>6 DEF Pill
    <3>3. InCall'
      <4>1. doing'[c].file = Head(tasks)
        BY <3>1
      <4>2. \A d \in Consumers : doing'[d].at \in Keeps => doing'[d].file \in 1 .. jobs
        BY <1>0, <1>3, <3>2, <4>1 DEF InCall
      <4> QED BY <1>0, <1>1, <1>2, <2>1, <2>2, <4>2 DEF InCall
    <3>4. ASSUME NEW f \in 1 .. jobs PROVE Total(f)' = Total(f)
      <4>1. c \in KeptBy(f)' <=> Head(tasks) = f
        BY <3>1 DEF KeptBy, Keeps
      <4>2. /\ Head(tasks) = f => Cardinality(KeptBy(f)') = Cardinality(KeptBy(f)) + 1
            /\ Head(tasks) # f => Cardinality(KeptBy(f)') = Cardinality(KeptBy(f))
        BY <1>6, <2>4, <4>1
      <4>3. /\ Head(tasks) = f => Count(f, tasks) = Count(f, tasks)' + 1
            /\ Head(tasks) # f => Count(f, tasks) = Count(f, tasks)'
            /\ Count(f, tasks)' \in Nat
        BY <2>3
      <4>4. /\ Count(f, unput)' = Count(f, unput) /\ Count(f, results)' = Count(f, results)
            /\ Count(f, printed)' = Count(f, printed)
        BY <1>2, <2>1
      <4>5. Cardinality(KeptBy(f)) \in Nat
        BY <1>6
      <4> QED BY <1>7, <4>2, <4>3, <4>4, <4>5 DEF Total
    <3>5. Count(Pill, unput)' + Count(Pill, tasks)' + Cardinality(Done') =
            Count(Pill, unput) + Count(Pill, tasks) + Cardinality(Done)
      <4>1. Count(Pill, tasks)' = Count(Pill, tasks) /\ Count(Pill, unput)' = Count(Pill, unput)
        BY <1>2, <2>3, <2>6
      <4>2. Cardinality(Done') = Cardinality(Done)
        BY <1>5, <3>1
      <4> QED BY <4>1, <4>2
    <3>6. OnePlace' /\ PillPlaced'
      BY <1>0, <1>2, <1>4, <3>4, <3>5, PlaceMoved
    <3> QED BY <3>3, <3>6
  <2> QED BY <2>5, <2>6
<1>9. CASE Open(c) \/ OpenFails(c) \/ Scan(c)
  <2>1. /\ doing[c].at \in Keeps /\ doing'[c].at \in Keeps /\ doing'[c].file = doing[c].file
        /\ doing'[c].at # "ended" /\ UNCHANGED <<tasks, results>>
    BY <1>0, <1>9 DEF Open, OpenFails, Scan, Keeps
  <2>2. InCall'
    BY <1>0, <1>2, <1>3, <2>1 DEF InCall
  <2>3. ASSUME NEW f \in 1 .. jobs PROVE Total(f)' = Total(f)
    <3>1. c \in KeptBy(f) <=> c \in KeptBy(f)'
      BY <2>1 DEF KeptBy
    <3>2. Cardinality(KeptBy(f)') = Cardinality(KeptBy(f))
      BY <1>6, <3>1
    <3> QED BY <1>2, <2>1, <3>2 DEF Total
  <2>4. Cardinality(Done') = Cardinality(Done)
    BY <1>5, <2>1
  <2>5. OnePlace' /\ PillPlaced'
    BY <1>0, <1>2, <1>4, <2>1, <2>3, <2>4, PlaceMoved
  <2> QED BY <2>2, <2>5
<1>10. CASE Report(c)
  <2>1. /\ doing[c].at \in Keeps /\ doing'[c].at \in {"get", "dead"}
        /\ results' = Append(results, doing[c].file) /\ tasks' = tasks
    BY <1>0, <1>10 DEF Report, Keeps
  <2>2. doing[c].file \in 1 .. jobs
    BY <1>0, <2>1 DEF InCall
  <2>3. InCall'
    BY <1>0, <1>1, <1>2, <1>3, <2>1, <2>2, AppendProperties DEF InCall, Keeps
  <2>4. ASSUME NEW f \in 1 .. jobs PROVE Total(f)' = Total(f)
    <3>1. /\ c \in KeptBy(f) <=> doing[c].file = f
          /\ c \notin KeptBy(f)'
      BY <2>1 DEF KeptBy, Keeps
    <3>2. /\ doing[c].file = f => Cardinality(KeptBy(f)') = Cardinality(KeptBy(f)) - 1
          /\ doing[c].file # f => Cardinality(KeptBy(f)') = Cardinality(KeptBy(f))
      BY <1>6, <3>1
    <3>3. /\ doing[c].file = f => Count(f, results') = Count(f, results) + 1
          /\ doing[c].file # f => Count(f, results') = Count(f, results)
      BY <1>1, <2>1, <2>2, CountAppend
    <3>4. Count(f, results)' = Count(f, results')
      OBVIOUS
    <3>5. /\ Count(f, unput)' = Count(f, unput) /\ Count(f, tasks)' = Count(f, tasks)
          /\ Count(f, printed)' = Count(f, printed)
      BY <1>2, <2>1
    <3>6. Cardinality(KeptBy(f)) \in Nat
      BY <1>6
    <3> QED BY <1>7, <3>2, <3>3, <3>4, <3>5, <3>6 DEF Total
  <2>5. Cardinality(Done') = Cardinality(Done)
    BY <1>5, <2>1
  <2>6. OnePlace' /\ PillPlaced'
    BY <1>0, <1>2, <1>4, <2>1, <2>4, <2>5, PlaceMoved
  <2> QED BY <2>3, <2>6
<1> QED BY <1>8, <1>9, <1>10 DEF Consumer

(* What the last step of a call finds.                                      *)
AllPrinted == main = "ended" => Len(printed) = jobs

(* So every step keeps the invariant,                                       *)
LEMMA PlaceStep == PInv /\ AllPrinted /\ [Next]_vars => PInv' /\ AllPrinted'
<1> SUFFICES ASSUME PInv, AllPrinted, [Next]_vars PROVE PInv' /\ AllPrinted'
  OBVIOUS
<1>1. IInv'
  BY StepInv DEF PInv
<1>2. InCall' /\ OnePlace' /\ PillPlaced'
  <2>1. CASE UNCHANGED vars
    BY <2>1, PlaceKept DEF vars, PInv
  <2> QED BY <2>1, PlaceMain, PlaceCancel, PlaceConsumer DEF Next
<1>3. AllPrinted'
  BY DEF AllPrinted, Next, vars, Main, Put, StartMonitor, Join, JoinMonitor, PrintResult, Finish,
         Cancel, MonitorEnds, Consumer, Take, Open, OpenFails, Scan, Report
<1> QED BY <1>1, <1>2, <1>3 DEF PInv

(* and it always holds.                                                     *)
LEMMA PlaceInvariant == Spec => [](PInv /\ AllPrinted)
<1>1. Init => AllPrinted
  BY DEF Init, AllPrinted
<1> QED BY <1>1, PlaceInit, PlaceStep, PTL DEF Spec

(* Until the call is cancelled no file is lost and none is reported twice,  *)
(* for every number of files and processes and whichever consumers fail.    *)
THEOREM FilesInOnePlace == Spec => []OnePlace
<1>1. PInv => OnePlace
  BY DEF PInv
<1> QED BY <1>1, PlaceInvariant, PTL

(* No consumer waits for a task that will never come: as long as one waits, *)
(* a file or a pill is in the queue or still to be put there.               *)
PillsSuffice ==
  main # "cancelled" =>
    \A c \in Consumers : doing[c].at = "get" => unput # <<>> \/ tasks # <<>>

(* There is a pill for each consumer, however the consumers end.            *)
THEOREM NoConsumerStarves == Spec => []PillsSuffice
<1>1. PInv => PillsSuffice
  <2> SUFFICES ASSUME PInv, main # "cancelled", NEW c \in Consumers, doing[c].at = "get",
                      unput = <<>>, tasks = <<>>
               PROVE  FALSE
    BY DEF PillsSuffice
  <2>1. jobs \in Nat
    BY PoolAssumption DEF PInv, IInv, TypeOK
  <2>2. /\ Procs(jobs) \in Nat /\ IsFiniteSet(1 .. Procs(jobs))
        /\ Cardinality(1 .. Procs(jobs)) = Procs(jobs) /\ Cardinality(Done) \in Nat
    <3>1. Procs(jobs) \in Nat /\ Cardinality(Done) \in Nat
      BY <2>1, ConsumersFinite
    <3> QED BY <3>1, FS_Interval
  <2>3. Count(Pill, unput) = 0 /\ Count(Pill, tasks) = 0
    BY EmptyCount
  <2>4. Cardinality(Done) = Procs(jobs)
    BY <2>2, <2>3 DEF PInv, PillPlaced
  <2>5. Done = 1 .. Procs(jobs)
    <3>1. Done \in SUBSET (1 .. Procs(jobs))
      BY DEF Done
    <3> QED BY <2>2, <2>4, <3>1, FS_Subset
  <2>6. c \in 1 .. Procs(jobs)
    BY <2>2, PoolAssumption DEF PInv, PillPlaced, Consumers
  <2> QED BY <2>5, <2>6 DEF Done
<1> QED BY <1>1, PlaceInvariant, PTL

(* A list in which f stands exactly once, or not at all.                    *)
LEMMA CountOne ==
  ASSUME NEW S, NEW s \in Seq(S), NEW f
  PROVE  /\ f \in ToSet(s) => Count(f, s) >= 1
         /\ \A i, j \in DOMAIN s : s[i] = f /\ s[j] = f /\ Count(f, s) <= 1 => i = j
<1>1. /\ Count(f, s) = Cardinality(Places(s, {f})) /\ Count(f, s) \in Nat
      /\ IsFiniteSet(Places(s, {f}))
  BY CountNat, PlacesFinite
<1>2. ASSUME f \in ToSet(s) PROVE Count(f, s) >= 1
  <2>1. Places(s, {f}) # {}
    BY <1>2 DEF ToSet, Places
  <2>2. Cardinality(Places(s, {f})) # 0
    BY <1>1, <2>1, FS_EmptySet
  <2> QED BY <1>1, <2>2
<1>3. ASSUME NEW i \in DOMAIN s, NEW j \in DOMAIN s, s[i] = f, s[j] = f, Count(f, s) <= 1, i # j
      PROVE  FALSE
  <2>1. {i} \cup {j} \subseteq Places(s, {f})
    BY <1>3 DEF Places
  <2>2. IsFiniteSet({i}) /\ Cardinality({i}) = 1
    BY FS_Singleton
  <2>3. Cardinality({i} \cup {j}) = Cardinality({i}) + 1
    BY <1>3, <2>2, FS_AddElement
  <2>4. Cardinality({i} \cup {j}) <= Cardinality(Places(s, {f}))
    BY <1>1, <2>1, FS_Subset
  <2>5. Cardinality(Places(s, {f})) <= 1 /\ Cardinality(Places(s, {f})) \in Nat
    BY <1>1, <1>3
  <2> HIDE DEF Places
  <2>6. 1 + 1 <= Cardinality(Places(s, {f}))
    BY <2>2, <2>3, <2>4
  <2> QED BY <2>5, <2>6
<1> QED BY <1>2, <1>3

(* A call that ends has printed every file, left no task or pill in the     *)
(* queue, and had no consumer die.                                          *)
THEOREM CallsEndComplete == Spec => []EndsComplete
<1>1. PInv /\ AllPrinted => EndsComplete
  <2> SUFFICES ASSUME PInv, Len(printed) = jobs, main = "ended"
               PROVE  /\ tasks = <<>> /\ results = <<>>
                      /\ ToSet(printed) = 1 .. jobs
                      /\ \A c \in Consumers : doing[c].at = "ended"
    BY DEF EndsComplete, AllPrinted
  <2>1. unput = <<>> /\ tasks = <<>> /\ jobs \in Nat
    <3>1. QueueEmptied
      BY EndedMeansEmptied DEF PInv
    <3> QED BY <3>1, PoolAssumption DEF QueueEmptied, PInv, IInv, TypeOK
  <2>2. /\ results \in Seq(1 .. jobs) /\ printed \in Seq(1 .. jobs)
        /\ \A f \in 1 .. jobs : Total(f) = 1
    BY DEF PInv, InCall, OnePlace, Total, KeptBy, Keeps
  <2>3. ASSUME NEW f \in 1 .. jobs
        PROVE  /\ Count(f, results) \in Nat /\ Count(f, printed) \in Nat
               /\ Count(f, results) + Count(f, printed) <= 1
    <3>1. Count(f, unput) = 0 /\ Count(f, tasks) = 0
      BY <2>1, EmptyCount
    <3>2. Count(f, results) \in Nat /\ Count(f, printed) \in Nat
      BY <2>2, CountNat
    <3>3. Cardinality(KeptBy(f)) \in Nat
      BY ConsumersFinite
    <3>4. Total(f) = 1
      BY <2>2
    <3> QED BY <3>1, <3>2, <3>3, <3>4 DEF Total
  <2>4. \A i \in DOMAIN printed : printed[i] \in 1 .. jobs
    BY <2>2, ElementOfSeq
  <2>5. IsInjective(printed)
    <3>1. ASSUME NEW i \in DOMAIN printed, NEW j \in DOMAIN printed, printed[i] = printed[j]
          PROVE  i = j
      <4>1. PICK f \in 1 .. jobs : f = printed[i]
        BY <2>4
      <4>2. Count(f, printed) <= 1
        BY <2>3
      <4> QED BY <2>2, <3>1, <4>1, <4>2, CountOne
    <3> QED BY <3>1 DEF IsInjective
  <2>6. ToSet(printed) = 1 .. jobs
    <3>1. ToSet(printed) \in SUBSET (1 .. jobs)
      BY <2>4 DEF ToSet
    <3>2. IsFiniteSet(1 .. jobs) /\ Cardinality(1 .. jobs) = jobs
      BY <2>1, FS_Interval
    <3>3. Cardinality(ToSet(printed)) = jobs
      BY <2>2, <2>5, SizeOfInjective
    <3> QED BY <3>1, <3>2, <3>3, FS_Subset
  <2>7. results = <<>>
    <3>1. ASSUME results # <<>> PROVE FALSE
      <4>1. Head(results) \in 1 .. jobs /\ Head(results) \in ToSet(results)
        <5>1. Head(results) = results[1] /\ 1 \in DOMAIN results
          BY <2>2, <3>1, HeadTailProperties, EmptySeq
        <5> QED BY <2>2, <5>1, ElementOfSeq DEF ToSet
      <4>2. PICK f \in 1 .. jobs : f = Head(results)
        BY <4>1
      <4>3. Count(f, results) >= 1
        BY <2>2, <4>1, <4>2, CountOne
      <4>4. Count(f, printed) >= 1
        BY <2>2, <2>6, <4>2, CountOne
      <4> QED BY <2>3, <4>3, <4>4
    <3> QED BY <3>1
  <2>8. \A c \in Consumers : doing[c].at = "ended"
    <3>0. Procs(jobs) \in Nat /\ Cardinality(Done) \in Nat
      BY <2>1, ConsumersFinite
    <3>1. /\ Procs(jobs) \in Nat /\ IsFiniteSet(1 .. Procs(jobs))
          /\ Cardinality(1 .. Procs(jobs)) = Procs(jobs) /\ Cardinality(Done) \in Nat
      BY <3>0, FS_Interval
    <3>2. Count(Pill, unput) = 0 /\ Count(Pill, tasks) = 0
      BY <2>1, EmptyCount
    <3>3. Cardinality(Done) = Procs(jobs)
      BY <3>1, <3>2 DEF PInv, PillPlaced
    <3>4. Done = 1 .. Procs(jobs)
      <4>1. Done \in SUBSET (1 .. Procs(jobs))
        BY DEF Done
      <4> QED BY <3>1, <3>3, <4>1, FS_Subset
    <3> QED BY <3>1, <3>4 DEF Done, PInv, PillPlaced, Consumers
  <2> QED BY <2>1, <2>6, <2>7, <2>8
<1> QED BY <1>1, PlaceInvariant, PTL

---------------------------------------------------------------------------
(* The lists of cloudscan.py (module Cloudscan).  A list has been started:  *)
Begun == options.recursive /\ front \in {"collect", "wait", "gone"}

(* Where file f is, and in how many places.                                 *)
InHands(f) == {p \in Senders : inHand[p] = f}
InBoxes(f) == {p \in Senders : Contains(outbox[p], f)}

Spots(f) ==
  Times(f, jobQueue) + Times(f, pipe) + Times(f, logged)
    + Cardinality(InHands(f)) + Cardinality(InBoxes(f))

(* What main and its processes are at, and what that says of the results.   *)
Course ==
  /\ front \in {"collect", "wait"} => options.recursive
  /\ front \in {"ask", "save"} => ~options.recursive
  /\ ~Begun => Idle
  /\ front = "collect" => ending = "none"
  /\ ending = "complete" => Begun /\ front # "collect" /\ Len(logged) = listed

(* A process has a file in hand as long as it is at work on it.             *)
HandsFull ==
  \A p \in Senders :
    /\ sending[p] \in {"open", "send", "save"} => inHand[p] \in Listed
    /\ sending[p] \in {"new", "connect", "get"} => inHand[p] = Stop

OneInBox == \A p \in Senders : \A f \in Listed : Times(f, outbox[p]) <= 1

Spread ==
  Begun => \A f \in Listed :
    Spots(f) <= 1 /\ (ending \in {"none", "complete"} => Spots(f) = 1)

CInv == CloudTypeOK /\ Course /\ HandsFull /\ OneInBox /\ Spread

---------------------------------------------------------------------------
(* Cloudscan counts as LaikaPool does.                                      *)
LEMMA TimesIsCount == \A f, s : Times(f, s) = Count(f, s)
BY DEF Times, Count

(* What stands in a list is counted there,                                  *)
LEMMA ContainsCount ==
  ASSUME NEW S, NEW s \in Seq(S), NEW f
  PROVE  /\ Contains(s, f) => Count(f, s) >= 1
         /\ ~Contains(s, f) => Count(f, s) = 0
         /\ Count(f, s) \in Nat /\ Times(f, s) = Count(f, s)
<1>1. DOMAIN s = 1 .. Len(s)
  OBVIOUS
<1>2. Contains(s, f) => f \in ToSet(s)
  BY <1>1 DEF Contains, ToSet
<1>3. ASSUME ~Contains(s, f) PROVE Count(f, s) = 0
  <2>1. {i \in DOMAIN s : s[i] = f} = {}
    BY <1>1, <1>3 DEF Contains
  <2> QED BY <2>1, FS_EmptySet DEF Count
<1>4. Contains(s, f) => Count(f, s) >= 1
  BY <1>2, CountOne
<1>5. Count(f, s) \in Nat
  BY CountNat
<1>6. Times(f, s) = Count(f, s)
  BY TimesIsCount
<1> QED BY <1>3, <1>4, <1>5, <1>6

(* also when the list has grown, or has lost its first element.             *)
LEMMA ContainsAppend ==
  ASSUME NEW S, NEW s \in Seq(S), NEW e \in S, NEW f
  PROVE  Contains(Append(s, e), f) <=> e = f \/ Contains(s, f)
<1>1. Append(s, e) \in Seq(S)
  BY AppendProperties
<1>2. /\ e = f => Count(f, Append(s, e)) = Count(f, s) + 1
      /\ e # f => Count(f, Append(s, e)) = Count(f, s)
  BY CountAppend
<1>3. /\ Contains(s, f) => Count(f, s) >= 1
      /\ ~Contains(s, f) => Count(f, s) = 0
      /\ Count(f, s) \in Nat
  BY ContainsCount
<1>4. /\ Contains(Append(s, e), f) => Count(f, Append(s, e)) >= 1
      /\ ~Contains(Append(s, e), f) => Count(f, Append(s, e)) = 0
  BY <1>1, ContainsCount
<1> QED BY <1>2, <1>3, <1>4

LEMMA ContainsTail ==
  ASSUME NEW S, NEW s \in Seq(S), s # <<>>, NEW f, Count(f, s) <= 1
  PROVE  Contains(Tail(s), f) <=> Head(s) # f /\ Contains(s, f)
<1>1. Tail(s) \in Seq(S)
  BY HeadTailProperties
<1>2. /\ Count(f, Tail(s)) \in Nat
      /\ Head(s) = f => Count(f, s) = Count(f, Tail(s)) + 1
      /\ Head(s) # f => Count(f, s) = Count(f, Tail(s))
  BY CountTail
<1>3. /\ Contains(s, f) => Count(f, s) >= 1
      /\ ~Contains(s, f) => Count(f, s) = 0
  BY ContainsCount
<1>4. /\ Contains(Tail(s), f) => Count(f, Tail(s)) >= 1
      /\ ~Contains(Tail(s), f) => Count(f, Tail(s)) = 0
  BY <1>1, ContainsCount
<1> QED BY <1>2, <1>3, <1>4

(* The places of a file can be counted.                                     *)
LEMMA SpotsNat ==
  ASSUME CloudTypeOK, NEW f
  PROVE  /\ Times(f, jobQueue) \in Nat /\ Times(f, pipe) \in Nat /\ Times(f, logged) \in Nat
         /\ IsFiniteSet(InHands(f)) /\ Cardinality(InHands(f)) \in Nat
         /\ IsFiniteSet(InBoxes(f)) /\ Cardinality(InBoxes(f)) \in Nat
<1>1. IsFiniteSet(Senders)
  BY CloudAssumption, FS_Interval DEF Senders
<1>2. InHands(f) \in SUBSET Senders /\ InBoxes(f) \in SUBSET Senders
  BY DEF InHands, InBoxes
<1>3. /\ jobQueue \in Seq(Listed \cup {Stop}) /\ pipe \in Seq(Listed) /\ logged \in Seq(Listed)
  BY DEF CloudTypeOK
<1> QED BY <1>1, <1>2, <1>3, ContainsCount, FS_Subset, FS_CardinalityType

(* The processes work only on a list that has been started.                 *)
LEMMA WorkBegun ==
  ASSUME CInv, NEW p \in Senders, Sender(p) \/ Feed(p)
  PROVE  Begun /\ Begun' /\ UNCHANGED <<options, listed, front, ending, logged>>
<1>1. UNCHANGED <<options, listed, front, ending, logged>>
  BY DEF Sender, Feed, Connect, Fetch, OpenFile, SendFile, SaveFile, Leave
<1>2. ASSUME ~Begun PROVE FALSE
  <2>1. sending[p] = "new" /\ outbox[p] = <<>>
    BY <1>2 DEF CInv, Course, Idle
  <2> QED BY <2>1 DEF Sender, Feed, Connect, Fetch, OpenFile, SendFile, SaveFile, Leave
<1> QED BY <1>1, <1>2 DEF Begun

(* A file that is in hand is in no process's box.                           *)
LEMMA HeldNotBoxed ==
  ASSUME CInv, Begun, NEW p \in Senders, NEW f \in Listed, inHand[p] = f
  PROVE  p \notin InBoxes(f) /\ Times(f, outbox[p]) = 0
<1>1. p \in InHands(f)
  BY DEF InHands
<1>2. Cardinality(InHands(f)) # 0
  BY <1>1, SpotsNat, FS_EmptySet DEF CInv
<1>3. Spots(f) <= 1
  BY DEF CInv, Spread
<1>4. /\ Times(f, jobQueue) \in Nat /\ Times(f, pipe) \in Nat /\ Times(f, logged) \in Nat
      /\ Cardinality(InHands(f)) \in Nat /\ Cardinality(InBoxes(f)) \in Nat
  BY SpotsNat DEF CInv
<1>5. Cardinality(InBoxes(f)) = 0
  <2>1. \A i, j, k, m, n \in Nat : i + j + k + m + n <= 1 /\ m # 0 => n = 0
    OBVIOUS
  <2> QED BY <1>2, <1>3, <1>4, <2>1 DEF Spots
<1>6. InBoxes(f) = {}
  BY <1>5, SpotsNat, FS_EmptySet DEF CInv
<1>7. ~Contains(outbox[p], f)
  BY <1>6 DEF InBoxes
<1>8. outbox[p] \in Seq(Listed)
  BY DEF CInv, CloudTypeOK
<1> QED BY <1>6, <1>7, <1>8, ContainsCount

(* The steps of main with one file start no list.                           *)
LEMMA OneFileInv ==
  ASSUME CInv, ReadOne \/ AskOne \/ SaveOne
  PROVE  CInv'
<1>1. /\ front' \in {"ask", "save", "refused", "gone"} /\ ~options.recursive
      /\ UNCHANGED <<options, listed, ending, jobQueue, senderVars, pipe, logged>>
  BY DEF ReadOne, AskOne, SaveOne, OneFile, CInv, Course
<1>2. ~Begun /\ ~Begun' /\ Idle /\ Idle'
  BY <1>1 DEF Begun, Idle, CInv, Course, senderVars
<1>3. CloudTypeOK'
  BY <1>1 DEF CInv, CloudTypeOK, senderVars, Listed
<1>4. Course' /\ HandsFull' /\ OneInBox' /\ Spread'
  BY <1>1, <1>2 DEF CInv, Course, HandsFull, OneInBox, Spread, senderVars, Listed, Idle
<1> QED BY <1>3, <1>4 DEF CInv

(* The queue with which a list is started.                                  *)
LEMMA JobCounts ==
  ASSUME NEW n \in Nat, NEW q, q = [i \in 1 .. n |-> i] \o [p \in Senders |-> Stop]
  PROVE  /\ q \in Seq((1 .. n) \cup {Stop})
         /\ \A f \in 1 .. n : Times(f, q) = 1
         /\ Times(Stop, q) = CloudProcs
<1> DEFINE a == [i \in 1 .. n |-> i]
           b == [p \in Senders |-> Stop]
           T == (1 .. n) \cup {Stop}
<1>1. CloudProcs \in Nat /\ Senders = 1 .. CloudProcs
  BY CloudAssumption DEF Senders
<1>2. a \in Seq(T) /\ Len(a) = n
  <2>1. a \in [1 .. n -> T]
    OBVIOUS
  <2> QED BY <2>1, SeqDef
<1>3. b \in Seq(T) /\ Len(b) = CloudProcs
  <2>1. b \in [1 .. CloudProcs -> T]
    BY <1>1
  <2> QED BY <1>1, <2>1, SeqDef
<1>4. /\ q \in Seq(T) /\ Len(q) = n + CloudProcs
      /\ \A i \in 1 .. n + CloudProcs : q[i] = IF i <= n THEN i ELSE Stop
  <2>1. /\ a \o b \in Seq(T) /\ Len(a \o b) = Len(a) + Len(b)
        /\ \A i \in 1 .. Len(a) + Len(b) :
             (a \o b)[i] = IF i <= Len(a) THEN a[i] ELSE b[i - Len(a)]
    BY <1>2, <1>3, ConcatProperties
  <2>2. ASSUME NEW i \in 1 .. n + CloudProcs PROVE (a \o b)[i] = IF i <= n THEN i ELSE Stop
    <3>1. (a \o b)[i] = IF i <= n THEN a[i] ELSE b[i - n]
      BY <1>1, <1>2, <1>3, <2>1
    <3>2. i <= n => a[i] = i
      OBVIOUS
    <3>3. ~(i <= n) => b[i - n] = Stop
      <4>1. ~(i <= n) => i - n \in Senders
        BY <1>1
      <4> QED BY <4>1
    <3> QED BY <3>1, <3>2, <3>3
  <2> QED BY <1>2, <1>3, <2>1, <2>2
<1>5. DOMAIN q = 1 .. n + CloudProcs
  BY <1>4
<1>6. ASSUME NEW f \in 1 .. n PROVE Times(f, q) = 1
  <2>1. {i \in DOMAIN q : q[i] = f} = {f}
    BY <1>1, <1>4, <1>5 DEF Stop
  <2> QED BY <2>1, FS_Singleton DEF Times
<1>7. Times(Stop, q) = CloudProcs
  <2>1. {i \in DOMAIN q : q[i] = Stop} = (n + 1) .. (n + CloudProcs)
    BY <1>1, <1>4, <1>5 DEF Stop
  <2>2. Cardinality((n + 1) .. (n + CloudProcs)) = CloudProcs
    BY <1>1, FS_Interval
  <2> QED BY <2>1, <2>2 DEF Times
<1> QED BY <1>4, <1>6, <1>7

(* A list is started: each file is in the queue.                            *)
LEMMA StartInv ==
  ASSUME CInv, StartSenders
  PROVE  CInv'
<1>1. /\ front = "list" /\ options.recursive /\ Idle
      /\ UNCHANGED <<options, listed, ending, inHand, outbox, pipe, logged>>
      /\ listed \in Nat /\ listed \in 0 .. MaxListed
  BY CloudAssumption DEF StartSenders, CInv, CloudTypeOK, Course, Begun
<1>2. CASE listed > ListLimit /\ ~options.nolimit
  <2>1. front' = "refused" /\ UNCHANGED <<jobQueue, sending>>
    BY <1>2 DEF StartSenders
  <2>2. CloudTypeOK'
    BY <1>1, <2>1 DEF CInv, CloudTypeOK, Listed
  <2>3. Course' /\ HandsFull' /\ OneInBox' /\ Spread'
    BY <1>1, <2>1 DEF CInv, Course, HandsFull, OneInBox, Spread, Begun, Idle, Listed
  <2> QED BY <2>2, <2>3 DEF CInv
<1>3. CASE ~(listed > ListLimit /\ ~options.nolimit)
  <2>1. /\ front' = "collect" /\ sending' = [p \in Senders |-> "connect"]
        /\ jobQueue' = [i \in 1 .. listed |-> i] \o [p \in Senders |-> Stop]
    BY <1>3 DEF StartSenders
  <2>2. jobQueue' \in Seq(Listed \cup {Stop}) /\ \A f \in Listed : Times(f, jobQueue') = 1
    BY <1>1, <2>1, JobCounts DEF Listed
  <2>3. CloudTypeOK'
    BY <1>1, <2>1, <2>2 DEF CInv, CloudTypeOK, Listed
  <2>4. Course' /\ HandsFull' /\ OneInBox'
    BY <1>1, <2>1 DEF CInv, Course, HandsFull, OneInBox, Begun, Idle, Listed
  <2>5. ASSUME NEW f \in Listed PROVE Spots(f)' = 1
    <3>1. Times(f, <<>>) = 0
      BY EmptyCount, TimesIsCount
    <3>2. InHands(f)' = {}
      BY <1>1, <2>5 DEF Idle, InHands, Listed, Stop
    <3>3. InBoxes(f)' = {}
      BY <1>1 DEF Idle, InBoxes, Contains
    <3>4. /\ Cardinality(InHands(f)') = 0 /\ Cardinality(InBoxes(f)') = 0
          /\ Times(f, pipe') = 0 /\ Times(f, logged') = 0 /\ Times(f, jobQueue') = 1
      BY <1>1, <2>2, <3>1, <3>2, <3>3, FS_EmptySet DEF Idle
    <3> QED BY <3>4 DEF Spots
  <2>6. Spread'
    BY <1>1, <2>5 DEF Spread, Listed
  <2> QED BY <2>3, <2>4, <2>6 DEF CInv
<1> QED BY <1>2, <1>3

(* Main writes a result to its log, or stops; files of the log stay there.  *)
LEMMA CollectInv ==
  ASSUME CInv, Collect \/ CollectedAll \/ AwaitSenders
  PROVE  CInv'
<1>1. /\ Begun /\ Begun' /\ options.recursive
      /\ UNCHANGED <<options, listed, jobQueue, sending, inHand, outbox>>
      /\ pipe \in Seq(Listed) /\ logged \in Seq(Listed) /\ Listed' = Listed
  BY DEF Collect, CollectedAll, AwaitSenders, CInv, CloudTypeOK, Course, Begun, senderVars, Listed
<1>2. \A f : InHands(f)' = InHands(f) /\ InBoxes(f)' = InBoxes(f)
  BY <1>1 DEF InHands, InBoxes
<1>3. HandsFull' /\ OneInBox'
  BY <1>1 DEF CInv, HandsFull, OneInBox
<1>4. CASE Collect
  <2>1. /\ front = "collect" /\ pipe # <<>> /\ pipe' = Tail(pipe) /\ ending = "none"
        /\ \/ logged' = Append(logged, Head(pipe)) /\ UNCHANGED <<front, ending>>
           \/ front' = "wait" /\ ending' = "log" /\ logged' = logged
    BY <1>4 DEF Collect, CInv, Course
  <2>2. Head(pipe) \in Listed /\ Tail(pipe) \in Seq(Listed) /\ Len(Tail(pipe)) = Len(pipe) - 1
    BY <1>1, <2>1, HeadTailProperties
  <2>3. CloudTypeOK'
    <3>1. logged' \in Seq(Listed)
      BY <1>1, <2>1, <2>2, AppendProperties
    <3>2. Len(pipe') <= PipeSize
      BY <1>1, <2>1, <2>2, CloudAssumption, LenProperties DEF CInv, CloudTypeOK
    <3> QED BY <1>1, <2>1, <2>2, <3>1, <3>2 DEF CInv, CloudTypeOK
  <2>4. Course'
    BY <1>1, <2>1 DEF CInv, Course
  <2>5. ASSUME NEW f \in Listed
        PROVE  /\ Spots(f) \in Nat /\ Spots(f)' \in Nat /\ Spots(f)' <= Spots(f)
               /\ front' # "wait" => Spots(f)' = Spots(f)
    <3>1. /\ Times(f, pipe') \in Nat
          /\ Head(pipe) = f => Times(f, pipe) = Times(f, pipe') + 1
          /\ Head(pipe) # f => Times(f, pipe) = Times(f, pipe')
      BY <1>1, <2>1, CountTail, TimesIsCount
    <3>2. /\ Times(f, logged) \in Nat
          /\ front' # "wait" => /\ Head(pipe) = f => Times(f, logged') = Times(f, logged) + 1
                                /\ Head(pipe) # f => Times(f, logged') = Times(f, logged)
          /\ front' = "wait" => Times(f, logged') = Times(f, logged)
      <4>1. /\ Times(f, logged) \in Nat
            /\ Head(pipe) = f => Times(f, Append(logged, Head(pipe))) = Times(f, logged) + 1
            /\ Head(pipe) # f => Times(f, Append(logged, Head(pipe))) = Times(f, logged)
        BY <1>1, <2>2, CountAppend, TimesIsCount
      <4>2. /\ front' # "wait" => logged' = Append(logged, Head(pipe))
            /\ front' = "wait" => logged' = logged
        BY <2>1
      <4> QED BY <4>1, <4>2
    <3>3. /\ Times(f, jobQueue) \in Nat /\ Times(f, jobQueue') = Times(f, jobQueue)
          /\ Cardinality(InHands(f)) \in Nat /\ Cardinality(InHands(f)') = Cardinality(InHands(f))
          /\ Cardinality(InBoxes(f)) \in Nat /\ Cardinality(InBoxes(f)') = Cardinality(InBoxes(f))
      BY <1>1, <1>2, SpotsNat DEF CInv
    <3> QED BY <3>1, <3>2, <3>3 DEF Spots
  <2>6. Spread'
    <3>1. ASSUME NEW f \in Listed
          PROVE  Spots(f)' <= 1 /\ (ending' \in {"none", "complete"} => Spots(f)' = 1)
      <4>1. Spots(f) = 1
        BY <1>1, <2>1 DEF CInv, Spread
      <4>2. ending' \in {"none", "complete"} => front' # "wait"
        BY <2>1
      <4> QED BY <2>5, <4>1, <4>2
    <3> QED BY <1>1, <3>1 DEF Spread
  <2> QED BY <1>3, <2>3, <2>4, <2>6 DEF CInv
<1>5. CASE CollectedAll \/ AwaitSenders
  <2>1. /\ UNCHANGED <<pipe, logged>> /\ front' \in {"wait", "gone"}
        /\ \/ front = "collect" /\ ending = "none" /\ ending' = "complete" /\ Len(logged) = listed
           \/ ending' = ending
    BY <1>5 DEF CollectedAll, AwaitSenders, CInv, Course
  <2>2. CloudTypeOK'
    BY <1>1, <2>1 DEF CInv, CloudTypeOK
  <2>3. Course'
    BY <1>1, <2>1 DEF CInv, Course
  <2>4. \A f : Spots(f)' = Spots(f)
    BY <1>1, <1>2, <2>1 DEF Spots
  <2>5. Spread'
    BY <1>1, <2>1, <2>4 DEF CInv, Spread
  <2> QED BY <1>3, <2>2, <2>3, <2>5 DEF CInv
<1> QED BY <1>4, <1>5

SenderStates == {"new", "connect", "get", "open", "send", "save", "leave", "gone"}

(* A process goes on, with what it has in hand.                             *)
LEMMA SenderMoves ==
  ASSUME CInv, NEW p \in Senders, NEW to \in SenderStates, SenderGoes(p, to),
         Begun, UNCHANGED <<options, listed, front, ending, jobQueue, inHand, outbox, pipe, logged>>,
         to \in {"open", "send", "save"} => inHand[p] \in Listed,
         to \in {"new", "connect", "get"} => inHand[p] = Stop
  PROVE  CInv'
<1>1. /\ sending' \in [Senders -> SenderStates] /\ sending'[p] = to
      /\ \A q \in Senders \ {p} : sending'[q] = sending[q]
  BY DEF CInv, CloudTypeOK, SenderGoes, SenderStates
<1>2. CloudTypeOK'
  BY <1>1 DEF CInv, CloudTypeOK, SenderStates, Listed
<1>3. Course' /\ OneInBox'
  BY DEF CInv, Course, OneInBox, Begun, Listed
<1>4. HandsFull'
  <2>1. ASSUME NEW q \in Senders
        PROVE  /\ sending'[q] \in {"open", "send", "save"} => inHand[q] \in Listed
               /\ sending'[q] \in {"new", "connect", "get"} => inHand[q] = Stop
    BY <1>1 DEF CInv, HandsFull
  <2> QED BY <2>1 DEF HandsFull, Listed
<1>5. Spread'
  <2>1. \A f : Spots(f)' = Spots(f)
    BY DEF Spots, InHands, InBoxes
  <2> QED BY <2>1 DEF CInv, Spread, Listed
<1> QED BY <1>2, <1>3, <1>4, <1>5 DEF CInv

(* Its result put, the file is in the process's box and in no hand.         *)
LEMMA PutInv ==
  ASSUME CInv, NEW p \in Senders, PutResult(p), sending[p] \in {"open", "send", "save"},
         Begun, UNCHANGED <<options, listed, front, ending, jobQueue, pipe, logged>>
  PROVE  CInv'
<1>1. PICK g \in Listed : g = inHand[p]
  BY DEF CInv, HandsFull
<1>2. /\ sending' \in [Senders -> SenderStates] /\ sending'[p] = "get"
      /\ inHand' \in [Senders -> Listed \cup {Stop}] /\ inHand'[p] = Stop
      /\ \A q \in Senders \ {p} : sending'[q] = sending[q] /\ inHand'[q] = inHand[q]
  BY DEF CInv, CloudTypeOK, PutResult, SenderGoes, SenderStates
<1>3. outbox \in [Senders -> Seq(Listed)] /\ outbox[p] \in Seq(Listed)
  BY DEF CInv, CloudTypeOK
<1>4. Append(outbox[p], g) \in Seq(Listed)
  BY <1>3, AppendProperties
<1>5. /\ outbox' \in [Senders -> Seq(Listed)] /\ outbox'[p] = Append(outbox[p], g)
      /\ \A q \in Senders \ {p} : outbox'[q] = outbox[q]
  BY <1>1, <1>3, <1>4 DEF PutResult
<1>6. p \notin InBoxes(g) /\ Times(g, outbox[p]) = 0
  BY <1>1, HeldNotBoxed
<1>7. CloudTypeOK'
  BY <1>2, <1>5 DEF CInv, CloudTypeOK, SenderStates, Listed
<1>8. Course'
  BY DEF CInv, Course, Begun
<1>9. HandsFull'
  <2>1. ASSUME NEW q \in Senders
        PROVE  /\ sending'[q] \in {"open", "send", "save"} => inHand'[q] \in Listed
               /\ sending'[q] \in {"new", "connect", "get"} => inHand'[q] = Stop
    BY <1>2 DEF CInv, HandsFull
  <2> QED BY <2>1 DEF HandsFull, Listed
<1>10. OneInBox'
  <2>1. ASSUME NEW q \in Senders, NEW f \in Listed PROVE Times(f, outbox'[q]) <= 1
    <3>1. Times(f, outbox[q]) <= 1
      BY DEF CInv, OneInBox
    <3>2. CASE q # p
      BY <1>5, <3>1, <3>2
    <3>3. CASE q = p
      <4>1. /\ Times(f, outbox[p]) \in Nat
            /\ g = f => Times(f, Append(outbox[p], g)) = Times(f, outbox[p]) + 1
            /\ g # f => Times(f, Append(outbox[p], g)) = Times(f, outbox[p])
        BY <1>3, CountAppend, TimesIsCount
      <4>2. g = f => Times(f, outbox[p]) = 0
        BY <1>6
      <4>3. Times(f, outbox[p]) <= 1 /\ outbox'[q] = Append(outbox[p], g)
        BY <1>5, <3>1, <3>3
      <4>4. Times(f, Append(outbox[p], g)) <= 1
        BY <4>1, <4>2, <4>3
      <4> QED BY <4>3, <4>4
    <3> QED BY <3>2, <3>3
  <2> QED BY <2>1 DEF OneInBox, Listed
<1>11. ASSUME NEW f \in Listed PROVE Spots(f)' = Spots(f)
  <2>1. /\ \A q : q # p => (q \in InHands(f) <=> q \in InHands(f)')
        /\ \A q : q # p => (q \in InBoxes(f) <=> q \in InBoxes(f)')
    BY <1>2, <1>5 DEF InHands, InBoxes
  <2>2. p \in InHands(f) <=> g = f
    BY <1>1 DEF InHands
  <2>3. p \notin InHands(f)'
    BY <1>2, <1>11 DEF InHands, Listed, Stop
  <2>4. p \in InBoxes(f)' <=> g = f \/ p \in InBoxes(f)
    <3>1. Contains(Append(outbox[p], g), f) <=> g = f \/ Contains(outbox[p], f)
      BY <1>3, ContainsAppend
    <3> QED BY <1>5, <3>1 DEF InBoxes
  <2>5. IsFiniteSet(InHands(f)) /\ IsFiniteSet(InBoxes(f))
    BY SpotsNat DEF CInv
  <2>6. /\ Cardinality(InHands(f)) \in Nat
        /\ g = f => Cardinality(InHands(f)') = Cardinality(InHands(f)) - 1
        /\ g # f => Cardinality(InHands(f)') = Cardinality(InHands(f))
    BY <2>1, <2>2, <2>3, <2>5, OneMoves
  <2>7. /\ Cardinality(InBoxes(f)) \in Nat
        /\ g = f => Cardinality(InBoxes(f)') = Cardinality(InBoxes(f)) + 1
        /\ g # f => Cardinality(InBoxes(f)') = Cardinality(InBoxes(f))
    BY <1>6, <2>1, <2>4, <2>5, OneMoves
  <2>8. Cardinality(InHands(f)') + Cardinality(InBoxes(f)') =
          Cardinality(InHands(f)) + Cardinality(InBoxes(f))
    BY <2>6, <2>7
  <2>9. /\ Times(f, jobQueue') = Times(f, jobQueue) /\ Times(f, jobQueue) \in Nat
        /\ Times(f, pipe') = Times(f, pipe) /\ Times(f, pipe) \in Nat
        /\ Times(f, logged') = Times(f, logged) /\ Times(f, logged) \in Nat
    BY SpotsNat DEF CInv
  <2>10. Cardinality(InHands(f)') \in Nat /\ Cardinality(InBoxes(f)') \in Nat
    <3>1. g = f => Cardinality(InHands(f)) # 0
      BY <2>2, <2>5, FS_EmptySet
    <3> QED BY <2>6, <2>7, <3>1
  <2> QED BY <2>6, <2>7, <2>8, <2>9, <2>10 DEF Spots
<1>12. Spread'
  BY <1>11 DEF CInv, Spread, Listed
<1> QED BY <1>7, <1>8, <1>9, <1>10, <1>12 DEF CInv
(* A process takes the next job: a file is in its hand, no longer queued.   *)
LEMMA FetchInv ==
  ASSUME CInv, NEW p \in Senders, Fetch(p), Begun
  PROVE  CInv'
<1>1. /\ sending[p] = "get" /\ jobQueue # <<>> /\ jobQueue' = Tail(jobQueue)
      /\ UNCHANGED <<options, listed, front, ending, outbox, pipe, logged>>
      /\ jobQueue \in Seq(Listed \cup {Stop}) /\ inHand[p] = Stop
  BY DEF Fetch, CInv, CloudTypeOK, HandsFull
<1>2. PICK g \in Listed \cup {Stop} : g = Head(jobQueue)
  BY <1>1, HeadTailProperties
<1>3. Tail(jobQueue) \in Seq(Listed \cup {Stop})
  BY <1>1, HeadTailProperties
<1>4. /\ sending' \in [Senders -> SenderStates]
      /\ sending'[p] = IF g = Stop THEN "leave" ELSE "open"
      /\ inHand' \in [Senders -> Listed \cup {Stop}] /\ inHand'[p] = g
      /\ \A q \in Senders \ {p} : sending'[q] = sending[q] /\ inHand'[q] = inHand[q]
  BY <1>2 DEF CInv, CloudTypeOK, Fetch, SenderGoes, SenderStates
<1>5. CloudTypeOK'
  BY <1>1, <1>3, <1>4 DEF CInv, CloudTypeOK, SenderStates, Listed
<1>6. Course' /\ OneInBox'
  BY <1>1 DEF CInv, Course, OneInBox, Begun, Listed
<1>7. HandsFull'
  <2>1. ASSUME NEW q \in Senders
        PROVE  /\ sending'[q] \in {"open", "send", "save"} => inHand'[q] \in Listed
               /\ sending'[q] \in {"new", "connect", "get"} => inHand'[q] = Stop
    <3>1. g # Stop => g \in Listed
      OBVIOUS
    <3> QED BY <1>4, <3>1 DEF CInv, HandsFull
  <2> QED BY <1>1, <2>1 DEF HandsFull, Listed
<1>8. ASSUME NEW f \in Listed PROVE Spots(f)' = Spots(f)
  <2>1. \A q : q # p => (q \in InHands(f) <=> q \in InHands(f)')
    BY <1>4 DEF InHands
  <2>2. p \notin InHands(f) /\ (p \in InHands(f)' <=> g = f)
    BY <1>1, <1>4, <1>8 DEF InHands, Listed, Stop
  <2>3. /\ Cardinality(InHands(f)) \in Nat
        /\ g = f => Cardinality(InHands(f)') = Cardinality(InHands(f)) + 1
        /\ g # f => Cardinality(InHands(f)') = Cardinality(InHands(f))
    BY <2>1, <2>2, SpotsNat, OneMoves DEF CInv
  <2>4. /\ Times(f, Tail(jobQueue)) \in Nat
        /\ g = f => Times(f, jobQueue) = Times(f, Tail(jobQueue)) + 1
        /\ g # f => Times(f, jobQueue) = Times(f, Tail(jobQueue))
    BY <1>1, <1>2, CountTail, TimesIsCount
  <2>5. InBoxes(f)' = InBoxes(f) /\ Cardinality(InBoxes(f)) \in Nat
    BY <1>1, SpotsNat DEF InBoxes, CInv
  <2>6. /\ Times(f, jobQueue') = Times(f, Tail(jobQueue))
        /\ Times(f, pipe') = Times(f, pipe) /\ Times(f, pipe) \in Nat
        /\ Times(f, logged') = Times(f, logged) /\ Times(f, logged) \in Nat
    BY <1>1, SpotsNat DEF CInv
  <2>7. Times(f, jobQueue') + Cardinality(InHands(f)') =
          Times(f, jobQueue) + Cardinality(InHands(f))
    BY <2>3, <2>4, <2>6
  <2>8. /\ Times(f, jobQueue) \in Nat /\ Times(f, jobQueue') \in Nat
        /\ Cardinality(InHands(f)') \in Nat
    BY <2>3, <2>4, <2>6
  <2> QED BY <2>3, <2>5, <2>6, <2>7, <2>8 DEF Spots
<1>9. Spread'
  BY <1>1, <1>8 DEF CInv, Spread, Begun, Listed
<1> QED BY <1>5, <1>6, <1>7, <1>9 DEF CInv

(* A process's feeder thread moves a result from its box to the pipe.       *)
LEMMA FeedInv ==
  ASSUME CInv, NEW p \in Senders, Feed(p), Begun
  PROVE  CInv'
<1>1. /\ outbox[p] # <<>> /\ Len(pipe) < PipeSize
      /\ pipe' = Append(pipe, Head(outbox[p]))
      /\ outbox' = [outbox EXCEPT ![p] = Tail(outbox[p])]
      /\ UNCHANGED <<options, listed, front, ending, jobQueue, sending, inHand, logged>>
      /\ outbox \in [Senders -> Seq(Listed)] /\ outbox[p] \in Seq(Listed) /\ pipe \in Seq(Listed)
  BY DEF Feed, CInv, CloudTypeOK
<1>2. PICK g \in Listed : g = Head(outbox[p])
  BY <1>1, HeadTailProperties
<1>3. Tail(outbox[p]) \in Seq(Listed)
  BY <1>1, HeadTailProperties
<1>4. /\ outbox' \in [Senders -> Seq(Listed)] /\ outbox'[p] = Tail(outbox[p])
      /\ \A q \in Senders \ {p} : outbox'[q] = outbox[q]
  BY <1>1, <1>3
<1>5. CloudTypeOK'
  <2>1. pipe' \in Seq(Listed) /\ Len(pipe') = Len(pipe) + 1 /\ Len(pipe) \in Nat
    BY <1>1, <1>2, AppendProperties, LenProperties
  <2>2. Len(pipe') <= PipeSize
    BY <1>1, <2>1, CloudAssumption
  <2> QED BY <1>1, <1>4, <2>1, <2>2 DEF CInv, CloudTypeOK, Listed
<1>6. Course' /\ HandsFull'
  BY <1>1 DEF CInv, Course, HandsFull, Begun, Listed
<1>7. OneInBox'
  <2>1. ASSUME NEW q \in Senders, NEW f \in Listed PROVE Times(f, outbox'[q]) <= 1
    <3>1. Times(f, outbox[q]) <= 1
      BY DEF CInv, OneInBox
    <3>2. CASE q # p
      BY <1>4, <3>1, <3>2
    <3>3. CASE q = p
      <4>1. /\ Times(f, Tail(outbox[p])) \in Nat
            /\ g = f => Times(f, outbox[p]) = Times(f, Tail(outbox[p])) + 1
            /\ g # f => Times(f, outbox[p]) = Times(f, Tail(outbox[p]))
        BY <1>1, <1>2, CountTail, TimesIsCount
      <4>2. Times(f, outbox[p]) <= 1 /\ outbox'[q] = Tail(outbox[p])
        BY <1>4, <3>1, <3>3
      <4>3. Times(f, Tail(outbox[p])) <= 1
        BY <4>1, <4>2
      <4> QED BY <4>2, <4>3
    <3> QED BY <3>2, <3>3
  <2> QED BY <1>1, <2>1 DEF OneInBox, Listed
<1>8. ASSUME NEW f \in Listed PROVE Spots(f)' = Spots(f)
  <2>1. \A q : q # p => (q \in InBoxes(f) <=> q \in InBoxes(f)')
    BY <1>4 DEF InBoxes
  <2>2. /\ Contains(outbox[p], f) => Count(f, outbox[p]) >= 1
        /\ Head(outbox[p]) = f => Count(f, outbox[p]) = Count(f, Tail(outbox[p])) + 1
        /\ Count(f, Tail(outbox[p])) \in Nat
        /\ ~Contains(outbox[p], f) => Count(f, outbox[p]) = 0
    BY <1>1, ContainsCount, CountTail
  <2>3. Count(f, outbox[p]) <= 1
    <3>1. Times(f, outbox[p]) <= 1
      BY DEF CInv, OneInBox
    <3> QED BY <3>1, TimesIsCount
  <2>4. Contains(Tail(outbox[p]), f) <=> Head(outbox[p]) # f /\ Contains(outbox[p], f)
    BY <1>1, <2>3, ContainsTail
  <2>5. g = f => Contains(outbox[p], f)
    BY <1>2, <2>2
  <2>6. /\ g = f => p \in InBoxes(f) /\ p \notin InBoxes(f)'
        /\ g # f => (p \in InBoxes(f) <=> p \in InBoxes(f)')
    BY <1>2, <1>4, <2>4, <2>5 DEF InBoxes
  <2>7. /\ Cardinality(InBoxes(f)) \in Nat
        /\ g = f => Cardinality(InBoxes(f)') = Cardinality(InBoxes(f)) - 1
        /\ g # f => Cardinality(InBoxes(f)') = Cardinality(InBoxes(f))
    BY <2>1, <2>6, SpotsNat, OneMoves DEF CInv
  <2>8. g = f => Cardinality(InBoxes(f)) # 0
    BY <2>6, SpotsNat, FS_EmptySet DEF CInv
  <2>9. /\ Times(f, pipe) \in Nat
        /\ g = f => Times(f, Append(pipe, g)) = Times(f, pipe) + 1
        /\ g # f => Times(f, Append(pipe, g)) = Times(f, pipe)
    BY <1>1, CountAppend, TimesIsCount
  <2>10. /\ Times(f, pipe') = Times(f, Append(pipe, g))
         /\ Times(f, jobQueue') = Times(f, jobQueue) /\ Times(f, jobQueue) \in Nat
         /\ Times(f, logged') = Times(f, logged) /\ Times(f, logged) \in Nat
         /\ InHands(f)' = InHands(f) /\ Cardinality(InHands(f)) \in Nat
    BY <1>1, <1>2, SpotsNat DEF CInv, InHands
  <2>11. Times(f, pipe') + Cardinality(InBoxes(f)') = Times(f, pipe) + Cardinality(InBoxes(f))
    BY <2>7, <2>9, <2>10
  <2>12. Times(f, pipe') \in Nat /\ Cardinality(InBoxes(f)') \in Nat
    BY <2>7, <2>8, <2>9, <2>10
  <2> QED BY <2>7, <2>9, <2>10, <2>11, <2>12 DEF Spots
<1>9. Spread'
  BY <1>1, <1>8 DEF CInv, Spread, Begun, Listed
<1> QED BY <1>5, <1>6, <1>7, <1>9 DEF CInv

(* So the processes keep the invariant.                                     *)
LEMMA SenderInv ==
  ASSUME CInv, NEW p \in Senders, Sender(p) \/ Feed(p)
  PROVE  CInv'
<1>1. Begun
  BY WorkBegun
<1>2. CASE Connect(p)
  <2>1. PICK to \in {"get", "leave"} : SenderGoes(p, to)
    BY <1>2 DEF Connect
  <2>2. inHand[p] = Stop
    BY <1>2 DEF Connect, CInv, HandsFull
  <2>3. UNCHANGED <<options, listed, front, ending, jobQueue, inHand, outbox, pipe, logged>>
    BY <1>2 DEF Connect
  <2> QED BY <1>1, <2>1, <2>2, <2>3, SenderMoves DEF SenderStates
<1>3. CASE Leave(p)
  <2>1. /\ SenderGoes(p, "gone")
        /\ UNCHANGED <<options, listed, front, ending, jobQueue, inHand, outbox, pipe, logged>>
    BY <1>3 DEF Leave
  <2> QED BY <1>1, <2>1, SenderMoves DEF SenderStates
<1>4. CASE OpenFile(p) \/ SendFile(p) \/ SaveFile(p)
  <2>1. /\ sending[p] \in {"open", "send", "save"}
        /\ UNCHANGED <<options, listed, front, ending, jobQueue, pipe, logged>>
        /\ \/ PutResult(p)
           \/ /\ UNCHANGED <<inHand, outbox>>
              /\ \E to \in {"send", "save", "leave"} : SenderGoes(p, to)
    BY <1>4 DEF OpenFile, SendFile, SaveFile
  <2>2. inHand[p] \in Listed
    BY <2>1 DEF CInv, HandsFull
  <2>3. CASE PutResult(p)
    BY <1>1, <2>1, <2>3, PutInv
  <2>4. CASE UNCHANGED <<inHand, outbox>> /\ \E to \in {"send", "save", "leave"} : SenderGoes(p, to)
    <3>1. PICK to \in {"send", "save", "leave"} : SenderGoes(p, to)
      BY <2>4
    <3> QED BY <1>1, <2>1, <2>2, <2>4, <3>1, SenderMoves DEF SenderStates
  <2> QED BY <2>1, <2>3, <2>4
<1> QED BY <1>1, <1>2, <1>3, <1>4, FetchInv, FeedInv DEF Sender
(* What an interrupt makes of each process.                                 *)
LEMMA InterruptParts ==
  ASSUME CInv, Interrupt
  PROVE  /\ front = "collect" /\ front' = "wait" /\ ending' = "interrupt"
         /\ UNCHANGED <<options, listed, jobQueue, pipe, logged>>
         /\ sending' \in [Senders -> SenderStates]
         /\ inHand' \in [Senders -> Listed \cup {Stop}]
         /\ outbox' \in [Senders -> Seq(Listed)]
         /\ \A p \in Senders :
              /\ sending'[p] = "get" =>
                   /\ inHand[p] \in Listed /\ inHand'[p] = Stop
                   /\ outbox'[p] = Append(outbox[p], inHand[p])
              /\ sending'[p] # "get" =>
                   inHand'[p] = inHand[p] /\ outbox'[p] \in {outbox[p], <<>>}
              /\ sending'[p] = "send" => inHand[p] \in Listed
              /\ sending'[p] \notin {"new", "connect", "open", "save"}
<1>1. /\ front = "collect" /\ front' = "wait" /\ ending' = "interrupt"
      /\ UNCHANGED <<options, listed, jobQueue, pipe, logged>>
      /\ sending' \in [Senders -> {"leave", "get", "send", "gone"}]
      /\ \A p \in Senders : sending'[p] \in Interrupted(p)
      /\ inHand' = [p \in Senders |-> IF sending'[p] = "get" THEN Stop ELSE inHand[p]]
      /\ outbox' = [p \in Senders |->
           IF sending'[p] = "get" THEN Append(outbox[p], inHand[p])
           ELSE IF sending'[p] = "gone" THEN <<>> ELSE outbox[p]]
  BY DEF Interrupt
<1>2. /\ sending \in [Senders -> SenderStates]
      /\ inHand \in [Senders -> Listed \cup {Stop}]
      /\ outbox \in [Senders -> Seq(Listed)]
  BY DEF CInv, CloudTypeOK, SenderStates
<1>3. ASSUME NEW p \in Senders, sending'[p] \in {"get", "send"}
      PROVE  inHand[p] \in Listed
  <2>1. sending'[p] \in Interrupted(p)
    BY <1>1
  <2>2. sending[p] \in {"send", "save"}
    BY <1>3, <2>1 DEF Interrupted
  <2> QED BY <2>2 DEF CInv, HandsFull
<1>4. ASSUME NEW p \in Senders PROVE outbox'[p] \in Seq(Listed)
  <2>1. CASE sending'[p] = "get"
    <3>1. inHand[p] \in Listed /\ outbox[p] \in Seq(Listed)
      BY <1>2, <1>3, <2>1
    <3>2. Append(outbox[p], inHand[p]) \in Seq(Listed)
      BY <3>1, AppendProperties
    <3> QED BY <1>1, <2>1, <3>2
  <2>2. CASE sending'[p] # "get"
    BY <1>1, <1>2, <2>2, EmptySeq
  <2> QED BY <2>1, <2>2
<1>5. outbox' \in [Senders -> Seq(Listed)]
  BY <1>1, <1>4
<1>6. sending' \in [Senders -> SenderStates] /\ inHand' \in [Senders -> Listed \cup {Stop}]
  BY <1>1, <1>2 DEF SenderStates
<1> QED BY <1>1, <1>3, <1>5, <1>6

(* An interrupt may lose files, and brings none to a second place: what is  *)
(* new in a box has left the hand.                                          *)
LEMMA InterruptInv ==
  ASSUME CInv, Interrupt
  PROVE  CInv'
<1>1. /\ front = "collect" /\ front' = "wait" /\ ending' = "interrupt"
      /\ UNCHANGED <<options, listed, jobQueue, pipe, logged>>
      /\ sending' \in [Senders -> SenderStates]
      /\ inHand' \in [Senders -> Listed \cup {Stop}]
      /\ outbox' \in [Senders -> Seq(Listed)]
  BY InterruptParts
<1>2. ASSUME NEW p \in Senders
      PROVE  /\ sending'[p] = "get" =>
                  /\ inHand[p] \in Listed /\ inHand'[p] = Stop
                  /\ outbox'[p] = Append(outbox[p], inHand[p])
             /\ sending'[p] # "get" =>
                  inHand'[p] = inHand[p] /\ outbox'[p] \in {outbox[p], <<>>}
             /\ sending'[p] = "send" => inHand[p] \in Listed
             /\ sending'[p] \notin {"new", "connect", "open", "save"}
  BY InterruptParts
<1>3. Begun /\ Begun'
  BY <1>1 DEF CInv, Course, Begun
<1>4. CloudTypeOK'
  BY <1>1 DEF CInv, CloudTypeOK, SenderStates, Listed
<1>5. Course'
  BY <1>1, <1>3 DEF CInv, Course
<1>6. HandsFull'
  <2>1. ASSUME NEW p \in Senders
        PROVE  /\ sending'[p] \in {"open", "send", "save"} => inHand'[p] \in Listed
               /\ sending'[p] \in {"new", "connect", "get"} => inHand'[p] = Stop
    BY <1>2
  <2> QED BY <1>1, <2>1 DEF HandsFull, Listed
<1>7. ASSUME NEW p \in Senders, NEW f \in Listed
      PROVE  /\ Times(f, outbox'[p]) <= 1
             /\ p \in InBoxes(f)' =>
                  p \in InBoxes(f) \/ (p \in InHands(f) /\ p \notin InHands(f)')
  <2>1. outbox[p] \in Seq(Listed) /\ Times(f, outbox[p]) <= 1
    BY DEF CInv, CloudTypeOK, OneInBox
  <2>2. CASE sending'[p] = "get"
    <3>1. PICK g \in Listed : g = inHand[p]
      BY <1>2, <2>2
    <3>2. outbox'[p] = Append(outbox[p], g) /\ inHand'[p] = Stop
      BY <1>2, <2>2, <3>1
    <3>3. g = f => Times(f, outbox[p]) = 0
      BY <1>3, <3>1, HeldNotBoxed
    <3>4. /\ Times(f, outbox[p]) \in Nat
          /\ g = f => Times(f, Append(outbox[p], g)) = Times(f, outbox[p]) + 1
          /\ g # f => Times(f, Append(outbox[p], g)) = Times(f, outbox[p])
      BY <2>1, CountAppend, TimesIsCount
    <3>5. Times(f, Append(outbox[p], g)) <= 1
      BY <2>1, <3>3, <3>4
    <3>6. Contains(Append(outbox[p], g), f) <=> g = f \/ Contains(outbox[p], f)
      BY <2>1, ContainsAppend
    <3>7. p \in InBoxes(f)' => g = f \/ p \in InBoxes(f)
      BY <3>2, <3>6 DEF InBoxes
    <3>8. g = f => p \in InHands(f) /\ p \notin InHands(f)'
      <4>1. f # Stop
        BY <1>7 DEF Listed, Stop
      <4>2. inHand'[p] # f
        BY <3>2, <4>1
      <4>3. p \notin InHands(f)'
        BY <4>2 DEF InHands
      <4> QED BY <3>1, <4>3 DEF InHands
    <3> QED BY <3>2, <3>5, <3>7, <3>8
  <2>3. CASE sending'[p] # "get"
    <3>1. outbox'[p] \in {outbox[p], <<>>}
      BY <1>2, <2>3
    <3>2. Times(f, <<>>) = 0 /\ ~Contains(<<>>, f)
      BY EmptyCount, TimesIsCount DEF Contains
    <3>3. Times(f, outbox'[p]) <= 1
      BY <2>1, <3>1, <3>2
    <3>4. p \in InBoxes(f)' => p \in InBoxes(f)
      BY <3>1, <3>2 DEF InBoxes
    <3> QED BY <3>3, <3>4
  <2> QED BY <2>2, <2>3
<1>8. OneInBox'
  BY <1>1, <1>7 DEF OneInBox, Listed
<1>9. ASSUME NEW f \in Listed
      PROVE  Spots(f)' \in Nat /\ Spots(f)' <= Spots(f)
  <2> DEFINE H == InHands(f)
             B == InBoxes(f)
             lost == H \ InHands(f)'
  <2>1. InHands(f)' \in SUBSET H
    <3>1. ASSUME NEW p \in Senders, inHand'[p] = f PROVE inHand[p] = f
      BY <1>2, <1>9, <3>1 DEF Listed, Stop
    <3> QED BY <3>1 DEF InHands
  <2>2. InBoxes(f)' \in SUBSET (B \cup lost)
    <3>1. InBoxes(f)' \in SUBSET Senders
      BY DEF InBoxes
    <3> QED BY <1>7, <3>1
  <2>3. IsFiniteSet(H) /\ IsFiniteSet(B) /\ Cardinality(H) \in Nat /\ Cardinality(B) \in Nat
    BY SpotsNat DEF CInv
  <2> HIDE DEF H, B
  <2>4. IsFiniteSet(InHands(f)') /\ Cardinality(InHands(f)') \in Nat
    BY <2>1, <2>3, FS_Subset, FS_CardinalityType
  <2>5. /\ IsFiniteSet(lost) /\ Cardinality(lost) \in Nat
        /\ Cardinality(lost) = Cardinality(H) - Cardinality(InHands(f)')
    <3>1. H \cap InHands(f)' = InHands(f)'
      BY <2>1
    <3> QED BY <2>3, <3>1, FS_Difference, FS_CardinalityType
  <2> HIDE DEF lost
  <2>6. /\ IsFiniteSet(B \cup lost) /\ Cardinality(B \cup lost) \in Nat
        /\ Cardinality(B \cup lost) <= Cardinality(B) + Cardinality(lost)
    <3>1. /\ IsFiniteSet(B \cup lost)
          /\ Cardinality(B \cup lost) = Cardinality(B) + Cardinality(lost) - Cardinality(B \cap lost)
      BY <2>3, <2>5, FS_Union
    <3>2. B \cap lost \in SUBSET B
      OBVIOUS
    <3>3. Cardinality(B \cap lost) \in Nat
      BY <2>3, <3>2, FS_Subset, FS_CardinalityType
    <3>4. Cardinality(B \cup lost) \in Nat
      BY <3>1, FS_CardinalityType
    <3> QED BY <2>3, <2>5, <3>1, <3>3, <3>4
  <2>7. /\ Cardinality(InBoxes(f)') \in Nat
        /\ Cardinality(InBoxes(f)') <= Cardinality(B \cup lost)
    BY <2>2, <2>6, FS_Subset, FS_CardinalityType
  <2>8. Cardinality(InHands(f)') + Cardinality(InBoxes(f)') <= Cardinality(H) + Cardinality(B)
    BY <2>3, <2>4, <2>5, <2>6, <2>7
  <2>9. /\ Times(f, jobQueue') = Times(f, jobQueue) /\ Times(f, jobQueue) \in Nat
        /\ Times(f, pipe') = Times(f, pipe) /\ Times(f, pipe) \in Nat
        /\ Times(f, logged') = Times(f, logged) /\ Times(f, logged) \in Nat
    BY <1>1, SpotsNat DEF CInv
  <2>10. /\ Spots(f)' = Times(f, jobQueue') + Times(f, pipe') + Times(f, logged')
                          + Cardinality(InHands(f)') + Cardinality(InBoxes(f)')
         /\ Spots(f) = Times(f, jobQueue) + Times(f, pipe) + Times(f, logged)
                          + Cardinality(H) + Cardinality(B)
    BY DEF Spots, H, B
  <2> QED BY <2>3, <2>4, <2>7, <2>8, <2>9, <2>10
<1>10. Spread'
  <2>1. ASSUME NEW f \in Listed PROVE Spots(f)' <= 1
    <3>1. Spots(f) = 1
      BY <1>1, <1>3 DEF CInv, Course, Spread
    <3> QED BY <1>9, <3>1
  <2> QED BY <1>1, <2>1 DEF Spread, Listed
<1> QED BY <1>4, <1>5, <1>6, <1>8, <1>10 DEF CInv
(* The invariant holds at first, and after every step,                      *)
LEMMA CloudInvariant == CloudSpec => []CInv
<1>1. CloudInit => CInv
  <2> SUFFICES ASSUME CloudInit PROVE CInv
    OBVIOUS
  <2>1. /\ options \in Options /\ listed \in 0 .. MaxListed /\ front = "list" /\ Idle
    BY DEF CloudInit
  <2>2. /\ <<>> \in Seq(Listed \cup {Stop}) /\ <<>> \in Seq(Listed) /\ Len(<<>>) = 0
    BY EmptySeq
  <2>3. CloudTypeOK
    BY <2>1, <2>2, CloudAssumption DEF CloudTypeOK, Idle
  <2>4. Course /\ HandsFull /\ Spread
    BY <2>1 DEF Course, HandsFull, Spread, Begun, Idle
  <2>5. OneInBox
    <3>1. \A f : Times(f, <<>>) = 0
      BY EmptyCount, TimesIsCount
    <3> QED BY <2>1, <3>1 DEF OneInBox, Idle
  <2> QED BY <2>3, <2>4, <2>5 DEF CInv
<1>2. CInv /\ [CloudNext]_cloudVars => CInv'
  <2> SUFFICES ASSUME CInv, [CloudNext]_cloudVars PROVE CInv'
    OBVIOUS
  <2>1. CASE CloudMain
    BY <2>1, OneFileInv, StartInv, CollectInv DEF CloudMain
  <2>2. CASE Interrupt
    BY <2>2, InterruptInv
  <2>3. CASE \E p \in Senders : Sender(p) \/ Feed(p)
    BY <2>3, SenderInv
  <2>4. CASE UNCHANGED cloudVars
    <3>1. UNCHANGED <<options, listed, front, ending, jobQueue, sending, inHand, outbox, pipe, logged>>
      BY <2>4 DEF cloudVars
    <3>2. CloudTypeOK' /\ Course' /\ HandsFull' /\ OneInBox'
      BY <3>1 DEF CInv, CloudTypeOK, Course, HandsFull, OneInBox, Begun, Idle, Listed
    <3>3. \A f : Spots(f)' = Spots(f)
      BY <3>1 DEF Spots, InHands, InBoxes
    <3>4. Spread'
      BY <3>1, <3>3 DEF CInv, Spread, Begun, Listed
    <3> QED BY <3>2, <3>4 DEF CInv
  <2> QED BY <2>1, <2>2, <2>3, <2>4 DEF CloudNext
<1> QED BY <1>1, <1>2, PTL DEF CloudSpec

(* The variables of cloudscan.py always have their types.                   *)
THEOREM CloudTypeCorrect == CloudSpec => []CloudTypeOK
<1>1. CInv => CloudTypeOK
  BY DEF CInv
<1> QED BY <1>1, CloudInvariant, PTL

(* From the list to the log each file is in one place, whichever way the    *)
(* processes fail, for every number of files and processes and every size   *)
(* of the pipe; an interrupt, or a log that cannot be written, may lose     *)
(* results and doubles none.                                                *)
THEOREM CloudEachOnce == CloudSpec => []EachOnce
<1>1. CInv => EachOnce
  BY DEF CInv, Course, Spread, Begun, Spots, InHands, InBoxes, EachOnce
<1> QED BY <1>1, CloudInvariant, PTL

(* When main leaves its loop for having counted the results, the log has    *)
(* one for every file, no process has dropped one, and all that is left in  *)
(* the queue is for processes to stop on.                                   *)
THEOREM CloudLogComplete == CloudSpec => []LogComplete
<1>1. CInv => LogComplete
  <2> SUFFICES ASSUME CInv, ending = "complete"
               PROVE  /\ ToSet(logged) = Listed /\ Len(logged) = listed
                      /\ Dropped = {} /\ pipe = <<>>
                      /\ ToSet(jobQueue) \subseteq {Stop}
    BY DEF LogComplete
  <2>1. Begun /\ Len(logged) = listed
    BY DEF CInv, Course
  <2>2. /\ listed \in Nat /\ logged \in Seq(Listed) /\ pipe \in Seq(Listed)
        /\ jobQueue \in Seq(Listed \cup {Stop})
        /\ inHand \in [Senders -> Listed \cup {Stop}]
    BY CloudAssumption DEF CInv, CloudTypeOK
  <2>3. ASSUME NEW f \in Listed
        PROVE  /\ Times(f, jobQueue) \in Nat /\ Times(f, pipe) \in Nat /\ Times(f, logged) \in Nat
               /\ Cardinality(InHands(f)) \in Nat
               /\ Times(f, jobQueue) + Times(f, pipe) + Times(f, logged)
                    + Cardinality(InHands(f)) <= 1
    <3>1. Spots(f) = 1
      BY <2>1 DEF CInv, Spread
    <3>2. /\ Times(f, jobQueue) \in Nat /\ Times(f, pipe) \in Nat /\ Times(f, logged) \in Nat
          /\ Cardinality(InHands(f)) \in Nat /\ Cardinality(InBoxes(f)) \in Nat
      BY SpotsNat DEF CInv
    <3>3. \A i, j, k, m, n \in Nat : i + j + k + m + n = 1 => i + j + k + m <= 1
      OBVIOUS
    <3> QED BY <3>1, <3>2, <3>3 DEF Spots
  <2>4. \A i \in DOMAIN logged : logged[i] \in Listed
    BY <2>2, ElementOfSeq
  <2>5. IsInjective(logged)
    <3>1. ASSUME NEW i \in DOMAIN logged, NEW j \in DOMAIN logged, logged[i] = logged[j]
          PROVE  i = j
      <4>1. PICK f \in Listed : f = logged[i]
        BY <2>4
      <4>2. Times(f, logged) <= 1
        BY <2>3
      <4>3. Count(f, logged) <= 1
        BY <4>2, TimesIsCount
      <4> QED BY <2>2, <3>1, <4>1, <4>3, CountOne
    <3> QED BY <3>1 DEF IsInjective
  <2>6. ToSet(logged) = Listed
    <3>1. ToSet(logged) \in SUBSET Listed
      BY <2>4 DEF ToSet
    <3>2. IsFiniteSet(Listed) /\ Cardinality(Listed) = listed
      BY <2>2, FS_Interval DEF Listed
    <3>3. Cardinality(ToSet(logged)) = listed
      BY <2>1, <2>2, <2>5, SizeOfInjective
    <3> QED BY <3>1, <3>2, <3>3, FS_Subset
  <2>7. ASSUME NEW f \in Listed
        PROVE  /\ Times(f, jobQueue) = 0 /\ Times(f, pipe) = 0
               /\ Cardinality(InHands(f)) = 0
    <3>1. Count(f, logged) >= 1
      BY <2>2, <2>6, CountOne
    <3>2. Times(f, logged) >= 1
      BY <3>1, TimesIsCount
    <3>3. \A i, j, k, m \in Nat : i + j + k + m <= 1 /\ k >= 1 => i = 0 /\ j = 0 /\ m = 0
      OBVIOUS
    <3> QED BY <2>3, <3>2, <3>3
  <2>8. Dropped = {}
    <3>1. ASSUME NEW p \in Senders, inHand[p] # Stop PROVE FALSE
      <4>1. PICK f \in Listed : f = inHand[p]
        BY <2>2, <3>1
      <4>2. p \in InHands(f)
        BY <4>1 DEF InHands
      <4>3. Cardinality(InHands(f)) # 0
        BY <4>2, SpotsNat, FS_EmptySet DEF CInv
      <4> QED BY <2>7, <4>3
    <3> QED BY <3>1 DEF Dropped
  <2>9. pipe = <<>>
    <3>1. ASSUME pipe # <<>> PROVE FALSE
      <4>1. Head(pipe) = pipe[1] /\ 1 \in DOMAIN pipe /\ Head(pipe) \in Listed
        BY <2>2, <3>1, HeadTailProperties, EmptySeq
      <4>2. PICK f \in Listed : f = Head(pipe)
        BY <4>1
      <4>3. f \in ToSet(pipe)
        BY <4>1, <4>2 DEF ToSet
      <4>4. Count(f, pipe) >= 1
        BY <2>2, <4>3, CountOne
      <4>5. Times(f, pipe) >= 1
        BY <4>4, TimesIsCount
      <4> QED BY <2>7, <4>5
    <3> QED BY <3>1
  <2>10. ToSet(jobQueue) \subseteq {Stop}
    <3>1. ASSUME NEW f \in ToSet(jobQueue), f # Stop PROVE FALSE
      <4>1. f \in Listed
        BY <2>2, <3>1, ElementOfSeq DEF ToSet
      <4>2. Count(f, jobQueue) >= 1
        BY <2>2, CountOne
      <4>3. Times(f, jobQueue) >= 1
        BY <4>2, TimesIsCount
      <4> QED BY <2>7, <4>1, <4>3
    <3> QED BY <3>1
  <2> QED BY <2>1, <2>6, <2>8, <2>9, <2>10
<1> QED BY <1>1, CloudInvariant, PTL

(* The processes that have not left their loop, for each of which there is  *)
(* a "STOP" in the queue.                                                   *)
Working == {p \in Senders : sending[p] \in {"connect", "get", "open", "send", "save"}}

Stops == Begun => Cardinality(Working) <= Times(Stop, jobQueue)

(* A step that lets no process begin, and takes nothing from the queue.     *)
LEMMA StopsKept ==
  ASSUME CInv, Stops, Begun, Working' \subseteq Working, jobQueue' = jobQueue
  PROVE  Stops'
<1>1. IsFiniteSet(Working) /\ Cardinality(Working) \in Nat
  <2>1. IsFiniteSet(Senders)
    BY CloudAssumption, FS_Interval DEF Senders
  <2>2. Working \in SUBSET Senders
    BY DEF Working
  <2> QED BY <2>1, <2>2, FS_Subset, FS_CardinalityType
<1>2. Cardinality(Working') <= Cardinality(Working) /\ Cardinality(Working') \in Nat
  <2>1. Working' \in SUBSET Working
    OBVIOUS
  <2> QED BY <1>1, <2>1, FS_Subset, FS_CardinalityType
<1>3. Times(Stop, jobQueue) \in Nat /\ Times(Stop, jobQueue') = Times(Stop, jobQueue)
  BY SpotsNat DEF CInv
<1> QED BY <1>1, <1>2, <1>3 DEF Stops

(* Each step keeps a "STOP" for every process.                              *)
LEMMA StopsStep == CInv /\ Stops /\ [CloudNext]_cloudVars => Stops'
<1> SUFFICES ASSUME CInv, Stops, [CloudNext]_cloudVars PROVE Stops'
  OBVIOUS
<1>1. CASE StartSenders
  <2>1. CASE front' = "refused"
    BY <2>1 DEF Stops, Begun
  <2>2. CASE front' # "refused"
    <3>1. /\ sending' = [p \in Senders |-> "connect"] /\ listed \in Nat
          /\ jobQueue' = [i \in 1 .. listed |-> i] \o [p \in Senders |-> Stop]
      <4>1. listed \in Nat
        BY CloudAssumption DEF CInv, CloudTypeOK
      <4> QED BY <1>1, <2>2, <4>1 DEF StartSenders
    <3>2. Times(Stop, jobQueue') = CloudProcs
      BY <3>1, JobCounts
    <3>3. Working' = Senders
      BY <3>1 DEF Working
    <3>4. Cardinality(Senders) = CloudProcs /\ CloudProcs \in Nat
      BY CloudAssumption, FS_Interval DEF Senders
    <3> QED BY <3>2, <3>3, <3>4 DEF Stops
  <2> QED BY <2>1, <2>2
<1>2. CASE ReadOne \/ AskOne \/ SaveOne
  BY <1>2 DEF ReadOne, AskOne, SaveOne, OneFile, CInv, Course, Begun, Stops
<1>3. CASE Collect \/ CollectedAll \/ AwaitSenders \/ UNCHANGED cloudVars
  <2>1. UNCHANGED <<sending, jobQueue>> /\ (Begun' => Begun)
    BY <1>3 DEF Collect, CollectedAll, AwaitSenders, cloudVars, senderVars, Begun
  <2>2. Working' = Working
    BY <2>1 DEF Working
  <2> QED BY <2>1, <2>2, StopsKept DEF Stops
<1>4. CASE Interrupt
  <2>1. UNCHANGED <<jobQueue, options>> /\ front = "collect" /\ Begun
    BY <1>4 DEF Interrupt, CInv, Course, Begun
  <2>2. ASSUME NEW p \in Senders, p \in Working' PROVE p \in Working
    <3>1. sending'[p] \in Interrupted(p)
      BY <1>4 DEF Interrupt
    <3>2. sending'[p] \in {"connect", "get", "open", "send", "save"}
      BY <2>2 DEF Working
    <3>3. sending[p] \in {"send", "save"}
      BY <3>1, <3>2 DEF Interrupted
    <3> QED BY <3>3 DEF Working
  <2>3. Working' \subseteq Working
    <3>1. Working' \subseteq Senders
      BY DEF Working
    <3> QED BY <2>2, <3>1
  <2> QED BY <2>1, <2>3, StopsKept
<1>5. ASSUME NEW p \in Senders, Sender(p) \/ Feed(p) PROVE Stops'
  <2>1. Begun /\ sending \in [Senders -> SenderStates]
    BY <1>5, WorkBegun DEF CInv, CloudTypeOK, SenderStates
  <2>2. CASE ~Fetch(p)
    <3>1. /\ jobQueue' = jobQueue
          /\ \/ sending' = sending
             \/ \E to \in {"get", "send", "save", "leave", "gone"} :
                  SenderGoes(p, to) /\ (p \in Working \/ to = "gone")
      BY <1>5, <2>2 DEF Sender, Feed, Connect, OpenFile, SendFile, SaveFile, Leave, PutResult, Working
    <3>2. Working' \subseteq Working
      BY <2>1, <3>1 DEF Working, SenderGoes
    <3> QED BY <2>1, <3>1, <3>2, StopsKept
  <2>3. CASE Fetch(p)
    <3>1. /\ sending[p] = "get" /\ jobQueue # <<>> /\ jobQueue' = Tail(jobQueue)
          /\ sending' = [sending EXCEPT ![p] = IF Head(jobQueue) = Stop THEN "leave" ELSE "open"]
          /\ jobQueue \in Seq(Listed \cup {Stop})
      BY <2>3 DEF Fetch, SenderGoes, CInv, CloudTypeOK
    <3>2. /\ Times(Stop, Tail(jobQueue)) \in Nat
          /\ Head(jobQueue) = Stop => Times(Stop, jobQueue) = Times(Stop, Tail(jobQueue)) + 1
          /\ Head(jobQueue) # Stop => Times(Stop, jobQueue) = Times(Stop, Tail(jobQueue))
      BY <3>1, CountTail, TimesIsCount
    <3>3. /\ \A q : q # p => (q \in Working <=> q \in Working')
          /\ p \in Working /\ (p \in Working' <=> Head(jobQueue) # Stop)
      BY <2>1, <3>1 DEF Working
    <3>4. IsFiniteSet(Working)
      <4>1. IsFiniteSet(Senders)
        BY CloudAssumption, FS_Interval DEF Senders
      <4>2. Working \in SUBSET Senders
        BY DEF Working
      <4> QED BY <4>1, <4>2, FS_Subset
    <3>5. /\ Cardinality(Working) \in Nat
          /\ Head(jobQueue) # Stop => Cardinality(Working') = Cardinality(Working)
          /\ Head(jobQueue) = Stop => Cardinality(Working') = Cardinality(Working) - 1
      BY <3>3, <3>4, OneMoves
    <3>6. Times(Stop, jobQueue') = Times(Stop, Tail(jobQueue))
      BY <3>1
    <3>7. Cardinality(Working) <= Times(Stop, jobQueue)
      BY <2>1 DEF Stops
    <3> QED BY <3>2, <3>5, <3>6, <3>7 DEF Stops
  <2> QED BY <2>2, <2>3
<1> QED BY <1>1, <1>2, <1>3, <1>4, <1>5 DEF CloudNext, CloudMain

(* No process waits for a job that will never come.                         *)
StopsSuffice == \A p \in Senders : sending[p] = "get" => jobQueue # <<>>

(* There is a "STOP" for each process, whichever of them left without one   *)
(* because it could not connect, could not save or was interrupted.         *)
THEOREM NoSenderStarves == CloudSpec => []StopsSuffice
<1>1. CloudInit => Stops
  BY DEF CloudInit, Stops, Begun
<1>2. CInv /\ Stops => StopsSuffice
  <2> SUFFICES ASSUME CInv, Stops, NEW p \in Senders, sending[p] = "get", jobQueue = <<>>
               PROVE  FALSE
    BY DEF StopsSuffice
  <2>1. Begun
    BY DEF CInv, Course, Idle
  <2>2. Times(Stop, jobQueue) = 0
    BY EmptyCount, TimesIsCount
  <2>3. IsFiniteSet(Working) /\ Cardinality(Working) \in Nat
    <3>1. IsFiniteSet(Senders)
      BY CloudAssumption, FS_Interval DEF Senders
    <3>2. Working \in SUBSET Senders
      BY DEF Working
    <3> QED BY <3>1, <3>2, FS_Subset, FS_CardinalityType
  <2>4. Cardinality(Working) = 0
    BY <2>1, <2>2, <2>3 DEF Stops
  <2>5. Working = {}
    BY <2>3, <2>4, FS_EmptySet
  <2> QED BY <2>5 DEF Working
<1> QED BY <1>1, <1>2, CloudInvariant, StopsStep, PTL DEF CloudSpec
===========================================================================
