----------------------------- MODULE LaikaPool -----------------------------
(***************************************************************************)
(* The command line scanner laika.py: main puts the files to scan and one  *)
(* poison pill per Consumer process into a JoinableQueue, waits for the    *)
(* queue to be worked off, waits for the progress bar, and prints as many  *)
(* results as there are files.                                             *)
(*                                                                         *)
(* A file is its position in the list.  The content of a result is left    *)
(* out (it is empty after a scan that failed).                             *)
(***************************************************************************)
EXTENDS Naturals, Sequences, FiniteSets, SequencesExt

CONSTANTS
  MaxJobs,        \* bound: files of a call
  NumProcs        \* NUM_PROCS as configured

ASSUME PoolAssumption == MaxJobs \in Nat /\ NumProcs \in Nat \ {0}

Files == 1 .. MaxJobs
Consumers == 1 .. NumProcs
Pill == 0

VARIABLES
  jobs,           \* num_jobs at the start
  main,           \* what the main process is at
  unput,          \* what it has still to put into the queue
  tasks,          \* the JoinableQueue
  unfinished,     \* its count of tasks put and not yet task_done()
  doing,          \* the consumers
  results,        \* the Queue of results
  printed,        \* the files whose result has been printed
  monitor         \* the progress bar

vars == <<jobs, main, unput, tasks, unfinished, doing, results, printed, monitor>>

MainStates == {"putting", "joining", "watching", "printing", "ended", "cancelled"}

(* "report": task_done() has been called, the result has not been put.      *)
(* "unread": ended by a file that it could not open; "dead": by a scan that *)
(* failed, or terminated.                                                   *)
ConsumerStates == {"get", "open", "scan", "report", "report_and_die", "ended", "unread", "dead"}

TypeOK ==
  /\ jobs \in 0 .. MaxJobs
  /\ main \in MainStates
  /\ unput \in Seq(Files \cup {Pill})
  /\ tasks \in Seq(Files \cup {Pill})
  /\ unfinished \in Nat
  /\ doing \in [Consumers -> [at : ConsumerStates, file : Files \cup {Pill}]]
  /\ results \in Seq(Files)
  /\ printed \in Seq(Files)
  /\ monitor \in {"off", "new", "looking", "done"}

---------------------------------------------------------------------------
(* No more processes than files.                                            *)
Procs(n) == IF n < NumProcs THEN n ELSE NumProcs

(* A slip: a pill for every process configured.                             *)
WorkConfigured(n) == [i \in 1 .. n |-> i] \o [i \in 1 .. NumProcs |-> Pill]

Work(n) == [i \in 1 .. n |-> i] \o [i \in 1 .. Procs(n) |-> Pill]

Init ==
  /\ jobs \in 0 .. MaxJobs
  /\ main = "putting"
  /\ unput = Work(jobs)
  /\ tasks = <<>>
  /\ unfinished = 0
  /\ doing = [c \in Consumers |-> [at |-> IF c <= Procs(jobs) THEN "get" ELSE "ended",
                                   file |-> Pill]]
  /\ results = <<>>
  /\ printed = <<>>
  /\ monitor \in {"off", "new"}

---------------------------------------------------------------------------
(* main: the consumers run already.                                         *)
Put ==
  /\ main = "putting" /\ unput # <<>>
  /\ tasks' = Append(tasks, Head(unput))
  /\ unput' = Tail(unput)
  /\ unfinished' = unfinished + 1
  /\ UNCHANGED <<jobs, main, doing, results, printed, monitor>>

StartMonitor ==
  /\ main = "putting" /\ unput = <<>>
  /\ main' = "joining"
  /\ monitor' = IF monitor = "new" THEN "looking" ELSE monitor
  /\ UNCHANGED <<jobs, unput, tasks, unfinished, doing, results, printed>>

(* A slip: only the files are waited for, not the pills.                    *)
JoinFiles ==
  /\ main = "joining" /\ \A i \in DOMAIN tasks : tasks[i] = Pill
  /\ main' = "watching"
  /\ UNCHANGED <<jobs, unput, tasks, unfinished, doing, results, printed, monitor>>

Join ==
  /\ main = "joining" /\ unfinished = 0
  /\ main' = "watching"
  /\ UNCHANGED <<jobs, unput, tasks, unfinished, doing, results, printed, monitor>>

JoinMonitor ==
  /\ main = "watching" /\ monitor # "looking"
  /\ main' = "printing"
  /\ UNCHANGED <<jobs, unput, tasks, unfinished, doing, results, printed, monitor>>

PrintResult ==
  /\ main = "printing" /\ Len(printed) < jobs /\ results # <<>>
  /\ printed' = Append(printed, Head(results))
  /\ results' = Tail(results)
  /\ UNCHANGED <<jobs, main, unput, tasks, unfinished, doing, monitor>>

Finish ==
  /\ main = "printing" /\ Len(printed) = jobs
  /\ main' = "ended"
  /\ UNCHANGED <<jobs, unput, tasks, unfinished, doing, results, printed, monitor>>

(* The user cancels: the consumers are terminated.                          *)
Cancel ==
  /\ main \notin {"ended", "cancelled"}
  /\ main' = "cancelled"
  /\ doing' = [c \in Consumers |-> IF doing[c].at \in {"ended", "unread", "dead"} THEN doing[c]
                                   ELSE [doing[c] EXCEPT !.at = "dead"]]
  /\ UNCHANGED <<jobs, unput, tasks, unfinished, results, printed, monitor>>

(* QueueMonitor: it looks at the length of the queue until that is 0.       *)
MonitorEnds ==
  /\ monitor = "looking" /\ tasks = <<>>
  /\ monitor' = "done"
  /\ UNCHANGED <<jobs, main, unput, tasks, unfinished, doing, results, printed>>

---------------------------------------------------------------------------
(* Consumer.run *)
MoveTo(c, at) == doing' = [doing EXCEPT ![c].at = at]

(* A slip: called in the handler and again on the way out.                  *)
TaskDoneTwice == unfinished' = unfinished - 2

TaskDone == unfinished' = unfinished - 1

Take(c) ==
  /\ doing[c].at = "get" /\ tasks # <<>>
  /\ tasks' = Tail(tasks)
  /\ IF Head(tasks) = Pill
     THEN /\ MoveTo(c, "ended")
          /\ TaskDone
     ELSE /\ doing' = [doing EXCEPT ![c] = [at |-> "open", file |-> Head(tasks)]]
          /\ UNCHANGED unfinished
  /\ UNCHANGED <<jobs, main, unput, results, printed, monitor>>

Open(c) ==
  /\ doing[c].at = "open"
  /\ MoveTo(c, "scan")
  /\ UNCHANGED <<jobs, main, unput, tasks, unfinished, results, printed, monitor>>

(* A slip: the task is not marked as done.                                  *)
OpenFailsUndone(c) ==
  /\ doing[c].at = "open"
  /\ MoveTo(c, "unread")
  /\ UNCHANGED <<jobs, main, unput, tasks, unfinished, results, printed, monitor>>

(* The file cannot be opened.  The handler marks the task as done and goes  *)
(* on to put a result it has no name for: the process ends with that error. *)
OpenFails(c) ==
  /\ doing[c].at = "open"
  /\ MoveTo(c, "unread")
  /\ TaskDone
  /\ UNCHANGED <<jobs, main, unput, tasks, results, printed, monitor>>

(* The scan ends, with the result saved and logged; or one of these fails,  *)
(* and the consumer breaks out of its loop.  The task is done either way.   *)
Scan(c) ==
  /\ doing[c].at = "scan"
  /\ \E failed \in BOOLEAN : MoveTo(c, IF failed THEN "report_and_die" ELSE "report")
  /\ TaskDone
  /\ UNCHANGED <<jobs, main, unput, tasks, results, printed, monitor>>

(* A slip: the result of a scan that failed is not put.                     *)
ReportGood(c) ==
  /\ doing[c].at \in {"report", "report_and_die"}
  /\ MoveTo(c, IF doing[c].at = "report" THEN "get" ELSE "dead")
  /\ results' = IF doing[c].at = "report" THEN Append(results, doing[c].file) ELSE results
  /\ UNCHANGED <<jobs, main, unput, tasks, unfinished, printed, monitor>>

Report(c) ==
  /\ doing[c].at \in {"report", "report_and_die"}
  /\ MoveTo(c, IF doing[c].at = "report" THEN "get" ELSE "dead")
  /\ results' = Append(results, doing[c].file)
  /\ UNCHANGED <<jobs, main, unput, tasks, unfinished, printed, monitor>>

---------------------------------------------------------------------------
Main == Put \/ StartMonitor \/ Join \/ JoinMonitor \/ PrintResult \/ Finish
Consumer(c) == Take(c) \/ Open(c) \/ OpenFails(c) \/ Scan(c) \/ Report(c)

Next == Main \/ Cancel \/ MonitorEnds \/ \E c \in Consumers : Consumer(c)

Spec == Init /\ [][Next]_vars

(* The processes run; no one needs to cancel.                               *)
FairSpec ==
  /\ Spec
  /\ WF_vars(Main) /\ WF_vars(MonitorEnds)
  /\ \A c \in Consumers : WF_vars(Consumer(c))

---------------------------------------------------------------------------
Holding == {c \in Consumers : doing[c].at \in {"open", "scan"}}
Count(f, s) == Cardinality({i \in DOMAIN s : s[i] = f})

(* What tasks.join() waits for is what is in the queue or being worked on:  *)
(* task_done() is called once for each task, whatever becomes of it.        *)
JoinCounts == main # "cancelled" => unfinished = Len(tasks) + Cardinality(Holding)

(* Until the call is cancelled no file is lost and none is reported twice:  *)
(* each is in one place, and only one that could not be opened goes without *)
(* a result.                                                                *)
OnePlace ==
  main # "cancelled" => \A f \in 1 .. jobs :
    Count(f, unput) + Count(f, tasks) + Count(f, results) + Count(f, printed)
      + Cardinality({c \in Consumers : doing[c].file = f
          /\ doing[c].at \in {"open", "scan", "report", "report_and_die", "unread"}}) = 1

(* A call that ends has printed every file, left no task or pill in the     *)
(* queue, and had no consumer die.                                          *)
EndsComplete ==
  main = "ended" =>
    /\ tasks = <<>> /\ results = <<>>
    /\ ToSet(printed) = 1 .. jobs
    /\ \A c \in Consumers : doing[c].at = "ended"

(* A call during which no consumer dies comes to an end, as does every      *)
(* consumer.                                                                *)
CallEnds ==
  [](\A c \in Consumers : doing[c].at \notin {"unread", "dead"})
    => <>(main \in {"ended", "cancelled"} /\ \A c \in Consumers : doing[c].at = "ended")

(* "Wait for all of the tasks to finish" (laika.py:331): they do, with "a   *)
(* poison pill for each consumer" (laika.py:323) in the queue.              *)
AllTasksFinish == <>(main \notin {"putting", "joining"})
===========================================================================
